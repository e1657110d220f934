----------------------------- MODULE PanelProofs -----------------------------
(***************************************************************************)
(* Theorems about the panel as a whole.  First those of the pages that     *)
(* have no proof module of their own: the stream of the overview, the      *)
(* watch of an update, the session and the types of the certificates.      *)
(* Then the pages together: a behaviour of the panel is a behaviour of     *)
(* each of its pages, so that the panel keeps to the types of them all.    *)
(***************************************************************************)
EXTENDS MCPanel, TrackingProofs, PageProofs, RoutingProofs, WellFoundedInduction

-----------------------------------------------------------------------------
(* Numbers and sums *)

\* A set of numbers that is not empty has a least one: what the inductions below
\* go by, each from the least counterexample.
LEMMA LeastNumber ==
    ASSUME NEW T, T \subseteq Nat, T # {}
    PROVE  \E n \in T : \A m \in T : n <= m
<1>1. PICK n \in T : \A m \in T : ~(<<m, n>> \in OpToRel(<, Nat))
  BY NatLessThanWellFounded, WFMin, Zenon
<1>2. \A m \in T : m \in Nat /\ n \in Nat /\ ~(m < n)
  BY <1>1 DEF OpToRel
<1> QED
  BY <1>2

\* What TotalOf adds to the sum of the other rows: an equation for all sums.
Any(s) == CHOOSE x \in s : TRUE
Rest(s) == s \ {Any(s)}
SumOf(r, sum, s) == IF s = {} THEN 0 ELSE r[Any(s)] + sum[Rest(s)]
Sums(r, sum, all) == sum = [s \in all |-> SumOf(r, sum, s)]

\* The rows without one of them are fewer.
LEMMA FewerRows ==
    ASSUME NEW s, IsFiniteSet(s), s # {}
    PROVE  /\ Any(s) \in s /\ Rest(s) \subseteq s /\ IsFiniteSet(Rest(s))
           /\ Cardinality(s) \in Nat /\ Cardinality(Rest(s)) \in Nat
           /\ Cardinality(Rest(s)) = Cardinality(s) - 1
<1>1. Any(s) \in s
  BY DEF Any
<1>2. /\ IsFiniteSet(s \ {Any(s)})
      /\ Cardinality(s \ {Any(s)}) = Cardinality(s) - 1
  BY <1>1, FS_RemoveElement
<1>3. Cardinality(s) \in Nat /\ Cardinality(Rest(s)) \in Nat
  BY <1>2, FS_CardinalityType DEF Rest
<1> QED
  BY <1>1, <1>2, <1>3 DEF Rest

SetsUpTo(all, n) == {s \in SUBSET all : Cardinality(s) <= n}

\* The equation has a solution for the sets of one more row, if it has one.
LEMMA SumsGoOn ==
    ASSUME NEW r, IsFiniteSet(DOMAIN r), NEW n \in Nat, n > 0,
           NEW g, Sums(r, g, SetsUpTo(DOMAIN r, n - 1))
    PROVE  \E f : Sums(r, f, SetsUpTo(DOMAIN r, n))
<1> DEFINE small == SetsUpTo(DOMAIN r, n - 1)
           all == SetsUpTo(DOMAIN r, n)
           f == [s \in all |-> IF s \in small THEN g[s] ELSE SumOf(r, g, s)]
<1>1. ASSUME NEW s \in all
      PROVE  /\ s # {} => Rest(s) \in small
             /\ s = {} => s \in small
             /\ s \in SUBSET DOMAIN r
  <2>1. s \subseteq DOMAIN r /\ IsFiniteSet(s) /\ Cardinality(s) <= n
    BY FS_Subset DEF SetsUpTo
  <2>2. CASE s = {}
    <3>1. Cardinality(s) = 0
      BY <2>2, FS_EmptySet
    <3> QED
      BY <3>1, <2>1, <2>2 DEF SetsUpTo
  <2>3. CASE s # {}
    <3>1. Rest(s) \subseteq s /\ Cardinality(s) \in Nat /\ Cardinality(Rest(s)) = Cardinality(s) - 1
      BY <2>1, <2>3, FewerRows
    <3> QED
      BY <3>1, <2>1, <2>3 DEF SetsUpTo
  <2> QED
    BY <2>2, <2>3
<1>2. ASSUME NEW s \in small PROVE s \in all
  <2>1. s \subseteq DOMAIN r /\ IsFiniteSet(s) /\ Cardinality(s) <= n - 1
    BY FS_Subset DEF SetsUpTo
  <2>2. Cardinality(s) \in Nat
    BY <2>1, FS_CardinalityType
  <2> QED
    BY <2>1, <2>2 DEF SetsUpTo
<1>3. \A s \in small : f[s] = g[s] /\ g[s] = SumOf(r, g, s)
  BY <1>2 DEF Sums
<1>4. ASSUME NEW s \in all PROVE f[s] = SumOf(r, f, s)
  <2>1. f[s] = SumOf(r, g, s)
    BY <1>3
  <2>2. s # {} => f[Rest(s)] = g[Rest(s)]
    BY <1>1, <1>3
  <2> QED
    BY <2>1, <2>2 DEF SumOf
<1>5. f = [s \in all |-> f[s]]
  OBVIOUS
<1>6. f = [s \in all |-> SumOf(r, f, s)]
  BY <1>4, <1>5
<1> QED
  BY <1>6 DEF Sums

\* The equation has a solution, for any finite set of rows.
LEMMA SumsExist ==
    ASSUME NEW r, IsFiniteSet(DOMAIN r)
    PROVE  \E f : Sums(r, f, SUBSET DOMAIN r)
<1> DEFINE bad == {n \in Nat : ~\E f : Sums(r, f, SetsUpTo(DOMAIN r, n))}
<1>1. bad = {}
  <2> SUFFICES ASSUME bad # {} PROVE FALSE
    OBVIOUS
  <2>1. PICK n \in bad : \A m \in bad : n <= m
    BY LeastNumber
  <2>2. CASE n = 0
    <3> DEFINE f == [s \in SetsUpTo(DOMAIN r, 0) |-> 0]
    <3>1. \A s \in SetsUpTo(DOMAIN r, 0) : s = {}
      <4> TAKE s \in SetsUpTo(DOMAIN r, 0)
      <4>1. IsFiniteSet(s) /\ Cardinality(s) <= 0
        BY FS_Subset DEF SetsUpTo
      <4>2. Cardinality(s) \in Nat /\ (Cardinality(s) = 0 <=> s = {})
        BY <4>1, FS_CardinalityType, FS_EmptySet
      <4> QED
        BY <4>1, <4>2
    <3>2. f = [s \in SetsUpTo(DOMAIN r, 0) |-> SumOf(r, f, s)]
      BY <3>1 DEF SumOf
    <3>3. Sums(r, f, SetsUpTo(DOMAIN r, 0))
      BY <3>2 DEF Sums
    <3> QED
      BY <3>3, <2>1, <2>2
  <2>3. CASE n # 0
    <3>1. n \in Nat /\ n > 0 /\ n - 1 \in Nat /\ n - 1 < n
      BY <2>3
    <3>2. n - 1 \notin bad
      BY <2>1, <3>1
    <3>3. PICK g : Sums(r, g, SetsUpTo(DOMAIN r, n - 1))
      BY <3>1, <3>2
    <3>4. \E f : Sums(r, f, SetsUpTo(DOMAIN r, n))
      BY <3>1, <3>3, SumsGoOn
    <3> QED
      BY <3>4
  <2> QED
    BY <2>2, <2>3
<1>2. SetsUpTo(DOMAIN r, Cardinality(DOMAIN r)) = SUBSET DOMAIN r
  <2>1. ASSUME NEW s \in SUBSET DOMAIN r PROVE Cardinality(s) <= Cardinality(DOMAIN r)
    BY FS_Subset
  <2> QED
    BY <2>1 DEF SetsUpTo
<1>3. Cardinality(DOMAIN r) \in Nat
  BY FS_CardinalityType
<1> QED
  BY <1>1, <1>2, <1>3

\* A solution adds numbers, so it is numbers.
LEMMA SumsAreNumbers ==
    ASSUME NEW r, IsFiniteSet(DOMAIN r), \A i \in DOMAIN r : r[i] \in Nat,
           NEW f, Sums(r, f, SUBSET DOMAIN r)
    PROVE  \A s \in SUBSET DOMAIN r : f[s] \in Nat
<1> DEFINE bad == {Cardinality(s) : s \in {s \in SUBSET DOMAIN r : f[s] \notin Nat}}
<1> SUFFICES ASSUME NEW t \in SUBSET DOMAIN r, f[t] \notin Nat PROVE FALSE
  OBVIOUS
<1>1. bad \subseteq Nat /\ bad # {}
  BY FS_Subset, FS_CardinalityType
<1>2. PICK n \in bad : \A m \in bad : n <= m
  BY <1>1, LeastNumber
<1>3. PICK s \in SUBSET DOMAIN r : f[s] \notin Nat /\ n = Cardinality(s)
  BY <1>2
<1>4. f[s] = SumOf(r, f, s)
  BY DEF Sums
<1>5. s # {}
  BY <1>3, <1>4 DEF SumOf
<1>6. IsFiniteSet(s)
  BY FS_Subset
<1>7. /\ Any(s) \in s /\ Rest(s) \subseteq s
      /\ Cardinality(s) \in Nat /\ Cardinality(Rest(s)) = Cardinality(s) - 1
  BY <1>5, <1>6, FewerRows
<1>8. f[Rest(s)] \in Nat
  <2>1. Cardinality(Rest(s)) \notin bad
    BY <1>2, <1>3, <1>7
  <2> QED
    BY <2>1, <1>7
<1>9. r[Any(s)] \in Nat
  BY <1>7
<1> QED
  BY <1>3, <1>4, <1>5, <1>8, <1>9 DEF SumOf

\* The total of the rows is the sum that the equation gives.
LEMMA TotalIsSum ==
    ASSUME NEW r
    PROVE  TotalOf(r) = (CHOOSE f : Sums(r, f, SUBSET DOMAIN r))[DOMAIN r]
BY DEF TotalOf, MapThenSumSet, MapThenFoldSet, Sums, SumOf, Any, Rest

\* The total of finitely many counters is a number.
LEMMA TotalIsNumber ==
    ASSUME NEW r, IsFiniteSet(DOMAIN r), \A i \in DOMAIN r : r[i] \in Nat
    PROVE  TotalOf(r) \in Nat
<1> DEFINE f == CHOOSE f : Sums(r, f, SUBSET DOMAIN r)
<1>1. Sums(r, f, SUBSET DOMAIN r)
  BY SumsExist
<1> HIDE DEF f
<1>2. \A s \in SUBSET DOMAIN r : f[s] \in Nat
  BY <1>1, SumsAreNumbers
<1>3. TotalOf(r) = f[DOMAIN r]
  BY TotalIsSum DEF f
<1> QED
  BY <1>2, <1>3

-----------------------------------------------------------------------------
(* What a sequence of events makes of a snapshot *)

\* The equation that AfterEvents solves.
Step(s, queue, f, k) == IF k = 0 THEN s ELSE Applied(f[k - 1], queue[k])
Steps(s, queue, f, n) == f = [k \in 0..n |-> Step(s, queue, f, k)]

\* Each step makes the next snapshot of the one before.
LEMMA StepByStep ==
    ASSUME NEW s, NEW queue, NEW n \in Nat, NEW f, Steps(s, queue, f, n)
    PROVE  f[0] = s /\ \A k \in 1..n : f[k] = Applied(f[k - 1], queue[k])
<1>1. \A k \in 0..n : f[k] = Step(s, queue, f, k)
  BY DEF Steps
<1>2. 0 \in 0..n /\ \A k \in 1..n : k \in 0..n /\ k # 0
  OBVIOUS
<1> QED
  BY <1>1, <1>2 DEF Step

\* And what goes step by step solves it.
LEMMA StepsOf ==
    ASSUME NEW s, NEW queue, NEW n \in Nat, NEW f, f = [k \in 0..n |-> f[k]],
           f[0] = s, \A k \in 1..n : f[k] = Applied(f[k - 1], queue[k])
    PROVE  Steps(s, queue, f, n)
<1>1. ASSUME NEW k \in 0..n PROVE f[k] = Step(s, queue, f, k)
  <2>1. k = 0 \/ (k # 0 /\ k \in 1..n)
    OBVIOUS
  <2> QED
    BY <2>1 DEF Step
<1> QED
  BY <1>1 DEF Steps

\* There is a solution, however many events.
LEMMA StepsExist ==
    ASSUME NEW s, NEW queue, NEW n \in Nat
    PROVE  \E f : Steps(s, queue, f, n)
<1> DEFINE bad == {m \in Nat : ~\E f : Steps(s, queue, f, m)}
<1> SUFFICES ASSUME bad # {} PROVE FALSE
  OBVIOUS
<1>1. PICK m \in bad : \A l \in bad : m <= l
  BY LeastNumber
<1>2. CASE m = 0
  <2> DEFINE f == [k \in 0..0 |-> s]
  <2>1. f[0] = s /\ f = [k \in 0..0 |-> f[k]] /\ \A k \in 1..0 : f[k] = Applied(f[k - 1], queue[k])
    OBVIOUS
  <2> HIDE DEF f
  <2>2. Steps(s, queue, f, 0)
    BY <2>1, StepsOf
  <2> QED
    BY <2>2, <1>1, <1>2
<1>3. CASE m # 0
  <2>1. PICK l \in Nat : m = l + 1 /\ l = m - 1
    <3>1. m \in Nat /\ m - 1 \in Nat /\ m = (m - 1) + 1
      BY <1>3
    <3> QED
      BY <3>1
  <2>2. PICK g : Steps(s, queue, g, l)
    BY <1>1, <2>1
  <2>3. g[0] = s /\ \A k \in 1..l : g[k] = Applied(g[k - 1], queue[k])
    BY <2>2, StepByStep
  <2> DEFINE f == [k \in 0..m |-> IF k = m THEN Applied(g[l], queue[m]) ELSE g[k]]
  <2>4. /\ f = [k \in 0..m |-> f[k]] /\ f[0] = g[0]
        /\ f[m] = Applied(g[l], queue[m])
        /\ \A k \in 0..l : f[k] = g[k]
    BY <2>1, <1>3
  <2> HIDE DEF f
  <2>5. ASSUME NEW k \in 1..m PROVE f[k] = Applied(f[k - 1], queue[k])
    <3>1. k - 1 \in 0..l /\ (k = m \/ k \in 1..l)
      BY <2>1
    <3>2. CASE k = m
      BY <2>1, <2>4, <3>1, <3>2
    <3>3. CASE k \in 1..l
      <4>1. k \in 0..l
        BY <3>3
      <4>2. f[k] = g[k] /\ f[k - 1] = g[k - 1]
        BY <3>1, <4>1, <2>4
      <4> QED
        BY <4>2, <3>3, <2>3
    <3> QED
      BY <3>1, <3>2, <3>3
  <2>6. f[0] = s
    BY <2>3, <2>4
  <2>7. Steps(s, queue, f, m)
    BY <2>1, <2>4, <2>5, <2>6, StepsOf
  <2> QED
    BY <2>7, <1>1
<1> QED
  BY <1>2, <1>3

GoesOn(f, queue, j, n) == \A k \in (j + 1)..n : f[k] = Applied(f[k - 1], queue[k])

\* Two solutions that agree somewhere agree from there on.
LEMMA StepsAgree ==
    ASSUME NEW queue, NEW n \in Nat, NEW j \in 0..n, NEW f, NEW g, f[j] = g[j],
           GoesOn(f, queue, j, n), GoesOn(g, queue, j, n)
    PROVE  f[n] = g[n]
<1> DEFINE bad == {k \in j..n : f[k] # g[k]}
<1> SUFFICES ASSUME bad # {} PROVE FALSE
  OBVIOUS
<1>1. bad \subseteq Nat
  OBVIOUS
<1>2. PICK k \in bad : \A l \in bad : k <= l
  BY <1>1, LeastNumber
<1>3. k \in (j + 1)..n /\ k - 1 \in j..n /\ k - 1 < k
  OBVIOUS
<1>4. f[k - 1] = g[k - 1]
  BY <1>2, <1>3
<1> QED
  BY <1>3, <1>4 DEF GoesOn

\* AfterEvents is where any solution ends.
LEMMA AfterIsTheEnd ==
    ASSUME NEW s, NEW queue, Len(queue) \in Nat, NEW f, Steps(s, queue, f, Len(queue))
    PROVE  AfterEvents(s, queue) = f[Len(queue)]
<1> DEFINE n == Len(queue)
           g == CHOOSE g : Steps(s, queue, g, n)
<1>1. AfterEvents(s, queue) = g[n]
  BY DEF AfterEvents, Steps, Step
<1>2. Steps(s, queue, g, n)
  OBVIOUS
<1> HIDE DEF g
<1> n \in Nat /\ 0 \in 0..n /\ Steps(s, queue, f, n)
  OBVIOUS
<1> HIDE DEF n
<1>3. f[0] = g[0]
  <2>1. f[0] = s
    BY StepByStep
  <2>2. g[0] = s
    BY <1>2, StepByStep
  <2> QED
    BY <2>1, <2>2
<1>4. GoesOn(f, queue, 0, n) /\ GoesOn(g, queue, 0, n)
  <2>1. \A k \in 1..n : f[k] = Applied(f[k - 1], queue[k])
    BY StepByStep
  <2>2. \A k \in 1..n : g[k] = Applied(g[k - 1], queue[k])
    BY <1>2, StepByStep
  <2> QED
    BY <2>1, <2>2 DEF GoesOn
<1>5. f[n] = g[n]
  BY <1>3, <1>4, StepsAgree
<1> USE DEF n
<1> QED
  BY <1>1, <1>5

\* What AfterEvents goes through, as a function.
LEMMA AfterStepByStep ==
    ASSUME NEW s, NEW queue, Len(queue) \in Nat
    PROVE  \E f : /\ f[0] = s /\ f[Len(queue)] = AfterEvents(s, queue)
                  /\ \A k \in 1..Len(queue) : f[k] = Applied(f[k - 1], queue[k])
<1>1. PICK f : Steps(s, queue, f, Len(queue))
  BY StepsExist
<1> QED
  BY <1>1, StepByStep, AfterIsTheEnd

\* And whatever goes step by step ends at AfterEvents.
LEMMA AfterSteps ==
    ASSUME NEW s, NEW queue, Len(queue) \in Nat, NEW f, f[0] = s,
           \A k \in 1..Len(queue) : f[k] = Applied(f[k - 1], queue[k])
    PROVE  AfterEvents(s, queue) = f[Len(queue)]
<1> DEFINE n == Len(queue)
           g == [k \in 0..n |-> f[k]]
<1>1. /\ g = [k \in 0..n |-> g[k]] /\ g[0] = s /\ g[n] = f[n]
      /\ \A k \in 0..n : g[k] = f[k]
  OBVIOUS
<1> HIDE DEF g
<1>2. ASSUME NEW k \in 1..n PROVE g[k] = Applied(g[k - 1], queue[k])
  <2>1. k \in 0..n /\ k - 1 \in 0..n
    OBVIOUS
  <2> QED
    BY <2>1, <1>1
<1>3. Steps(s, queue, g, n)
  BY <1>1, <1>2, StepsOf
<1> QED
  BY <1>1, <1>3, AfterIsTheEnd

\* No event changes nothing.
LEMMA AfterNone == \A s : AfterEvents(s, <<>>) = s
<1> TAKE s
<1>1. Len(<<>>) = 0
  OBVIOUS
<1>2. \E f : f[0] = s /\ f[Len(<<>>)] = AfterEvents(s, <<>>)
  BY <1>1, AfterStepByStep
<1> QED
  BY <1>1, <1>2

\* An event that is sent is applied to what the events before it make.
LEMMA AfterSending ==
    ASSUME NEW S, NEW queue \in Seq(S), NEW e \in S, NEW s
    PROVE  AfterEvents(s, Append(queue, e)) = Applied(AfterEvents(s, queue), e)
<1> DEFINE n == Len(queue)
           more == Append(queue, e)
<1>1. /\ n \in Nat /\ Len(more) = n + 1 /\ more[n + 1] = e
      /\ \A k \in 1..n : more[k] = queue[k] /\ k \in 1..(n + 1)
  OBVIOUS
<1> HIDE DEF more
<1>2. PICK f : /\ f[0] = s /\ f[n + 1] = AfterEvents(s, more)
               /\ \A k \in 1..(n + 1) : f[k] = Applied(f[k - 1], more[k])
  <2>1. Len(more) \in Nat
    BY <1>1
  <2>2. \E f : /\ f[0] = s /\ f[Len(more)] = AfterEvents(s, more)
               /\ \A k \in 1..Len(more) : f[k] = Applied(f[k - 1], more[k])
    BY <2>1, AfterStepByStep
  <2> QED
    BY <2>2, <1>1
<1>3. \A k \in 1..n : f[k] = Applied(f[k - 1], queue[k])
  BY <1>1, <1>2
<1>4. AfterEvents(s, queue) = f[n]
  BY <1>1, <1>2, <1>3, AfterSteps
<1>5. n + 1 \in 1..(n + 1) /\ (n + 1) - 1 = n
  BY <1>1
<1>6. f[n + 1] = Applied(f[n], e)
  BY <1>1, <1>2, <1>5
<1> QED
  BY <1>2, <1>4, <1>6 DEF more

\* The event that is handled first leaves the others to be applied to its result.
LEMMA AfterHandling ==
    ASSUME NEW S, NEW queue \in Seq(S), queue # <<>>, NEW s
    PROVE  AfterEvents(s, queue) = AfterEvents(Applied(s, Head(queue)), Tail(queue))
<1> DEFINE n == Len(queue)
           rest == Tail(queue)
<1>1. /\ n \in Nat /\ n > 0 /\ Len(rest) = n - 1 /\ Head(queue) = queue[1]
      /\ \A k \in 1..(n - 1) : rest[k] = queue[k + 1]
  OBVIOUS
<1> HIDE DEF rest
<1>2. PICK f : /\ f[0] = s /\ f[n] = AfterEvents(s, queue)
               /\ \A k \in 1..n : f[k] = Applied(f[k - 1], queue[k])
  BY <1>1, AfterStepByStep
<1> DEFINE g == [k \in 0..(n - 1) |-> f[k + 1]]
<1>3. g[0] = f[1] /\ g[n - 1] = f[n] /\ \A k \in 0..(n - 1) : g[k] = f[k + 1]
  <2>1. 0 \in 0..(n - 1) /\ n - 1 \in 0..(n - 1) /\ (n - 1) + 1 = n /\ 0 + 1 = 1
    BY <1>1
  <2> QED
    BY <2>1
<1> HIDE DEF g
<1>4. ASSUME NEW k \in 1..(n - 1) PROVE g[k] = Applied(g[k - 1], rest[k])
  <2>1. k \in 0..(n - 1) /\ k - 1 \in 0..(n - 1) /\ k + 1 \in 1..n /\ (k - 1) + 1 = k /\ (k + 1) - 1 = k
    BY <1>1
  <2>2. f[k + 1] = Applied(f[k], queue[k + 1])
    BY <1>2, <2>1
  <2>3. g[k] = f[k + 1] /\ g[k - 1] = f[k] /\ rest[k] = queue[k + 1]
    BY <1>1, <1>3, <2>1
  <2> QED
    BY <2>2, <2>3
<1>5. g[0] = Applied(s, Head(queue))
  <2>1. 1 \in 1..n /\ 1 - 1 = 0
    BY <1>1
  <2> QED
    BY <2>1, <1>1, <1>2, <1>3
<1>6. AfterEvents(Applied(s, Head(queue)), rest) = g[n - 1]
  <2>1. Len(rest) \in Nat
    BY <1>1
  <2> QED
    BY <2>1, <1>1, <1>4, <1>5, AfterSteps
<1> QED
  BY <1>2, <1>3, <1>6 DEF rest

\* A snapshot on its way makes what came before it forgotten.
LEMMA AfterForgets ==
    ASSUME NEW queue, Len(queue) \in Nat, NEW j \in 1..Len(queue),
           queue[j].event = "snapshot", NEW s, NEW t
    PROVE  AfterEvents(s, queue) = AfterEvents(t, queue)
<1> DEFINE n == Len(queue)
<1>1. PICK f : /\ f[0] = s /\ f[n] = AfterEvents(s, queue)
               /\ \A k \in 1..n : f[k] = Applied(f[k - 1], queue[k])
  BY AfterStepByStep
<1>2. PICK g : /\ g[0] = t /\ g[n] = AfterEvents(t, queue)
               /\ \A k \in 1..n : g[k] = Applied(g[k - 1], queue[k])
  BY AfterStepByStep
<1>3. f[j] = g[j]
  BY <1>1, <1>2 DEF Applied
<1>4. GoesOn(f, queue, j, n) /\ GoesOn(g, queue, j, n)
  BY <1>1, <1>2 DEF GoesOn
<1> n \in Nat /\ j \in 0..n
  OBVIOUS
<1> HIDE DEF n
<1>5. f[n] = g[n]
  BY <1>3, <1>4, StepsAgree
<1> QED
  BY <1>1, <1>2, <1>5

-----------------------------------------------------------------------------
(* The stream of the overview: types *)

StreamRows == UNION {[D -> Nat] : D \in {D \in SUBSET RowIds : IsFiniteSet(D)}}
TrueSnapshots == {Snapshot(r) : r \in StreamRows}
\* What a patch makes may be of no moment: its total need not be that of its rows.
Figures == [rows : StreamRows, total : Nat]

Patch ==
    [event : {"patch"}, total : {{}} \cup {{n} : n \in Nat}, updates : StreamRows,
     removed : SUBSET RowIds]
StreamEvent == {SnapshotEvent(s) : s \in TrueSnapshots} \cup Patch \cup {StreamError}

StreamShape ==
    /\ rows \in StreamRows /\ view \in StreamRows \cup {NoView}
    /\ shown \in Figures \cup {NoSnapshot}
    /\ fetch \in {Idle, Sent} \cup {FetchAnswered(s) : s \in TrueSnapshots}
    /\ stream \in {Closed, Connecting}
                  \cup [state : {"open"}, previous : TrueSnapshots, countdown : Nat]
    /\ events \in Seq(StreamEvent)
    /\ visible \in BOOLEAN /\ replaced \in BOOLEAN
    /\ visible = FALSE => stream = Closed /\ events = <<>>
    /\ drops \in 0..MaxDrops /\ moves \in 0..MaxMoves

StreamInv == StreamShape /\ PatchesAreComplete

\* Finitely many rows, each with a counter.
LEMMA RowsAre ==
    ASSUME NEW r
    PROVE  r \in StreamRows <=>
              /\ r = [i \in DOMAIN r |-> r[i]] /\ DOMAIN r \subseteq RowIds
              /\ IsFiniteSet(DOMAIN r) /\ \A i \in DOMAIN r : r[i] \in Nat
<1>1. ASSUME r \in StreamRows
      PROVE  /\ r = [i \in DOMAIN r |-> r[i]] /\ DOMAIN r \subseteq RowIds
             /\ IsFiniteSet(DOMAIN r) /\ \A i \in DOMAIN r : r[i] \in Nat
  <2>1. PICK D \in SUBSET RowIds : IsFiniteSet(D) /\ r \in [D -> Nat]
    BY <1>1 DEF StreamRows
  <2> QED
    BY <2>1
<1>2. ASSUME r = [i \in DOMAIN r |-> r[i]], DOMAIN r \subseteq RowIds,
             IsFiniteSet(DOMAIN r), \A i \in DOMAIN r : r[i] \in Nat
      PROVE  r \in StreamRows
  <2>1. r \in [DOMAIN r -> Nat]
    BY <1>2
  <2> QED
    BY <2>1, <1>2 DEF StreamRows
<1> QED
  BY <1>1, <1>2

\* The total of a snapshot of the store is a number.
LEMMA SnapshotsAreFigures ==
    ASSUME NEW s \in TrueSnapshots
    PROVE  s \in Figures /\ s = Snapshot(s.rows) /\ s # NoSnapshot
<1>1. PICK r \in StreamRows : s = Snapshot(r)
  BY DEF TrueSnapshots
<1>2. TotalOf(r) \in Nat
  BY RowsAre, TotalIsNumber
<1>3. s.rows = r /\ s.total = TotalOf(r) /\ s \in Figures
  BY <1>1, <1>2 DEF Snapshot, Figures
<1>4. NoSnapshot.total = -1
  BY DEF NoSnapshot
<1>5. s.total # -1
  BY <1>2, <1>3
<1> QED
  BY <1>1, <1>3, <1>4, <1>5

\* What a merge starts from when nothing is shown.
LEMMA EmptyIsFigures == emptyTrafficV2 \in Figures
<1>1. <<>> \in StreamRows
  <2>1. DOMAIN <<>> = {} /\ <<>> = [i \in DOMAIN <<>> |-> <<>>[i]]
    OBVIOUS
  <2>2. IsFiniteSet({})
    BY FS_EmptySet
  <2> QED
    BY <2>1, <2>2, RowsAre
<1>2. Snapshot(<<>>) \in TrueSnapshots
  BY <1>1 DEF TrueSnapshots
<1> QED
  BY <1>2, SnapshotsAreFigures DEF emptyTrafficV2

\* Merging a patch into whatever is shown gives figures.
LEMMA MergeIsFigures ==
    ASSUME NEW s \in Figures \cup {NoSnapshot}, NEW p \in Patch
    PROVE  mergeTrafficV2Snapshot(s, p) \in Figures
<1> DEFINE base == IF s = NoSnapshot THEN emptyTrafficV2 ELSE s
           merged == mergeTrafficV2ById(base.rows, p)
<1>1. base \in Figures
  BY EmptyIsFigures
<1>2. base.rows \in StreamRows /\ base.total \in Nat
  BY <1>1 DEF Figures
<1>3. p.updates \in StreamRows /\ p.total \in {{}} \cup {{n} : n \in Nat}
  BY DEF Patch
<1>4. mergeTrafficV2Snapshot(s, p) =
         [rows |-> merged, total |-> IF p.total = {} THEN base.total ELSE CHOOSE t \in p.total : TRUE]
  BY DEF mergeTrafficV2Snapshot
<1> HIDE DEF base
<1>5. merged \in StreamRows
  <2> DEFINE D == (DOMAIN base.rows \ p.removed) \cup DOMAIN p.updates
  <2>1. /\ IsFiniteSet(DOMAIN base.rows) /\ IsFiniteSet(DOMAIN p.updates)
        /\ DOMAIN base.rows \subseteq RowIds /\ DOMAIN p.updates \subseteq RowIds
        /\ \A i \in DOMAIN base.rows : base.rows[i] \in Nat
        /\ \A i \in DOMAIN p.updates : p.updates[i] \in Nat
    BY <1>2, <1>3, RowsAre
  <2>2. IsFiniteSet(DOMAIN base.rows \cup DOMAIN p.updates)
    BY <2>1, FS_Union
  <2>3. IsFiniteSet(D) /\ D \subseteq RowIds
    BY <2>1, <2>2, FS_Subset
  <2>4. DOMAIN merged = D /\ merged = [i \in D |-> merged[i]]
        /\ \A i \in D : merged[i] = IF i \in DOMAIN p.updates THEN p.updates[i] ELSE base.rows[i]
    BY DEF mergeTrafficV2ById
  <2> HIDE DEF merged
  <2>5. \A i \in D : merged[i] \in Nat
    BY <2>1, <2>4
  <2> QED
    BY <2>3, <2>4, <2>5, RowsAre
<1>6. (IF p.total = {} THEN base.total ELSE CHOOSE t \in p.total : TRUE) \in Nat
  BY <1>2, <1>3
<1> HIDE DEF merged
<1> QED
  BY <1>4, <1>5, <1>6 DEF Figures

\* A patch carries what changed, and is one.
LEMMA PatchIsPatch ==
    ASSUME NEW before \in TrueSnapshots, NEW after \in TrueSnapshots
    PROVE  buildTrafficV2Patch(before, after) \in Patch
<1> DEFINE changed == {i \in DOMAIN after.rows :
                          i \notin DOMAIN before.rows \/ before.rows[i] # after.rows[i]}
           newer == [i \in changed |-> after.rows[i]]
<1>1. /\ before.rows \in StreamRows /\ before.total \in Nat
      /\ after.rows \in StreamRows /\ after.total \in Nat
  BY SnapshotsAreFigures DEF Figures
<1>2. /\ DOMAIN before.rows \subseteq RowIds /\ DOMAIN after.rows \subseteq RowIds
      /\ IsFiniteSet(DOMAIN after.rows) /\ \A i \in DOMAIN after.rows : after.rows[i] \in Nat
  BY <1>1, RowsAre
<1>3. IsFiniteSet(changed) /\ changed \subseteq RowIds
  BY <1>2, FS_Subset
<1>4. /\ DOMAIN newer = changed /\ newer = [i \in DOMAIN newer |-> newer[i]]
      /\ \A i \in changed : newer[i] = after.rows[i]
  OBVIOUS
<1>5. newer \in StreamRows
  <2> HIDE DEF newer
  <2>1. \A i \in DOMAIN newer : newer[i] \in Nat
    BY <1>2, <1>4
  <2> HIDE DEF changed
  <2> QED
    BY <1>3, <1>4, <2>1, RowsAre
<1>6. buildTrafficV2Patch(before, after) =
        [event |-> "patch",
         total |-> IF before.total = after.total THEN {} ELSE {after.total},
         updates |-> newer, removed |-> DOMAIN before.rows \ DOMAIN after.rows]
  BY DEF buildTrafficV2Patch
<1>7. /\ (IF before.total = after.total THEN {} ELSE {after.total}) \in {{}} \cup {{n} : n \in Nat}
      /\ DOMAIN before.rows \ DOMAIN after.rows \in SUBSET RowIds
  BY <1>1, <1>2
<1> HIDE DEF newer
<1> QED
  BY <1>5, <1>6, <1>7 DEF Patch

\* Merging the difference of two snapshots into the first gives the second.
LEMMA PatchLeadsOn ==
    ASSUME NEW before \in TrueSnapshots, NEW after \in TrueSnapshots
    PROVE  Applied(before, buildTrafficV2Patch(before, after)) = after
<1> DEFINE p == buildTrafficV2Patch(before, after)
           merged == mergeTrafficV2ById(before.rows, p)
<1>1. /\ after = [rows |-> after.rows, total |-> after.total] /\ before # NoSnapshot
      /\ after.rows = [i \in DOMAIN after.rows |-> after.rows[i]]
  <2>1. after \in Figures /\ before # NoSnapshot
    BY SnapshotsAreFigures
  <2>2. after.rows \in StreamRows /\ after = [rows |-> after.rows, total |-> after.total]
    BY <2>1 DEF Figures
  <2> QED
    BY <2>1, <2>2, RowsAre
<1>2. /\ p.event = "patch" /\ p.removed = DOMAIN before.rows \ DOMAIN after.rows
      /\ p.total = IF before.total = after.total THEN {} ELSE {after.total}
      /\ DOMAIN p.updates = {i \in DOMAIN after.rows :
                                i \notin DOMAIN before.rows \/ before.rows[i] # after.rows[i]}
      /\ \A i \in DOMAIN p.updates : p.updates[i] = after.rows[i]
  BY DEF buildTrafficV2Patch
<1> HIDE DEF p
<1>3. merged = after.rows
  <2>1. (DOMAIN before.rows \ p.removed) \cup DOMAIN p.updates = DOMAIN after.rows
    BY <1>2
  <2>2. merged = [i \in DOMAIN after.rows |-> IF i \in DOMAIN p.updates THEN p.updates[i]
                                             ELSE before.rows[i]]
    BY <2>1 DEF mergeTrafficV2ById
  <2>3. \A i \in DOMAIN after.rows :
           (IF i \in DOMAIN p.updates THEN p.updates[i] ELSE before.rows[i]) = after.rows[i]
    BY <1>2
  <2>4. merged = [i \in DOMAIN after.rows |-> after.rows[i]]
    BY <2>2, <2>3
  <2> QED
    BY <2>4, <1>1
<1>4. (IF p.total = {} THEN before.total ELSE CHOOSE t \in p.total : TRUE) = after.total
  BY <1>2
<1>5. Applied(before, p) = [rows |-> merged,
                            total |-> IF p.total = {} THEN before.total ELSE CHOOSE t \in p.total : TRUE]
  BY <1>1, <1>2 DEF Applied, mergeTrafficV2Snapshot
<1> HIDE DEF merged
<1> QED
  BY <1>1, <1>3, <1>4, <1>5 DEF p

-----------------------------------------------------------------------------
(* The stream of the overview: steps *)

\* The condition of PatchesAreComplete: the patches build on what is shown, or
\* a snapshot is on its way.
Building == ~(replaced /\ \A k \in DOMAIN events : events[k].event # "snapshot")

\* The one of the view in the cache, or a new one.
LEMMA ViewIsRows ==
    ASSUME StreamShape
    PROVE  Viewed \in StreamRows /\ Snapshot(Viewed) \in TrueSnapshots
BY DEF StreamShape, Viewed, TrueSnapshots

\* The kinds of events.
LEMMA EventKinds ==
    ASSUME NEW e \in StreamEvent
    PROVE  \/ e.event = "snapshot" /\ e.snapshot \in TrueSnapshots
           \/ e.event = "patch" /\ e \in Patch
           \/ e.event = "stream-error"
BY DEF StreamEvent, SnapshotEvent, Patch, StreamError

\* What is handled leaves figures.
LEMMA AppliedIsFigures ==
    ASSUME NEW s \in Figures \cup {NoSnapshot}, NEW e \in StreamEvent
    PROVE  Applied(s, e) \in Figures \cup {NoSnapshot}
BY EventKinds, SnapshotsAreFigures, MergeIsFigures DEF Applied

\* A queue of events one longer, or one shorter.
LEMMA QueueKeeps ==
    ASSUME NEW q \in Seq(StreamEvent)
    PROVE  /\ Len(q) \in Nat /\ DOMAIN q = 1..Len(q) /\ \A k \in 1..Len(q) : q[k] \in StreamEvent
           /\ \A e \in StreamEvent :
                 /\ Append(q, e) \in Seq(StreamEvent)
                 /\ DOMAIN Append(q, e) = 1..(Len(q) + 1) /\ Append(q, e)[Len(q) + 1] = e
                 /\ \A k \in 1..Len(q) : Append(q, e)[k] = q[k]
           /\ q # <<>> => /\ Head(q) \in StreamEvent /\ Tail(q) \in Seq(StreamEvent)
                          /\ Head(q) = q[1] /\ DOMAIN Tail(q) = 1..(Len(q) - 1)
                          /\ \A k \in 1..(Len(q) - 1) : Tail(q)[k] = q[k + 1]
OBVIOUS

\* The page is visible while a stream is there or events are.
LEMMA SeenWhileStreaming ==
    ASSUME StreamShape
    PROVE  /\ stream.state \in {"connecting", "open"} => visible = TRUE
           /\ events # <<>> => visible = TRUE
BY DEF StreamShape, Closed

\* An event that is sent is applied after those before it.
LEMMA SendingApplies ==
    ASSUME StreamShape, NEW e \in StreamEvent, NEW s
    PROVE  AfterEvents(s, Append(events, e)) = Applied(AfterEvents(s, events), e)
BY AfterSending DEF StreamShape

\* A snapshot that is sent is where the events lead.
LEMMA SnapshotLeads ==
    ASSUME StreamShape, NEW c \in TrueSnapshots, NEW s
    PROVE  /\ SnapshotEvent(c) \in StreamEvent
           /\ AfterEvents(s, Append(events, SnapshotEvent(c))) = c
<1>1. SnapshotEvent(c) \in StreamEvent
  BY DEF StreamEvent
<1>2. Applied(AfterEvents(s, events), SnapshotEvent(c)) = c
  BY DEF Applied, SnapshotEvent
<1> QED
  BY <1>1, <1>2, SendingApplies

\* Rows come, go and count; the page and the stream are left alone.
LEMMA MovesKeep ==
    ASSUME StreamInv, Moves
    PROVE  StreamInv'
<1> USE DEF StreamInv
<1>1. PICK i \in RowIds :
         \/ i \in DOMAIN rows /\ Move([rows EXCEPT ![i] = @ + 1])
         \/ i \in DOMAIN rows /\ Move([j \in DOMAIN rows \ {i} |-> rows[j]])
         \/ i \notin DOMAIN rows
            /\ Move([j \in DOMAIN rows \cup {i} |-> IF j = i THEN 0 ELSE rows[j]])
  BY DEF Moves
<1>2. /\ rows = [j \in DOMAIN rows |-> rows[j]] /\ DOMAIN rows \subseteq RowIds
      /\ IsFiniteSet(DOMAIN rows) /\ \A j \in DOMAIN rows : rows[j] \in Nat
  BY RowsAre DEF StreamShape
<1>3. rows' \in StreamRows
  <2>1. CASE i \in DOMAIN rows /\ rows' = [rows EXCEPT ![i] = @ + 1]
    <3>1. rows \in [DOMAIN rows -> Nat] /\ rows[i] + 1 \in Nat
      BY <1>2, <2>1
    <3>2. rows' \in [DOMAIN rows -> Nat]
      BY <3>1, <2>1
    <3> QED
      BY <3>2, <1>2 DEF StreamRows
  <2>2. CASE rows' = [j \in DOMAIN rows \ {i} |-> rows[j]]
    <3>1. /\ DOMAIN rows' = DOMAIN rows \ {i} /\ rows' = [j \in DOMAIN rows' |-> rows'[j]]
          /\ \A j \in DOMAIN rows' : rows'[j] \in Nat
      BY <1>2, <2>2
    <3>2. IsFiniteSet(DOMAIN rows \ {i})
      BY <1>2, FS_Subset
    <3> QED
      BY <3>1, <3>2, <1>2, RowsAre
  <2>3. CASE rows' = [j \in DOMAIN rows \cup {i} |-> IF j = i THEN 0 ELSE rows[j]]
    <3>1. /\ DOMAIN rows' = DOMAIN rows \cup {i} /\ rows' = [j \in DOMAIN rows' |-> rows'[j]]
          /\ \A j \in DOMAIN rows' : rows'[j] \in Nat
      BY <1>2, <2>3
    <3>2. IsFiniteSet(DOMAIN rows \cup {i})
      BY <1>2, FS_AddElement
    <3> QED
      BY <3>1, <3>2, <1>2, RowsAre
  <2> QED
    BY <1>1, <2>1, <2>2, <2>3 DEF Move
<1>4. moves' \in 0..MaxMoves
  BY <1>1, StreamBounds DEF Move, StreamShape
<1>5. UNCHANGED <<view, visible, shown, replaced, fetch, stream, events, drops>>
  BY <1>1 DEF Move, trafficPage
<1>6. StreamShape'
  BY <1>3, <1>4, <1>5 DEF StreamShape
<1>7. PatchesAreComplete'
  BY <1>5 DEF PatchesAreComplete
<1> QED
  BY <1>6, <1>7

\* A stream that opens sends a snapshot, which is where its events lead.
LEMMA OpensKeeps ==
    ASSUME StreamInv, StreamOpens
    PROVE  StreamInv'
<1> USE DEF StreamInv
<1> DEFINE c == Snapshot(Viewed)
<1>1. c \in TrueSnapshots /\ Viewed \in StreamRows
  BY ViewIsRows
<1> HIDE DEF c
<1>2. /\ visible = TRUE /\ events' = Append(events, SnapshotEvent(c))
      /\ stream' = [state |-> "open", previous |-> c, countdown |-> ResyncEvery]
      /\ view' \in StreamRows
      /\ UNCHANGED <<rows, moves, visible, shown, replaced, fetch, drops>>
  BY <1>1, SeenWhileStreaming DEF StreamOpens, KeepsView, trafficPage, c
<1>3. SnapshotEvent(c) \in StreamEvent /\ AfterEvents(shown, events') = c
  BY <1>1, <1>2, SnapshotLeads
<1>4. events' \in Seq(StreamEvent)
  BY <1>2, <1>3, QueueKeeps DEF StreamShape
<1>5. stream' \in [state : {"open"}, previous : TrueSnapshots, countdown : Nat]
  BY <1>1, <1>2, StreamBounds
<1>6. StreamShape'
  BY <1>2, <1>4, <1>5 DEF StreamShape
<1>7. PatchesAreComplete'
  BY <1>2, <1>3 DEF PatchesAreComplete
<1> QED
  BY <1>6, <1>7

\* A tick sends the whole snapshot, or the difference to the one it sent last.
LEMMA TicksKeeps ==
    ASSUME StreamInv, StreamTicks
    PROVE  StreamInv'
<1> USE DEF StreamInv
<1> DEFINE c == Snapshot(Viewed)
           p == buildTrafficV2Patch(stream.previous, c)
<1>1. c \in TrueSnapshots /\ Viewed \in StreamRows
  BY ViewIsRows
<1>2. /\ stream.state = "open" /\ visible = TRUE /\ view' \in StreamRows
      /\ UNCHANGED <<rows, moves, visible, shown, replaced, fetch, drops>>
  BY <1>1, SeenWhileStreaming DEF StreamTicks, KeepsView, trafficPage
<1>3. stream \in [state : {"open"}, previous : TrueSnapshots, countdown : Nat]
  BY <1>2 DEF StreamShape, Closed, Connecting
<1>4. \/ /\ stream' = [stream EXCEPT !.previous = c, !.countdown = ResyncEvery]
         /\ events' = Append(events, SnapshotEvent(c))
      \/ /\ stream' = [stream EXCEPT !.previous = c, !.countdown = @ - 1]
         /\ stream.countdown > 0
         /\ events' = IF stream.previous = c THEN events ELSE Append(events, p)
  BY <1>3 DEF StreamTicks
<1> HIDE DEF c
<1>5. /\ stream' \in [state : {"open"}, previous : TrueSnapshots, countdown : Nat]
      /\ stream'.previous = c
  <2>1. ResyncEvery \in Nat
    BY StreamBounds
  <2>2. CASE stream' = [stream EXCEPT !.previous = c, !.countdown = ResyncEvery]
    BY <1>1, <1>3, <2>1, <2>2
  <2>3. CASE stream.countdown > 0 /\ stream' = [stream EXCEPT !.previous = c, !.countdown = @ - 1]
    <3>1. stream.countdown - 1 \in Nat
      BY <1>3, <2>3
    <3> QED
      BY <1>1, <1>3, <2>3, <3>1
  <2> QED
    BY <1>4, <2>2, <2>3
<1>6. p \in Patch /\ p \in StreamEvent /\ p.event = "patch"
  BY <1>1, <1>3, PatchIsPatch DEF StreamEvent, Patch
<1>7. Applied(stream.previous, p) = c
  BY <1>1, <1>3, PatchLeadsOn
<1> HIDE DEF p
<1>8. SnapshotEvent(c) \in StreamEvent
  BY <1>1, SnapshotLeads
<1>9. events' \in Seq(StreamEvent)
  <2>1. events \in Seq(StreamEvent)
    BY DEF StreamShape
  <2>2. Append(events, p) \in Seq(StreamEvent) /\ Append(events, SnapshotEvent(c)) \in Seq(StreamEvent)
    BY <1>6, <1>8, <2>1, QueueKeeps
  <2> QED
    BY <1>4, <2>1, <2>2
<1>10. StreamShape'
  BY <1>2, <1>5, <1>9 DEF StreamShape
<1>11. ASSUME Building' PROVE AfterEvents(shown, events') = c
  <2>1. CASE events' = Append(events, SnapshotEvent(c))
    BY <1>1, <2>1, SnapshotLeads
  <2>2. CASE events' = events /\ stream.previous = c
    BY <1>2, <1>11, <2>2 DEF PatchesAreComplete, Building
  <2>3. CASE events' = Append(events, p)
    <3>1. AfterEvents(shown, events') = Applied(AfterEvents(shown, events), p)
      BY <1>6, <2>3, SendingApplies
    <3>2. Building
      <4>1. CASE replaced = FALSE
        BY <4>1 DEF Building
      <4>2. CASE replaced = TRUE
        <5>1. PICK k \in DOMAIN events' : events'[k].event = "snapshot"
          BY <1>2, <1>11, <4>2 DEF Building
        <5>2. /\ Len(events) \in Nat /\ DOMAIN events = 1..Len(events)
              /\ DOMAIN events' = 1..(Len(events) + 1) /\ events'[Len(events) + 1] = p
              /\ \A j \in 1..Len(events) : events'[j] = events[j]
          BY <1>6, <2>3, QueueKeeps DEF StreamShape
        <5>3. k \in DOMAIN events /\ events[k].event = "snapshot"
          BY <5>1, <5>2, <1>6
        <5> QED
          BY <5>3 DEF Building
      <4> QED
        BY <4>1, <4>2 DEF StreamShape
    <3>3. AfterEvents(shown, events) = stream.previous
      BY <1>2, <3>2 DEF PatchesAreComplete, Building
    <3> QED
      BY <1>7, <3>1, <3>3
  <2> QED
    BY <1>4, <2>1, <2>2, <2>3
<1>12. PatchesAreComplete'
  BY <1>2, <1>5, <1>11 DEF PatchesAreComplete, Building
<1> QED
  BY <1>10, <1>12

\* A broken view or a broken stream: an event that changes nothing, or no stream.
LEMMA FailuresKeep ==
    ASSUME StreamInv, StreamFails \/ StreamBreaks
    PROVE  StreamInv'
<1> USE DEF StreamInv
<1>1. visible = TRUE /\ StreamError \in StreamEvent /\ Applied(AfterEvents(shown, events), StreamError)
                          = AfterEvents(shown, events)
  BY SeenWhileStreaming DEF StreamFails, StreamBreaks, StreamEvent, Applied, StreamError
<1>2. drops' \in 0..MaxDrops
  <2>1. MaxDrops \in Nat /\ drops \in 0..MaxDrops /\ drops < MaxDrops /\ drops' = drops + 1
    BY StreamBounds DEF StreamShape, StreamFails, StreamBreaks
  <2> QED
    BY <2>1
<1>3. UNCHANGED <<rows, view, moves, visible, shown, replaced, fetch>>
  BY DEF StreamFails, StreamBreaks, trafficServer, trafficPage
<1>4. CASE StreamFails
  <2>1. events' = Append(events, StreamError) /\ stream' = stream
    BY <1>4 DEF StreamFails
  <2>2. events' \in Seq(StreamEvent)
    BY <1>1, <2>1, QueueKeeps DEF StreamShape
  <2>3. AfterEvents(shown, events') = AfterEvents(shown, events)
    BY <1>1, <2>1, SendingApplies
  <2>4. Building' => Building
    <3>1. /\ Len(events) \in Nat /\ DOMAIN events = 1..Len(events)
          /\ DOMAIN events' = 1..(Len(events) + 1) /\ events'[Len(events) + 1] = StreamError
          /\ \A j \in 1..Len(events) : events'[j] = events[j]
      BY <1>1, <2>1, QueueKeeps DEF StreamShape
    <3>2. StreamError.event # "snapshot"
      BY DEF StreamError
    <3>3. ASSUME NEW k \in DOMAIN events', events'[k].event = "snapshot"
          PROVE  k \in DOMAIN events /\ events[k].event = "snapshot"
      BY <3>1, <3>2, <3>3
    <3> QED
      BY <1>3, <3>3 DEF Building
  <2>5. PatchesAreComplete'
    BY <1>3, <2>1, <2>3, <2>4 DEF PatchesAreComplete, Building
  <2>6. StreamShape'
    BY <1>1, <1>2, <1>3, <2>1, <2>2 DEF StreamShape
  <2> QED
    BY <2>5, <2>6
<1>5. CASE StreamBreaks
  <2>1. events' = <<StreamError>> /\ stream' \in {Connecting, Closed}
    BY <1>5 DEF StreamBreaks
  <2>2. events' \in Seq(StreamEvent)
    BY <1>1, <2>1
  <2>3. StreamShape'
    BY <1>1, <1>2, <1>3, <2>1, <2>2 DEF StreamShape
  <2>4. stream'.state # "open"
    BY <2>1 DEF Connecting, Closed
  <2> QED
    BY <2>3, <2>4 DEF PatchesAreComplete
<1> QED
  BY <1>4, <1>5

\* The query, until its answer lands.
LEMMA FetchKeeps ==
    ASSUME StreamInv, ViewExpires \/ FetchBegins \/ FetchIsServed \/ FetchFails
    PROVE  StreamInv'
<1> USE DEF StreamInv
<1>1. UNCHANGED <<rows, moves, visible, shown, replaced, stream, events>>
  BY DEF ViewExpires, FetchBegins, FetchIsServed, FetchFails, trafficServer, trafficPage
<1>2. view' \in StreamRows \cup {NoView}
  BY ViewIsRows DEF ViewExpires, FetchBegins, FetchIsServed, FetchFails, trafficServer, KeepsView, StreamShape
<1>3. fetch' \in {Idle, Sent} \cup {FetchAnswered(s) : s \in TrueSnapshots}
  BY ViewIsRows DEF ViewExpires, FetchBegins, FetchIsServed, FetchFails, StreamShape
<1>4. drops' \in 0..MaxDrops
  <2>1. MaxDrops \in Nat /\ drops \in 0..MaxDrops /\ (drops' = drops \/ (drops < MaxDrops /\ drops' = drops + 1))
    BY StreamBounds DEF StreamShape, ViewExpires, FetchBegins, FetchIsServed, FetchFails
  <2> QED
    BY <2>1
<1>5. StreamShape'
  BY <1>1, <1>2, <1>3, <1>4 DEF StreamShape
<1>6. PatchesAreComplete'
  BY <1>1 DEF PatchesAreComplete
<1> QED
  BY <1>5, <1>6

\* An answer replaces what the patches build on, unless a snapshot is on its way.
LEMMA LandingKeeps ==
    ASSUME StreamInv, FetchLands
    PROVE  StreamInv'
<1> USE DEF StreamInv
<1>1. /\ fetch' = Idle /\ replaced' = TRUE /\ shown' = fetch.answer
      /\ UNCHANGED <<rows, view, moves, visible, stream, events, drops>>
  BY DEF FetchLands, trafficServer
<1>2. shown' \in Figures
  <2>1. PICK s \in TrueSnapshots : fetch = FetchAnswered(s)
    BY DEF FetchLands, StreamShape, Idle, Sent
  <2>2. shown' = s
    BY <1>1, <2>1 DEF FetchAnswered
  <2> QED
    BY <2>2, SnapshotsAreFigures
<1>3. StreamShape'
  BY <1>1, <1>2 DEF StreamShape
<1>4. ASSUME stream.state = "open", Building' PROVE AfterEvents(shown', events) = stream.previous
  <2>1. PICK k \in DOMAIN events : events[k].event = "snapshot"
    BY <1>1, <1>4 DEF Building
  <2>2. Len(events) \in Nat /\ k \in 1..Len(events)
    BY QueueKeeps DEF StreamShape
  <2>3. AfterEvents(shown', events) = AfterEvents(shown, events)
    BY <2>1, <2>2, AfterForgets
  <2>4. Building
    BY <2>1 DEF Building
  <2> QED
    BY <1>4, <2>3, <2>4 DEF PatchesAreComplete, Building
<1>5. PatchesAreComplete'
  BY <1>1, <1>4 DEF PatchesAreComplete, Building
<1> QED
  BY <1>3, <1>5

\* The first event is applied, and the others lead from there to where all did.
LEMMA HandlingKeeps ==
    ASSUME StreamInv, HandleData \/ HandleError
    PROVE  StreamInv'
<1> USE DEF StreamInv
<1> DEFINE e == Head(events)
<1>1. /\ events # <<>> /\ events \in Seq(StreamEvent) /\ events' = Tail(events) /\ visible = TRUE
      /\ UNCHANGED <<rows, view, moves, visible, stream, drops>>
  BY SeenWhileStreaming DEF HandleData, HandleError, StreamShape, trafficServer, trafficPage
<1>2. /\ Len(events) \in Nat /\ e \in StreamEvent /\ events' \in Seq(StreamEvent)
      /\ e = events[1] /\ DOMAIN events = 1..Len(events) /\ DOMAIN events' = 1..(Len(events) - 1)
      /\ \A k \in 1..(Len(events) - 1) : events'[k] = events[k + 1]
  BY <1>1, QueueKeeps
<1>3. Len(events) > 0
  BY <1>1
<1>4. AfterEvents(shown, events) = AfterEvents(Applied(shown, e), events')
  BY <1>1, AfterHandling
<1>5. /\ shown' = Applied(shown, e)
      /\ replaced' \in BOOLEAN
      /\ replaced' <=> replaced /\ e.event # "snapshot"
      /\ fetch' \in {fetch, Sent}
  <2>1. \/ e.event = "snapshot" \/ e.event = "patch" \/ e.event = "stream-error"
    BY <1>2, EventKinds
  <2>2. CASE HandleData
    BY <2>1, <2>2 DEF HandleData, Applied, StreamShape
  <2>3. CASE HandleError
    BY <2>1, <2>3 DEF HandleError, Applied, StreamShape, trafficPage
  <2> QED
    BY <2>2, <2>3
<1>6. shown' \in Figures \cup {NoSnapshot}
  BY <1>2, <1>5, AppliedIsFigures DEF StreamShape
<1> HIDE DEF e
<1>7. StreamShape'
  BY <1>1, <1>2, <1>5, <1>6 DEF StreamShape
<1>8. Building' => Building
  <2> SUFFICES ASSUME ~Building PROVE ~Building'
    OBVIOUS
  <2>1. replaced /\ \A k \in 1..Len(events) : events[k].event # "snapshot"
    BY <1>2 DEF Building
  <2>2. e.event # "snapshot"
    BY <1>2, <1>3, <2>1
  <2>3. \A k \in DOMAIN events' : events'[k].event # "snapshot"
    BY <1>2, <2>1
  <2> QED
    BY <1>5, <2>1, <2>2, <2>3 DEF Building
<1>9. PatchesAreComplete'
  BY <1>1, <1>4, <1>5, <1>8 DEF PatchesAreComplete, Building
<1> QED
  BY <1>7, <1>9

\* A page that is shown or hidden begins without events, and with no stream open.
LEMMA ShowingKeeps ==
    ASSUME StreamInv, PageShown \/ PageHidden
    PROVE  StreamInv'
<1> USE DEF StreamInv
<1>1. /\ UNCHANGED <<rows, view, moves, shown, replaced, fetch>>
      /\ \/ visible' = TRUE /\ stream' = Connecting /\ events' = events
         \/ visible' = FALSE /\ stream' = Closed /\ events' = <<>>
  BY DEF PageShown, PageHidden, trafficServer
<1>2. drops' \in 0..MaxDrops
  <2>1. MaxDrops \in Nat /\ drops \in 0..MaxDrops /\ (drops' = drops \/ (drops < MaxDrops /\ drops' = drops + 1))
    BY StreamBounds DEF StreamShape, PageShown, PageHidden
  <2> QED
    BY <2>1
<1>3. events' \in Seq(StreamEvent)
  <2>1. <<>> \in Seq(StreamEvent) /\ events \in Seq(StreamEvent)
    BY DEF StreamShape
  <2> QED
    BY <1>1, <2>1
<1>4. StreamShape'
  BY <1>1, <1>2, <1>3 DEF StreamShape
<1>5. stream'.state # "open"
  BY <1>1 DEF Connecting, Closed
<1> QED
  BY <1>4, <1>5 DEF PatchesAreComplete

\* At first there is a row and no page.
LEMMA StreamStarts == StreamInit => StreamInv
<1> SUFFICES ASSUME StreamInit PROVE StreamInv
  OBVIOUS
<1> DEFINE i == CHOOSE i \in RowIds : TRUE
<1>1. i \in RowIds
  BY RowIdsAssumption
<1>2. rows = [j \in {i} |-> 0]
  BY DEF StreamInit
<1> HIDE DEF i
<1>3. IsFiniteSet({i}) /\ rows \in [{i} -> Nat]
  BY <1>2, FS_Singleton
<1>4. rows \in StreamRows
  BY <1>1, <1>3 DEF StreamRows
<1>5. <<>> \in Seq(StreamEvent) /\ 0 \in 0..MaxDrops /\ 0 \in 0..MaxMoves
  BY StreamBounds
<1>6. StreamShape
  BY <1>4, <1>5 DEF StreamInit, StreamShape
<1>7. stream.state # "open"
  BY DEF StreamInit, Closed
<1> QED
  BY <1>6, <1>7 DEF StreamInv, PatchesAreComplete

\* Every step of the stream and the page keeps the invariant.
LEMMA StreamSteps == StreamInv /\ [StreamNext]_streamVars => StreamInv'
<1>1. ASSUME StreamInv, UNCHANGED streamVars PROVE StreamInv'
  <2>1. UNCHANGED <<rows, view, moves, visible, shown, replaced, fetch, stream, events, drops>>
    BY <1>1 DEF streamVars, trafficServer, trafficPage
  <2>2. StreamShape'
    BY <1>1, <2>1 DEF StreamInv, StreamShape
  <2>3. PatchesAreComplete'
    BY <1>1, <2>1 DEF StreamInv, PatchesAreComplete
  <2> QED
    BY <2>2, <2>3 DEF StreamInv
<1> QED
  BY <1>1, MovesKeep, OpensKeeps, TicksKeeps, FailuresKeep, FetchKeeps, LandingKeeps,
     HandlingKeeps, ShowingKeeps DEF StreamNext

\* The invariant of the stream: what holds of the page's snapshot, the answers and
\* the events on their way, and where those lead.
THEOREM StreamInvariance == StreamSpec => []StreamInv
BY StreamStarts, StreamSteps, PTL DEF StreamSpec

\* The overview's snapshot, its answers and its stream keep to their types.
THEOREM StreamTypeCorrect == StreamSpec => []StreamTypeOK
<1>1. ASSUME StreamInv PROVE StreamTypeOK
  <2> USE <1>1 DEF StreamInv
  <2>1. shown # NoSnapshot => DOMAIN shown.rows \subseteq RowIds /\ shown.total \in Nat
    <3> SUFFICES ASSUME shown # NoSnapshot
                 PROVE  DOMAIN shown.rows \subseteq RowIds /\ shown.total \in Nat
      OBVIOUS
    <3>1. shown.rows \in StreamRows /\ shown.total \in Nat
      BY DEF StreamShape, Figures
    <3> QED
      BY <3>1, RowsAre
  <2>2. fetch \in {Idle, Sent} \/ fetch = FetchAnswered(Snapshot(fetch.answer.rows))
    <3> SUFFICES ASSUME fetch \notin {Idle, Sent}
                 PROVE  fetch = FetchAnswered(Snapshot(fetch.answer.rows))
      OBVIOUS
    <3>1. PICK s \in TrueSnapshots : fetch = FetchAnswered(s)
      BY DEF StreamShape
    <3>2. fetch.answer = s /\ s = Snapshot(s.rows)
      BY <3>1, SnapshotsAreFigures DEF FetchAnswered
    <3> QED
      BY <3>1, <3>2
  <2>3. stream.state \in {"closed", "connecting", "open"}
    BY DEF StreamShape, Closed, Connecting
  <2> QED
    BY <2>1, <2>2, <2>3 DEF StreamTypeOK, StreamShape
<1> QED
  BY <1>1, StreamInvariance, PTL

\* The patches lead the page to the server's last snapshot, unless an answer of the
\* query has replaced the one that they build on (part of FiguresAreFollowed).
THEOREM PatchesStayComplete == StreamSpec => []PatchesAreComplete
<1>1. StreamInv => PatchesAreComplete
  BY DEF StreamInv
<1> QED
  BY <1>1, StreamInvariance, PTL

-----------------------------------------------------------------------------
(* The update of the panel *)

UpdateStatuses ==
    {"pending", "running", "updating", "downloading", "installing", "restarting",
     "started", "failed", "completed", "idle"}

\* What a query may hold, and what may be on its way to it.
FollowAnswers(q) ==
    IF q = "status" THEN UpdateStatuses ELSE {"old", "new"}

Console ==
    {c \in [open : BOOLEAN, watch : BOOLEAN,
            data : [Followed -> {"none"} \cup UpdateStatuses \cup {"old", "new"}],
            flight : [Followed -> {"none", "sent", "lost"} \cup UpdateStatuses
                                  \cup {"old", "new"}]] :
        \A q \in Followed :
            /\ c.data[q] \in {"none"} \cup FollowAnswers(q)
            /\ c.flight[q] \in {"none", "sent", "lost"} \cup FollowAnswers(q)}

UpdateShape ==
    /\ panelUp \in BOOLEAN /\ release \in {"old", "new"}
    /\ runtime \in {"idle", "updating", "failed", "completed"}
    /\ statusFile \in [status : {"none"} \cup UpdateStatuses, stale : BOOLEAN]
    /\ mine \in {"none", "asked", "works", "succeeded", "errored"}
    /\ installer \in {"none", "succeeded", "errored", "guard", "download", "install",
                      "stopped", "health", "rollback"}
    /\ updateAsked \in {"idle", "sent", "accepted"}
    /\ console \in Console

\* What the process knows: it waits for a unit exactly while it says "updating", it
\* says "completed" only when no installer is at work, and it is gone while the
\* installer has stopped it.
ProcessKnows ==
    /\ mine # "none" <=> runtime = "updating"
    /\ mine = "works" => AtWork
    /\ mine = "succeeded" \/ runtime = "completed" => ~AtWork
    /\ installer = "stopped" => ~panelUp

\* What the file says: of an installer past its guard, that it is in progress; of one
\* that has succeeded, that; and only what is in progress goes stale.
FileKnows ==
    /\ PastGuard => isUpdateInProgress(statusFile.status) /\ ~statusFile.stale
    /\ installer = "succeeded" => statusFile.status = "completed"
    /\ statusFile.stale => isUpdateInProgress(statusFile.status)

TellsOfWork == ProcessKnows /\ FileKnows

UpdateInv == UpdateShape /\ TellsOfWork

\* The status that is served is one of the statuses.
LEMMA StatusIsOne ==
    ASSUME UpdateShape
    PROVE  UpdateStatus \in UpdateStatuses
BY DEF UpdateShape, UpdateStatus, UpdateStatuses, isUpdateInProgress, isRuntimeStatusTerminal,
       isUpdateTerminal

\* A refetch sends requests and keeps what the queries hold.
LEMMA RefetchedKeeps ==
    ASSUME NEW c \in Console, NEW queries
    PROVE  Refetched(c, queries) \in Console
<1> DEFINE r == Refetched(c, queries)
<1>1. /\ r = [c EXCEPT !.flight = r.flight]
      /\ \A q \in Followed : r.flight[q] \in {"sent", c.flight[q]}
      /\ r.flight = [q \in Followed |-> r.flight[q]]
  BY DEF Refetched, Console
<1> HIDE DEF r
<1>2. \A q \in Followed : r.flight[q] \in {"none", "sent", "lost"} \cup FollowAnswers(q)
  BY <1>1 DEF Console
<1>3. r.flight \in [Followed -> {"none", "sent", "lost"} \cup UpdateStatuses
                                \cup {"old", "new"}]
  BY <1>1, <1>2 DEF FollowAnswers
<1> QED
  BY <1>1, <1>2, <1>3 DEF Console, r

\* And so does the effect on what was seen.
LEMMA EffectKeeps ==
    ASSUME NEW before, NEW c \in Console
    PROVE  WatchEffect(before, c) \in Console
<1>1. Refetched(c, Followed) \in Console
  BY RefetchedKeeps
<1>2. \A d \in Console : \A b \in BOOLEAN : [d EXCEPT !.watch = b] \in Console
  BY DEF Console
<1>3. (c.data["status"] = "completed" /\ c.data["version"] = "none") \in BOOLEAN
  OBVIOUS
<1> QED
  BY <1>1, <1>2, <1>3 DEF WatchEffect

\* The console's steps leave the host alone and the console a console.
LEMMA ConsoleSteps ==
    ASSUME UpdateShape,
           \/ ConsoleOpens \/ RunUpdateCheck \/ UpdateIsSent \/ UpdateIsAccepted
           \/ \E q \in Followed : FollowPolls(q) \/ FollowIsServed(q) \/ FollowLands(q)
    PROVE  console' \in Console /\ UNCHANGED hostVars /\ updateAsked' \in {"idle", "sent", updateAsked}
<1>0. console \in Console
  BY DEF UpdateShape
<1>1. CASE ConsoleOpens
  <2>1. [console EXCEPT !.open = TRUE, !.flight["status"] = "sent"] \in Console
    BY <1>0 DEF Console
  <2> QED
    BY <1>1, <2>1 DEF ConsoleOpens
<1>2. CASE RunUpdateCheck
  <2>1. [console EXCEPT !.watch = TRUE] \in Console
    BY <1>0 DEF Console
  <2> QED
    BY <1>2, <2>1, RefetchedKeeps, EffectKeeps DEF RunUpdateCheck
<1>3. CASE UpdateIsSent
  BY <1>0, <1>3 DEF UpdateIsSent
<1>4. CASE UpdateIsAccepted
  <2>1. [console EXCEPT !.watch = TRUE] \in Console
    BY <1>0 DEF Console
  <2>2. \A c \in Watching(console) : c \in Console
    BY <2>1, RefetchedKeeps DEF Watching
  <2> QED
    BY <1>4, <2>2, RefetchedKeeps, EffectKeeps DEF UpdateIsAccepted
<1>5. ASSUME NEW q \in Followed, FollowPolls(q)
      PROVE  console' \in Console /\ UNCHANGED hostVars /\ updateAsked' = updateAsked
  BY <1>0, <1>5, RefetchedKeeps DEF FollowPolls
<1>6. ASSUME NEW q \in Followed, FollowIsServed(q)
      PROVE  console' \in Console /\ UNCHANGED hostVars /\ updateAsked' = updateAsked
  <2> DEFINE answer == CASE ~panelUp -> "lost"
                         [] panelUp /\ q = "status" -> UpdateStatus
                         [] panelUp /\ q = "version" -> release
  <2>1. answer \in {"lost"} \cup FollowAnswers(q)
    BY StatusIsOne DEF UpdateShape, FollowAnswers, Followed
  <2>2. console' = [console EXCEPT !.flight[q] = answer] /\ UNCHANGED <<hostVars, updateAsked>>
    BY <1>6 DEF FollowIsServed
  <2> HIDE DEF answer
  <2>3. FollowAnswers(q) \subseteq UpdateStatuses \cup {"old", "new"}
    BY DEF FollowAnswers
  <2>4. [console EXCEPT !.flight[q] = answer] \in Console
    BY <1>0, <2>1, <2>3 DEF Console
  <2> QED
    BY <2>2, <2>4
<1>7. ASSUME NEW q \in Followed, FollowLands(q)
      PROVE  console' \in Console /\ UNCHANGED hostVars /\ updateAsked' = updateAsked
  <2> DEFINE answer == console.flight[q]
             landed == [console EXCEPT !.flight[q] = "none",
                                       !.data[q] = IF answer = "lost" THEN @ ELSE answer]
  <2>1. answer \in {"lost"} \cup FollowAnswers(q)
    BY <1>0, <1>7 DEF FollowLands, Console
  <2>2. FollowAnswers(q) \subseteq UpdateStatuses \cup {"old", "new"}
    BY DEF FollowAnswers
  <2>3. console' = WatchEffect(console, landed) /\ UNCHANGED <<hostVars, updateAsked>>
    BY <1>7 DEF FollowLands
  <2>4. landed \in Console
    BY <1>0, <2>1, <2>2 DEF Console
  <2> HIDE DEF landed
  <2> QED
    BY <2>3, <2>4, EffectKeeps
<1> QED
  BY <1>1, <1>2, <1>3, <1>4, <1>5, <1>6, <1>7 DEF UpdateIsAccepted, UpdateIsSent, ConsoleOpens, RunUpdateCheck

\* A step of the installer hands the telling from the process to the file.
LEMMA InstallerKeeps ==
    ASSUME UpdateInv, InstallerWorks
    PROVE  UpdateInv'
<1> USE DEF UpdateInv
<1>1. UNCHANGED <<console, updateAsked>>
  BY DEF InstallerWorks, InstallerStarts, Guarded, Downloaded, PanelIsStopped, PanelIsReplaced,
         UpgradeIsHealthy, RollsBack, RolledBack
<1>2. \/ InstallerStarts \/ Guarded \/ Downloaded \/ PanelIsStopped
      \/ PanelIsReplaced \/ UpgradeIsHealthy \/ RollsBack \/ RolledBack
  BY DEF InstallerWorks
<1>3. UpdateShape'
  <2>1. statusFile' = statusFile \/ \E s \in UpdateStatuses : statusFile' = [status |-> s, stale |-> FALSE]
    <3>1. {"downloading", "failed", "installing", "restarting", "completed"} \subseteq UpdateStatuses
      BY DEF UpdateStatuses
    <3> QED
      BY <1>2, <3>1 DEF InstallerStarts, Guarded, Downloaded, PanelIsStopped, PanelIsReplaced,
                       UpgradeIsHealthy, RollsBack, RolledBack, Writes
  <2>2. statusFile' \in [status : {"none"} \cup UpdateStatuses, stale : BOOLEAN]
    <3>1. CASE statusFile' = statusFile
      BY <3>1 DEF UpdateShape
    <3>2. ASSUME NEW s \in UpdateStatuses, statusFile' = [status |-> s, stale |-> FALSE]
          PROVE  statusFile' \in [status : {"none"} \cup UpdateStatuses, stale : BOOLEAN]
      BY <3>2
    <3> QED
      BY <2>1, <3>1, <3>2
  <2>3. /\ panelUp' \in {TRUE, FALSE, panelUp} /\ release' \in {"old", "new", release}
        /\ runtime' \in {"idle", runtime}
        /\ mine' \in {"none", "works", "succeeded", "errored", mine}
        /\ installer' \in {"errored", "succeeded", "guard", "download", "install", "stopped",
                            "health", "rollback", installer}
    <3>1. CASE InstallerStarts \/ Guarded \/ Downloaded \/ PanelIsStopped
      BY <3>1 DEF InstallerStarts, Guarded, Downloaded, PanelIsStopped, Ends
    <3>2. CASE PanelIsReplaced \/ UpgradeIsHealthy \/ RollsBack \/ RolledBack
      BY <3>2 DEF PanelIsReplaced, UpgradeIsHealthy, RollsBack, RolledBack, Ends
    <3> QED
      BY <1>2, <3>1, <3>2
  <2>4. /\ panelUp' \in BOOLEAN /\ release' \in {"old", "new"}
        /\ runtime' \in {"idle", "updating", "failed", "completed"}
        /\ mine' \in {"none", "asked", "works", "succeeded", "errored"}
    BY <2>3 DEF UpdateShape
  <2>5. installer' \in {"none", "succeeded", "errored", "guard", "download", "install",
                        "stopped", "health", "rollback"}
    BY <2>3 DEF UpdateShape
  <2>6. console' \in Console /\ updateAsked' \in {"idle", "sent", "accepted"}
    BY <1>1 DEF UpdateShape
  <2> QED
    BY <2>2, <2>4, <2>5, <2>6 DEF UpdateShape
<1>4. ProcessKnows'
  <2> USE DEF TellsOfWork, ProcessKnows, AtWork, PastGuard, Ends
  <2>1. CASE InstallerStarts \/ PanelIsStopped
    BY <2>1 DEF InstallerStarts, PanelIsStopped
  <2>2. CASE Guarded \/ Downloaded
    BY <2>2 DEF Guarded, Downloaded
  <2>3. CASE PanelIsReplaced \/ UpgradeIsHealthy
    BY <2>3 DEF PanelIsReplaced, UpgradeIsHealthy
  <2>4. CASE RollsBack \/ RolledBack
    BY <2>4 DEF RollsBack, RolledBack
  <2> QED
    BY <1>2, <2>1, <2>2, <2>3, <2>4
<1>5. FileKnows'
  <2> USE DEF TellsOfWork, FileKnows, PastGuard, Ends
  <2>1. CASE InstallerStarts \/ PanelIsStopped
    BY <2>1 DEF InstallerStarts, PanelIsStopped
  <2>2. CASE Guarded \/ Downloaded
    BY <2>2 DEF Guarded, Downloaded, Writes, isUpdateInProgress
  <2>3. CASE PanelIsReplaced \/ UpgradeIsHealthy
    BY <2>3 DEF PanelIsReplaced, UpgradeIsHealthy, Writes, isUpdateInProgress
  <2>4. CASE RollsBack \/ RolledBack
    BY <2>4 DEF RollsBack, RolledBack, Writes, isUpdateInProgress
  <2> QED
    BY <1>2, <2>1, <2>2, <2>3, <2>4
<1> QED
  BY <1>3, <1>4, <1>5 DEF TellsOfWork

\* Requests, ends, deadlines, restarts and the clock.
LEMMA HostKeeps ==
    ASSUME UpdateInv,
           \/ UpdateIsServed \/ RunFinishes \/ DeadlinePasses \/ UnitIsKilled
           \/ PanelRestarts \/ HostReboots \/ FileGoesStale
    PROVE  UpdateInv'
<1> USE DEF UpdateInv, TellsOfWork
<1>1. CASE UpdateIsServed
  <2>1. UpdateShape'
    BY <1>1 DEF UpdateShape, UpdateIsServed
  <2>2. ProcessKnows'
    BY <1>1 DEF ProcessKnows, UpdateIsServed, AtWork, PastGuard
  <2>3. FileKnows'
    BY <1>1 DEF FileKnows, UpdateIsServed, PastGuard
  <2> QED
    BY <2>1, <2>2, <2>3
<1>2. CASE RunFinishes \/ DeadlinePasses
  <2>1. UpdateShape'
    BY <1>2 DEF UpdateShape, RunFinishes, DeadlinePasses, Finish
  <2>2. ProcessKnows'
    BY <1>2 DEF ProcessKnows, RunFinishes, DeadlinePasses, Finish, AtWork, PastGuard
  <2>3. FileKnows'
    BY <1>2 DEF FileKnows, RunFinishes, DeadlinePasses, PastGuard
  <2> QED
    BY <2>1, <2>2, <2>3
<1>3. CASE UnitIsKilled
  <2>1. UpdateShape'
    BY <1>3 DEF UpdateShape, UnitIsKilled, Ends
  <2>2. ProcessKnows'
    BY <1>3 DEF ProcessKnows, UnitIsKilled, Ends, AtWork, PastGuard
  <2>3. FileKnows'
    BY <1>3 DEF FileKnows, UnitIsKilled, Ends, PastGuard
  <2> QED
    BY <2>1, <2>2, <2>3
<1>4. CASE PanelRestarts \/ HostReboots
  <2>0. /\ PanelIsAnew
        /\ \/ installer' = installer /\ panelUp
           \/ installer' = IF AtWork THEN "errored" ELSE installer
    BY <1>4 DEF PanelRestarts, HostReboots
  <2>1. console' \in Console
    <3> DEFINE flight == [q \in DOMAIN console.flight |->
                             IF console.flight[q] = "sent" THEN "lost" ELSE console.flight[q]]
    <3>1. console \in Console /\ console' = [console EXCEPT !.flight = flight]
      BY <2>0 DEF PanelIsAnew, UpdateShape
    <3>2. \A q \in Followed : flight[q] \in {"none", "sent", "lost"} \cup FollowAnswers(q)
      BY <3>1 DEF Console
    <3>3. FollowAnswers("status") \subseteq UpdateStatuses \cup {"old", "new"}
          /\ FollowAnswers("version") \subseteq UpdateStatuses \cup {"old", "new"}
      BY DEF FollowAnswers
    <3>4. flight \in [Followed -> {"none", "sent", "lost"} \cup UpdateStatuses \cup {"old", "new"}]
      BY <3>1, <3>2, <3>3 DEF Console, Followed
    <3> HIDE DEF flight
    <3> QED
      BY <3>1, <3>2, <3>4 DEF Console
  <2>2. UpdateShape'
    BY <2>0, <2>1 DEF UpdateShape, PanelIsAnew
  <2>3. ProcessKnows'
    BY <2>0 DEF ProcessKnows, PanelIsAnew, AtWork, PastGuard
  <2>4. FileKnows'
    BY <2>0 DEF FileKnows, PanelIsAnew, AtWork, PastGuard
  <2> QED
    BY <2>2, <2>3, <2>4
<1>5. CASE FileGoesStale
  <2>1. UpdateShape'
    BY <1>5 DEF UpdateShape, FileGoesStale
  <2>2. ProcessKnows'
    BY <1>5 DEF ProcessKnows, FileGoesStale, AtWork, PastGuard
  <2>3. statusFile'.status = statusFile.status
    BY <1>5 DEF UpdateShape, FileGoesStale
  <2>4. FileKnows'
    BY <1>5, <2>3 DEF FileKnows, FileGoesStale, PastGuard
  <2> QED
    BY <2>1, <2>2, <2>4
<1> QED
  BY <1>1, <1>2, <1>3, <1>4, <1>5

\* The invariant of an update: its types, and what the process and the file know of
\* the installer.
THEOREM UpdateInvariance == PanelUpdateSpec => []UpdateInv
<1>1. PanelUpdateInit => UpdateInv
  <2> SUFFICES ASSUME PanelUpdateInit PROVE UpdateInv
    OBVIOUS
  <2>1. ConsoleClosed \in Console
    BY DEF ConsoleClosed, Console
  <2>2. UpdateShape
    BY <2>1 DEF PanelUpdateInit, UpdateShape, UpdateStatuses
  <2>3. TellsOfWork
    BY DEF PanelUpdateInit, TellsOfWork, ProcessKnows, FileKnows, AtWork, PastGuard, isUpdateInProgress
  <2> QED
    BY <2>2, <2>3 DEF UpdateInv
<1>2. UpdateInv /\ [PanelUpdateNext]_updateVars => UpdateInv'
  <2> SUFFICES ASSUME UpdateInv, [PanelUpdateNext]_updateVars PROVE UpdateInv'
    OBVIOUS
  <2>1. CASE InstallerWorks
    BY <2>1, InstallerKeeps
  <2>2. CASE \/ UpdateIsServed \/ RunFinishes \/ DeadlinePasses \/ UnitIsKilled
             \/ PanelRestarts \/ HostReboots \/ FileGoesStale
    BY <2>2, HostKeeps
  <2>3. CASE \/ ConsoleOpens \/ RunUpdateCheck \/ UpdateIsSent \/ UpdateIsAccepted
             \/ \E q \in Followed : FollowPolls(q) \/ FollowIsServed(q) \/ FollowLands(q)
    <3>1. /\ console' \in Console /\ updateAsked' \in {"idle", "sent", updateAsked}
          /\ UNCHANGED <<panelUp, runtime, statusFile, mine, installer, release>>
      BY <2>3, ConsoleSteps DEF UpdateInv, hostVars
    <3> QED
      BY <3>1 DEF UpdateInv, UpdateShape, TellsOfWork, ProcessKnows, FileKnows, AtWork, PastGuard
  <2>4. CASE UNCHANGED updateVars
    BY <2>4 DEF updateVars, UpdateInv, UpdateShape, TellsOfWork, ProcessKnows, FileKnows, AtWork,
                PastGuard
  <2> QED
    BY <2>1, <2>2, <2>3, <2>4 DEF PanelUpdateNext
<1> QED
  BY <1>1, <1>2, PTL DEF PanelUpdateSpec

\* The host, the status file and the console keep to their types.
THEOREM UpdateTypeCorrect == PanelUpdateSpec => []UpdateTypeOK
<1>1. ASSUME UpdateInv PROVE UpdateTypeOK
  <2>1. /\ console.data["version"] \in {"none", "old", "new"}
        /\ console.data["status"] \in {"none"} \cup UpdateStatuses
    BY <1>1 DEF UpdateInv, UpdateShape, Console, FollowAnswers, Followed
  <2>2. \A s \in UpdateStatuses : isUpdateInProgress(s) \/ isUpdateTerminal(s)
    BY DEF UpdateStatuses, isUpdateInProgress, isUpdateTerminal
  <2> QED
    BY <1>1, <2>1, <2>2 DEF UpdateTypeOK, UpdateInv, UpdateShape, AtWork, PastGuard
<1> QED
  BY <1>1, UpdateInvariance, PTL

\* A panel that answers while an installer past its guard is at work says that an update
\* is in progress, whatever deadline, restart, reboot or further request came between; or,
\* when its own unit has failed or was given up, that it failed (part of UpdateIsFollowed).
THEOREM WorkIsTold == PanelUpdateSpec => []WorkIsReported
<1>1. ASSUME UpdateInv PROVE WorkIsReported
  <2> SUFFICES ASSUME PastGuard, panelUp
               PROVE  IF runtime = "failed" THEN UpdateStatus = "failed"
                      ELSE isUpdateInProgress(UpdateStatus)
    BY DEF WorkIsReported
  <2>1. /\ isUpdateInProgress(statusFile.status) /\ ~statusFile.stale
        /\ statusFile.status # "none"
        /\ runtime \in {"idle", "updating", "failed"}
    BY <1>1 DEF UpdateInv, UpdateShape, TellsOfWork, ProcessKnows, FileKnows, AtWork, PastGuard,
                isUpdateInProgress
  <2> QED
    BY <2>1 DEF UpdateStatus, isUpdateInProgress, isRuntimeStatusTerminal, isUpdateTerminal
<1> QED
  BY <1>1, UpdateInvariance, PTL

\* An installer that has succeeded is reported as that, also by a process that had given
\* it up (part of UpdateIsFollowed).
THEOREM SuccessIsTold == PanelUpdateSpec => []SuccessIsReported
<1>1. ASSUME UpdateInv PROVE SuccessIsReported
  BY <1>1 DEF SuccessIsReported, UpdateInv, UpdateShape, TellsOfWork, FileKnows, UpdateStatus,
              isUpdateInProgress, isRuntimeStatusTerminal, isUpdateTerminal
<1> QED
  BY <1>1, UpdateInvariance, PTL

-----------------------------------------------------------------------------
(* The session *)

\* The login page, the panel's pages, their queries and requests keep to their types;
\* there is no session where no login is asked for.
THEOREM SessionTypeCorrect == SessionSpec => []SessionTypeOK
<1>1. SessionInit => SessionTypeOK
  BY DEF SessionInit, SessionTypeOK, Pages
<1>2. SessionTypeOK /\ [SessionNext]_sessionVars => SessionTypeOK'
  <2> SUFFICES ASSUME SessionTypeOK, [SessionNext]_sessionVars PROVE SessionTypeOK'
    OBVIOUS
  <2> USE DEF SessionTypeOK, sessionServer, location, session, mutations
  <2>1. CASE Open \/ Reloads \/ VisibilityChanges
    BY <2>1 DEF Open, Reloads, VisibilityChanges, Load, Acts, Pages
  <2>2. CASE CheckIsServed \/ CheckLands \/ CheckFails \/ Ages
    BY <2>2 DEF CheckIsServed, CheckLands, CheckFails, Ages
  <2>3. CASE Bounce \/ Enter
    BY <2>3 DEF Bounce, Enter, Mount, InPanel
  <2>4. ASSUME NEW page \in Pages, RequestIsSent(page) \/ Navigate(page) PROVE SessionTypeOK'
    BY <2>4 DEF RequestIsSent, Navigate, Mount
  <2>5. CASE PageRequestIsServed \/ RequestFails
    BY <2>5 DEF PageRequestIsServed, RequestFails
  <2>6. CASE RequestLands
    BY <2>6 DEF RequestLands, Unauthorized, Load, InPanel, Pages
  <2>7. CASE LoginIsSent \/ LoginIsServed \/ LoginFails \/ LoginSucceeds
    BY <2>7 DEF LoginIsSent, LoginIsServed, LoginFails, LoginSucceeds, Acts
  <2>8. CASE LogoutIsSent \/ LogoutIsServed \/ LogoutFails
    BY <2>8 DEF LogoutIsSent, LogoutIsServed, LogoutFails, Acts
  <2>9. CASE LogoutSucceeds \/ LogoutIsRefused
    BY <2>9 DEF LogoutSucceeds, LogoutIsRefused, Mount, Unauthorized, Load, InPanel, Pages
  <2>10. CASE SessionEnds
    BY <2>10 DEF SessionEnds
  <2>11. CASE UNCHANGED sessionVars
    BY <2>11 DEF sessionVars
  <2> QED
    BY <2>1, <2>2, <2>3, <2>4, <2>5, <2>6, <2>7, <2>8, <2>9, <2>10, <2>11 DEF SessionNext
<1> QED
  BY <1>1, <1>2, PTL DEF SessionSpec

-----------------------------------------------------------------------------
(* The certificates *)

CertRequestStates == {"idle", "sent", "checked", "done", "refused"}
CertFlights == {"idle", "sent", "served"}

\* Every certificate that the store, the page or a request speaks of has an id up to n.
CertsUpTo(n) ==
    /\ certs \subseteq 1..n
    /\ \A i \in DOMAIN bound : bound[i] \in 0..n
    /\ certList \in [data : SUBSET SUBSET (1..n), flight : CertFlights, answer : SUBSET SUBSET (1..n)]
    /\ targets.flight \in CertFlights
    /\ targets = [data |-> targets.data, flight |-> targets.flight, answer |-> targets.answer]
    /\ selectedCertId \in 0..n /\ appliedSelectionCertId \in 0..n
    /\ selectedInboundIds \subseteq TlsInbounds
    /\ dialog.kind \in {"none"} \cup Mutations /\ dialog.cert \in 0..n
    /\ requested \in [Mutations -> [at : CertRequestStates, cert : 0..n, ids : SUBSET TlsInbounds]]

CertShape == lastCertId \in 0..MaxCertId /\ CertsUpTo(lastCertId)

\* Ids up to a number are ids up to a greater one.
LEMMA CertsWiden ==
    ASSUME NEW n \in Nat, CertsUpTo(n)
    PROVE  CertsUpTo(n + 1)
<1>1. 1..n \subseteq 1..(n + 1) /\ 0..n \subseteq 0..(n + 1)
  OBVIOUS
<1>2. SUBSET SUBSET (1..n) \subseteq SUBSET SUBSET (1..(n + 1))
  BY <1>1
<1>3. certList \in [data : SUBSET SUBSET (1..(n + 1)), flight : CertFlights,
                    answer : SUBSET SUBSET (1..(n + 1))]
  BY <1>2 DEF CertsUpTo
<1>4. requested \in [Mutations -> [at : CertRequestStates, cert : 0..(n + 1), ids : SUBSET TlsInbounds]]
  BY <1>1 DEF CertsUpTo
<1> QED
  BY <1>1, <1>3, <1>4 DEF CertsUpTo

\* The certificate that is shown is one of the list, or none.
LEMMA ShownIsListed ==
    ASSUME NEW n \in Nat, NEW chosen \in 0..n, NEW list \in SUBSET (1..n)
    PROVE  SelectedOf(chosen, list) \in 0..n
<1>1. CASE list = {} \/ chosen \in list
  BY <1>1 DEF SelectedOf
<1>2. CASE list # {} /\ chosen \notin list
  <2> DEFINE T == {n - x : x \in list}
  <2>0. \A x \in list : x \in Nat /\ x \in 0..n /\ n - x \in Nat
    OBVIOUS
  <2>1. T \subseteq Nat
    BY <2>0
  <2>2. PICK z \in list : TRUE
    BY <1>2
  <2>3. n - z \in T
    BY <2>2
  <2>4. T # {}
    BY <2>3
  <2>5. PICK d \in T : \A e \in T : d <= e
    BY <2>1, <2>4, LeastNumber
  <2>6. PICK m \in list : d = n - m
    BY <2>5
  <2>7. ASSUME NEW y \in list PROVE m >= y
    <3>1. n - y \in T
      OBVIOUS
    <3>2. n - m <= n - y
      BY <2>5, <2>6, <3>1
    <3>3. m \in Nat /\ y \in Nat
      BY <2>0
    <3> QED
      BY <3>2, <3>3
  <2>8. Max(list) \in list
    BY <2>7 DEF Max
  <2>9. SelectedOf(chosen, list) = Max(list)
    BY <1>2 DEF SelectedOf
  <2> QED
    BY <2>0, <2>8, <2>9
<1> QED
  BY <1>1, <1>2

\* The one that the page shows.
LEMMA SelectedIsUpTo ==
    ASSUME NEW n \in Nat, CertsUpTo(n)
    PROVE  selectedCertificate \in 0..n
<1>1. ListedCerts \in SUBSET (1..n)
  BY DEF CertsUpTo, ListedCerts
<1> QED
  BY <1>1, ShownIsListed DEF CertsUpTo, selectedCertificate

\* The effect of a rendering keeps a choice among the ids and the inbounds.
LEMMA EffectIsUpTo ==
    ASSUME NEW n \in Nat, NEW ids \in SUBSET TlsInbounds, NEW applied, NEW current \in 0..n,
           SelectionEffect(ids, applied, current)
    PROVE  appliedSelectionCertId' \in 0..n /\ selectedInboundIds' \subseteq TlsInbounds
BY DEF SelectionEffect

\* A query that is fetched anew.
LEMMA RefreshIsUpTo ==
    ASSUME NEW n \in Nat, CertsUpTo(n), RefreshCertificates
    PROVE  /\ certList' \in [data : SUBSET SUBSET (1..n), flight : CertFlights,
                             answer : SUBSET SUBSET (1..n)]
           /\ targets'.flight \in CertFlights
           /\ targets' = [data |-> targets'.data, flight |-> targets'.flight, answer |-> targets'.answer]
<1>1. /\ certList' = [certList EXCEPT !.flight = "sent", !.answer = {}]
      /\ targets' = [targets EXCEPT !.flight = "sent", !.answer = {}]
  BY DEF RefreshCertificates, InvalidatedCert
<1>2. {} \in SUBSET SUBSET (1..n) /\ "sent" \in CertFlights
  BY DEF CertFlights
<1>3. targets' = [data |-> targets.data, flight |-> "sent", answer |-> {}]
  BY <1>1 DEF CertsUpTo
<1> QED
  BY <1>1, <1>2, <1>3 DEF CertsUpTo

\* A step of the page.
LEMMA CertPageKeepsIds ==
    ASSUME NEW n \in Nat, CertsUpTo(n),
           \/ CertPageOpens \/ \E w \in {"acme", "import", "apply"} : ChooseWorkspace(w)
           \/ \E id \in TlsInbounds : ToggleInbound(id)
           \/ \E id : SelectCertificate(id)
           \/ AskCert \/ CertDialogCloses \/ CertConfirmed
           \/ CertListLands \/ TargetsLand \/ SettingsRefresh
    PROVE  CertsUpTo(n)' /\ lastCertId' = lastCertId
<1> USE DEF serverVars, choiceVars
<1>1. selectedCertificate \in 0..n
  BY SelectedIsUpTo
<1>2. CASE CertPageOpens \/ SettingsRefresh
  <2>1. RefreshCertificates /\ UNCHANGED <<serverVars, choiceVars, dialog, requested>>
    BY <1>2 DEF CertPageOpens, SettingsRefresh
  <2> QED
    BY <2>1, RefreshIsUpTo DEF CertsUpTo
<1>3. CASE \E w \in {"acme", "import", "apply"} : ChooseWorkspace(w)
  BY <1>3 DEF ChooseWorkspace, CertsUpTo
<1>4. ASSUME NEW id \in TlsInbounds, ToggleInbound(id) PROVE CertsUpTo(n)' /\ lastCertId' = lastCertId
  <2>1. toggleID(selectedInboundIds, id) \in SUBSET TlsInbounds
    BY DEF CertsUpTo, toggleID
  <2>2. appliedSelectionCertId' \in 0..n /\ selectedInboundIds' \subseteq TlsInbounds
    BY <1>1, <1>4, <2>1, EffectIsUpTo DEF ToggleInbound
  <2> QED
    BY <1>4, <2>2 DEF ToggleInbound, CertsUpTo
<1>5. ASSUME NEW id, SelectCertificate(id) PROVE CertsUpTo(n)' /\ lastCertId' = lastCertId
  <2>1. id \in 0..n
    BY <1>5 DEF SelectCertificate, ListedCerts, CertsUpTo
  <2>2. \/ SelectionEffect({}, id, id)
        \/ SelectionEffect(selectedInboundIds, appliedSelectionCertId, id)
    BY <1>5 DEF SelectCertificate
  <2>3. appliedSelectionCertId' \in 0..n /\ selectedInboundIds' \subseteq TlsInbounds
    BY <2>1, <2>2, EffectIsUpTo DEF CertsUpTo
  <2> QED
    BY <1>5, <2>1, <2>3 DEF SelectCertificate, CertsUpTo
<1>6. CASE AskCert \/ CertDialogCloses
  <2>1. dialog'.kind \in {"none"} \cup Mutations /\ dialog'.cert \in 0..n
    <3>1. \A id \in ListedCerts : id \in 0..n
      BY DEF ListedCerts, CertsUpTo
    <3> QED
      BY <1>1, <1>6, <3>1 DEF AskCert, AskToApply, AskToImport, AskToDelete, CertDialogCloses, NoDialog,
                             Mutations
  <2> QED
    BY <1>6, <2>1 DEF AskCert, CertDialogCloses, CertsUpTo
<1>7. CASE CertConfirmed
  <2> DEFINE kind == dialog.kind
             r == CASE kind = "apply" -> [at |-> "sent", cert |-> selectedCertificate, ids |-> selectedInboundIds]
                    [] kind = "delete" -> [at |-> "sent", cert |-> dialog.cert, ids |-> {}]
                    [] kind = "import" -> [at |-> "sent", cert |-> 0, ids |-> {}]
  <2>1. kind \in Mutations /\ requested' = [requested EXCEPT ![kind] = r]
    BY <1>7 DEF CertConfirmed, CertsUpTo
  <2>2. r \in [at : CertRequestStates, cert : 0..n, ids : SUBSET TlsInbounds]
    BY <1>1, <2>1 DEF Mutations, CertsUpTo, CertRequestStates
  <2> HIDE DEF r
  <2>3. requested' \in [Mutations -> [at : CertRequestStates, cert : 0..n, ids : SUBSET TlsInbounds]]
    BY <2>1, <2>2 DEF CertsUpTo
  <2>4. dialog' = NoDialog /\ UNCHANGED <<serverVars, certList, targets, choiceVars>>
    BY <1>7 DEF CertConfirmed
  <2> QED
    BY <2>3, <2>4 DEF CertsUpTo, NoDialog
<1>8. CASE CertListLands
  <2>1. UNION certList.answer \in SUBSET (1..n)
    BY DEF CertsUpTo
  <2>2. SelectedOf(selectedCertId, UNION certList.answer) \in 0..n
    BY <2>1, ShownIsListed DEF CertsUpTo
  <2>3. appliedSelectionCertId' \in 0..n /\ selectedInboundIds' \subseteq TlsInbounds
    BY <1>8, <2>2, EffectIsUpTo DEF CertListLands, CertsUpTo
  <2>4. certList' \in [data : SUBSET SUBSET (1..n), flight : CertFlights, answer : SUBSET SUBSET (1..n)]
    BY <1>8 DEF CertListLands, CertsUpTo, CertFlights
  <2> QED
    BY <1>8, <2>3, <2>4 DEF CertListLands, CertsUpTo
<1>9. CASE TargetsLand
  BY <1>9 DEF TargetsLand, CertsUpTo, CertFlights
<1> QED
  BY <1>2, <1>3, <1>4, <1>5, <1>6, <1>7, <1>8, <1>9

\* A request whose state changes is one of the requests.
LEMMA SettledIsUpTo ==
    ASSUME NEW n \in Nat, CertsUpTo(n), NEW m \in Mutations, NEW s \in CertRequestStates,
           requested' = [requested EXCEPT ![m].at = s]
    PROVE  requested' \in [Mutations -> [at : CertRequestStates, cert : 0..n, ids : SUBSET TlsInbounds]]
BY DEF CertsUpTo

\* A step of the server or an answer, for ids that include the ones it gives.
LEMMA CertServerKeepsIds ==
    ASSUME NEW n \in Nat, CertsUpTo(n), certs' \subseteq 1..n,
           \/ \E m \in Mutations : CertMutationLands(m)
           \/ CertListIsServed \/ TargetsAreServed
           \/ ApplyIsServed \/ DeleteIsChecked \/ DeleteIsDone \/ ImportIsServed
           \/ CertChangesElsewhere
    PROVE  CertsUpTo(n)'
<1> USE DEF serverVars, choiceVars, boundVars
<1>0. {"apply", "delete", "import"} = Mutations /\ {"checked", "done", "refused"} \subseteq CertRequestStates
  BY DEF Mutations, CertRequestStates
<1>1. ASSUME NEW m \in Mutations, CertMutationLands(m) PROVE CertsUpTo(n)'
  <2>1. NoCertRequest \in [at : CertRequestStates, cert : 0..n, ids : SUBSET TlsInbounds]
    BY DEF NoCertRequest, CertRequestStates
  <2>2. requested' \in [Mutations -> [at : CertRequestStates, cert : 0..n, ids : SUBSET TlsInbounds]]
    BY <1>1, <2>1 DEF CertMutationLands, CertsUpTo
  <2>3. RefreshCertificates \/ UNCHANGED <<certList, targets>>
    BY <1>1 DEF CertMutationLands
  <2>4. UNCHANGED <<certs, lastCertId, bound, choiceVars, dialog>>
    BY <1>1 DEF CertMutationLands
  <2> QED
    BY <2>2, <2>3, <2>4, RefreshIsUpTo DEF CertsUpTo
<1>2. CASE CertListIsServed
  <2>1. {certs} \in SUBSET SUBSET (1..n)
    BY DEF CertsUpTo
  <2>2. certList' \in [data : SUBSET SUBSET (1..n), flight : CertFlights, answer : SUBSET SUBSET (1..n)]
    BY <1>2, <2>1 DEF CertListIsServed, CertsUpTo, CertFlights
  <2> QED
    BY <1>2, <2>2 DEF CertListIsServed, CertsUpTo
<1>3. CASE TargetsAreServed
  <2>1. targets' = [data |-> targets.data, flight |-> "served", answer |-> {bound}]
    BY <1>3 DEF TargetsAreServed, CertsUpTo
  <2> QED
    BY <1>3, <2>1 DEF TargetsAreServed, CertsUpTo, CertFlights
<1>4. CASE ApplyIsServed
  <2>1. requested' \in [Mutations -> [at : CertRequestStates, cert : 0..n, ids : SUBSET TlsInbounds]]
    BY <1>0, <1>4, SettledIsUpTo DEF ApplyIsServed, Settled
  <2>2. requested["apply"].cert \in 0..n
    BY DEF CertsUpTo, Mutations
  <2>3. \A i \in DOMAIN bound' : bound'[i] \in 0..n
    BY <1>4, <2>2 DEF ApplyIsServed, CertsUpTo
  <2> QED
    BY <1>4, <2>1, <2>3 DEF ApplyIsServed, CertsUpTo
<1>5. CASE DeleteIsChecked
  <2>1. requested' \in [Mutations -> [at : CertRequestStates, cert : 0..n, ids : SUBSET TlsInbounds]]
    BY <1>0, <1>5, SettledIsUpTo DEF DeleteIsChecked
  <2> QED
    BY <1>5, <2>1 DEF DeleteIsChecked, CertsUpTo
<1>6. CASE DeleteIsDone
  <2>1. requested' \in [Mutations -> [at : CertRequestStates, cert : 0..n, ids : SUBSET TlsInbounds]]
    BY <1>0, <1>6, SettledIsUpTo DEF DeleteIsDone, Settled
  <2> QED
    BY <1>6, <2>1 DEF DeleteIsDone, CertsUpTo
<1>7. CASE ImportIsServed
  <2>1. requested' \in [Mutations -> [at : CertRequestStates, cert : 0..n, ids : SUBSET TlsInbounds]]
    BY <1>0, <1>7, SettledIsUpTo DEF ImportIsServed, Settled
  <2> QED
    BY <1>7, <2>1 DEF ImportIsServed, CertsUpTo
<1>8. CASE CertChangesElsewhere
  <2>1. \A i \in DOMAIN bound' : bound'[i] \in 0..n
    BY <1>8 DEF CertChangesElsewhere, CertsUpTo
  <2>2. UNCHANGED <<certList, targets, choiceVars, dialog, requested>>
    BY <1>8 DEF CertChangesElsewhere
  <2> QED
    BY <2>1, <2>2 DEF CertsUpTo
<1> QED
  BY <1>1, <1>2, <1>3, <1>4, <1>5, <1>6, <1>7, <1>8

\* Who gives an id gives the next one.
LEMMA IdsAreNext ==
    ASSUME CertShape,
           \/ \E m \in Mutations : CertMutationLands(m)
           \/ CertListIsServed \/ TargetsAreServed
           \/ ApplyIsServed \/ DeleteIsChecked \/ DeleteIsDone \/ ImportIsServed
           \/ CertChangesElsewhere
    PROVE  \/ lastCertId' = lastCertId /\ certs' \subseteq certs
           \/ Imports
<1>1. CASE \E m \in Mutations : CertMutationLands(m)
  BY <1>1 DEF CertMutationLands, serverVars
<1>2. CASE CertListIsServed \/ TargetsAreServed \/ ApplyIsServed \/ DeleteIsChecked
  BY <1>2 DEF CertListIsServed, TargetsAreServed, ApplyIsServed, DeleteIsChecked, serverVars
<1>3. CASE DeleteIsDone \/ ImportIsServed
  BY <1>3 DEF DeleteIsDone, ImportIsServed
<1>4. CASE CertChangesElsewhere
  BY <1>4 DEF CertChangesElsewhere
<1> QED
  BY <1>1, <1>2, <1>3, <1>4

\* The server gives ids in order.
LEMMA CertServerKeeps ==
    ASSUME CertShape,
           \/ \E m \in Mutations : CertMutationLands(m)
           \/ CertListIsServed \/ TargetsAreServed
           \/ ApplyIsServed \/ DeleteIsChecked \/ DeleteIsDone \/ ImportIsServed
           \/ CertChangesElsewhere
    PROVE  CertShape'
<1>0. lastCertId \in Nat /\ MaxCertId \in Nat /\ CertsUpTo(lastCertId)
  BY CertificatePageBounds DEF CertShape
<1>1. CASE lastCertId' = lastCertId /\ certs' \subseteq certs
  <2> DEFINE n == lastCertId
  <2>1. \A k \in Nat : k = n => CertsUpTo(k)'
    <3> SUFFICES ASSUME NEW k \in Nat, k = lastCertId PROVE CertsUpTo(k)'
      OBVIOUS
    <3>1. CertsUpTo(k) /\ certs' \subseteq 1..k
      BY <1>0, <1>1 DEF CertsUpTo
    <3> QED
      BY <3>1, CertServerKeepsIds
  <2> QED
    BY <1>0, <1>1, <2>1 DEF CertShape, CertsUpTo
<1>2. CASE Imports
  <2>1. \A k \in Nat : k = lastCertId + 1 => CertsUpTo(k)'
    <3> SUFFICES ASSUME NEW k \in Nat, k = lastCertId + 1 PROVE CertsUpTo(k)'
      OBVIOUS
    <3>1. CertsUpTo(k)
      BY <1>0, CertsWiden
    <3>2. certs' = certs \cup {k}
      BY <1>2 DEF Imports
    <3>3. k \in 1..k /\ certs \subseteq 1..k
      BY <1>0, <3>1 DEF CertsUpTo
    <3>4. certs' \subseteq 1..k
      BY <3>2, <3>3
    <3> QED
      BY <3>1, <3>4, CertServerKeepsIds
  <2>2. lastCertId' = lastCertId + 1 /\ lastCertId' \in 0..MaxCertId
    BY <1>0, <1>2 DEF Imports, CertShape
  <2> QED
    BY <1>0, <2>1, <2>2 DEF CertShape, CertsUpTo
<1> QED
  BY <1>1, <1>2, IdsAreNext

\* The certificates' lists, choice, dialogs and requests keep to ids that were given.
THEOREM CertTypeCorrect == CertPageSpec => []CertTypeOK
<1>1. CertPageInit => CertShape
  <2> SUFFICES ASSUME CertPageInit PROVE CertShape
    OBVIOUS
  <2>1. lastCertId = 2 /\ lastCertId \in 0..MaxCertId
    BY CertificatePageBounds, MaxCertIdAssumption DEF CertPageInit
  <2>2. NoCertRequest \in [at : CertRequestStates, cert : 0..2, ids : SUBSET TlsInbounds]
    BY DEF NoCertRequest, CertRequestStates
  <2>3. CertsUpTo(2)
    BY <2>2 DEF CertPageInit, CertsUpTo, NoCertAnswer, NoDialog, CertFlights
  <2> QED
    BY <2>1, <2>3 DEF CertShape
<1>2. CertShape /\ [CertPageNext]_certPageVars => CertShape'
  <2> SUFFICES ASSUME CertShape, [CertPageNext]_certPageVars PROVE CertShape'
    OBVIOUS
  <2>0. lastCertId \in Nat
    BY CertificatePageBounds DEF CertShape
  <2>1. CASE \/ CertPageOpens \/ \E w \in {"acme", "import", "apply"} : ChooseWorkspace(w)
             \/ \E id \in TlsInbounds : ToggleInbound(id)
             \/ \E id : SelectCertificate(id)
             \/ AskCert \/ CertDialogCloses \/ CertConfirmed
             \/ CertListLands \/ TargetsLand \/ SettingsRefresh
    <3>1. \A k \in Nat : k = lastCertId => CertsUpTo(k)' /\ lastCertId' = lastCertId
      BY <2>1, CertPageKeepsIds DEF CertShape
    <3> QED
      BY <2>0, <3>1 DEF CertShape, CertsUpTo
  <2>2. CASE \/ \E m \in Mutations : CertMutationLands(m)
             \/ CertListIsServed \/ TargetsAreServed
             \/ ApplyIsServed \/ DeleteIsChecked \/ DeleteIsDone \/ ImportIsServed
             \/ CertChangesElsewhere
    BY <2>2, CertServerKeeps
  <2>3. CASE UNCHANGED certPageVars
    BY <2>3 DEF certPageVars, CertShape, CertsUpTo
  <2> QED
    BY <2>1, <2>2, <2>3 DEF CertPageNext
<1>3. CertShape => CertTypeOK
  BY DEF CertShape, CertsUpTo, CertTypeOK, CertFlights, CertRequestStates
<1> QED
  BY <1>1, <1>2, <1>3, PTL DEF CertPageSpec

-----------------------------------------------------------------------------
(* The panel as a whole *)

\* What the panel does is a step of one page and leaves the others where they are.
PagesStep ==
    /\ [JobNext]_trackingVars /\ [FormNext]_formVars /\ [StreamNext]_streamVars
    /\ [SessionNext]_sessionVars /\ [CorePageNext]_corePageVars /\ [RoutingNext]_routingVars
    /\ [PanelUpdateNext]_updateVars /\ [CertPageNext]_certPageVars

LEMMA PanelStep ==
    ASSUME [PanelNext]_panelVars
    PROVE  PagesStep
<1>1. CASE JobsMove
  BY <1>1 DEF JobsMove, PagesStep
<1>2. CASE FormMoves
  BY <1>2 DEF FormMoves, PagesStep
<1>3. CASE StreamMoves
  BY <1>3 DEF StreamMoves, PagesStep
<1>4. CASE SessionMoves
  BY <1>4 DEF SessionMoves, PagesStep
<1>5. CASE CorePageMoves
  BY <1>5 DEF CorePageMoves, PagesStep
<1>6. CASE RoutingMoves
  BY <1>6 DEF RoutingMoves, PagesStep
<1>7. CASE UpdateMoves
  BY <1>7 DEF UpdateMoves, PagesStep
<1>8. CASE CertificatesMove
  BY <1>8 DEF CertificatesMove, PagesStep
<1>9. CASE UNCHANGED panelVars
  BY <1>9 DEF panelVars, PagesStep
<1> QED
  BY <1>1, <1>2, <1>3, <1>4, <1>5, <1>6, <1>7, <1>8, <1>9 DEF PanelNext

\* A behaviour of the panel is, seen from each of its pages, a behaviour of that page,
\* with the fairness of that page: what holds of a page alone holds of it in the panel.
THEOREM PanelRunsItsPages ==
    PanelSpec => /\ TrackingSpec /\ FormSpec /\ StreamSpec /\ SessionSpec
                 /\ CorePageSpec /\ RoutingSpec /\ PanelUpdateSpec /\ CertPageSpec
<1>1. PanelInit => /\ JobInit /\ FormInit /\ StreamInit /\ SessionInit
                   /\ CorePageInit /\ RoutingInit /\ PanelUpdateInit /\ CertPageInit
  BY DEF PanelInit
<1>2. [PanelNext]_panelVars =>
          /\ [JobNext]_trackingVars /\ [FormNext]_formVars /\ [StreamNext]_streamVars
          /\ [SessionNext]_sessionVars /\ [CorePageNext]_corePageVars /\ [RoutingNext]_routingVars
          /\ [PanelUpdateNext]_updateVars /\ [CertPageNext]_certPageVars
  BY PanelStep DEF PagesStep
<1> QED
  BY <1>1, <1>2, PTL DEF PanelSpec, PanelFairness, TrackingSpec, FormSpec, StreamSpec, SessionSpec,
                         CorePageSpec, RoutingSpec, PanelUpdateSpec, CertPageSpec

\* Every page, and the server that it talks to, keeps to its types.
THEOREM PanelTypeCorrect == PanelSpec => []PanelTypeOK
<1>1. /\ TrackingTypeOK /\ FormTypeOK /\ StreamTypeOK /\ SessionTypeOK /\ CorePageTypeOK
      /\ RoutingTypeOK /\ UpdateTypeOK /\ CertTypeOK
      => PanelTypeOK
  BY DEF PanelTypeOK
<1> QED
  BY <1>1, PanelRunsItsPages, TrackingTypeCorrect, FormTypeCorrect, StreamTypeCorrect,
     SessionTypeCorrect, CorePageTypeCorrect, RoutingTypeCorrect, UpdateTypeCorrect,
     CertTypeCorrect, PTL

\* What the pages promise their user, all of it and at every moment: the ends of jobs
\* are asked for until they are told, and told as they were; the server gets what the form
\* shows, and refuses it only for a blank server name or a typed id; a headline or a
\* warning does not contradict what it is made of; the drawing shows each way of Xray's
\* but the system's, and in vain only a rule that Xray has; patches build on what is
\* shown; an installer is reported while it is at work, unless the process's own unit
\* failed or was given up, and when it succeeds.
PanelPromises ==
    /\ ToldAsItIs /\ PollsAreBounded /\ RefusedForAnInput /\ SentAsShown /\ HeadlineIsRight
    /\ RulesAreWhole /\ JudgedAsServed /\ DrawingIsTrue
    /\ OwedEndsAreAskedFor /\ PatchesAreComplete /\ WorkIsReported /\ SuccessIsReported

\* The pages keep their promises in the panel, and a certificate goes where the dialog
\* that was confirmed has said.
THEOREM PanelKeepsPromises == PanelSpec => []PanelPromises /\ AppliedAsConfirmed
<1>1. /\ ToldAsItIs /\ PollsAreBounded /\ RefusedForAnInput /\ SentAsShown /\ HeadlineIsRight
      /\ RulesAreWhole /\ JudgedAsServed /\ DrawingIsTrue
      /\ OwedEndsAreAskedFor /\ PatchesAreComplete /\ WorkIsReported /\ SuccessIsReported
      => PanelPromises
  BY DEF PanelPromises
<1> QED
  BY <1>1, PanelRunsItsPages, ToldHolds, PollsStayBounded, RefusedForInputs, ShownIsSent,
     HeadlineStaysRight, RulesStayWhole, FormJudgesAsServed, DrawingStaysTrue,
     OwedEndsStayAskedFor, PatchesStayComplete, WorkIsTold, SuccessIsTold, ConfirmedIsApplied, PTL

=============================================================================
