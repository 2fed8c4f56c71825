----------------------------- MODULE SessionProofs -----------------------------
(***************************************************************************)
(* The runtime, its queues and the goal, for any number of prompts, goals, *)
(* clears, interrupts and re-entries.  Three invariants are inductive:     *)
(* Base, the types and that the runtime knows whether a run is on;         *)
(* InOrder, which puts the prompts of all four places they can be in into  *)
(* one order; and GoalKnown, that what drainControl would leave as the     *)
(* goal is no goal a run has closed.  The last one rests on what the fold  *)
(* in drainControl computes, which is proved here by the least number      *)
(* principle: its result is what the last deciding event says.             *)
(***************************************************************************)
EXTENDS Session, TLAPS, WellFoundedInduction

Reported == {"goal open", "goal closed", "error", "done"}
Events == [type : Closings \union {"set", "retry", "error", "done"}, goal : Nat]
Runs == [phase : {"none", "going", "ending", "returned"}, goal : Nat, retries : Nat,
         outcome : {"none", "answer", "max steps", "failed"}, log : Seq(Reported), sent : Nat]

Types ==
  /\ submitted \in Nat /\ goalsSet \in Nat /\ Drained \in Nat
  /\ promptQueue \in Seq(Nat) /\ userPrompts \in Seq(Nat)
  /\ queuedPrompts \in Seq(Nat) /\ started \in Seq(Nat)
  /\ controlEvents \in Seq(Events)
  /\ run \in Runs

Base == Types /\ OneRunAtATime

(* The prompts on their way: which have been started, those the runtime    *)
(* has queued, those in its subscription and those queued in the UI.  Of   *)
(* two on their way the one ahead was submitted first, or overtook.        *)
Ahead(p, q, over) == p # q /\ (p < q \/ p \in over)
Sorted(a, over) == \A i, j \in 1..Len(a) : i < j => Ahead(a[i], a[j], over)
Before(a, b, over) == \A i \in 1..Len(a), j \in 1..Len(b) : Ahead(a[i], b[j], over)
Known(a, n, gone) == \A i \in 1..Len(a) : a[i] <= n /\ a[i] \notin gone

Line(a, b, c, d, n, gone, over) ==
  /\ Sorted(a, over) /\ Sorted(b, over) /\ Sorted(c, over) /\ Sorted(d, over)
  /\ Before(a, b, over) /\ Before(a, c, over) /\ Before(a, d, over)
  /\ Before(b, c, over) /\ Before(b, d, over) /\ Before(c, d, over)
  /\ Known(a, n, gone) /\ Known(b, n, gone) /\ Known(c, n, gone) /\ Known(d, n, gone)

InOrder ==
  /\ ~running => queuedPrompts = <<>>
  /\ lost \subseteq 0..submitted
  /\ Line(started, queuedPrompts, userPrompts, promptQueue, submitted, lost, overtaking)

Told(goal, log) ==
  \A k \in 1..Len(log) : log[k] \in {"goal open", "goal closed"} => goal # 0

(* A run that reports on a goal has one, and of the goals a run has closed *)
(* none is what the runtime holds once the control events are drained.     *)
GoalKnown ==
  /\ Told(run.goal, run.log)
  /\ run.goal \in 0..goalsSet
  /\ resolved \subseteq 1..goalsSet
  /\ Drained \in (0..goalsSet) \ resolved

-----------------------------
Less == {ss \in Nat \X Nat : ss[1] < ss[2]}
LEMMA LeastNatural ==
  ASSUME NEW T, T \subseteq Nat, T # {}
  PROVE  \E x \in T : \A y \in T : x <= y
<1>1. IsWellFoundedOn(Less, Nat)
  BY NatLessThanWellFounded, Zenon DEF OpToRel, Less
<1>2. PICK x \in T : \A y \in T : ~ (<<y, x>> \in Less)
  BY <1>1, WFMin, Zenon
<1>3. ASSUME NEW y \in T PROVE x <= y
  <2>1. x \in Nat /\ y \in Nat /\ ~(<<y, x>> \in Less)
    BY <1>2
  <2> QED
    BY <2>1 DEF Less
<1> QED
  BY <1>3

LEMMA GreatestOf ==
  ASSUME NEW n \in Nat, NEW T, T \subseteq 1..n, T # {}
  PROVE  Max(T) \in T /\ \A y \in T : y <= Max(T)
<1> DEFINE U == {n - y : y \in T}
<1>1. U \subseteq Nat /\ U # {}
  <2>1. \A y \in T : n - y \in Nat
    OBVIOUS
  <2> QED
    BY <2>1
<1>2. PICK u \in U : \A v \in U : u <= v
  BY <1>1, LeastNatural
<1>3. PICK m \in T : u = n - m
  BY <1>2
<1>4. \A y \in T : m >= y
  <2> SUFFICES ASSUME NEW y \in T PROVE m >= y
    OBVIOUS
  <2>1. u <= n - y
    BY <1>2
  <2> QED
    BY <2>1, <1>3
<1>5. \E x \in T : \A y \in T : x >= y
  BY <1>4
<1>6. Max(T) \in T /\ \A y \in T : Max(T) >= y
  BY <1>5 DEF Max
<1> QED
  BY <1>6

LEMMA GreatestIsLast ==
  ASSUME NEW k \in Nat \ {0}
  PROVE  Max(1..k) = k /\ (1..k) \ {k} = 1..(k - 1) /\ 1..k # {}
<1>1. k \in 1..k
  OBVIOUS
<1>2. Max(1..k) \in 1..k /\ \A y \in 1..k : y <= Max(1..k)
  BY <1>1, GreatestOf
<1>3. \A i : i \in (1..k) \ {k} <=> i \in 1..(k - 1)
  OBVIOUS
<1> QED
  BY <1>1, <1>2, <1>3

Decides(event) == event.type = "set" \/ event.type \in Closings
Deciding(s, t) == {i \in t : Decides(s[i])}
Decided(b, s, t) ==
  IF Deciding(s, t) = {} THEN b ELSE GoalAfter(0, s[Max(Deciding(s, t))])

LEMMA GoalAfterCases ==
  ASSUME NEW g, NEW e
  PROVE  /\ e.type = "set" => GoalAfter(g, e) = e.goal
         /\ e.type \in Closings => GoalAfter(g, e) = 0
         /\ e.type = "retry" => GoalAfter(g, e) = g
<1>1. e.type \in Closings => e.type # "set"
  BY DEF Closings
<1>2. e.type = "retry" => e.type # "set" /\ e.type \notin Closings
  BY DEF Closings
<1> QED
  BY <1>1, <1>2, Zenon DEF GoalAfter

LEMMA GoalAfterDecides ==
  ASSUME NEW g, NEW e
  PROVE  GoalAfter(g, e) = IF Decides(e) THEN GoalAfter(0, e) ELSE g
BY DEF GoalAfter, Decides, Closings

LEMMA DecidedStep ==
  ASSUME NEW b, NEW s, NEW n \in Nat, NEW t, t \subseteq 1..n, t # {}
  PROVE  Decided(b, s, t) = GoalAfter(Decided(b, s, t \ {Max(t)}), s[Max(t)])
<1>1. PICK m \in t : m = Max(t) /\ m \in Nat /\ \A y \in t : y \in Nat /\ y <= m
  <2>1. Max(t) \in t /\ \A y \in t : y <= Max(t)
    BY GreatestOf
  <2>2. \A y \in t : y \in Nat
    OBVIOUS
  <2> QED
    BY <2>1, <2>2
<1>2. CASE Decides(s[m])
  <2>1. m \in Deciding(s, t) /\ Deciding(s, t) \subseteq 1..n
    BY <1>1, <1>2 DEF Deciding
  <2>2. Max(Deciding(s, t)) = m
    <3>1. Max(Deciding(s, t)) \in t /\ m <= Max(Deciding(s, t))
      BY <2>1, GreatestOf DEF Deciding
    <3>2. m \in Nat /\ Max(Deciding(s, t)) \in Nat /\ Max(Deciding(s, t)) <= m
      BY <3>1, <1>1
    <3> QED
      BY <3>1, <3>2
  <2> QED
    BY <1>1, <2>1, <2>2, <1>2, GoalAfterDecides DEF Decided
<1>3. CASE ~Decides(s[m])
  <2>1. Deciding(s, t \ {m}) = Deciding(s, t)
    BY <1>3 DEF Deciding
  <2> QED
    BY <1>1, <2>1, <1>3, GoalAfterDecides DEF Decided
<1> QED
  BY <1>2, <1>3

LEMMA FoldIsDecided ==
  ASSUME NEW b, NEW s, NEW n \in Nat, DOMAIN s = 1..n
  PROVE  FoldLeft(GoalAfter, b, s) = Decided(b, s, 1..n)
<1> DEFINE Eq(iter) == iter = [t \in SUBSET (1..n) |->
             IF t = {} THEN b ELSE GoalAfter(iter[t \ {Max(t)}], s[Max(t)])]
           fold == CHOOSE iter : Eq(iter)
           G == [t \in SUBSET (1..n) |-> Decided(b, s, t)]
<1>1. FoldLeft(GoalAfter, b, s) = fold[1..n]
  BY Zenon DEF FoldLeft, MapThenFoldSet
<1>2. Eq(G)
  <2>1. ASSUME NEW t \in SUBSET (1..n)
        PROVE  Decided(b, s, t) =
                 IF t = {} THEN b ELSE GoalAfter(G[t \ {Max(t)}], s[Max(t)])
    <3>1. t \ {Max(t)} \in SUBSET (1..n)
      OBVIOUS
    <3>2. G[t \ {Max(t)}] = Decided(b, s, t \ {Max(t)})
      BY <3>1
    <3>3. t = {} => Decided(b, s, t) = b
      BY DEF Decided, Deciding
    <3>4. t # {} => Decided(b, s, t) = GoalAfter(Decided(b, s, t \ {Max(t)}), s[Max(t)])
      BY DecidedStep
    <3> QED
      BY <3>2, <3>3, <3>4
  <2> QED
    BY <2>1, Zenon
<1>3. Eq(fold)
  BY <1>2, Zenon
<1> HIDE DEF fold
<1> DEFINE Bad == {k \in 0..n : fold[1..k] # Decided(b, s, 1..k)}
<1>4. Bad = {}
  <2> SUFFICES ASSUME Bad # {} PROVE FALSE
    OBVIOUS
  <2>0. Bad \subseteq Nat
    OBVIOUS
  <2>1. PICK k \in Bad : \A j \in Bad : k <= j
    <3> HIDE DEF Bad
    <3> QED
      BY <2>0, LeastNatural
  <2>2. k # 0
    <3>1. fold[{}] = b
      BY <1>3
    <3>2. 1..0 = {} /\ Decided(b, s, {}) = b
      BY DEF Decided, Deciding
    <3> QED
      BY <3>1, <3>2
  <2>3. k - 1 \in 0..n /\ k - 1 \notin Bad /\ k \in 1..n
    BY <2>1, <2>2
  <2>4. fold[1..(k-1)] = Decided(b, s, 1..(k-1))
    BY <2>3
  <2>5. Max(1..k) = k /\ (1..k) \ {k} = 1..(k-1) /\ 1..k # {}
    BY <2>3, GreatestIsLast
  <2>6. 1..k \in SUBSET (1..n)
    BY <2>3
  <2>7. fold[1..k] = GoalAfter(fold[1..(k-1)], s[k])
    BY <1>3, <2>5, <2>6
  <2>8. Decided(b, s, 1..k) = GoalAfter(Decided(b, s, 1..(k-1)), s[k])
    <3>1. Decided(b, s, 1..k) = GoalAfter(Decided(b, s, (1..k) \ {Max(1..k)}), s[Max(1..k)])
      <4> DEFINE t == 1..k
      <4>1. k \in Nat /\ t \subseteq 1..k /\ t # {}
        BY <2>3, <2>5
      <4> SUFFICES Decided(b, s, t) = GoalAfter(Decided(b, s, t \ {Max(t)}), s[Max(t)])
        OBVIOUS
      <4> HIDE DEF t, Bad
      <4> QED
        BY <4>1, DecidedStep
    <3> QED
      BY <3>1, <2>5, <2>6
  <2> QED
    BY <2>1, <2>4, <2>7, <2>8
<1> QED
  BY <1>1, <1>4

-----------------------------------------------------------------------------
(* The control events are folded one by one: what the runtime holds after  *)
(* a further event, and after it has taken the first.                      *)
LEMMA DrainedAfterAppend ==
  ASSUME NEW b, NEW s \in Seq(Events), NEW e \in Events
  PROVE  FoldLeft(GoalAfter, b, Append(s, e)) = GoalAfter(FoldLeft(GoalAfter, b, s), e)
<1> DEFINE n == Len(s)
           t == Append(s, e)
<1>1. n \in Nat /\ DOMAIN s = 1..n /\ DOMAIN t = 1..(n + 1)
      /\ t[n + 1] = e /\ \A i \in 1..n : t[i] = s[i]
  OBVIOUS
<1> HIDE DEF n, t
<1>2. Decided(b, t, 1..n) = Decided(b, s, 1..n)
  <2>1. Deciding(t, 1..n) = Deciding(s, 1..n)
    BY <1>1 DEF Deciding
  <2>2. CASE Deciding(s, 1..n) = {}
    BY <2>1, <2>2 DEF Decided
  <2>3. CASE Deciding(s, 1..n) # {}
    <3>1. Deciding(s, 1..n) \subseteq 1..n
      BY DEF Deciding
    <3>2. Max(Deciding(s, 1..n)) \in 1..n
      BY <1>1, <2>3, <3>1, GreatestOf
    <3> QED
      BY <1>1, <2>1, <2>3, <3>2 DEF Decided
  <2> QED
    BY <2>2, <2>3
<1>3. Max(1..(n + 1)) = n + 1 /\ (1..(n + 1)) \ {n + 1} = 1..n /\ 1..(n + 1) # {}
  BY <1>1, GreatestIsLast
<1>4. Decided(b, t, 1..(n + 1)) = GoalAfter(Decided(b, t, 1..n), t[n + 1])
  <2>1. n + 1 \in Nat /\ 1..(n + 1) \subseteq 1..(n + 1)
    BY <1>1
  <2>2. Decided(b, t, 1..(n + 1)) =
          GoalAfter(Decided(b, t, (1..(n + 1)) \ {Max(1..(n + 1))}), t[Max(1..(n + 1))])
    BY <1>3, <2>1, DecidedStep
  <2> QED
    BY <1>3, <2>2
<1>5. FoldLeft(GoalAfter, b, t) = Decided(b, t, 1..(n + 1))
  BY <1>1, FoldIsDecided
<1>6. FoldLeft(GoalAfter, b, s) = Decided(b, s, 1..n)
  BY <1>1, FoldIsDecided
<1> QED
  BY <1>1, <1>2, <1>4, <1>5, <1>6 DEF t

LEMMA DrainedAfterHead ==
  ASSUME NEW b, NEW s \in Seq(Events), s # <<>>
  PROVE  FoldLeft(GoalAfter, GoalAfter(b, Head(s)), Tail(s)) = FoldLeft(GoalAfter, b, s)
<1> DEFINE n == Len(s) - 1
           t == Tail(s)
           c == GoalAfter(b, Head(s))
<1> SUFFICES FoldLeft(GoalAfter, c, t) = FoldLeft(GoalAfter, b, s)
  OBVIOUS
<1>1. n \in Nat /\ DOMAIN s = 1..(n + 1) /\ DOMAIN t = 1..n
      /\ Head(s) = s[1] /\ \A i \in 1..n : t[i] = s[i + 1]
  OBVIOUS
<1>2. FoldLeft(GoalAfter, c, t) = Decided(c, t, 1..n)
  BY <1>1, FoldIsDecided
<1>3. FoldLeft(GoalAfter, b, s) = Decided(b, s, 1..(n + 1))
  BY <1>1, FoldIsDecided
<1>c. c = GoalAfter(b, s[1])
  BY <1>1
<1> HIDE DEF n, t, c
<1>4. CASE Deciding(t, 1..n) = {}
  <2>1. Deciding(s, 1..(n + 1)) \subseteq {1}
    <3> SUFFICES ASSUME NEW i \in Deciding(s, 1..(n + 1)), i # 1 PROVE FALSE
      OBVIOUS
    <3>1. i - 1 \in 1..n /\ i = (i - 1) + 1 /\ Decides(s[i])
      BY <1>1 DEF Deciding
    <3>2. i - 1 \in Deciding(t, 1..n)
      BY <3>1, <1>1 DEF Deciding
    <3> QED
      BY <3>2, <1>4
  <2>2. CASE Decides(s[1])
    <3>1. Deciding(s, 1..(n + 1)) = {1}
      BY <1>1, <2>1, <2>2 DEF Deciding
    <3>2. Max({1}) = 1
      BY DEF Max
    <3>3. c = GoalAfter(0, s[1])
      BY <1>c, <2>2, GoalAfterDecides
    <3>4. Decided(c, t, 1..n) = c
      BY <1>4 DEF Decided
    <3>5. Decided(b, s, 1..(n + 1)) = GoalAfter(0, s[1])
      BY <3>1, <3>2 DEF Decided
    <3> QED
      BY <1>2, <1>3, <3>3, <3>4, <3>5
  <2>3. CASE ~Decides(s[1])
    <3>1. Deciding(s, 1..(n + 1)) = {}
      BY <2>1, <2>3 DEF Deciding
    <3>3. c = b
      BY <1>c, <2>3, GoalAfterDecides
    <3>4. Decided(c, t, 1..n) = c
      BY <1>4 DEF Decided
    <3>5. Decided(b, s, 1..(n + 1)) = b
      BY <3>1 DEF Decided
    <3> QED
      BY <1>2, <1>3, <3>3, <3>4, <3>5
  <2> QED
    BY <2>2, <2>3
<1>5. CASE Deciding(t, 1..n) # {}
  <2> DEFINE m == Max(Deciding(t, 1..n))
  <2>1. m \in Deciding(t, 1..n) /\ m \in 1..n /\ \A i \in Deciding(t, 1..n) : i <= m
    <3>1. Deciding(t, 1..n) \subseteq 1..n
      BY DEF Deciding
    <3> QED
      BY <1>1, <1>5, <3>1, GreatestOf
  <2> HIDE DEF m
  <2>2. m + 1 \in Deciding(s, 1..(n + 1)) /\ s[m + 1] = t[m]
    BY <1>1, <2>1 DEF Deciding
  <2>3. \A i \in Deciding(s, 1..(n + 1)) : i \in 1..(n + 1) /\ i <= m + 1
    <3> SUFFICES ASSUME NEW i \in Deciding(s, 1..(n + 1)) PROVE i \in 1..(n + 1) /\ i <= m + 1
      OBVIOUS
    <3>1. i \in 1..(n + 1) /\ Decides(s[i])
      BY DEF Deciding
    <3>2. CASE i = 1
      BY <1>1, <2>1, <3>1, <3>2
    <3>3. CASE i # 1
      <4>1. i - 1 \in 1..n /\ i = (i - 1) + 1
        BY <1>1, <3>1, <3>3
      <4>2. i - 1 \in Deciding(t, 1..n)
        BY <4>1, <3>1, <1>1 DEF Deciding
      <4> QED
        BY <4>1, <4>2, <2>1, <3>1
    <3> QED
      BY <3>2, <3>3
  <2>4. Max(Deciding(s, 1..(n + 1))) = m + 1
    <3>1. Deciding(s, 1..(n + 1)) \subseteq 1..(n + 1) /\ n + 1 \in Nat
      BY <1>1, <2>3
    <3>2. Max(Deciding(s, 1..(n + 1))) \in Deciding(s, 1..(n + 1))
          /\ m + 1 <= Max(Deciding(s, 1..(n + 1)))
      BY <2>2, <3>1, GreatestOf
    <3> DEFINE g == Max(Deciding(s, 1..(n + 1)))
    <3>3. g \in Deciding(s, 1..(n + 1)) /\ m + 1 <= g
      BY <3>2
    <3> HIDE DEF g
    <3>4. g \in 1..(n + 1) /\ g <= m + 1
      BY <3>3, <2>3
    <3>5. g = m + 1
      BY <3>3, <3>4, <2>1, <1>1
    <3> QED
      BY <3>5 DEF g
  <2>5. Decided(b, s, 1..(n + 1)) = GoalAfter(0, s[m + 1])
    BY <2>2, <2>4 DEF Decided
  <2>6. Decided(c, t, 1..n) = GoalAfter(0, t[m])
    BY <1>5 DEF Decided, m
  <2> QED
    BY <1>2, <1>3, <2>2, <2>5, <2>6
<1> QED
  BY <1>4, <1>5 DEF t, c

LEMMA DrainedOfNone ==
  ASSUME NEW b
  PROVE  FoldLeft(GoalAfter, b, <<>>) = b
<1>1. FoldLeft(GoalAfter, b, <<>>) = Decided(b, <<>>, 1..0)
  BY FoldIsDecided
<1>2. Deciding(<<>>, 1..0) = {}
  BY DEF Deciding
<1> QED
  BY <1>1, <1>2 DEF Decided

-----------------------------------------------------------------------------
(* What the steps do to the goal the runtime would hold.                   *)
LEMMA DrainedWhenQuiet ==
  ASSUME UNCHANGED <<currentGoal, controlEvents>>
  PROVE  Drained' = Drained
BY DEF Drained

LEMMA DrainedWhenTold ==
  ASSUME Types, NEW e \in Events, controlEvents' = Append(controlEvents, e), UNCHANGED currentGoal
  PROVE  Drained' = GoalAfter(Drained, e) /\ controlEvents' \in Seq(Events)
<1>1. Drained' = FoldLeft(GoalAfter, currentGoal, Append(controlEvents, e))
  BY DEF Drained
<1>2. controlEvents \in Seq(Events)
  BY DEF Types
<1>3. FoldLeft(GoalAfter, currentGoal, Append(controlEvents, e)) = GoalAfter(Drained, e)
  BY <1>2, DrainedAfterAppend DEF Drained
<1> QED
  BY <1>1, <1>2, <1>3

LEMMA DrainedWhenTaken ==
  ASSUME Types, TakeControl
  PROVE  Drained' = Drained /\ controlEvents' \in Seq(Events)
<1>1. Drained' = FoldLeft(GoalAfter, GoalAfter(currentGoal, Head(controlEvents)), Tail(controlEvents))
  BY DEF Drained, TakeControl
<1>2. controlEvents \in Seq(Events) /\ controlEvents # <<>> /\ controlEvents' = Tail(controlEvents)
  BY DEF Types, TakeControl
<1>3. Drained' = Drained
  BY <1>1, <1>2, DrainedAfterHead DEF Drained
<1> QED
  BY <1>2, <1>3

LEMMA DrainedWhenDrained ==
  ASSUME currentGoal' = Drained, controlEvents' = <<>>
  PROVE  Drained' = Drained
<1>1. Drained' = FoldLeft(GoalAfter, Drained, <<>>)
  BY DEF Drained
<1> QED
  BY <1>1, DrainedOfNone

-----------------------------------------------------------------------------
LEMMA NoRunIsRun == NoRun \in Runs
<1>1. <<>> \in Seq(Reported)
  OBVIOUS
<1> QED
  BY <1>1 DEF NoRun, Runs

LEMMA BegunIsRun ==
  ASSUME NEW goal \in Nat
  PROVE  /\ Begun(goal) \in Runs /\ Begun(goal).phase = "going"
         /\ Begun(goal).goal = goal /\ Begun(goal).log = <<>>
<1>1. NoRun.log = <<>>
  BY DEF NoRun
<1> QED
  BY <1>1, NoRunIsRun DEF Begun, Runs

LEMMA BaseInit == SInit => Base
<1> SUFFICES ASSUME SInit PROVE Base
  OBVIOUS
<1>1. Drained = 0
  BY DrainedOfNone DEF SInit, Drained
<1>2. run \in Runs /\ (running <=> run.phase # "none")
  BY NoRunIsRun, BegunIsRun DEF SInit, NoRun
<1>3. started \in Seq(Nat)
  BY DEF SInit
<1> QED
  BY <1>1, <1>2, <1>3 DEF SInit, Base, Types, OneRunAtATime

LEMMA StartRunKeepsBase ==
  ASSUME Base, NEW p \in Nat, StartRun(p)
  PROVE  /\ run' \in Runs /\ run'.phase = "going" /\ running' = TRUE
         /\ started' \in Seq(Nat) /\ controlEvents' \in Seq(Events) /\ Drained' = Drained
<1>1. Drained \in Nat
  BY DEF Base, Types
<1>2. run' = Begun(Drained) /\ Drained' = Drained
  BY DrainedWhenDrained DEF StartRun
<1>3. started' \in Seq(Nat) /\ running' = TRUE /\ controlEvents' = <<>>
  BY DEF StartRun, Base, Types
<1> QED
  BY <1>1, <1>2, <1>3, BegunIsRun

LEMMA UserKeepsBase ==
  ASSUME Base, Submit \/ Interrupt \/ SetGoal \/ ClearGoal
  PROVE  Base'
<1> USE DEF Base, Types, OneRunAtATime
<1>1. CASE Submit
  <2>1. Drained' = Drained
    BY <1>1, DrainedWhenQuiet DEF Submit, rtVars
  <2>2. submitted' \in Nat /\ promptQueue' \in Seq(Nat) /\ userPrompts' \in Seq(Nat)
    <3>1. submitted' = submitted + 1
          /\ (promptQueue' = promptQueue \/ promptQueue' = Append(promptQueue, submitted + 1))
          /\ (userPrompts' = userPrompts \/ userPrompts' = Append(userPrompts, submitted + 1))
      BY <1>1, Zenon DEF Submit, PublishPrompt
    <3>2. submitted + 1 \in Nat /\ promptQueue \in Seq(Nat) /\ userPrompts \in Seq(Nat)
      OBVIOUS
    <3>3. Append(promptQueue, submitted + 1) \in Seq(Nat)
          /\ Append(userPrompts, submitted + 1) \in Seq(Nat)
      BY <3>2
    <3> QED
      BY <3>1, <3>2, <3>3, Zenon
  <2> QED
    BY <1>1, <2>1, <2>2 DEF Submit, rtVars
<1>2. CASE Interrupt
  <2>1. Drained' = Drained
    BY <1>2, DrainedWhenQuiet DEF Interrupt, rtVars
  <2> QED
    BY <1>2, <2>1 DEF Interrupt, rtVars
<1>3. CASE SetGoal
  <2>1. Event("set", goalsSet + 1) \in Events /\ Event("set", goalsSet + 1).goal = goalsSet + 1
        /\ Event("set", goalsSet + 1).type = "set"
    BY DEF Event, Events
  <2>2. controlEvents' = Append(controlEvents, Event("set", goalsSet + 1)) /\ currentGoal' = currentGoal
    BY <1>3 DEF SetGoal, rtVars
  <2>3. Drained' = GoalAfter(Drained, Event("set", goalsSet + 1)) /\ controlEvents' \in Seq(Events)
    BY <2>1, <2>2, DrainedWhenTold
  <2>4. Drained' = goalsSet + 1
    BY <2>1, <2>3, GoalAfterCases
  <2> QED
    BY <1>3, <2>3, <2>4 DEF SetGoal, rtVars, history
<1>4. CASE ClearGoal
  <2>1. Event("set", 0) \in Events /\ Event("set", 0).goal = 0 /\ Event("set", 0).type = "set"
    BY DEF Event, Events
  <2>2. controlEvents' = Append(controlEvents, Event("set", 0)) /\ currentGoal' = currentGoal
    BY <1>4 DEF ClearGoal, rtVars
  <2>3. Drained' = GoalAfter(Drained, Event("set", 0)) /\ controlEvents' \in Seq(Events)
    BY <2>1, <2>2, DrainedWhenTold
  <2>4. Drained' = 0
    BY <2>1, <2>3, GoalAfterCases
  <2> QED
    BY <1>4, <2>3, <2>4 DEF ClearGoal, rtVars, history
<1> QED
  BY <1>1, <1>2, <1>3, <1>4

LEMMA UiKeepsBase ==
  ASSUME Base, Ui
  PROVE  Base'
<1> USE DEF Base, Types, OneRunAtATime
<1>1. Drained' = Drained
  BY DrainedWhenQuiet DEF Ui, UiStarted, UiError, UiDone, ApplyGoalUpdate, rtVars
<1>2. UNCHANGED <<submitted, goalsSet, queuedPrompts, started, controlEvents, run, running>>
  BY DEF Ui, UiStarted, UiError, UiDone, ApplyGoalUpdate, rtVars, userVars, history
<1>3. promptQueue' \in Seq(Nat) /\ userPrompts' \in Seq(Nat)
  <2>1. CASE UiDone /\ promptQueue # <<>>
    <3>1. /\ promptQueue' = Tail(promptQueue)
          /\ userPrompts' = userPrompts \/ userPrompts' = Append(userPrompts, Head(promptQueue))
      BY <2>1 DEF UiDone, PublishPrompt
    <3>2. Tail(promptQueue) \in Seq(Nat) /\ Head(promptQueue) \in Nat
      BY <2>1
    <3>3. Append(userPrompts, Head(promptQueue)) \in Seq(Nat)
      BY <3>2
    <3> QED
      BY <3>1, <3>2, <3>3, Zenon
  <2>2. CASE ~(UiDone /\ promptQueue # <<>>)
    <3>1. UNCHANGED <<promptQueue, userPrompts>>
      BY <2>2 DEF Ui, UiStarted, UiError, UiDone, ApplyGoalUpdate
    <3> QED
      BY <3>1
  <2> QED
    BY <2>1, <2>2
<1> QED
  BY <1>1, <1>2, <1>3

LEMMA RuntimeKeepsBase ==
  ASSUME Base, Runtime
  PROVE  Base'
<1> USE DEF Base, Types, OneRunAtATime
<1>1. CASE TakePrompt
  <2>1. Head(userPrompts) \in Nat /\ userPrompts' \in Seq(Nat)
        /\ UNCHANGED <<submitted, goalsSet, promptQueue>>
    BY <1>1 DEF TakePrompt, uiVars, userVars
  <2>2. CASE running
    <3>1. /\ queuedPrompts' = Append(queuedPrompts, Head(userPrompts))
          /\ UNCHANGED <<running, currentGoal, controlEvents, run, started>>
      BY <1>1, <2>2 DEF TakePrompt
    <3>2. queuedPrompts' \in Seq(Nat) /\ Drained' = Drained
      BY <2>1, <3>1, DrainedWhenQuiet
    <3> QED
      BY <2>1, <3>1, <3>2
  <2>3. CASE ~running
    <3>1. StartRun(Head(userPrompts)) /\ UNCHANGED queuedPrompts
      BY <1>1, <2>3 DEF TakePrompt
    <3>2. /\ run' \in Runs /\ run'.phase = "going" /\ running' = TRUE
          /\ started' \in Seq(Nat) /\ controlEvents' \in Seq(Events) /\ Drained' = Drained
      BY <2>1, <3>1, StartRunKeepsBase
    <3> QED
      BY <2>1, <3>1, <3>2
  <2> QED
    BY <2>2, <2>3
<1>2. CASE TakeInterrupt
  <2>1. UNCHANGED <<submitted, goalsSet, promptQueue, userPrompts, controlEvents, running,
                    currentGoal, run, started>>
    BY <1>2 DEF TakeInterrupt, uiVars, userVars
  <2>2. queuedPrompts' \in Seq(Nat)
    <3>1. queuedPrompts' = <<>> \/ queuedPrompts' = queuedPrompts
      BY <1>2, Zenon DEF TakeInterrupt
    <3>2. <<>> \in Seq(Nat) /\ queuedPrompts \in Seq(Nat)
      OBVIOUS
    <3> QED
      BY <3>1, <3>2, Zenon
  <2> QED
    BY <2>1, <2>2, DrainedWhenQuiet
<1>3. CASE TakeControl
  <2>1. UNCHANGED <<submitted, goalsSet, promptQueue, userPrompts, running, queuedPrompts, run,
                    started>>
    BY <1>3 DEF TakeControl, uiVars, userVars, history
  <2> QED
    BY <1>3, <2>1, DrainedWhenTaken
<1>4. CASE TakeResult
  <2>1. UNCHANGED <<submitted, goalsSet, promptQueue, userPrompts>>
    BY <1>4 DEF TakeResult, uiVars, userVars
  <2>2. CASE queuedPrompts = <<>>
    <3>1. /\ running' = FALSE /\ run' = NoRun /\ currentGoal' = Drained /\ controlEvents' = <<>>
          /\ UNCHANGED <<started, queuedPrompts>>
      BY <1>4, <2>2 DEF TakeResult
    <3>2. Drained' = Drained /\ run' \in Runs /\ run'.phase = "none"
      BY <3>1, DrainedWhenDrained, NoRunIsRun DEF NoRun
    <3>3. controlEvents' \in Seq(Events)
      BY <3>1
    <3> QED
      BY <2>1, <3>1, <3>2, <3>3
  <2>3. CASE queuedPrompts # <<>>
    <3>1. /\ StartRun(Head(queuedPrompts)) /\ queuedPrompts' = Tail(queuedPrompts)
          /\ Head(queuedPrompts) \in Nat /\ Tail(queuedPrompts) \in Seq(Nat)
      BY <1>4, <2>3 DEF TakeResult
    <3>2. /\ run' \in Runs /\ run'.phase = "going" /\ running' = TRUE
          /\ started' \in Seq(Nat) /\ controlEvents' \in Seq(Events) /\ Drained' = Drained
      BY <3>1, StartRunKeepsBase
    <3> QED
      BY <2>1, <3>1, <3>2
  <2> QED
    BY <2>2, <2>3
<1> QED
  BY <1>1, <1>2, <1>3, <1>4 DEF Runtime

(* How a report of the run reads on the control subscription.              *)
LEMMA ReadingsAreEvents ==
  ASSUME NEW report \in Reported, NEW type \in Readings(report), NEW goal \in Nat
  PROVE  /\ Event(type, goal) \in Events
         /\ type \in Closings => report = "goal closed"
         /\ type = "retry" => report = "goal open"
<1>1. CASE report = "goal open"
  <2>1. type = "retry"
    BY <1>1, Zenon DEF Readings
  <2> QED
    BY <1>1, <2>1 DEF Event, Events, Closings
<1>2. CASE report = "goal closed"
  <2>1. Readings(report) = IF run.outcome = "max steps" THEN {"closed"} ELSE Closings
    <3>1. report # "goal open"
      BY <1>2
    <3> QED
      BY <1>2, <3>1, Zenon DEF Readings
  <2>2. type \in Closings
    BY <2>1 DEF Closings
  <2> QED
    BY <1>2, <2>2 DEF Event, Events, Closings
<1>3. CASE report \in {"error", "done"}
  <2>1. report # "goal open" /\ report # "goal closed"
    BY <1>3
  <2>2. type = report
    BY <2>1, Zenon DEF Readings
  <2> QED
    BY <1>3, <2>2 DEF Event, Events, Closings
<1> QED
  BY <1>1, <1>2, <1>3 DEF Reported

LEMMA PublishTells ==
  ASSUME Base, Publish
  PROVE  \E type \in Readings(run.log[run.sent + 1]) :
           /\ run.sent + 1 \in 1..Len(run.log)
           /\ run' = [run EXCEPT !.sent = @ + 1]
           /\ UNCHANGED <<submitted, goalsSet, promptQueue, userPrompts, running, queuedPrompts,
                          started, currentGoal>>
           /\ resolved' = IF type \in Closings THEN resolved \union {run.goal} ELSE resolved
           /\ controlEvents' \in Seq(Events)
           /\ Drained' = IF type \in Closings THEN 0 ELSE Drained
<1>1. PICK type \in Readings(run.log[run.sent + 1]) :
        /\ controlEvents' = IF type \in Closings \union {"retry"}
                            THEN Append(controlEvents, Event(type, run.goal)) ELSE controlEvents
        /\ resolved' = IF type \in Closings THEN resolved \union {run.goal} ELSE resolved
  BY DEF Publish
<1>2. UNCHANGED <<submitted, goalsSet, promptQueue, userPrompts, running, queuedPrompts,
                  started, currentGoal>>
  BY DEF Publish, uiVars, userVars, rtVars
<1>3. run \in Runs /\ run.log \in Seq(Reported) /\ run.sent \in Nat /\ run.goal \in Nat
  BY DEF Base, Types, Runs
<1>4. run.sent + 1 \in 1..Len(run.log) /\ run.log[run.sent + 1] \in Reported
  BY <1>3 DEF Publish
<1>5. Event(type, run.goal) \in Events
  BY <1>3, <1>4, ReadingsAreEvents
<1>6. CASE type \in Closings \union {"retry"}
  <2>1. Drained' = GoalAfter(Drained, Event(type, run.goal)) /\ controlEvents' \in Seq(Events)
    BY <1>1, <1>2, <1>5, <1>6, DrainedWhenTold DEF Base
  <2>2. Event(type, run.goal).type = type
    BY DEF Event
  <2>3. Drained' = IF type \in Closings THEN 0 ELSE Drained
    BY <1>6, <2>1, <2>2, GoalAfterCases DEF Closings
  <2> QED
    BY <1>1, <1>2, <1>4, <2>1, <2>3 DEF Publish
<1>7. CASE type \notin Closings \union {"retry"}
  <2>1. Drained' = Drained /\ controlEvents' \in Seq(Events)
    BY <1>1, <1>2, <1>7, DrainedWhenQuiet DEF Base, Types
  <2> QED
    BY <1>1, <1>2, <1>4, <1>7, <2>1 DEF Publish
<1> QED
  BY <1>6, <1>7

(* A log, and what it says when more is said.                              *)
LEMMA LongerLog ==
  ASSUME NEW g \in Nat, NEW s \in Seq(Reported), NEW t \in Seq(Reported), Told(g, t)
  PROVE  s \o t \in Seq(Reported) /\ (Told(g, s) => Told(g, s \o t))
<1>1. Reported # {}
  BY DEF Reported
<1>2. /\ s \o t \in Seq(Reported) /\ Len(s \o t) = Len(s) + Len(t)
      /\ \A k \in 1..Len(s) : (s \o t)[k] = s[k]
      /\ \A k \in 1..Len(t) : (s \o t)[Len(s) + k] = t[k]
      /\ Len(s) \in Nat /\ Len(t) \in Nat
  OBVIOUS
<1>3. ASSUME NEW k \in 1..Len(s \o t)
      PROVE  \/ k \in 1..Len(s) /\ (s \o t)[k] = s[k]
             \/ k - Len(s) \in 1..Len(t) /\ (s \o t)[k] = t[k - Len(s)]
  <2>1. CASE k <= Len(s)
    BY <1>2, <2>1
  <2>2. CASE k > Len(s)
    <3>1. k - Len(s) \in 1..Len(t) /\ k = Len(s) + (k - Len(s))
      BY <1>2, <2>2
    <3> QED
      BY <1>2, <3>1
  <2> QED
    BY <1>2, <2>1, <2>2
<1> QED
  BY <1>2, <1>3 DEF Told

(* Logs of none, one or two reports.                                       *)
LEMMA SaidOne ==
  ASSUME NEW S, NEW s \in Seq(S), NEW e \in S
  PROVE  <<e>> \in Seq(S) /\ Append(s, e) = s \o <<e>> /\ <<e>>[1] = e /\ Len(<<e>>) = 1
OBVIOUS

LEMMA SaidOneSeq ==
  ASSUME NEW S, NEW e \in S
  PROVE  <<e>> \in Seq(S)
OBVIOUS

LEMMA OneOrTwo == (\A k \in 1..1 : k = 1) /\ (\A k \in 1..2 : k = 1 \/ k = 2)
OBVIOUS

(* A run with one event more published.                                    *)
LEMMA SentRun ==
  ASSUME NEW r \in Runs, NEW n \in Nat, NEW q, q = [r EXCEPT !.sent = n]
  PROVE  q \in Runs /\ q.log = r.log /\ q.goal = r.goal /\ q.phase = r.phase
BY DEF Runs

LEMMA OneMore == \A n \in Nat : n + 1 \in Nat
OBVIOUS

LEMMA SaidOneTold ==
  ASSUME NEW g, NEW e, e \in {"goal open", "goal closed"} => g # 0
  PROVE  Told(g, <<e>>)
<1>1. Len(<<e>>) = 1 /\ <<e>>[1] = e
  OBVIOUS
<1> QED
  BY <1>1, OneOrTwo, Zenon DEF Told

LEMMA SaidNone ==
  ASSUME NEW g, NEW S
  PROVE  <<>> \in Seq(S) /\ Told(g, <<>>)
<1>1. Len(<<>>) = 0 /\ <<>> \in Seq(S)
  OBVIOUS
<1> QED
  BY <1>1 DEF Told

LEMMA SaidTwo ==
  ASSUME NEW S, NEW d \in S, NEW e \in S
  PROVE  <<d, e>> \in Seq(S) /\ <<d, e>>[1] = d /\ <<d, e>>[2] = e /\ Len(<<d, e>>) = 2
OBVIOUS

(* What a run says last: of a goal only if it has one.                     *)
LEMMA EndingTold ==
  ASSUME NEW how \in {"answer", "max steps", "failed"}, NEW g \in Nat
  PROVE  Contract!Ending(how, g # 0) \in Seq(Reported) /\ Told(g, Contract!Ending(how, g # 0))
<1>1. "error" \in Reported /\ "done" \in Reported /\ "goal closed" \in Reported
  BY DEF Reported
<1>2. Contract!Closing(how, g # 0) = <<>> \/ (g # 0 /\ Contract!Closing(how, g # 0) = <<"goal closed">>)
  BY Zenon DEF Contract!Closing
<1>3. Contract!Closing(how, g # 0) \in Seq(Reported) /\ Told(g, Contract!Closing(how, g # 0))
  <2>1. CASE Contract!Closing(how, g # 0) = <<>>
    BY <2>1, SaidNone, Zenon
  <2>2. CASE g # 0 /\ Contract!Closing(how, g # 0) = <<"goal closed">>
    <3>1. <<"goal closed">> \in Seq(Reported)
      BY <1>1, SaidOneSeq, Zenon
    <3> QED
      BY <2>2, <3>1, SaidOneTold, Zenon
  <2> QED
    BY <1>2, <2>1, <2>2
<1> DEFINE last == IF how = "answer" THEN <<"done">> ELSE <<"error", "done">>
<1>4. last \in Seq(Reported) /\ Told(g, last)
  <2>1. CASE how = "answer"
    <3>1. "done" \notin {"goal open", "goal closed"}
      OBVIOUS
    <3>2. Told(g, <<"done">>) /\ <<"done">> \in Seq(Reported)
      BY <1>1, <3>1, SaidOneTold, SaidOneSeq, Zenon
    <3> QED
      BY <2>1, <3>2, Zenon
  <2>2. CASE how # "answer"
    <3>1. /\ <<"error", "done">> \in Seq(Reported)
          /\ <<"error", "done">>[1] = "error" /\ <<"error", "done">>[2] = "done"
          /\ Len(<<"error", "done">>) = 2
      BY <1>1, SaidTwo, Zenon
    <3>2. "error" \notin {"goal open", "goal closed"} /\ "done" \notin {"goal open", "goal closed"}
      OBVIOUS
    <3>3. Told(g, <<"error", "done">>)
      BY <3>1, <3>2, OneOrTwo, Zenon DEF Told
    <3> QED
      BY <2>2, <3>1, <3>3, Zenon
  <2> QED
    BY <2>1, <2>2
<1>5. Contract!Ending(how, g # 0) = Contract!Closing(how, g # 0) \o last
  BY DEF Contract!Ending
<1> HIDE DEF last
<1>6. Told(g, Contract!Closing(how, g # 0) \o last) /\ Contract!Closing(how, g # 0) \o last \in Seq(Reported)
  BY <1>3, <1>4, LongerLog, Zenon
<1> QED
  BY <1>5, <1>6, Zenon

(* The other steps of the run.                                             *)
LEMMA RunSays ==
  ASSUME Base, Reenter \/ (\E how \in {"answer", "max steps", "failed"} : Conclude(how)) \/ Return
  PROVE  /\ run' \in Runs /\ run'.phase # "none" /\ run.phase # "none" /\ run'.goal = run.goal
         /\ Told(run.goal, run.log) => Told(run'.goal, run'.log)
         /\ UNCHANGED <<submitted, goalsSet, promptQueue, userPrompts, running, queuedPrompts,
                        started, currentGoal, controlEvents, resolved>>
<1>1. run \in Runs
  BY DEF Base, Types
<1>2. run.log \in Seq(Reported) /\ run.goal \in Nat /\ run.retries \in Nat
  BY <1>1 DEF Runs
<1>3. UNCHANGED <<submitted, goalsSet, promptQueue, userPrompts, running, queuedPrompts,
                  started, currentGoal, controlEvents, resolved>>
  BY DEF Reenter, Conclude, Return, uiVars, userVars, chanVars, rtVars, history
<1>4. CASE Reenter
  <2>1. /\ run' = [run EXCEPT !.retries = @ + 1, !.log = Append(@, "goal open")]
        /\ run.goal # 0 /\ run.phase = "going"
    BY <1>4 DEF Reenter, Contract!Retry
  <2>2. "goal open" \in Reported
    BY DEF Reported
  <2>3. /\ <<"goal open">> \in Seq(Reported) /\ Append(run.log, "goal open") = run.log \o <<"goal open">>
        /\ Len(<<"goal open">>) = 1
    BY <1>2, <2>2, SaidOne, Zenon
  <2>4. Told(run.goal, <<"goal open">>)
    BY <2>1 DEF Told
  <2>5. /\ Append(run.log, "goal open") \in Seq(Reported)
        /\ Told(run.goal, run.log) => Told(run.goal, Append(run.log, "goal open"))
    BY <1>2, <2>3, <2>4, LongerLog, Zenon
  <2>6. run.retries + 1 \in Nat
    BY <1>2, OneMore, Zenon
  <2>7. run' = [run EXCEPT !.log = Append(run.log, "goal open"), !.retries = run.retries + 1]
    BY <2>1
  <2> DEFINE longer == Append(run.log, "goal open")
             n == run.retries + 1
  <2>8. longer \in Seq(Reported) /\ (Told(run.goal, run.log) => Told(run.goal, longer))
    BY <2>5
  <2>9. run' = [run EXCEPT !.log = longer, !.retries = n] /\ n \in Nat
    BY <2>6, <2>7
  <2> HIDE DEF longer, n
  <2>10. run' \in Runs /\ run'.log = longer /\ run'.goal = run.goal /\ run'.phase = run.phase
    BY <1>1, <2>8, <2>9 DEF Runs
  <2> QED
    BY <1>3, <2>1, <2>8, <2>10
<1>5. ASSUME NEW how \in {"answer", "max steps", "failed"}, Conclude(how)
      PROVE  /\ run' \in Runs /\ run'.phase = "ending" /\ run.phase = "going"
             /\ run'.goal = run.goal
             /\ Told(run.goal, run.log) => Told(run'.goal, run'.log)
  <2> DEFINE more == Contract!Ending(how, run.goal # 0)
  <2>1. more \in Seq(Reported) /\ Told(run.goal, more)
    BY <1>2, EndingTold, Zenon
  <2>2. run' = [run EXCEPT !.phase = "ending", !.outcome = how, !.log = @ \o more] /\ run.phase = "going"
    BY <1>5 DEF Conclude
  <2> HIDE DEF more
  <2>3. run.log \o more \in Seq(Reported) /\ (Told(run.goal, run.log) => Told(run.goal, run.log \o more))
    BY <1>2, <2>1, LongerLog, Zenon
  <2>4. run' \in Runs /\ run'.log = run.log \o more /\ run'.phase = "ending" /\ run'.goal = run.goal
    BY <1>1, <1>2, <2>2, <2>3 DEF Runs
  <2> QED
    BY <2>2, <2>3, <2>4
<1>6. CASE Return
  <2>1. run' = [run EXCEPT !.phase = "returned"] /\ run.phase = "ending"
    BY <1>6 DEF Return
  <2>2. run' \in Runs /\ run'.log = run.log /\ run'.phase = "returned" /\ run'.goal = run.goal
    BY <1>1, <1>2, <2>1 DEF Runs
  <2> QED
    BY <1>3, <2>1, <2>2
<1> QED
  BY <1>3, <1>4, <1>5, <1>6

LEMMA RunKeepsBase ==
  ASSUME Base, Run
  PROVE  Base'
<1>1. CASE Publish
  <2>1. PICK type \in Readings(run.log[run.sent + 1]) :
           /\ run' = [run EXCEPT !.sent = @ + 1]
           /\ UNCHANGED <<submitted, goalsSet, promptQueue, userPrompts, running, queuedPrompts,
                          started, currentGoal>>
           /\ controlEvents' \in Seq(Events)
           /\ Drained' = IF type \in Closings THEN 0 ELSE Drained
    BY <1>1, PublishTells
  <2>2. run' \in Runs /\ run'.phase = run.phase
    <3>1. run \in Runs
      BY DEF Base, Types
    <3>2. run.sent \in Nat
      BY <3>1 DEF Runs
    <3>4. run.sent + 1 \in Nat
      BY <3>2, OneMore, Zenon
    <3>3. run' = [run EXCEPT !.sent = run.sent + 1]
      BY <2>1
    <3> QED
      BY <3>1, <3>4, <3>3, SentRun
  <2>3. Drained' \in Nat
    BY <2>1 DEF Base, Types
  <2> QED
    BY <2>1, <2>2, <2>3 DEF Base, Types, OneRunAtATime
<1>2. CASE ~Publish
  <2>1. /\ run' \in Runs /\ run'.phase # "none" /\ run.phase # "none"
        /\ UNCHANGED <<submitted, goalsSet, promptQueue, userPrompts, running, queuedPrompts,
                       started, currentGoal, controlEvents>>
    BY <1>2, RunSays DEF Run
  <2> QED
    BY <2>1, DrainedWhenQuiet DEF Base, Types, OneRunAtATime
<1> QED
  BY <1>1, <1>2

LEMMA BaseStep == Base /\ [SNext]_svars => Base'
<1>1. ASSUME Base, UNCHANGED svars PROVE Base'
  <2>1. Drained' = Drained
    BY <1>1, DrainedWhenQuiet DEF svars, rtVars, chanVars
  <2> QED
    BY <1>1, <2>1 DEF svars, uiVars, userVars, chanVars, rtVars, history, Base, Types, OneRunAtATime
<1> QED
  BY <1>1, UserKeepsBase, UiKeepsBase, RuntimeKeepsBase, RunKeepsBase DEF SNext

(* OneRunAtATime (Session): the runtime thinks a run is on exactly while   *)
(* one is or its result is unread, so that no two runs ever share the      *)
(* history, the context map and the tools.                                 *)
THEOREM RunsAreApart == SSpec => []OneRunAtATime
<1>1. SSpec => []Base
  BY BaseInit, BaseStep, PTL DEF SSpec
<1>2. Base => OneRunAtATime
  BY DEF Base
<1> QED
  BY <1>1, <1>2, PTL

-----------------------------------------------------------------------------
(* The order of the prompts.  First what a queue operation does to one     *)
(* queue and to the ones before and behind it.                             *)
Leads(p, a, over) == \A i \in 1..Len(a) : Ahead(p, a[i], over)
Back(a, p, over) == \A i \in 1..Len(a) : Ahead(a[i], p, over)

LEMMA Appended ==
  ASSUME NEW a \in Seq(Nat), NEW p \in Nat
  PROVE  /\ Append(a, p) \in Seq(Nat)
         /\ \A i \in 1..Len(Append(a, p)) :
              \/ i \in 1..Len(a) /\ Append(a, p)[i] = a[i]
              \/ i = Len(a) + 1 /\ Append(a, p)[i] = p
OBVIOUS

LEMMA Shortened ==
  ASSUME NEW a \in Seq(Nat), a # <<>>
  PROVE  /\ Tail(a) \in Seq(Nat) /\ Head(a) \in Nat /\ 1 \in 1..Len(a) /\ Head(a) = a[1]
         /\ \A i \in 1..Len(Tail(a)) : i + 1 \in 1..Len(a) /\ Tail(a)[i] = a[i + 1]
OBVIOUS

LEMMA AppendInOrder ==
  ASSUME NEW a \in Seq(Nat), NEW p \in Nat, NEW over, NEW n, NEW gone
  PROVE  /\ Sorted(a, over) /\ Back(a, p, over) => Sorted(Append(a, p), over)
         /\ Known(a, n, gone) /\ p <= n /\ p \notin gone => Known(Append(a, p), n, gone)
         /\ \A b : Before(a, b, over) /\ Leads(p, b, over) => Before(Append(a, p), b, over)
         /\ \A b : Before(b, a, over) /\ Back(b, p, over) => Before(b, Append(a, p), over)
<1> DEFINE t == Append(a, p)
<1>1. \A i \in 1..Len(t) : \/ i \in 1..Len(a) /\ t[i] = a[i]
                           \/ i = Len(a) + 1 /\ t[i] = p
  BY Appended
<1>2. Len(a) \in Nat
  OBVIOUS
<1> SUFFICES /\ Sorted(a, over) /\ Back(a, p, over) => Sorted(t, over)
             /\ Known(a, n, gone) /\ p <= n /\ p \notin gone => Known(t, n, gone)
             /\ \A b : Before(a, b, over) /\ Leads(p, b, over) => Before(t, b, over)
             /\ \A b : Before(b, a, over) /\ Back(b, p, over) => Before(b, t, over)
  OBVIOUS
<1> HIDE DEF t
<1>3. ASSUME Sorted(a, over), Back(a, p, over), NEW i \in 1..Len(t), NEW j \in 1..Len(t), i < j
      PROVE  Ahead(t[i], t[j], over)
  <2>1. i \in 1..Len(a) /\ t[i] = a[i]
    BY <1>1, <1>2, <1>3
  <2> QED
    BY <1>1, <1>3, <2>1 DEF Sorted, Back
<1> QED
  BY <1>1, <1>3 DEF Sorted, Known, Before, Leads, Back

LEMMA TailInOrder ==
  ASSUME NEW a \in Seq(Nat), a # <<>>, NEW over, NEW n, NEW gone
  PROVE  /\ Sorted(a, over) => Sorted(Tail(a), over) /\ Leads(Head(a), Tail(a), over)
         /\ Known(a, n, gone) => Known(Tail(a), n, gone) /\ Head(a) <= n /\ Head(a) \notin gone
         /\ \A b : Before(a, b, over) => Before(Tail(a), b, over) /\ Leads(Head(a), b, over)
         /\ \A b : Before(b, a, over) => Before(b, Tail(a), over) /\ Back(b, Head(a), over)
<1> DEFINE t == Tail(a)
           h == Head(a)
<1>1. /\ 1 \in 1..Len(a) /\ h = a[1]
      /\ \A i \in 1..Len(t) : i + 1 \in 1..Len(a) /\ t[i] = a[i + 1]
  BY Shortened
<1> SUFFICES /\ Sorted(a, over) => Sorted(t, over) /\ Leads(h, t, over)
             /\ Known(a, n, gone) => Known(t, n, gone) /\ h <= n /\ h \notin gone
             /\ \A b : Before(a, b, over) => Before(t, b, over) /\ Leads(h, b, over)
             /\ \A b : Before(b, a, over) => Before(b, t, over) /\ Back(b, h, over)
  OBVIOUS
<1> HIDE DEF t, h
<1>2. Sorted(a, over) => Sorted(t, over) /\ Leads(h, t, over)
  BY <1>1 DEF Sorted, Leads
<1> QED
  BY <1>1, <1>2 DEF Known, Before, Leads, Back

LEMMA NoneInOrder ==
  ASSUME NEW over, NEW n, NEW gone
  PROVE  /\ Sorted(<<>>, over) /\ Known(<<>>, n, gone)
         /\ \A b : Before(<<>>, b, over) /\ Before(b, <<>>, over)
<1>1. Len(<<>>) = 0
  OBVIOUS
<1> QED
  BY <1>1 DEF Sorted, Known, Before

(* What is lost is behind or ahead, so that it is none of the others.      *)
LEMMA LostInOrder ==
  ASSUME NEW a \in Seq(Nat), NEW n, NEW gone, NEW over, Known(a, n, gone)
  PROVE  /\ \A p : Leads(p, a, over) \/ Back(a, p, over) => Known(a, n, gone \union {p})
         /\ \A d \in Seq(Nat) : Before(a, d, over) \/ Before(d, a, over) => Known(a, n, gone \union ToSet(d))
<1>1. \A d \in Seq(Nat) : \A q \in ToSet(d) : \E j \in 1..Len(d) : q = d[j]
  BY DEF ToSet
<1> QED
  BY <1>1 DEF Known, Leads, Back, Before, Ahead

LEMMA NewInOrder ==
  ASSUME NEW a \in Seq(Nat), NEW n \in Nat, NEW gone, NEW over, Known(a, n, gone)
  PROVE  /\ Known(a, n + 1, gone) /\ Known(a, n + 1, gone \union {n + 1})
         /\ Back(a, n + 1, over) /\ Leads(n + 1, a, over \union {n + 1})
<1>1. \A i \in 1..Len(a) : a[i] \in Nat /\ a[i] <= n /\ a[i] \notin gone
  BY DEF Known
<1> QED
  BY <1>1 DEF Known, Back, Leads, Ahead

LEMMA OverInOrder ==
  ASSUME NEW over, NEW more
  PROVE  /\ \A a : Sorted(a, over) => Sorted(a, over \union more)
         /\ \A a, b : Before(a, b, over) => Before(a, b, over \union more)
BY DEF Sorted, Before, Ahead

(* A prompt behind those of the runtime is published, or lost.             *)
LEMMA PublishedInOrder ==
  ASSUME NEW a \in Seq(Nat), NEW b \in Seq(Nat), NEW c \in Seq(Nat), NEW d \in Seq(Nat),
         NEW n, NEW gone, NEW over, NEW p \in Nat, NEW c2, NEW gone2,
         \/ c2 = Append(c, p) /\ gone2 = gone
         \/ c2 = c /\ gone2 = gone \union {p},
         Line(a, b, c, d, n, gone, over), p <= n, p \notin gone,
         Back(a, p, over), Back(b, p, over), Back(c, p, over), Leads(p, d, over)
  PROVE  Line(a, b, c2, d, n, gone2, over)
<1>1. CASE c2 = Append(c, p) /\ gone2 = gone
  BY <1>1, AppendInOrder, Zenon DEF Line
<1>2. CASE c2 = c /\ gone2 = gone \union {p}
  BY <1>2, LostInOrder, Zenon DEF Line
<1> QED
  BY <1>1, <1>2

(* The user submits a further prompt: it waits in the UI, or is sent.      *)
LEMMA WaitingInOrder ==
  ASSUME NEW a \in Seq(Nat), NEW b \in Seq(Nat), NEW c \in Seq(Nat), NEW d \in Seq(Nat),
         NEW n \in Nat, NEW gone, NEW over, Line(a, b, c, d, n, gone, over), n + 1 \notin gone
  PROVE  Line(a, b, c, Append(d, n + 1), n + 1, gone, over)
<1>1. n + 1 \in Nat /\ n + 1 <= n + 1
  OBVIOUS
<1>2. /\ Known(a, n + 1, gone) /\ Known(b, n + 1, gone) /\ Known(c, n + 1, gone) /\ Known(d, n + 1, gone)
      /\ Back(a, n + 1, over) /\ Back(b, n + 1, over) /\ Back(c, n + 1, over) /\ Back(d, n + 1, over)
  BY NewInOrder, Zenon DEF Line
<1> QED
  BY <1>1, <1>2, AppendInOrder, Zenon DEF Line

LEMMA SentInOrder ==
  ASSUME NEW a \in Seq(Nat), NEW b \in Seq(Nat), NEW c \in Seq(Nat), NEW d \in Seq(Nat),
         NEW n \in Nat, NEW gone, NEW over, Line(a, b, c, d, n, gone, over), n + 1 \notin gone,
         NEW c2, NEW gone2, NEW over2,
         \/ c2 = Append(c, n + 1) /\ gone2 = gone
         \/ c2 = c /\ gone2 = gone \union {n + 1},
         over2 = IF d # <<>> THEN over \union {n + 1} ELSE over
  PROVE  Line(a, b, c2, d, n + 1, gone2, over2)
<1>1. n + 1 \in Nat /\ n + 1 <= n + 1
  OBVIOUS
<1>2. /\ Known(a, n + 1, gone) /\ Known(b, n + 1, gone) /\ Known(c, n + 1, gone) /\ Known(d, n + 1, gone)
  BY NewInOrder, Zenon DEF Line
<1>3. \E more : over2 = over \union more
  <2>1. over = over \union {}
    OBVIOUS
  <2> QED
    BY <2>1, Zenon
<1>4. Line(a, b, c, d, n, gone, over2)
  BY <1>3, OverInOrder, Zenon DEF Line
<1>5. Line(a, b, c, d, n + 1, gone, over2)
  BY <1>2, <1>4, Zenon DEF Line
<1>6. Back(a, n + 1, over2) /\ Back(b, n + 1, over2) /\ Back(c, n + 1, over2)
  BY <1>4, NewInOrder, Zenon DEF Line
<1>7. Leads(n + 1, d, over2)
  <2>1. CASE d = <<>>
    <3>1. Len(<<>>) = 0
      OBVIOUS
    <3> QED
      BY <2>1, <3>1 DEF Leads
  <2>2. CASE d # <<>>
    BY <2>2, NewInOrder, Zenon DEF Line
  <2> QED
    BY <2>1, <2>2
<1> QED
  BY <1>1, <1>5, <1>6, <1>7, PublishedInOrder

(* The UI sends on the first prompt that waits.                            *)
LEMMA SentOnInOrder ==
  ASSUME NEW a \in Seq(Nat), NEW b \in Seq(Nat), NEW c \in Seq(Nat), NEW d \in Seq(Nat),
         NEW n, NEW gone, NEW over, Line(a, b, c, d, n, gone, over), d # <<>>,
         NEW c2, NEW gone2,
         \/ c2 = Append(c, Head(d)) /\ gone2 = gone
         \/ c2 = c /\ gone2 = gone \union {Head(d)}
  PROVE  Line(a, b, c2, Tail(d), n, gone2, over)
<1>1. Tail(d) \in Seq(Nat) /\ Head(d) \in Nat
  BY Shortened
<1>2. Line(a, b, c, Tail(d), n, gone, over)
  BY TailInOrder, Zenon DEF Line
<1>3. /\ Head(d) <= n /\ Head(d) \notin gone /\ Leads(Head(d), Tail(d), over)
      /\ Back(a, Head(d), over) /\ Back(b, Head(d), over) /\ Back(c, Head(d), over)
  BY TailInOrder, Zenon DEF Line
<1> QED
  BY <1>1, <1>2, <1>3, PublishedInOrder

(* An interrupt throws away what waits in the UI, or in the runtime.       *)
LEMMA ThrownInOrder ==
  ASSUME NEW a \in Seq(Nat), NEW b \in Seq(Nat), NEW c \in Seq(Nat), NEW d \in Seq(Nat),
         NEW n, NEW gone, NEW over, Line(a, b, c, d, n, gone, over)
  PROVE  /\ Line(a, b, c, <<>>, n, gone \union ToSet(d), over)
         /\ Line(a, <<>>, c, d, n, gone \union ToSet(b), over)
BY NoneInOrder, LostInOrder, Zenon DEF Line

(* The runtime queues a prompt, starts it or starts one that has waited.   *)
LEMMA TakenInOrder ==
  ASSUME NEW a \in Seq(Nat), NEW b \in Seq(Nat), NEW c \in Seq(Nat), NEW d \in Seq(Nat),
         NEW n, NEW gone, NEW over, Line(a, b, c, d, n, gone, over)
  PROVE  /\ c # <<>> => Line(a, Append(b, Head(c)), Tail(c), d, n, gone, over)
         /\ c # <<>> /\ b = <<>> => Line(Append(a, Head(c)), b, Tail(c), d, n, gone, over)
         /\ b # <<>> => Line(Append(a, Head(b)), Tail(b), c, d, n, gone, over)
<1>1. ASSUME c # <<>>
      PROVE  /\ Line(a, b, Tail(c), d, n, gone, over) /\ Head(c) \in Nat
             /\ Head(c) <= n /\ Head(c) \notin gone
             /\ Leads(Head(c), Tail(c), over) /\ Leads(Head(c), d, over)
             /\ Back(a, Head(c), over) /\ Back(b, Head(c), over)
  BY <1>1, Shortened, TailInOrder, Zenon DEF Line
<1>2. ASSUME c # <<>>
      PROVE  Line(a, Append(b, Head(c)), Tail(c), d, n, gone, over)
  BY <1>1, <1>2, AppendInOrder, Zenon DEF Line
<1>3. ASSUME c # <<>>, b = <<>>
      PROVE  Line(Append(a, Head(c)), b, Tail(c), d, n, gone, over)
  <2>1. \A x : Before(x, b, over) /\ Before(b, x, over)
    BY <1>3, NoneInOrder
  <2> QED
    BY <1>1, <1>3, <2>1, AppendInOrder, Zenon DEF Line
<1>4. ASSUME b # <<>>
      PROVE  Line(Append(a, Head(b)), Tail(b), c, d, n, gone, over)
  <2>1. /\ Line(a, Tail(b), c, d, n, gone, over) /\ Head(b) \in Nat
        /\ Head(b) <= n /\ Head(b) \notin gone /\ Back(a, Head(b), over)
        /\ Leads(Head(b), Tail(b), over) /\ Leads(Head(b), c, over) /\ Leads(Head(b), d, over)
    BY <1>4, Shortened, TailInOrder, Zenon DEF Line
  <2> QED
    BY <2>1, AppendInOrder, Zenon DEF Line
<1> QED
  BY <1>2, <1>3, <1>4

LEMMA InOrderInit == SInit => InOrder
<1> SUFFICES ASSUME SInit PROVE InOrder
  OBVIOUS
<1>1. started = <<>> \/ (Len(started) = 1 /\ started[1] = 0)
  BY DEF SInit
<1>2. /\ queuedPrompts = <<>> /\ userPrompts = <<>> /\ promptQueue = <<>>
      /\ submitted = 0 /\ lost = {}
  BY DEF SInit
<1>3. Sorted(started, overtaking) /\ Known(started, submitted, lost)
  <2>1. CASE started = <<>>
    BY <2>1, NoneInOrder
  <2>2. CASE Len(started) = 1 /\ started[1] = 0
    <3>1. \A i, j \in 1..1 : ~(i < j) /\ i = 1
      OBVIOUS
    <3> QED
      BY <1>2, <2>2, <3>1 DEF Sorted, Known
  <2> QED
    BY <1>1, <2>1, <2>2
<1>4. Line(started, <<>>, <<>>, <<>>, submitted, lost, overtaking)
  BY <1>3, NoneInOrder, Zenon DEF Line
<1> QED
  BY <1>2, <1>4 DEF InOrder

LEMMA NoneStays ==
  ASSUME UNCHANGED <<running, queuedPrompts, started, userPrompts, promptQueue, submitted, lost, overtaking>>,
         InOrder
  PROVE  InOrder'
BY DEF InOrder, Line, Sorted, Before, Known, Ahead

LEMMA LostIsOld ==
  ASSUME NEW n \in Nat, NEW gone, gone \subseteq 0..n, NEW d \in Seq(Nat), Known(d, n, gone)
  PROVE  gone \union ToSet(d) \subseteq 0..n
<1>1. \A q \in ToSet(d) : \E j \in 1..Len(d) : q = d[j]
  BY DEF ToSet
<1>2. \A j \in 1..Len(d) : d[j] \in 0..n
  BY DEF Known
<1> QED
  BY <1>1, <1>2

LEMMA UserKeepsOrder ==
  ASSUME Types, InOrder, Submit \/ Interrupt \/ SetGoal \/ ClearGoal
  PROVE  InOrder'
<1>1. /\ started \in Seq(Nat) /\ queuedPrompts \in Seq(Nat) /\ userPrompts \in Seq(Nat)
      /\ promptQueue \in Seq(Nat) /\ submitted \in Nat
  BY DEF Types
<1>2. /\ Line(started, queuedPrompts, userPrompts, promptQueue, submitted, lost, overtaking)
      /\ lost \subseteq 0..submitted
      /\ ~running => queuedPrompts = <<>>
  BY DEF InOrder
<1>3. CASE Submit
  <2>1. UNCHANGED <<running, queuedPrompts, started>> /\ submitted' = submitted + 1
    BY <1>3 DEF Submit, rtVars
  <2>2. submitted + 1 \notin lost
    BY <1>1, <1>2
  <2>3. lost' \subseteq 0..submitted'
    <3>1. lost' \subseteq lost \union {submitted + 1}
      BY <1>3 DEF Submit, PublishPrompt
    <3>2. 0..submitted \subseteq 0..(submitted + 1) /\ submitted + 1 \in 0..(submitted + 1)
      BY <1>1
    <3> QED
      BY <1>2, <2>1, <3>1, <3>2
  <2>4. CASE uiRunning
    <3>1. /\ promptQueue' = Append(promptQueue, submitted + 1)
          /\ UNCHANGED <<userPrompts, lost, overtaking>>
      BY <1>3, <2>4 DEF Submit
    <3>2. Line(started, queuedPrompts, userPrompts, Append(promptQueue, submitted + 1), submitted + 1,
               lost, overtaking)
      BY <1>1, <1>2, <2>2, WaitingInOrder
    <3> QED
      BY <1>2, <2>1, <2>3, <3>1, <3>2, Zenon DEF InOrder
  <2>5. CASE ~uiRunning
    <3>1. /\ promptQueue' = promptQueue
          /\ \/ userPrompts' = Append(userPrompts, submitted + 1) /\ lost' = lost
             \/ userPrompts' = userPrompts /\ lost' = lost \union {submitted + 1}
          /\ overtaking' = IF promptQueue # <<>> THEN overtaking \union {submitted + 1} ELSE overtaking
      BY <1>3, <2>5 DEF Submit, PublishPrompt
    <3>2. Line(started, queuedPrompts, userPrompts', promptQueue, submitted + 1, lost', overtaking')
      BY <1>1, <1>2, <2>2, <3>1, SentInOrder
    <3> QED
      BY <1>2, <2>1, <2>3, <3>1, <3>2, Zenon DEF InOrder
  <2> QED
    BY <2>4, <2>5
<1>4. CASE Interrupt
  <2>1. /\ UNCHANGED <<running, queuedPrompts, started, userPrompts, submitted, overtaking>>
        /\ promptQueue' = <<>> /\ lost' = lost \union ToSet(promptQueue)
    BY <1>4 DEF Interrupt, rtVars
  <2>2. Line(started, queuedPrompts, userPrompts, <<>>, submitted, lost \union ToSet(promptQueue), overtaking)
    BY <1>1, <1>2, ThrownInOrder
  <2>3. lost \union ToSet(promptQueue) \subseteq 0..submitted
    BY <1>1, <1>2, LostIsOld DEF Line
  <2> QED
    BY <1>2, <2>1, <2>2, <2>3, Zenon DEF InOrder
<1>5. CASE SetGoal \/ ClearGoal
  BY <1>5, NoneStays DEF SetGoal, ClearGoal, rtVars, history
<1> QED
  BY <1>3, <1>4, <1>5

LEMMA UiKeepsOrder ==
  ASSUME Types, InOrder, Ui
  PROVE  InOrder'
<1>1. /\ started \in Seq(Nat) /\ queuedPrompts \in Seq(Nat) /\ userPrompts \in Seq(Nat)
      /\ promptQueue \in Seq(Nat) /\ submitted \in Nat
  BY DEF Types
<1>2. /\ Line(started, queuedPrompts, userPrompts, promptQueue, submitted, lost, overtaking)
      /\ lost \subseteq 0..submitted
      /\ ~running => queuedPrompts = <<>>
  BY DEF InOrder
<1>3. CASE UiDone /\ promptQueue # <<>>
  <2>1. /\ UNCHANGED <<running, queuedPrompts, started, submitted, overtaking>>
        /\ promptQueue' = Tail(promptQueue)
        /\ \/ userPrompts' = Append(userPrompts, Head(promptQueue)) /\ lost' = lost
           \/ userPrompts' = userPrompts /\ lost' = lost \union {Head(promptQueue)}
    BY <1>3 DEF UiDone, PublishPrompt, rtVars, userVars
  <2>2. Line(started, queuedPrompts, userPrompts', Tail(promptQueue), submitted, lost', overtaking)
    BY <1>1, <1>2, <1>3, <2>1, SentOnInOrder
  <2>3. Head(promptQueue) \in 0..submitted
    BY <1>1, <1>2, <1>3, TailInOrder DEF Line
  <2>4. lost' \subseteq 0..submitted
    BY <1>2, <2>1, <2>3
  <2> QED
    BY <1>2, <2>1, <2>2, <2>4, Zenon DEF InOrder
<1>4. CASE ~(UiDone /\ promptQueue # <<>>)
  BY <1>4, NoneStays DEF Ui, UiStarted, UiError, UiDone, ApplyGoalUpdate, rtVars, userVars, history
<1> QED
  BY <1>3, <1>4

LEMMA RuntimeKeepsOrder ==
  ASSUME Base, InOrder, Runtime
  PROVE  InOrder'
<1>1. /\ started \in Seq(Nat) /\ queuedPrompts \in Seq(Nat) /\ userPrompts \in Seq(Nat)
      /\ promptQueue \in Seq(Nat) /\ submitted \in Nat
  BY DEF Base, Types
<1>2. /\ Line(started, queuedPrompts, userPrompts, promptQueue, submitted, lost, overtaking)
      /\ lost \subseteq 0..submitted
      /\ ~running => queuedPrompts = <<>>
  BY DEF InOrder
<1>3. CASE TakePrompt
  <2>1. /\ userPrompts # <<>> /\ userPrompts' = Tail(userPrompts)
        /\ UNCHANGED <<promptQueue, submitted, lost, overtaking>>
    BY <1>3 DEF TakePrompt, uiVars, userVars
  <2>2. CASE running
    <3>1. queuedPrompts' = Append(queuedPrompts, Head(userPrompts)) /\ UNCHANGED <<running, started>>
      BY <1>3, <2>2 DEF TakePrompt
    <3>2. Line(started, Append(queuedPrompts, Head(userPrompts)), Tail(userPrompts), promptQueue,
               submitted, lost, overtaking)
      BY <1>1, <1>2, <2>1, TakenInOrder
    <3> QED
      BY <1>2, <2>1, <2>2, <3>1, <3>2, Zenon DEF InOrder
  <2>3. CASE ~running
    <3>1. /\ started' = Append(started, Head(userPrompts)) /\ running' = TRUE
          /\ queuedPrompts' = queuedPrompts /\ queuedPrompts = <<>>
      BY <1>2, <1>3, <2>3 DEF TakePrompt, StartRun
    <3>2. Line(Append(started, Head(userPrompts)), queuedPrompts, Tail(userPrompts), promptQueue,
               submitted, lost, overtaking)
      BY <1>1, <1>2, <2>1, <3>1, TakenInOrder
    <3> QED
      BY <1>2, <2>1, <3>1, <3>2, Zenon DEF InOrder
  <2> QED
    BY <2>2, <2>3
<1>4. CASE TakeInterrupt
  <2>1. UNCHANGED <<promptQueue, submitted, userPrompts, overtaking, started, running>>
    BY <1>4 DEF TakeInterrupt, uiVars, userVars
  <2>2. CASE running
    <3>1. queuedPrompts' = <<>> /\ lost' = lost \union ToSet(queuedPrompts)
      BY <1>4, <2>2 DEF TakeInterrupt
    <3>2. Line(started, <<>>, userPrompts, promptQueue, submitted, lost \union ToSet(queuedPrompts), overtaking)
      BY <1>1, <1>2, ThrownInOrder
    <3>3. lost \union ToSet(queuedPrompts) \subseteq 0..submitted
      BY <1>1, <1>2, LostIsOld DEF Line
    <3> QED
      BY <1>2, <2>1, <2>2, <3>1, <3>2, <3>3, Zenon DEF InOrder
  <2>3. CASE ~running
    BY <1>4, <2>1, <2>3, NoneStays DEF TakeInterrupt
  <2> QED
    BY <2>2, <2>3
<1>5. CASE TakeControl
  BY <1>5, NoneStays DEF TakeControl, uiVars, userVars, history
<1>6. CASE TakeResult
  <2>1. UNCHANGED <<promptQueue, submitted, userPrompts, lost, overtaking>>
    BY <1>6 DEF TakeResult, uiVars, userVars
  <2>2. CASE queuedPrompts = <<>>
    <3>1. UNCHANGED <<started, queuedPrompts>>
      BY <1>6, <2>2 DEF TakeResult
    <3> QED
      BY <1>2, <2>1, <2>2, <3>1, Zenon DEF InOrder
  <2>3. CASE queuedPrompts # <<>>
    <3>1. /\ started' = Append(started, Head(queuedPrompts)) /\ running' = TRUE
          /\ queuedPrompts' = Tail(queuedPrompts)
      BY <1>6, <2>3 DEF TakeResult, StartRun
    <3>2. Line(Append(started, Head(queuedPrompts)), Tail(queuedPrompts), userPrompts, promptQueue,
               submitted, lost, overtaking)
      BY <1>1, <1>2, <2>3, TakenInOrder
    <3> QED
      BY <1>2, <2>1, <3>1, <3>2, Zenon DEF InOrder
  <2> QED
    BY <2>2, <2>3
<1> QED
  BY <1>3, <1>4, <1>5, <1>6 DEF Runtime

LEMMA InOrderStep == Base /\ InOrder /\ [SNext]_svars => InOrder'
<1>1. ASSUME InOrder, Run \/ UNCHANGED svars PROVE InOrder'
  <2>1. UNCHANGED <<running, queuedPrompts, started, userPrompts, promptQueue, submitted, lost, overtaking>>
    BY <1>1 DEF Run, Reenter, Conclude, Publish, Return, svars, uiVars, userVars, chanVars, rtVars, history
  <2> QED
    BY <1>1, <2>1, NoneStays
<1> QED
  BY <1>1, UserKeepsOrder, UiKeepsOrder, RuntimeKeepsOrder DEF SNext, Base

LEMMA AlwaysInOrder == SSpec => [](Base /\ InOrder)
BY BaseInit, BaseStep, InOrderInit, InOrderStep, PTL DEF SSpec

(* PromptsStartOnce (Session): however prompts are queued twice, dropped   *)
(* and interrupted, none starts a second time and none that was lost       *)
(* starts.                                                                 *)
THEOREM NoPromptStartsTwice == SSpec => []PromptsStartOnce
<1>1. Base /\ InOrder => PromptsStartOnce
  <2> SUFFICES ASSUME Base, InOrder PROVE PromptsStartOnce
    OBVIOUS
  <2>1. started \in Seq(Nat) /\ Sorted(started, overtaking) /\ Known(started, submitted, lost)
    BY DEF Base, Types, InOrder, Line
  <2>2. DOMAIN started = 1..Len(started)
    BY <2>1
  <2>3. \A i, j \in 1..Len(started) : started[i] = started[j] => i = j
    BY <2>1 DEF Sorted, Ahead
  <2>4. \A p \in ToSet(started) : \E i \in 1..Len(started) : p = started[i]
    BY <2>2 DEF ToSet
  <2> QED
    BY <2>1, <2>2, <2>3, <2>4 DEF Known, PromptsStartOnce
<1> QED
  BY <1>1, AlwaysInOrder, PTL

(* PromptsStartInOrder (Session): through both queues, and whatever is     *)
(* lost from them, prompts start in the order of submission; the only one  *)
(* that does not wait its turn is a prompt submitted between the Error and *)
(* the Done of a failed run.                                               *)
THEOREM PromptsAreFirstInFirstOut == SSpec => []PromptsStartInOrder
<1>1. Base /\ InOrder => PromptsStartInOrder
  <2> SUFFICES ASSUME Base, InOrder PROVE PromptsStartInOrder
    OBVIOUS
  <2>1. started \in Seq(Nat) /\ Sorted(started, overtaking)
    BY DEF Base, Types, InOrder, Line
  <2>2. DOMAIN started = 1..Len(started)
    BY <2>1
  <2> QED
    BY <2>1, <2>2 DEF Sorted, Ahead, PromptsStartInOrder
<1> QED
  BY <1>1, AlwaysInOrder, PTL

-----------------------------------------------------------------------------
(* The goal: what the runtime would hold is none that a run has closed.    *)
LEMMA GoalKnownInit == SInit => GoalKnown
<1> SUFFICES ASSUME SInit PROVE GoalKnown
  OBVIOUS
<1>1. Drained = 0
  BY DrainedOfNone DEF SInit, Drained
<1>2. run.goal = 0 /\ run.log = <<>>
  BY BegunIsRun DEF SInit, NoRun
<1>3. Told(run.goal, run.log)
  BY <1>2, SaidNone
<1>4. resolved = {} /\ goalsSet = 0
  BY DEF SInit
<1> QED
  BY <1>1, <1>2, <1>3, <1>4 DEF GoalKnown

LEMMA GoalStays ==
  ASSUME GoalKnown, UNCHANGED <<run, resolved, goalsSet, currentGoal, controlEvents>>
  PROVE  GoalKnown'
<1>1. Drained' = Drained
  BY DrainedWhenQuiet
<1> QED
  BY <1>1 DEF GoalKnown, Told

LEMMA UserKeepsGoal ==
  ASSUME Types, GoalKnown, Submit \/ Interrupt \/ SetGoal \/ ClearGoal
  PROVE  GoalKnown'
<1>1. CASE Submit \/ Interrupt
  BY <1>1, GoalStays DEF Submit, Interrupt, rtVars
<1>2. goalsSet \in Nat
  BY DEF Types
<1>3. CASE SetGoal
  <2>1. Event("set", goalsSet + 1) \in Events /\ Event("set", goalsSet + 1).goal = goalsSet + 1
        /\ Event("set", goalsSet + 1).type = "set"
    BY <1>2 DEF Event, Events
  <2>2. controlEvents' = Append(controlEvents, Event("set", goalsSet + 1)) /\ currentGoal' = currentGoal
    BY <1>3 DEF SetGoal, rtVars
  <2>3. Drained' = GoalAfter(Drained, Event("set", goalsSet + 1))
    BY <2>1, <2>2, DrainedWhenTold
  <2>4. Drained' = goalsSet + 1
    BY <2>1, <2>3, GoalAfterCases
  <2>5. UNCHANGED <<run, resolved>> /\ goalsSet' = goalsSet + 1
    BY <1>3 DEF SetGoal, history
  <2>6. Told(run.goal, run.log)'
    BY <2>5 DEF GoalKnown, Told
  <2> QED
    BY <1>2, <2>4, <2>5, <2>6 DEF GoalKnown
<1>4. CASE ClearGoal
  <2>1. Event("set", 0) \in Events /\ Event("set", 0).goal = 0 /\ Event("set", 0).type = "set"
    BY DEF Event, Events
  <2>2. controlEvents' = Append(controlEvents, Event("set", 0)) /\ currentGoal' = currentGoal
    BY <1>4 DEF ClearGoal, rtVars
  <2>3. Drained' = GoalAfter(Drained, Event("set", 0))
    BY <2>1, <2>2, DrainedWhenTold
  <2>4. Drained' = 0
    BY <2>1, <2>3, GoalAfterCases
  <2>5. UNCHANGED <<run, resolved, goalsSet>>
    BY <1>4 DEF ClearGoal, history
  <2>6. Told(run.goal, run.log)'
    BY <2>5 DEF GoalKnown, Told
  <2> QED
    BY <1>2, <2>4, <2>5, <2>6 DEF GoalKnown
<1> QED
  BY <1>1, <1>3, <1>4

LEMMA StartRunKeepsGoal ==
  ASSUME Base, GoalKnown, NEW p, StartRun(p), UNCHANGED <<resolved, goalsSet>>
  PROVE  GoalKnown' /\ run'.goal \notin resolved
<1>1. Drained \in Nat
  BY DEF Base, Types
<1>2. run' = Begun(Drained) /\ Drained' = Drained
  BY DrainedWhenDrained DEF StartRun
<1>3. run'.goal = Drained /\ run'.log = <<>>
  BY <1>1, <1>2, BegunIsRun
<1>4. Told(run'.goal, run'.log)
  BY <1>3, SaidNone
<1> QED
  BY <1>2, <1>3, <1>4 DEF GoalKnown, Told

LEMMA RuntimeKeepsGoal ==
  ASSUME Base, GoalKnown, Runtime
  PROVE  GoalKnown' /\ (started' # started => run'.goal \notin resolved)
<1>0. UNCHANGED <<resolved, goalsSet>>
  BY DEF Runtime, TakePrompt, TakeInterrupt, TakeControl, TakeResult, userVars, history
<1>1. CASE TakePrompt
  <2>1. CASE running
    BY <1>0, <1>1, <2>1, GoalStays DEF TakePrompt
  <2>2. CASE ~running
    <3>1. StartRun(Head(userPrompts))
      BY <1>1, <2>2 DEF TakePrompt
    <3> QED
      BY <1>0, <3>1, StartRunKeepsGoal
  <2> QED
    BY <2>1, <2>2
<1>2. CASE TakeInterrupt
  BY <1>0, <1>2, GoalStays DEF TakeInterrupt
<1>3. CASE TakeControl
  <2>1. Drained' = Drained
    BY <1>3, DrainedWhenTaken DEF Base
  <2>2. UNCHANGED <<run, started>>
    BY <1>3 DEF TakeControl, history
  <2> QED
    BY <1>0, <2>1, <2>2 DEF GoalKnown, Told
<1>4. CASE TakeResult
  <2>1. CASE queuedPrompts = <<>>
    <3>1. /\ run' = NoRun /\ currentGoal' = Drained /\ controlEvents' = <<>> /\ UNCHANGED started
      BY <1>4, <2>1 DEF TakeResult
    <3>2. Drained' = Drained
      BY <3>1, DrainedWhenDrained
    <3>3. run'.goal = 0 /\ run'.log = <<>>
      BY <3>1 DEF NoRun
    <3>4. Told(run'.goal, run'.log)
      BY <3>3, SaidNone
    <3>5. goalsSet \in Nat
      BY DEF Base, Types
    <3>6. 0 \in (0..goalsSet) \ resolved
      BY <3>5 DEF GoalKnown
    <3> QED
      BY <1>0, <3>1, <3>2, <3>3, <3>4, <3>6 DEF GoalKnown
  <2>2. CASE queuedPrompts # <<>>
    <3>1. StartRun(Head(queuedPrompts))
      BY <1>4, <2>2 DEF TakeResult
    <3> QED
      BY <1>0, <3>1, StartRunKeepsGoal
  <2> QED
    BY <2>1, <2>2
<1> QED
  BY <1>1, <1>2, <1>3, <1>4 DEF Runtime

LEMMA RunKeepsGoal ==
  ASSUME Base, GoalKnown, Run
  PROVE  GoalKnown' /\ UNCHANGED started
<1>0. run \in Runs /\ goalsSet \in Nat
  BY DEF Base, Types
<1>1. CASE Publish
  <2>1. PICK type \in Readings(run.log[run.sent + 1]) :
           /\ run.sent + 1 \in 1..Len(run.log)
           /\ run' = [run EXCEPT !.sent = @ + 1]
           /\ UNCHANGED <<goalsSet, started>>
           /\ resolved' = IF type \in Closings THEN resolved \union {run.goal} ELSE resolved
           /\ Drained' = IF type \in Closings THEN 0 ELSE Drained
    BY <1>1, PublishTells
  <2>2. run.sent \in Nat /\ run.log \in Seq(Reported) /\ run.goal \in Nat
    BY <1>0 DEF Runs
  <2>3. run'.log = run.log /\ run'.goal = run.goal
    <3>1. run' = [run EXCEPT !.sent = @ + 1]
      BY <2>1
    <3> QED
      BY <1>0, <3>1 DEF Runs
  <2>4. Told(run'.goal, run'.log)
    BY <2>3 DEF GoalKnown
  <2>5. ASSUME type \in Closings
        PROVE  run.goal # 0
    <3>1. run.log[run.sent + 1] \in Reported
      BY <2>1, <2>2
    <3>2. run.log[run.sent + 1] = "goal closed"
      BY <2>2, <2>5, <3>1, ReadingsAreEvents
    <3> QED
      BY <2>1, <3>2 DEF GoalKnown, Told
  <2>6. CASE type \in Closings
    <3>1. resolved' = resolved \union {run.goal} /\ Drained' = 0
      BY <2>1, <2>6
    <3>2. run.goal \in 1..goalsSet
      BY <1>0, <2>2, <2>5, <2>6 DEF GoalKnown
    <3>3. resolved' \subseteq 1..goalsSet /\ 0 \in (0..goalsSet) \ resolved'
      <4>1. resolved \subseteq 1..goalsSet
        BY DEF GoalKnown
      <4>2. resolved' \subseteq 1..goalsSet
        BY <3>1, <3>2, <4>1
      <4>3. 0 \in 0..goalsSet /\ 0 \notin 1..goalsSet
        BY <1>0
      <4> QED
        BY <4>2, <4>3, Zenon
    <3>4. run'.goal \in 0..goalsSet
      BY <2>3 DEF GoalKnown
    <3> QED
      BY <2>1, <2>4, <3>1, <3>3, <3>4 DEF GoalKnown
  <2>7. CASE type \notin Closings
    <3>1. resolved' = resolved /\ Drained' = Drained
      BY <2>1, <2>7
    <3> QED
      BY <2>1, <2>3, <2>4, <3>1 DEF GoalKnown, Told
  <2> QED
    BY <2>6, <2>7
<1>2. CASE ~Publish
  <2>1. /\ Told(run.goal, run.log) => Told(run'.goal, run'.log)
        /\ run'.goal = run.goal
        /\ UNCHANGED <<goalsSet, started, currentGoal, controlEvents, resolved>>
    BY <1>2, RunSays DEF Run
  <2>2. Drained' = Drained
    BY <2>1, DrainedWhenQuiet
  <2> QED
    BY <2>1, <2>2 DEF GoalKnown, Told
<1> QED
  BY <1>1, <1>2

LEMMA GoalStep ==
  Base /\ GoalKnown /\ [SNext]_svars => GoalKnown' /\ (started' # started => run'.goal \notin resolved)
<1>1. ASSUME GoalKnown, Ui \/ UNCHANGED svars PROVE GoalKnown' /\ UNCHANGED started
  <2>1. UNCHANGED <<run, resolved, goalsSet, currentGoal, controlEvents, started>>
    BY <1>1 DEF Ui, UiStarted, UiError, UiDone, ApplyGoalUpdate, svars, userVars, chanVars, rtVars, history
  <2> QED
    BY <1>1, <2>1, GoalStays
<1>2. ASSUME Submit \/ Interrupt \/ SetGoal \/ ClearGoal PROVE UNCHANGED started
  BY <1>2 DEF Submit, Interrupt, SetGoal, ClearGoal, history
<1> QED
  BY <1>1, <1>2, UserKeepsGoal, RuntimeKeepsGoal, RunKeepsGoal DEF SNext, Base

(* RunsStartUnresolved (Session): because the control events are drained   *)
(* before the goal is read, a run never starts with a goal that an earlier *)
(* run has closed.                                                         *)
THEOREM NoRunStartsResolved == SSpec => RunsStartUnresolved
<1>1. SSpec => [](Base /\ GoalKnown)
  BY BaseInit, BaseStep, GoalKnownInit, GoalStep, PTL DEF SSpec
<1>2. Base /\ GoalKnown /\ [SNext]_svars => [started' # started => run'.goal \notin resolved]_svars
  BY GoalStep
<1> QED
  BY <1>1, <1>2, PTL DEF SSpec, RunsStartUnresolved

(* ClearedGoalStaysCleared (Session): after /goal clear a stale verdict    *)
(* cannot resurrect the badge.                                             *)
THEOREM NoStaleVerdict == SSpec => []ClearedGoalStaysCleared
<1>1. SInit => ClearedGoalStaysCleared
  BY DEF SInit, ClearedGoalStaysCleared
<1>2. ClearedGoalStaysCleared /\ [SNext]_svars => ClearedGoalStaysCleared'
  <2> SUFFICES ASSUME ClearedGoalStaysCleared, [SNext]_svars PROVE ClearedGoalStaysCleared'
    OBVIOUS
  <2>1. CASE \E type \in Closings \union {"retry"} : ApplyGoalUpdate(type)
    BY <2>1 DEF ApplyGoalUpdate, ClearedGoalStaysCleared
  <2>2. CASE SetGoal \/ ClearGoal
    BY <2>2 DEF SetGoal, ClearGoal, ClearedGoalStaysCleared
  <2>3. CASE Submit \/ Interrupt \/ UiStarted \/ UiError \/ UiDone
    BY <2>3 DEF Submit, Interrupt, UiStarted, UiError, UiDone, ClearedGoalStaysCleared
  <2>4. CASE Runtime \/ Run \/ UNCHANGED svars
    BY <2>4 DEF Runtime, TakePrompt, TakeInterrupt, TakeControl, TakeResult, Run, Reenter, Conclude,
       Publish, Return, svars, uiVars, ClearedGoalStaysCleared
  <2> QED
    BY <2>1, <2>2, <2>3, <2>4 DEF SNext, Ui
<1> QED
  BY <1>1, <1>2, PTL DEF SSpec
====
