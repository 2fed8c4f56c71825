------------------------------ MODULE LogProofs ------------------------------
(***************************************************************************)
(* The conversation that is resumed from an event log, for logs of any     *)
(* length and any number of sessions, faults, and processes, which may     *)
(* append to one log at the same time.                                     *)
(*                                                                         *)
(* ExtractHistory is a fold, so its value on a log is first taken apart    *)
(* into what it has made of each prefix: the fold's recursion has a        *)
(* solution on 1..n for every n, since there is no least n without one     *)
(* (FoldExists, FlattenExists), and Take's steps lead from one prefix to   *)
(* the next (FoldInSteps, FlattenGrows).  FoldInv then holds of every      *)
(* prefix of any numbered log (FoldKeeps, ExtractKeeps): what is told is   *)
(* what was heard while the fold was listening.  In a log whose text is    *)
(* of open runs (Voiced), a settled line that was not heard is one that    *)
(* another process talked over (UnheardIsTalkedOver), which with InOrder   *)
(* makes HistoryIsWhole of it (ToldWhole).                                 *)
(*                                                                         *)
(* That the logs on disk are such logs is LogInv, the inductive invariant  *)
(* of the state machine: each clean log is Fine, and what is still in the  *)
(* subscription of each process that writes to it Fits behind it, however  *)
(* the others' lines come in between (OwnLine, OthersLine).                *)
(***************************************************************************)
EXTENDS SessionLog, TLAPS, SequenceTheorems, WellFoundedInduction

(* Of a set of numbers there is a least one.                               *)
Less == {ss \in Nat \X Nat : ss[1] < ss[2]}

LEMMA LeastNatural ==
  ASSUME NEW T, T \subseteq Nat, T # {}
  PROVE  \E x \in T : \A y \in T : x <= y
<1>1. IsWellFoundedOn(Less, Nat)
  BY NatLessThanWellFounded, Zenon DEF OpToRel, Less
<1>2. PICK x \in T : \A y \in T : ~ (<<y, x>> \in Less)
  BY <1>1, WFMin, Zenon
<1>3. ASSUME NEW y \in T PROVE x <= y
  <2>1. x \in Nat /\ y \in Nat /\ ~(<<y, x>> \in Less)
    BY <1>2
  <2> QED
    BY <2>1 DEF Less
<1> QED
  BY <1>3

-----------------------------------------------------------------------------
(* The event log.  ExtractHistory's fold taken apart: what it has made of  *)
(* the first k events, for each k.                                         *)
LEMMA TopOf ==
  ASSUME NEW m \in Nat, NEW t, t \subseteq 1..m, m \in t
  PROVE  Max(t) = m
<1>1. \A j \in t : m >= j
  OBVIOUS
<1>2. Max(t) \in t /\ Max(t) >= m
  BY <1>1, Zenon DEF Max
<1>3. Max(t) \in 1..m
  BY <1>2
<1> QED
  BY <1>2, <1>3

FoldStep(it, b, s, t) == IF t = {} THEN b ELSE Take(it[t \ {Max(t)}], s[Max(t)])
Folds(it, b, s, n) == it = [t \in SUBSET (1..n) |-> FoldStep(it, b, s, t)]

LEMMA FoldExists ==
  ASSUME NEW b, NEW s, NEW n \in Nat
  PROVE  \E it : Folds(it, b, s, n)
<1> USE DEF Folds, FoldStep
<1> DEFINE Eq(it, m) == Folds(it, b, s, m)
           Bad == {m \in Nat : ~\E it : Eq(it, m)}
<1> SUFFICES ASSUME Bad # {} PROVE FALSE
  OBVIOUS
<1>1. PICK m \in Bad : \A j \in Bad : m <= j
  BY LeastNatural
<1>2. m # 0
  <2> DEFINE it == [t \in SUBSET (1..0) |-> b]
  <2>1. ASSUME NEW t \in SUBSET (1..0) PROVE FoldStep(it, b, s, t) = b
    <3>1. t = {}
      OBVIOUS
    <3> QED
      BY <3>1
  <2>2. Eq(it, 0)
    BY <2>1, Zenon
  <2>3. 0 \notin Bad
    BY <2>2
  <2> QED
    BY <2>3, <1>1
<1>3. PICK it : Eq(it, m - 1)
  <2>1. m - 1 \in Nat /\ ~(m <= m - 1)
    BY <1>1, <1>2
  <2>2. m - 1 \notin Bad
    BY <2>1, <1>1
  <2> QED
    BY <2>1, <2>2
<1> DEFINE new == [t \in SUBSET (1..m) |-> IF m \in t THEN Take(it[t \ {m}], s[m]) ELSE it[t]]
<1>4. ASSUME NEW t \in SUBSET (1..m) PROVE new[t] = FoldStep(new, b, s, t)
  <2>1. CASE m \in t
    <3>1. Max(t) = m /\ t # {}
      BY <2>1, <1>1, TopOf, Zenon
    <3>2. t \ {m} \in SUBSET (1..m) /\ m \notin t \ {m}
      OBVIOUS
    <3>3. new[t \ {m}] = it[t \ {m}]
      BY <3>2, Zenon
    <3>4. new[t] = Take(it[t \ {m}], s[m])
      BY <2>1, Zenon
    <3> QED
      BY <3>1, <3>3, <3>4, Zenon
  <2>2. CASE m \notin t
    <3>1. t \in SUBSET (1..(m - 1))
      BY <2>2, <1>1
    <3>2. it[t] = FoldStep(it, b, s, t)
      BY <3>1, <1>3, Zenon
    <3>3. t \ {Max(t)} \in SUBSET (1..m) /\ m \notin t \ {Max(t)}
      BY <2>2
    <3>4. new[t \ {Max(t)}] = it[t \ {Max(t)}]
      BY <3>3, Zenon
    <3>5. new[t] = it[t]
      BY <2>2, Zenon
    <3> QED
      BY <3>2, <3>4, <3>5, Zenon
  <2> QED
    BY <2>1, <2>2
<1>5. Eq(new, m)
  BY <1>4, Zenon
<1> QED
  BY <1>1, <1>5

Steps(g, b, s, n) ==
  /\ g[0] = b /\ g[n] = FoldLeft(Take, b, s)
  /\ \A k \in 1..n : g[k] = Take(g[k - 1], s[k])

LEMMA FoldInSteps ==
  ASSUME NEW b, NEW s, NEW n \in Nat, DOMAIN s = 1..n
  PROVE  \E g : Steps(g, b, s, n)
<1> DEFINE Eq(it) == Folds(it, b, s, n)
           fold == CHOOSE it : Eq(it)
           g == [k \in 0..n |-> fold[1..k]]
<1>1. FoldLeft(Take, b, s) = fold[1..n]
  BY Zenon DEF FoldLeft, MapThenFoldSet, Folds, FoldStep
<1>2. Eq(fold)
  <2>1. \E it : Eq(it)
    BY FoldExists, Zenon
  <2> QED
    BY <2>1, Zenon
<1> HIDE DEF fold
<1>3. ASSUME NEW k \in 0..n PROVE g[k] = fold[1..k] /\ fold[1..k] = FoldStep(fold, b, s, 1..k)
  <2>1. 1..k \in SUBSET (1..n)
    OBVIOUS
  <2> QED
    BY <2>1, <1>2, Zenon DEF Folds
<1>4. g[0] = b
  <2>1. 1..0 = {} /\ 0 \in 0..n
    OBVIOUS
  <2> HIDE DEF g
  <2> QED
    BY <2>1, <1>3, Zenon DEF FoldStep
<1>5. ASSUME NEW k \in 1..n PROVE g[k] = Take(g[k - 1], s[k])
  <2>1. k \in 0..n /\ k - 1 \in 0..n /\ k \in Nat /\ k > 0 /\ k \in 1..k
    OBVIOUS
  <2>2. Max(1..k) = k
    BY <2>1, TopOf
  <2>3. (1..k) \ {k} = 1..(k - 1) /\ 1..k # {}
    OBVIOUS
  <2>4. g[k] = FoldStep(fold, b, s, 1..k) /\ g[k - 1] = fold[1..(k - 1)]
    BY <2>1, <1>3
  <2> HIDE DEF g
  <2> QED
    BY <2>2, <2>3, <2>4, Zenon DEF FoldStep
<1>6. g[n] = FoldLeft(Take, b, s)
  <2>1. n \in 0..n
    OBVIOUS
  <2> QED
    BY <2>1, <1>1, <1>3
<1> HIDE DEF g
<1> QED
  BY <1>4, <1>5, <1>6 DEF Steps

(* FlattenSeq in the same way, as the function on the prefixes.            *)
Flattens(f, q, m) == f = [i \in 1..m |-> IF i = 1 THEN q[i] ELSE f[i - 1] \o q[i]]

LEMMA FlattenExists ==
  ASSUME NEW q, NEW n \in Nat
  PROVE  \E f : Flattens(f, q, n)
<1> DEFINE Bad == {m \in Nat : ~\E f : Flattens(f, q, m)}
<1> SUFFICES ASSUME Bad # {} PROVE FALSE
  OBVIOUS
<1>1. PICK m \in Bad : \A j \in Bad : m <= j
  BY LeastNatural
<1>2. m # 0
  <2> DEFINE f == [i \in 1..0 |-> q[i]]
  <2>1. 1..0 = {}
    OBVIOUS
  <2>2. Flattens(f, q, 0)
    BY <2>1, Zenon DEF Flattens
  <2> QED
    BY <2>2, <1>1
<1>3. PICK f : Flattens(f, q, m - 1)
  <2>1. m - 1 \in Nat /\ ~(m <= m - 1)
    BY <1>1, <1>2
  <2>2. m - 1 \notin Bad
    BY <2>1, <1>1
  <2> QED
    BY <2>1, <2>2
<1> DEFINE new == [i \in 1..m |-> IF i = m THEN IF m = 1 THEN q[m] ELSE f[m - 1] \o q[m] ELSE f[i]]
<1>4. ASSUME NEW i \in 1..m
      PROVE  new[i] = IF i = 1 THEN q[i] ELSE new[i - 1] \o q[i]
  <2>1. i # 1 => i - 1 \in 1..m /\ i - 1 # m
    BY <1>1
  <2>2. i # 1 => new[i - 1] = f[i - 1]
    BY <2>1, Zenon
  <2>3. CASE i = m
    BY <2>2, <2>3, Zenon
  <2>4. CASE i # m
    <3>1. i \in 1..(m - 1)
      BY <2>4, <1>1
    <3>2. f[i] = IF i = 1 THEN q[i] ELSE f[i - 1] \o q[i]
      BY <3>1, <1>3, Zenon DEF Flattens
    <3>3. new[i] = f[i]
      BY <2>4, Zenon
    <3> QED
      BY <2>2, <3>2, <3>3, Zenon
  <2> QED
    BY <2>3, <2>4
<1>5. Flattens(new, q, m)
  BY <1>4, Zenon DEF Flattens
<1> QED
  BY <1>1, <1>5

Texts == Seq(Nat)

LEMMA FlattenInSteps ==
  ASSUME NEW q \in Seq(Texts), q # <<>>
  PROVE  \E f : /\ FlattenSeq(q) = f[Len(q)] /\ f[1] = q[1]
                /\ \A i \in 2..Len(q) : f[i] = f[i - 1] \o q[i]
                /\ \A i \in 1..Len(q) : f[i] \in Texts
<1> DEFINE n == Len(q)
           f == CHOOSE f : Flattens(f, q, n)
<1>1. n \in Nat /\ n > 0 /\ \A i \in 1..n : q[i] \in Texts
  OBVIOUS
<1>2. FlattenSeq(q) = f[n]
  <2>1. n # 0
    BY <1>1
  <2> QED
    BY <2>1, Zenon DEF FlattenSeq, Flattens
<1>3. Flattens(f, q, n)
  BY <1>1, FlattenExists, Zenon
<1> HIDE DEF f
<1>4. \A i \in 1..n : f[i] = IF i = 1 THEN q[i] ELSE f[i - 1] \o q[i]
  BY <1>3, Zenon DEF Flattens
<1> HIDE DEF n
<1>5. f[1] = q[1]
  BY <1>1, <1>4
<1>6. \A i \in 2..n : f[i] = f[i - 1] \o q[i]
  <2> SUFFICES ASSUME NEW i \in 2..n PROVE f[i] = f[i - 1] \o q[i]
    OBVIOUS
  <2>1. i \in 1..n /\ i # 1
    BY <1>1
  <2> QED
    BY <2>1, <1>4, Zenon
<1>7. \A i \in 1..n : f[i] \in Texts
  <2> DEFINE Bad == {i \in 1..n : f[i] \notin Texts}
  <2> SUFFICES ASSUME Bad # {} PROVE FALSE
    OBVIOUS
  <2>1. Bad \subseteq Nat
    OBVIOUS
  <2>2. PICK i \in Bad : \A j \in Bad : i <= j
    BY <2>1, LeastNatural
  <2>3. i # 1
    BY <1>1, <1>5, <2>2
  <2>4. i \in 2..n /\ i - 1 \in 1..n /\ ~(i <= i - 1)
    BY <1>1, <2>2, <2>3
  <2>5. f[i - 1] \in Texts
    BY <2>2, <2>4
  <2>6. f[i] = f[i - 1] \o q[i] /\ q[i] \in Texts
    BY <1>1, <1>6, <2>4
  <2>7. f[i] \in Texts
    BY <2>5, <2>6 DEF Texts
  <2> QED
    BY <2>2, <2>7
<1> QED
  BY <1>2, <1>5, <1>6, <1>7 DEF n

LEMMA OneMore ==
  ASSUME NEW S, NEW q \in Seq(S), NEW x \in S
  PROVE  /\ Append(q, x) \in Seq(S) /\ Append(q, x) # <<>>
         /\ Len(q) \in Nat /\ Len(Append(q, x)) = Len(q) + 1
         /\ Append(q, x)[Len(q) + 1] = x
         /\ \A i \in 1..Len(q) : Append(q, x)[i] = q[i] /\ q[i] \in S
OBVIOUS

LEMMA FlattenGrows ==
  ASSUME NEW q \in Seq(Texts), NEW x \in Texts
  PROVE  /\ FlattenSeq(q) \in Texts
         /\ FlattenSeq(Append(q, x)) = FlattenSeq(q) \o x
<1> DEFINE n == Len(q)
           r == Append(q, x)
<1>1. /\ r \in Seq(Texts) /\ r # <<>> /\ n \in Nat /\ Len(r) = n + 1
      /\ r[n + 1] = x /\ \A i \in 1..n : r[i] = q[i]
  <2>1. /\ Append(q, x) \in Seq(Texts) /\ Append(q, x) # <<>>
        /\ Len(q) \in Nat /\ Len(Append(q, x)) = Len(q) + 1
        /\ Append(q, x)[Len(q) + 1] = x
        /\ \A i \in 1..Len(q) : Append(q, x)[i] = q[i] /\ q[i] \in Texts
    BY OneMore
  <2> QED
    BY <2>1, Zenon
<1> HIDE DEF r
<1>2. PICK g : /\ FlattenSeq(r) = g[n + 1] /\ g[1] = r[1]
               /\ \A i \in 2..n + 1 : g[i] = g[i - 1] \o r[i]
               /\ \A i \in 1..n + 1 : g[i] \in Texts
  <2> HIDE DEF n
  <2>1. PICK g : /\ FlattenSeq(r) = g[Len(r)] /\ g[1] = r[1]
                 /\ \A i \in 2..Len(r) : g[i] = g[i - 1] \o r[i]
                 /\ \A i \in 1..Len(r) : g[i] \in Texts
    BY <1>1, FlattenInSteps, Zenon
  <2>2. Len(r) = n + 1
    BY <1>1
  <2> QED
    BY <2>1, <2>2, Zenon
<1>3. CASE q = <<>>
  <2>1. FlattenSeq(q) = <<>> /\ n = 0
    BY <1>3 DEF FlattenSeq
  <2>2. FlattenSeq(r) = x
    BY <1>1, <1>2, <2>1
  <2>3. <<>> \o x = x /\ <<>> \in Texts
    BY DEF Texts
  <2> QED
    BY <2>1, <2>2, <2>3 DEF r
<1>4. CASE q # <<>>
  <2>1. PICK f : /\ FlattenSeq(q) = f[n] /\ f[1] = q[1]
                 /\ \A i \in 2..n : f[i] = f[i - 1] \o q[i]
                 /\ \A i \in 1..n : f[i] \in Texts
    BY <1>4, FlattenInSteps
  <2>0. n > 0
    BY <1>4
  <2> HIDE DEF n
  <2> DEFINE Bad == {i \in 1..n : g[i] # f[i]}
  <2>2. Bad = {}
    <3> SUFFICES ASSUME Bad # {} PROVE FALSE
      OBVIOUS
    <3>1. Bad \subseteq Nat
      OBVIOUS
    <3>2. PICK i \in Bad : \A j \in Bad : i <= j
      BY <3>1, LeastNatural
    <3>3. i # 1
      BY <1>1, <1>2, <2>1, <3>2
    <3>4. i \in 2..n /\ i \in 2..n + 1 /\ i \in 1..n /\ i - 1 \in 1..n /\ ~(i <= i - 1)
      BY <1>1, <3>2, <3>3
    <3>5. g[i - 1] = f[i - 1]
      BY <3>2, <3>4
    <3>6. g[i] = g[i - 1] \o r[i] /\ f[i] = f[i - 1] \o q[i] /\ r[i] = q[i]
      BY <1>1, <1>2, <2>1, <3>4, Zenon
    <3> QED
      BY <3>2, <3>5, <3>6, Zenon
  <2>3. n \in 1..n /\ n + 1 \in 2..n + 1 /\ (n + 1) - 1 = n
    BY <1>1, <2>0
  <2>4. g[n] = f[n] /\ g[n + 1] = g[n] \o x
    BY <1>1, <1>2, <2>2, <2>3
  <2> QED
    BY <1>2, <2>1, <2>3, <2>4 DEF r
<1> QED
  BY <1>3, <1>4

LEMMA FlattenNothing == FlattenSeq(<<>>) = <<>>
BY DEF FlattenSeq

(* The text of the messages, one behind the other.                         *)
LogMessages == [role : {"user", "assistant", "tool"}, of : Texts]
Fold == [messages : Seq(LogMessages), text : Texts, collecting : BOOLEAN]
Of(ms) == [k \in DOMAIN ms |-> ms[k].of]
Told(ms) == FlattenSeq(Of(ms))

LEMMA TextsOf ==
  ASSUME NEW ms \in Seq(LogMessages)
  PROVE  /\ Of(ms) \in Seq(Texts) /\ Len(Of(ms)) = Len(ms)
         /\ \A k \in 1..Len(ms) : Of(ms)[k] = ms[k].of
<1>1. DOMAIN ms = 1..Len(ms) /\ Len(ms) \in Nat /\ \A k \in 1..Len(ms) : ms[k] \in LogMessages
  OBVIOUS
<1>2. \A k \in 1..Len(ms) : ms[k].of \in Texts
  BY <1>1 DEF LogMessages
<1> QED
  BY <1>1, <1>2 DEF Of

LEMMA ToldGrows ==
  ASSUME NEW ms \in Seq(LogMessages), NEW m \in LogMessages
  PROVE  /\ Told(ms) \in Texts /\ Append(ms, m) \in Seq(LogMessages)
         /\ Told(Append(ms, m)) = Told(ms) \o m.of
<1> DEFINE more == Append(ms, m)
<1>1. /\ more \in Seq(LogMessages) /\ Len(more) = Len(ms) + 1 /\ Len(ms) \in Nat
      /\ more[Len(ms) + 1] = m
      /\ \A k \in 1..Len(ms) : more[k] = ms[k] /\ ms[k] \in LogMessages
  BY OneMore
<1>2. m.of \in Texts
  BY DEF LogMessages
<1> HIDE DEF more
<1>3. Of(ms) \in Seq(Texts) /\ Len(Of(ms)) = Len(ms) /\ \A k \in 1..Len(ms) : Of(ms)[k] = ms[k].of
  BY TextsOf
<1>4. /\ Of(more) \in Seq(Texts) /\ Len(Of(more)) = Len(more)
      /\ \A k \in 1..Len(more) : Of(more)[k] = more[k].of
  BY <1>1, TextsOf
<1>5. Of(more) = Append(Of(ms), m.of)
  <2> DEFINE r == Append(Of(ms), m.of)
  <2>1. /\ r \in Seq(Texts) /\ Len(r) = Len(ms) + 1 /\ r[Len(ms) + 1] = m.of
        /\ \A k \in 1..Len(ms) : r[k] = Of(ms)[k]
    <3>1. /\ r \in Seq(Texts) /\ Len(r) = Len(Of(ms)) + 1 /\ r[Len(Of(ms)) + 1] = m.of
          /\ \A k \in 1..Len(Of(ms)) : r[k] = Of(ms)[k]
      BY <1>2, <1>3, OneMore
    <3> QED
      BY <1>3, <3>1
  <2> HIDE DEF r
  <2>2. \A k \in 1..Len(r) : Of(more)[k] = r[k]
    <3> SUFFICES ASSUME NEW k \in 1..Len(r) PROVE Of(more)[k] = r[k]
      OBVIOUS
    <3>1. k \in 1..Len(ms) \/ k = Len(ms) + 1
      BY <1>1, <2>1
    <3>2. Of(more)[k] = more[k].of
      BY <1>1, <1>4, <2>1
    <3> QED
      BY <1>1, <1>3, <2>1, <3>1, <3>2
  <2>3. Len(Of(more)) = Len(r)
    BY <1>1, <1>4, <2>1
  <2> QED
    BY <1>4, <2>1, <2>2, <2>3, SeqEqual DEF r
<1> QED
  BY <1>1, <1>2, <1>3, <1>5, FlattenGrows DEF Told, more

Rising(q) == \A a, b \in DOMAIN q : a < b => q[a] < q[b]

LEMMA RisesFurther ==
  ASSUME NEW q \in Texts, NEW x \in Nat, Rising(q), \A y \in Range(q) : y < x
  PROVE  /\ q \o <<x>> \in Texts /\ Rising(q \o <<x>>)
         /\ Range(q \o <<x>>) = Range(q) \union {x}
<1> DEFINE r == q \o <<x>>
<1>1. /\ r \in Texts /\ Len(r) = Len(q) + 1 /\ Len(q) \in Nat /\ r[Len(q) + 1] = x
      /\ \A k \in 1..Len(q) : r[k] = q[k] /\ q[k] \in Nat
      /\ DOMAIN r = 1..Len(q) + 1 /\ DOMAIN q = 1..Len(q)
  BY DEF Texts
<1> HIDE DEF r
<1>2. Range(r) = Range(q) \union {x}
  BY <1>1 DEF Range
<1>3. \A k \in 1..Len(q) : q[k] < x
  BY <1>1 DEF Range
<1>4. Rising(r)
  <2> SUFFICES ASSUME NEW a \in 1..Len(q) + 1, NEW b \in 1..Len(q) + 1, a < b PROVE r[a] < r[b]
    BY <1>1 DEF Rising
  <2>1. a \in 1..Len(q) /\ (b \in 1..Len(q) \/ b = Len(q) + 1)
    BY <1>1
  <2> QED
    BY <1>1, <1>3, <2>1 DEF Rising
<1> QED
  BY <1>1, <1>2, <1>4 DEF r

(* ExtractHistory is collecting after the first k events.                  *)
Collecting(s, k) ==
  \A d \in 1..k : s[d].type = "done" => \E r \in d + 1 .. k : s[r].type \in {"started", "result"}

-----------------------------------------------------------------------------
(* What the fold has made of the first k events of a log: all it heard, in *)
(* order, is in the messages or in the text under way; the text came after *)
(* the last event that ends a message, the messages before; and no message *)
(* is cut by such an event.                                                *)
Ends(s, e) == s[e].type \in Endings
Heard(s, k) == s[k].type \in Spoken /\ (s[k].type = "delta" => Collecting(s, k - 1))
HeardBy(s, k) == {s[j].n : j \in {j \in 1..k : Heard(s, j)}}

Pieces(ms, s, k) ==
  \A m \in DOMAIN ms :
    /\ \A a \in Range(ms[m].of) : \E j \in 1..k : a = s[j].n
    /\ \A e \in 1..k : Ends(s, e) =>
         ~\E a, b \in Range(ms[m].of) : a < s[e].n /\ s[e].n < b

FoldInv(h, s, k) ==
  /\ h \in Fold
  /\ h.collecting = Collecting(s, k)
  /\ Rising(Told(h.messages) \o h.text)
  /\ Range(Told(h.messages) \o h.text) = HeardBy(s, k)
  /\ \A x \in Range(h.text), e \in 1..k : Ends(s, e) => s[e].n < x
  /\ \A x \in Range(Told(h.messages)) : \E e \in 1..k : Ends(s, e) /\ x <= s[e].n
  /\ Pieces(h.messages, s, k)

(* Events whose stamps rise, as those of a log do once they are numbered.  *)
Sound(s) ==
  /\ s \in Seq(LogEvents)
  /\ \A a, b \in 1..Len(s) : a < b => s[a].n < s[b].n

LEMMA Joint ==
  ASSUME NEW p \in Texts, NEW q \in Texts
  PROVE  /\ p \o q \in Texts /\ p \o <<>> = p
         /\ \A y \in Nat : (p \o q) \o <<y>> = p \o Append(q, y)
         /\ Range(p \o q) = Range(p) \union Range(q)
         /\ Rising(p \o q) => Rising(p)
         /\ \A y \in Range(p) : y \in Nat
<1>1. /\ p \o q \in Texts /\ Len(p \o q) = Len(p) + Len(q) /\ Len(p) \in Nat /\ Len(q) \in Nat
      /\ \A i \in 1..Len(p) : (p \o q)[i] = p[i] /\ p[i] \in Nat
      /\ \A i \in 1..Len(q) : (p \o q)[Len(p) + i] = q[i]
      /\ DOMAIN (p \o q) = 1..Len(p) + Len(q) /\ DOMAIN p = 1..Len(p) /\ DOMAIN q = 1..Len(q)
  BY DEF Texts
<1>2. p \o <<>> = p /\ \A y \in Nat : (p \o q) \o <<y>> = p \o Append(q, y)
  <2>1. p \in Seq(Nat) /\ q \in Seq(Nat)
    BY DEF Texts
  <2>2. p \o <<>> = p
    BY <2>1, ConcatEmptySeq
  <2>3. ASSUME NEW y \in Nat PROVE (p \o q) \o <<y>> = p \o Append(q, y)
    <3>1. <<y>> \in Seq(Nat) /\ Append(q, y) = q \o <<y>>
      BY <2>1, AppendIsConcat
    <3>2. (p \o q) \o <<y>> = p \o (q \o <<y>>)
      BY <2>1, <3>1, ConcatAssociative
    <3> QED
      BY <3>1, <3>2
  <2> QED
    BY <2>2, <2>3
<1> DEFINE r == p \o q
<1>3. Range(r) = Range(p) \union Range(q)
  <2>1. ASSUME NEW x \in Range(r) PROVE x \in Range(p) \union Range(q)
    <3>1. PICK i \in 1..Len(p) + Len(q) : x = r[i]
      BY <1>1, Zenon DEF Range
    <3>2. CASE i <= Len(p)
      BY <1>1, <3>1, <3>2 DEF Range
    <3>3. CASE ~(i <= Len(p))
      <4>1. i - Len(p) \in 1..Len(q) /\ Len(p) + (i - Len(p)) = i
        BY <1>1, <3>3
      <4>2. x = q[i - Len(p)]
        BY <1>1, <3>1, <4>1
      <4> QED
        BY <1>1, <4>1, <4>2 DEF Range
    <3> QED
      BY <3>2, <3>3
  <2>2. ASSUME NEW x \in Range(p) PROVE x \in Range(r)
    <3>1. PICK i \in 1..Len(p) : x = p[i]
      BY <1>1, Zenon DEF Range
    <3>2. i \in 1..Len(p) + Len(q) /\ x = r[i]
      BY <1>1, <3>1
    <3> QED
      BY <1>1, <3>2, Zenon DEF Range
  <2>3. ASSUME NEW x \in Range(q) PROVE x \in Range(r)
    <3>1. PICK i \in 1..Len(q) : x = q[i]
      BY <1>1, Zenon DEF Range
    <3>2. Len(p) + i \in 1..Len(p) + Len(q) /\ x = r[Len(p) + i]
      BY <1>1, <3>1
    <3> QED
      BY <1>1, <3>2, Zenon DEF Range
  <2> QED
    BY <2>1, <2>2, <2>3
<1>4. Rising(r) => Rising(p)
  <2> SUFFICES ASSUME Rising(r), NEW a \in 1..Len(p), NEW b \in 1..Len(p), a < b PROVE p[a] < p[b]
    BY <1>1, Zenon DEF Rising
  <2>1. a \in DOMAIN r /\ b \in DOMAIN r /\ r[a] = p[a] /\ r[b] = p[b]
    BY <1>1
  <2> QED
    BY <2>1 DEF Rising
<1>5. \A y \in Range(p) : y \in Nat
  BY <1>1 DEF Range
<1> QED
  BY <1>1, <1>2, <1>3, <1>4, <1>5

LEMMA FlushKeeps ==
  ASSUME NEW s, NEW k \in Nat, NEW h, FoldInv(h, s, k),
         \A j \in 1..k : s[j].n \in Nat
  PROVE  /\ Flushed(h) \in Fold /\ Flushed(h).text = <<>>
         /\ Flushed(h).collecting = h.collecting
         /\ Told(Flushed(h).messages) = Told(h.messages) \o h.text
         /\ Pieces(Flushed(h).messages, s, k)
<1> DEFINE ms == h.messages
           m == [role |-> "assistant", of |-> h.text]
<1>1. h \in Fold /\ ms \in Seq(LogMessages) /\ h.text \in Texts /\ m \in LogMessages /\ m.of = h.text
      /\ h.collecting \in BOOLEAN
  <2>1. h \in Fold
    BY DEF FoldInv
  <2>2. ms \in Seq(LogMessages) /\ h.text \in Texts /\ h.collecting \in BOOLEAN
    BY <2>1 DEF Fold
  <2>3. m \in LogMessages /\ m.of = h.text
    BY <2>2 DEF LogMessages
  <2> QED
    BY <2>1, <2>2, <2>3
<1>2. CASE h.text = <<>>
  <2>1. Flushed(h) = h
    BY <1>2 DEF Flushed
  <2>2. Told(ms) \in Texts
    BY <1>1, ToldGrows
  <2>3. Told(ms) \o h.text = Told(ms)
    BY <1>2, <2>2, Joint
  <2> QED
    BY <1>1, <1>2, <2>1, <2>3 DEF FoldInv
<1>3. CASE h.text # <<>>
  <2>1. Flushed(h) = [messages |-> Append(ms, m), text |-> <<>>, collecting |-> h.collecting]
    BY <1>1, <1>3 DEF Flushed, Fold
  <2>2. Told(Append(ms, m)) = Told(ms) \o h.text /\ Append(ms, m) \in Seq(LogMessages)
    BY <1>1, ToldGrows, Zenon
  <2>3. <<>> \in Texts
    BY DEF Texts
  <2>4. Pieces(Append(ms, m), s, k)
    <3> DEFINE more == Append(ms, m)
    <3>1. /\ Len(ms) \in Nat /\ DOMAIN more = 1..Len(ms) + 1 /\ DOMAIN ms = 1..Len(ms)
          /\ more[Len(ms) + 1] = m /\ \A i \in 1..Len(ms) : more[i] = ms[i]
      BY <1>1, OneMore
    <3> HIDE DEF more, ms, m
    <3>2. ASSUME NEW i \in DOMAIN more, i # Len(ms) + 1
          PROVE  i \in DOMAIN ms /\ more[i] = ms[i]
      BY <3>1, <3>2
    <3>3. /\ \A a \in Range(m.of) : \E j \in 1..k : a = s[j].n
          /\ \A e \in 1..k : Ends(s, e) =>
               ~\E a, b \in Range(m.of) : a < s[e].n /\ s[e].n < b
      <4>1. Range(h.text) \subseteq Range(Told(h.messages) \o h.text)
        <5>1. Told(ms) \in Texts
          BY <1>1, ToldGrows
        <5> QED
          BY <1>1, <5>1, Joint DEF ms
      <4>2. ASSUME NEW a \in Range(m.of) PROVE \E j \in 1..k : a = s[j].n
        BY <1>1, <4>1 DEF FoldInv, HeardBy
      <4>3. ASSUME NEW e \in 1..k, Ends(s, e), NEW a \in Range(m.of)
            PROVE  ~(a < s[e].n)
        <5>1. s[e].n < a
          BY <1>1, <4>3 DEF FoldInv
        <5>2. a \in Nat /\ s[e].n \in Nat
          BY <4>2
        <5> QED
          BY <5>1, <5>2
      <4> QED
        BY <4>2, <4>3
    <3>4. Pieces(ms, s, k)
      BY DEF FoldInv, ms
    <3> SUFFICES ASSUME NEW i \in DOMAIN more
                 PROVE  /\ \A a \in Range(more[i].of) : \E j \in 1..k : a = s[j].n
                        /\ \A e \in 1..k : Ends(s, e) =>
                             ~\E a, b \in Range(more[i].of) : a < s[e].n /\ s[e].n < b
      BY Zenon DEF Pieces, more
    <3>5. CASE i = Len(ms) + 1
      BY <3>1, <3>3, <3>5, Zenon
    <3>6. CASE i # Len(ms) + 1
      <4>1. i \in DOMAIN ms /\ more[i] = ms[i]
        BY <3>2, <3>6
      <4> QED
        BY <3>4, <4>1, Zenon DEF Pieces
    <3> QED
      BY <3>5, <3>6, Zenon
  <2> HIDE DEF ms, m
  <2> QED
    BY <1>1, <2>1, <2>2, <2>3, <2>4 DEF Fold, ms
<1> QED
  BY <1>2, <1>3

LEMMA CollectingNext ==
  ASSUME NEW s, NEW k \in Nat
  PROVE  Collecting(s, k + 1) = CASE s[k + 1].type = "done" -> FALSE
                                  [] s[k + 1].type \in {"started", "result"} -> TRUE
                                  [] OTHER -> Collecting(s, k)
<1>1. k + 1 \in 1..k + 1 /\ \A d \in 1..k + 1 : d \in 1..k \/ d = k + 1
  OBVIOUS
<1>2. \A d \in 1..k : d \in 1..k + 1 /\ k + 1 \in d + 1 .. k + 1
  OBVIOUS
<1>3. ASSUME s[k + 1].type = "done" PROVE ~Collecting(s, k + 1)
  <2>1. (k + 1) + 1 .. k + 1 = {}
    OBVIOUS
  <2> QED
    BY <1>1, <1>3, <2>1, Zenon DEF Collecting
<1>4. ASSUME s[k + 1].type \in {"started", "result"} PROVE Collecting(s, k + 1)
  BY <1>1, <1>2, <1>4 DEF Collecting
<1>5. ASSUME s[k + 1].type \notin {"done", "started", "result"}
      PROVE  Collecting(s, k + 1) <=> Collecting(s, k)
  <2>1. \A d \in 1..k : \A r \in d + 1 .. k + 1 : r \in d + 1 .. k \/ r = k + 1
    OBVIOUS
  <2>2. \A d \in 1..k : \A r \in d + 1 .. k : r \in d + 1 .. k + 1
    OBVIOUS
  <2> QED
    BY <1>1, <1>2, <1>5, <2>1, <2>2 DEF Collecting
<1>6. Collecting(s, k + 1) \in BOOLEAN /\ Collecting(s, k) \in BOOLEAN
  BY DEF Collecting
<1> QED
  BY <1>3, <1>4, <1>5, <1>6

LEMMA PiecesLast ==
  ASSUME NEW s, NEW k \in Nat, NEW ms, Pieces(ms, s, k), s[k + 1].n \in Nat,
         \A j \in 1..k : s[j].n \in Nat /\ s[j].n < s[k + 1].n
  PROVE  Pieces(ms, s, k + 1)
<1> SUFFICES ASSUME NEW m \in DOMAIN ms
             PROVE  /\ \A a \in Range(ms[m].of) : \E j \in 1..k + 1 : a = s[j].n
                    /\ \A e \in 1..k + 1 : Ends(s, e) =>
                         ~\E a, b \in Range(ms[m].of) : a < s[e].n /\ s[e].n < b
  BY Zenon DEF Pieces
<1>1. \A j \in 1..k : j \in 1..k + 1
  OBVIOUS
<1>2. /\ \A a \in Range(ms[m].of) : \E j \in 1..k : a = s[j].n
      /\ \A e \in 1..k : Ends(s, e) =>
           ~\E a, b \in Range(ms[m].of) : a < s[e].n /\ s[e].n < b
  BY Zenon DEF Pieces
<1>3. ASSUME NEW b \in Range(ms[m].of) PROVE ~(s[k + 1].n < b)
  <2>1. PICK j \in 1..k : b = s[j].n
    BY <1>2, Zenon
  <2>2. b \in Nat /\ b < s[k + 1].n
    BY <2>1
  <2> QED
    BY <2>2
<1>4. \A e \in 1..k + 1 : e \in 1..k \/ e = k + 1
  OBVIOUS
<1> QED
  BY <1>1, <1>2, <1>3, <1>4, Zenon

LEMMA PiecesMore ==
  ASSUME NEW s, NEW k \in Nat, NEW ms \in Seq(LogMessages), Pieces(ms, s, k),
         NEW m \in LogMessages, \E j \in 1..k : m.of = <<s[j].n>>,
         \A l \in 1..k : s[l].n \in Nat
  PROVE  Pieces(Append(ms, m), s, k)
<1>0. PICK j \in 1..k : m.of = <<s[j].n>>
  OBVIOUS
<1> DEFINE more == Append(ms, m)
<1>1. /\ Len(ms) \in Nat /\ DOMAIN more = 1..Len(ms) + 1 /\ DOMAIN ms = 1..Len(ms)
      /\ more[Len(ms) + 1] = m /\ \A i \in 1..Len(ms) : more[i] = ms[i]
  BY OneMore
<1> HIDE DEF more
<1> SUFFICES ASSUME NEW i \in DOMAIN more
             PROVE  /\ \A a \in Range(more[i].of) : \E l \in 1..k : a = s[l].n
                    /\ \A e \in 1..k : Ends(s, e) =>
                         ~\E a, b \in Range(more[i].of) : a < s[e].n /\ s[e].n < b
  BY Zenon DEF Pieces, more
<1>2. CASE i = Len(ms) + 1
  <2>1. Range(more[i].of) = {s[j].n}
    BY <1>0, <1>1, <1>2 DEF Range
  <2>2. ASSUME NEW e \in 1..k, NEW a \in {s[j].n}, NEW b \in {s[j].n}
        PROVE  ~(a < s[e].n /\ s[e].n < b)
    OBVIOUS
  <2> QED
    BY <2>1, <2>2
<1>3. CASE i # Len(ms) + 1
  <2>1. i \in DOMAIN ms /\ more[i] = ms[i]
    BY <1>1, <1>3
  <2> QED
    BY <2>1, Zenon DEF Pieces
<1> QED
  BY <1>2, <1>3

LEMMA NextEvent ==
  ASSUME NEW s, Sound(s), NEW k \in Nat, k + 1 \in 1..Len(s)
  PROVE  /\ s[k + 1] \in LogEvents /\ s[k + 1].n \in Nat /\ s[k + 1].type \in EventTypes
         /\ \A j \in 1..k : s[j].n \in Nat /\ s[j].n < s[k + 1].n
         /\ \A x \in HeardBy(s, k) : x \in Nat /\ x < s[k + 1].n
         /\ HeardBy(s, k + 1) = IF Heard(s, k + 1) THEN HeardBy(s, k) \union {s[k + 1].n}
                                                          ELSE HeardBy(s, k)
<1>1. s \in Seq(LogEvents) /\ Len(s) \in Nat /\ \A j \in 1..Len(s) : s[j] \in LogEvents
  BY DEF Sound
<1>2. \A j \in 1..Len(s) : s[j].n \in Nat /\ s[j].type \in EventTypes
  BY <1>1 DEF LogEvents
<1>3. \A j \in 1..k : j \in 1..Len(s) /\ j < k + 1
  BY <1>1
<1>4. \A j \in 1..k : s[j].n \in Nat /\ s[j].n < s[k + 1].n
  BY <1>2, <1>3 DEF Sound
<1>5. \A x \in HeardBy(s, k) : x \in Nat /\ x < s[k + 1].n
  BY <1>4 DEF HeardBy
<1>6. k + 1 \in 1..k + 1 /\ \A j \in 1..k : j \in 1..k + 1
  OBVIOUS
<1>7. \A j \in 1..k + 1 : j \in 1..k \/ j = k + 1
  OBVIOUS
<1>8. HeardBy(s, k + 1) = IF Heard(s, k + 1) THEN HeardBy(s, k) \union {s[k + 1].n}
                                                     ELSE HeardBy(s, k)
  BY <1>6, <1>7, Zenon DEF HeardBy
<1> QED
  BY <1>1, <1>2, <1>4, <1>5, <1>8

LEMMA ToldIsText == ASSUME NEW ms \in Seq(LogMessages) PROVE Told(ms) \in Texts
<1>1. Of(ms) \in Seq(Texts)
  BY TextsOf
<1>2. <<>> \in Texts
  BY DEF Texts
<1> QED
  BY <1>1, <1>2, FlattenGrows, Zenon DEF Told

State(ms, text, c) == [messages |-> ms, text |-> text, collecting |-> c]

Switch(F, x) == [F EXCEPT !.collecting = x]

LEMMA MessagesOf ==
  ASSUME NEW ms, NEW text, NEW c PROVE State(ms, text, c).messages = ms
BY DEF State

LEMMA TextOf ==
  ASSUME NEW ms, NEW text, NEW c PROVE State(ms, text, c).text = text
BY DEF State

LEMMA CollectingOf ==
  ASSUME NEW ms, NEW text, NEW c PROVE State(ms, text, c).collecting = c
BY DEF State

LEMMA Switched ==
  ASSUME NEW ms, NEW text, NEW c, NEW x
  PROVE  Switch(State(ms, text, c), x) = State(ms, text, x)
BY DEF State, Switch

LEMMA MoreOf ==
  ASSUME NEW ms, NEW text, NEW c, NEW x
  PROVE  [State(ms, text, c) EXCEPT !.messages = x] = State(x, text, c)
BY DEF State

(* Take, with the text flushed.                                            *)
LEMMA TakeEnds ==
  ASSUME NEW h, NEW e, Flushed(h) \in Fold, Flushed(h).text = <<>>
  PROVE  /\ e.type = "started" => Take(h, e) = State(Flushed(h).messages, <<>>, TRUE)
         /\ e.type = "done" => Take(h, e) = State(Flushed(h).messages, <<>>, FALSE)
         /\ e.type = "prompt" =>
              Take(h, e) = State(Append(Flushed(h).messages, [role |-> "user", of |-> <<e.n>>]),
                                 <<>>, Flushed(h).collecting)
         /\ e.type = "result" =>
              Take(h, e) = State(Append(Flushed(h).messages, [role |-> "tool", of |-> <<e.n>>]),
                                 <<>>, TRUE)
<1>0. PICK F : F = Flushed(h)
  OBVIOUS
<1>b. PICK ms : ms = Flushed(h).messages
  OBVIOUS
<1>c. PICK c : c = Flushed(h).collecting
  OBVIOUS
<1>a. F = State(ms, <<>>, c)
  BY <1>0, <1>b, <1>c DEF Fold, State
<1> SUFFICES
      /\ e.type = "started" => Take(h, e) = State(ms, <<>>, TRUE)
      /\ e.type = "done" => Take(h, e) = State(ms, <<>>, FALSE)
      /\ e.type = "prompt" =>
           Take(h, e) = State(Append(ms, [role |-> "user", of |-> <<e.n>>]), <<>>, c)
      /\ e.type = "result" =>
           Take(h, e) = State(Append(ms, [role |-> "tool", of |-> <<e.n>>]), <<>>, TRUE)
  BY <1>b, <1>c
<1>1. ASSUME NEW role
      PROVE  Said(h, role, e) = State(Append(ms, [role |-> role, of |-> <<e.n>>]), <<>>, c)
  <2>1. PICK more : more = Append(ms, [role |-> role, of |-> <<e.n>>])
    OBVIOUS
  <2>2. Said(h, role, e) = [F EXCEPT !.messages = Append(F.messages, [role |-> role, of |-> <<e.n>>])]
    BY <1>0, Zenon DEF Said
  <2>3. F.messages = ms
    BY <1>a, MessagesOf, Zenon
  <2>4. Said(h, role, e) = [F EXCEPT !.messages = more]
    BY <2>1, <2>2, <2>3, Zenon
  <2>5. [F EXCEPT !.messages = more] = State(more, <<>>, c)
    BY <1>a, MoreOf, SMT
  <2> QED
    BY <2>1, <2>4, <2>5, Zenon
<1>2. Switch(F, TRUE) = State(ms, <<>>, TRUE) /\ Switch(F, FALSE) = State(ms, <<>>, FALSE)
  BY <1>a, Switched, Zenon
<1>3. CASE e.type = "started"
  <2>1. Take(h, e) = Switch(F, TRUE)
    BY <1>0, <1>3 DEF Take, Switch
  <2> QED
    BY <1>2, <1>3, <2>1, Zenon
<1>4. CASE e.type = "done"
  <2>1. Take(h, e) = Switch(F, FALSE)
    BY <1>0, <1>4 DEF Take, Switch
  <2> QED
    BY <1>2, <1>4, <2>1, Zenon
<1>5. CASE e.type = "prompt"
  <2>1. Take(h, e) = Said(h, "user", e)
    BY <1>5 DEF Take
  <2> QED
    BY <1>1, <1>5, <2>1
<1>6. CASE e.type = "result"
  <2>1. PICK S : S = Said(h, "tool", e)
    OBVIOUS
  <2>2. PICK more : more = Append(ms, [role |-> "tool", of |-> <<e.n>>])
    OBVIOUS
  <2>3. S = State(more, <<>>, c)
    BY <1>1, <2>1, <2>2, Zenon
  <2>4. Take(h, e) = Switch(S, TRUE)
    BY <1>6, <2>1 DEF Take, Switch
  <2>5. Switch(S, TRUE) = State(more, <<>>, TRUE)
    BY <2>3, Switched, Zenon
  <2> QED
    BY <1>6, <2>2, <2>4, <2>5, Zenon
<1> QED
  BY <1>3, <1>4, <1>5, <1>6

LEMMA TakeText ==
  ASSUME NEW ms, NEW text, NEW e, e.type = "delta"
  PROVE  Take(State(ms, text, TRUE), e) = State(ms, Append(text, e.n), TRUE)
BY DEF Take, State

LEMMA LongerText ==
  ASSUME NEW q \in Texts, NEW y \in Nat
  PROVE  Append(q, y) \in Texts /\ Range(Append(q, y)) = Range(q) \union {y}
<1>1. /\ Append(q, y) \in Seq(Nat) /\ Len(q) \in Nat /\ Append(q, y)[Len(q) + 1] = y
      /\ \A i \in 1..Len(q) : Append(q, y)[i] = q[i]
      /\ DOMAIN q = 1..Len(q) /\ DOMAIN Append(q, y) = 1..Len(q) + 1
  BY DEF Texts
<1> QED
  BY <1>1 DEF Texts, Range

(* An event that ends a message.                                           *)
LEMMA EndingKeeps ==
  ASSUME NEW s, Sound(s), NEW k \in Nat, k + 1 \in 1..Len(s), Ends(s, k + 1),
         NEW ms \in Seq(LogMessages), Rising(Told(ms)), Range(Told(ms)) = HeardBy(s, k + 1),
         Pieces(ms, s, k + 1)
  PROVE  FoldInv(State(ms, <<>>, Collecting(s, k + 1)), s, k + 1)
<1> DEFINE h == State(ms, <<>>, Collecting(s, k + 1))
<1>1. Told(ms) \in Texts
  BY ToldIsText
<1>2. Told(ms) \o <<>> = Told(ms) /\ <<>> \in Texts
  BY <1>1, Joint DEF Texts
<1>3. h \in Fold
  BY <1>2 DEF Fold, Collecting, State
<1>4. /\ h.messages = ms /\ h.text = <<>> /\ h.collecting = Collecting(s, k + 1)
      /\ Range(h.text) = {}
  <2>1. h.messages = ms
    BY MessagesOf, Zenon
  <2>2. h.text = <<>>
    BY TextOf, Zenon
  <2>3. h.collecting = Collecting(s, k + 1)
    BY CollectingOf, Zenon
  <2> QED
    BY <2>1, <2>2, <2>3 DEF Range
<1>5. ASSUME NEW x \in Range(Told(ms)) PROVE Ends(s, k + 1) /\ x <= s[k + 1].n
  <2>1. x \in HeardBy(s, k) \/ x = s[k + 1].n
    <3>1. HeardBy(s, k + 1) = IF Heard(s, k + 1) THEN HeardBy(s, k) \union {s[k + 1].n}
                                                        ELSE HeardBy(s, k)
      BY NextEvent, Zenon
    <3> QED
      BY <3>1
  <2>2. s[k + 1].n \in Nat /\ \A y \in HeardBy(s, k) : y \in Nat /\ y < s[k + 1].n
    BY NextEvent
  <2> QED
    BY <2>1, <2>2
<1>6. k + 1 \in 1..k + 1
  OBVIOUS
<1>7. \A x \in Range(Told(ms)) : \E e \in 1..k + 1 : Ends(s, e) /\ x <= s[e].n
  BY <1>5, <1>6
<1> HIDE DEF h
<1> QED
  BY <1>2, <1>3, <1>4, <1>7, Zenon DEF FoldInv, h

LEMMA FoldKeeps ==
  ASSUME NEW s, Sound(s), NEW k \in Nat, k + 1 \in 1..Len(s), NEW h, FoldInv(h, s, k)
  PROVE  FoldInv(Take(h, s[k + 1]), s, k + 1)
<1> DEFINE e == s[k + 1]
           t == e.type
           told == Told(h.messages) \o h.text
<1>1. /\ e \in LogEvents /\ e.n \in Nat /\ t \in EventTypes
      /\ \A j \in 1..k : s[j].n \in Nat /\ s[j].n < e.n
      /\ \A x \in HeardBy(s, k) : x \in Nat /\ x < e.n
      /\ HeardBy(s, k + 1) = IF Heard(s, k + 1) THEN HeardBy(s, k) \union {e.n} ELSE HeardBy(s, k)
  BY NextEvent, Zenon
<1>2. /\ h.messages \in Seq(LogMessages) /\ h.text \in Texts
      /\ h = State(h.messages, h.text, Collecting(s, k))
  BY DEF FoldInv, Fold, State
<1>3. told \in Texts /\ Told(h.messages) \in Texts
  BY <1>2, ToldIsText, Joint
<1>4. Rising(told) /\ Range(told) = HeardBy(s, k)
  BY DEF FoldInv
<1>5. /\ told \o <<e.n>> \in Texts /\ Rising(told \o <<e.n>>)
      /\ Range(told \o <<e.n>>) = HeardBy(s, k) \union {e.n}
  BY <1>1, <1>3, <1>4, RisesFurther
<1>6. Pieces(h.messages, s, k + 1)
  <2>1. Pieces(h.messages, s, k)
    BY DEF FoldInv
  <2> QED
    BY <1>1, <2>1, PiecesLast
<1>7. /\ Flushed(h) = State(Flushed(h).messages, <<>>, Collecting(s, k))
      /\ Flushed(h).messages \in Seq(LogMessages)
      /\ Told(Flushed(h).messages) = told
      /\ Pieces(Flushed(h).messages, s, k + 1)
  <2>1. /\ Flushed(h) \in Fold /\ Flushed(h).text = <<>>
        /\ Flushed(h).collecting = h.collecting
        /\ Told(Flushed(h).messages) = told
        /\ Pieces(Flushed(h).messages, s, k)
    BY <1>1, FlushKeeps
  <2>2. h.collecting = Collecting(s, k)
    BY DEF FoldInv
  <2>3. Pieces(Flushed(h).messages, s, k + 1)
    BY <1>1, <2>1, PiecesLast
  <2> QED
    BY <2>1, <2>2, <2>3 DEF Fold, State
<1> DEFINE ms == Flushed(h).messages
<1>d. Flushed(h) \in Fold /\ Flushed(h).text = <<>> /\ Flushed(h).collecting = Collecting(s, k)
  BY <1>1, FlushKeeps DEF FoldInv
<1>e. /\ t = "started" => Take(h, e) = State(ms, <<>>, TRUE)
      /\ t = "done" => Take(h, e) = State(ms, <<>>, FALSE)
      /\ t = "prompt" =>
           Take(h, e) = State(Append(ms, [role |-> "user", of |-> <<e.n>>]), <<>>, Collecting(s, k))
      /\ t = "result" =>
           Take(h, e) = State(Append(ms, [role |-> "tool", of |-> <<e.n>>]), <<>>, TRUE)
  BY <1>d, TakeEnds
<1>a. Ends(s, k + 1) <=> t \in Endings
  BY DEF Ends
<1>h. /\ t \in {"prompt", "result"} => Heard(s, k + 1)
      /\ t = "delta" => (Heard(s, k + 1) <=> Collecting(s, k))
      /\ t \notin {"prompt", "result", "delta"} => ~Heard(s, k + 1)
  <2>1. (k + 1) - 1 = k
    OBVIOUS
  <2> QED
    BY <2>1 DEF Heard, Spoken
<1>8. CASE t \in {"started", "done"}
  <2>1. Rising(Told(ms)) /\ Range(Told(ms)) = HeardBy(s, k + 1)
    BY <1>1, <1>4, <1>7, <1>8, <1>h
  <2>2. Take(h, e) = State(ms, <<>>, Collecting(s, k + 1))
    <3>1. CASE t = "started"
      <4>1. Collecting(s, k + 1) = TRUE
        BY <3>1, CollectingNext
      <4>2. Take(h, e) = State(ms, <<>>, TRUE)
        BY <1>e, <3>1
      <4> QED
        BY <4>1, <4>2, Zenon
    <3>2. CASE t = "done"
      <4>1. Collecting(s, k + 1) = FALSE
        BY <3>2, CollectingNext
      <4>2. Take(h, e) = State(ms, <<>>, FALSE)
        BY <1>e, <3>2
      <4> QED
        BY <4>1, <4>2, Zenon
    <3> QED
      BY <1>8, <3>1, <3>2
  <2>3. Ends(s, k + 1)
    BY <1>8, <1>a DEF Endings
  <2> QED
    BY <1>7, <2>1, <2>2, <2>3, EndingKeeps
<1>9. CASE t \in {"prompt", "result"}
  <2> DEFINE role == IF t = "prompt" THEN "user" ELSE "tool"
             m == [role |-> role, of |-> <<e.n>>]
             more == Append(ms, m)
  <2>1. m \in LogMessages /\ m.of = <<e.n>>
    BY <1>1 DEF LogMessages, Texts
  <2>2. more \in Seq(LogMessages) /\ Told(more) = told \o <<e.n>>
    BY <1>7, <2>1, ToldGrows
  <2>3. Take(h, e) = State(more, <<>>, Collecting(s, k + 1))
    <3>1. CASE t = "prompt"
      <4>1. Collecting(s, k + 1) = Collecting(s, k) /\ role = "user"
        BY <3>1, CollectingNext
      <4>2. Take(h, e) = State(Append(ms, [role |-> "user", of |-> <<e.n>>]), <<>>, Collecting(s, k))
        BY <1>e, <3>1
      <4> QED
        BY <4>1, <4>2, Zenon
    <3>2. CASE t = "result"
      <4>1. Collecting(s, k + 1) = TRUE /\ role = "tool"
        BY <3>2, CollectingNext
      <4>2. Take(h, e) = State(Append(ms, [role |-> "tool", of |-> <<e.n>>]), <<>>, TRUE)
        BY <1>e, <3>2
      <4> QED
        BY <4>1, <4>2, Zenon
    <3> QED
      BY <1>9, <3>1, <3>2
  <2>4. Pieces(more, s, k + 1)
    <3>1. k + 1 \in 1..k + 1 /\ \A l \in 1..k + 1 : s[l].n \in Nat
      BY <1>1
    <3>2. ms \in Seq(LogMessages) /\ Pieces(ms, s, k + 1)
      BY <1>7
    <3>3. m \in LogMessages /\ \E j \in 1..k + 1 : m.of = <<s[j].n>>
      BY <2>1, <3>1
    <3>4. k + 1 \in Nat
      OBVIOUS
    <3> HIDE DEF ms, m, e, t
    <3> QED
      BY <3>1, <3>2, <3>3, <3>4, PiecesMore, Zenon DEF more
  <2>5. Ends(s, k + 1) /\ Rising(Told(more)) /\ Range(Told(more)) = HeardBy(s, k + 1)
    BY <1>1, <1>5, <1>9, <1>a, <1>h, <2>2 DEF Endings
  <2> HIDE DEF more
  <2> QED
    BY <2>2, <2>3, <2>4, <2>5, EndingKeeps
<1>b. /\ k + 1 \in 1..k + 1 /\ \A j \in 1..k : j \in 1..k + 1
      /\ \A j \in 1..k + 1 : j \in 1..k \/ j = k + 1
  OBVIOUS
<1>c. \A x \in Range(Told(h.messages)) : \E d \in 1..k + 1 : Ends(s, d) /\ x <= s[d].n
  BY <1>b, Zenon DEF FoldInv
<1>10. CASE t = "delta" /\ Collecting(s, k)
  <2>1. Collecting(s, k) /\ Collecting(s, k + 1)
    BY <1>10, CollectingNext
  <2> DEFINE text == Append(h.text, e.n)
             new == State(h.messages, text, Collecting(s, k + 1))
  <2>2. Take(h, e) = new
    <3>1. h.collecting = TRUE /\ Collecting(s, k) = TRUE /\ Collecting(s, k + 1) = TRUE
      BY <1>2, <2>1 DEF FoldInv, Collecting
    <3>2. h = State(h.messages, h.text, TRUE)
      BY <1>2, <3>1, Zenon
    <3>3. Take(h, e) = State(h.messages, text, TRUE)
      <4>1. PICK p : p = h.messages
        OBVIOUS
      <4>2. PICK q : q = h.text
        OBVIOUS
      <4>3. Take(State(p, q, TRUE), e) = State(p, Append(q, e.n), TRUE)
        BY <1>10, TakeText, Zenon
      <4> QED
        BY <3>2, <4>1, <4>2, <4>3
    <3> QED
      BY <3>1, <3>3, Zenon
  <2>3. text \in Texts /\ Range(text) = Range(h.text) \union {e.n}
    BY <1>1, <1>2, LongerText
  <2>4. Told(h.messages) \o text = told \o <<e.n>>
    BY <1>1, <1>2, <1>3, Joint
  <2>5. ASSUME NEW x \in Range(text), NEW d \in 1..k + 1, Ends(s, d) PROVE s[d].n < x
    <3>1. d \in 1..k
      BY <1>10, <1>a, <1>b, <2>5 DEF Endings
    <3> QED
      BY <1>1, <2>3, <2>5, <3>1 DEF FoldInv
  <2>6. new \in Fold
    BY <1>2, <2>1, <2>3 DEF Fold, State
  <2>7. HeardBy(s, k + 1) = HeardBy(s, k) \union {e.n}
    BY <1>1, <1>10, <1>h
  <2>8. new.collecting = Collecting(s, k + 1)
    <3>1. PICK p : p = h.messages
      OBVIOUS
    <3>2. PICK q : q = text
      OBVIOUS
    <3>3. State(p, q, Collecting(s, k + 1)).collecting = Collecting(s, k + 1)
      BY CollectingOf, Zenon
    <3> HIDE DEF text
    <3> QED
      BY <3>1, <3>2, <3>3
  <2>9. new.messages = h.messages
    BY MessagesOf, Zenon
  <2>10. new.text = text
    BY TextOf, Zenon
  <2> HIDE DEF text, new
  <2> QED
    BY <2>8, <2>9, <2>10, <1>5, <1>6, <1>c, <2>2, <2>4, <2>5, <2>6, <2>7, Zenon DEF FoldInv
<1>11. CASE t = "context" \/ (t = "delta" /\ ~Collecting(s, k))
  <2>1. Take(h, e) = h
    <3>1. h.collecting = Collecting(s, k)
      BY DEF FoldInv
    <3> QED
      BY <1>11, <3>1 DEF Take
  <2>2. Collecting(s, k + 1) = Collecting(s, k) /\ HeardBy(s, k + 1) = HeardBy(s, k)
    BY <1>1, <1>11, <1>h, CollectingNext
  <2>3. ASSUME NEW x \in Range(h.text), NEW d \in 1..k + 1, Ends(s, d) PROVE s[d].n < x
    <3>1. d \in 1..k
      BY <1>11, <1>a, <1>b, <2>3 DEF Endings
    <3> QED
      BY <2>3, <3>1 DEF FoldInv
  <2> QED
    BY <1>6, <1>c, <2>1, <2>2, <2>3, Zenon DEF FoldInv
<1> QED
  BY <1>1, <1>8, <1>9, <1>10, <1>11 DEF EventTypes

LEMMA FoldStarts ==
  ASSUME NEW s, Sound(s)
  PROVE  FoldInv(State(<<>>, <<>>, TRUE), s, 0)
<1> DEFINE h == State(<<>>, <<>>, TRUE)
<1>1. h.messages = <<>> /\ h.text = <<>> /\ h.collecting = TRUE /\ h \in Fold
  BY DEF State, Fold, Texts
<1>2. 1..0 = {}
  OBVIOUS
<1>3. Told(<<>>) = <<>> /\ <<>> \in Texts /\ Told(<<>>) \o <<>> = <<>>
  <2>1. Of(<<>>) = <<>>
    BY DEF Of
  <2>2. Told(<<>>) = <<>> /\ <<>> \in Texts
    BY <2>1, FlattenNothing DEF Told, Texts
  <2> QED
    BY <2>2, Joint
<1>4. DOMAIN <<>> = {} /\ Range(<<>>) = {}
  BY DEF Range
<1>5. Collecting(s, 0) = TRUE /\ HeardBy(s, 0) = {} /\ Rising(<<>>) /\ Pieces(<<>>, s, 0)
  BY <1>2, <1>4 DEF Collecting, HeardBy, Rising, Pieces
<1> HIDE DEF h
<1> QED
  BY <1>1, <1>2, <1>3, <1>4, <1>5 DEF FoldInv, h

(* The fold, on a log of any length.                                       *)
LEMMA ExtractKeeps ==
  ASSUME NEW s, Sound(s)
  PROVE  \E h : FoldInv(h, s, Len(s)) /\ FoldLeft(Take, State(<<>>, <<>>, TRUE), s) = h
<1> DEFINE n == Len(s)
<1>0. PICK b : b = State(<<>>, <<>>, TRUE)
  OBVIOUS
<1>1. n \in Nat /\ DOMAIN s = 1..n
  BY DEF Sound
<1>a. PICK g : Steps(g, b, s, n)
  <2> HIDE DEF n
  <2> QED
    BY <1>1, FoldInSteps, Zenon
<1>2. /\ g[0] = b /\ g[n] = FoldLeft(Take, b, s)
      /\ \A k \in 1..n : g[k] = Take(g[k - 1], s[k])
  BY <1>a, Zenon DEF Steps
<1> DEFINE Bad == {k \in 0..n : ~FoldInv(g[k], s, k)}
<1>3. Bad = {}
  <2> SUFFICES ASSUME Bad # {} PROVE FALSE
    OBVIOUS
  <2>1. Bad \subseteq Nat
    BY <1>1
  <2>2. PICK k \in Bad : \A j \in Bad : k <= j
    BY <2>1, LeastNatural
  <2>3. k # 0
    <3>1. FoldInv(g[0], s, 0)
      BY <1>0, <1>2, FoldStarts
    <3> QED
      BY <2>2, <3>1
  <2>4. /\ k - 1 \in Nat /\ (k - 1) + 1 = k /\ k \in 1..n
        /\ k - 1 \in 0..n /\ ~(k <= k - 1)
    BY <1>1, <2>2, <2>3
  <2>5. FoldInv(g[k - 1], s, k - 1)
    BY <2>2, <2>4
  <2>6. FoldInv(Take(g[k - 1], s[(k - 1) + 1]), s, (k - 1) + 1)
    BY <2>4, <2>5, FoldKeeps
  <2>7. FoldInv(g[k], s, k)
    BY <1>2, <2>4, <2>6
  <2> QED
    BY <2>2, <2>7
<1>4. FoldInv(g[n], s, n)
  <2>1. n \in 0..n
    BY <1>1
  <2> QED
    BY <1>3, <2>1
<1> QED
  BY <1>0, <1>2, <1>4, Zenon

(* What is told of a log whose events are numbered.                        *)
Lasting(s, k) == \E j \in k..Len(s) : s[j].type \in Endings

LEMMA FoldWhole ==
  ASSUME NEW s, Sound(s), \A k \in 1..Len(s) : s[k].n = k
  PROVE  \E h \in Seq(LogMessages) :
           /\ FoldLeft(Take, State(<<>>, <<>>, TRUE), s).messages = h
           /\ Range(Told(h)) = {k \in 1..Len(s) : Heard(s, k) /\ Lasting(s, k)}
           /\ Rising(Told(h))
           /\ \A k \in DOMAIN h, e \in 1..Len(s) :
                s[e].type \in Endings => ~(\E a, b \in Range(h[k].of) : a < e /\ e < b)
<1> DEFINE n == Len(s)
<1>1. PICK f : FoldInv(f, s, n) /\ FoldLeft(Take, State(<<>>, <<>>, TRUE), s) = f
  BY ExtractKeeps
<1> DEFINE h == f.messages
<1>2. n \in Nat /\ DOMAIN s = 1..n
  BY DEF Sound
<1>4. h \in Seq(LogMessages) /\ f.text \in Texts /\ Told(h) \in Texts
  <2>1. h \in Seq(LogMessages) /\ f.text \in Texts
    BY <1>1 DEF FoldInv, Fold
  <2> QED
    BY <2>1, ToldIsText
<1>5. /\ Range(Told(h) \o f.text) = Range(Told(h)) \union Range(f.text)
      /\ Rising(Told(h))
  BY <1>1, <1>4, Joint DEF FoldInv
<1>6. HeardBy(s, n) = {k \in 1..n : Heard(s, k)}
  BY <1>2 DEF HeardBy
<1>7. Range(Told(h)) = {k \in 1..n : Heard(s, k) /\ Lasting(s, k)}
  <2>1. ASSUME NEW x \in Range(Told(h)) PROVE x \in 1..n /\ Heard(s, x) /\ Lasting(s, x)
    <3>1. x \in 1..n /\ Heard(s, x)
      BY <1>1, <1>5, <1>6 DEF FoldInv
    <3>2. PICK e \in 1..n : Ends(s, e) /\ x <= s[e].n
      BY <1>1 DEF FoldInv
    <3>3. e \in x..n /\ s[e].type \in Endings
      BY <1>2, <3>1, <3>2 DEF Ends
    <3> QED
      BY <3>1, <3>3 DEF Lasting
  <2>2. ASSUME NEW x \in 1..n, Heard(s, x), Lasting(s, x) PROVE x \in Range(Told(h))
    <3>1. PICK j \in x..n : s[j].type \in Endings
      BY <2>2 DEF Lasting
    <3>2. x \in Range(Told(h)) \/ x \in Range(f.text)
      BY <1>1, <1>5, <1>6, <2>2 DEF FoldInv
    <3>3. ASSUME x \in Range(f.text) PROVE FALSE
      <4>1. j \in 1..n
        BY <1>2
      <4>2. s[j].n < x /\ s[j].n = j
        BY <1>1, <3>1, <3>3, <4>1 DEF FoldInv, Ends
      <4> QED
        BY <1>2, <4>1, <4>2
    <3> QED
      BY <3>2, <3>3
  <2> QED
    BY <2>1, <2>2
<1>8. ASSUME NEW k \in DOMAIN h, NEW e \in 1..n, s[e].type \in Endings
      PROVE  ~(\E a, b \in Range(h[k].of) : a < e /\ e < b)
  <2>1. Pieces(h, s, n)
    BY <1>1 DEF FoldInv
  <2>2. s[e].n = e /\ Ends(s, e)
    BY <1>8 DEF Ends
  <2>3. ~(\E a, b \in Range(h[k].of) : a < s[e].n /\ s[e].n < b)
    BY <2>1, <2>2, Zenon DEF Pieces
  <2> QED
    BY <2>2, <2>3
<1> QED
  BY <1>1, <1>4, <1>5, <1>7, <1>8

LEMMA Numbering ==
  ASSUME NEW s \in Seq(LogEvents)
  PROVE  /\ Sound(Numbered(s)) /\ Len(Numbered(s)) = Len(s) /\ Len(s) \in Nat
         /\ \A k \in 1..Len(s) : Numbered(s)[k].n = k /\ Numbered(s)[k].type = s[k].type
<1>1. Len(s) \in Nat /\ \A k \in 1..Len(s) : s[k] \in LogEvents
  OBVIOUS
<1>2. ASSUME NEW k \in 1..Len(s)
      PROVE  /\ [s[k] EXCEPT !.n = k] \in LogEvents
             /\ [s[k] EXCEPT !.n = k].n = k /\ [s[k] EXCEPT !.n = k].type = s[k].type
  BY <1>1 DEF LogEvents
<1>3. Numbered(s) \in Seq(LogEvents) /\ Len(Numbered(s)) = Len(s)
  BY <1>1, <1>2 DEF Numbered
<1>4. \A k \in 1..Len(s) : Numbered(s)[k].n = k /\ Numbered(s)[k].type = s[k].type
  BY <1>2 DEF Numbered
<1>5. Sound(Numbered(s))
  BY <1>1, <1>3, <1>4 DEF Sound
<1> QED
  BY <1>1, <1>3, <1>4, <1>5

-----------------------------------------------------------------------------
(* A log as the processes write it.  A process has a run of its own open   *)
(* when it last wrote the start of one and no end of one since.            *)
Speaks(s, k, p) ==
  \E j \in 1..k : /\ s[j].by = p /\ s[j].type = "started"
                  /\ \A d \in j..k : s[d].by = p => s[d].type # "done"

(* Text is of a run that is open, and of one process the events stand in   *)
(* the order they were published in.                                       *)
Voiced(s) == \A k \in 1..Len(s) : s[k].type = "delta" => Speaks(s, k - 1, s[k].by)
InOrder(s) == \A a, b \in 1..Len(s) : a < b /\ s[a].by = s[b].by => s[a].n < s[b].n
Stamped(s, c) == \A k \in 1..Len(s) : s[k].n <= c[s[k].by]
Fine(s, c) == Voiced(s) /\ InOrder(s) /\ Stamped(s, c)

(* A process that is to append q to the log s: it has a run open once the  *)
(* first k events of q are there.                                          *)
Ready(s, q, k, p) ==
  \/ Speaks(q, k, p)
  \/ Speaks(s, Len(s), p) /\ \A d \in 1..k : q[d].type # "done"

Fits(s, q, p, c, running) ==
  /\ \A k \in 1..Len(q) : q[k].by = p /\ q[k].n <= c
  /\ \A a, b \in 1..Len(q) : a < b => q[a].n < q[b].n
  /\ \A a \in 1..Len(s), b \in 1..Len(q) : s[a].by = p => s[a].n < q[b].n
  /\ \A k \in 1..Len(q) : q[k].type = "delta" => Ready(s, q, k - 1, p)
  /\ running => Ready(s, q, Len(q), p)

(* Where a settled line is not told, another process talked over it.       *)
LEMMA UnheardIsTalkedOver ==
  ASSUME NEW s \in Seq(LogEvents), Voiced(s), NEW k \in 1..Len(s), s[k].type \in Spoken
  PROVE  Heard(Numbered(s), k) <=> ~TalkedOver(s, k)
<1> DEFINE m == Numbered(s)
           p == s[k].by
<1>1. Len(s) \in Nat /\ \A j \in 1..Len(s) : m[j].type = s[j].type
  BY Numbering
<1> HIDE DEF m
<1>2. Heard(m, k) <=> (s[k].type = "delta" => Collecting(m, k - 1))
  BY <1>1 DEF Heard
<1>3. \A d \in 1..k - 1 : d \in 1..Len(s) /\ \A r \in d + 1 .. k - 1 : r \in 1..Len(s)
  BY <1>1
<1>4. ASSUME s[k].type = "delta", ~Collecting(m, k - 1) PROVE TalkedOver(s, k)
  <2>1. PICK d \in 1..k - 1 : /\ m[d].type = "done"
                              /\ \A r \in d + 1 .. k - 1 : m[r].type \notin {"started", "result"}
    BY <1>4 DEF Collecting
  <2>2. /\ s[d].type = "done"
        /\ \A r \in d + 1 .. k - 1 : s[r].type \notin {"started", "result"}
    BY <1>1, <1>3, <2>1
  <2>3. PICK j \in 1..k - 1 : /\ s[j].by = p /\ s[j].type = "started"
                              /\ \A e \in j..k - 1 : s[e].by = p => s[e].type # "done"
    BY <1>4 DEF Voiced, Speaks
  <2>4. j < d
    <3>1. j # d
      BY <2>2, <2>3
    <3>2. ~(d < j)
      <4>1. d < j => j \in d + 1 .. k - 1
        OBVIOUS
      <4> QED
        BY <2>2, <2>3, <4>1
    <3> QED
      BY <3>1, <3>2
  <2>5. s[d].by # p
    <3>1. d \in j..k - 1
      BY <2>4
    <3> QED
      BY <2>2, <2>3, <3>1
  <2>6. \A e \in j..k : s[e].by = p => s[e].type # "done"
    <3>1. \A e \in j..k : e \in j..k - 1 \/ e = k
      OBVIOUS
    <3> QED
      BY <1>4, <2>3, <3>1
  <2>7. \A r \in d..k : s[r].type \notin {"started", "result"}
    <3>1. \A r \in d..k : r = d \/ r \in d + 1 .. k - 1 \/ r = k
      OBVIOUS
    <3> QED
      BY <1>4, <2>2, <3>1
  <2>8. j \in 1..k /\ d \in 1..k
    OBVIOUS
  <2> QED
    BY <1>4, <2>2, <2>3, <2>4, <2>5, <2>6, <2>7, <2>8 DEF TalkedOver
<1>5. ASSUME TalkedOver(s, k) PROVE s[k].type = "delta" /\ ~Collecting(m, k - 1)
  <2>1. s[k].type = "delta"
    BY <1>5 DEF TalkedOver
  <2>2. PICK d \in 1..k : /\ s[d].type = "done"
                          /\ \A r \in d..k : s[r].type \notin {"started", "result"}
    BY <1>5 DEF TalkedOver
  <2>3. d # k
    BY <2>1, <2>2
  <2>4. d \in 1..k - 1 /\ \A r \in d + 1 .. k - 1 : r \in d..k
    BY <2>3
  <2>5. m[d].type = "done" /\ \A r \in d + 1 .. k - 1 : m[r].type \notin {"started", "result"}
    BY <1>1, <1>3, <2>2, <2>4
  <2> QED
    BY <2>1, <2>4, <2>5 DEF Collecting
<1> QED
  BY <1>2, <1>4, <1>5 DEF m

(* HistoryIsWhole, of one log and what is made of it.                      *)
WholeOf(h, s) ==
  LET told == FlattenSeq([k \in DOMAIN h |-> h[k].of])
  IN /\ Range(told) = {k \in Settled(s) : ~TalkedOver(s, k)}
     /\ \A a, b \in DOMAIN told : a < b =>
          /\ told[a] < told[b]
          /\ s[told[a]].by = s[told[b]].by => s[told[a]].n < s[told[b]].n
     /\ \A k \in DOMAIN h, e \in DOMAIN s :
          s[e].type \in Endings => ~(\E a, b \in Range(h[k].of) : a < e /\ e < b)

LEMMA ToldWhole ==
  ASSUME NEW s \in Seq(LogEvents), Voiced(s), InOrder(s)
  PROVE  WholeOf(ExtractHistory(s), s)
<1> DEFINE m == Numbered(s)
<1>1. /\ Sound(m) /\ Len(m) = Len(s) /\ Len(s) \in Nat /\ DOMAIN s = 1..Len(s)
      /\ \A k \in 1..Len(s) : m[k].n = k /\ m[k].type = s[k].type
  BY Numbering
<1>2. ExtractHistory(s) = FoldLeft(Take, State(<<>>, <<>>, TRUE), m).messages
  BY Zenon DEF ExtractHistory, State
<1>3. \A k \in 1..Len(s) : s[k].type \in Spoken => (Heard(m, k) <=> ~TalkedOver(s, k))
  BY UnheardIsTalkedOver
<1> HIDE DEF m
<1>4. PICK h \in Seq(LogMessages) :
        /\ ExtractHistory(s) = h
        /\ Range(Told(h)) = {k \in 1..Len(s) : Heard(m, k) /\ Lasting(m, k)}
        /\ Rising(Told(h))
        /\ \A k \in DOMAIN h, e \in 1..Len(s) :
             m[e].type \in Endings => ~(\E a, b \in Range(h[k].of) : a < e /\ e < b)
  BY <1>1, <1>2, FoldWhole
<1>5. \A k \in 1..Len(s) : Lasting(m, k) <=> \E j \in k..Len(s) : s[j].type \in Endings
  <2>1. \A k \in 1..Len(s) : \A j \in k..Len(s) : j \in 1..Len(s)
    BY <1>1
  <2> QED
    BY <1>1, <2>1 DEF Lasting
<1>6. Range(Told(h)) = {k \in Settled(s) : ~TalkedOver(s, k)}
  <2>1. \A k \in 1..Len(s) : Heard(m, k) => s[k].type \in Spoken
    BY <1>1 DEF Heard
  <2> QED
    BY <1>1, <1>3, <1>4, <1>5, <2>1 DEF Settled
<1>7. ASSUME NEW a \in DOMAIN Told(h), NEW b \in DOMAIN Told(h), a < b
      PROVE  /\ Told(h)[a] < Told(h)[b]
             /\ s[Told(h)[a]].by = s[Told(h)[b]].by => s[Told(h)[a]].n < s[Told(h)[b]].n
  <2>1. Told(h)[a] < Told(h)[b]
    BY <1>4, <1>7 DEF Rising
  <2>2. Told(h)[a] \in Range(Told(h)) /\ Told(h)[b] \in Range(Told(h))
    BY DEF Range
  <2>3. Told(h)[a] \in 1..Len(s) /\ Told(h)[b] \in 1..Len(s)
    BY <1>4, <2>2
  <2> QED
    BY <2>1, <2>3 DEF InOrder
<1>8. FlattenSeq([k \in DOMAIN h |-> h[k].of]) = Told(h)
  BY Zenon DEF Told, Of
<1>9. \A k \in DOMAIN h, e \in DOMAIN s :
        s[e].type \in Endings => ~(\E a, b \in Range(h[k].of) : a < e /\ e < b)
  BY <1>1, <1>4
<1>10. \A a, b \in DOMAIN Told(h) : a < b =>
         /\ Told(h)[a] < Told(h)[b]
         /\ s[Told(h)[a]].by = s[Told(h)[b]].by => s[Told(h)[a]].n < s[Told(h)[b]].n
  BY <1>7
<1>11. WholeOf(h, s)
  BY <1>6, <1>8, <1>9, <1>10, Zenon DEF WholeOf
<1> QED
  BY <1>4, <1>11

-----------------------------------------------------------------------------
(* Logs and queues as they grow.                                           *)
LEMMA SpeaksAlike ==
  ASSUME NEW r, NEW s, NEW k \in Nat, NEW p, \A i \in 1..k : r[i] = s[i]
  PROVE  Speaks(r, k, p) <=> Speaks(s, k, p)
<1>1. \A j \in 1..k : \A d \in j..k : d \in 1..k
  OBVIOUS
<1> QED
  BY <1>1 DEF Speaks

LEMMA SpeaksOn ==
  ASSUME NEW s, NEW k \in Nat, NEW n \in Nat, NEW p, k <= n, Speaks(s, k, p),
         \A d \in k + 1 .. n : s[d].by = p => s[d].type # "done"
  PROVE  Speaks(s, n, p)
<1>1. PICK j \in 1..k : /\ s[j].by = p /\ s[j].type = "started"
                        /\ \A d \in j..k : s[d].by = p => s[d].type # "done"
  BY DEF Speaks
<1>2. j \in 1..n /\ \A d \in j..n : d \in j..k \/ d \in k + 1 .. n
  OBVIOUS
<1> QED
  BY <1>1, <1>2 DEF Speaks

LEMMA OneLineMore ==
  ASSUME NEW s \in Seq(LogEvents), NEW e \in LogEvents
  PROVE  /\ Append(s, e) \in Seq(LogEvents) /\ Len(Append(s, e)) = Len(s) + 1 /\ Len(s) \in Nat
         /\ Append(s, e)[Len(s) + 1] = e
         /\ \A i \in 1..Len(s) : Append(s, e)[i] = s[i]
         /\ \A i \in 1..Len(s) + 1 : i \in 1..Len(s) \/ i = Len(s) + 1
OBVIOUS

(* Another process appends to the log.                                     *)
LEMMA OthersLine ==
  ASSUME NEW s \in Seq(LogEvents), NEW q \in Seq(LogEvents), NEW e \in LogEvents,
         NEW r, NEW c, NEW running, Fits(s, q, r, c, running), e.by # r
  PROVE  Fits(Append(s, e), q, r, c, running)
<1> DEFINE t == Append(s, e)
<1>1. /\ t \in Seq(LogEvents) /\ Len(t) = Len(s) + 1 /\ Len(s) \in Nat /\ t[Len(s) + 1] = e
      /\ \A i \in 1..Len(s) : t[i] = s[i]
      /\ \A i \in 1..Len(s) + 1 : i \in 1..Len(s) \/ i = Len(s) + 1
  BY OneLineMore
<1> HIDE DEF t
<1>2. Speaks(s, Len(s), r) => Speaks(t, Len(t), r)
  <2> SUFFICES ASSUME Speaks(s, Len(s), r) PROVE Speaks(t, Len(t), r)
    OBVIOUS
  <2>1. Speaks(t, Len(s), r)
    BY <1>1, SpeaksAlike
  <2>2. \A d \in Len(s) + 1 .. Len(t) : t[d].by # r
    BY <1>1
  <2> QED
    BY <1>1, <2>1, <2>2, SpeaksOn
<1>3. \A k : Ready(s, q, k, r) => Ready(t, q, k, r)
  BY <1>2 DEF Ready
<1>4. \A a \in 1..Len(t), b \in 1..Len(q) : t[a].by = r => t[a].n < q[b].n
  BY <1>1 DEF Fits
<1> QED
  BY <1>3, <1>4 DEF Fits, t

(* A process appends the first of its queue.                               *)
LEMMA OwnLine ==
  ASSUME NEW s \in Seq(LogEvents), NEW q \in Seq(LogEvents), q # <<>>,
         NEW p \in Processes, NEW c \in [Processes -> Nat], NEW running,
         Fine(s, c), Fits(s, q, p, c[p], running)
  PROVE  Fine(Append(s, Head(q)), c) /\ Fits(Append(s, Head(q)), Tail(q), p, c[p], running)
<1> DEFINE e == Head(q)
           t == Append(s, e)
           u == Tail(q)
<1>1. /\ e \in LogEvents /\ u \in Seq(LogEvents) /\ e = q[1] /\ 1 \in 1..Len(q)
      /\ Len(q) \in Nat /\ Len(u) \in Nat /\ Len(q) = Len(u) + 1
      /\ \A k \in 1..Len(u) : u[k] = q[k + 1] /\ k + 1 \in 1..Len(q) /\ 1 < k + 1
  OBVIOUS
<1>2. /\ t \in Seq(LogEvents) /\ Len(t) = Len(s) + 1 /\ Len(s) \in Nat /\ t[Len(s) + 1] = e
      /\ \A i \in 1..Len(s) : t[i] = s[i]
      /\ \A i \in 1..Len(s) + 1 : i \in 1..Len(s) \/ i = Len(s) + 1
  BY <1>1, OneLineMore
<1> HIDE DEF e, t, u
<1>3. e.by = p /\ e.n <= c[p] /\ \A a \in 1..Len(s) : s[a].by = p => s[a].n < e.n
  BY <1>1 DEF Fits
<1>4. \A k \in 0..Len(s) : \A w : Speaks(t, k, w) <=> Speaks(s, k, w)
  <2>1. ASSUME NEW k \in 0..Len(s), NEW w PROVE Speaks(t, k, w) <=> Speaks(s, k, w)
    <3>1. k \in Nat /\ \A i \in 1..k : t[i] = s[i]
      BY <1>2
    <3> QED
      BY <3>1, SpeaksAlike
  <2> QED
    BY <2>1
<1>5. Voiced(t)
  <2> SUFFICES ASSUME NEW k \in 1..Len(t), t[k].type = "delta" PROVE Speaks(t, k - 1, t[k].by)
    BY DEF Voiced
  <2>1. k - 1 \in 0..Len(s)
    BY <1>2
  <2>2. CASE k \in 1..Len(s)
    BY <1>2, <1>4, <2>1, <2>2 DEF Fine, Voiced
  <2>3. CASE k = Len(s) + 1
    <3>1. Ready(s, q, 0, p)
      <4>1. q[1].type = "delta" => Ready(s, q, 1 - 1, p)
        BY <1>1 DEF Fits
      <4> QED
        BY <1>1, <1>2, <2>3, <4>1
    <3>2. ~Speaks(q, 0, p)
      BY DEF Speaks
    <3>3. Speaks(s, Len(s), p)
      BY <3>1, <3>2 DEF Ready
    <3> QED
      BY <1>2, <1>3, <1>4, <2>1, <2>3, <3>3
  <2> QED
    BY <1>2, <2>2, <2>3
<1>6. InOrder(t)
  <2> SUFFICES ASSUME NEW a \in 1..Len(t), NEW b \in 1..Len(t), a < b, t[a].by = t[b].by
               PROVE  t[a].n < t[b].n
    BY DEF InOrder
  <2>1. a \in 1..Len(s) /\ (b \in 1..Len(s) \/ b = Len(s) + 1)
    BY <1>2
  <2> QED
    BY <1>2, <1>3, <2>1 DEF Fine, InOrder
<1>7. Stamped(t, c)
  BY <1>2, <1>3 DEF Fine, Stamped
<1>8. ASSUME NEW k \in 0..Len(u), Ready(s, q, k + 1, p) PROVE Ready(t, u, k, p)
  <2>0. k \in Nat /\ \A j \in 1..k : u[j] = q[j + 1]
    BY <1>1
  <2>1. ASSUME e.type # "done", Speaks(s, Len(s), p), \A d \in 1..k : u[d].type # "done"
        PROVE  Ready(t, u, k, p)
    <3>1. Speaks(t, Len(s), p)
      BY <1>2, <1>4, <2>1
    <3>2. \A d \in Len(s) + 1 .. Len(t) : t[d].type # "done"
      BY <1>2, <2>1
    <3>3. Speaks(t, Len(t), p)
      BY <1>2, <3>1, <3>2, SpeaksOn
    <3> QED
      BY <2>1, <3>3 DEF Ready
  <2>2. CASE Speaks(q, k + 1, p)
    <3>1. PICK j \in 1..k + 1 : /\ q[j].by = p /\ q[j].type = "started"
                                /\ \A d \in j..k + 1 : q[d].by = p => q[d].type # "done"
      BY <2>2 DEF Speaks
    <3>2. CASE j = 1
      <4>1. Len(t) \in 1..Len(t) /\ t[Len(t)] = e /\ e.type = "started"
        BY <1>1, <1>2, <3>1, <3>2
      <4>2. \A d \in Len(t)..Len(t) : t[d].type # "done"
        BY <1>2, <4>1
      <4>3. Speaks(t, Len(t), p)
        BY <1>3, <4>1, <4>2 DEF Speaks
      <4>4. ASSUME NEW d \in 1..k PROVE u[d].type # "done"
        <5>1. d + 1 \in j..k + 1 /\ u[d] = q[d + 1] /\ q[d + 1].by = p
          BY <1>1, <2>0, <3>2 DEF Fits
        <5> QED
          BY <3>1, <5>1
      <4> QED
        BY <4>3, <4>4 DEF Ready
    <3>3. CASE j # 1
      <4>1. j - 1 \in 1..k /\ (j - 1) + 1 = j
        BY <2>0, <3>3
      <4>2. u[j - 1] = q[j]
        BY <2>0, <4>1
      <4>3. \A d \in j - 1 .. k : d + 1 \in j..k + 1 /\ u[d] = q[d + 1]
        BY <2>0, <4>1
      <4>4. \A d \in j - 1 .. k : u[d].by = p => u[d].type # "done"
        BY <3>1, <4>3
      <4>5. Speaks(u, k, p)
        BY <3>1, <4>1, <4>2, <4>4 DEF Speaks
      <4> QED
        BY <4>5 DEF Ready
    <3> QED
      BY <3>2, <3>3
  <2>3. CASE Speaks(s, Len(s), p) /\ \A d \in 1..k + 1 : q[d].type # "done"
    <3>1. 1 \in 1..k + 1 /\ \A d \in 1..k : d + 1 \in 1..k + 1
      BY <2>0
    <3>2. e.type # "done" /\ \A d \in 1..k : u[d].type # "done"
      BY <1>1, <2>0, <2>3, <3>1
    <3> QED
      BY <2>1, <2>3, <3>2
  <2> QED
    BY <1>8, <2>2, <2>3 DEF Ready
<1>9. Fits(t, u, p, c[p], running)
  <2>1. \A k \in 1..Len(u) : u[k].by = p /\ u[k].n <= c[p]
    BY <1>1 DEF Fits
  <2>2. \A a, b \in 1..Len(u) : a < b => u[a].n < u[b].n
    <3> SUFFICES ASSUME NEW a \in 1..Len(u), NEW b \in 1..Len(u), a < b PROVE u[a].n < u[b].n
      OBVIOUS
    <3>1. a + 1 \in 1..Len(q) /\ b + 1 \in 1..Len(q) /\ a + 1 < b + 1
      BY <1>1
    <3> QED
      BY <1>1, <3>1 DEF Fits
  <2>3. \A a \in 1..Len(t), b \in 1..Len(u) : t[a].by = p => t[a].n < u[b].n
    <3> SUFFICES ASSUME NEW a \in 1..Len(t), NEW b \in 1..Len(u), t[a].by = p PROVE t[a].n < u[b].n
      OBVIOUS
    <3>1. b + 1 \in 1..Len(q) /\ 1 < b + 1 /\ u[b] = q[b + 1]
      BY <1>1
    <3>2. a \in 1..Len(s) \/ a = Len(s) + 1
      BY <1>2
    <3> QED
      BY <1>1, <1>2, <3>1, <3>2 DEF Fits
  <2>4. ASSUME NEW k \in 1..Len(u), u[k].type = "delta" PROVE Ready(t, u, k - 1, p)
    <3>1. k - 1 \in 0..Len(u) /\ (k - 1) + 1 = k /\ (k + 1) - 1 = k
      BY <1>1
    <3>2. k + 1 \in 1..Len(q) /\ q[k + 1].type = "delta"
      BY <1>1, <2>4
    <3>3. Ready(s, q, (k + 1) - 1, p)
      BY <3>2 DEF Fits
    <3> QED
      BY <1>8, <3>1, <3>3
  <2>5. ASSUME running PROVE Ready(t, u, Len(u), p)
    <3>1. Ready(s, q, Len(u) + 1, p) /\ Len(u) \in 0..Len(u)
      BY <1>1, <2>5 DEF Fits
    <3> QED
      BY <1>8, <3>1
  <2> QED
    BY <2>1, <2>2, <2>3, <2>4, <2>5 DEF Fits
<1> QED
  BY <1>5, <1>6, <1>7, <1>9 DEF Fine, e, t, u

LEMMA Halves ==
  ASSUME NEW p \in Seq(LogEvents), NEW q \in Seq(LogEvents)
  PROVE  /\ p \o q \in Seq(LogEvents) /\ Len(p) \in Nat /\ Len(q) \in Nat
         /\ Len(p \o q) = Len(p) + Len(q)
         /\ \A i \in 1..Len(p) : (p \o q)[i] = p[i] /\ i \in 1..Len(p \o q)
         /\ \A i \in 1..Len(q) : (p \o q)[Len(p) + i] = q[i]
         /\ \A i \in 1..Len(p \o q) :
              i \in 1..Len(p) \/ (i - Len(p) \in 1..Len(q) /\ (p \o q)[i] = q[i - Len(p)])
OBVIOUS

(* A process publishes: text in a run of its own, and a run that is under  *)
(* way behind it has started and not ended.                                *)
LEMMA QueueGrows ==
  ASSUME NEW s \in Seq(LogEvents), NEW q \in Seq(LogEvents), NEW ev \in Seq(LogEvents),
         NEW p \in Processes, NEW c \in Nat, NEW running, NEW next, Fits(s, q, p, c, running),
         \A a \in 1..Len(s) : s[a].by = p => s[a].n <= c,
         \A k \in 1..Len(ev) : ev[k].by = p /\ ev[k].n = c + k,
         \A k \in 1..Len(ev) : ev[k].type = "delta" => k = 1 /\ running,
         next => /\ \A k \in 1..Len(ev) : ev[k].type # "done"
                 /\ running \/ (Len(ev) > 0 /\ ev[Len(ev)].type = "started")
  PROVE  Fits(s, q \o ev, p, c + Len(ev), next)
<1> DEFINE u == q \o ev
<1>1. /\ u \in Seq(LogEvents) /\ Len(q) \in Nat /\ Len(ev) \in Nat
      /\ Len(u) = Len(q) + Len(ev)
      /\ \A i \in 1..Len(q) : u[i] = q[i] /\ i \in 1..Len(u)
      /\ \A i \in 1..Len(ev) : u[Len(q) + i] = ev[i]
      /\ \A i \in 1..Len(u) :
           i \in 1..Len(q) \/ (i - Len(q) \in 1..Len(ev) /\ u[i] = ev[i - Len(q)])
  BY Halves
<1>2. /\ \A i \in 1..Len(q) : q[i] \in LogEvents /\ q[i].n \in Nat
      /\ \A i \in 1..Len(s) : s[i] \in LogEvents /\ s[i].n \in Nat
  <2>1. /\ \A i \in 1..Len(q) : q[i] \in LogEvents
        /\ \A i \in 1..Len(s) : s[i] \in LogEvents
    OBVIOUS
  <2> QED
    BY <2>1 DEF LogEvents
<1> HIDE DEF u
<1>3. ASSUME NEW i \in 1..Len(u), i \notin 1..Len(q)
      PROVE  /\ u[i] = ev[i - Len(q)] /\ i - Len(q) \in 1..Len(ev)
             /\ u[i].by = p /\ u[i].n = c + (i - Len(q))
  BY <1>1, <1>3
<1>4. \A k \in 1..Len(u) : u[k].by = p /\ u[k].n <= c + Len(ev)
  <2> SUFFICES ASSUME NEW k \in 1..Len(u) PROVE u[k].by = p /\ u[k].n <= c + Len(ev)
    OBVIOUS
  <2>1. CASE k \in 1..Len(q)
    <3>1. u[k] = q[k] /\ q[k].by = p /\ q[k].n <= c /\ q[k].n \in Nat
      BY <1>1, <1>2, <2>1 DEF Fits
    <3> QED
      BY <1>1, <3>1
  <2>2. CASE k \notin 1..Len(q)
    BY <1>1, <1>3, <2>2
  <2> QED
    BY <2>1, <2>2
<1>5. \A a, b \in 1..Len(u) : a < b => u[a].n < u[b].n
  <2> SUFFICES ASSUME NEW a \in 1..Len(u), NEW b \in 1..Len(u), a < b PROVE u[a].n < u[b].n
    OBVIOUS
  <2>1. CASE b \in 1..Len(q)
    <3>1. a \in 1..Len(q)
      BY <1>1, <2>1
    <3> QED
      BY <1>1, <2>1, <3>1 DEF Fits
  <2>2. CASE a \in 1..Len(q) /\ b \notin 1..Len(q)
    <3>1. u[b].n = c + (b - Len(q)) /\ b - Len(q) > 0 /\ b - Len(q) \in Nat
      BY <1>1, <1>3, <2>2
    <3>2. u[a].n \in Nat /\ u[a].n <= c
      BY <1>1, <1>2, <2>2 DEF Fits
    <3> QED
      BY <3>1, <3>2
  <2>3. CASE a \notin 1..Len(q) /\ b \notin 1..Len(q)
    BY <1>1, <1>3, <2>3
  <2> QED
    BY <1>1, <2>1, <2>2, <2>3
<1>6. \A a \in 1..Len(s), b \in 1..Len(u) : s[a].by = p => s[a].n < u[b].n
  <2> SUFFICES ASSUME NEW a \in 1..Len(s), NEW b \in 1..Len(u), s[a].by = p PROVE s[a].n < u[b].n
    OBVIOUS
  <2>1. CASE b \in 1..Len(q)
    BY <1>1, <2>1 DEF Fits
  <2>2. CASE b \notin 1..Len(q)
    <3>1. u[b].n = c + (b - Len(q)) /\ b - Len(q) > 0 /\ b - Len(q) \in Nat
      BY <1>1, <1>3, <2>2
    <3>2. s[a].n \in Nat /\ s[a].n <= c
      BY <1>2
    <3> QED
      BY <3>1, <3>2
  <2> QED
    BY <2>1, <2>2
<1>7. ASSUME NEW k \in 0..Len(q), Ready(s, q, k, p) PROVE Ready(s, u, k, p)
  <2>1. k \in Nat /\ \A i \in 1..k : u[i] = q[i]
    BY <1>1
  <2>2. Speaks(u, k, p) <=> Speaks(q, k, p)
    BY <2>1, SpeaksAlike
  <2> QED
    BY <1>7, <2>1, <2>2 DEF Ready
<1>8. ASSUME NEW k \in 1..Len(u), u[k].type = "delta" PROVE Ready(s, u, k - 1, p)
  <2>1. CASE k \in 1..Len(q)
    <3>1. k - 1 \in 0..Len(q) /\ Ready(s, q, k - 1, p)
      BY <1>1, <1>8, <2>1 DEF Fits
    <3> QED
      BY <1>7, <3>1
  <2>2. CASE k \notin 1..Len(q)
    <3>1. k - Len(q) = 1 /\ running
      BY <1>3, <1>8, <2>2
    <3>2. k - 1 = Len(q) /\ Len(q) \in 0..Len(q)
      BY <1>1, <3>1
    <3>3. Ready(s, q, Len(q), p)
      BY <3>1 DEF Fits
    <3> QED
      BY <1>7, <3>2, <3>3
  <2> QED
    BY <2>1, <2>2
<1>9. ASSUME next PROVE Ready(s, u, Len(u), p)
  <2>0. \A d \in Len(q) + 1 .. Len(u) : u[d].type # "done"
    <3> SUFFICES ASSUME NEW d \in Len(q) + 1 .. Len(u) PROVE u[d].type # "done"
      OBVIOUS
    <3>1. d \in 1..Len(u) /\ d \notin 1..Len(q)
      BY <1>1
    <3> QED
      BY <1>3, <1>9, <3>1
  <2>1. CASE running
    <3>1. Ready(s, u, Len(q), p)
      <4>1. Len(q) \in 0..Len(q) /\ Ready(s, q, Len(q), p)
        BY <1>1, <2>1 DEF Fits
      <4> QED
        BY <1>7, <4>1
    <3>2. CASE Speaks(u, Len(q), p)
      <4>0. Len(q) \in Nat /\ Len(u) \in Nat /\ Len(q) <= Len(u)
        BY <1>1
      <4>1. Speaks(u, Len(u), p)
        BY <2>0, <3>2, <4>0, SpeaksOn
      <4> QED
        BY <4>1 DEF Ready
    <3>3. CASE Speaks(s, Len(s), p) /\ \A d \in 1..Len(q) : u[d].type # "done"
      <4>1. \A d \in 1..Len(u) : d \in 1..Len(q) \/ d \in Len(q) + 1 .. Len(u)
        BY <1>1
      <4> QED
        BY <2>0, <3>3, <4>1 DEF Ready
    <3> QED
      BY <3>1, <3>2, <3>3 DEF Ready
  <2>2. CASE Len(ev) > 0 /\ ev[Len(ev)].type = "started"
    <3>1. Len(ev) \in 1..Len(ev) /\ Len(u) \in 1..Len(u)
      BY <1>1, <2>2
    <3>2. u[Len(u)].type = "started" /\ u[Len(u)].by = p
      <4>1. u[Len(u)] = ev[Len(ev)]
        BY <1>1, <3>1
      <4> QED
        BY <2>2, <3>1, <4>1
    <3>3. \A d \in Len(u)..Len(u) : u[d].type # "done"
      BY <3>1, <3>2
    <3>4. Speaks(u, Len(u), p)
      BY <3>1, <3>2, <3>3 DEF Speaks
    <3> QED
      BY <3>4 DEF Ready
  <2> QED
    BY <1>9, <2>1, <2>2
<1> QED
  BY <1>4, <1>5, <1>6, <1>8, <1>9 DEF Fits, u

-----------------------------------------------------------------------------
(* The inductive invariant.  A log without a gap and without a bad line is *)
(* Fine, and fits what each process at work on it is still to append.      *)
File == [lines : Seq(LogEvents \union {Garbage}), open : BOOLEAN]
Running == [pc : {"choose", "load", "serve"}, id : Ids]

LogTypes ==
  /\ disk \in [Ids -> File] /\ \A i \in Ids : disk[i].open => disk[i].lines # <<>>
  /\ proc \in [Processes -> Running \union {Unborn, Dead}]
  /\ queue \in [Processes -> Seq(LogEvents)] /\ busy \in [Processes -> BOOLEAN]
  /\ clock \in [Processes -> Nat]
  /\ \A p \in Processes : ~Alive(p) => queue[p] = <<>> /\ ~busy[p]

Clean(i) == i \notin gap /\ disk[i].lines \in Seq(LogEvents)
At(p, i) == Alive(p) /\ proc[p].id = i

Sane(i) ==
  Clean(i) =>
    /\ Fine(disk[i].lines, clock)
    /\ \A p \in Processes : At(p, i) => Fits(disk[i].lines, queue[p], p, clock[p], busy[p])

LogInv == LogTypes /\ \A i \in Ids : Sane(i)

LEMMA Living ==
  ASSUME LogTypes, NEW p \in Processes
  PROVE  /\ Alive(p) <=> proc[p] \in Running
         /\ proc[p] = Unborn => ~Alive(p)
         /\ Alive(p) => proc[p].id \in Ids
<1>1. proc[p] \in Running \union {Unborn, Dead}
  BY DEF LogTypes
<1>2. \A r \in Running : r.pc \notin {"unborn", "dead"} /\ r.id \in Ids
  BY DEF Running
<1>3. Unborn.pc = "unborn" /\ Dead.pc = "dead"
  BY DEF Unborn, Dead
<1>4. Alive(p) <=> proc[p].pc \notin {"unborn", "dead"}
  BY DEF Alive
<1> QED
  BY <1>1, <1>2, <1>3, <1>4

LEMMA NewEvents ==
  ASSUME NEW p \in Processes, NEW types \in Seq(EventTypes), clock \in [Processes -> Nat]
  PROVE  /\ Events(p, types) \in Seq(LogEvents) /\ Len(Events(p, types)) = Len(types)
         /\ \A k \in 1..Len(types) : /\ Events(p, types)[k].type = types[k]
                                     /\ Events(p, types)[k].n = clock[p] + k
                                     /\ Events(p, types)[k].by = p
<1>1. Len(types) \in Nat /\ clock[p] \in Nat /\ \A k \in 1..Len(types) : types[k] \in EventTypes
  OBVIOUS
<1>2. \A k \in 1..Len(types) : [type |-> types[k], n |-> clock[p] + k, by |-> p] \in LogEvents
  BY <1>1 DEF LogEvents
<1>3. Events(p, types) \in [1..Len(types) -> LogEvents]
  BY <1>2 DEF Events
<1> QED
  BY <1>1, <1>3 DEF Events

(* What a step of p leaves of the others.                                  *)
LEMMA LaterStamps ==
  ASSUME NEW s \in Seq(LogEvents), NEW c \in [Processes -> Nat], NEW p \in Processes,
         NEW l \in Nat, Fine(s, c)
  PROVE  Fine(s, [c EXCEPT ![p] = c[p] + l])
<1>1. \A k \in 1..Len(s) : s[k] \in LogEvents
  OBVIOUS
<1>2. \A k \in 1..Len(s) : s[k].by \in Processes /\ s[k].n \in Nat
  BY <1>1 DEF LogEvents
<1> QED
  BY <1>2 DEF Fine, Stamped

(* Every event goes by here, those of a process that begins as well.       *)
LEMMA PublishKeeps ==
  ASSUME LogInv, NEW p \in Processes, NEW i \in Ids, NEW types \in Seq(EventTypes),
         Publish(p, i, types), UNCHANGED disk, At(p, i) \/ ~Alive(p),
         NEW next \in Running, proc' = [proc EXCEPT ![p] = next], next.id = i,
         NEW b \in BOOLEAN, busy' = [busy EXCEPT ![p] = b],
         \A k \in 1..Len(types) : types[k] = "delta" => k = 1 /\ busy[p],
         b => /\ \A k \in 1..Len(types) : types[k] # "done"
              /\ busy[p] \/ (Len(types) > 0 /\ types[Len(types)] = "started")
  PROVE  LogInv'
<1> DEFINE ev == Events(p, types)
           all == queue[p] \o ev
           cap == IF Len(all) < QueueCap THEN Len(all) ELSE QueueCap
<1>1. /\ LogTypes /\ queue[p] \in Seq(LogEvents) /\ clock \in [Processes -> Nat]
      /\ Len(types) \in Nat /\ QueueCap \in Nat /\ clock[p] \in Nat
  BY LogAssumption DEF LogInv, LogTypes
<1>2. /\ ev \in Seq(LogEvents) /\ Len(ev) = Len(types)
      /\ \A k \in 1..Len(types) : ev[k].type = types[k] /\ ev[k].n = clock[p] + k /\ ev[k].by = p
  BY <1>1, NewEvents
<1> HIDE DEF ev
<1>3. all \in Seq(LogEvents) /\ Len(all) \in Nat
  BY <1>1, <1>2, Halves
<1>4. /\ queue' = [queue EXCEPT ![p] = SubSeq(all, 1, cap)]
      /\ clock' = [clock EXCEPT ![p] = clock[p] + Len(types)]
      /\ gap' = IF Len(all) > QueueCap THEN gap \cup {i} ELSE gap
  BY DEF Publish, ev, all, cap
<1> HIDE DEF all
<1>5. cap \in Nat /\ cap <= Len(all) /\ (~(Len(all) > QueueCap) => cap = Len(all))
  BY <1>1, <1>3
<1> HIDE DEF cap
<1>6. /\ SubSeq(all, 1, cap) \in Seq(LogEvents)
      /\ ~(Len(all) > QueueCap) => SubSeq(all, 1, cap) = all
  <2>1. \A k \in 1..cap : all[k] \in LogEvents
    BY <1>3, <1>5
  <2>2. SubSeq(all, 1, cap) \in Seq(LogEvents)
    BY <1>5, <2>1, SubSeqProperties
  <2>3. SubSeq(all, 1, Len(all)) = all
    BY <1>3, SubSeqFull
  <2> QED
    BY <1>5, <2>2, <2>3
<1>7. ASSUME NEW r \in Processes
      PROVE  /\ r # p => /\ proc'[r] = proc[r] /\ queue'[r] = queue[r]
                         /\ busy'[r] = busy[r] /\ clock'[r] = clock[r]
             /\ r = p => /\ proc'[r] = next /\ queue'[r] = SubSeq(all, 1, cap)
                         /\ busy'[r] = b /\ clock'[r] = clock[p] + Len(types)
  BY <1>1, <1>4 DEF LogTypes
<1>8. next.pc \notin {"unborn", "dead"}
  BY DEF Running
<1>9. LogTypes'
  <2>1. /\ proc' \in [Processes -> Running \union {Unborn, Dead}]
        /\ queue' \in [Processes -> Seq(LogEvents)] /\ busy' \in [Processes -> BOOLEAN]
        /\ clock' \in [Processes -> Nat]
    BY <1>1, <1>4, <1>6 DEF LogTypes
  <2>2. ASSUME NEW r \in Processes, ~Alive(r)' PROVE queue'[r] = <<>> /\ ~busy'[r]
    <3>1. r # p
      BY <1>7, <1>8, <2>2 DEF Alive
    <3>2. ~Alive(r)
      BY <1>7, <2>2, <3>1 DEF Alive
    <3> QED
      BY <1>1, <1>7, <3>1, <3>2 DEF LogTypes
  <2> QED
    BY <1>1, <2>1, <2>2 DEF LogTypes
<1> SUFFICES ASSUME NEW j \in Ids, Clean(j)'
             PROVE  /\ Fine(disk[j].lines, clock')
                    /\ \A r \in Processes : At(r, j)' =>
                         Fits(disk[j].lines, queue'[r], r, clock'[r], busy'[r])
  BY <1>9 DEF LogInv, Sane
<1> DEFINE s == disk[j].lines
<1>10. /\ Clean(j) /\ s \in Seq(LogEvents) /\ Fine(s, clock)
       /\ \A r \in Processes : At(r, j) => Fits(s, queue[r], r, clock[r], busy[r])
  <2>1. j \notin gap /\ s \in Seq(LogEvents)
    BY <1>4 DEF Clean
  <2> QED
    BY <2>1 DEF LogInv, Sane, Clean
<1> HIDE DEF s
<1>11. Fine(s, clock')
  BY <1>1, <1>4, <1>10, LaterStamps
<1>12. ASSUME NEW r \in Processes, At(r, j)' PROVE Fits(s, queue'[r], r, clock'[r], busy'[r])
  <2>1. CASE r # p
    <3>1. At(r, j)
      BY <1>7, <1>12, <2>1 DEF At, Alive
    <3> QED
      BY <1>7, <1>10, <2>1, <3>1
  <2>2. CASE r = p
    <3>1. j = i
      BY <1>7, <1>12, <2>2 DEF At
    <3>2. queue'[p] = all
      BY <1>4, <1>6, <1>7, <3>1 DEF Clean
    <3>3. Fits(s, queue[p], p, clock[p], busy[p])
      <4>1. CASE At(p, i)
        BY <1>10, <3>1, <4>1
      <4>2. CASE ~Alive(p)
        <5>1. queue[p] = <<>> /\ ~busy[p]
          BY <1>1, <4>2 DEF LogTypes
        <5>2. 1..Len(<<>>) = {}
          OBVIOUS
        <5> QED
          BY <5>1, <5>2 DEF Fits
      <4> QED
        BY <4>1, <4>2
    <3>4. \A a \in 1..Len(s) : s[a].by = p => s[a].n <= clock[p]
      BY <1>10 DEF Fine, Stamped
    <3>5. \A k \in 1..Len(ev) : ev[k].by = p /\ ev[k].n = clock[p] + k
      BY <1>2
    <3>6. \A k \in 1..Len(ev) : ev[k].type = "delta" => k = 1 /\ busy[p]
      BY <1>2
    <3>7. b => /\ \A k \in 1..Len(ev) : ev[k].type # "done"
               /\ busy[p] \/ (Len(ev) > 0 /\ ev[Len(ev)].type = "started")
      BY <1>1, <1>2
    <3>8. Fits(s, queue[p] \o ev, p, clock[p] + Len(ev), b)
      <4>1. /\ s \in Seq(LogEvents) /\ queue[p] \in Seq(LogEvents) /\ ev \in Seq(LogEvents)
            /\ clock[p] \in Nat
        BY <1>1, <1>2, <1>10
      <4> QED
        BY <3>3, <3>4, <3>5, <3>6, <3>7, <4>1, QueueGrows, Zenon
    <3> QED
      BY <1>2, <1>7, <2>2, <3>2, <3>8 DEF all
  <2> QED
    BY <2>1, <2>2
<1> QED
  BY <1>11, <1>12 DEF s

(* A step of the runtime goroutine that publishes nothing.                 *)
LEMMA QuietStep ==
  ASSUME LogInv, UNCHANGED <<disk, queue, busy, clock, gap>>, NEW p \in Processes, Alive(p),
         NEW next \in Running, proc' = [proc EXCEPT ![p] = next], next.id = proc[p].id
  PROVE  LogInv'
<1>1. LogTypes /\ proc \in [Processes -> Running \union {Unborn, Dead}]
  BY DEF LogInv, LogTypes
<1>2. \A r \in Processes : proc'[r] = IF r = p THEN next ELSE proc[r]
  BY <1>1
<1>3. next.pc \notin {"unborn", "dead"}
  BY DEF Running
<1>4. \A r \in Processes : (Alive(r)' <=> Alive(r)) /\ proc'[r].id = proc[r].id
  BY <1>2, <1>3 DEF Alive
<1>5. LogTypes'
  BY <1>1, <1>4 DEF LogTypes
<1>6. ASSUME NEW j \in Ids PROVE Sane(j)'
  <2>1. Sane(j) /\ (Clean(j)' <=> Clean(j)) /\ \A r \in Processes : At(r, j)' <=> At(r, j)
    BY <1>4 DEF LogInv, Clean, At
  <2> QED
    BY <2>1 DEF Sane
<1> QED
  BY <1>5, <1>6 DEF LogInv

(* The process ends, with what is in its subscription.                     *)
LEMMA GoneKeeps ==
  ASSUME LogInv, NEW p \in Processes, Gone(p)
  PROVE  LogInv'
<1>1. /\ LogTypes /\ UNCHANGED <<disk, clock, gap>> /\ proc' = [proc EXCEPT ![p] = Dead]
      /\ queue' = [queue EXCEPT ![p] = <<>>] /\ busy' = [busy EXCEPT ![p] = FALSE]
  BY DEF LogInv, Gone
<1>2. \A r \in Processes :
        /\ r # p => proc'[r] = proc[r] /\ queue'[r] = queue[r] /\ busy'[r] = busy[r]
        /\ r = p => proc'[r] = Dead /\ queue'[r] = <<>> /\ busy'[r] = FALSE
  BY <1>1 DEF LogTypes
<1>3. Dead.pc = "dead" /\ <<>> \in Seq(LogEvents)
  BY DEF Dead
<1>4. \A r \in Processes : Alive(r)' => r # p /\ Alive(r)
  BY <1>2, <1>3 DEF Alive
<1>5. LogTypes'
  <2>1. /\ proc' \in [Processes -> Running \union {Unborn, Dead}]
        /\ queue' \in [Processes -> Seq(LogEvents)] /\ busy' \in [Processes -> BOOLEAN]
    BY <1>1, <1>3 DEF LogTypes
  <2>2. ASSUME NEW r \in Processes, ~Alive(r)' PROVE queue'[r] = <<>> /\ ~busy'[r]
    <3>1. CASE r = p
      BY <1>2, <3>1
    <3>2. CASE r # p
      <4>1. ~Alive(r)
        BY <1>2, <2>2, <3>2 DEF Alive
      <4> QED
        BY <1>1, <1>2, <3>2, <4>1 DEF LogTypes
    <3> QED
      BY <3>1, <3>2
  <2> QED
    BY <1>1, <2>1, <2>2 DEF LogTypes
<1>6. ASSUME NEW j \in Ids PROVE Sane(j)'
  <2>1. Sane(j) /\ (Clean(j)' <=> Clean(j))
    BY <1>1 DEF LogInv, Clean
  <2>2. \A r \in Processes : At(r, j)' => /\ At(r, j) /\ queue'[r] = queue[r] /\ busy'[r] = busy[r]
    BY <1>2, <1>4 DEF At
  <2> QED
    BY <1>1, <2>1, <2>2 DEF Sane
<1> QED
  BY <1>5, <1>6 DEF LogInv

(* What is in a file after a write: the line, or a bad one.                *)
LEMMA WrittenFile ==
  ASSUME NEW file \in File, file.open => file.lines # <<>>, NEW e \in LogEvents,
         NEW t \in Torn(file, e) \union {Appended(file, e)}
  PROVE  /\ t \in File /\ (t.open => t.lines # <<>>)
         /\ t.lines \in Seq(LogEvents) =>
              file.lines \in Seq(LogEvents) /\ t.lines = Append(file.lines, e)
<1> DEFINE Lines == LogEvents \union {Garbage}
           l == file.lines
           cut == [l EXCEPT ![Len(l)] = Garbage]
<1>1. l \in Seq(Lines) /\ e \in Lines /\ Garbage \in Lines /\ Len(l) \in Nat /\ Garbage \notin LogEvents
  BY LogAssumption DEF File
<1>2. file = [lines |-> l, open |-> file.open] /\ file.open \in BOOLEAN
  BY DEF File
<1>3. file.open => Len(l) \in 1..Len(l)
  BY <1>1
<1> HIDE DEF Lines, l
<1>4. ASSUME file.open PROVE cut \in Seq(Lines) /\ cut # <<>> /\ cut \notin Seq(LogEvents)
  <2>1. cut \in Seq(Lines) /\ Len(cut) = Len(l) /\ cut[Len(l)] = Garbage
    BY <1>1, <1>3, <1>4, ExceptSeq
  <2>2. ASSUME cut \in Seq(LogEvents) PROVE FALSE
    <3>1. cut[Len(l)] \in LogEvents
      BY <1>3, <1>4, <2>1, <2>2
    <3> QED
      BY <1>1, <2>1, <3>1
  <2>3. cut # <<>>
    BY <1>3, <1>4, <2>1
  <2> QED
    BY <2>1, <2>2, <2>3
<1>5. ASSUME NEW x \in Lines
      PROVE  /\ Append(l, x) \in Seq(Lines) /\ Append(l, x) # <<>>
             /\ Append(l, x) \in Seq(LogEvents) => l \in Seq(LogEvents) /\ x \in LogEvents
  <2> DEFINE m == Append(l, x)
  <2>1. /\ m \in Seq(Lines) /\ Len(m) = Len(l) + 1 /\ m[Len(l) + 1] = x
        /\ \A k \in 1..Len(l) : m[k] = l[k]
    BY <1>1
  <2> HIDE DEF m
  <2>2. m # <<>>
    BY <1>1, <2>1
  <2>3. ASSUME m \in Seq(LogEvents) PROVE l \in Seq(LogEvents) /\ x \in LogEvents
    <3>1. \A k \in 1..Len(l) + 1 : m[k] \in LogEvents
      BY <2>1, <2>3
    <3>2. x \in LogEvents
      BY <1>1, <2>1, <3>1
    <3>3. \A k \in 1..Len(l) : l[k] \in LogEvents
      BY <1>1, <2>1, <3>1
    <3> QED
      BY <1>1, <3>2, <3>3
  <2> QED
    BY <2>1, <2>2, <2>3 DEF m
<1>6. \A q \in Seq(Lines), o \in BOOLEAN : [lines |-> q, open |-> o] \in File
  BY DEF File, Lines
<1>7. CASE file.open
  <2>1. \E o \in BOOLEAN : t = [lines |-> cut, open |-> o]
    <3>1. CASE t = Appended(file, e)
      BY <1>2, <1>7, <3>1 DEF Appended, l
    <3>2. CASE t \in Torn(file, e)
      BY <1>2, <1>7, <3>2 DEF Torn, l
    <3> QED
      BY <3>1, <3>2
  <2>2. PICK o \in BOOLEAN : t = [lines |-> cut, open |-> o]
    BY <2>1
  <2>3. cut \in Seq(Lines) /\ cut # <<>> /\ cut \notin Seq(LogEvents)
    BY <1>4, <1>7
  <2> HIDE DEF cut
  <2>4. t \in File /\ t.lines = cut
    BY <1>6, <2>2, <2>3
  <2> QED
    BY <2>3, <2>4
<1>8. CASE ~file.open
  <2>1. \E o \in BOOLEAN, x \in {e, Garbage} : t = [lines |-> Append(l, x), open |-> o]
    <3>1. CASE t = Appended(file, e)
      BY <1>2, <1>8, <3>1 DEF Appended, l
    <3>2. CASE t \in Torn(file, e)
      <4>1. PICK x \in {e, Garbage} : t = [file EXCEPT !.lines = Append(@, x), !.open = TRUE]
        BY <1>8, <3>2 DEF Torn
      <4> QED
        BY <1>2, <4>1 DEF l
    <3> QED
      BY <3>1, <3>2
  <2>2. PICK o \in BOOLEAN, x \in {e, Garbage} : t = [lines |-> Append(l, x), open |-> o]
    BY <2>1
  <2> QED
    BY <1>1, <1>5, <1>6, <2>2 DEF l
<1> QED
  BY <1>7, <1>8

LEMMA WriteLineKeeps ==
  ASSUME LogInv, NEW p \in Processes, WriteLine(p)
  PROVE  LogInv'
<1> DEFINE i == proc[p].id
           file == disk[i]
           q == queue[p]
           e == Head(q)
<1>1. /\ LogTypes /\ q \in Seq(LogEvents) /\ q # <<>> /\ e \in LogEvents
      /\ queue \in [Processes -> Seq(LogEvents)] /\ Tail(q) \in Seq(LogEvents)
  <2>1. LogTypes /\ q \in Seq(LogEvents) /\ q # <<>> /\ queue \in [Processes -> Seq(LogEvents)]
    BY DEF LogInv, LogTypes, WriteLine
  <2> QED
    BY <2>1
<1>2. Alive(p) /\ i \in Ids
  BY <1>1, Living DEF LogTypes
<1>3. /\ file \in File /\ (file.open => file.lines # <<>>) /\ disk \in [Ids -> File]
      /\ clock \in [Processes -> Nat]
  BY <1>1, <1>2 DEF LogTypes
<1>4. queue' = [queue EXCEPT ![p] = Tail(q)] /\ UNCHANGED <<proc, busy, clock>>
  BY DEF WriteLine
<1>5. \A r \in Processes : queue'[r] = IF r = p THEN Tail(q) ELSE queue[r]
  BY <1>1, <1>4
<1>6. \A r \in Processes : \A j : (Alive(r)' <=> Alive(r)) /\ (At(r, j)' <=> At(r, j))
  BY <1>4 DEF Alive, At
<1>7. \/ /\ gap' = gap
         /\ \E t \in Torn(file, e) \union {Appended(file, e)} : disk' = [disk EXCEPT ![i] = t]
      \/ gap' = gap \cup {i} /\ UNCHANGED disk
  BY DEF WriteLine
<1>8. /\ queue' \in [Processes -> Seq(LogEvents)]
      /\ \A r \in Processes : ~Alive(r)' => queue'[r] = <<>> /\ ~busy'[r]
  <2>1. \A r \in Processes : ~Alive(r) => r # p /\ queue[r] = <<>> /\ ~busy[r]
    BY <1>1, <1>2 DEF LogTypes
  <2> QED
    BY <1>1, <1>4, <1>5, <1>6, <2>1
<1>9. CASE gap' = gap \cup {i} /\ UNCHANGED disk
  <2>1. LogTypes'
    BY <1>1, <1>4, <1>8, <1>9 DEF LogTypes
  <2>2. ASSUME NEW j \in Ids PROVE Sane(j)'
    <3> SUFFICES ASSUME Clean(j)'
                 PROVE  /\ Fine(disk'[j].lines, clock')
                        /\ \A r \in Processes : At(r, j)' =>
                             Fits(disk'[j].lines, queue'[r], r, clock'[r], busy'[r])
      BY DEF Sane
    <3>1. Clean(j) /\ j # i /\ Sane(j)
      BY <1>9 DEF Clean, LogInv
    <3>2. \A r \in Processes : At(r, j) => r # p
      BY <3>1 DEF At
    <3> QED
      BY <1>4, <1>5, <1>6, <1>9, <3>1, <3>2 DEF Sane
  <2> QED
    BY <2>1, <2>2 DEF LogInv
<1>10. CASE gap' = gap /\ \E t \in Torn(file, e) \union {Appended(file, e)} :
                            disk' = [disk EXCEPT ![i] = t]
  <2>1. PICK t \in Torn(file, e) \union {Appended(file, e)} : disk' = [disk EXCEPT ![i] = t]
    BY <1>10
  <2>2. /\ t \in File /\ (t.open => t.lines # <<>>)
        /\ t.lines \in Seq(LogEvents) =>
             file.lines \in Seq(LogEvents) /\ t.lines = Append(file.lines, e)
    BY <1>1, <1>3, WrittenFile
  <2>3. \A j \in Ids : disk'[j] = IF j = i THEN t ELSE disk[j]
    BY <1>3, <2>1
  <2>4. LogTypes'
    <3>1. disk' \in [Ids -> File] /\ \A j \in Ids : disk'[j].open => disk'[j].lines # <<>>
      BY <1>1, <1>3, <2>1, <2>2, <2>3 DEF LogTypes
    <3> QED
      BY <1>1, <1>4, <1>8, <3>1 DEF LogTypes
  <2>5. ASSUME NEW j \in Ids PROVE Sane(j)'
    <3> SUFFICES ASSUME Clean(j)'
                 PROVE  /\ Fine(disk'[j].lines, clock)
                        /\ \A r \in Processes : At(r, j) =>
                             Fits(disk'[j].lines, queue'[r], r, clock[r], busy[r])
      BY <1>4, <1>6 DEF Sane
    <3>1. CASE j # i
      <4>1. Clean(j) /\ disk'[j] = disk[j] /\ Sane(j)
        BY <1>10, <2>3, <3>1 DEF Clean, LogInv
      <4>2. \A r \in Processes : At(r, j) => queue'[r] = queue[r]
        BY <1>5, <3>1 DEF At
      <4> QED
        BY <4>1, <4>2 DEF Sane
    <3>2. CASE j = i
      <4>1. /\ t.lines = Append(file.lines, e) /\ file.lines \in Seq(LogEvents)
            /\ disk'[j].lines = t.lines
        BY <2>2, <2>3, <3>2 DEF Clean
      <4>2. /\ Fine(file.lines, clock)
            /\ \A r \in Processes : At(r, i) =>
                 Fits(file.lines, queue[r], r, clock[r], busy[r])
        <5>1. Clean(i) /\ Sane(i)
          BY <1>2, <1>10, <3>2, <4>1 DEF Clean, LogInv
        <5> QED
          BY <5>1 DEF Sane
      <4>3. At(p, i)
        BY <1>2 DEF At
      <4>4. /\ Fine(Append(file.lines, e), clock)
            /\ Fits(Append(file.lines, e), Tail(q), p, clock[p], busy[p])
        <5>1. Fits(file.lines, q, p, clock[p], busy[p])
          BY <4>2, <4>3
        <5> HIDE DEF file, q, i
        <5> QED
          BY <1>1, <1>3, <4>1, <4>2, <5>1, OwnLine DEF e
      <4>5. ASSUME NEW r \in Processes, At(r, i), r # p
            PROVE  Fits(Append(file.lines, e), queue[r], r, clock[r], busy[r])
        <5>1. Fits(file.lines, q, p, clock[p], busy[p]) /\ 1 \in 1..Len(q) /\ e = q[1]
          BY <1>1, <4>2, <4>3
        <5>2. e.by = p
          BY <5>1 DEF Fits
        <5>3. Fits(file.lines, queue[r], r, clock[r], busy[r]) /\ queue[r] \in Seq(LogEvents)
          BY <1>1, <4>2, <4>5
        <5> HIDE DEF file, e, i
        <5> QED
          BY <1>1, <4>1, <4>5, <5>2, <5>3, OthersLine
      <4> QED
        BY <1>5, <3>2, <4>1, <4>4, <4>5
    <3> QED
      BY <3>1, <3>2
  <2> QED
    BY <2>4, <2>5 DEF LogInv
<1> QED
  BY <1>7, <1>9, <1>10

(* A process's one or two events: of its start, of what it restored, or of *)
(* a run.                                                                  *)
LEMMA OneEvent ==
  ASSUME LogInv, NEW p \in Processes, NEW i \in Ids, NEW type \in EventTypes,
         Publish(p, i, <<type>>), UNCHANGED disk, At(p, i) \/ ~Alive(p),
         NEW next \in Running, proc' = [proc EXCEPT ![p] = next], next.id = i,
         NEW b \in BOOLEAN, busy' = [busy EXCEPT ![p] = b],
         type = "delta" => busy[p],
         b => type # "done" /\ (busy[p] \/ type = "started")
  PROVE  LogInv'
<1> DEFINE types == <<type>>
<1>1. /\ types \in Seq(EventTypes) /\ Len(types) = 1 /\ types[1] = type
      /\ \A k \in 1..Len(types) : k = 1
  OBVIOUS
<1>2. Publish(p, i, types)
  OBVIOUS
<1> HIDE DEF types
<1>3. \A k \in 1..Len(types) : types[k] = "delta" => k = 1 /\ busy[p]
  BY <1>1
<1>4. b => \A k \in 1..Len(types) : types[k] # "done"
  BY <1>1
<1>5. b => busy[p] \/ (Len(types) > 0 /\ types[Len(types)] = "started")
  BY <1>1
<1> QED
  BY <1>1, <1>2, <1>3, <1>4, <1>5, PublishKeeps, Zenon

LEMMA TwoEvents ==
  ASSUME LogInv, NEW p \in Processes, NEW i \in Ids,
         NEW first \in {"started", "prompt"}, NEW second \in {"context", "started"},
         Publish(p, i, <<first, second>>), UNCHANGED disk, At(p, i),
         NEW next \in Running, proc' = [proc EXCEPT ![p] = next], next.id = i,
         NEW b \in BOOLEAN, busy' = [busy EXCEPT ![p] = b],
         b => busy[p] \/ second = "started"
  PROVE  LogInv'
<1> DEFINE types == <<first, second>>
<1>1. /\ types \in Seq(EventTypes) /\ Len(types) = 2 /\ types[2] = second
      /\ \A k \in 1..Len(types) : types[k] # "delta" /\ types[k] # "done"
  BY DEF EventTypes
<1>2. Publish(p, i, types)
  OBVIOUS
<1> HIDE DEF types
<1>3. \A k \in 1..Len(types) : types[k] = "delta" => k = 1 /\ busy[p]
  BY <1>1
<1>4. b => \A k \in 1..Len(types) : types[k] # "done"
  BY <1>1
<1>5. b => busy[p] \/ (Len(types) > 0 /\ types[Len(types)] = "started")
  BY <1>1
<1> QED
  BY <1>1, <1>2, <1>3, <1>4, <1>5, PublishKeeps, Zenon

(* Where a process is, whatever step it takes next.                        *)
LEMMA Standing ==
  ASSUME LogTypes, NEW p \in Processes
  PROVE  /\ proc = [proc EXCEPT ![p] = proc[p]] /\ busy = [busy EXCEPT ![p] = busy[p]]
         /\ busy[p] \in BOOLEAN
         /\ Alive(p) => proc[p] \in Running /\ proc[p].id \in Ids /\ At(p, proc[p].id)
         /\ proc[p].pc \notin {"unborn", "dead"} => Alive(p)
         /\ busy[p] => Alive(p)
<1>1. proc = [proc EXCEPT ![p] = proc[p]] /\ busy = [busy EXCEPT ![p] = busy[p]]
  BY DEF LogTypes
<1>2. busy[p] \in BOOLEAN /\ (~Alive(p) => ~busy[p])
  BY DEF LogTypes
<1>3. Alive(p) <=> proc[p].pc \notin {"unborn", "dead"}
  BY DEF Alive
<1>4. Alive(p) => proc[p] \in Running /\ proc[p].id \in Ids /\ At(p, proc[p].id)
  BY Living DEF At
<1> QED
  BY <1>1, <1>2, <1>3, <1>4, Zenon

LEMMA MovesOn ==
  ASSUME LogTypes, NEW p \in Processes, Alive(p), NEW pc \in {"choose", "load", "serve"},
         Goes(p, pc)
  PROVE  \E next \in Running : next.id = proc[p].id /\ proc' = [proc EXCEPT ![p] = next]
<1> DEFINE next == [proc[p] EXCEPT !.pc = pc]
<1>1. proc[p] \in Running
  BY Standing
<1>2. next \in Running /\ next.id = proc[p].id
  BY <1>1 DEF Running
<1>3. proc' = [proc EXCEPT ![p] = next]
  BY DEF Goes
<1> QED
  BY <1>2, <1>3

LEMMA StartKeeps ==
  ASSUME LogInv, NEW p \in Processes, Start(p)
  PROVE  LogInv'
<1>1. /\ LogTypes /\ ~Alive(p) /\ busy' = [busy EXCEPT ![p] = FALSE] /\ UNCHANGED disk
  <2>1. LogTypes /\ ~Alive(p) /\ UNCHANGED <<disk, busy>>
    BY Living DEF LogInv, Start
  <2>2. busy[p] = FALSE
    BY <2>1 DEF LogTypes
  <2> QED
    BY <2>1, <2>2, Standing
<1>2. PICK i \in Ids, pc \in {"choose", "serve"} :
        /\ proc' = [proc EXCEPT ![p] = [pc |-> pc, id |-> i]]
        /\ Publish(p, i, <<"context">>)
  BY DEF Start
<1> DEFINE next == [pc |-> pc, id |-> i]
<1>3. next \in Running /\ next.id = i /\ "context" \in EventTypes
  BY DEF Running, EventTypes
<1>4. proc' = [proc EXCEPT ![p] = next]
  BY <1>2
<1> HIDE DEF next
<1> QED
  BY <1>1, <1>2, <1>3, <1>4, OneEvent

LEMMA ChooseLatestKeeps ==
  ASSUME LogInv, NEW p \in Processes, ChooseLatest(p)
  PROVE  LogInv'
<1>1. LogTypes /\ Alive(p) /\ UNCHANGED <<disk, queue, busy, clock, gap>>
  BY DEF LogInv, ChooseLatest, Alive
<1>2. \E pc \in {"load", "serve"} : Goes(p, pc)
  BY DEF ChooseLatest
<1>3. PICK next \in Running : next.id = proc[p].id /\ proc' = [proc EXCEPT ![p] = next]
  BY <1>1, <1>2, MovesOn
<1> QED
  BY <1>1, <1>3, QuietStep

LEMMA ResumeKeeps ==
  ASSUME LogInv, NEW p \in Processes, Resume(p)
  PROVE  LogInv'
<1>1. LogTypes /\ Alive(p)
  BY DEF LogInv, Resume, Alive
<1>2. CASE Goes(p, "serve") /\ UNCHANGED <<disk, queue, busy, clock, gap>>
  <2>1. PICK next \in Running : next.id = proc[p].id /\ proc' = [proc EXCEPT ![p] = next]
    BY <1>1, <1>2, MovesOn
  <2> QED
    BY <1>1, <1>2, <2>1, QuietStep
<1>3. CASE Gone(p)
  BY <1>3, GoneKeeps
<1>4. CASE Publish(p, proc[p].id, <<"started", "context">>) /\ Goes(p, "serve")
             /\ UNCHANGED <<disk, busy>>
  <2>1. PICK next \in Running : next.id = proc[p].id /\ proc' = [proc EXCEPT ![p] = next]
    BY <1>1, <1>4, MovesOn
  <2>2. /\ busy' = [busy EXCEPT ![p] = busy[p]] /\ busy[p] \in BOOLEAN
        /\ proc[p].id \in Ids /\ At(p, proc[p].id)
    BY <1>1, <1>4, Standing
  <2>3. "started" \in {"started", "prompt"} /\ "context" \in {"context", "started"}
    OBVIOUS
  <2>4. UNCHANGED disk /\ (busy[p] => busy[p] \/ "context" = "started")
    BY <1>4
  <2> QED
    BY <1>4, <2>1, <2>2, <2>3, <2>4, TwoEvents, Zenon
<1> QED
  BY <1>2, <1>3, <1>4 DEF Resume

(* What a run or the user publishes, in a process that stays where it is.  *)
LEMMA RunKeeps ==
  ASSUME LogInv, NEW p \in Processes, Alive(p), UNCHANGED <<disk, proc>>,
         NEW b \in BOOLEAN, busy' = [busy EXCEPT ![p] = b],
         \/ Publish(p, proc[p].id, <<"prompt", "started">>)
         \/ \E type \in EventTypes :
              /\ Publish(p, proc[p].id, <<type>>)
              /\ type = "delta" => busy[p]
              /\ b => type # "done" /\ (busy[p] \/ type = "started")
  PROVE  LogInv'
<1> DEFINE i == proc[p].id
           next == proc[p]
<1>1. LogTypes /\ UNCHANGED disk
  BY DEF LogInv
<1>2. /\ i \in Ids /\ At(p, i) /\ next \in Running /\ next.id = i
      /\ proc' = [proc EXCEPT ![p] = next]
  BY <1>1, Standing
<1> HIDE DEF i, next
<1>3. CASE Publish(p, i, <<"prompt", "started">>)
  <2>1. "prompt" \in {"started", "prompt"} /\ "started" \in {"context", "started"}
    OBVIOUS
  <2>2. b => busy[p] \/ "started" = "started"
    OBVIOUS
  <2> QED
    BY <1>1, <1>2, <1>3, <2>1, <2>2, TwoEvents, Zenon
<1>4. ASSUME NEW type \in EventTypes, Publish(p, i, <<type>>), type = "delta" => busy[p],
             b => type # "done" /\ (busy[p] \/ type = "started")
      PROVE  LogInv'
  BY <1>1, <1>2, <1>4, OneEvent, Zenon
<1> QED
  BY <1>3, <1>4 DEF i

(* LogInv is inductive.                                                    *)
LEMMA LogInductive == LInit => LogInv
<1> SUFFICES ASSUME LInit PROVE LogInv
  OBVIOUS
<1>1. <<>> \in Seq(LogEvents) /\ <<>> \in Seq(LogEvents \union {Garbage})
  BY EmptySeq
<1>2. Unborn.pc = "unborn" /\ \A p \in Processes : ~Alive(p)
  <2>1. Unborn.pc = "unborn"
    BY DEF Unborn
  <2> QED
    BY <2>1 DEF LInit, Alive
<1>3. LogTypes
  <2>1. disk \in [Ids -> File] /\ \A i \in Ids : ~disk[i].open
    BY <1>1 DEF LInit, File
  <2> QED
    BY <1>1, <2>1 DEF LInit, LogTypes
<1>4. ASSUME NEW i \in Ids PROVE Sane(i)
  <2>1. disk[i].lines = <<>> /\ \A p \in Processes : ~At(p, i)
    BY <1>2 DEF LInit, At
  <2>2. Len(<<>>) = 0 /\ 1..0 = {}
    OBVIOUS
  <2>3. Fine(<<>>, clock)
    BY <2>2 DEF Fine, Voiced, InOrder, Stamped
  <2> QED
    BY <2>1, <2>3 DEF Sane
<1> QED
  BY <1>3, <1>4 DEF LogInv

LEMMA LogStep == LogInv /\ [LNext]_lvars => LogInv'
<1> SUFFICES ASSUME LogInv, [LNext]_lvars PROVE LogInv'
  OBVIOUS
<1>0. LogTypes
  BY DEF LogInv
<1>1. ASSUME NEW p \in Processes, WriteLine(p) PROVE LogInv'
  BY <1>1, WriteLineKeeps
<1>2. ASSUME NEW p \in Processes, Start(p) PROVE LogInv'
  BY <1>2, StartKeeps
<1>3. ASSUME NEW p \in Processes, ChooseLatest(p) PROVE LogInv'
  BY <1>3, ChooseLatestKeeps
<1>4. ASSUME NEW p \in Processes, Resume(p) PROVE LogInv'
  BY <1>4, ResumeKeeps
<1>a. {"started", "prompt", "delta", "result", "done"} \subseteq EventTypes
  BY DEF EventTypes
<1>b. TRUE \in BOOLEAN /\ FALSE \in BOOLEAN
  OBVIOUS
<1>5. ASSUME NEW p \in Processes, StartRun(p) PROVE LogInv'
  <2>1. /\ Alive(p) /\ UNCHANGED <<disk, proc>> /\ Publish(p, proc[p].id, <<"started">>)
        /\ busy' = [busy EXCEPT ![p] = TRUE]
    BY <1>0, <1>5, Standing DEF StartRun
  <2>2. \E type \in EventTypes :
          /\ Publish(p, proc[p].id, <<type>>) /\ (type = "delta" => busy[p])
          /\ (TRUE => type # "done" /\ (busy[p] \/ type = "started"))
    BY <1>a, <2>1
  <2> QED
    BY <1>b, <2>1, <2>2, RunKeeps, Zenon
<1>6. ASSUME NEW p \in Processes, Prompt(p) PROVE LogInv'
  <2>1. Alive(p) /\ UNCHANGED <<disk, proc>> /\ busy' = [busy EXCEPT ![p] = TRUE]
    BY <1>0, <1>6, Standing DEF Prompt
  <2>2. \/ Publish(p, proc[p].id, <<"prompt", "started">>)
        \/ Publish(p, proc[p].id, <<"prompt">>) /\ busy[p]
    BY <1>6 DEF Prompt
  <2>3. \/ Publish(p, proc[p].id, <<"prompt", "started">>)
        \/ \E type \in EventTypes :
             /\ Publish(p, proc[p].id, <<type>>) /\ (type = "delta" => busy[p])
             /\ (TRUE => type # "done" /\ (busy[p] \/ type = "started"))
    BY <1>a, <2>2
  <2> QED
    BY <1>b, <2>1, <2>3, RunKeeps, Zenon
<1>7. ASSUME NEW p \in Processes, Say(p) PROVE LogInv'
  <2>1. /\ Alive(p) /\ UNCHANGED <<disk, proc>> /\ busy[p] /\ busy[p] \in BOOLEAN
        /\ busy' = [busy EXCEPT ![p] = busy[p]]
    BY <1>0, <1>7, Standing DEF Say
  <2>2. \E type \in EventTypes :
          /\ Publish(p, proc[p].id, <<type>>) /\ (type = "delta" => busy[p])
          /\ (busy[p] => type # "done" /\ (busy[p] \/ type = "started"))
    BY <1>a, <1>7, <2>1 DEF Say
  <2> QED
    BY <2>1, <2>2, RunKeeps, Zenon
<1>8. ASSUME NEW p \in Processes, EndRun(p) PROVE LogInv'
  <2>1. /\ Alive(p) /\ UNCHANGED <<disk, proc>> /\ Publish(p, proc[p].id, <<"done">>)
        /\ busy' = [busy EXCEPT ![p] = FALSE]
    BY <1>0, <1>8, Standing DEF EndRun
  <2>2. \E type \in EventTypes :
          /\ Publish(p, proc[p].id, <<type>>) /\ (type = "delta" => busy[p])
          /\ (FALSE => type # "done" /\ (busy[p] \/ type = "started"))
    BY <1>a, <2>1
  <2> QED
    BY <1>b, <2>1, <2>2, RunKeeps, Zenon
<1>9. ASSUME NEW p \in Processes, Die(p) PROVE LogInv'
  BY <1>9, GoneKeeps DEF Die
<1>10. CASE UNCHANGED lvars
  BY <1>10 DEF lvars, LogInv, LogTypes, Alive, Sane, Clean, At
<1> QED
  BY <1>1, <1>2, <1>3, <1>4, <1>5, <1>6, <1>7, <1>8, <1>9, <1>10 DEF LNext

LEMMA LogIsWhole == LogInv => HistoryIsWhole
<1> SUFFICES ASSUME LogInv, NEW i \in Ids, Usable(i), i \notin gap
             PROVE  WholeOf(ExtractHistory(disk[i].lines), disk[i].lines)
  BY Zenon DEF HistoryIsWhole, WholeOf
<1> DEFINE s == disk[i].lines
<1>1. s \in Seq(LogEvents \union {Garbage}) /\ \A k \in 1..Len(s) : s[k] # Garbage
  BY DEF LogInv, LogTypes, File, Usable
<1> HIDE DEF s
<1>2. s \in Seq(LogEvents)
  BY <1>1
<1>3. Sane(i) /\ Clean(i)
  BY <1>2 DEF LogInv, Clean, s
<1>4. Voiced(s) /\ InOrder(s)
  BY <1>3 DEF Sane, Fine, s
<1> QED
  BY <1>2, <1>4, ToldWhole DEF s

(* The conversation a resumed session goes on from is what its log says:   *)
(* all of it that is settled and that no other process talked over, once   *)
(* and in the order of the lines, what one process said in the order it    *)
(* said it, and no message over another's end.  For logs of any length,    *)
(* any number of sessions, and any number of processes that append to one  *)
(* log one after the other or at the same time, wherever they end.         *)
THEOREM HistoriesAreWhole == LSpec => []HistoryIsWhole
<1> QED
  BY LogInductive, LogStep, LogIsWhole, PTL DEF LSpec

=============================================================================
