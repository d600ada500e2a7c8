--------------------------- MODULE PipelineProofs ---------------------------
(***************************************************************************)
(* What Pipeline promises of tokens, budgets, rules and limits, for any    *)
(* policy, any rules files and any number of tools, tokens and calls.      *)
(*                                                                         *)
(* The argument for budgets is the long one.  A tracker counts what was    *)
(* sent since its window began, nothing was sent after the end of that     *)
(* window, and no more than the limit in as long a time before it: so any  *)
(* stretch of a window's length meets at most two windows.                 *)
(***************************************************************************)
EXTENDS Pipeline, FiniteSetTheorems, TLAPS

Ofs(i) == PolicyRules[i].tools
Limit(i) == PolicyRules[i].limit

SentOf(ss, i, from, to) ==
  {n \in DOMAIN ss : ss[n].tool \in Ofs(i) /\ ss[n].time \in from..to}

Counts(b, i, ss, time) ==
  /\ \A n \in DOMAIN ss : ss[n].tool \in Ofs(i) =>
       ss[n].time < b.start + Window /\ ss[n].time <= time
  /\ Cardinality(SentOf(ss, i, b.start, time)) <= b.count
  /\ Cardinality(SentOf(ss, i, b.start - Window, b.start - 1)) <= Limit(i)
  /\ \A from \in 0..time : Cardinality(SentOf(ss, i, from, from + Window - 1)) <= 2 * Limit(i)

BudgetsCount == \A i \in Binding : Counts(budgets[i], i, starts, now)

TokenOf(s) ==
  /\ s.tool \in (StateChanging \ {t \in Tools : Waived(t)}) \cup Always => s.token # NoToken
  /\ s.token # NoToken =>
       /\ tokens[s.token].status = "consumed" /\ tokens[s.token].granted
       /\ tokens[s.token].tool = s.tool /\ tokens[s.token].arg = s.arg
       /\ tokens[s.token].version = tokens[s.token].used

TokensTrack ==
  /\ \A k \in Tokens : tokens[k].status = "granted" => tokens[k].granted
  /\ \A n \in DOMAIN starts : TokenOf(starts[n])
  /\ \A n, m \in DOMAIN starts :
       starts[n].token # NoToken /\ starts[n].token = starts[m].token => n = m

\* The history is the end of what has been done.
HistoryTracks ==
  /\ Len(history) = IF Len(done) <= HistoryCap THEN Len(done) ELSE HistoryCap
  /\ \A n \in 1..Len(history) : history[n].tool = done[Len(done) - Len(history) + n].tool

\* What is not known to be stale came from some rules file, and what is will be
\* read again.
FileTracks == IF stale THEN ~apart ELSE rules \in RuleFiles

IInv ==
  TypeOK /\ BudgetsCount /\ TokensTrack /\ HistoryTracks /\ FileTracks /\ RateHolds

----------------------------------------------------------------------------
(* Counting and recursion.                                                 *)

\* A set of numbers has a least one.
LEMMA LeastElement ==
  ASSUME NEW n \in Nat, NEW S \in SUBSET (0..n), S # {}
  PROVE  \E k \in S : \A j \in S : k <= j
<1> DEFINE F == {0..k : k \in S}
<1>1. IsFiniteSet(0..n)
  BY FS_Interval
<1>2. F \subseteq FiniteSubsetsOf(0..n)
  <2>1. F \subseteq SUBSET (0..n)
    OBVIOUS
  <2>2. FiniteSubsetsOf(0..n) = SUBSET (0..n)
    BY <1>1, FS_FiniteSubsetsOfFinite
  <2> QED
    BY <2>1, <2>2
<1>3. PICK x \in F : \A y \in F : ~(<<y, x>> \in StrictSubsetOrdering(0..n))
  <2>1. IsWellFoundedOn(StrictSubsetOrdering(0..n), FiniteSubsetsOf(0..n))
    BY FS_StrictSubsetOrderingWellFounded
  <2>2. F # {}
    OBVIOUS
  <2> HIDE DEF F
  <2> QED
    BY <1>2, <2>1, <2>2, WFMin
<1>4. PICK k \in S : x = 0..k
  BY <1>3
<1>5. \A j \in S : k <= j
  <2> SUFFICES ASSUME NEW j \in S, j < k PROVE FALSE
    OBVIOUS
  <2>1. 0..j \in F /\ 0..j \subseteq 0..k /\ 0..j # 0..k /\ 0..k \subseteq 0..n
    OBVIOUS
  <2> QED
    BY <1>3, <1>4, <2>1 DEF StrictSubsetOrdering
<1> QED
  BY <1>5

\* What 0 has and every next number has, all have.
LEMMA Induction ==
  ASSUME NEW n \in Nat, NEW S, 0 \in S,
         \A i \in 0..(n - 1) : i \in S => i + 1 \in S
  PROVE  \A i \in 0..n : i \in S
<1> SUFFICES ASSUME (0..n) \ S # {} PROVE FALSE
  OBVIOUS
<1>1. PICK k \in (0..n) \ S : \A j \in (0..n) \ S : k <= j
  <2>1. (0..n) \ S \in SUBSET (0..n)
    OBVIOUS
  <2> QED
    BY <2>1, LeastElement
<1>2. k # 0 /\ k - 1 \in 0..(n - 1)
  BY <1>1
<1>3. k - 1 \in S
  BY <1>1, <1>2
<1>4. (k - 1) + 1 \in S /\ (k - 1) + 1 = k
  BY <1>2, <1>3
<1> QED
  BY <1>1, <1>4

\* The functions a recursion up to n may take its values from.
Steps(n, T) == [1..n -> [T -> T]]

Defined(n, T, a, next) ==
  {g \in [0..n -> T] : g[0] = a /\ \A i \in 1..n : g[i] = next[i][g[i - 1]]}

\* What is defined by recursion up to n exists.
LEMMA Recursion ==
  ASSUME NEW n \in Nat, NEW T, NEW a \in T, NEW next \in Steps(n, T)
  PROVE  Defined(n, T, a, next) # {}
<1> USE DEF Steps
<1> DEFINE Upto(m) == {g \in [0..m -> T] :
                         g[0] = a /\ \A i \in 1..m : g[i] = next[i][g[i - 1]]}
           S == {m \in 0..n : Upto(m) # {}}
<1>1. 0 \in S
  <2>1. [i \in 0..0 |-> a] \in Upto(0)
    OBVIOUS
  <2> QED
    BY <2>1
<1>2. ASSUME NEW m \in 0..(n - 1), m \in S PROVE m + 1 \in S
  <2>1. PICK g \in [0..m -> T] :
          g[0] = a /\ \A i \in 1..m : g[i] = next[i][g[i - 1]]
    BY <1>2
  <2> DEFINE h == [i \in 0..(m + 1) |-> IF i = m + 1 THEN next[m + 1][g[m]] ELSE g[i]]
  <2>2. next[m + 1][g[m]] \in T
    BY <2>1
  <2>3. h \in [0..(m + 1) -> T]
    BY <2>1, <2>2
  <2>4. h[0] = a
    BY <2>1
  <2>5. ASSUME NEW i \in 1..(m + 1) PROVE h[i] = next[i][h[i - 1]]
    <3>1. CASE i = m + 1
      <4>1. i - 1 = m /\ m \in 0..(m + 1) /\ m # m + 1
        BY <3>1
      <4>2. h[i - 1] = g[m]
        BY <4>1
      <4>3. h[m + 1] = next[m + 1][g[m]]
        OBVIOUS
      <4> HIDE DEF h
      <4> QED
        BY <3>1, <4>2, <4>3
    <3>2. CASE i # m + 1
      <4>1. i \in 1..m /\ h[i] = g[i] /\ h[i - 1] = g[i - 1]
        BY <3>2
      <4> QED
        BY <2>1, <4>1
    <3> QED
      BY <3>1, <3>2
  <2>6. h \in Upto(m + 1)
    BY <2>3, <2>4, <2>5
  <2> HIDE DEF Upto
  <2> QED
    BY <2>6
<1> HIDE DEF S
<1>3. \A m \in 0..n : m \in S
  BY <1>1, <1>2, Induction
<1> QED
  BY <1>3 DEF S, Defined

----------------------------------------------------------------------------
(* Policy rules.                                                           *)

LEMMA RulesTyped ==
  /\ Rules = 1..Len(PolicyRules) /\ Len(PolicyRules) \in Nat
  /\ \A i \in Rules : PolicyRules[i] \in PolicyRule
  /\ \A i \in BudgetRules : i \in Rules /\ Limit(i) \in Nat
  /\ Binding \subseteq BudgetRules
<1>1. PolicyRules \in Seq(PolicyRule)
  BY PolicyAssumption
<1>2. Rules = 1..Len(PolicyRules) /\ Len(PolicyRules) \in Nat
  BY <1>1 DEF Rules
<1>3. \A i \in Rules : PolicyRules[i] \in PolicyRule
  BY <1>1, <1>2
<1> QED
  BY <1>2, <1>3 DEF BudgetRules, Limit, PolicyRule, Binding

\* A set of rules has a first one.
LEMMA FirstIsLeast ==
  ASSUME NEW S \in SUBSET Rules, S # {}
  PROVE  First(S) \in S /\ \A j \in S : First(S) <= j
<1>1. Rules \subseteq 0..Len(PolicyRules) /\ Len(PolicyRules) \in Nat
  BY RulesTyped
<1>2. \E k \in S : \A j \in S : k <= j
  BY <1>1, LeastElement
<1> QED
  BY <1>2 DEF First

\* A binding budget rule that matches is asked: a call that is allowed finds
\* something left of it.
LEMMA AllowedHasBudget ==
  ASSUME NEW t \in Tools, NEW i \in Binding, t \in Ofs(i), PolicyAllows(t)
  PROVE  ~Exceeded(i, budgets, now)
<1> SUFFICES ASSUME Exceeded(i, budgets, now) PROVE FALSE
  OBVIOUS
<1> DEFINE stops == Stops(t, budgets, now)
<1>1. i \in Rules /\ i \in stops /\ stops \subseteq Rules /\ stops \subseteq Matching(t)
  BY RulesTyped DEF Stops, Matching, Ofs
<1>2. First(stops) \in stops /\ First(stops) <= i
  <2> HIDE DEF stops
  <2> QED
    BY <1>1, FirstIsLeast
<1>3. PolicyRules[First(stops)].type = "allow"
  BY <1>1 DEF PolicyAllows, Allowed
<1>4. First(stops) \in 1..i /\ t \in PolicyRules[First(stops)].tools
  <2>1. First(stops) \in Matching(t)
    BY <1>1, <1>2
  <2>2. t \in PolicyRules[First(stops)].tools /\ First(stops) \in Rules
    BY <2>1 DEF Matching
  <2> HIDE DEF stops
  <2> QED
    BY <1>1, <1>2, <2>2, RulesTyped
<1> QED
  BY <1>3, <1>4 DEF Binding, Ofs

----------------------------------------------------------------------------
(* Windows.                                                                *)

LEMMA SentFinite ==
  ASSUME NEW ss, ss \in Seq(Start), NEW i, NEW from \in Int, NEW to \in Int
  PROVE  /\ IsFiniteSet(SentOf(ss, i, from, to))
         /\ Cardinality(SentOf(ss, i, from, to)) \in Nat
<1>1. IsFiniteSet(DOMAIN ss)
  BY FS_Interval
<1>2. SentOf(ss, i, from, to) \in SUBSET (DOMAIN ss)
  BY DEF SentOf
<1>3. IsFiniteSet(SentOf(ss, i, from, to))
  BY <1>1, <1>2, FS_Subset
<1> QED
  BY <1>3, FS_CardinalityType

LEMMA SentWithin ==
  ASSUME NEW ss, ss \in Seq(Start), NEW i, NEW a \in Int, NEW b \in Int,
         NEW from \in Int, NEW to \in Int,
         SentOf(ss, i, from, to) \subseteq SentOf(ss, i, a, b)
  PROVE  Cardinality(SentOf(ss, i, from, to)) <= Cardinality(SentOf(ss, i, a, b))
<1>1. IsFiniteSet(SentOf(ss, i, a, b))
  BY SentFinite
<1> QED
  BY <1>1, FS_Subset

LEMMA SentNothing ==
  ASSUME NEW ss, NEW i, NEW from, NEW to, SentOf(ss, i, from, to) = {}
  PROVE  Cardinality(SentOf(ss, i, from, to)) = 0
BY FS_EmptySet

LEMMA StartsTyped ==
  ASSUME NEW ss, ss \in Seq(Start)
  PROVE  \A n \in DOMAIN ss : ss[n].time \in Nat
<1>1. \A n \in DOMAIN ss : ss[n] \in Start
  OBVIOUS
<1> QED
  BY <1>1 DEF Start

LEMMA RefreshCounts ==
  ASSUME NEW i \in Binding, NEW b \in Tracker, NEW ss, ss \in Seq(Start), NEW time \in Nat,
         b.start <= time, b.count <= Limit(i), Counts(b, i, ss, time)
  PROVE  Counts(Refreshed(b, time), i, ss, time)
<1>1. CASE time - b.start < Window
  <2>1. Refreshed(b, time) = b
    BY <1>1, PolicyAssumption DEF Refreshed, Tracker
  <2> QED
    BY <2>1
<1>2. CASE time - b.start >= Window
  <2> DEFINE r == [start |-> time, count |-> 0]
  <2>1. Refreshed(b, time) = r
    BY <1>2 DEF Refreshed
  <2>2. b.start \in Nat /\ b.count \in Nat /\ Window \in Nat \ {0} /\ Limit(i) \in Nat
    BY PolicyAssumption, RulesTyped DEF Tracker
  <2>3. \A n \in DOMAIN ss : ss[n].time \in Nat
    BY StartsTyped
  <2>4. \A n \in DOMAIN ss : ss[n].tool \in Ofs(i) =>
          ss[n].time < b.start + Window /\ ss[n].time <= time
    BY DEF Counts
  <2>5. \A n \in DOMAIN ss : ss[n].tool \in Ofs(i) => ss[n].time < time
    BY <1>2, <2>2, <2>3, <2>4
  <2>6. Cardinality(SentOf(ss, i, time, time)) = 0
    <3>1. SentOf(ss, i, time, time) = {}
      BY <2>3, <2>5 DEF SentOf
    <3> QED
      BY <3>1, SentNothing
  <2>7. Cardinality(SentOf(ss, i, time - Window, time - 1)) <= Limit(i)
    <3>1. SentOf(ss, i, time - Window, time - 1) \subseteq SentOf(ss, i, b.start, time)
      BY <1>2, <2>2, <2>3 DEF SentOf
    <3>2. time - Window \in Int /\ time - 1 \in Int /\ b.start \in Int /\ time \in Int
      BY <2>2
    <3>3. Cardinality(SentOf(ss, i, time - Window, time - 1))
            <= Cardinality(SentOf(ss, i, b.start, time))
      BY <3>1, <3>2, SentWithin
    <3>4. /\ Cardinality(SentOf(ss, i, time - Window, time - 1)) \in Nat
          /\ Cardinality(SentOf(ss, i, b.start, time)) \in Nat
      BY <3>2, SentFinite
    <3>5. Cardinality(SentOf(ss, i, b.start, time)) <= b.count
      BY DEF Counts
    <3> QED
      BY <2>2, <3>3, <3>4, <3>5
  <2>8. \A n \in DOMAIN ss : ss[n].tool \in Ofs(i) =>
          ss[n].time < r.start + Window /\ ss[n].time <= time
    BY <2>2, <2>3, <2>5
  <2>9. r.start = time /\ r.count = 0
    OBVIOUS
  <2>10. Counts(r, i, ss, time)
    <3> HIDE DEF r
    <3> QED
      BY <2>6, <2>7, <2>8, <2>9 DEF Counts
  <2> QED
    BY <2>1, <2>10
<1> QED
  BY <1>1, <1>2, PolicyAssumption DEF Tracker

LEMMA MoreCounts ==
  ASSUME NEW i \in Binding, NEW b \in Tracker, NEW c \in Tracker, NEW ss, ss \in Seq(Start),
         NEW time \in Nat, Counts(b, i, ss, time), c.start = b.start, b.count <= c.count
  PROVE  Counts(c, i, ss, time)
<1>1. Cardinality(SentOf(ss, i, b.start, time)) \in Nat
  BY SentFinite DEF Tracker
<1>2. Cardinality(SentOf(ss, i, b.start, time)) <= c.count
  BY <1>1 DEF Tracker, Counts
<1> QED
  BY <1>2 DEF Counts

LEMMA LaterCounts ==
  ASSUME NEW i \in Binding, NEW b \in Tracker, NEW ss, ss \in Seq(Start), NEW time \in Nat,
         Counts(b, i, ss, time)
  PROVE  Counts(b, i, ss, time + 1)
<1>1. b.start \in Nat /\ Window \in Nat \ {0} /\ Limit(i) \in Nat
  BY PolicyAssumption, RulesTyped DEF Tracker
<1>2. \A n \in DOMAIN ss : ss[n].time \in Nat
  BY StartsTyped
<1>3. \A n \in DOMAIN ss : ss[n].tool \in Ofs(i) =>
        ss[n].time < b.start + Window /\ ss[n].time <= time
  BY DEF Counts
<1>4. \A n \in DOMAIN ss : ss[n].tool \in Ofs(i) =>
        ss[n].time < b.start + Window /\ ss[n].time <= time + 1
  BY <1>2, <1>3
<1>5. SentOf(ss, i, b.start, time + 1) = SentOf(ss, i, b.start, time)
  BY <1>1, <1>2, <1>3 DEF SentOf
<1>6. ASSUME NEW from \in 0..(time + 1)
      PROVE  Cardinality(SentOf(ss, i, from, from + Window - 1)) <= 2 * Limit(i)
  <2>1. CASE from \in 0..time
    BY <2>1 DEF Counts
  <2>2. CASE from = time + 1
    <3>1. SentOf(ss, i, from, from + Window - 1) = {}
      BY <1>1, <1>2, <1>3, <2>2 DEF SentOf
    <3> QED
      BY <1>1, <3>1, SentNothing
  <2> QED
    BY <2>1, <2>2
<1> QED
  BY <1>4, <1>5, <1>6 DEF Counts

\* What is sent now is in the window that is open and, with what was sent in it,
\* within the limit.
LEMMA SendCounts ==
  ASSUME NEW i \in Binding, NEW b \in Tracker, NEW ss, ss \in Seq(Start), NEW time \in Nat,
         NEW s \in Start, s.time = time, s.tool \in Ofs(i),
         b.start <= time, time - b.start < Window, b.count < Limit(i),
         Counts(b, i, ss, time)
  PROVE  Counts([b EXCEPT !.count = b.count + 1], i, Append(ss, s), time)
<1> DEFINE tt == Append(ss, s)
           c == [b EXCEPT !.count = b.count + 1]
           x == Len(ss) + 1
<1>1. b.start \in Nat /\ b.count \in Nat /\ Window \in Nat \ {0} /\ Limit(i) \in Nat
  BY PolicyAssumption, RulesTyped DEF Tracker
<1>2. c.start = b.start /\ c.count = b.count + 1
  BY DEF Tracker
<1>3. /\ DOMAIN tt = DOMAIN ss \cup {x} /\ x \notin DOMAIN ss /\ tt[x] = s
      /\ \A n \in DOMAIN ss : tt[n] = ss[n]
      /\ tt \in Seq(Start)
  OBVIOUS
<1>4. \A n \in DOMAIN ss : ss[n].time \in Nat
  BY StartsTyped
<1>5. \A n \in DOMAIN ss : ss[n].tool \in Ofs(i) =>
        ss[n].time < b.start + Window /\ ss[n].time <= time
  BY DEF Counts
<1>6. /\ Cardinality(SentOf(ss, i, b.start, time)) <= b.count
      /\ Cardinality(SentOf(ss, i, b.start - Window, b.start - 1)) <= Limit(i)
      /\ \A from \in 0..time :
           Cardinality(SentOf(ss, i, from, from + Window - 1)) <= 2 * Limit(i)
  BY DEF Counts
<1> HIDE DEF tt, c, x
<1>7. \A n \in DOMAIN tt : tt[n].tool \in Ofs(i) =>
        tt[n].time < c.start + Window /\ tt[n].time <= time
  BY <1>1, <1>2, <1>3, <1>4, <1>5
<1>8. Cardinality(SentOf(tt, i, b.start, time)) <= c.count
  <2>1. SentOf(tt, i, b.start, time) = SentOf(ss, i, b.start, time) \cup {x}
    BY <1>1, <1>3 DEF SentOf
  <2>2. /\ IsFiniteSet(SentOf(ss, i, b.start, time))
        /\ Cardinality(SentOf(ss, i, b.start, time)) \in Nat
    BY <1>1, SentFinite
  <2>3. x \notin SentOf(ss, i, b.start, time)
    BY <1>3 DEF SentOf
  <2>4. Cardinality(SentOf(tt, i, b.start, time)) = Cardinality(SentOf(ss, i, b.start, time)) + 1
    BY <2>1, <2>2, <2>3, FS_AddElement
  <2> QED
    BY <1>1, <1>2, <1>6, <2>2, <2>4
<1>9. Cardinality(SentOf(tt, i, b.start - Window, b.start - 1)) <= Limit(i)
  <2>1. SentOf(tt, i, b.start - Window, b.start - 1) = SentOf(ss, i, b.start - Window, b.start - 1)
    BY <1>1, <1>3 DEF SentOf
  <2> QED
    BY <1>6, <2>1
<1>10. ASSUME NEW from \in 0..time
       PROVE  Cardinality(SentOf(tt, i, from, from + Window - 1)) <= 2 * Limit(i)
  <2> DEFINE to == from + Window - 1
  <2>1. CASE to < time
    <3>1. SentOf(tt, i, from, to) = SentOf(ss, i, from, to)
      BY <1>1, <1>3, <2>1 DEF SentOf
    <3> QED
      BY <1>6, <1>10, <3>1
  <2>2. CASE to >= time
    <3> DEFINE A == SentOf(tt, i, b.start - Window, b.start - 1)
               B == SentOf(tt, i, b.start, time)
               S == SentOf(tt, i, from, to)
    <3>1. b.start - Window \in Int /\ b.start - 1 \in Int /\ b.start \in Int /\ time \in Int
          /\ from \in Int /\ to \in Int
      BY <1>1
    <3>2. /\ IsFiniteSet(A) /\ Cardinality(A) \in Nat
          /\ IsFiniteSet(B) /\ Cardinality(B) \in Nat
          /\ Cardinality(S) \in Nat
      BY <1>3, <3>1, SentFinite
    <3>3. \A n \in DOMAIN tt : tt[n].time \in Nat
      BY <1>3, StartsTyped
    <3>4. S \subseteq A \cup B
      BY <1>1, <1>7, <2>2, <3>3 DEF SentOf
    <3>5. Cardinality(A \cap B) \in Nat /\ IsFiniteSet(A \cup B)
      <4> HIDE DEF A, B
      <4> QED
        BY <3>2, FS_Union, FS_Intersection, FS_CardinalityType
    <3>6. Cardinality(A \cup B) <= Cardinality(A) + Cardinality(B)
          /\ Cardinality(A \cup B) \in Nat
      <4> HIDE DEF A, B
      <4>1. Cardinality(A \cup B) = Cardinality(A) + Cardinality(B) - Cardinality(A \cap B)
        BY <3>2, FS_Union
      <4>2. Cardinality(A \cup B) \in Nat
        BY <3>5, FS_CardinalityType
      <4> QED
        BY <3>2, <3>5, <4>1, <4>2
    <3>7. Cardinality(S) <= Cardinality(A \cup B)
      <4> HIDE DEF A, B, S
      <4> QED
        BY <3>4, <3>5, FS_Subset
    <3>8. Cardinality(A) <= Limit(i) /\ Cardinality(B) <= Limit(i)
      <4>1. Cardinality(B) <= c.count
        BY <1>8
      <4> QED
        BY <1>1, <1>2, <1>9, <3>2, <4>1
    <3> HIDE DEF A, B, S
    <3>9. Cardinality(S) <= 2 * Limit(i)
      BY <1>1, <3>2, <3>6, <3>7, <3>8
    <3> QED
      BY <3>9 DEF S
  <2> QED
    BY <1>1, <2>1, <2>2
<1>11. Counts(c, i, tt, time)
  BY <1>2, <1>7, <1>8, <1>9, <1>10 DEF Counts
<1> QED
  BY <1>11 DEF c, tt

\* Requests of other tools do not count.
LEMMA OtherCounts ==
  ASSUME NEW i \in Binding, NEW b \in Tracker, NEW ss, ss \in Seq(Start), NEW time \in Nat,
         NEW s \in Start, s.tool \notin Ofs(i), Counts(b, i, ss, time)
  PROVE  Counts(b, i, Append(ss, s), time)
<1>1. /\ DOMAIN Append(ss, s) = DOMAIN ss \cup {Len(ss) + 1}
      /\ Append(ss, s)[Len(ss) + 1] = s
      /\ \A n \in DOMAIN ss : Append(ss, s)[n] = ss[n]
  OBVIOUS
<1>2. \A from, to : SentOf(Append(ss, s), i, from, to) = SentOf(ss, i, from, to)
  BY <1>1 DEF SentOf
<1> QED
  BY <1>1, <1>2 DEF Counts

----------------------------------------------------------------------------
(* Trackers.                                                               *)

BudgetsTyped(bs) ==
  /\ bs \in Budgets
  /\ \A i \in BudgetRules : bs[i].start <= now /\ bs[i].count <= Limit(i)

LEMMA RefreshedTyped ==
  ASSUME NEW b \in Tracker, NEW time \in Nat, NEW limit \in Nat,
         b.start <= time, b.count <= limit
  PROVE  LET r == Refreshed(b, time) IN
         /\ r \in Tracker /\ r.start <= time /\ r.count <= limit
         /\ time - r.start < Window /\ Refreshed(r, time) = r
<1> Window \in Nat \ {0}
  BY PolicyAssumption
<1> QED
  BY DEF Refreshed, Tracker

\* A look at trackers leaves each as it was or refreshed.
LEMMA EvaluatedOnes ==
  ASSUME NEW t, NEW i \in BudgetRules
  PROVE  Evaluated(t, budgets, now)[i] \in {budgets[i], Refreshed(budgets[i], now)}
BY DEF Evaluated

LEMMA EvaluatedKeeps ==
  ASSUME TypeOK, BudgetsCount, NEW t
  PROVE  /\ BudgetsTyped(Evaluated(t, budgets, now))
         /\ \A i \in Binding : Counts(Evaluated(t, budgets, now)[i], i, starts, now)
<1> DEFINE bs == Evaluated(t, budgets, now)
<1>1. ASSUME NEW i \in BudgetRules
      PROVE  /\ budgets[i] \in Tracker /\ budgets[i].start <= now /\ budgets[i].count <= Limit(i)
             /\ Refreshed(budgets[i], now) \in Tracker
             /\ Refreshed(budgets[i], now).start <= now
             /\ Refreshed(budgets[i], now).count <= Limit(i)
  BY RefreshedTyped, RulesTyped DEF TypeOK, Budgets, Limit
<1>2. \A i \in BudgetRules :
        bs[i] \in Tracker /\ bs[i].start <= now /\ bs[i].count <= Limit(i)
  <2> SUFFICES ASSUME NEW i \in BudgetRules
               PROVE  bs[i] \in Tracker /\ bs[i].start <= now /\ bs[i].count <= Limit(i)
    OBVIOUS
  <2>1. bs[i] \in {budgets[i], Refreshed(budgets[i], now)}
    BY EvaluatedOnes
  <2> HIDE DEF bs
  <2> QED
    BY <1>1, <2>1
<1>3. bs = [i \in BudgetRules |-> bs[i]]
  BY DEF Evaluated
<1>4. BudgetsTyped(bs)
  <2> HIDE DEF bs
  <2> QED
    BY <1>2, <1>3 DEF BudgetsTyped, Budgets
<1>5. ASSUME NEW i \in Binding PROVE Counts(bs[i], i, starts, now)
  <2>1. i \in BudgetRules /\ Counts(budgets[i], i, starts, now)
    BY RulesTyped DEF BudgetsCount
  <2>2. bs[i] \in {budgets[i], Refreshed(budgets[i], now)}
    BY <2>1, EvaluatedOnes
  <2>3. starts \in Seq(Start) /\ now \in Nat
    BY DEF TypeOK
  <2>4. Counts(Refreshed(budgets[i], now), i, starts, now)
    BY <1>1, <2>1, <2>3, RefreshCounts
  <2> HIDE DEF bs
  <2> QED
    BY <2>1, <2>2, <2>4
<1> QED
  BY <1>4, <1>5

Spent(t) == Consumed(t, Evaluated(t, budgets, now), now)

\* What a call that is allowed makes of one tracker.
LEMMA SpentOnes ==
  ASSUME TypeOK, NEW t, NEW i \in BudgetRules
  PROVE  LET r == Refreshed(budgets[i], now) IN
         /\ t \notin Ofs(i) => Spent(t)[i] \in {budgets[i], r}
         /\ t \in Ofs(i) => Spent(t)[i] = IF r.count < Limit(i)
                                             THEN [r EXCEPT !.count = r.count + 1] ELSE r
<1> DEFINE r == Refreshed(budgets[i], now)
           e == Evaluated(t, budgets, now)[i]
<1>1. e \in {budgets[i], r}
  BY EvaluatedOnes
<1>2. Refreshed(r, now) = r
  BY RefreshedTyped, RulesTyped DEF TypeOK, Budgets, Limit
<1>3. Refreshed(e, now) = r
  <2> HIDE DEF e
  <2> QED
    BY <1>1, <1>2
<1>4. Spent(t)[i] = LET b == Refreshed(e, now) IN
                    IF t \notin Ofs(i) THEN e
                    ELSE IF b.count < Limit(i) THEN [b EXCEPT !.count = b.count + 1] ELSE b
  BY DEF Spent, Consumed, Ofs, Limit
<1> HIDE DEF e, r
<1> QED
  BY <1>1, <1>3, <1>4 DEF r

LEMMA SpentTyped ==
  ASSUME TypeOK, NEW t
  PROVE  BudgetsTyped(Spent(t))
<1>1. ASSUME NEW i \in BudgetRules
      PROVE  Spent(t)[i] \in Tracker /\ Spent(t)[i].start <= now /\ Spent(t)[i].count <= Limit(i)
  <2> DEFINE r == Refreshed(budgets[i], now)
  <2>1. /\ budgets[i] \in Tracker /\ budgets[i].start <= now /\ budgets[i].count <= Limit(i)
        /\ r \in Tracker /\ r.start <= now /\ r.count <= Limit(i) /\ Limit(i) \in Nat
    BY RefreshedTyped, RulesTyped DEF TypeOK, Budgets, Limit
  <2>2. CASE Spent(t)[i] \in {budgets[i], r}
    <3> HIDE DEF r
    <3> QED
      BY <2>1, <2>2
  <2>3. CASE Spent(t)[i] = [r EXCEPT !.count = r.count + 1] /\ r.count < Limit(i)
    <3> HIDE DEF r
    <3> QED
      BY <2>1, <2>3 DEF Tracker
  <2> QED
    BY <2>2, <2>3, SpentOnes
<1>2. Spent(t) = [i \in BudgetRules |-> Spent(t)[i]]
  BY DEF Spent, Consumed
<1> QED
  BY <1>1, <1>2 DEF BudgetsTyped, Budgets

\* A call that is stopped: it spends, but nothing is sent.
LEMMA SpentKeeps ==
  ASSUME TypeOK, BudgetsCount, NEW t, NEW i \in Binding
  PROVE  Counts(Spent(t)[i], i, starts, now)
<1> DEFINE r == Refreshed(budgets[i], now)
<1>1. i \in BudgetRules /\ starts \in Seq(Start) /\ now \in Nat
  BY RulesTyped DEF TypeOK
<1>2. /\ budgets[i] \in Tracker /\ budgets[i].start <= now /\ budgets[i].count <= Limit(i)
      /\ r \in Tracker /\ Counts(budgets[i], i, starts, now)
  BY <1>1, RefreshedTyped, RulesTyped DEF TypeOK, Budgets, Limit, BudgetsCount
<1>3. Counts(r, i, starts, now)
  BY <1>1, <1>2, RefreshCounts
<1>4. CASE Spent(t)[i] \in {budgets[i], r}
  <2> HIDE DEF r
  <2> QED
    BY <1>2, <1>3, <1>4
<1>5. CASE Spent(t)[i] = [r EXCEPT !.count = r.count + 1]
  <2> DEFINE c == [r EXCEPT !.count = r.count + 1]
  <2> HIDE DEF r
  <2>1. c \in Tracker /\ c.start = r.start /\ r.count <= c.count
    BY <1>2 DEF Tracker
  <2>2. Counts(c, i, starts, now)
    <3> HIDE DEF c
    <3> QED
      BY <1>1, <1>2, <1>3, <2>1, MoreCounts
  <2> QED
    BY <1>5, <2>2
<1> QED
  BY <1>1, <1>4, <1>5, SpentOnes

\* A call that is sent.
LEMMA SentKeeps ==
  ASSUME TypeOK, BudgetsCount, NEW t \in Tools, PolicyAllows(t), NEW i \in Binding,
         NEW s \in Start, s.tool = t, s.time = now
  PROVE  Counts(Spent(t)[i], i, Append(starts, s), now)
<1> DEFINE r == Refreshed(budgets[i], now)
<1>1. i \in BudgetRules /\ starts \in Seq(Start) /\ now \in Nat
  BY RulesTyped DEF TypeOK
<1>2. /\ budgets[i] \in Tracker /\ budgets[i].start <= now /\ budgets[i].count <= Limit(i)
      /\ r \in Tracker /\ r.start <= now /\ now - r.start < Window
      /\ Counts(budgets[i], i, starts, now) /\ Limit(i) \in Nat
  BY <1>1, RefreshedTyped, RulesTyped DEF TypeOK, Budgets, Limit, BudgetsCount
<1>3. Counts(r, i, starts, now)
  BY <1>1, <1>2, RefreshCounts
<1>4. CASE t \notin Ofs(i)
  <2>1. Counts(Spent(t)[i], i, starts, now)
    BY SpentKeeps
  <2>2. Spent(t)[i] \in Tracker
    BY <1>1, SpentTyped DEF BudgetsTyped, Budgets
  <2> QED
    BY <1>1, <1>4, <2>1, <2>2, OtherCounts
<1>5. CASE t \in Ofs(i)
  <2>1. r.count < Limit(i)
    <3>1. ~Exceeded(i, budgets, now)
      BY <1>5, AllowedHasBudget
    <3>2. ~(r.count >= Limit(i))
      BY <1>1, <3>1 DEF Exceeded, BudgetRules, Limit
    <3> HIDE DEF r
    <3> QED
      BY <1>2, <3>2 DEF Tracker
  <2>2. Spent(t)[i] = [r EXCEPT !.count = r.count + 1]
    BY <1>1, <1>5, <2>1, SpentOnes
  <2> HIDE DEF r
  <2> QED
    BY <1>1, <1>2, <1>3, <1>5, <2>1, <2>2, SendCounts
<1> QED
  BY <1>4, <1>5

----------------------------------------------------------------------------
(* Tokens.                                                                 *)

\* What the steps that leave tokens and requests alone leave of the invariant.
LEMMA TokensStay ==
  ASSUME TokensTrack, tokens' = tokens, starts' = starts
  PROVE  TokensTrack'
BY DEF TokensTrack, TokenOf

LEMMA ConsumableKinds ==
  ASSUME TypeOK, TokensTrack, NEW k \in Tokens, tokens[k].status \in {"pending", "granted"}
  PROVE  /\ tokens[k] \in Token /\ tokens[k] # Unused
         /\ \A n \in DOMAIN starts : starts[n].token = k => starts[n].token = NoToken
<1>1. tokens[k] \in Token /\ tokens[k] # Unused
  BY DEF TypeOK, Unused
<1>2. ASSUME NEW n \in DOMAIN starts, starts[n].token = k, k # NoToken PROVE FALSE
  BY <1>2 DEF TokensTrack, TokenOf
<1> QED
  BY <1>1, <1>2

\* A token that no request has may change as it likes, but that what is granted
\* must have been granted.
LEMMA FreeTokenChanges ==
  ASSUME TypeOK, TokensTrack, NEW k \in Tokens, NEW o \in Token,
         \A n \in DOMAIN starts : starts[n].token = k => starts[n].token = NoToken,
         tokens' = [tokens EXCEPT ![k] = o], starts' = starts,
         o.status = "granted" => o.granted
  PROVE  tokens' \in [Tokens -> Token \cup {Unused}] /\ TokensTrack'
<1>1. \A j \in Tokens : tokens'[j] = IF j = k THEN o ELSE tokens[j]
  BY DEF TypeOK
<1>2. \A n \in DOMAIN starts : starts[n].token \in Tokens \cup {NoToken}
  <2>1. \A n \in DOMAIN starts : starts[n] \in Start
    BY DEF TypeOK
  <2> QED
    BY <2>1 DEF Start
<1>3. tokens' \in [Tokens -> Token \cup {Unused}]
  BY DEF TypeOK
<1>4. ASSUME NEW n \in DOMAIN starts PROVE TokenOf(starts[n])'
  <2>1. starts[n].token # NoToken => starts[n].token \in Tokens /\ starts[n].token # k
    BY <1>2
  <2>2. starts[n].token # NoToken => tokens'[starts[n].token] = tokens[starts[n].token]
    BY <1>1, <2>1
  <2>3. TokenOf(starts[n])
    BY DEF TokensTrack
  <2> QED
    BY <2>2, <2>3 DEF TokenOf
<1> QED
  BY <1>1, <1>3, <1>4 DEF TokensTrack

LEMMA SpendTokens ==
  ASSUME TypeOK, TokensTrack, NEW t \in Tools, NEW arg \in Args, NEW k \in Shown(t),
         Passes(t, arg, k), Spend(t, k), NeedsToken(t)
  PROVE  /\ k \in Tokens /\ k # NoToken
         /\ \E o \in Token :
              /\ tokens' = [tokens EXCEPT ![k] = o]
              /\ o.status = "consumed" /\ o.granted /\ o.tool = t /\ o.arg = arg
              /\ o.version = o.used
         /\ \A n \in DOMAIN starts : starts[n].token = k => starts[n].token = NoToken
<1>1. k \in Tokens /\ k # NoToken /\ Consumable(k, t, arg)
  BY DEF Shown, Passes
<1>2. tokens[k] \in Token
  BY <1>1, ConsumableKinds DEF Consumable
<1>3. \A n \in DOMAIN starts : starts[n].token = k => starts[n].token = NoToken
  BY <1>1, ConsumableKinds DEF Consumable
<1> DEFINE o == [tokens[k] EXCEPT !.status = "consumed", !.used = lock.version]
<1>4. tokens' = [tokens EXCEPT ![k] = o]
  <2>1. tokens' = [tokens EXCEPT ![k].status = "consumed", ![k].used = lock.version]
    BY DEF Spend
  <2> QED
    BY <1>1, <2>1 DEF TypeOK
<1>5. lock.version \in Nat
  BY DEF TypeOK
<1>6. /\ o \in Token /\ o.status = "consumed" /\ o.granted = tokens[k].granted
      /\ o.tool = tokens[k].tool /\ o.arg = tokens[k].arg
      /\ o.version = tokens[k].version /\ o.used = lock.version
  BY <1>2, <1>5 DEF Token
<1>7. tokens[k].granted
  BY <1>1 DEF Consumable, TokensTrack
<1> HIDE DEF o
<1> QED
  BY <1>1, <1>3, <1>4, <1>6, <1>7 DEF Consumable

\* A call that is stopped may have spent its token.
LEMMA StopTokens ==
  ASSUME TypeOK, TokensTrack, NEW t \in Tools, NEW arg \in Args, NEW k \in Shown(t),
         Passes(t, arg, k), Spend(t, k), starts' = starts
  PROVE  tokens' \in [Tokens -> Token \cup {Unused}] /\ TokensTrack'
<1>1. CASE NeedsToken(t)
  <2>1. PICK o \in Token :
          /\ tokens' = [tokens EXCEPT ![k] = o]
          /\ o.status = "consumed" /\ o.granted /\ o.tool = t /\ o.arg = arg
          /\ o.version = o.used
    BY <1>1, SpendTokens
  <2>2. /\ k \in Tokens
        /\ \A n \in DOMAIN starts : starts[n].token = k => starts[n].token = NoToken
    BY <1>1, SpendTokens
  <2> QED
    BY <2>1, <2>2, FreeTokenChanges
<1>2. CASE ~NeedsToken(t)
  BY <1>2, TokensStay DEF Spend, TypeOK
<1> QED
  BY <1>1, <1>2

LEMMA ExecuteTokens ==
  ASSUME TypeOK, TokensTrack, NEW t \in Tools, NEW arg \in Args, NEW k \in Shown(t),
         Passes(t, arg, k), Spend(t, k),
         NEW s \in Start, s.tool = t, s.arg = arg,
         s.token = IF NeedsToken(t) THEN k ELSE NoToken,
         starts' = Append(starts, s)
  PROVE  tokens' \in [Tokens -> Token \cup {Unused}] /\ TokensTrack'
<1> DEFINE x == Len(starts) + 1
<1>1. /\ DOMAIN starts' = DOMAIN starts \cup {x} /\ x \notin DOMAIN starts /\ starts'[x] = s
      /\ \A n \in DOMAIN starts : starts'[n] = starts[n]
  BY DEF TypeOK
<1>2. \A n \in DOMAIN starts : starts[n].token \in Tokens \cup {NoToken} /\ TokenOf(starts[n])
  <2>1. \A n \in DOMAIN starts : starts[n] \in Start
    BY DEF TypeOK
  <2> QED
    BY <2>1 DEF Start, TokensTrack
<1> HIDE DEF x
<1>3. CASE NeedsToken(t)
  <2>1. PICK o \in Token :
          /\ tokens' = [tokens EXCEPT ![k] = o]
          /\ o.status = "consumed" /\ o.granted /\ o.tool = t /\ o.arg = arg
          /\ o.version = o.used
    BY <1>3, SpendTokens
  <2>2. /\ k \in Tokens /\ k # NoToken
        /\ \A n \in DOMAIN starts : starts[n].token = k => starts[n].token = NoToken
    BY <1>3, SpendTokens
  <2>3. \A j \in Tokens : tokens'[j] = IF j = k THEN o ELSE tokens[j]
    BY <2>1 DEF TypeOK
  <2>4. tokens' \in [Tokens -> Token \cup {Unused}]
    BY <2>1 DEF TypeOK
  <2>5. \A j \in Tokens : tokens'[j].status = "granted" => tokens'[j].granted
    BY <2>1, <2>3 DEF TokensTrack
  <2>6. ASSUME NEW n \in DOMAIN starts' PROVE TokenOf(starts[n])'
    <3>1. CASE n = x
      BY <1>1, <1>3, <2>1, <2>2, <2>3, <3>1 DEF TokenOf
    <3>2. CASE n # x
      <4>1. starts'[n] = starts[n] /\ n \in DOMAIN starts
        BY <1>1, <3>2
      <4>2. starts[n].token # NoToken => tokens'[starts[n].token] = tokens[starts[n].token]
        BY <1>2, <2>2, <2>3, <4>1
      <4> QED
        BY <1>2, <4>1, <4>2 DEF TokenOf
    <3> QED
      BY <3>1, <3>2
  <2>7. \A n, m \in DOMAIN starts' :
          starts'[n].token # NoToken /\ starts'[n].token = starts'[m].token => n = m
    BY <1>1, <1>3, <2>2 DEF TokensTrack
  <2> QED
    BY <2>4, <2>5, <2>6, <2>7 DEF TokensTrack
<1>4. CASE ~NeedsToken(t)
  <2>1. tokens' = tokens /\ s.token = NoToken
    BY <1>4 DEF Spend
  <2>2. s.tool \notin (StateChanging \ {u \in Tools : Waived(u)}) \cup Always
    BY <1>4, PolicyAssumption DEF NeedsToken, StepUp
  <2>3. \A n \in DOMAIN starts' : TokenOf(starts[n])'
    BY <1>1, <1>2, <2>1, <2>2 DEF TokenOf
  <2>4. \A n, m \in DOMAIN starts' :
          starts'[n].token # NoToken /\ starts'[n].token = starts'[m].token => n = m
    BY <1>1, <2>1 DEF TokensTrack
  <2> QED
    BY <2>1, <2>3, <2>4 DEF TokensTrack, TypeOK
<1> QED
  BY <1>3, <1>4

----------------------------------------------------------------------------
(* Sequences of calls.                                                     *)

\* One call more: the next step of the order, or none.
Passed(order, call, p) == IF p < Len(order) /\ order[p + 1] = call.tool THEN p + 1 ELSE p

LEMMA ProgressDefined ==
  ASSUME NEW order, Len(order) \in Nat, NEW C, NEW h \in Seq(C)
  PROVE  \E g \in [0..Len(h) -> Nat] :
           /\ g[0] = 0 /\ \A i \in 1..Len(h) : g[i] = Passed(order, h[i], g[i - 1])
           /\ Progress(order, h) = g[Len(h)]
<1> DEFINE n == Len(h)
           body(g) == [i \in 0..n |->
                         IF i = 0 THEN 0
                         ELSE IF /\ g[i - 1] < Len(order)
                                 /\ order[g[i - 1] + 1] = h[i].tool
                           THEN g[i - 1] + 1 ELSE g[i - 1]]
           next == [i \in 1..n |-> [p \in Nat |-> Passed(order, h[i], p)]]
<1>1. n \in Nat /\ next \in [1..n -> [Nat -> Nat]]
  BY DEF Passed
<1>2. PICK f \in [0..n -> Nat] : f[0] = 0 /\ \A i \in 1..n : f[i] = next[i][f[i - 1]]
  <2>1. next \in Steps(n, Nat) /\ n \in Nat /\ 0 \in Nat
    BY <1>1 DEF Steps
  <2> HIDE DEF n, next
  <2>2. Defined(n, Nat, 0, next) # {}
    BY <2>1, Recursion
  <2> QED
    BY <2>2 DEF Defined
<1>3. f = body(f)
  <2>1. ASSUME NEW i \in 1..n
        PROVE  i - 1 \in 0..n /\ f[i] = Passed(order, h[i], f[i - 1])
    <3>1. i - 1 \in 0..n
      <4> HIDE DEF n
      <4> QED
        BY <1>1
    <3>2. f[i - 1] \in Nat
      BY <3>1
    <3> QED
      BY <1>2, <3>1, <3>2
  <2>2. \A i \in 0..n : f[i] = body(f)[i]
    <3> SUFFICES ASSUME NEW i \in 0..n PROVE f[i] = body(f)[i]
      OBVIOUS
    <3>1. CASE i = 0
      BY <1>2, <3>1
    <3>2. CASE i # 0
      <4>1. i \in 1..n
        BY <3>2
      <4> QED
        BY <2>1, <3>2, <4>1 DEF Passed
    <3> QED
      BY <3>1, <3>2
  <2> QED
    BY <1>2, <2>2
<1> DEFINE g == CHOOSE x : x = body(x)
<1>4. g = body(g)
  BY <1>3
<1>5. Progress(order, h) = g[n]
  BY DEF Progress
<1> HIDE DEF g, next
<1>6. g[0] = 0 /\ \A i \in 1..n : g[i] = Passed(order, h[i], g[i - 1])
  <2>1. \A i \in 0..n : g[i] = body(g)[i]
    BY <1>4
  <2>2. 0 \in 0..n /\ \A i \in 1..n : i \in 0..n /\ i # 0
    BY <1>1
  <2> QED
    BY <2>1, <2>2 DEF Passed
<1> DEFINE S == {i \in 0..n : g[i] \in Nat}
<1>7. 0 \in S /\ \A i \in 0..(n - 1) : i \in S => i + 1 \in S
  <2> SUFFICES ASSUME NEW i \in 0..(n - 1), g[i] \in Nat PROVE g[i + 1] \in Nat
    BY <1>1, <1>6
  <2>1. i + 1 \in 1..n /\ (i + 1) - 1 = i
    BY <1>1
  <2>2. g[i + 1] = Passed(order, h[i + 1], g[i])
    BY <1>6, <2>1
  <2> QED
    BY <2>2 DEF Passed
<1>8. \A i \in 0..n : i \in S
  <2> HIDE DEF S, n
  <2> QED
    BY <1>1, <1>7, Induction
<1>9. g \in [0..n -> Nat]
  BY <1>4, <1>8
<1> QED
  BY <1>5, <1>6, <1>9

\* What is passed is passed in order, and no order of calls passes more.
LEMMA ProgressIsGreedy ==
  ASSUME NEW order, Len(order) \in Nat, NEW C, NEW h \in Seq(C)
  PROVE  LET p == Progress(order, h) IN
         /\ p \in 0..Len(order)
         /\ \E f \in [1..p -> DOMAIN h] :
              /\ \A i \in 1..p : h[f[i]].tool = order[i]
              /\ \A i, j \in 1..p : i < j => f[i] < f[j]
         /\ \A m \in 0..Len(order) : \A f \in [1..m -> DOMAIN h] :
              /\ \A i \in 1..m : h[f[i]].tool = order[i]
              /\ \A i, j \in 1..m : i < j => f[i] < f[j]
              => m <= p
<1> DEFINE n == Len(h)
           Fits(f, m) == /\ \A i \in 1..m : h[f[i]].tool = order[i]
                         /\ \A i, j \in 1..m : i < j => f[i] < f[j]
<1>1. PICK g \in [0..n -> Nat] :
        /\ g[0] = 0 /\ \A i \in 1..n : g[i] = Passed(order, h[i], g[i - 1])
        /\ Progress(order, h) = g[n]
  BY ProgressDefined
<1>2. n \in Nat /\ DOMAIN h = 1..n
  OBVIOUS
<1>15. \A i \in 0..n : g[i] \in Nat
  BY <1>1
<1>3. ASSUME NEW i \in 0..(n - 1)
      PROVE  /\ i + 1 \in 1..n /\ g[i] \in Nat
             /\ g[i + 1] = Passed(order, h[i + 1], g[i])
             /\ g[i] <= g[i + 1] /\ g[i + 1] <= g[i] + 1
  <2>1. i + 1 \in 1..n /\ (i + 1) - 1 = i /\ i \in 0..n
    BY <1>2
  <2>2. g[i + 1] = Passed(order, h[i + 1], g[i]) /\ g[i] \in Nat
    BY <1>1, <2>1
  <2> QED
    BY <2>1, <2>2 DEF Passed
<1>4. /\ g[n] \in 0..Len(order)
      /\ \E f \in [1..g[n] -> 1..n] : Fits(f, g[n])
  <2> DEFINE Found(m) == {f \in [1..g[m] -> 1..m] : Fits(f, g[m])}
             S == {m \in 0..n : g[m] \in 0..Len(order) /\ Found(m) # {}}
  <2>1. 0 \in S
    <3>1. [i \in 1..0 |-> 0] \in Found(0)
      BY <1>1
    <3> HIDE DEF Found
    <3> QED
      BY <1>1, <1>2, <3>1
  <2>2. ASSUME NEW m \in 0..(n - 1), m \in S PROVE m + 1 \in S
    <3>1. PICK f \in [1..g[m] -> 1..m] : Fits(f, g[m])
      BY <2>2
    <3>2. CASE g[m] < Len(order) /\ order[g[m] + 1] = h[m + 1].tool
      <4> DEFINE q == g[m] + 1
                 e == [i \in 1..q |-> IF i = q THEN m + 1 ELSE f[i]]
      <4>1. g[m + 1] = q /\ q \in 1..Len(order)
        BY <1>3, <3>2 DEF Passed
      <4>2. e \in [1..q -> 1..(m + 1)]
        BY <1>3, <3>1
      <4>3. /\ e[q] = m + 1
            /\ \A i \in 1..g[m] : e[i] = f[i] /\ f[i] \in 1..m
            /\ \A i \in 1..q : i = q \/ i \in 1..g[m]
        <5>1. g[m] \in Nat /\ q \in 1..q /\ \A i \in 1..g[m] : i \in 1..q /\ i # q
          BY <1>3
        <5>2. \A i \in 1..q : e[i] = IF i = q THEN m + 1 ELSE f[i]
          OBVIOUS
        <5>3. \A i \in 1..q : i = q \/ i \in 1..g[m]
          BY <5>1
        <5> HIDE DEF q, e
        <5> QED
          BY <3>1, <5>1, <5>2, <5>3
      <4>4. Fits(e, q)
        <5> HIDE DEF e, Found, S
        <5>1. \A i \in 1..q : h[e[i]].tool = order[i]
          BY <3>1, <3>2, <4>3
        <5>2. ASSUME NEW i \in 1..q, NEW j \in 1..q, i < j PROVE e[i] < e[j]
          <6>1. i \in 1..g[m] /\ e[i] = f[i] /\ f[i] \in 1..m
            BY <1>3, <4>3, <5>2
          <6>2. CASE j = q
            BY <4>3, <6>1, <6>2
          <6>3. CASE j \in 1..g[m]
            BY <3>1, <4>3, <5>2, <6>1, <6>3
          <6> QED
            BY <4>3, <6>2, <6>3
        <5> QED
          BY <5>1, <5>2
      <4>5. e \in Found(m + 1)
        <5> HIDE DEF e, q, Fits
        <5> QED
          BY <4>1, <4>2, <4>4
      <4> HIDE DEF Found, q
      <4> QED
        BY <1>2, <4>1, <4>5
    <3>3. CASE ~(g[m] < Len(order) /\ order[g[m] + 1] = h[m + 1].tool)
      <4>1. g[m + 1] = g[m]
        BY <1>3, <3>3 DEF Passed
      <4>2. f \in [1..g[m] -> 1..(m + 1)]
        BY <3>1
      <4>3. f \in Found(m + 1)
        <5> HIDE DEF Fits
        <5> QED
          BY <3>1, <4>1, <4>2
      <4> HIDE DEF Found
      <4> QED
        BY <1>2, <2>2, <4>1, <4>3
    <3> QED
      BY <3>2, <3>3
  <2>3. n \in S
    <3> HIDE DEF S, n
    <3>1. \A m \in 0..n : m \in S
      BY <1>2, <2>1, <2>2, Induction
    <3> QED
      BY <1>2, <3>1
  <2> HIDE DEF Fits
  <2> QED
    BY <2>3
<1>5. ASSUME NEW m \in 0..Len(order), NEW f \in [1..m -> 1..n], Fits(f, m)
      PROVE  m <= g[n]
  <2>1. ASSUME NEW i \in 0..n, NEW j \in 0..n, i <= j PROVE g[i] <= g[j]
    <3> DEFINE S == {d \in 0..n : d < i \/ g[i] <= g[d]}
    <3>1. 0 \in S
      BY <1>1, <1>2
    <3>2. ASSUME NEW d \in 0..(n - 1), d \in S PROVE d + 1 \in S
      <4>1. g[d] <= g[d + 1] /\ d \in 0..n /\ d + 1 \in 0..n
        BY <1>2, <1>3
      <4>2. g[i] \in Nat /\ g[d] \in Nat /\ g[d + 1] \in Nat
        BY <1>15, <4>1
      <4> QED
        BY <3>2, <4>1, <4>2
    <3>3. j \in S
      <4> HIDE DEF S, n
      <4> QED
        BY <1>2, <3>1, <3>2, Induction
    <3> QED
      BY <2>1, <3>3
  <2> DEFINE S == {i \in 0..m : i = 0 \/ i <= g[f[i]]}
  <2>2. 0 \in S
    OBVIOUS
  <2>3. ASSUME NEW i \in 0..(m - 1), i \in S PROVE i + 1 \in S
    <3> DEFINE x == f[i + 1]
    <3>1. x \in 1..n /\ x - 1 \in 0..(n - 1) /\ i + 1 \in 1..m
      OBVIOUS
    <3>2. i <= g[x - 1]
      <4>1. CASE i = 0
        BY <1>3, <3>1, <4>1
      <4>2. CASE i # 0
        <5>1. i \in 1..m /\ f[i] < x /\ f[i] \in 1..n
          BY <1>5, <4>2
        <5>2. f[i] \in 0..n /\ x - 1 \in 0..n /\ f[i] <= x - 1
          BY <1>2, <3>1, <5>1
        <5>3. g[f[i]] <= g[x - 1]
          BY <2>1, <5>2
        <5>4. i <= g[f[i]] /\ g[f[i]] \in Nat /\ g[x - 1] \in Nat
          BY <1>1, <2>3, <4>2, <5>2
        <5> QED
          BY <5>1, <5>3, <5>4
      <4> QED
        BY <4>1, <4>2
    <3>3. i + 1 <= g[x]
      <4>1. (x - 1) + 1 = x /\ g[x - 1] \in Nat /\ g[x] = Passed(order, h[x], g[x - 1])
            /\ g[x - 1] <= g[x] /\ g[x] \in Nat
        <5>1. (x - 1) + 1 = x /\ x - 1 \in 0..n /\ x \in 0..n
          BY <1>2, <3>1
        <5> HIDE DEF x
        <5> QED
          BY <1>15, <1>3, <3>1, <5>1
      <4>2. CASE g[x - 1] > i
        BY <4>1, <4>2
      <4>3. CASE g[x - 1] = i
        <5>1. h[x].tool = order[i + 1] /\ i < Len(order)
          BY <1>5, <3>1
        <5> HIDE DEF x, S
        <5> QED
          BY <4>1, <4>3, <5>1 DEF Passed
      <4> HIDE DEF x, S
      <4> QED
        BY <3>1, <3>2, <4>1, <4>2, <4>3
    <3> QED
      BY <3>3
  <2>4. m \in S
    <3>1. m \in Nat /\ m \in 0..m
      OBVIOUS
    <3> HIDE DEF S
    <3> QED
      BY <2>2, <2>3, <3>1, Induction
  <2>5. CASE m = 0
    BY <1>1, <1>2, <2>5
  <2>6. CASE m # 0
    <3>1. f[m] \in 1..n /\ m <= g[f[m]]
      BY <2>4, <2>6
    <3>2. f[m] \in 0..n /\ n \in 0..n /\ f[m] <= n
      BY <1>2, <3>1
    <3>3. g[f[m]] <= g[n] /\ g[f[m]] \in Nat /\ g[n] \in Nat
      BY <1>1, <2>1, <3>2
    <3> QED
      BY <3>1, <3>3
  <2> QED
    BY <2>5, <2>6
<1> QED
  <2> HIDE DEF Fits
  <2>1. /\ g[n] \in 0..Len(order)
        /\ \E f \in [1..g[n] -> DOMAIN h] : Fits(f, g[n])
        /\ \A m \in 0..Len(order) : \A f \in [1..m -> DOMAIN h] : Fits(f, m) => m <= g[n]
    BY <1>2, <1>4, <1>5
  <2> QED
    BY <1>1, <2>1 DEF Fits

Others(order, t) == {i \in DOMAIN order : order[i] # t}

\* Where the steps other than t stand in w.
Placings(order, t, w) ==
  {r \in [Others(order, t) -> 1..Len(w)] :
     /\ \A i \in Others(order, t) : w[r[i]] = order[i]
     /\ \A i, j \in Others(order, t) : i < j => r[i] < r[j]
     /\ \A k \in 1..Len(w) : \E i \in Others(order, t) : r[i] = k}

\* The order without t has the other steps, each in its place.
LEMMA WithoutKeepsPlaces ==
  ASSUME NEW R, NEW order \in Seq(R), NEW t
  PROVE  /\ Without(order, t) \in Seq(R) /\ Len(Without(order, t)) <= Len(order)
         /\ Placings(order, t, Without(order, t)) # {}
<1> DEFINE n == Len(order)
           Kept(i, s) == IF order[i] = t THEN s ELSE Append(s, order[i])
           body(g) == [i \in 0..n |->
                         IF i = 0 THEN << >>
                         ELSE IF order[i] = t THEN g[i - 1] ELSE Append(g[i - 1], order[i])]
           next == [i \in 1..n |-> [s \in Seq(R) |-> Kept(i, s)]]
<1>1. n \in Nat /\ DOMAIN order = 1..n /\ \A i \in 1..n : order[i] \in R
  OBVIOUS
<1>2. PICK f \in [0..n -> Seq(R)] :
        f[0] = << >> /\ \A i \in 1..n : f[i] = next[i][f[i - 1]]
  <2>1. next \in Steps(n, Seq(R)) /\ << >> \in Seq(R)
    BY <1>1 DEF Steps
  <2> HIDE DEF n, next
  <2>2. Defined(n, Seq(R), << >>, next) # {}
    BY <1>1, <2>1, Recursion
  <2> QED
    BY <2>2 DEF Defined
<1>3. f = body(f)
  <2>1. ASSUME NEW i \in 1..n PROVE f[i] = Kept(i, f[i - 1])
    <3>1. i - 1 \in 0..n
      <4> HIDE DEF n
      <4> QED
        BY <1>1
    <3>2. f[i - 1] \in Seq(R)
      BY <3>1
    <3> QED
      BY <1>2, <3>1, <3>2
  <2>2. ASSUME NEW i \in 0..n PROVE f[i] = body(f)[i]
    <3>1. CASE i = 0
      BY <1>2, <3>1
    <3>2. CASE i # 0
      <4>1. i \in 1..n
        BY <3>2
      <4> QED
        BY <2>1, <3>2, <4>1
    <3> QED
      BY <3>1, <3>2
  <2> QED
    BY <1>2, <2>2
<1> DEFINE g == CHOOSE x : x = body(x)
<1>4. g = body(g)
  BY <1>3
<1>5. Without(order, t) = g[n]
  BY DEF Without
<1> HIDE DEF g, next
<1>6. g[0] = << >> /\ \A i \in 1..n : g[i] = Kept(i, g[i - 1])
  <2>1. \A i \in 0..n : g[i] = body(g)[i]
    BY <1>4
  <2>2. 0 \in 0..n /\ \A i \in 1..n : i \in 0..n /\ i # 0
    BY <1>1
  <2> QED
    BY <2>1, <2>2
<1> DEFINE Some(m) == {i \in 1..m : order[i] # t}
           Places(m) == {r \in [Some(m) -> 1..Len(g[m])] :
                           /\ \A i \in Some(m) : g[m][r[i]] = order[i]
                           /\ \A i, j \in Some(m) : i < j => r[i] < r[j]
                           /\ \A k \in 1..Len(g[m]) : \E i \in Some(m) : r[i] = k}
           S == {m \in 0..n : g[m] \in Seq(R) /\ Len(g[m]) <= m /\ Places(m) # {}}
<1>7. 0 \in S
  <2>1. Some(0) = {} /\ Len(g[0]) = 0 /\ g[0] \in Seq(R)
    BY <1>6
  <2>2. [i \in {} |-> 0] \in Places(0)
    <3>1. 1..Len(g[0]) = {}
      BY <2>1
    <3> HIDE DEF Some
    <3> QED
      BY <2>1, <3>1
  <2> HIDE DEF Places
  <2> QED
    BY <1>1, <2>1, <2>2
<1>8. ASSUME NEW m \in 0..(n - 1), m \in S PROVE m + 1 \in S
  <2>1. PICK r \in Places(m) : TRUE
    BY <1>8
  <2>2. m + 1 \in 1..n /\ (m + 1) - 1 = m /\ order[m + 1] \in R
    BY <1>1
  <2>3. g[m + 1] = Kept(m + 1, g[m]) /\ g[m] \in Seq(R) /\ Len(g[m]) \in Nat /\ Len(g[m]) <= m
    BY <1>6, <1>8, <2>2
  <2>4. CASE order[m + 1] = t
    <3>1. g[m + 1] = g[m]
      BY <2>3, <2>4
    <3>2. Some(m + 1) = Some(m)
      <4>1. \A i : i \in 1..(m + 1) <=> i \in 1..m \/ i = m + 1
        OBVIOUS
      <4> QED
        BY <2>4, <4>1
    <3>3. r \in Places(m + 1)
      <4> HIDE DEF Some, g
      <4> QED
        BY <2>1, <3>1, <3>2
    <3> HIDE DEF Places
    <3> QED
      BY <1>1, <2>3, <3>1, <3>3
  <2>5. CASE order[m + 1] # t
    <3> DEFINE q == Len(g[m]) + 1
               e == [i \in Some(m + 1) |-> IF i = m + 1 THEN q ELSE r[i]]
    <3>1. /\ g[m + 1] \in Seq(R) /\ Len(g[m + 1]) = q /\ q \in Nat /\ q <= m + 1
          /\ g[m + 1][q] = order[m + 1]
          /\ \A k \in 1..Len(g[m]) : k \in 1..q /\ k < q /\ g[m + 1][k] = g[m][k]
          /\ \A k \in 1..q : k = q \/ k \in 1..Len(g[m])
      <4>1. g[m + 1] = Append(g[m], order[m + 1])
        BY <2>3, <2>5
      <4> HIDE DEF g
      <4> QED
        BY <2>2, <2>3, <4>1
    <3>2. /\ Some(m + 1) = Some(m) \cup {m + 1}
          /\ \A i \in Some(m) : i < m + 1 /\ i \in Nat
      <4>1. \A i : i \in 1..(m + 1) <=> i \in 1..m \/ i = m + 1
        OBVIOUS
      <4> QED
        BY <2>5, <4>1
    <3>3. /\ r \in [Some(m) -> 1..Len(g[m])]
          /\ \A i \in Some(m) : g[m][r[i]] = order[i]
          /\ \A i, j \in Some(m) : i < j => r[i] < r[j]
          /\ \A k \in 1..Len(g[m]) : \E i \in Some(m) : r[i] = k
      BY <2>1
    <3>4. /\ e[m + 1] = q
          /\ \A i \in Some(m) : e[i] = r[i] /\ r[i] \in 1..Len(g[m])
          /\ DOMAIN e = Some(m + 1) /\ e = [i \in Some(m + 1) |-> e[i]]
      <4> HIDE DEF Some, q, g
      <4> QED
        BY <3>2, <3>3
    <3> HIDE DEF Some, q, e, g, S, Places
    <3>5. e \in [Some(m + 1) -> 1..q]
      <4>1. q \in 1..q
        BY <2>3 DEF q
      <4> QED
        BY <3>1, <3>2, <3>4, <4>1
    <3>6. \A i \in Some(m + 1) : g[m + 1][e[i]] = order[i]
      BY <3>1, <3>2, <3>3, <3>4
    <3>7. ASSUME NEW i \in Some(m + 1), NEW j \in Some(m + 1), i < j PROVE e[i] < e[j]
      <4>1. i \in Some(m)
        BY <3>2, <3>7
      <4>2. CASE j = m + 1
        BY <3>1, <3>4, <4>1, <4>2
      <4>3. CASE j \in Some(m)
        BY <3>3, <3>4, <3>7, <4>1, <4>3
      <4> QED
        BY <3>2, <4>2, <4>3
    <3>8. \A k \in 1..q : \E i \in Some(m + 1) : e[i] = k
      BY <3>1, <3>2, <3>3, <3>4
    <3>9. e \in Places(m + 1)
      BY <3>1, <3>5, <3>6, <3>7, <3>8 DEF Places
    <3> QED
      BY <1>1, <2>2, <3>1, <3>9 DEF S
  <2> QED
    BY <2>4, <2>5
<1>9. \A m \in 0..n : m \in S
  <2> HIDE DEF S, n
  <2> QED
    BY <1>1, <1>7, <1>8, Induction
<1>10. g[n] \in Seq(R) /\ Len(g[n]) <= n /\ Places(n) # {}
  <2>1. n \in 0..n
    BY <1>1
  <2> HIDE DEF Places, n
  <2> QED
    BY <1>9, <2>1
<1>11. Some(n) = Others(order, t)
  BY <1>1 DEF Others
<1>12. Places(n) = Placings(order, t, g[n])
  <2> HIDE DEF Some, n
  <2> QED
    BY <1>11 DEF Placings
<1> HIDE DEF Places
<1> QED
  BY <1>5, <1>10, <1>12

\* RuleEngine._evaluate_sequence, one greedy pass over the calls, refuses a call
\* exactly when the other steps of its order are nowhere among the calls, one
\* after the other.
THEOREM SequencesAreExact ==
  ASSUME NEW R, NEW rule, rule.order \in Seq(R), NEW t, NEW C, NEW h \in Seq(C)
  PROVE  SequenceRefuses(rule, t, h) <=> ~InOrder(rule.order, t, h)
<1> DEFINE order == rule.order
           w == Without(order, t)
           p == Progress(w, h)
           steps == Others(order, t)
<1>1. /\ w \in Seq(R) /\ Len(w) \in Nat /\ Placings(order, t, w) # {}
  <2>1. order \in Seq(R)
    OBVIOUS
  <2>2. w \in Seq(R) /\ Placings(order, t, w) # {}
    <3> HIDE DEF order
    <3> QED
      BY <2>1, WithoutKeepsPlaces
  <2> HIDE DEF w
  <2> QED
    BY <2>2
<1>2. /\ p \in 0..Len(w)
      /\ \E f \in [1..p -> DOMAIN h] :
           /\ \A i \in 1..p : h[f[i]].tool = w[i]
           /\ \A i, j \in 1..p : i < j => f[i] < f[j]
      /\ \A m \in 0..Len(w) : \A f \in [1..m -> DOMAIN h] :
           /\ \A i \in 1..m : h[f[i]].tool = w[i]
           /\ \A i, j \in 1..m : i < j => f[i] < f[j]
           => m <= p
  BY <1>1, ProgressIsGreedy
<1>3. PICK r \in [steps -> 1..Len(w)] :
        /\ \A i \in steps : w[r[i]] = order[i]
        /\ \A i, j \in steps : i < j => r[i] < r[j]
        /\ \A k \in 1..Len(w) : \E i \in steps : r[i] = k
  <2> HIDE DEF w, order
  <2> QED
    BY <1>1 DEF Placings
<1>4. SequenceRefuses(rule, t, h) <=> p < Len(w)
  BY DEF SequenceRefuses
<1>5. InOrder(order, t, h) <=>
        \E f \in [steps -> DOMAIN h] : /\ \A i \in steps : h[f[i]].tool = order[i]
                                       /\ \A i, j \in steps : i < j => f[i] < f[j]
  BY DEF InOrder, Others
<1>6. \A i \in steps : i \in Int
  <2>1. DOMAIN order = 1..Len(order)
    OBVIOUS
  <2> QED
    BY <2>1 DEF Others
<1> HIDE DEF w, p, steps, order
<1>7. ASSUME ~(p < Len(w)) PROVE InOrder(order, t, h)
  <2>1. p = Len(w)
    <3>1. Len(w) \in Nat /\ p \in 0..Len(w)
      BY <1>1, <1>2
    <3> QED
      BY <1>7, <3>1
  <2>2. PICK f \in [1..p -> DOMAIN h] :
          /\ \A i \in 1..p : h[f[i]].tool = w[i]
          /\ \A i, j \in 1..p : i < j => f[i] < f[j]
    BY <1>2
  <2> DEFINE e == [i \in steps |-> f[r[i]]]
  <2>3. e \in [steps -> DOMAIN h]
    BY <1>3, <2>1
  <2>4. \A i \in steps : h[e[i]].tool = order[i]
    BY <1>3, <2>1, <2>2
  <2>5. \A i, j \in steps : i < j => e[i] < e[j]
    BY <1>3, <2>1, <2>2
  <2> HIDE DEF e
  <2> QED
    BY <1>5, <2>3, <2>4, <2>5
<1>8. ASSUME InOrder(order, t, h) PROVE ~(p < Len(w))
  <2>1. PICK f \in [steps -> DOMAIN h] :
          /\ \A i \in steps : h[f[i]].tool = order[i]
          /\ \A i, j \in steps : i < j => f[i] < f[j]
    BY <1>5, <1>8
  <2> DEFINE place == [k \in 1..Len(w) |-> CHOOSE i \in steps : r[i] = k]
             e == [k \in 1..Len(w) |-> f[place[k]]]
  <2>2. \A k \in 1..Len(w) : place[k] \in steps /\ r[place[k]] = k
    BY <1>3
  <2> HIDE DEF place
  <2>3. e \in [1..Len(w) -> DOMAIN h]
    BY <2>2
  <2>4. \A k \in 1..Len(w) : h[e[k]].tool = w[k]
    BY <1>3, <2>1, <2>2
  <2>5. ASSUME NEW k \in 1..Len(w), NEW l \in 1..Len(w), k < l PROVE e[k] < e[l]
    <3>1. ~(place[l] < place[k]) /\ place[l] # place[k]
      BY <1>3, <2>2, <2>5
    <3>2. place[k] < place[l]
      BY <1>6, <2>2, <3>1
    <3> QED
      BY <2>1, <2>2, <3>2
  <2>6. Len(w) <= p
    <3>1. Len(w) \in 0..Len(w)
      BY <1>1
    <3> HIDE DEF e
    <3> QED
      BY <1>2, <2>3, <2>4, <2>5, <3>1
  <2> QED
    BY <1>1, <1>2, <2>6
<1> QED
  BY <1>4, <1>7, <1>8 DEF order

----------------------------------------------------------------------------
(* Rules and session.                                                      *)

LEMMA RulesNowTyped ==
  ASSUME TypeOK, FileTracks
  PROVE  /\ RulesNow \in RuleFiles \cup {{}}
         /\ ~(stale /\ file = Torn) =>
              RulesNow \in RuleFiles /\ RulesNow = IF apart THEN rules ELSE file
BY DEF TypeOK, FileTracks, RulesNow

LEMMA RecordedTracks ==
  ASSUME TypeOK, HistoryTracks, NEW call \in Call, NEW request \in Request,
         call.tool = request.tool,
         history' = Recorded(history, call, HistoryCap), done' = Append(done, request)
  PROVE  /\ history' \in Seq(Call) /\ Len(history') <= HistoryCap
         /\ done' \in Seq(Request) /\ HistoryTracks'
<1> DEFINE all == Append(history, call)
<1>1. /\ HistoryCap \in Nat \ {0} /\ history \in Seq(Call) /\ Len(history) <= HistoryCap
      /\ done \in Seq(Request)
  BY PipelineAssumption DEF TypeOK
<1>2. all \in Seq(Call) /\ Len(all) = Len(history) + 1 /\ Len(history) \in Nat
  BY <1>1
<1>3. Len(done') = Len(done) + 1 /\ Len(done) \in Nat /\ done' \in Seq(Request)
  BY <1>1
<1>4. /\ Len(history) = IF Len(done) <= HistoryCap THEN Len(done) ELSE HistoryCap
      /\ \A n \in 1..Len(history) : history[n].tool = done[Len(done) - Len(history) + n].tool
  BY <1>1 DEF HistoryTracks
<1>5. \A n \in 1..Len(all) : all[n].tool = done'[Len(done) - Len(history) + n].tool
  <2> SUFFICES ASSUME NEW n \in 1..Len(all)
               PROVE  all[n].tool = done'[Len(done) - Len(history) + n].tool
    OBVIOUS
  <2>1. CASE n = Len(history) + 1
    <3>1. all[n] = call /\ Len(done) - Len(history) + n = Len(done) + 1
      BY <1>1, <1>3, <2>1
    <3>2. done'[Len(done) + 1] = request
      BY <1>1
    <3> QED
      BY <3>1, <3>2
  <2>2. CASE n \in 1..Len(history)
    <3>1. all[n] = history[n]
      BY <1>1, <2>2
    <3>2. Len(done) - Len(history) + n \in 1..Len(done)
      BY <1>1, <1>2, <1>3, <1>4, <2>2
    <3>3. done'[Len(done) - Len(history) + n] = done[Len(done) - Len(history) + n]
      BY <1>1, <3>2
    <3> QED
      BY <1>4, <2>2, <3>1, <3>3
  <2>3. n = Len(history) + 1 \/ n \in 1..Len(history)
    BY <1>2
  <2> QED
    BY <2>1, <2>2, <2>3
<1>6. CASE Len(all) > HistoryCap
  <2> DEFINE m == Len(all) - HistoryCap + 1
  <2>1. /\ m \in 1..Len(all) /\ m \in Nat /\ Len(all) - m + 1 = HistoryCap
        /\ Len(all) \in Nat /\ Len(history) = HistoryCap /\ m = 2
    BY <1>1, <1>2, <1>3, <1>4, <1>6
  <2>2. history' = SubSeq(all, m, Len(all))
    BY <1>6 DEF Recorded
  <2> HIDE DEF all, m
  <2>3. /\ history' \in Seq(Call) /\ Len(history') = HistoryCap
        /\ \A n \in 1..HistoryCap : history'[n] = all[m + n - 1]
    BY <1>1, <1>2, <2>1, <2>2
  <2>4. \A n \in 1..HistoryCap : m + n - 1 = n + 1 /\ n + 1 \in 1..Len(all)
    BY <1>1, <1>2, <2>1
  <2>5. \A n \in 1..HistoryCap : history'[n].tool = done'[Len(done) - Len(history) + (n + 1)].tool
    BY <1>5, <2>3, <2>4
  <2>6. \A n \in 1..HistoryCap :
          Len(done) - Len(history) + (n + 1) = Len(done') - Len(history') + n
    BY <1>1, <1>3, <2>1, <2>3
  <2>7. Len(history') = IF Len(done') <= HistoryCap THEN Len(done') ELSE HistoryCap
    BY <1>1, <1>2, <1>3, <1>4, <1>6, <2>1, <2>3
  <2>8. \A n \in 1..Len(history') :
          history'[n].tool = done'[Len(done') - Len(history') + n].tool
    BY <2>3, <2>5, <2>6
  <2>9. HistoryTracks'
    BY <2>7, <2>8 DEF HistoryTracks
  <2> QED
    BY <1>1, <1>3, <2>3, <2>9
<1>7. CASE ~(Len(all) > HistoryCap)
  <2>1. history' = all
    BY <1>7 DEF Recorded
  <2> HIDE DEF all
  <2>2. Len(history') = Len(done') /\ Len(done') <= HistoryCap /\ Len(history) = Len(done)
    BY <1>1, <1>2, <1>3, <1>4, <1>7, <2>1
  <2>3. \A n \in 1..Len(all) :
          Len(done) - Len(history) + n = Len(done') - Len(history') + n
    BY <1>2, <1>3, <2>2
  <2> QED
    BY <1>2, <1>3, <1>5, <2>1, <2>2, <2>3 DEF HistoryTracks
<1> QED
  BY <1>6, <1>7

Listed == {r \in UNION RuleFiles : \A f \in RuleFiles : r \in f}

LEMMA CallsFinite ==
  ASSUME NEW d, NEW T, d \in Seq(T), NEW u
  PROVE  IsFiniteSet(CallsOf(d, u)) /\ Cardinality(CallsOf(d, u)) \in Nat
<1>1. IsFiniteSet(DOMAIN d)
  BY FS_Interval
<1>2. CallsOf(d, u) \in SUBSET (DOMAIN d)
  BY DEF CallsOf
<1>3. IsFiniteSet(CallsOf(d, u))
  BY <1>1, <1>2, FS_Subset
<1> QED
  BY <1>3, FS_CardinalityType

LEMMA FlightsFinite ==
  ASSUME NEW S \in SUBSET Callers
  PROVE  /\ IsFiniteSet(S) /\ Cardinality(S) \in Nat /\ Cardinality(S) <= Cardinality(Callers)
         /\ Cardinality(Callers) \in Nat
<1>1. IsFiniteSet(Callers)
  BY PipelineAssumption
<1>2. IsFiniteSet(S) /\ Cardinality(S) <= Cardinality(Callers)
  BY <1>1, FS_Subset
<1> QED
  BY <1>1, <1>2, FS_CardinalityType

LEMMA RateStays ==
  ASSUME RateHolds, done' = done, calls' = calls, ruled' = ruled
  PROVE  RateHolds'
BY DEF RateHolds, InFlight

\* A call is sent only while less than the limit has been done.
LEMMA ExecuteRate ==
  ASSUME TypeOK, HistoryTracks, FileTracks, RateHolds,
         NEW c \in Callers, NEW t \in Tools, NEW arg \in Args, NEW k \in Shown(t),
         Execute(c, t, arg, k)
  PROVE  RateHolds'
<1> SUFFICES ASSUME ruled', Len(done') <= HistoryCap,
                    NEW rule \in Listed,
                    rule.kind = "rate", rule.window = 0, rule.perTool, rule.limit > 0,
                    NEW u \in rule.tools
             PROVE  Cardinality(CallsOf(done', u)) + Cardinality(InFlight(u)')
                      <= rule.limit + Cardinality(Callers) - 1
  BY DEF RateHolds, Listed
<1>1. /\ ruled /\ ~(stale /\ file = Torn) /\ done' = done /\ calls[c] = Idle
      /\ calls' = [calls EXCEPT ![c] = [tool |-> t, arg |-> arg]]
      /\ RulesPass(t, arg)
  BY DEF Execute
<1>2. rule.limit \in Int
  BY PipelineAssumption DEF Listed
<1>3. done \in Seq(Request) /\ history \in Seq(Call)
  BY DEF TypeOK
<1>4. \A d \in Callers : calls'[d] = IF d = c THEN [tool |-> t, arg |-> arg] ELSE calls[d]
  BY <1>1 DEF TypeOK
<1>5. CASE u = t
  <2>1. rule \in RulesNow
    BY <1>1, RulesNowTyped DEF Listed
  <2>2. ~Refuses(rule, t, arg, history, now)
    BY <1>1, <2>1 DEF RulesPass, RulesAllow
  <2>3. ~RateRefuses(rule, t, history, now)
    BY <1>5, <2>2 DEF Refuses
  <2>4. DOMAIN history \cap CallsOf(history, t) = CallsOf(done, t)
    <3>1. DOMAIN history = DOMAIN done /\ \A n \in DOMAIN done : history[n].tool = done[n].tool
      BY <1>1, <1>3 DEF HistoryTracks
    <3> QED
      BY <3>1 DEF CallsOf
  <2>5. ~(Cardinality(CallsOf(done, t)) >= rule.limit)
    BY <2>3, <2>4 DEF RateRefuses
  <2>6. Cardinality(CallsOf(done, t)) \in Nat
    BY <1>3, CallsFinite
  <2>7. InFlight(u)' \subseteq Callers
    BY DEF InFlight
  <2>8. /\ Cardinality(InFlight(u)') \in Nat /\ Cardinality(Callers) \in Nat
        /\ Cardinality(InFlight(u)') <= Cardinality(Callers)
    BY <2>7, FlightsFinite
  <2> QED
    BY <1>1, <1>2, <1>5, <2>5, <2>6, <2>8
<1>6. CASE u # t
  <2>1. InFlight(u)' = InFlight(u)
    BY <1>1, <1>4, <1>6 DEF InFlight
  <2> QED
    BY <1>1, <2>1 DEF RateHolds, Listed
<1> QED
  BY <1>5, <1>6

LEMMA RespondRate ==
  ASSUME TypeOK, RateHolds, NEW c \in Callers, Respond(c)
  PROVE  RateHolds'
<1> SUFFICES ASSUME ruled', Len(done') <= HistoryCap,
                    NEW rule \in Listed,
                    rule.kind = "rate", rule.window = 0, rule.perTool, rule.limit > 0,
                    NEW u \in rule.tools
             PROVE  Cardinality(CallsOf(done', u)) + Cardinality(InFlight(u)')
                      <= rule.limit + Cardinality(Callers) - 1
  BY DEF RateHolds, Listed
<1> DEFINE x == Len(done) + 1
<1>1. /\ ruled /\ done' = Append(done, calls[c]) /\ calls[c] # Idle
      /\ calls' = [calls EXCEPT ![c] = Idle]
  BY DEF Respond
<1>2. done \in Seq(Request) /\ calls[c] \in Request
  BY <1>1 DEF TypeOK
<1>3. /\ Len(done') = Len(done) + 1 /\ DOMAIN done' = DOMAIN done \cup {x} /\ x \notin DOMAIN done
      /\ done'[x] = calls[c] /\ \A n \in DOMAIN done : done'[n] = done[n]
  BY <1>1, <1>2
<1>4. Len(done) <= HistoryCap
  BY <1>2, <1>3, PipelineAssumption
<1>5. /\ Cardinality(CallsOf(done, u)) + Cardinality(InFlight(u))
           <= rule.limit + Cardinality(Callers) - 1
  BY <1>1, <1>4 DEF RateHolds, Listed
<1>6. \A d \in Callers : calls'[d] = IF d = c THEN Idle ELSE calls[d]
  BY <1>1 DEF TypeOK
<1> HIDE DEF x
<1>7. CASE calls[c].tool = u
  <2>1. CallsOf(done', u) = CallsOf(done, u) \cup {x} /\ x \notin CallsOf(done, u)
    BY <1>3, <1>7 DEF CallsOf
  <2>2. IsFiniteSet(CallsOf(done, u)) /\ Cardinality(CallsOf(done, u)) \in Nat
    BY <1>2, CallsFinite
  <2>3. Cardinality(CallsOf(done', u)) = Cardinality(CallsOf(done, u)) + 1
    BY <2>1, <2>2, FS_AddElement
  <2>4. InFlight(u)' = InFlight(u) \ {c} /\ c \in InFlight(u)
    BY <1>1, <1>6, <1>7 DEF InFlight
  <2>5. IsFiniteSet(InFlight(u)) /\ Cardinality(InFlight(u)) \in Nat
    BY FlightsFinite DEF InFlight
  <2>6. Cardinality(InFlight(u)') = Cardinality(InFlight(u)) - 1
    BY <2>4, <2>5, FS_RemoveElement
  <2>7. Cardinality(CallsOf(done', u)) + Cardinality(InFlight(u)')
          = Cardinality(CallsOf(done, u)) + Cardinality(InFlight(u))
    BY <2>2, <2>3, <2>5, <2>6
  <2> QED
    BY <1>5, <2>7
<1>8. CASE calls[c].tool # u
  <2>1. CallsOf(done', u) = CallsOf(done, u)
    BY <1>3, <1>8 DEF CallsOf
  <2>2. InFlight(u)' = InFlight(u)
    BY <1>1, <1>6, <1>8 DEF InFlight
  <2> QED
    BY <1>5, <2>1, <2>2
<1> QED
  BY <1>7, <1>8

LEMMA FailRate ==
  ASSUME TypeOK, RateHolds, NEW c \in Callers, Fail(c)
  PROVE  RateHolds'
<1> SUFFICES ASSUME ruled', Len(done') <= HistoryCap,
                    NEW rule \in Listed,
                    rule.kind = "rate", rule.window = 0, rule.perTool, rule.limit > 0,
                    NEW u \in rule.tools
             PROVE  Cardinality(CallsOf(done', u)) + Cardinality(InFlight(u)')
                      <= rule.limit + Cardinality(Callers) - 1
  BY DEF RateHolds, Listed
<1>1. ruled /\ done' = done /\ calls' = [calls EXCEPT ![c] = Idle]
  BY DEF Fail
<1>2. InFlight(u)' \subseteq InFlight(u) /\ InFlight(u) \subseteq Callers
  BY <1>1 DEF InFlight, TypeOK
<1>3. IsFiniteSet(InFlight(u)) /\ Cardinality(InFlight(u)) \in Nat /\ Cardinality(Callers) \in Nat
  BY <1>2, FlightsFinite
<1>4. Cardinality(InFlight(u)') <= Cardinality(InFlight(u)) /\ Cardinality(InFlight(u)') \in Nat
  BY <1>2, <1>3, FS_Subset, FS_CardinalityType
<1>5. Cardinality(CallsOf(done, u)) + Cardinality(InFlight(u))
        <= rule.limit + Cardinality(Callers) - 1
  BY <1>1 DEF RateHolds, Listed
<1>6. Cardinality(CallsOf(done, u)) \in Nat
  BY CallsFinite DEF TypeOK
<1>7. rule.limit \in Int
  BY PipelineAssumption DEF Listed
<1> QED
  BY <1>1, <1>3, <1>4, <1>5, <1>6, <1>7

----------------------------------------------------------------------------
(* Steps.                                                                  *)

LEMMA InitInvariant == Init => IInv
<1> SUFFICES ASSUME Init PROVE IInv
  OBVIOUS
<1>1. starts = <<>> /\ done = <<>> /\ history = <<>> /\ now = 0
  BY DEF Init
<1>2. TypeOK
  <2>1. \A i \in BudgetRules : Limit(i) \in Nat
    BY RulesTyped
  <2>2. /\ budgets \in Budgets
        /\ \A i \in BudgetRules : budgets[i].start <= now /\ budgets[i].count <= Limit(i)
    BY <1>1, <2>1 DEF Init, Budgets, Tracker
  <2>3. tokens \in [Tokens -> Token \cup {Unused}] /\ calls \in [Callers -> Request \cup {Idle}]
    BY DEF Init
  <2>4. starts \in Seq(Start) /\ done \in Seq(Request) /\ history \in Seq(Call)
        /\ Len(history) <= HistoryCap
    BY <1>1, PipelineAssumption
  <2>5. lock \in [version : Nat, approves : SUBSET Tools]
    BY DEF Init
  <2> QED
    BY <1>1, <2>2, <2>3, <2>4, <2>5 DEF Init, TypeOK, Limit
<1>3. BudgetsCount
  <2> SUFFICES ASSUME NEW i \in Binding PROVE Counts(budgets[i], i, starts, now)
    BY DEF BudgetsCount
  <2>1. \A from, to : SentOf(starts, i, from, to) = {}
    BY <1>1 DEF SentOf
  <2>2. \A from, to : Cardinality(SentOf(starts, i, from, to)) = 0
    BY <2>1, SentNothing
  <2>3. i \in BudgetRules /\ Limit(i) \in Nat
    BY RulesTyped
  <2>4. budgets[i] = [start |-> 0, count |-> 0]
    BY <2>3 DEF Init
  <2> QED
    BY <1>1, <2>2, <2>3, <2>4 DEF Counts
<1>4. TokensTrack
  BY <1>1 DEF TokensTrack, Init, Unused
<1>5. HistoryTracks
  BY <1>1, PipelineAssumption DEF HistoryTracks
<1>6. FileTracks
  BY PipelineAssumption DEF Init, FileTracks
<1>7. RateHolds
  <2> SUFFICES ASSUME NEW rule \in Listed, rule.kind = "rate", rule.limit > 0, NEW u \in rule.tools
               PROVE  Cardinality(CallsOf(done, u)) + Cardinality(InFlight(u))
                        <= rule.limit + Cardinality(Callers) - 1
    BY DEF RateHolds, Listed
  <2>1. CallsOf(done, u) = {} /\ InFlight(u) = {}
    BY <1>1 DEF CallsOf, InFlight, Init
  <2>2. Cardinality(CallsOf(done, u)) = 0 /\ Cardinality(InFlight(u)) = 0
    BY <2>1, FS_EmptySet
  <2>3. rule.limit \in Int /\ Cardinality(Callers) \in Nat
    BY PipelineAssumption, FlightsFinite DEF Listed
  <2> QED
    BY <2>2, <2>3
<1> QED
  BY <1>2, <1>3, <1>4, <1>5, <1>6, <1>7 DEF IInv

\* The trackers of a step that sends nothing.
LEMMA BudgetsMove ==
  ASSUME starts' = starts, now' = now,
         \A i \in Binding : Counts(budgets'[i], i, starts, now)
  PROVE  BudgetsCount'
BY DEF BudgetsCount

LEMMA BudgetsStay ==
  ASSUME BudgetsCount, starts' = starts, now' = now, budgets' = budgets
  PROVE  BudgetsCount'
BY BudgetsMove DEF BudgetsCount

LEMMA DenyKeeps ==
  ASSUME IInv, NEW t \in Tools, NEW arg \in Args, NEW k \in Shown(t), Deny(t, arg, k)
  PROVE  IInv'
<1> USE DEF IInv
<1>1. /\ UNCHANGED <<now, dry, lock, tokens, rules, file, stale, history, calls, starts, done, ruled, apart>>
      /\ budgets' \in {budgets, Evaluated(t, budgets, now)}
  BY DEF Deny
<1>2. BudgetsTyped(budgets') /\ \A i \in Binding : Counts(budgets'[i], i, starts, now)
  <2>1. BudgetsTyped(budgets) /\ \A i \in Binding : Counts(budgets[i], i, starts, now)
    BY DEF TypeOK, BudgetsTyped, Limit, BudgetsCount
  <2> QED
    BY <1>1, <2>1, EvaluatedKeeps
<1>3. TypeOK'
  BY <1>1, <1>2 DEF TypeOK, BudgetsTyped, Limit
<1> QED
  BY <1>1, <1>2, <1>3, BudgetsMove, TokensStay, RateStays DEF HistoryTracks, FileTracks

LEMMA ChallengeKeeps ==
  ASSUME IInv, NEW t \in Tools, NEW arg \in Args, NEW k \in Tokens, Challenge(t, arg, k)
  PROVE  IInv'
<1> USE DEF IInv
<1> DEFINE o == [status |-> "pending", tool |-> t, arg |-> arg, version |-> lock.version,
                 granted |-> FALSE, used |-> lock.version]
<1>1. /\ UNCHANGED <<now, dry, lock, rules, file, stale, history, calls, starts, done, ruled, apart>>
      /\ budgets' = Evaluated(t, budgets, now)
      /\ tokens' = [tokens EXCEPT ![k] = o]
      /\ tokens[k] = Unused
  BY DEF Challenge
<1>2. BudgetsTyped(budgets') /\ \A i \in Binding : Counts(budgets'[i], i, starts, now)
  BY <1>1, EvaluatedKeeps
<1>3. o \in Token
  BY DEF Token, TypeOK
<1>4. \A n \in DOMAIN starts : starts[n].token = k => starts[n].token = NoToken
  BY <1>1 DEF TokensTrack, TokenOf, Unused
<1>5. o.status # "granted"
  OBVIOUS
<1>6. tokens' \in [Tokens -> Token \cup {Unused}] /\ TokensTrack'
  <2> HIDE DEF o
  <2> QED
    BY <1>1, <1>3, <1>4, <1>5, FreeTokenChanges
<1>7. TypeOK'
  BY <1>1, <1>2, <1>6 DEF TypeOK, BudgetsTyped, Limit
<1> QED
  BY <1>1, <1>2, <1>6, <1>7, BudgetsMove, RateStays DEF HistoryTracks, FileTracks

FileTyped ==
  /\ rules \in RuleFiles \cup {{}} /\ file \in RuleFiles \cup {Torn}
  /\ stale \in BOOLEAN /\ apart \in BOOLEAN /\ (~stale /\ ~apart => rules = file)

LEMMA HotReloadKeeps ==
  ASSUME TypeOK, FileTracks, HotReload
  PROVE  FileTyped' /\ FileTracks'
<1>1. rules' = RulesNow /\ RulesNow \in RuleFiles \cup {{}}
  BY RulesNowTyped DEF HotReload
<1>2. CASE stale /\ file # Torn
  <2>1. RulesNow = file /\ file \in RuleFiles
    BY <1>2 DEF TypeOK, RulesNow
  <2>2. file' \in RuleFiles \cup {Torn} /\ stale' = FALSE /\ apart' = (file' # rules')
    BY <1>2 DEF HotReload, RememberMtime
  <2> QED
    BY <1>1, <2>1, <2>2 DEF FileTyped, FileTracks
<1>3. CASE ~(stale /\ file # Torn)
  <2>1. UNCHANGED <<file, stale, apart>>
    BY <1>3 DEF HotReload
  <2>2. ~stale => RulesNow = rules
    BY DEF RulesNow
  <2> QED
    BY <1>1, <2>1, <2>2 DEF FileTyped, FileTracks, TypeOK
<1> QED
  BY <1>2, <1>3

LEMMA StopKeeps ==
  ASSUME IInv, NEW t \in Tools, NEW arg \in Args, NEW k \in Shown(t), Stop(t, arg, k)
  PROVE  IInv'
<1> USE DEF IInv
<1>1. /\ UNCHANGED <<now, dry, lock, history, calls, starts, done, ruled>>
      /\ Passes(t, arg, k) /\ Spend(t, k) /\ HotReload
      /\ budgets' = Spent(t)
  BY DEF Stop, Spend, Spent
<1>2. BudgetsTyped(budgets') /\ \A i \in Binding : Counts(budgets'[i], i, starts, now)
  BY <1>1, SpentTyped, SpentKeeps
<1>3. tokens' \in [Tokens -> Token \cup {Unused}] /\ TokensTrack'
  BY <1>1, StopTokens
<1>4. FileTyped' /\ FileTracks'
  BY <1>1, HotReloadKeeps
<1>5. TypeOK'
  BY <1>1, <1>2, <1>3, <1>4 DEF TypeOK, FileTyped, BudgetsTyped, Limit
<1> QED
  BY <1>1, <1>2, <1>3, <1>4, <1>5, BudgetsMove, RateStays DEF HistoryTracks

LEMMA ExecuteKeeps ==
  ASSUME IInv, NEW c \in Callers, NEW t \in Tools, NEW arg \in Args, NEW k \in Shown(t),
         Execute(c, t, arg, k)
  PROVE  IInv'
<1> USE DEF IInv
<1> DEFINE s == [tool |-> t, arg |-> arg, time |-> now,
                 token |-> IF NeedsToken(t) THEN k ELSE NoToken]
<1>1. /\ UNCHANGED <<now, dry, lock, history, done>>
      /\ Passes(t, arg, k) /\ Spend(t, k) /\ HotReload
      /\ budgets' = Spent(t)
      /\ starts' = Append(starts, s)
      /\ calls' = [calls EXCEPT ![c] = [tool |-> t, arg |-> arg]]
      /\ ruled' \in BOOLEAN
  BY DEF Execute, Spend, Spent, TypeOK
<1>2. /\ s \in Start /\ s.tool = t /\ s.arg = arg /\ s.time = now
      /\ s.token = IF NeedsToken(t) THEN k ELSE NoToken
  BY DEF Start, Shown, TypeOK
<1> HIDE DEF s
<1>3. PolicyAllows(t)
  BY <1>1 DEF Passes
<1>4. BudgetsTyped(budgets')
  BY <1>1, SpentTyped
<1>5. BudgetsCount'
  <2>1. \A i \in Binding : Counts(Spent(t)[i], i, Append(starts, s), now)
    BY <1>2, <1>3, SentKeeps
  <2> QED
    BY <1>1, <2>1 DEF BudgetsCount
<1>6. tokens' \in [Tokens -> Token \cup {Unused}] /\ TokensTrack'
  BY <1>1, <1>2, ExecuteTokens
<1>7. FileTyped' /\ FileTracks'
  BY <1>1, HotReloadKeeps
<1>8. calls' \in [Callers -> Request \cup {Idle}] /\ starts' \in Seq(Start)
  BY <1>1, <1>2 DEF TypeOK, Request
<1>9. TypeOK'
  BY <1>1, <1>4, <1>6, <1>7, <1>8 DEF TypeOK, FileTyped, BudgetsTyped, Limit
<1>10. RateHolds'
  BY ExecuteRate
<1> QED
  BY <1>1, <1>5, <1>6, <1>7, <1>9, <1>10 DEF HistoryTracks

LEMMA RespondKeeps ==
  ASSUME IInv, NEW c \in Callers, Respond(c)
  PROVE  IInv'
<1> USE DEF IInv
<1> DEFINE call == [tool |-> calls[c].tool, arg |-> calls[c].arg, time |-> now]
<1>1. /\ UNCHANGED <<now, dry, lock, budgets, tokens, rules, file, stale, starts, ruled, apart>>
      /\ history' = Recorded(history, call, HistoryCap)
      /\ done' = Append(done, calls[c])
      /\ calls' = [calls EXCEPT ![c] = Idle]
      /\ calls[c] \in Request
  BY DEF Respond, TypeOK
<1>2. call \in Call /\ call.tool = calls[c].tool
  BY <1>1 DEF Call, Request, TypeOK
<1> HIDE DEF call
<1>3. /\ history' \in Seq(Call) /\ Len(history') <= HistoryCap
      /\ done' \in Seq(Request) /\ HistoryTracks'
  BY <1>1, <1>2, RecordedTracks
<1>4. calls' \in [Callers -> Request \cup {Idle}]
  BY <1>1 DEF TypeOK
<1>5. TypeOK'
  BY <1>1, <1>3, <1>4 DEF TypeOK
<1> QED
  BY <1>1, <1>3, <1>5, BudgetsStay, TokensStay, RespondRate DEF FileTracks

LEMMA FailKeeps ==
  ASSUME IInv, NEW c \in Callers, Fail(c)
  PROVE  IInv'
<1> USE DEF IInv
<1>1. /\ UNCHANGED <<now, dry, lock, budgets, tokens, rules, file, stale, history,
                     starts, done, ruled, apart>>
      /\ calls' = [calls EXCEPT ![c] = Idle]
  BY DEF Fail
<1>2. TypeOK'
  <2>1. calls' \in [Callers -> Request \cup {Idle}]
    BY <1>1 DEF TypeOK
  <2> QED
    BY <1>1, <2>1 DEF TypeOK
<1> QED
  BY <1>1, <1>2, BudgetsStay, TokensStay, FailRate DEF HistoryTracks, FileTracks

\* What a step that only touches tokens, lock, rules and file must show.
LEMMA AsideKeeps ==
  ASSUME IInv, TypeOK', TokensTrack', FileTracks',
         UNCHANGED <<now, budgets, history, calls, starts, done, ruled>>
  PROVE  IInv'
BY BudgetsStay, RateStays DEF IInv, HistoryTracks

LEMMA SettleKeeps ==
  ASSUME IInv, NEW k \in Tokens, Grant(k) \/ Refuse(k)
  PROVE  IInv'
<1> USE DEF IInv
<1>1. PICK to \in {"granted", "denied"} :
        /\ tokens[k].status \in {"pending", "granted"}
        /\ tokens' = [tokens EXCEPT ![k].status = to, ![k].granted = @ \/ to = "granted"]
        /\ UNCHANGED <<now, dry, lock, budgets, rules, file, stale, history,
                       calls, starts, done, ruled, apart>>
  BY DEF Grant, Refuse, Settle
<1> DEFINE o == [tokens[k] EXCEPT !.status = to, !.granted = tokens[k].granted \/ to = "granted"]
<1>2. tokens[k] \in Token
  BY <1>1, ConsumableKinds
<1>3. tokens' = [tokens EXCEPT ![k] = o]
  BY <1>1, <1>2 DEF TypeOK, Token
<1>4. o \in Token /\ (o.status = "granted" => o.granted)
  BY <1>1, <1>2 DEF Token
<1>5. \A n \in DOMAIN starts : starts[n].token = k => starts[n].token = NoToken
  BY <1>1, ConsumableKinds
<1> HIDE DEF o
<1>6. tokens' \in [Tokens -> Token \cup {Unused}] /\ TokensTrack'
  BY <1>1, <1>3, <1>4, <1>5, FreeTokenChanges
<1>7. TypeOK'
  BY <1>1, <1>6 DEF TypeOK
<1> QED
  BY <1>1, <1>6, <1>7, AsideKeeps DEF FileTracks

LEMMA ReloadKeeps ==
  ASSUME IInv, ReloadLockfile
  PROVE  IInv'
<1> USE DEF IInv
<1>1. UNCHANGED <<now, dry, budgets, tokens, rules, file, stale, history, calls, starts, done, ruled, apart>>
  BY DEF ReloadLockfile
<1>2. lock' \in [version : Nat, approves : SUBSET Tools]
  <2>1. PICK approves \in Lockfiles :
          lock' = [version |-> lock.version + 1, approves |-> approves]
    BY DEF ReloadLockfile
  <2> QED
    BY <2>1, PipelineAssumption DEF TypeOK
<1>3. TypeOK'
  BY <1>1, <1>2 DEF TypeOK
<1> QED
  BY <1>1, <1>3, TokensStay, AsideKeeps DEF FileTracks

LEMMA RulesFileKeeps ==
  ASSUME IInv, BeginWrite \/ \E new \in RuleFiles : EndWrite(new) \/ ConsoleRules(new)
  PROVE  IInv'
<1> USE DEF IInv
<1>1. UNCHANGED <<now, dry, lock, budgets, tokens, history, calls, starts, done, ruled>>
  BY DEF BeginWrite, EndWrite, ConsoleRules
<1>2. FileTyped' /\ FileTracks'
  <2>1. CASE BeginWrite
    BY <2>1 DEF BeginWrite, TypeOK, FileTyped, FileTracks
  <2>2. ASSUME NEW new \in RuleFiles, EndWrite(new) PROVE FileTyped' /\ FileTracks'
    BY <2>2 DEF EndWrite, TypeOK, FileTyped, FileTracks
  <2>3. ASSUME NEW new \in RuleFiles, ConsoleRules(new) PROVE FileTyped' /\ FileTracks'
    <3>1. rules' = new /\ SaveRules(new)
      BY <2>3 DEF ConsoleRules
    <3>2. CASE RememberMtime
      BY <3>1, <3>2 DEF RememberMtime, FileTyped, FileTracks
    <3>3. CASE apart' = (~stale /\ file # new) /\ UNCHANGED <<file, stale>>
      BY <3>1, <3>3 DEF TypeOK, FileTyped, FileTracks
    <3>4. CASE file' = Torn /\ stale' = TRUE /\ apart' = FALSE
      BY <3>1, <3>4 DEF FileTyped, FileTracks
    <3> QED
      BY <3>1, <3>2, <3>3, <3>4 DEF SaveRules
  <2> QED
    BY <2>1, <2>2, <2>3
<1>3. TypeOK'
  BY <1>1, <1>2 DEF TypeOK, FileTyped
<1> QED
  BY <1>1, <1>2, <1>3, TokensStay, AsideKeeps

LEMMA TickKeeps ==
  ASSUME IInv, Tick
  PROVE  IInv'
<1> USE DEF IInv
<1>1. /\ UNCHANGED <<dry, lock, budgets, tokens, rules, file, stale, history, calls, starts, done, ruled, apart>>
      /\ now' = now + 1
  BY DEF Tick
<1>2. now \in Nat /\ starts \in Seq(Start)
  BY DEF TypeOK
<1>3. TypeOK'
  <2>1. ASSUME NEW i \in BudgetRules
        PROVE  budgets[i].start <= now + 1 /\ budgets[i].count <= PolicyRules[i].limit
    <3>1. budgets[i] \in Tracker
      BY DEF TypeOK, Budgets
    <3> QED
      BY <1>2, <3>1 DEF TypeOK, Tracker
  <2> QED
    BY <1>1, <1>2, <2>1 DEF TypeOK
<1>4. BudgetsCount'
  <2>1. ASSUME NEW i \in Binding PROVE Counts(budgets[i], i, starts, now + 1)
    <3>1. budgets[i] \in Tracker /\ Counts(budgets[i], i, starts, now)
      BY RulesTyped DEF TypeOK, Budgets, BudgetsCount
    <3> QED
      BY <1>2, <3>1, LaterCounts
  <2> QED
    BY <1>1, <2>1 DEF BudgetsCount
<1> QED
  BY <1>1, <1>3, <1>4, TokensStay, RateStays DEF HistoryTracks, FileTracks

LEMMA NextInvariant == IInv /\ [Next]_vars => IInv'
<1> SUFFICES ASSUME IInv, [Next]_vars PROVE IInv'
  OBVIOUS
<1>1. ASSUME NEW t \in Tools, NEW arg \in Args,
             \/ \E k \in Shown(t) : \/ Deny(t, arg, k) \/ Stop(t, arg, k)
                                    \/ \E c \in Callers : Execute(c, t, arg, k)
             \/ \E k \in Tokens : Challenge(t, arg, k)
      PROVE  IInv'
  BY <1>1, DenyKeeps, StopKeeps, ExecuteKeeps, ChallengeKeeps
<1>2. ASSUME NEW c \in Callers, Respond(c) \/ Fail(c) PROVE IInv'
  BY <1>2, RespondKeeps, FailKeeps
<1>3. ASSUME NEW k \in Tokens, Grant(k) \/ Refuse(k) PROVE IInv'
  BY <1>3, SettleKeeps
<1>4. CASE BeginWrite \/ \E new \in RuleFiles : EndWrite(new) \/ ConsoleRules(new)
  BY <1>4, RulesFileKeeps
<1>5. CASE UNCHANGED vars
  <2>1. /\ UNCHANGED <<now, budgets, history, calls, starts, done, ruled>>
        /\ UNCHANGED <<dry, lock, tokens, rules, file, stale, apart>>
    BY <1>5 DEF vars
  <2>2. TypeOK' /\ FileTracks'
    BY <2>1 DEF IInv, TypeOK, FileTracks
  <2>3. TokensTrack'
    BY <2>1, TokensStay DEF IInv
  <2> QED
    BY <2>1, <2>2, <2>3, AsideKeeps
<1> QED
  BY <1>1, <1>2, <1>3, <1>4, <1>5, ReloadKeeps, TickKeeps DEF Next

THEOREM InvariantHolds == Spec => []IInv
BY InitInvariant, NextInvariant, PTL DEF Spec

----------------------------------------------------------------------------
(* What follows.                                                           *)

\* The variables of the pipeline keep their types: no tracker counts beyond its
\* limit, no history is longer than max_history, and the rules in memory are
\* those of the file unless its mtime says otherwise, a save of the console
\* failed, or the file was written behind a reading.
THEOREM TypeCorrect == Spec => []TypeOK
<1>1. IInv => TypeOK
  BY DEF IInv
<1> QED
  BY <1>1, InvariantHolds, PTL

\* GovernanceEngine.execute sends a request that needs a confirmation once per
\* token, which was granted for this very request under the lockfile in force.
THEOREM StartsConfirmed == Spec => []StartsAreConfirmed
<1>1. IInv => StartsAreConfirmed
  <2> SUFFICES ASSUME IInv, NEW n \in DOMAIN starts,
                      \/ starts[n].tool \in (StateChanging \ {t \in Tools : Waived(t)}) \cup Always
                      \/ starts[n].token # NoToken
               PROVE  LET s == starts[n] IN
                      /\ s.token \in Tokens
                      /\ tokens[s.token].status = "consumed" /\ tokens[s.token].granted
                      /\ tokens[s.token].tool = s.tool /\ tokens[s.token].arg = s.arg
                      /\ tokens[s.token].version = tokens[s.token].used
                      /\ \A m \in DOMAIN starts : starts[m].token = s.token => n = m
    BY DEF StartsAreConfirmed
  <2>1. TokenOf(starts[n]) /\ starts[n].token # NoToken
    BY DEF IInv, TokensTrack, TokenOf
  <2>2. starts[n].token \in Tokens
    <3>1. starts[n] \in Start
      BY DEF IInv, TypeOK
    <3> QED
      BY <2>1, <3>1 DEF Start
  <2> QED
    BY <2>1, <2>2 DEF IInv, TokensTrack, TokenOf
<1> QED
  BY <1>1, InvariantHolds, PTL

\* The trackers of PolicyEngine miss no request of a budget rule that no allow
\* rule precedes, and no stretch of a window's length sees more than twice its
\* limit, however calls, windows and reloads fall: windows do not slide.
THEOREM BudgetsHold == Spec => []BudgetHolds
<1>1. IInv => BudgetHolds
  <2> SUFFICES ASSUME IInv, NEW i \in Binding
               PROVE  /\ Cardinality(Sent(i, budgets[i].start, now)) <= budgets[i].count
                      /\ \A from \in 0..now :
                           Cardinality(Sent(i, from, from + Window - 1)) <= 2 * PolicyRules[i].limit
    BY DEF BudgetHolds
  <2>1. \A from, to : Sent(i, from, to) = SentOf(starts, i, from, to)
    BY DEF Sent, SentOf, Ofs
  <2>2. Counts(budgets[i], i, starts, now)
    BY DEF IInv, BudgetsCount
  <2> QED
    BY <2>1, <2>2 DEF Counts, Limit
<1> QED
  BY <1>1, InvariantHolds, PTL

\* The session limit of RuleEngine is overrun by no more calls than were in
\* flight beside the one that reached it.
THEOREM RatesHold == Spec => []RateHolds
<1>1. IInv => RateHolds
  BY DEF IInv
<1> QED
  BY <1>1, InvariantHolds, PTL

\* What has been called of the history has been called, and an order the history
\* has gone through has been gone through.
LEMMA HistoryIsDone ==
  ASSUME TypeOK, HistoryTracks
  PROVE  /\ Called(history) \subseteq Called(done)
         /\ Len(done) <= HistoryCap => Called(done) = Called(history)
         /\ \A order, t : InOrder(order, t, history) => InOrder(order, t, done)
<1> DEFINE d == Len(done) - Len(history)
<1>1. /\ done \in Seq(Request) /\ history \in Seq(Call) /\ HistoryCap \in Nat
      /\ DOMAIN done = 1..Len(done) /\ DOMAIN history = 1..Len(history)
      /\ Len(done) \in Nat /\ Len(history) \in Nat
  BY PipelineAssumption DEF TypeOK
<1>2. /\ \A n \in DOMAIN history : d + n \in DOMAIN done /\ history[n].tool = done[d + n].tool
      /\ d \in Nat
  <2>1. /\ Len(history) = IF Len(done) <= HistoryCap THEN Len(done) ELSE HistoryCap
        /\ \A n \in 1..Len(history) : history[n].tool = done[d + n].tool
    BY DEF HistoryTracks
  <2>2. d \in Nat /\ \A n \in 1..Len(history) : d + n \in 1..Len(done)
    BY <1>1, <2>1
  <2> HIDE DEF d
  <2> QED
    BY <1>1, <2>1, <2>2
<1>3. Len(done) <= HistoryCap => d = 0 /\ DOMAIN done = DOMAIN history
  BY <1>1 DEF HistoryTracks
<1> HIDE DEF d
<1>4. Called(history) \subseteq Called(done)
  BY <1>2 DEF Called
<1>5. ASSUME Len(done) <= HistoryCap PROVE Called(done) = Called(history)
  <2>1. \A n \in DOMAIN done : n \in DOMAIN history /\ history[n].tool = done[n].tool
    <3> SUFFICES ASSUME NEW n \in DOMAIN done
                 PROVE  n \in DOMAIN history /\ history[n].tool = done[n].tool
      OBVIOUS
    <3>1. d + n = n
      <4>1. n \in 1..Len(done) /\ d = 0
        BY <1>1, <1>3, <1>5
      <4> QED
        BY <4>1
    <3> QED
      BY <1>2, <1>3, <1>5, <3>1
  <2> QED
    BY <1>3, <1>5, <2>1 DEF Called
<1>6. ASSUME NEW order, NEW t, InOrder(order, t, history) PROVE InOrder(order, t, done)
  <2> DEFINE steps == {i \in DOMAIN order : order[i] # t}
  <2>1. PICK f \in [steps -> DOMAIN history] :
          /\ \A i \in steps : history[f[i]].tool = order[i]
          /\ \A i, j \in steps : i < j => f[i] < f[j]
    BY <1>6 DEF InOrder
  <2> DEFINE e == [i \in steps |-> d + f[i]]
  <2> HIDE DEF steps
  <2>2. \A i \in steps : f[i] \in DOMAIN history /\ f[i] \in Nat
    BY <1>1, <2>1
  <2>3. e \in [steps -> DOMAIN done]
    BY <1>2, <2>2
  <2>4. \A i \in steps : done[e[i]].tool = order[i]
    BY <1>2, <2>1, <2>2
  <2>5. \A i, j \in steps : i < j => e[i] < e[j]
    BY <1>2, <2>1, <2>2
  <2> HIDE DEF e
  <2>6. \E g \in [steps -> DOMAIN done] :
          /\ \A i \in steps : done[g[i]].tool = order[i]
          /\ \A i, j \in steps : i < j => g[i] < g[j]
    BY <2>3, <2>4, <2>5
  <2> QED
    BY <2>6 DEF InOrder, steps
<1> QED
  BY <1>4, <1>5, <1>6

\* The rules that a call is checked against are those of the file, or those of
\* memory when the two have come apart.
LEMMA ExecuteObeys ==
  ASSUME IInv, NEW c \in Callers, NEW t \in Tools, NEW arg \in Args, NEW k \in Shown(t),
         Execute(c, t, arg, k), ~(stale /\ file = Torn),
         NEW rule \in IF apart THEN rules ELSE file, NEW s, s.tool = t, t \in rule.tools
  PROVE  RuleHolds(rule, s)
<1>1. /\ TypeOK /\ HistoryTracks /\ history \in Seq(Call)
      /\ rule \in RulesNow /\ RulesNow \in RuleFiles
  BY RulesNowTyped DEF IInv, TypeOK
<1>2. ~Refuses(rule, t, arg, history, now)
  BY <1>1 DEF Execute, RulesPass, RulesAllow
<1>3. CASE rule.kind = "prerequisite"
  <2>1. rule.required \subseteq Called(history)
    BY <1>2, <1>3 DEF Refuses, PrerequisiteRefuses
  <2>2. rule.required \subseteq Called(done)
    BY <1>1, <2>1, HistoryIsDone
  <2> QED
    BY <1>3, <2>2 DEF RuleHolds
<1>4. CASE rule.kind = "prohibition"
  <2>1. ~rule.always /\ rule.after \cap Called(history) = {}
    BY <1>2, <1>4 DEF Refuses, ProhibitionRefuses
  <2>2. Len(done) <= HistoryCap => Called(done) = Called(history)
    BY <1>1, HistoryIsDone
  <2> QED
    BY <1>4, <2>1, <2>2 DEF RuleHolds
<1>5. CASE rule.kind = "sequence"
  <2> DEFINE R == {rule.order[i] : i \in DOMAIN rule.order}
  <2>1. rule.order \in Seq(R)
    BY <1>1, <1>5, PipelineAssumption
  <2>2. ~SequenceRefuses(rule, t, history)
    BY <1>2, <1>5 DEF Refuses
  <2> HIDE DEF R
  <2>3. InOrder(rule.order, t, history)
    BY <1>1, <2>1, <2>2, SequencesAreExact
  <2>4. InOrder(rule.order, t, done)
    BY <1>1, <2>3, HistoryIsDone
  <2> QED
    BY <1>5, <2>4 DEF RuleHolds
<1> QED
  BY <1>3, <1>4, <1>5 DEF RuleHolds

\* A request leaves GovernanceEngine.execute only if the rules hold for all that
\* has been done, whatever max_history made the session forget: those of the
\* file, or of memory if a failed save or a write behind the last reading has
\* parted the two.  Only a file that is torn as it is read lets a call by.
THEOREM RulesAreObeyed == Spec => RulesHold
<1>1. ASSUME IInv, [Next]_vars, starts' # starts, ~(stale /\ file = Torn),
             NEW rule \in IF apart THEN rules ELSE file, starts'[Len(starts')].tool \in rule.tools
      PROVE  RuleHolds(rule, starts'[Len(starts')])
  <2>1. PICK c \in Callers, t \in Tools, arg \in Args : \E k \in Shown(t) : Execute(c, t, arg, k)
    BY <1>1 DEF Next, vars, Deny, Stop, Challenge, Respond, Fail, Grant, Refuse, Settle,
                ReloadLockfile, BeginWrite, EndWrite, ConsoleRules, Tick
  <2>2. PICK k \in Shown(t) : Execute(c, t, arg, k)
    BY <2>1
  <2>3. PICK o : o.tool = t /\ starts' = Append(starts, o)
    BY <2>2 DEF Execute
  <2>4. starts'[Len(starts')] = o
    BY <1>1, <2>3 DEF IInv, TypeOK
  <2> QED
    BY <1>1, <2>2, <2>3, <2>4, ExecuteObeys
<1>2. IInv /\ [Next]_vars =>
        [starts' # starts =>
           LET s == starts'[Len(starts')] IN
           \/ stale /\ file = Torn
           \/ \A rule \in IF apart THEN rules ELSE file :
                s.tool \in rule.tools => RuleHolds(rule, s)]_vars
  BY <1>1
<1> QED
  BY <1>2, InvariantHolds, PTL DEF Spec, RulesHold

----------------------------------------------------------------------------
(* Tokens keep the promise of the store.                                   *)

Phase(o) ==
  CASE o.status = "granted" -> "approved" [] o.status = "consumed" -> "spent"
    [] o.status = "denied"  -> "void"     [] OTHER -> "waiting"

Phases == [k \in Tokens |-> Phase(tokens[k])]

LEMMA OneTokenMoves ==
  ASSUME TypeOK, NEW k \in Tokens, NEW o, tokens' = [tokens EXCEPT ![k] = o]
  PROVE  /\ Phases' = [Phases EXCEPT ![k] = Phase(o)]
         /\ Phases \in [Tokens -> {"waiting", "approved", "spent", "void"}]
<1>1. \A j \in Tokens : tokens'[j] = IF j = k THEN o ELSE tokens[j]
  BY DEF TypeOK
<1>2. \A j \in Tokens : Phases'[j] = IF j = k THEN Phase(o) ELSE Phases[j]
  BY <1>1 DEF Phases
<1>3. \A x : Phase(x) \in {"waiting", "approved", "spent", "void"}
  BY DEF Phase
<1> QED
  BY <1>2, <1>3 DEF Phases

\* The tokens of the pipeline implement ApprovalToken: each is granted, spent or
\* refused at most as often as there, and a request only ever spends it.
THEOREM Implementation == Spec => ImplementsApprovalToken
<1>1. Init => AT!Init
  BY DEF Init, AT!Init, Unused
<1>2. ASSUME IInv, [Next]_vars PROVE AT!Next \/ Phases' = Phases
  <2>0. TypeOK /\ TokensTrack
    BY <1>2 DEF IInv
  <2>1. ASSUME tokens' = tokens PROVE Phases' = Phases
    BY <2>1 DEF Phases
  <2>2. ASSUME NEW t \in Tools, NEW arg \in Args, NEW k \in Tokens, Challenge(t, arg, k)
        PROVE  Phases' = Phases
    <3>1. PICK o : o.status = "pending" /\ tokens' = [tokens EXCEPT ![k] = o]
      BY <2>2 DEF Challenge
    <3>2. Phase(o) = "waiting" /\ Phases[k] = "waiting"
      BY <2>2, <3>1 DEF Challenge, Phase, Phases, Unused
    <3>3. /\ Phases' = [Phases EXCEPT ![k] = Phase(o)]
          /\ Phases \in [Tokens -> {"waiting", "approved", "spent", "void"}]
      BY <2>0, <3>1, OneTokenMoves
    <3> HIDE DEF Phases
    <3> QED
      BY <3>2, <3>3
  <2>3. ASSUME NEW t \in Tools, NEW arg \in Args, NEW k \in Shown(t),
               Passes(t, arg, k), Spend(t, k)
        PROVE  AT!Next \/ Phases' = Phases
    <3>1. CASE NeedsToken(t)
      <4>1. k \in Tokens /\ tokens[k].status = "granted"
        BY <2>3, <3>1 DEF Shown, Passes, Consumable
      <4>2. PICK o : o.status = "consumed" /\ tokens' = [tokens EXCEPT ![k] = o]
        BY <2>0, <2>3, <3>1, SpendTokens
      <4>3. Phase(o) = "spent" /\ Phases[k] = "approved"
        BY <4>1, <4>2 DEF Phase, Phases
      <4>4. AT!Spend(k)
        BY <2>0, <4>1, <4>2, <4>3, OneTokenMoves DEF AT!Spend, Phases, Phase
      <4> QED
        BY <4>1, <4>4 DEF AT!Next
    <3>2. CASE ~NeedsToken(t)
      BY <2>1, <2>3, <3>2 DEF Spend
    <3> QED
      BY <3>1, <3>2
  <2>4. ASSUME NEW k \in Tokens, Grant(k) \/ Refuse(k) PROVE AT!Next
    <3>1. PICK to \in {"granted", "denied"} :
            /\ tokens[k].status \in (IF to = "granted" THEN {"pending"} ELSE {"pending", "granted"})
            /\ tokens' = [tokens EXCEPT ![k].status = to, ![k].granted = @ \/ to = "granted"]
      BY <2>4 DEF Grant, Refuse, Settle
    <3> DEFINE o == [tokens[k] EXCEPT !.status = to, !.granted = tokens[k].granted \/ to = "granted"]
    <3>2. tokens[k] \in Token
      BY <2>0, <3>1, ConsumableKinds
    <3>3. tokens' = [tokens EXCEPT ![k] = o] /\ o.status = to
      BY <2>0, <3>1, <3>2 DEF TypeOK, Token
    <3> HIDE DEF o
    <3>4. /\ Phases' = [Phases EXCEPT ![k] = Phase(o)]
          /\ Phases \in [Tokens -> {"waiting", "approved", "spent", "void"}]
      BY <2>0, <3>3, OneTokenMoves
    <3>5. CASE to = "granted"
      <4>1. Phase(o) = "approved" /\ Phases[k] = "waiting"
        BY <3>1, <3>3, <3>5 DEF Phase, Phases
      <4>2. AT!Approve(k)
        BY <3>4, <4>1 DEF AT!Approve, Phases, Phase
      <4> QED
        BY <4>2 DEF AT!Next
    <3>6. CASE to = "denied"
      <4>1. Phase(o) = "void" /\ Phases[k] \in {"waiting", "approved"}
        BY <3>1, <3>3, <3>6 DEF Phase, Phases
      <4>2. Phases' = [j \in Tokens |-> IF j \in {k} THEN "void" ELSE Phases[j]]
        BY <3>4, <4>1
      <4>3. AT!Void({k})
        BY <4>1, <4>2 DEF AT!Void, Phases, Phase
      <4> QED
        BY <4>3 DEF AT!Next
    <3> QED
      BY <3>1, <3>5, <3>6
  <2>5. \/ tokens' = tokens
        \/ \E t \in Tools, arg \in Args :
             \/ \E k \in Tokens : Challenge(t, arg, k)
             \/ \E k \in Shown(t) : Passes(t, arg, k) /\ Spend(t, k)
        \/ \E k \in Tokens : Grant(k) \/ Refuse(k)
    <3>1. CASE UNCHANGED vars
      BY <3>1 DEF vars
    <3>2. \A t \in Tools, arg \in Args : \A k \in Shown(t) :
            /\ Deny(t, arg, k) => tokens' = tokens
            /\ Stop(t, arg, k) => Passes(t, arg, k) /\ Spend(t, k)
            /\ \A c \in Callers : Execute(c, t, arg, k) => Passes(t, arg, k) /\ Spend(t, k)
      BY DEF Deny, Stop, Execute
    <3>3. /\ \A c \in Callers : Respond(c) \/ Fail(c) => tokens' = tokens
          /\ ReloadLockfile \/ BeginWrite \/ Tick => tokens' = tokens
          /\ \A new \in RuleFiles : EndWrite(new) \/ ConsoleRules(new) => tokens' = tokens
      BY DEF Respond, Fail, ReloadLockfile, BeginWrite, EndWrite, ConsoleRules, Tick
    <3> QED
      BY <1>2, <3>1, <3>2, <3>3 DEF Next
  <2> QED
    BY <2>1, <2>2, <2>3, <2>4, <2>5
<1>3. IInv /\ [Next]_vars => [AT!Next]_Phases
  BY <1>2
<1>4. Phases = [k \in Tokens |-> CASE tokens[k].status = "granted"  -> "approved"
                                   [] tokens[k].status = "consumed" -> "spent"
                                   [] tokens[k].status = "denied"   -> "void"
                                   [] OTHER                         -> "waiting"]
  BY DEF Phases, Phase
<1> QED
  BY <1>1, <1>3, <1>4, InvariantHolds, PTL DEF Spec, ImplementsApprovalToken, AT!Spec, Phases, Phase

----------------------------------------------------------------------------
(* What the policy refuses for good, and what a look at budgets changes.    *)

\* Tools that a rule denies before any rule allows them, and those no rule is
\* about if the default is to deny.
DeniedTools ==
  {t \in Tools :
     \/ \E i \in Matching(t) :
          /\ PolicyRules[i].type = "deny"
          /\ \A j \in Matching(t) : j <= i => PolicyRules[j].type # "allow"
     \/ Matching(t) = {} /\ ~DefaultAllow}

\* Whatever is left of the budgets, the policy does not allow them.
LEMMA DeniedIsNotAllowed ==
  ASSUME NEW t \in DeniedTools, NEW bs, NEW time
  PROVE  ~Allowed(t, bs, time)
<1> DEFINE stops == Stops(t, bs, time)
<1>1. stops \subseteq Matching(t) /\ Matching(t) \subseteq Rules
  BY DEF Stops, Matching
<1>2. CASE Matching(t) = {} /\ ~DefaultAllow
  BY <1>1, <1>2 DEF Allowed
<1>3. ASSUME NEW i \in Matching(t), PolicyRules[i].type = "deny",
             \A j \in Matching(t) : j <= i => PolicyRules[j].type # "allow"
      PROVE  ~Allowed(t, bs, time)
  <2>1. i \in stops
    BY <1>3 DEF Stops
  <2>2. Allowed(t, bs, time) <=> PolicyRules[First(stops)].type = "allow"
    BY <2>1 DEF Allowed
  <2> HIDE DEF stops
  <2>3. First(stops) \in Matching(t) /\ First(stops) <= i
    BY <1>1, <2>1, FirstIsLeast
  <2> QED
    BY <1>3, <2>2, <2>3
<1> QED
  BY <1>2, <1>3 DEF DeniedTools

NothingDenied == \A n \in DOMAIN starts : starts[n].tool \notin DeniedTools

\* Deny by default, and deny before allow (PolicyEngine.evaluate): however calls,
\* grants, reloads and budgets interleave, no request of such a tool is sent.
THEOREM DeniedIsNotSent == Spec => []NothingDenied
<1>1. Init => NothingDenied
  BY DEF Init, NothingDenied
<1>2. ASSUME IInv, NothingDenied, [Next]_vars PROVE NothingDenied'
  <2>1. CASE UNCHANGED starts
    BY <1>2, <2>1 DEF NothingDenied
  <2>2. CASE starts' # starts
    <3>1. PICK c \in Callers, t \in Tools, arg \in Args : \E k \in Shown(t) : Execute(c, t, arg, k)
      BY <1>2, <2>2 DEF Next, vars, Deny, Stop, Challenge, Respond, Fail, Grant, Refuse,
           Settle, ReloadLockfile, BeginWrite, EndWrite, ConsoleRules, Tick
    <3>2. PICK o : o.tool = t /\ starts' = Append(starts, o)
      BY <3>1 DEF Execute
    <3>3. t \notin DeniedTools
      BY <3>1, DeniedIsNotAllowed DEF Execute, Passes, PolicyAllows
    <3>4. starts \in Seq(Start)
      BY <1>2 DEF IInv, TypeOK
    <3>5. ASSUME NEW n \in DOMAIN starts' PROVE starts'[n].tool \notin DeniedTools
      <4>1. (n \in DOMAIN starts /\ starts'[n] = starts[n]) \/ starts'[n] = o
        BY <3>2, <3>4
      <4> QED
        BY <1>2, <3>2, <3>3, <4>1 DEF NothingDenied
    <3> QED
      BY <3>5 DEF NothingDenied
  <2> QED
    BY <2>1, <2>2
<1> QED
  BY <1>1, <1>2, InvariantHolds, PTL DEF Spec

\* Evaluating a request refreshes trackers (_check_reset), which starts their
\* windows anew.  That alone changes no decision about any tool, then or later: a
\* request that is refused takes nothing from another.
THEOREM LookingIsFree ==
  ASSUME NEW bs \in Budgets, NEW t \in Tools, NEW u \in Tools,
         NEW time \in Nat, NEW later \in Nat, time <= later
  PROVE  LET after == Evaluated(t, bs, time) IN
         /\ Allowed(u, after, later) <=> Allowed(u, bs, later)
         /\ StepUp(u, after, later) <=> StepUp(u, bs, later)
<1> DEFINE after == Evaluated(t, bs, time)
<1>1. ASSUME NEW i \in BudgetRules
      PROVE  Refreshed(after[i], later).count = Refreshed(bs[i], later).count
  <2>1. after[i] \in {bs[i], Refreshed(bs[i], time)} /\ bs[i] \in Tracker
    BY DEF Evaluated, Budgets
  <2>2. Window \in Nat \ {0}
    BY PolicyAssumption
  <2> HIDE DEF after
  <2> QED
    BY <2>1, <2>2 DEF Refreshed, Tracker
<1>2. \A i \in Rules : Exceeded(i, after, later) <=> Exceeded(i, bs, later)
  <2> HIDE DEF after
  <2> QED
    BY <1>1 DEF Exceeded, BudgetRules
<1> HIDE DEF after
<1>3. Stops(u, after, later) = Stops(u, bs, later)
  BY <1>2 DEF Stops, Matching
<1>4. LookedAt(u, after, later) = LookedAt(u, bs, later)
  BY <1>3 DEF LookedAt
<1>5. /\ Allowed(u, after, later) <=> Allowed(u, bs, later)
      /\ Confirms(u, after, later) <=> Confirms(u, bs, later)
  BY <1>3, <1>4 DEF Allowed, Confirms
<1> QED
  BY <1>5 DEF after, StepUp
=============================================================================
