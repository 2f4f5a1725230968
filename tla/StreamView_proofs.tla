-------------------------- MODULE StreamView_proofs --------------------------
(***************************************************************************)
(* Proofs about StreamView.  The loop of fetchMore is a recursive function, *)
(* so induction over its passes is needed first: it is had without an       *)
(* operator parameter, as a fact about sets of numbers, from the strict     *)
(* inclusion of finite sets being well-founded.                             *)
(***************************************************************************)
EXTENDS StreamView, FiniteSetTheorems, SequenceTheorems, WellFoundedInduction, TLAPS

-----------------------------------------------------------------------------
(* Induction over numbers, stated of sets                                  *)

\* A set of numbers that is not empty has a least element.
LEMMA LeastElement ==
  ASSUME NEW T \in SUBSET Nat, T # {}
  PROVE  \E m \in T : \A k \in T : m <= k
<1> DEFINE U == {1..n : n \in T}
<1>1. U \subseteq FiniteSubsetsOf(Nat) /\ U # {}
  <2>1. ASSUME NEW n \in T PROVE 1..n \in FiniteSubsetsOf(Nat)
    <3>1. IsFiniteSet(1..n)
      BY FS_Interval
    <3> QED
      BY <3>1 DEF FiniteSubsetsOf
  <2> QED
    BY <2>1
<1>2. PICK u \in U : \A v \in U : <<v, u>> \notin StrictSubsetOrdering(Nat)
  <2> HIDE DEF U
  <2> QED
    BY <1>1, FS_StrictSubsetOrderingWellFounded, WFMin
<1>3. PICK m \in T : u = 1..m
  BY <1>2
<1>4. ASSUME NEW k \in T, k < m PROVE FALSE
  <2>1. m \in 1..m /\ m \notin 1..k
    BY <1>4
  <2>2. 1..k \in U /\ 1..k \subseteq 1..m /\ 1..k # 1..m
    BY <1>4, <2>1
  <2>3. <<1..k, u>> \in StrictSubsetOrdering(Nat)
    BY <2>2, <1>3 DEF StrictSubsetOrdering
  <2> QED
    BY <1>2, <2>2, <2>3
<1> QED
  BY <1>4

\* A set of numbers with 0 and every successor of its members has them all.
LEMMA SetInduction ==
  ASSUME NEW S \in SUBSET Nat, 0 \in S, \A n \in S : n + 1 \in S
  PROVE  S = Nat
<1> SUFFICES ASSUME Nat \ S # {} PROVE FALSE
  OBVIOUS
<1>1. PICK m \in Nat \ S : \A k \in Nat \ S : m <= k
  BY LeastElement, Zenon
<1>2. m # 0 /\ m - 1 \in Nat
  BY <1>1
<1>3. m - 1 \in S
  BY <1>1, <1>2
<1> QED
  BY <1>1, <1>3

-----------------------------------------------------------------------------
(* Insertion of one frame                                                  *)

Elems(s)  == {s[i] : i \in 1..Len(s)}
ByTime(s) == \A r, q \in 1..Len(s) : r < q => s[r].time <= s[q].time
ById(s)   == \A r, q \in 1..Len(s) : r < q => s[r].id < s[q].id

\* Numbers and times of frames can be compared.
LEMMA FrameNumbers ==
  ASSUME NEW f \in Frames
  PROVE  f.id \in 1..MaxFrames /\ f.time \in 0..MaxTime + 1 /\ f.id \in Int /\ f.time \in Int
BY StreamAssumption DEF Frames, StreamAssumption

\* There is a first row that is not earlier, or the end.
LEMMA LowerBoundExists ==
  ASSUME NEW rows \in Seq(Frames), NEW f \in Frames
  PROVE  /\ LowerBound(rows, f) \in 1..Len(rows) + 1
         /\ \A j \in 1..LowerBound(rows, f) - 1 : rows[j].time < f.time
         /\ LowerBound(rows, f) <= Len(rows) => rows[LowerBound(rows, f)].time >= f.time
<1>0. Len(rows) \in Nat /\ \A j \in 1..Len(rows) : rows[j] \in Frames
  OBVIOUS
<1>t. StreamAssumption
  BY StreamAssumption
<1>i. f.time \in Int /\ \A j \in 1..Len(rows) : rows[j].time \in Int
  BY <1>0, <1>t DEF Frames, StreamAssumption
<1> DEFINE T == {i \in 1..Len(rows) + 1 : i <= Len(rows) => rows[i].time >= f.time}
<1>1. T \in SUBSET Nat /\ Len(rows) + 1 \in T
  BY <1>0
<1>2. PICK m \in T : \A k \in T : m <= k
  <2> HIDE DEF T
  <2> QED
    BY <1>1, LeastElement
<1>3. \A j \in 1..m - 1 : rows[j].time < f.time
  BY <1>0, <1>2, <1>i
<1>4. \E i \in 1..Len(rows) + 1 :
        /\ \A j \in 1..i - 1 : rows[j].time < f.time
        /\ i <= Len(rows) => rows[i].time >= f.time
  BY <1>2, <1>3
<1> QED
  BY <1>4, Zenon DEF LowerBound

\* What an insertion does to the rows: the ones behind it move down by one.
LEMMA InsertByTimeShape ==
  ASSUME NEW rows \in Seq(Frames), NEW f \in Frames
  PROVE  \E p \in 1..Len(rows) + 1 :
           /\ \A j \in 1..p - 1 : rows[j].time < f.time
           /\ p <= Len(rows) => rows[p].time >= f.time
           /\ InsertByTime(rows, f) \in Seq(Frames)
           /\ Len(InsertByTime(rows, f)) = Len(rows) + 1
           /\ \A i \in 1..p - 1 : InsertByTime(rows, f)[i] = rows[i]
           /\ InsertByTime(rows, f)[p] = f
           /\ \A i \in p + 1..Len(rows) + 1 : InsertByTime(rows, f)[i] = rows[i - 1]
<1> DEFINE p == LowerBound(rows, f)
           pre == SubSeq(rows, 1, p - 1)
           suf == SubSeq(rows, p, Len(rows))
           t == pre \o <<f>> \o suf
<1>1. /\ p \in 1..Len(rows) + 1
      /\ \A j \in 1..p - 1 : rows[j].time < f.time
      /\ p <= Len(rows) => rows[p].time >= f.time
  BY LowerBoundExists, Zenon
<1> HIDE DEF p
<1>2. InsertByTime(rows, f) = t
  BY DEF InsertByTime, InsertAt, p
<1>3. pre \in Seq(Frames) /\ Len(pre) = p - 1 /\ \A i \in 1..p - 1 : pre[i] = rows[i]
  BY <1>1
<1>4. /\ suf \in Seq(Frames) /\ Len(suf) = Len(rows) - p + 1
      /\ \A i \in 1..Len(rows) - p + 1 : suf[i] = rows[p + i - 1]
  BY <1>1
<1> HIDE DEF pre, suf
<1>5. t \in Seq(Frames) /\ Len(t) = Len(rows) + 1
  <2>1. <<f>> \in Seq(Frames) /\ pre \o <<f>> \in Seq(Frames) /\ Len(pre \o <<f>>) = p
    BY <1>1, <1>3
  <2>2. t \in Seq(Frames) /\ Len(t) = p + (Len(rows) - p + 1)
    BY <2>1, <1>4, <1>1
  <2> QED
    BY <2>2, <1>1
<1>6. \A i \in 1..p - 1 : t[i] = rows[i]
  BY <1>1, <1>3, <1>4
<1>7. t[p] = f
  BY <1>1, <1>3, <1>4
<1>8. \A i \in p + 1..Len(rows) + 1 : t[i] = rows[i - 1]
  <2> SUFFICES ASSUME NEW i \in p + 1..Len(rows) + 1 PROVE t[i] = rows[i - 1]
    OBVIOUS
  <2>1. t[i] = suf[i - p]
    BY <1>1, <1>3, <1>4
  <2>2. i - p \in 1..Len(rows) - p + 1 /\ p + (i - p) - 1 = i - 1
    BY <1>1
  <2> QED
    BY <1>4, <2>1, <2>2
<1> QED
  BY <1>1, <1>2, <1>5, <1>6, <1>7, <1>8

\* An insertion adds the frame and loses none.
LEMMA InsertByTimeElems ==
  ASSUME NEW rows \in Seq(Frames), NEW f \in Frames
  PROVE  Elems(InsertByTime(rows, f)) = Elems(rows) \cup {f}
<1> DEFINE t == InsertByTime(rows, f)
           n == Len(rows)
<1> HIDE DEF t
<1>1. PICK p \in 1..n + 1 :
        /\ Len(t) = n + 1
        /\ \A i \in 1..p - 1 : t[i] = rows[i]
        /\ t[p] = f
        /\ \A i \in p + 1..n + 1 : t[i] = rows[i - 1]
  BY InsertByTimeShape DEF t
<1>2. n \in Nat
  OBVIOUS
<1> HIDE DEF n
<1>3. ASSUME NEW i \in 1..n + 1 PROVE t[i] = f \/ \E j \in 1..n : t[i] = rows[j]
  <2>1. CASE i < p
    BY <1>1, <1>2, <2>1
  <2>2. CASE i = p
    BY <1>1, <2>2
  <2>3. CASE i > p
    <3>1. i - 1 \in 1..n /\ t[i] = rows[i - 1]
      BY <1>1, <1>2, <2>3
    <3> QED
      BY <3>1
  <2> QED
    BY <2>1, <2>2, <2>3
<1>4. ASSUME NEW j \in 1..n PROVE \E i \in 1..n + 1 : t[i] = rows[j]
  <2>1. CASE j < p
    BY <1>1, <1>2, <2>1
  <2>2. CASE j >= p
    <3>1. j + 1 \in p + 1..n + 1 /\ j + 1 \in 1..n + 1 /\ (j + 1) - 1 = j
      BY <1>1, <1>2, <2>2
    <3>2. t[j + 1] = rows[j]
      BY <1>1, <3>1
    <3> QED
      BY <3>1, <3>2
  <2> QED
    BY <2>1, <2>2
<1>5. Elems(t) = {t[i] : i \in 1..n + 1} /\ Elems(rows) = {rows[j] : j \in 1..n}
  BY <1>1 DEF Elems, n
<1> QED
  BY <1>1, <1>3, <1>4, <1>5 DEF t

\* Rows that are sorted stay so.
LEMMA InsertByTimeSorts ==
  ASSUME NEW rows \in Seq(Frames), NEW f \in Frames, ByTime(rows)
  PROVE  ByTime(InsertByTime(rows, f))
<1> DEFINE t == InsertByTime(rows, f)
           n == Len(rows)
<1> HIDE DEF t
<1>1. PICK p \in 1..n + 1 :
        /\ \A j \in 1..p - 1 : rows[j].time < f.time
        /\ p <= n => rows[p].time >= f.time
        /\ Len(t) = n + 1
        /\ \A i \in 1..p - 1 : t[i] = rows[i]
        /\ t[p] = f
        /\ \A i \in p + 1..n + 1 : t[i] = rows[i - 1]
  BY InsertByTimeShape DEF t
<1>2. n \in Nat /\ f.time \in Int /\ \A j \in 1..n : rows[j].time \in Int
  BY FrameNumbers
<1>3. \A i, j \in 1..n : i < j => rows[i].time <= rows[j].time
  BY DEF ByTime
<1> HIDE DEF n
<1>4. ASSUME NEW i \in 1..n + 1, NEW j \in 1..n + 1, i < j PROVE t[i].time <= t[j].time
  <2>1. CASE j < p
    <3>1. i \in 1..p - 1 /\ j \in 1..p - 1 /\ i \in 1..n /\ j \in 1..n
      BY <1>2, <1>4, <2>1
    <3> QED
      BY <1>1, <1>3, <1>4, <3>1
  <2>2. CASE j = p
    <3>1. i \in 1..p - 1 /\ i \in 1..n
      BY <1>2, <1>4, <2>2
    <3>2. t[i] = rows[i] /\ t[j] = f /\ rows[i].time < f.time
      BY <1>1, <2>2, <3>1
    <3> QED
      BY <1>2, <3>1, <3>2
  <2>3. CASE j > p /\ i < p
    <3>1. i \in 1..p - 1 /\ i \in 1..n /\ j \in p + 1..n + 1 /\ j - 1 \in 1..n /\ i < j - 1
      BY <1>2, <1>4, <2>3
    <3>2. t[i] = rows[i] /\ t[j] = rows[j - 1]
      BY <1>1, <3>1
    <3> QED
      BY <1>3, <3>1, <3>2
  <2>4. CASE j > p /\ i = p
    <3>1. p \in 1..n /\ p <= n /\ j \in p + 1..n + 1 /\ j - 1 \in 1..n /\ p <= j - 1
      BY <1>2, <1>4, <2>4
    <3>2. t[i] = f /\ t[j] = rows[j - 1] /\ rows[p].time >= f.time
      BY <1>1, <2>4, <3>1
    <3>3. rows[p].time <= rows[j - 1].time
      BY <1>2, <1>3, <3>1
    <3> QED
      BY <1>2, <3>1, <3>2, <3>3
  <2>5. CASE i > p
    <3>1. /\ i \in p + 1..n + 1 /\ j \in p + 1..n + 1
          /\ i - 1 \in 1..n /\ j - 1 \in 1..n /\ i - 1 < j - 1
      BY <1>2, <1>4, <2>5
    <3>2. t[i] = rows[i - 1] /\ t[j] = rows[j - 1]
      BY <1>1, <3>1
    <3> QED
      BY <1>3, <3>1, <3>2
  <2> QED
    BY <1>4, <2>1, <2>2, <2>3, <2>4, <2>5
<1> QED
  BY <1>1, <1>4 DEF ByTime, t

\* When the frame is the newest and the numbers increase afterwards, it was put
\* behind the last row, and the numbers increased before.
LEMMA InsertByTimeLast ==
  ASSUME NEW rows \in Seq(Frames), NEW f \in Frames,
         \A i \in 1..Len(rows) : rows[i].id < f.id,
         ById(InsertByTime(rows, f))
  PROVE  /\ ById(rows)
         /\ \A i \in 1..Len(rows) : InsertByTime(rows, f)[i] = rows[i]
<1> DEFINE t == InsertByTime(rows, f)
           n == Len(rows)
<1> HIDE DEF t
<1>1. PICK p \in 1..n + 1 :
        /\ Len(t) = n + 1
        /\ \A i \in 1..p - 1 : t[i] = rows[i]
        /\ t[p] = f
        /\ \A i \in p + 1..n + 1 : t[i] = rows[i - 1]
  BY InsertByTimeShape DEF t
<1>2. n \in Nat /\ f.id \in Int /\ \A j \in 1..n : rows[j].id \in Int
  BY FrameNumbers
<1>3. /\ \A i, j \in 1..n + 1 : i < j => t[i].id < t[j].id
      /\ \A i \in 1..n : rows[i].id < f.id
  BY <1>1 DEF ById, t
<1> HIDE DEF n
<1>4. p = n + 1
  <2> SUFFICES ASSUME p # n + 1 PROVE FALSE
    OBVIOUS
  <2>1. p \in 1..n /\ p + 1 \in p + 1..n + 1 /\ p + 1 \in 1..n + 1 /\ p < p + 1 /\ (p + 1) - 1 = p
    BY <1>2
  <2>2. t[p + 1] = rows[p] /\ t[p] = f
    BY <1>1, <2>1
  <2>3. f.id < rows[p].id
    BY <1>3, <2>1, <2>2
  <2> QED
    BY <1>2, <1>3, <2>1, <2>3
<1>5. \A i \in 1..n : t[i] = rows[i]
  BY <1>1, <1>2, <1>4
<1>6. \A i, j \in 1..n : i < j => rows[i].id < rows[j].id
  <2> SUFFICES ASSUME NEW i \in 1..n, NEW j \in 1..n, i < j PROVE rows[i].id < rows[j].id
    OBVIOUS
  <2>1. i \in 1..n + 1 /\ j \in 1..n + 1
    BY <1>2
  <2>2. t[i] = rows[i] /\ t[j] = rows[j]
    BY <1>5
  <2>3. t[i].id < t[j].id
    BY <1>3, <2>1
  <2> QED
    BY <2>2, <2>3
<1> QED
  BY <1>5, <1>6 DEF ById, t, n

-----------------------------------------------------------------------------
(* The loop of fetchMore                                                   *)

\* The passes of the loop exist, one after the other, and InsertAll is the last.
LEMMA InsertAllPasses ==
  ASSUME NEW rows, NEW new \in Seq(Frames)
  PROVE  \E after :
           /\ InsertAll(rows, new) = after[Len(new)]
           /\ after[0] = rows
           /\ \A n \in 1..Len(new) : after[n] = InsertByTime(after[n - 1], new[n])
<1> DEFINE Pass(g, n) == IF n = 0 THEN rows ELSE InsertByTime(g[n - 1], new[n])
           S == {n \in Nat : \E g : \A i \in 0..n : g[i] = Pass(g, i)}
<1>0. Len(new) \in Nat
  OBVIOUS
<1>1. 0 \in S
  <2>1. \A i \in 0..0 : [k \in 0..0 |-> rows][i] = Pass([k \in 0..0 |-> rows], i)
    OBVIOUS
  <2> QED
    BY <2>1
<1>2. ASSUME NEW n \in S PROVE n + 1 \in S
  <2>1. PICK g : \A i \in 0..n : g[i] = Pass(g, i)
    OBVIOUS
  <2> DEFINE h == [i \in 0..n + 1 |-> IF i = n + 1 THEN InsertByTime(g[n], new[n + 1]) ELSE g[i]]
  <2>2. ASSUME NEW i \in 0..n + 1 PROVE h[i] = Pass(h, i)
    <3>1. CASE i = n + 1
      <4>1. i # 0 /\ i - 1 = n /\ n \in 0..n + 1 /\ n # n + 1
        BY <3>1
      <4>2. h[i] = InsertByTime(g[n], new[n + 1]) /\ h[n] = g[n]
        BY <3>1, <4>1
      <4> QED
        BY <3>1, <4>1, <4>2
    <3>2. CASE i # n + 1
      <4>1. i \in 0..n /\ h[i] = g[i] /\ (i # 0 => h[i - 1] = g[i - 1])
        BY <3>2
      <4> QED
        BY <2>1, <4>1
    <3> QED
      BY <3>1, <3>2
  <2> HIDE DEF h
  <2> QED
    BY <2>2
<1>3. S = Nat
  <2>1. S \in SUBSET Nat
    OBVIOUS
  <2> HIDE DEF S
  <2> QED
    BY <1>1, <1>2, <2>1, SetInduction
<1>4. PICK g : \A i \in 0..Len(new) : g[i] = Pass(g, i)
  BY <1>0, <1>3
<1> DEFINE f == [n \in 0..Len(new) |-> g[n]]
           after == CHOOSE a : a = [n \in 0..Len(new) |-> Pass(a, n)]
<1>5. f = [n \in 0..Len(new) |-> Pass(f, n)]
  <2>1. ASSUME NEW n \in 0..Len(new) PROVE f[n] = Pass(f, n)
    <3>1. n # 0 => f[n - 1] = g[n - 1]
      OBVIOUS
    <3> QED
      BY <1>4, <3>1
  <2> QED
    BY <2>1
<1>6. after = [n \in 0..Len(new) |-> Pass(after, n)]
  <2> HIDE DEF Pass, f
  <2> QED
    BY <1>5
<1>7. InsertAll(rows, new) = after[Len(new)]
  BY DEF InsertAll
<1> HIDE DEF after
<1>8. after[0] = rows
  BY <1>0, <1>6
<1>9. \A n \in 1..Len(new) : after[n] = InsertByTime(after[n - 1], new[n])
  BY <1>0, <1>6
<1> QED
  BY <1>7, <1>8, <1>9

\* The whole loop: it adds all frames and loses none, and keeps rows sorted.
LEMMA InsertAllShape ==
  ASSUME NEW rows \in Seq(Frames), NEW new \in Seq(Frames)
  PROVE  /\ InsertAll(rows, new) \in Seq(Frames)
         /\ Len(InsertAll(rows, new)) = Len(rows) + Len(new)
         /\ Elems(InsertAll(rows, new)) = Elems(rows) \cup Elems(new)
         /\ ByTime(rows) => ByTime(InsertAll(rows, new))
<1>0. Len(new) \in Nat /\ Len(rows) \in Nat /\ \A n \in 1..Len(new) : new[n] \in Frames
  OBVIOUS
<1>1. PICK after :
        /\ InsertAll(rows, new) = after[Len(new)]
        /\ after[0] = rows
        /\ \A n \in 1..Len(new) : after[n] = InsertByTime(after[n - 1], new[n])
  BY InsertAllPasses
<1> DEFINE P(n) == /\ after[n] \in Seq(Frames)
                   /\ Len(after[n]) = Len(rows) + n
                   /\ Elems(after[n]) = Elems(rows) \cup {new[i] : i \in 1..n}
                   /\ ByTime(rows) => ByTime(after[n])
           S == {n \in Nat : n <= Len(new) => P(n)}
<1>2. 0 \in S
  BY <1>0, <1>1
<1>3. ASSUME NEW n \in S PROVE n + 1 \in S
  <2> SUFFICES ASSUME n + 1 <= Len(new) PROVE P(n + 1)
    OBVIOUS
  <2>1. P(n) /\ n + 1 \in 1..Len(new) /\ (n + 1) - 1 = n
    BY <1>0
  <2>2. after[n + 1] = InsertByTime(after[n], new[n + 1]) /\ new[n + 1] \in Frames
    BY <1>0, <1>1, <2>1
  <2>3. after[n + 1] \in Seq(Frames) /\ Len(after[n + 1]) = Len(rows) + (n + 1)
    <3>1. InsertByTime(after[n], new[n + 1]) \in Seq(Frames)
          /\ Len(InsertByTime(after[n], new[n + 1])) = Len(after[n]) + 1
      BY <2>1, <2>2, InsertByTimeShape
    <3> QED
      BY <1>0, <2>1, <2>2, <3>1
  <2>4. Elems(after[n + 1]) = Elems(rows) \cup {new[i] : i \in 1..n + 1}
    <3>1. Elems(after[n + 1]) = Elems(after[n]) \cup {new[n + 1]}
      BY <2>1, <2>2, InsertByTimeElems
    <3>2. {new[i] : i \in 1..n + 1} = {new[i] : i \in 1..n} \cup {new[n + 1]}
      OBVIOUS
    <3> QED
      BY <2>1, <3>1, <3>2
  <2>5. ByTime(rows) => ByTime(after[n + 1])
    BY <2>1, <2>2, InsertByTimeSorts
  <2> QED
    BY <2>3, <2>4, <2>5
<1>4. S = Nat
  <2>1. S \in SUBSET Nat
    OBVIOUS
  <2> HIDE DEF S
  <2> QED
    BY <1>2, <1>3, <2>1, SetInduction
<1>5. P(Len(new))
  BY <1>0, <1>4
<1> QED
  BY <1>1, <1>5 DEF Elems

\* When the frames are newer than the rows, in order, and the numbers increase
\* afterwards, the rows stayed where they were, and in order.
LEMMA InsertAllLast ==
  ASSUME NEW rows \in Seq(Frames), NEW new \in Seq(Frames), ById(new),
         \A i \in 1..Len(rows), j \in 1..Len(new) : rows[i].id < new[j].id,
         ById(InsertAll(rows, new))
  PROVE  /\ ById(rows)
         /\ \A i \in 1..Len(rows) : InsertAll(rows, new)[i] = rows[i]
<1>0. Len(new) \in Nat /\ Len(rows) \in Nat /\ \A n \in 1..Len(new) : new[n] \in Frames
  OBVIOUS
<1>1. PICK after :
        /\ InsertAll(rows, new) = after[Len(new)]
        /\ after[0] = rows
        /\ \A n \in 1..Len(new) : after[n] = InsertByTime(after[n - 1], new[n])
  BY InsertAllPasses
<1> DEFINE P(n) == /\ after[n] \in Seq(Frames)
                   /\ Len(after[n]) = Len(rows) + n
                   /\ Elems(after[n]) = Elems(rows) \cup {new[i] : i \in 1..n}
                   /\ ById(after[n]) =>
                        ById(rows) /\ \A i \in 1..Len(rows) : after[n][i] = rows[i]
           S == {n \in Nat : n <= Len(new) => P(n)}
<1>2. 0 \in S
  BY <1>0, <1>1
<1>3. ASSUME NEW n \in S PROVE n + 1 \in S
  <2> SUFFICES ASSUME n + 1 <= Len(new) PROVE P(n + 1)
    OBVIOUS
  <2>1. P(n) /\ n + 1 \in 1..Len(new) /\ (n + 1) - 1 = n
    BY <1>0
  <2>2. after[n + 1] = InsertByTime(after[n], new[n + 1]) /\ new[n + 1] \in Frames
    BY <1>0, <1>1, <2>1
  <2>3. after[n + 1] \in Seq(Frames) /\ Len(after[n + 1]) = Len(rows) + (n + 1)
    <3>1. InsertByTime(after[n], new[n + 1]) \in Seq(Frames)
          /\ Len(InsertByTime(after[n], new[n + 1])) = Len(after[n]) + 1
      BY <2>1, <2>2, InsertByTimeShape
    <3> QED
      BY <1>0, <2>1, <2>2, <3>1
  <2>4. Elems(after[n + 1]) = Elems(rows) \cup {new[i] : i \in 1..n + 1}
    <3>1. Elems(after[n + 1]) = Elems(after[n]) \cup {new[n + 1]}
      BY <2>1, <2>2, InsertByTimeElems
    <3>2. {new[i] : i \in 1..n + 1} = {new[i] : i \in 1..n} \cup {new[n + 1]}
      OBVIOUS
    <3> QED
      BY <2>1, <3>1, <3>2
  <2>5. ASSUME NEW g \in Elems(after[n]) PROVE g.id < new[n + 1].id
    <3>1. CASE g \in Elems(rows)
      <4>1. PICK i \in 1..Len(rows) : g = rows[i]
        BY <3>1 DEF Elems
      <4> QED
        BY <2>1, <4>1
    <3>2. CASE g \in {new[i] : i \in 1..n}
      <4>1. PICK i \in 1..n : g = new[i]
        BY <3>2
      <4>2. i \in 1..Len(new) /\ i < n + 1
        BY <1>0, <2>1
      <4> QED
        BY <2>1, <4>1, <4>2 DEF ById
    <3> QED
      BY <2>1, <2>5, <3>1, <3>2
  <2>6. \A i \in 1..Len(after[n]) : after[n][i].id < new[n + 1].id
    BY <2>5 DEF Elems
  <2>7. ASSUME ById(after[n + 1])
        PROVE  ById(rows) /\ \A i \in 1..Len(rows) : after[n + 1][i] = rows[i]
    <3>1. /\ ById(after[n])
          /\ \A i \in 1..Len(after[n]) : InsertByTime(after[n], new[n + 1])[i] = after[n][i]
      <4>1. after[n] \in Seq(Frames) /\ new[n + 1] \in Frames
        BY <2>1, <2>2
      <4>2. ById(InsertByTime(after[n], new[n + 1]))
        BY <2>2, <2>7
      <4> HIDE DEF P, S
      <4> QED
        BY <4>1, <4>2, <2>6, InsertByTimeLast, ZenonT(40)
    <3>2. \A i \in 1..Len(rows) : i \in 1..Len(after[n])
      BY <1>0, <2>1
    <3>3. ById(rows) /\ \A i \in 1..Len(rows) : after[n][i] = rows[i]
      BY <2>1, <3>1
    <3>4. \A i \in 1..Len(rows) : after[n + 1][i] = after[n][i]
      BY <2>2, <3>1, <3>2, Zenon
    <3> QED
      BY <3>3, <3>4
  <2> QED
    BY <2>3, <2>4, <2>7
<1>4. S = Nat
  <2>1. S \in SUBSET Nat
    OBVIOUS
  <2> HIDE DEF S
  <2> QED
    BY <1>2, <1>3, <2>1, SetInduction
<1>5. P(Len(new))
  BY <1>0, <1>4
<1> QED
  BY <1>1, <1>5

-----------------------------------------------------------------------------
(* The invariant.  Every frame is in one place: numbers 1 to Len(frames) are *)
(* rows, in some order, and the rest follow in the order they were made, in *)
(* StreamModel's queue, in that of Qt and with the task.                    *)

\* The types that a step needs of the step before.
StreamTypes ==
  /\ now \in 0..MaxTime /\ made \in 0..MaxFrames
  /\ turn \in {"wait", "target", "publish"}
  /\ exchange \in Seq(Frames) /\ posted \in Seq(Frames)
  /\ stream \in Seq(Frames) /\ frames \in Seq(Frames)
  /\ enabled \in BOOLEAN
  /\ filters \in [Columns -> SUBSET [mode : Modes, accepts : Accepts]]
  /\ accepted \in [Columns -> BOOLEAN] /\ shown \subseteq 1..Len(frames)

\* What process() holds at each point of its turn.
TurnHolds ==
  /\ turn = "wait" => exchange = <<>>
  /\ turn = "target" =>
       /\ Len(exchange) = 1 /\ made < MaxFrames
       /\ exchange[1].kind = "request" /\ exchange[1].time <= now
  /\ turn = "publish" => exchange # <<>>

\* Frame numbers of s are those from n + 1 on, without a gap.
NumberedFrom(n, s) == \A i \in 1..Len(s) : s[i].id = n + i

\* No frame is lost, doubled or overtaken between process() and the table.
Inventory ==
  /\ Len(frames) + Len(stream) + Len(posted) + Len(exchange) = made
  /\ {f.id : f \in Elems(frames)} = 1..Len(frames)
  /\ NumberedFrom(Len(frames), stream)
  /\ NumberedFrom(Len(frames) + Len(stream), posted)
  /\ NumberedFrom(Len(frames) + Len(stream) + Len(posted), exchange)

\* The frames that were made, wherever they are.
Everywhere == Elems(frames) \cup Elems(stream) \cup Elems(posted) \cup Elems(exchange)

\* A response is later than the request with the number before its own.
Answers ==
  \A g \in Everywhere : g.kind = "response" =>
    /\ g.id > 1
    /\ \A f \in Everywhere : f.id + 1 = g.id => f.kind = "request" /\ f.time < g.time

\* A count that is not zero has a row behind it, also while filtering is off.
CountsAreReal ==
  \A c \in Columns : filters[c] # {} /\ accepted[c] =>
    \E r \in Rows : ColumnAccepts(c, frames[r])

TaskInv   == TurnHolds /\ Inventory /\ Answers
ViewInv   == FilteredViewIsRight /\ HeaderAgrees /\ CountsAreReal
StreamInv == StreamTypes /\ TaskInv /\ SortedByTime /\ ViewInv

\* Handing the first frame of queue b on to the end of queue a, which b follows.
LEMMA HandOver ==
  ASSUME NEW a \in Seq(Frames), NEW b \in Seq(Frames), NEW n \in Nat, b # <<>>,
         NumberedFrom(n, a), NumberedFrom(n + Len(a), b)
  PROVE  /\ Append(a, Head(b)) \in Seq(Frames) /\ Tail(b) \in Seq(Frames)
         /\ Len(Append(a, Head(b))) = Len(a) + 1 /\ Len(Tail(b)) = Len(b) - 1
         /\ NumberedFrom(n, Append(a, Head(b)))
         /\ NumberedFrom(n + Len(a) + 1, Tail(b))
         /\ Elems(Append(a, Head(b))) \cup Elems(Tail(b)) = Elems(a) \cup Elems(b)
<1>1. /\ Head(b) = b[1] /\ b[1] \in Frames /\ Len(b) \in Nat \ {0} /\ Len(a) \in Nat
  OBVIOUS
<1>2. /\ Append(a, Head(b)) \in Seq(Frames) /\ Tail(b) \in Seq(Frames)
      /\ Len(Append(a, Head(b))) = Len(a) + 1 /\ Len(Tail(b)) = Len(b) - 1
  BY <1>1
<1>3. /\ \A i \in 1..Len(a) : Append(a, Head(b))[i] = a[i]
      /\ Append(a, Head(b))[Len(a) + 1] = b[1]
  BY <1>1
<1>4. \A i \in 1..Len(b) - 1 : Tail(b)[i] = b[i + 1]
  BY <1>1
<1> DEFINE c == Append(a, Head(b))
           d == Tail(b)
<1> HIDE DEF c, d
<1>5. NumberedFrom(n, c)
  <2> SUFFICES ASSUME NEW i \in 1..Len(a) + 1 PROVE c[i].id = n + i
    BY <1>2 DEF NumberedFrom, c
  <2>1. CASE i \in 1..Len(a)
    BY <1>3, <2>1 DEF NumberedFrom, c
  <2>2. CASE i = Len(a) + 1
    <3>1. b[1].id = n + Len(a) + 1
      BY <1>1 DEF NumberedFrom
    <3> QED
      BY <1>1, <1>3, <2>2, <3>1 DEF c
  <2> QED
    BY <1>1, <2>1, <2>2
<1>6. NumberedFrom(n + Len(a) + 1, d)
  <2> SUFFICES ASSUME NEW i \in 1..Len(b) - 1 PROVE d[i].id = n + Len(a) + 1 + i
    BY <1>2 DEF NumberedFrom, d
  <2>1. i + 1 \in 1..Len(b) /\ d[i] = b[i + 1]
    BY <1>1, <1>4 DEF d
  <2>2. b[i + 1].id = n + Len(a) + (i + 1)
    BY <2>1 DEF NumberedFrom
  <2> QED
    BY <1>1, <2>1, <2>2
<1>7. Elems(c) = Elems(a) \cup {b[1]}
  BY <1>1, <1>2, <1>3 DEF Elems, c
<1>8. Elems(b) = {b[1]} \cup Elems(d)
  <2>1. Elems(d) = {d[i] : i \in 1..Len(b) - 1}
    BY <1>2 DEF Elems, d
  <2>2. ASSUME NEW i \in 1..Len(b) PROVE i = 1 \/ (i - 1 \in 1..Len(b) - 1 /\ d[i - 1] = b[i])
    BY <1>1, <1>4 DEF d
  <2>3. ASSUME NEW i \in 1..Len(b) - 1 PROVE i + 1 \in 1..Len(b) /\ d[i] = b[i + 1]
    BY <1>1, <1>4 DEF d
  <2>4. 1 \in 1..Len(b)
    BY <1>1
  <2>5. ASSUME NEW f \in {b[1]} \cup Elems(d) PROVE f \in Elems(b)
    BY <2>1, <2>3, <2>4, <2>5 DEF Elems
  <2>6. ASSUME NEW f \in Elems(b) PROVE f \in {b[1]} \cup Elems(d)
    <3>1. PICK i \in 1..Len(b) : f = b[i]
      BY <2>6 DEF Elems
    <3> QED
      BY <2>1, <2>2, <3>1
  <2> QED
    BY <2>5, <2>6
<1> QED
  BY <1>2, <1>5, <1>6, <1>7, <1>8 DEF c, d

\* Every frame that was made has a number up to made.
LEMMA NumbersMade ==
  ASSUME StreamTypes, Inventory
  PROVE  /\ \A f \in Everywhere : f \in Frames /\ f.id \in 1..made
         /\ Len(frames) \in Nat /\ Len(stream) \in Nat
         /\ Len(posted) \in Nat /\ Len(exchange) \in Nat
<1>1. Len(frames) \in Nat /\ Len(stream) \in Nat /\ Len(posted) \in Nat /\ Len(exchange) \in Nat
  BY DEF StreamTypes
<1>2. ASSUME NEW f \in Elems(frames) PROVE f \in Frames /\ f.id \in 1..made
  <2>1. f \in Frames
    BY DEF Elems, StreamTypes
  <2>2. f.id \in {g.id : g \in Elems(frames)}
    OBVIOUS
  <2>3. f.id \in 1..Len(frames)
    BY <2>2 DEF Inventory
  <2> QED
    BY <1>1, <2>1, <2>3 DEF Inventory
<1>3. ASSUME NEW f \in Elems(stream) PROVE f \in Frames /\ f.id \in 1..made
  BY <1>1 DEF Elems, StreamTypes, Inventory, NumberedFrom
<1>4. ASSUME NEW f \in Elems(posted) PROVE f \in Frames /\ f.id \in 1..made
  BY <1>1 DEF Elems, StreamTypes, Inventory, NumberedFrom
<1>5. ASSUME NEW f \in Elems(exchange) PROVE f \in Frames /\ f.id \in 1..made
  BY <1>1 DEF Elems, StreamTypes, Inventory, NumberedFrom
<1> QED
  BY <1>1, <1>2, <1>3, <1>4, <1>5 DEF Everywhere

\* A queue hands a frame on: the answers are the same frames as before.
LEMMA AnswersMove ==
  ASSUME Answers, Everywhere' = Everywhere
  PROVE  Answers'
BY DEF Answers

\* What is shown is right as long as neither the rows nor the filters change.
LEMMA ViewStays ==
  ASSUME ViewInv, UNCHANGED <<frames, filterVars, proxyVars>>
  PROVE  ViewInv'
BY DEF ViewInv, FilteredViewIsRight, HeaderAgrees, CountsAreReal, InOrder, Rows,
       RowAccepted, ColumnAccepts, filterVars, proxyVars

\* The filters do not touch the frames on their way.
LEMMA TaskStays ==
  ASSUME TaskInv, SortedByTime, UNCHANGED <<taskVars, modelVars>>
  PROVE  TaskInv' /\ SortedByTime'
BY DEF TaskInv, TurnHolds, Inventory, NumberedFrom, Answers, Everywhere, Elems, SortedByTime,
       Rows, taskVars, modelVars

LEMMA StreamInit == Init => StreamInv
<1> SUFFICES ASSUME Init PROVE StreamInv
  OBVIOUS
<1>1. /\ now = 0 /\ made = 0 /\ exchange = <<>> /\ turn = "wait"
      /\ posted = <<>> /\ stream = <<>> /\ frames = <<>>
      /\ enabled \in BOOLEAN /\ filters = [c \in Columns |-> {}]
      /\ accepted = [c \in Columns |-> FALSE] /\ shown = {}
  BY DEF Init, NoFilter
<1>2. <<>> \in Seq(Frames) /\ Len(<<>>) = 0 /\ DOMAIN <<>> = {} /\ 1..0 = {}
  OBVIOUS
<1>3. StreamTypes
  BY <1>1, <1>2, StreamAssumption DEF StreamTypes, StreamAssumption
<1>4. TaskInv
  BY <1>1, <1>2 DEF TaskInv, TurnHolds, Inventory, NumberedFrom, Answers, Everywhere, Elems
<1>5. SortedByTime /\ ViewInv
  BY <1>1, <1>2 DEF SortedByTime, ViewInv, FilteredViewIsRight, HeaderAgrees, CountsAreReal, Rows
<1> QED
  BY <1>3, <1>4, <1>5 DEF StreamInv

-----------------------------------------------------------------------------
(* The steps of the task                                                   *)

LEMMA TickKeeps ==
  ASSUME StreamInv, Tick
  PROVE  StreamInv'
<1>1. StreamTypes'
  BY StreamAssumption DEF StreamInv, StreamTypes, Tick, StreamAssumption, modelVars, filterVars,
     proxyVars
<1>2. TaskInv' /\ SortedByTime'
  <2>1. TurnHolds'
    <3>1. exchange' = exchange /\ turn' = turn /\ made' = made /\ now' = now + 1
      BY DEF Tick
    <3>2. turn = "target" => exchange[1].time \in Int /\ now \in Int
      <4> SUFFICES ASSUME turn = "target" PROVE exchange[1].time \in Int /\ now \in Int
        OBVIOUS
      <4>0. exchange \in Seq(Frames) /\ Len(exchange) = 1
        BY DEF StreamInv, StreamTypes, TaskInv, TurnHolds
      <4>1. exchange[1] \in Frames
        BY <4>0
      <4> QED
        BY <4>1, FrameNumbers, StreamAssumption DEF StreamInv, StreamTypes, StreamAssumption
    <3> QED
      BY <3>1, <3>2 DEF StreamInv, TaskInv, TurnHolds
  <2>2. Inventory' /\ Answers' /\ SortedByTime'
    <3>1. UNCHANGED <<made, exchange, posted, stream, frames>>
      BY DEF Tick, modelVars
    <3>2. Inventory /\ Answers /\ SortedByTime
      BY DEF StreamInv, TaskInv
    <3>3. Inventory'
      BY <3>1, <3>2 DEF Inventory, NumberedFrom, Elems
    <3>4. Everywhere' = Everywhere
      BY <3>1 DEF Everywhere, Elems
    <3>5. SortedByTime'
      BY <3>1, <3>2 DEF SortedByTime, Rows
    <3> QED
      BY <3>2, <3>3, <3>4, <3>5, AnswersMove
  <2> QED
    BY <2>1, <2>2 DEF TaskInv
<1>3. ViewInv'
  BY ViewStays DEF StreamInv, Tick, modelVars
<1> QED
  BY <1>1, <1>2, <1>3 DEF StreamInv

\* A frame with the next number, behind all that were made.
LEMMA NewFrame ==
  ASSUME StreamInv, NEW k \in Kinds, NEW t \in 0..MaxTime + 1, made < MaxFrames
  PROVE  Frame(k, t) \in Frames /\ Frame(k, t).id = made + 1
<1>1. made + 1 \in 1..MaxFrames
  BY StreamAssumption DEF StreamInv, StreamTypes, StreamAssumption
<1> QED
  BY <1>1 DEF Frame, Frames

\* A turn begins with one frame that is not a response.
LEMMA TurnBegins ==
  ASSUME StreamInv, NEW k \in Kinds, k # "response", made < MaxFrames, exchange = <<>>,
         exchange' = <<Frame(k, now)>>, made' = made + 1, turn' \in {"target", "publish"},
         turn' = "target" => k = "request" /\ made + 2 <= MaxFrames,
         UNCHANGED <<now, modelVars, filterVars, proxyVars>>
  PROVE  StreamInv'
<1> DEFINE f == Frame(k, now)
<1>1. now \in 0..MaxTime /\ now \in 0..MaxTime + 1 /\ made \in 0..MaxFrames /\ made' \in 0..MaxFrames
  BY StreamAssumption DEF StreamInv, StreamTypes, StreamAssumption
<1>2. f \in Frames /\ f.id = made + 1 /\ f.kind = k /\ f.time = now
  <2>1. f \in Frames /\ f.id = made + 1
    BY <1>1, NewFrame
  <2> QED
    BY <2>1 DEF Frame
<1> HIDE DEF f
<1>3. exchange' = <<f>>
  BY DEF f
<1>4. exchange' \in Seq(Frames) /\ Len(exchange') = 1 /\ exchange'[1] = f
  BY <1>2, <1>3
<1>5. UNCHANGED <<posted, stream, frames>>
  BY DEF modelVars
<1>6. StreamTypes'
  <2>1. StreamTypes /\ UNCHANGED <<now, posted, stream, frames, enabled, filters, accepted, shown>>
    BY <1>5 DEF StreamInv, filterVars, proxyVars
  <2> QED
    BY <1>1, <1>4, <2>1 DEF StreamTypes
<1>7. TurnHolds'
  <2>1. exchange' # <<>> /\ turn' # "wait" /\ now' = now /\ now <= now
    BY <1>1, <1>4
  <2>2. turn' = "target" => k = "request" /\ made' < MaxFrames
    BY <1>1, StreamAssumption DEF StreamAssumption
  <2> QED
    BY <1>2, <1>4, <2>1, <2>2 DEF TurnHolds
<1>8. /\ Len(frames) \in Nat /\ Len(stream) \in Nat /\ Len(posted) \in Nat /\ Len(exchange) = 0
      /\ \A g \in Everywhere : g \in Frames /\ g.id \in 1..made
  BY NumbersMade DEF StreamInv, TaskInv
<1>9. Inventory'
  <2>1. Len(frames) + Len(stream) + Len(posted) = made
    BY <1>8 DEF StreamInv, TaskInv, Inventory
  <2>2. NumberedFrom(Len(frames) + Len(stream) + Len(posted), exchange')
    BY <1>1, <1>2, <1>4, <2>1 DEF NumberedFrom
  <2> QED
    BY <1>4, <1>5, <1>8, <2>1, <2>2 DEF StreamInv, TaskInv, Inventory, NumberedFrom, Elems
<1>10. Everywhere' = Everywhere \cup {f}
  <2>1. Elems(exchange') = {f} /\ Elems(exchange) = {}
    BY <1>4, <1>8 DEF Elems
  <2>2. Elems(frames') = Elems(frames) /\ Elems(stream') = Elems(stream) /\ Elems(posted') = Elems(posted)
    BY <1>5
  <2>3. Everywhere' = Elems(frames') \cup Elems(stream') \cup Elems(posted') \cup Elems(exchange')
    BY DEF Everywhere, Elems
  <2> QED
    BY <2>1, <2>2, <2>3 DEF Everywhere
<1>11. Answers'
  <2> SUFFICES ASSUME NEW g \in Everywhere \cup {f}, g.kind = "response"
               PROVE  /\ g.id > 1
                      /\ \A h \in Everywhere \cup {f} :
                           h.id + 1 = g.id => h.kind = "request" /\ h.time < g.time
    BY <1>10 DEF Answers
  <2>1. g \in Everywhere
    BY <1>2
  <2>2. f.id + 1 # g.id
    BY <1>1, <1>2, <1>8, <2>1
  <2> QED
    BY <2>1, <2>2 DEF StreamInv, TaskInv, Answers
<1>12. SortedByTime'
  BY <1>5 DEF StreamInv, SortedByTime, Rows
<1>13. ViewInv'
  BY <1>5, ViewStays DEF StreamInv
<1> QED
  BY <1>6, <1>7, <1>9, <1>11, <1>12, <1>13 DEF StreamInv, TaskInv

LEMMA FieldEventKeeps ==
  ASSUME StreamInv, FieldEvent
  PROVE  StreamInv'
<1>1. PICK k \in {"activate", "deactivate"} : exchange' = <<Frame(k, now)>>
  BY DEF FieldEvent
<1>2. k \in Kinds /\ k # "response" /\ exchange = <<>>
  BY DEF Kinds, StreamInv, TaskInv, TurnHolds, FieldEvent
<1> QED
  BY <1>1, <1>2, TurnBegins DEF FieldEvent

LEMMA RequestKeeps ==
  ASSUME StreamInv, Request
  PROVE  StreamInv'
<1>1. "request" \in Kinds /\ exchange = <<>>
  BY DEF Kinds, StreamInv, TaskInv, TurnHolds, Request
<1>2. made < MaxFrames
  BY StreamAssumption DEF Request, StreamInv, StreamTypes, StreamAssumption
<1> QED
  BY <1>1, <1>2, TurnBegins DEF Request

\* The response is one millisecond later than its request at least; when the
\* target fails there is none, and the request is published alone.
LEMMA RespondKeeps ==
  ASSUME StreamInv, Respond
  PROVE  StreamInv'
<1>1. /\ turn = "target" /\ turn' = "publish"
      /\ UNCHANGED <<now, posted, stream, frames, enabled, filters, accepted, shown>>
  BY DEF Respond, modelVars, filterVars, proxyVars
<1>2. /\ exchange \in Seq(Frames) /\ Len(exchange) = 1 /\ made < MaxFrames
      /\ exchange[1].kind = "request" /\ exchange[1].time <= now
      /\ now \in 0..MaxTime /\ now \in Int /\ made \in 0..MaxFrames /\ made \in Nat
  BY <1>1, StreamAssumption DEF StreamInv, StreamTypes, TaskInv, TurnHolds, StreamAssumption
<1>3. exchange[1] \in Frames /\ exchange # <<>> /\ exchange[1].time \in Int
  <2>0. exchange \in Seq(Frames) /\ Len(exchange) = 1
    BY <1>2
  <2>1. exchange[1] \in Frames
    BY <2>0
  <2>2. exchange # <<>>
    BY <2>0
  <2> QED
    BY <2>1, <2>2, FrameNumbers
<1>4. SortedByTime' /\ ViewInv'
  <2>1. ViewInv'
    BY ViewStays DEF StreamInv, Respond, modelVars
  <2> QED
    BY <1>1, <2>1 DEF StreamInv, SortedByTime, Rows
<1>5. StreamTypes /\ TaskInv
  BY DEF StreamInv
<1>6. CASE UNCHANGED <<exchange, made>>
  <2>1. StreamTypes' /\ TurnHolds'
    BY <1>1, <1>3, <1>5, <1>6 DEF StreamTypes, TurnHolds
  <2>2. Inventory' /\ Answers'
    BY <1>1, <1>5, <1>6 DEF TaskInv, Inventory, NumberedFrom, Answers, Everywhere, Elems
  <2> QED
    BY <1>4, <2>1, <2>2 DEF StreamInv, TaskInv
<1>7. CASE exchange' = Append(exchange, Frame("response", now + 1)) /\ made' = made + 1
  <2> DEFINE f == Frame("response", now + 1)
  <2>1. f \in Frames /\ f.id = made + 1 /\ f.kind = "response" /\ f.time = now + 1
    <3>1. now + 1 \in 0..MaxTime + 1 /\ "response" \in Kinds
      BY <1>2, StreamAssumption DEF Kinds, StreamAssumption
    <3>2. f \in Frames /\ f.id = made + 1
      BY <1>2, <3>1, NewFrame
    <3> QED
      BY <3>2 DEF Frame
  <2> HIDE DEF f
  <2>2. exchange' = Append(exchange, f)
    BY <1>7 DEF f
  <2>3. /\ exchange' \in Seq(Frames) /\ Len(exchange') = 2 /\ exchange' # <<>>
        /\ exchange'[1] = exchange[1] /\ exchange'[2] = f
    <3>1. exchange \in Seq(Frames) /\ Len(exchange) = 1 /\ f \in Frames
      BY <1>2, <2>1
    <3>2. /\ Append(exchange, f) \in Seq(Frames) /\ Len(Append(exchange, f)) = 2
          /\ Append(exchange, f)[1] = exchange[1] /\ Append(exchange, f)[2] = f
      <4>1. Append(exchange, f) \in Seq(Frames) /\ Len(Append(exchange, f)) = 2
        BY <3>1
      <4>2. Append(exchange, f)[1] = exchange[1]
        BY <3>1
      <4>3. Append(exchange, f)[Len(exchange) + 1] = f
        BY <3>1, AppendProperties
      <4> QED
        BY <3>1, <4>1, <4>2, <4>3
    <3> QED
      BY <2>2, <3>2
  <2>4. made' \in 0..MaxFrames
    BY <1>2, <1>7, StreamAssumption DEF StreamAssumption
  <2>5. StreamTypes' /\ TurnHolds'
    BY <1>1, <1>5, <2>3, <2>4 DEF StreamTypes, TurnHolds
  <2>6. /\ Len(frames) \in Nat /\ Len(stream) \in Nat /\ Len(posted) \in Nat
        /\ \A g \in Everywhere : g \in Frames /\ g.id \in 1..made
    BY <1>5, NumbersMade DEF TaskInv
  <2>7. Len(frames) + Len(stream) + Len(posted) + 1 = made /\ exchange[1].id = made
    <3>1. Len(frames) + Len(stream) + Len(posted) + 1 = made
      BY <1>2, <1>5 DEF TaskInv, Inventory
    <3>2. exchange[1].id = Len(frames) + Len(stream) + Len(posted) + 1
      BY <1>2, <1>5 DEF TaskInv, Inventory, NumberedFrom
    <3> QED
      BY <3>1, <3>2
  <2>8. Inventory'
    <3>1. NumberedFrom(Len(frames) + Len(stream) + Len(posted), exchange')
      <4> SUFFICES ASSUME NEW i \in 1..2
                   PROVE  exchange'[i].id = Len(frames) + Len(stream) + Len(posted) + i
        BY <2>3 DEF NumberedFrom
      <4>1. i = 1 \/ i = 2
        OBVIOUS
      <4> QED
        BY <1>2, <2>1, <2>3, <2>6, <2>7, <4>1
    <3> QED
      <4>1. Inventory /\ made' = made + 1
        BY <1>5, <1>7 DEF TaskInv
      <4>2. Len(frames) + Len(stream) + Len(posted) + Len(exchange') = made'
        BY <2>3, <2>6, <2>7, <4>1
      <4> QED
        BY <1>1, <3>1, <4>1, <4>2 DEF Inventory, NumberedFrom, Elems
  <2>9. Everywhere' = Everywhere \cup {f}
    <3>1. Elems(exchange') = {exchange[1], f} /\ Elems(exchange) = {exchange[1]}
      BY <1>2, <2>3 DEF Elems
    <3>2. Everywhere' = Elems(frames') \cup Elems(stream') \cup Elems(posted') \cup Elems(exchange')
      BY DEF Everywhere, Elems
    <3> QED
      BY <1>1, <3>1, <3>2 DEF Everywhere
  <2>10. \A g \in Everywhere : g.id = made => g = exchange[1]
    <3> SUFFICES ASSUME NEW g \in Everywhere, g.id = made PROVE g \in Elems(exchange)
      BY <1>2 DEF Elems
    <3>1. g \notin Elems(frames)
      <4> SUFFICES ASSUME g \in Elems(frames) PROVE FALSE
        OBVIOUS
      <4>1. g.id \in {h.id : h \in Elems(frames)}
        OBVIOUS
      <4>2. g.id \in 1..Len(frames)
        BY <1>5, <4>1 DEF TaskInv, Inventory
      <4> QED
        BY <2>6, <2>7, <4>2
    <3>2. g \notin Elems(stream)
      BY <1>5, <2>6, <2>7 DEF TaskInv, Inventory, NumberedFrom, Elems
    <3>3. g \notin Elems(posted)
      BY <1>5, <2>6, <2>7 DEF TaskInv, Inventory, NumberedFrom, Elems
    <3> QED
      BY <3>1, <3>2, <3>3 DEF Everywhere
  <2>11. Answers'
    <3> SUFFICES ASSUME NEW g \in Everywhere \cup {f}, g.kind = "response"
                 PROVE  /\ g.id > 1
                        /\ \A h \in Everywhere \cup {f} :
                             h.id + 1 = g.id => h.kind = "request" /\ h.time < g.time
      BY <2>9 DEF Answers
    <3>1. CASE g \in Everywhere
      <4>1. f.id + 1 # g.id
        BY <1>2, <2>1, <2>6, <3>1
      <4> QED
        BY <1>5, <3>1, <4>1 DEF TaskInv, Answers
    <3>2. CASE g = f
      <4>1. g.id > 1
        BY <1>2, <2>1, <2>6, <2>7, <3>2
      <4>2. ASSUME NEW h \in Everywhere \cup {f}, h.id + 1 = g.id
            PROVE  h.kind = "request" /\ h.time < g.time
        <5>1. h # f
          BY <1>2, <2>1, <3>2, <4>2
        <5>2. h.id = made
          BY <1>2, <2>1, <2>6, <3>2, <4>2, <5>1
        <5>3. h = exchange[1]
          BY <2>10, <5>1, <5>2
        <5> QED
          BY <1>2, <1>3, <2>1, <3>2, <5>3
      <4> QED
        BY <4>1, <4>2
    <3> QED
      BY <3>1, <3>2
  <2> QED
    BY <1>4, <2>5, <2>8, <2>11 DEF StreamInv, TaskInv
<1> QED
  BY <1>6, <1>7 DEF Respond

\* The first frame of the exchange goes to the end of the queue of Qt.
LEMMA PublishKeeps ==
  ASSUME StreamInv, Publish
  PROVE  StreamInv'
<1>1. StreamTypes /\ TaskInv /\ ViewInv /\ SortedByTime
  BY DEF StreamInv
<1>2. /\ exchange' = Tail(exchange) /\ posted' = Append(posted, Head(exchange))
      /\ turn' = IF exchange' = <<>> THEN "wait" ELSE "publish"
      /\ UNCHANGED <<now, made, stream, frames, enabled, filters, accepted, shown>>
  BY DEF Publish, filterVars, proxyVars
<1>3. exchange # <<>> /\ posted \in Seq(Frames) /\ exchange \in Seq(Frames)
  BY <1>1 DEF Publish, TaskInv, TurnHolds, StreamTypes
<1> DEFINE n == Len(frames) + Len(stream)
<1>4. /\ n \in Nat /\ Len(frames) \in Nat /\ Len(stream) \in Nat
      /\ Len(posted) \in Nat /\ Len(exchange) \in Nat
  BY <1>1, NumbersMade DEF TaskInv
<1>5. NumberedFrom(n, posted) /\ NumberedFrom(n + Len(posted), exchange)
  BY <1>1 DEF TaskInv, Inventory
<1> HIDE DEF n
<1>6. /\ posted' \in Seq(Frames) /\ exchange' \in Seq(Frames)
      /\ Len(posted') = Len(posted) + 1 /\ Len(exchange') = Len(exchange) - 1
      /\ NumberedFrom(n, posted') /\ NumberedFrom(n + Len(posted) + 1, exchange')
      /\ Elems(posted') \cup Elems(exchange') = Elems(posted) \cup Elems(exchange)
  BY <1>2, <1>3, <1>4, <1>5, HandOver
<1>7. StreamTypes' /\ TurnHolds'
  BY <1>1, <1>2, <1>6 DEF StreamTypes, TurnHolds
<1>8. Inventory'
  <2>1. Len(frames) + Len(stream) + Len(posted') + Len(exchange') = made
    BY <1>1, <1>4, <1>6 DEF TaskInv, Inventory
  <2>2. n + Len(posted) + 1 = Len(frames) + Len(stream) + Len(posted')
    BY <1>4, <1>6 DEF n
  <2>3. Inventory /\ UNCHANGED <<made, stream, frames>>
    BY <1>1, <1>2 DEF TaskInv
  <2>4. {f.id : f \in Elems(frames')} = 1..Len(frames')
    BY <2>3 DEF Inventory, Elems
  <2>5. NumberedFrom(Len(frames'), stream')
    BY <2>3 DEF Inventory, NumberedFrom
  <2>6. NumberedFrom(Len(frames') + Len(stream'), posted')
    BY <1>6, <2>3 DEF n
  <2>7. NumberedFrom(Len(frames') + Len(stream') + Len(posted'), exchange')
    BY <1>6, <2>2, <2>3
  <2>8. Len(frames') + Len(stream') + Len(posted') + Len(exchange') = made'
    BY <2>1, <2>3
  <2> QED
    BY <2>4, <2>5, <2>6, <2>7, <2>8 DEF Inventory, Elems, NumberedFrom
<1>9. Answers'
  <2>1. Everywhere' = Everywhere
    BY <1>2, <1>6 DEF Everywhere, Elems
  <2> QED
    BY <1>1, <2>1, AnswersMove DEF TaskInv
<1>10. ViewInv' /\ SortedByTime'
  <2>1. ViewInv'
    BY <1>1, ViewStays DEF Publish
  <2> QED
    BY <1>1, <1>2, <2>1 DEF SortedByTime, Rows
<1> QED
  BY <1>7, <1>8, <1>9, <1>10 DEF StreamInv, TaskInv

-----------------------------------------------------------------------------
(* The steps of StreamModel                                                *)

\* The first frame of the queue of Qt goes to the end of StreamModel's.
LEMMA AppendFrameKeeps ==
  ASSUME StreamInv, AppendFrame
  PROVE  StreamInv'
<1>1. StreamTypes /\ TaskInv /\ ViewInv /\ SortedByTime
  BY DEF StreamInv
<1>2. /\ stream' = Append(stream, Head(posted)) /\ posted' = Tail(posted) /\ posted # <<>>
      /\ UNCHANGED <<now, made, exchange, turn, frames, enabled, filters, accepted, shown>>
  BY DEF AppendFrame, taskVars, filterVars, proxyVars
<1>3. posted \in Seq(Frames) /\ stream \in Seq(Frames)
  BY <1>1 DEF StreamTypes
<1> DEFINE n == Len(frames)
<1>4. n \in Nat /\ Len(stream) \in Nat /\ Len(posted) \in Nat /\ Len(exchange) \in Nat
  BY <1>1, NumbersMade DEF TaskInv
<1>5. NumberedFrom(n, stream) /\ NumberedFrom(n + Len(stream), posted)
  BY <1>1 DEF TaskInv, Inventory
<1> HIDE DEF n
<1>6. /\ stream' \in Seq(Frames) /\ posted' \in Seq(Frames)
      /\ Len(stream') = Len(stream) + 1 /\ Len(posted') = Len(posted) - 1
      /\ NumberedFrom(n, stream') /\ NumberedFrom(n + Len(stream) + 1, posted')
      /\ Elems(stream') \cup Elems(posted') = Elems(stream) \cup Elems(posted)
  BY <1>2, <1>3, <1>4, <1>5, HandOver
<1>7. StreamTypes' /\ TurnHolds'
  BY <1>1, <1>2, <1>6 DEF StreamTypes, TaskInv, TurnHolds
<1>8. Inventory'
  <2>1. n + Len(stream') + Len(posted') + Len(exchange) = made
    BY <1>1, <1>4, <1>6 DEF TaskInv, Inventory, n
  <2>2. n + Len(stream) + 1 = n + Len(stream')
    BY <1>4, <1>6
  <2>3. n + Len(stream') + Len(posted') = n + Len(stream) + Len(posted)
    BY <1>4, <1>6
  <2> QED
    BY <1>1, <1>2, <1>6, <2>1, <2>2, <2>3 DEF TaskInv, Inventory, n, NumberedFrom, Elems
<1>9. Answers'
  <2>1. Everywhere' = Everywhere
    BY <1>2, <1>6 DEF Everywhere, Elems
  <2> QED
    BY <1>1, <2>1, AnswersMove DEF TaskInv
<1>10. ViewInv' /\ SortedByTime'
  <2>1. ViewInv'
    BY <1>1, ViewStays DEF AppendFrame
  <2> QED
    BY <1>1, <1>2, <2>1 DEF SortedByTime, Rows
<1> QED
  BY <1>7, <1>8, <1>9, <1>10 DEF StreamInv, TaskInv

\* What a fetch leaves in the table.
LEMMA FetchShape ==
  ASSUME StreamInv, FetchMore
  PROVE  /\ frames' \in Seq(Frames) /\ Len(frames') = Len(frames) + Len(stream)
         /\ Elems(frames') = Elems(frames) \cup Elems(stream)
         /\ Rows = 1..Len(frames) /\ Rows' = 1..Len(frames) + Len(stream)
         /\ Announced = Len(frames) + 1..Len(frames) + Len(stream)
         /\ Len(frames) \in Nat /\ Len(stream) \in Nat
         /\ SortedByTime'
         /\ InOrder' => InOrder /\ \A r \in Rows : frames'[r] = frames[r]
<1>1. StreamTypes /\ TaskInv /\ SortedByTime
  BY DEF StreamInv
<1>2. frames \in Seq(Frames) /\ stream \in Seq(Frames) /\ frames' = InsertAll(frames, stream)
  BY <1>1 DEF StreamTypes, FetchMore, Fetch
<1>3. Len(frames) \in Nat /\ Len(stream) \in Nat /\ Rows = 1..Len(frames)
  BY <1>2 DEF Rows
<1>4. ByTime(frames)
  BY <1>1, <1>3 DEF ByTime, SortedByTime
<1>5. /\ frames' \in Seq(Frames) /\ Len(frames') = Len(frames) + Len(stream)
      /\ Elems(frames') = Elems(frames) \cup Elems(stream) /\ ByTime(frames')
  BY <1>2, <1>4, InsertAllShape
<1>6. Rows' = 1..Len(frames) + Len(stream)
  BY <1>5 DEF Rows
<1>7. SortedByTime'
  BY <1>5, <1>6 DEF ByTime, SortedByTime
<1>8. ASSUME InOrder' PROVE InOrder /\ \A r \in Rows : frames'[r] = frames[r]
  <2>1. ById(InsertAll(frames, stream))
    BY <1>2, <1>5, <1>6, <1>8 DEF InOrder, ById
  <2>2. ById(stream)
    BY <1>1, <1>3 DEF TaskInv, Inventory, NumberedFrom, ById
  <2>3. ASSUME NEW i \in 1..Len(frames), NEW j \in 1..Len(stream)
        PROVE  frames[i].id < stream[j].id
    <3>1. frames[i].id \in {f.id : f \in Elems(frames)}
      BY DEF Elems
    <3>2. frames[i].id \in 1..Len(frames)
      BY <1>1, <3>1 DEF TaskInv, Inventory
    <3>3. stream[j].id = Len(frames) + j
      BY <1>1 DEF TaskInv, Inventory, NumberedFrom
    <3> QED
      BY <1>3, <3>2, <3>3
  <2>4. ById(frames) /\ \A r \in 1..Len(frames) : InsertAll(frames, stream)[r] = frames[r]
    BY <1>2, <2>1, <2>2, <2>3, InsertAllLast
  <2> QED
    BY <1>2, <1>3, <2>4 DEF InOrder, ById
<1> QED
  BY <1>3, <1>5, <1>6, <1>7, <1>8 DEF Announced

LEMMA FetchMoreKeepsTask ==
  ASSUME StreamInv, FetchMore
  PROVE  StreamTypes' /\ TaskInv'
<1> DEFINE n == Len(frames)
           m == Len(stream)
<1>1. StreamTypes /\ TaskInv
  BY DEF StreamInv
<1>2. /\ stream' = <<>>
      /\ UNCHANGED <<now, made, exchange, turn, posted, enabled, filters>>
      /\ shown' = shown \cup {r \in Announced : RowAccepted(frames'[r])}
      /\ accepted' = [c \in Columns |->
           accepted[c] \/ Counts(c, {frames'[r] : r \in Announced})]
  BY DEF FetchMore, Fetch, taskVars, filterVars
<1>3. /\ frames' \in Seq(Frames) /\ Len(frames') = n + m
      /\ Elems(frames') = Elems(frames) \cup Elems(stream)
      /\ Announced = n + 1..n + m /\ n \in Nat /\ m \in Nat
  BY FetchShape
<1>4. stream' \in Seq(Frames) /\ Len(stream') = 0
  BY <1>2
<1> HIDE DEF n, m
<1>5. StreamTypes'
  <2>1. shown' \subseteq 1..n + m
    <3>1. shown \subseteq 1..n
      BY <1>1 DEF StreamTypes, n
    <3>2. 1..n \subseteq 1..n + m /\ Announced \subseteq 1..n + m
      BY <1>3
    <3>3. {r \in Announced : RowAccepted(frames'[r])} \subseteq Announced
      OBVIOUS
    <3> QED
      BY <1>2, <3>1, <3>2, <3>3, Zenon
  <2>2. accepted' \in [Columns -> BOOLEAN]
    BY <1>1, <1>2, Zenon DEF StreamTypes, Counts
  <2>3. shown' \subseteq 1..Len(frames')
    BY <1>3, <2>1
  <2> QED
    BY <1>1, <1>2, <1>3, <1>4, <2>2, <2>3 DEF StreamTypes
<1>6. TurnHolds'
  BY <1>1, <1>2 DEF TaskInv, TurnHolds
<1>7. Inventory'
  <2>1. /\ n + m + Len(posted) + Len(exchange) = made
        /\ {f.id : f \in Elems(frames)} = 1..n
        /\ \A i \in 1..m : stream[i].id = n + i
        /\ NumberedFrom(n + m, posted) /\ NumberedFrom(n + m + Len(posted), exchange)
    BY <1>1 DEF TaskInv, Inventory, n, m, NumberedFrom
  <2>2. {f.id : f \in Elems(stream)} = n + 1..n + m
    <3>1. ASSUME NEW k \in n + 1..n + m PROVE \E f \in Elems(stream) : f.id = k
      <4>1. k - n \in 1..m /\ n + (k - n) = k
        BY <1>3
      <4>2. stream[k - n] \in Elems(stream) /\ stream[k - n].id = k
        BY <2>1, <4>1 DEF Elems, m
      <4> QED
        BY <4>2
    <3>2. ASSUME NEW f \in Elems(stream) PROVE f.id \in n + 1..n + m
      <4>1. PICK i \in 1..m : f = stream[i]
        BY DEF Elems, m
      <4> QED
        BY <1>3, <2>1, <4>1
    <3> QED
      BY <3>1, <3>2
  <2>3. {f.id : f \in Elems(frames')} = 1..n + m
    <3>1. {f.id : f \in Elems(frames')} = {f.id : f \in Elems(frames)} \cup {f.id : f \in Elems(stream)}
      BY <1>3
    <3> QED
      BY <1>3, <2>1, <2>2, <3>1
  <2>4. NumberedFrom(n + m, stream')
    BY <1>4 DEF NumberedFrom
  <2>5. Len(posted) \in Nat /\ Len(exchange) \in Nat
    BY <1>1, NumbersMade DEF TaskInv
  <2>6. /\ Len(frames') + Len(stream') + Len(posted) + Len(exchange) = made
        /\ Len(frames') + Len(stream') = n + m
    BY <1>3, <1>4, <2>1, <2>5
  <2>7. /\ NumberedFrom(Len(frames'), stream')
        /\ NumberedFrom(Len(frames') + Len(stream'), posted)
        /\ NumberedFrom(Len(frames') + Len(stream') + Len(posted), exchange)
        /\ {f.id : f \in Elems(frames')} = 1..Len(frames')
    BY <1>3, <2>1, <2>3, <2>4, <2>6
  <2> QED
    BY <1>2, <2>6, <2>7 DEF Inventory, NumberedFrom, Elems
<1>8. Answers'
  <2>1. Elems(stream') = {}
    BY <1>4 DEF Elems
  <2>2. Everywhere' = Elems(frames') \cup Elems(stream') \cup Elems(posted) \cup Elems(exchange)
    BY <1>2 DEF Everywhere, Elems
  <2>3. Everywhere' = Everywhere
    BY <1>3, <2>1, <2>2 DEF Everywhere
  <2> QED
    BY <1>1, <2>3, AnswersMove DEF TaskInv
<1> QED
  BY <1>5, <1>6, <1>7, <1>8 DEF TaskInv

\* The proxy is told of rows behind the last one.  As long as that is where they
\* are, it asks for the right ones; the frames it is told of are rows in any case.
LEMMA FetchMoreKeepsView ==
  ASSUME StreamInv, FetchMore
  PROVE  ViewInv'
<1> DEFINE n == Len(frames)
           m == Len(stream)
           S == {frames'[r] : r \in Announced}
<1>1. FilteredViewIsRight /\ HeaderAgrees /\ CountsAreReal /\ StreamTypes
  BY DEF StreamInv, ViewInv
<1>2. /\ UNCHANGED <<enabled, filters>>
      /\ shown' = shown \cup {r \in Announced : RowAccepted(frames'[r])}
      /\ accepted' = [c \in Columns |-> accepted[c] \/ Counts(c, S)]
  BY DEF FetchMore, Fetch, filterVars
<1>3. /\ Len(frames') = n + m /\ n \in Nat /\ m \in Nat
      /\ Elems(frames') = Elems(frames) \cup Elems(stream)
      /\ Rows = 1..n /\ Rows' = 1..n + m /\ Announced = n + 1..n + m
      /\ InOrder' => InOrder /\ \A r \in Rows : frames'[r] = frames[r]
  BY FetchShape
<1> HIDE DEF n, m
<1>4. Rows' = Rows \cup Announced
  BY <1>3
<1>5. /\ \A r \in Rows' : RowAccepted(frames[r])' <=> RowAccepted(frames'[r])
      /\ \A c \in Columns, r \in Rows' : ColumnAccepts(c, frames[r])' <=> ColumnAccepts(c, frames'[r])
  BY <1>2 DEF RowAccepted, ColumnAccepts
<1>6. FilteredViewIsRight'
  <2> SUFFICES ASSUME InOrder' PROVE shown' = {r \in Rows' : RowAccepted(frames'[r])}
    BY <1>5 DEF FilteredViewIsRight
  <2>1. shown = {r \in Rows : RowAccepted(frames'[r])}
    BY <1>1, <1>3 DEF FilteredViewIsRight
  <2> QED
    BY <1>2, <1>4, <2>1
<1>7. \A c \in Columns : Counts(c, S) <=>
        enabled /\ filters[c] # {} /\ \E r \in Announced : ColumnAccepts(c, frames'[r])
  BY DEF Counts
<1> HIDE DEF S
<1>8. \A c \in Columns : accepted'[c] <=> accepted[c] \/ Counts(c, S)
  BY <1>2, Zenon
<1>9. HeaderAgrees'
  <2> SUFFICES ASSUME InOrder', enabled, NEW c \in Columns, filters[c] # {}
               PROVE  accepted'[c] <=> \E r \in Rows' : ColumnAccepts(c, frames'[r])
    BY <1>2, <1>5 DEF HeaderAgrees
  <2>1. accepted[c] <=> \E r \in Rows : ColumnAccepts(c, frames'[r])
    BY <1>1, <1>3 DEF HeaderAgrees
  <2> QED
    BY <1>4, <1>7, <1>8, <2>1
<1>10. CountsAreReal'
  <2> SUFFICES ASSUME NEW c \in Columns, filters[c] # {}, accepted'[c]
               PROVE  \E r \in Rows' : ColumnAccepts(c, frames'[r])
    BY <1>2, <1>5 DEF CountsAreReal
  <2>1. CASE Counts(c, S)
    BY <1>4, <1>7, <2>1
  <2>2. CASE accepted[c]
    <3>1. PICK r \in Rows : ColumnAccepts(c, frames[r])
      BY <1>1, <2>2 DEF CountsAreReal
    <3>2. frames[r] \in Elems(frames')
      BY <1>3 DEF Elems, n
    <3>3. PICK q \in 1..Len(frames') : frames'[q] = frames[r]
      BY <3>2 DEF Elems
    <3> QED
      BY <1>3, <3>1, <3>3
  <2> QED
    BY <1>8, <2>1, <2>2
<1> QED
  BY <1>6, <1>9, <1>10 DEF ViewInv

-----------------------------------------------------------------------------
(* The steps of StreamFilter                                               *)

\* Other filters: every row is asked for anew, and the counts start at zero.
LEMMA ChangeFiltersKeeps ==
  ASSUME StreamInv, NEW new \in [Columns -> SUBSET [mode : Modes, accepts : Accepts]],
         ChangeFilters(new)
  PROVE  StreamInv'
<1>1. /\ filters' = new
      /\ UNCHANGED <<now, made, exchange, turn, posted, stream, frames, enabled>>
      /\ shown' = {r \in Rows : RowAccepted(frames[r])'}
      /\ accepted' = [c \in Columns |-> Counts(c, FrameSet)']
  BY DEF ChangeFilters, taskVars, modelVars
<1>2. StreamTypes /\ TaskInv /\ SortedByTime
  BY DEF StreamInv
<1>3. Rows' = Rows /\ Rows = 1..Len(frames)
  BY <1>1, <1>2 DEF Rows, StreamTypes
<1>4. StreamTypes'
  <2>1. shown' \subseteq 1..Len(frames)
    BY <1>1, <1>3
  <2>2. accepted' \in [Columns -> BOOLEAN]
    BY <1>1, Zenon DEF Counts
  <2> QED
    BY <1>1, <1>2, <2>1, <2>2 DEF StreamTypes
<1>5. TaskInv' /\ SortedByTime'
  BY <1>2, TaskStays DEF ChangeFilters
<1>6. \A c \in Columns : accepted'[c] <=> Counts(c, FrameSet)'
  BY <1>1, Zenon
<1>7. \A c \in Columns : Counts(c, FrameSet)' <=>
        enabled' /\ filters'[c] # {} /\ \E r \in Rows' : ColumnAccepts(c, frames[r])'
  BY DEF Counts, FrameSet, ColumnAccepts
<1>8. ViewInv'
  <2>1. FilteredViewIsRight'
    BY <1>1, <1>3 DEF FilteredViewIsRight
  <2>2. HeaderAgrees' /\ CountsAreReal'
    BY <1>6, <1>7 DEF HeaderAgrees, CountsAreReal
  <2> QED
    BY <2>1, <2>2 DEF ViewInv
<1> QED
  BY <1>4, <1>5, <1>8 DEF StreamInv

LEMMA AddFilterKeeps ==
  ASSUME StreamInv, NEW c \in Columns, NEW m \in Modes, NEW s \in Accepts, AddFilter(c, m, s)
  PROVE  StreamInv'
<1> DEFINE new == [filters EXCEPT ![c] = Without(c, m) \cup {[mode |-> m, accepts |-> s]}]
<1>1. filters \in [Columns -> SUBSET [mode : Modes, accepts : Accepts]]
  BY DEF StreamInv, StreamTypes
<1>2. Without(c, m) \in SUBSET [mode : Modes, accepts : Accepts]
  BY <1>1 DEF Without
<1>3. new \in [Columns -> SUBSET [mode : Modes, accepts : Accepts]]
  BY <1>1, <1>2
<1>4. ChangeFilters(new)
  BY DEF AddFilter
<1> HIDE DEF new
<1> QED
  BY <1>3, <1>4, ChangeFiltersKeeps

LEMMA RemoveFilterKeeps ==
  ASSUME StreamInv, NEW c \in Columns, NEW m, RemoveFilter(c, m)
  PROVE  StreamInv'
<1> DEFINE new == [filters EXCEPT ![c] = Without(c, m)]
<1>1. filters \in [Columns -> SUBSET [mode : Modes, accepts : Accepts]]
  BY DEF StreamInv, StreamTypes
<1>2. Without(c, m) \in SUBSET [mode : Modes, accepts : Accepts]
  BY <1>1 DEF Without
<1>3. new \in [Columns -> SUBSET [mode : Modes, accepts : Accepts]]
  BY <1>1, <1>2
<1>4. ChangeFilters(new)
  BY DEF RemoveFilter
<1> HIDE DEF new
<1> QED
  BY <1>3, <1>4, ChangeFiltersKeeps

LEMMA ClearFiltersKeeps ==
  ASSUME StreamInv, NEW c \in Columns, ClearFilters(c)
  PROVE  StreamInv'
<1> DEFINE new == [filters EXCEPT ![c] = {}]
<1>1. new \in [Columns -> SUBSET [mode : Modes, accepts : Accepts]]
  BY DEF StreamInv, StreamTypes
<1>2. ChangeFilters(new)
  BY DEF ClearFilters
<1> HIDE DEF new
<1> QED
  BY <1>1, <1>2, ChangeFiltersKeeps

\* The button counts on top of what was counted: CountsAreReal makes that right.
LEMMA SetEnabledKeeps ==
  ASSUME StreamInv, SetEnabled
  PROVE  StreamInv'
<1>1. /\ enabled' = ~enabled
      /\ UNCHANGED <<now, made, exchange, turn, posted, stream, frames, filters>>
      /\ shown' = {r \in Rows : RowAccepted(frames[r])'}
      /\ accepted' = [c \in Columns |-> accepted[c] \/ Counts(c, FrameSet)']
  BY DEF SetEnabled, taskVars, modelVars
<1>2. StreamTypes /\ TaskInv /\ SortedByTime /\ CountsAreReal
  BY DEF StreamInv, ViewInv
<1>3. Rows' = Rows /\ Rows = 1..Len(frames)
  BY <1>1, <1>2 DEF Rows, StreamTypes
<1>4. StreamTypes'
  <2>1. shown' \subseteq 1..Len(frames)
    BY <1>1, <1>3
  <2>2. accepted' \in [Columns -> BOOLEAN]
    BY <1>1, <1>2, Zenon DEF Counts, StreamTypes
  <2> QED
    BY <1>1, <1>2, <2>1, <2>2 DEF StreamTypes
<1>5. TaskInv' /\ SortedByTime'
  BY <1>2, TaskStays DEF SetEnabled
<1>6. \A c \in Columns : accepted'[c] <=> accepted[c] \/ Counts(c, FrameSet)'
  BY <1>1, Zenon
<1>7. \A c \in Columns : Counts(c, FrameSet)' <=>
        enabled' /\ filters'[c] # {} /\ \E r \in Rows' : ColumnAccepts(c, frames[r])'
  BY DEF Counts, FrameSet, ColumnAccepts
<1>8. \A c \in Columns, r \in Rows : ColumnAccepts(c, frames[r])' <=> ColumnAccepts(c, frames[r])
  BY <1>1 DEF ColumnAccepts
<1>9. ViewInv'
  <2>1. FilteredViewIsRight'
    BY <1>1, <1>3 DEF FilteredViewIsRight
  <2>2. ASSUME NEW c \in Columns, filters'[c] # {}, accepted'[c]
        PROVE  \E r \in Rows' : ColumnAccepts(c, frames[r])'
    BY <1>1, <1>2, <1>3, <1>6, <1>7, <1>8, <2>2 DEF CountsAreReal
  <2>3. HeaderAgrees' /\ CountsAreReal'
    BY <1>6, <1>7, <2>2 DEF HeaderAgrees, CountsAreReal
  <2> QED
    BY <2>1, <2>3 DEF ViewInv
<1> QED
  BY <1>4, <1>5, <1>9 DEF StreamInv

LEMMA StreamStep == StreamInv /\ [Next]_vars => StreamInv'
<1> SUFFICES ASSUME StreamInv, [Next]_vars PROVE StreamInv'
  OBVIOUS
<1>1. CASE Tick
  BY <1>1, TickKeeps
<1>2. CASE FieldEvent
  BY <1>2, FieldEventKeeps
<1>3. CASE Request
  BY <1>3, RequestKeeps
<1>4. CASE Respond
  BY <1>4, RespondKeeps
<1>5. CASE Publish
  BY <1>5, PublishKeeps
<1>6. CASE AppendFrame
  BY <1>6, AppendFrameKeeps
<1>7. CASE FetchMore
  <2>1. SortedByTime'
    BY <1>7, FetchShape
  <2> QED
    BY <1>7, <2>1, FetchMoreKeepsTask, FetchMoreKeepsView DEF StreamInv
<1>8. CASE \E c \in Columns, m \in Modes, s \in Accepts : AddFilter(c, m, s)
  BY <1>8, AddFilterKeeps
<1>9. CASE \E c \in Columns : RemoveFilter(c, "List") \/ ClearFilters(c)
  BY <1>9, RemoveFilterKeeps, ClearFiltersKeeps
<1>10. CASE SetEnabled
  BY <1>10, SetEnabledKeeps
<1>11. CASE UNCHANGED vars
  <2>1. UNCHANGED <<taskVars, modelVars, filterVars, proxyVars>>
    BY <1>11 DEF vars
  <2>2. StreamTypes'
    BY <2>1 DEF StreamInv, StreamTypes, taskVars, modelVars, filterVars, proxyVars
  <2>3. TaskInv' /\ SortedByTime'
    BY <2>1, TaskStays DEF StreamInv
  <2>4. ViewInv'
    BY <2>1, ViewStays DEF StreamInv, modelVars
  <2> QED
    BY <2>2, <2>3, <2>4 DEF StreamInv
<1> QED
  BY <1>1, <1>2, <1>3, <1>4, <1>5, <1>6, <1>7, <1>8, <1>9, <1>10, <1>11 DEF Next, TaskStep, ViewStep

\* The invariant holds of every behaviour.
THEOREM StreamInvHolds == Spec => []StreamInv
<1>1. Init => StreamInv
  BY StreamInit
<1>2. StreamInv /\ [Next]_vars => StreamInv'
  BY StreamStep
<1> QED
  BY <1>1, <1>2, PTL DEF Spec

-----------------------------------------------------------------------------
(* What the table and the window show                                      *)

\* Every variable has its type, and no queue grows beyond the frames made.
THEOREM StreamTyped == Spec => []StreamTypeOK
<1>1. StreamInv => StreamTypeOK
  <2> SUFFICES ASSUME StreamInv PROVE StreamTypeOK
    OBVIOUS
  <2>1. StreamTypes /\ Inventory /\ Rows = 1..Len(frames)
    BY DEF StreamInv, TaskInv, StreamTypes, Rows
  <2>2. /\ Len(frames) <= MaxFrames /\ Len(stream) <= MaxFrames
        /\ Len(posted) <= MaxFrames /\ Len(exchange) <= MaxFrames
    <3>1. /\ Len(frames) \in Nat /\ Len(stream) \in Nat /\ Len(posted) \in Nat
          /\ Len(exchange) \in Nat /\ made \in 0..MaxFrames
      BY <2>1, NumbersMade DEF StreamTypes
    <3> QED
      BY <2>1, <3>1, StreamAssumption DEF Inventory, StreamAssumption
  <2>3. ASSUME NEW s \in {exchange, posted, stream, frames}
        PROVE  Len(s) <= MaxFrames /\ \A i \in DOMAIN s : s[i] \in Frames
    <3>1. s \in Seq(Frames)
      BY <2>1 DEF StreamTypes
    <3> QED
      BY <2>2, <3>1
  <2> QED
    BY <2>1, <2>3 DEF StreamTypeOK, StreamTypes
<1> QED
  BY <1>1, StreamInvHolds, PTL

\* The rows are sorted by time, whatever was fetched together (StreamModel::fetchMore).
THEOREM SortedByTimeHolds == Spec => []SortedByTime
<1>1. StreamInv => SortedByTime
  BY DEF StreamInv
<1> QED
  BY <1>1, StreamInvHolds, PTL

\* A response never stands above its request: the request has its number less one,
\* so it is a row too, and it is earlier, so it is a row above.
THEOREM RequestFirstHolds == Spec => []RequestFirst
<1>1. StreamInv => RequestFirst
  <2> SUFFICES ASSUME StreamInv, NEW r \in Rows, frames[r].kind = "response"
               PROVE  \E q \in 1..r - 1 : frames[q].kind = "request" /\ frames[q].id + 1 = frames[r].id
    BY DEF RequestFirst
  <2>1. StreamTypes /\ Inventory /\ Answers /\ SortedByTime /\ Rows = 1..Len(frames)
    BY DEF StreamInv, TaskInv, StreamTypes, Rows
  <2>2. /\ Len(frames) \in Nat /\ \A q \in Rows : frames[q] \in Elems(frames)
        /\ \A q \in Rows : frames[q] \in Everywhere /\ frames[q] \in Frames
    BY <2>1 DEF StreamTypes, Elems, Everywhere
  <2>3. frames[r].id > 1 /\ frames[r].id \in Int
    BY <2>1, <2>2, FrameNumbers DEF Answers
  <2>4. frames[r].id \in {f.id : f \in Elems(frames)}
    BY <2>2
  <2>5. frames[r].id - 1 \in {f.id : f \in Elems(frames)}
    <3>1. {f.id : f \in Elems(frames)} = 1..Len(frames)
      BY <2>1 DEF Inventory
    <3>2. frames[r].id - 1 \in 1..Len(frames)
      BY <2>2, <2>3, <2>4, <3>1
    <3> QED
      BY <3>1, <3>2
  <2>6. PICK q \in Rows : frames[q].id = frames[r].id - 1
    <3>1. PICK f \in Elems(frames) : f.id = frames[r].id - 1
      BY <2>5
    <3>2. PICK q \in 1..Len(frames) : f = frames[q]
      BY DEF Elems
    <3> QED
      BY <2>1, <3>1, <3>2
  <2>7. frames[q].id + 1 = frames[r].id
    BY <2>3, <2>6
  <2>8. frames[q].kind = "request" /\ frames[q].time < frames[r].time
    BY <2>1, <2>2, <2>7 DEF Answers
  <2>9. frames[q].time \in Int /\ frames[r].time \in Int
    BY <2>2, FrameNumbers
  <2>10. q < r
    <3> SUFFICES ASSUME q >= r PROVE FALSE
      BY <2>1, <2>2
    <3>1. q = r \/ r < q
      BY <2>1, <2>2
    <3>2. frames[r].time <= frames[q].time
      BY <2>1, <2>9, <3>1 DEF SortedByTime
    <3> QED
      BY <2>8, <2>9, <3>2
  <2>11. q \in 1..r - 1
    BY <2>1, <2>2, <2>10
  <2> QED
    BY <2>7, <2>8, <2>11
<1> QED
  BY <1>1, StreamInvHolds, PTL

\* As long as frames came in order, the proxy shows just the rows that the
\* filters accept (StreamFilter::filterAcceptsRow).
THEOREM FilteredViewIsRightHolds == Spec => []FilteredViewIsRight
<1>1. StreamInv => FilteredViewIsRight
  BY DEF StreamInv, ViewInv
<1> QED
  BY <1>1, StreamInvHolds, PTL

\* As long as frames came in order, a column's mark says whether a row passes.
THEOREM HeaderAgreesHolds == Spec => []HeaderAgrees
<1>1. StreamInv => HeaderAgrees
  BY DEF StreamInv, ViewInv
<1> QED
  BY <1>1, StreamInvHolds, PTL

\* Between process() and the table no frame is lost, doubled or overtaken: what
\* the task made are the rows and, in the order of their making, the queues.
THEOREM InventoryHolds == Spec => []Inventory
<1>1. StreamInv => Inventory
  BY DEF StreamInv, TaskInv
<1> QED
  BY <1>1, StreamInvHolds, PTL
=============================================================================
