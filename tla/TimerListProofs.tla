--------------------------- MODULE TimerListProofs ---------------------------
(***************************************************************************)
(* Facts about the array operations of module TimerList, for lists of any  *)
(* length and timers of any kind.                                          *)
(***************************************************************************)
EXTENDS TimerList, SequenceTheorems, WellFoundedInduction, TLAPS

(***************************************************************************)
(* A nonempty set of natural numbers has a least element.                  *)
(***************************************************************************)
LEMMA LeastNatural ==
  ASSUME NEW T, T \subseteq Nat, T # {}
  PROVE  \E x \in T : \A y \in T : x <= y
<1> DEFINE R == {p \in Nat \X Nat : p[1] < p[2]}
<1>1. IsWellFoundedOn(OpToRel(<, Nat), Nat)
  BY NatLessThanWellFounded
<1>2. OpToRel(<, Nat) = R
  BY Zenon DEF OpToRel
<1>3. IsWellFoundedOn(R, Nat)
  BY <1>1, <1>2, Zenon
<1> HIDE DEF R
<1>4. \E x \in T : \A y \in T : ~(<<y, x>> \in R)
  BY <1>3, WFMin
<1>5. PICK x \in T : \A y \in T : ~(<<y, x>> \in R)
  BY <1>4
<1>6. ASSUME NEW y \in T, y < x PROVE FALSE
  <2>1. <<y, x>> \in R
    BY <1>6 DEF R
  <2> QED
    BY <1>5, <2>1
<1> QED
  BY <1>6

(***************************************************************************)
(* A nonempty set of indices has a greatest element.                       *)
(***************************************************************************)
LEMMA GreatestIndex ==
  ASSUME NEW n \in Nat, NEW T, T \subseteq 1..n, T # {}
  PROVE  \E x \in T : \A y \in T : y <= x
<1> DEFINE U == {n - x : x \in T}
<1>1. \A x \in T : x \in Nat /\ n - x \in Nat
  OBVIOUS
<1>2. U \subseteq Nat /\ U # {}
  BY <1>1
<1>3. PICK u \in U : \A v \in U : u <= v
  BY <1>2, LeastNatural
<1>4. PICK x \in T : u = n - x
  OBVIOUS
<1>5. ASSUME NEW y \in T PROVE y <= x
  <2>1. n - y \in U
    OBVIOUS
  <2>2. n - x <= n - y
    BY <1>3, <1>4, <2>1
  <2> QED
    BY <1>1, <2>2
<1> QED
  BY <1>5

(***************************************************************************)
(* splice(p - 1, 0, timer) yields a list one longer, with the timer at p.  *)
(***************************************************************************)
LEMMA SpliceFacts ==
  ASSUME NEW S, NEW s \in Seq(S), NEW p \in 1..(Len(s) + 1), NEW x \in S
  PROVE  /\ Splice(s, p, x) \in Seq(S)
         /\ Len(Splice(s, p, x)) = Len(s) + 1
         /\ \A k \in 1..(Len(s) + 1) :
              Splice(s, p, x)[k] =
                IF k < p THEN s[k] ELSE IF k = p THEN x ELSE s[k - 1]
<1> DEFINE t == Splice(s, p, x)
<1>1. Len(s) \in Nat /\ \A k \in 1..Len(s) : s[k] \in S
  BY LenProperties, ElementOfSeq
<1>2. t \in [1..(Len(s) + 1) -> S]
  BY <1>1 DEF Splice
<1>3. t \in Seq(S)
  BY <1>1, <1>2, SeqDef
<1>4. 1..Len(t) = 1..(Len(s) + 1) /\ Len(t) \in Nat
  BY <1>2, <1>3, LenProperties
<1>5. Len(t) = Len(s) + 1
  BY <1>1, <1>4
<1> QED
  BY <1>3, <1>5 DEF Splice

(***************************************************************************)
(* splice(p - 1, 1) yields a list one shorter, without the timer at p.     *)
(***************************************************************************)
LEMMA UnspliceFacts ==
  ASSUME NEW S, NEW s \in Seq(S), NEW p \in 1..Len(s)
  PROVE  /\ Unsplice(s, p) \in Seq(S)
         /\ Len(Unsplice(s, p)) = Len(s) - 1
         /\ \A k \in 1..(Len(s) - 1) :
              Unsplice(s, p)[k] = IF k < p THEN s[k] ELSE s[k + 1]
<1> DEFINE t == Unsplice(s, p)
<1>1. Len(s) \in Nat /\ Len(s) >= 1 /\ \A k \in 1..Len(s) : s[k] \in S
  BY LenProperties, ElementOfSeq
<1>2. t \in [1..(Len(s) - 1) -> S]
  BY <1>1 DEF Unsplice
<1>3. t \in Seq(S)
  BY <1>1, <1>2, SeqDef
<1>4. 1..Len(t) = 1..(Len(s) - 1) /\ Len(t) \in Nat
  BY <1>2, <1>3, LenProperties
<1>5. Len(t) = Len(s) - 1
  BY <1>1, <1>4
<1> QED
  BY <1>3, <1>5 DEF Unsplice

(***************************************************************************)
(* What insertTimer's loop finds in a list of timers: every timer before   *)
(* the position is due no sooner than the new one if the list is sorted,   *)
(* and every timer from the position on is due sooner.                     *)
(***************************************************************************)
LEMMA InsertPositionFacts ==
  ASSUME NEW S, \A r \in S : r.target \in Int,
         NEW s \in Seq(S), NEW x \in S
  PROVE  LET p == InsertPosition(s, x)
         IN  /\ p \in 1..(Len(s) + 1)
             /\ p > 1 => x.target <= s[p - 1].target
             /\ \A k \in p..Len(s) : s[k].target < x.target
<1> DEFINE T == NotEarlier(s, x)
           p == InsertPosition(s, x)
<1>1. Len(s) \in Nat /\ \A k \in 1..Len(s) : s[k].target \in Int
  BY LenProperties, ElementOfSeq
<1>2. x.target \in Int
  OBVIOUS
<1>3. CASE T = {}
  BY <1>1, <1>2, <1>3 DEF InsertPosition, NotEarlier
<1>4. CASE T # {}
  <2>1. T \subseteq 1..Len(s)
    BY DEF NotEarlier
  <2>2. \E i \in T : \A j \in T : j <= i
    BY <1>1, <1>4, <2>1, GreatestIndex
  <2> DEFINE i == CHOOSE k \in T : \A j \in T : j <= k
  <2>3. i \in T /\ \A j \in T : j <= i
    BY <2>2
  <2>4. p = 1 + i
    BY <1>4 DEF InsertPosition
  <2> HIDE DEF i, p
  <2>5. i \in 1..Len(s) /\ x.target <= s[i].target
    BY <2>3 DEF NotEarlier
  <2>6. \A k \in p..Len(s) : s[k].target < x.target
    BY <1>1, <1>2, <2>3, <2>4, <2>5 DEF NotEarlier
  <2> QED
    BY <1>1, <2>4, <2>5, <2>6 DEF p
<1> QED
  BY <1>3, <1>4

(***************************************************************************)
(* The timers of a list, without their order.                              *)
(***************************************************************************)
TimersIn(timers) == {timers[i] : i \in 1..Len(timers)}

LEMMA IdsOfTimers ==
  ASSUME NEW s
  PROVE  TimerIds(s) = {r.id : r \in TimersIn(s)}
BY DEF TimerIds, TimersIn

(***************************************************************************)
(* insertTimer adds one timer to the list, and loses none.                 *)
(***************************************************************************)
LEMMA InsertTimerFacts ==
  ASSUME NEW S, \A r \in S : r.target \in Int,
         NEW s \in Seq(S), NEW x \in S
  PROVE  /\ InsertTimer(s, x) \in Seq(S)
         /\ TimersIn(InsertTimer(s, x)) = TimersIn(s) \cup {x}
         /\ TimerIds(InsertTimer(s, x)) = TimerIds(s) \cup {x.id}
<1> DEFINE p == InsertPosition(s, x)
           t == InsertTimer(s, x)
<1>1. p \in 1..(Len(s) + 1)
  BY InsertPositionFacts
<1>2. Len(s) \in Nat
  BY LenProperties
<1>3. t = Splice(s, p, x)
  BY DEF InsertTimer
<1> HIDE DEF p, t
<1>4. /\ t \in Seq(S)
      /\ Len(t) = Len(s) + 1
      /\ \A k \in 1..(Len(s) + 1) :
           t[k] = IF k < p THEN s[k] ELSE IF k = p THEN x ELSE s[k - 1]
  <2>1. Splice(s, p, x) \in Seq(S) /\ Len(Splice(s, p, x)) = Len(s) + 1
    BY <1>1, SpliceFacts
  <2>2. \A k \in 1..(Len(s) + 1) :
          Splice(s, p, x)[k] =
            IF k < p THEN s[k] ELSE IF k = p THEN x ELSE s[k - 1]
    BY <1>1, SpliceFacts
  <2> QED
    BY <1>3, <2>1, <2>2
<1>5. ASSUME NEW k \in 1..Len(t) PROVE t[k] \in TimersIn(s) \cup {x}
  <2>1. CASE k < p
    BY <1>1, <1>2, <1>4, <2>1 DEF TimersIn
  <2>2. CASE k = p
    BY <1>1, <1>2, <1>4, <2>2
  <2>3. CASE p < k
    <3>1. k - 1 \in 1..Len(s) /\ t[k] = s[k - 1]
      BY <1>1, <1>2, <1>4, <2>3
    <3> QED
      BY <3>1 DEF TimersIn
  <2> QED
    BY <1>1, <1>2, <1>4, <2>1, <2>2, <2>3
<1>6. ASSUME NEW i \in 1..Len(s) PROVE s[i] \in TimersIn(t)
  <2>1. CASE i < p
    BY <1>1, <1>2, <1>4, <2>1 DEF TimersIn
  <2>2. CASE i >= p
    <3>1. i + 1 \in 1..Len(t) /\ t[i + 1] = s[i]
      BY <1>1, <1>2, <1>4, <2>2
    <3> QED
      BY <3>1 DEF TimersIn
  <2> QED
    BY <1>1, <1>2, <2>1, <2>2
<1>7. x \in TimersIn(t)
  BY <1>1, <1>2, <1>4 DEF TimersIn
<1>8. TimersIn(t) = TimersIn(s) \cup {x}
  BY <1>5, <1>6, <1>7 DEF TimersIn
<1>9. TimerIds(t) = TimerIds(s) \cup {x.id}
  BY <1>8, IdsOfTimers
<1> QED
  BY <1>4, <1>8, <1>9 DEF t

(***************************************************************************)
(* insertTimer keeps a sorted list sorted.                                 *)
(***************************************************************************)
LEMMA InsertTimerSorted ==
  ASSUME NEW S, \A r \in S : r.target \in Int,
         NEW s \in Seq(S), NEW x \in S,
         Sorted(s)
  PROVE  Sorted(InsertTimer(s, x))
<1> DEFINE p == InsertPosition(s, x)
           t == InsertTimer(s, x)
<1>1. /\ p \in 1..(Len(s) + 1)
      /\ p > 1 => x.target <= s[p - 1].target
      /\ \A k \in p..Len(s) : s[k].target < x.target
  BY InsertPositionFacts
<1>2. Len(s) \in Nat /\ \A k \in 1..Len(s) : s[k].target \in Int
  BY LenProperties, ElementOfSeq
<1>3. x.target \in Int /\ t = Splice(s, p, x)
  BY DEF InsertTimer
<1> HIDE DEF p, t
<1>4. /\ Len(t) = Len(s) + 1
      /\ \A k \in 1..(Len(s) + 1) :
           t[k] = IF k < p THEN s[k] ELSE IF k = p THEN x ELSE s[k - 1]
  <2>1. Len(Splice(s, p, x)) = Len(s) + 1
    BY <1>1, SpliceFacts
  <2>2. \A k \in 1..(Len(s) + 1) :
          Splice(s, p, x)[k] =
            IF k < p THEN s[k] ELSE IF k = p THEN x ELSE s[k - 1]
    BY <1>1, SpliceFacts
  <2> QED
    BY <1>3, <2>1, <2>2
<1>5. \A i \in 1..Len(s) : i < p => s[i].target >= x.target
  <2> SUFFICES ASSUME NEW i \in 1..Len(s), i < p
               PROVE  s[i].target >= x.target
    OBVIOUS
  <2>1. s[i].target >= s[p - 1].target
    BY <1>1, <1>2 DEF Sorted
  <2> QED
    BY <1>1, <1>2, <1>3, <2>1
<1>6. ASSUME NEW i \in 1..Len(t), NEW j \in 1..Len(t), i < j
      PROVE  t[i].target >= t[j].target
  <2>1. CASE j < p
    <3>1. t[i] = s[i] /\ t[j] = s[j] /\ i \in 1..Len(s) /\ j \in 1..Len(s)
      BY <1>1, <1>2, <1>4, <1>6, <2>1
    <3> QED
      BY <1>6, <3>1 DEF Sorted
  <2>2. CASE j = p
    <3>1. t[i] = s[i] /\ t[j] = x /\ i \in 1..Len(s) /\ i < p
      BY <1>1, <1>2, <1>4, <1>6, <2>2
    <3> QED
      BY <1>5, <3>1
  <2>3. CASE p < j /\ i < p
    <3>1. t[i] = s[i] /\ t[j] = s[j - 1] /\ i \in 1..Len(s) /\ j - 1 \in p..Len(s)
      BY <1>1, <1>2, <1>4, <2>3
    <3> QED
      BY <1>1, <1>2, <1>3, <1>5, <2>3, <3>1
  <2>4. CASE i = p
    <3>1. t[i] = x /\ t[j] = s[j - 1] /\ j - 1 \in p..Len(s) /\ j - 1 \in 1..Len(s)
      BY <1>1, <1>2, <1>4, <1>6, <2>4
    <3> QED
      BY <1>1, <1>2, <1>3, <3>1
  <2>5. CASE p < i
    <3>1. /\ t[i] = s[i - 1] /\ t[j] = s[j - 1]
          /\ i - 1 \in 1..Len(s) /\ j - 1 \in 1..Len(s) /\ i - 1 < j - 1
      BY <1>1, <1>2, <1>4, <1>6, <2>5
    <3> QED
      BY <3>1 DEF Sorted
  <2> QED
    BY <1>1, <1>2, <2>1, <2>2, <2>3, <2>4, <2>5
<1> QED
  BY <1>6 DEF Sorted, t

(***************************************************************************)
(* Removing the element at an index from a sorted list of timers with      *)
(* distinct ids leaves a sorted list without the id that was there.        *)
(***************************************************************************)
LEMMA UnspliceKeeps ==
  ASSUME NEW S, \A r \in S : r.target \in Int,
         NEW s \in Seq(S), NEW p \in 1..Len(s),
         Sorted(s), DistinctIds(s)
  PROVE  /\ Unsplice(s, p) \in Seq(S)
         /\ Sorted(Unsplice(s, p))
         /\ DistinctIds(Unsplice(s, p))
         /\ TimersIn(Unsplice(s, p)) = TimersIn(s) \ {s[p]}
         /\ TimerIds(Unsplice(s, p)) = TimerIds(s) \ {s[p].id}
<1> DEFINE t == Unsplice(s, p)
           Old(k) == IF k < p THEN k ELSE k + 1
<1>1. Len(s) \in Nat /\ \A k \in 1..Len(s) : s[k].target \in Int
  BY LenProperties, ElementOfSeq
<1>2. t \in Seq(S) /\ Len(t) = Len(s) - 1
  BY UnspliceFacts
<1>3. \A k \in 1..(Len(s) - 1) : t[k] = IF k < p THEN s[k] ELSE s[k + 1]
  BY UnspliceFacts
<1> HIDE DEF t
<1>4. \A k \in 1..Len(t) : Old(k) \in 1..Len(s) /\ Old(k) # p /\ t[k] = s[Old(k)]
  BY <1>1, <1>2, <1>3
<1>5. \A i, j \in 1..Len(t) : (i < j => Old(i) < Old(j)) /\ (Old(i) = Old(j) => i = j)
  BY <1>1, <1>2
<1>6. \A i \in 1..Len(s) : i # p => \E k \in 1..Len(t) : Old(k) = i
  <2> SUFFICES ASSUME NEW i \in 1..Len(s), i # p
               PROVE  \E k \in 1..Len(t) : Old(k) = i
    OBVIOUS
  <2>1. CASE i < p
    <3>1. i \in 1..Len(t) /\ Old(i) = i
      BY <1>1, <1>2, <2>1
    <3> QED
      BY <3>1
  <2>2. CASE p < i
    <3>1. i - 1 \in 1..Len(t) /\ Old(i - 1) = i
      BY <1>1, <1>2, <2>2
    <3> QED
      BY <3>1
  <2> QED
    BY <1>1, <2>1, <2>2
<1> HIDE DEF Old
<1>7. Sorted(t)
  BY <1>4, <1>5 DEF Sorted
<1>8. DistinctIds(t)
  BY <1>4, <1>5 DEF DistinctIds
<1>9. TimersIn(t) = TimersIn(s) \ {s[p]}
  <2>1. ASSUME NEW k \in 1..Len(t) PROVE t[k] \in TimersIn(s) \ {s[p]}
    BY <1>4 DEF TimersIn, DistinctIds
  <2>2. ASSUME NEW i \in 1..Len(s), s[i] # s[p] PROVE s[i] \in TimersIn(t)
    BY <1>4, <1>6, <2>2 DEF TimersIn
  <2> QED
    BY <2>1, <2>2 DEF TimersIn
<1>10. TimerIds(t) = TimerIds(s) \ {s[p].id}
  <2>1. \A r \in TimersIn(s) : r.id = s[p].id => r = s[p]
    BY DEF TimersIn, DistinctIds
  <2> QED
    BY <1>9, <2>1, IdsOfTimers
<1> QED
  BY <1>2, <1>7, <1>8, <1>9, <1>10 DEF t

(***************************************************************************)
(* insertTimer keeps ids distinct when the timer brings a new one.         *)
(***************************************************************************)
LEMMA InsertTimerDistinct ==
  ASSUME NEW S, \A r \in S : r.target \in Int,
         NEW s \in Seq(S), NEW x \in S,
         DistinctIds(s), x.id \notin TimerIds(s)
  PROVE  DistinctIds(InsertTimer(s, x))
<1> DEFINE p == InsertPosition(s, x)
           t == InsertTimer(s, x)
           Old(k) == IF k < p THEN k ELSE k - 1
<1>1. p \in 1..(Len(s) + 1)
  BY InsertPositionFacts
<1>2. Len(s) \in Nat
  BY LenProperties
<1>3. t = Splice(s, p, x)
  BY DEF InsertTimer
<1> HIDE DEF p
<1>4. Len(t) = Len(s) + 1
  BY <1>1, <1>3, SpliceFacts
<1>5. \A k \in 1..(Len(s) + 1) :
        Splice(s, p, x)[k] = IF k < p THEN s[k] ELSE IF k = p THEN x ELSE s[k - 1]
  BY <1>1, SpliceFacts
<1>6. t[p] = x
  BY <1>1, <1>3, <1>5, <1>2
<1> HIDE DEF t
<1>7. \A k \in 1..Len(t) : k # p => Old(k) \in 1..Len(s) /\ t[k] = s[Old(k)]
  BY <1>1, <1>2, <1>3, <1>4, <1>5
<1>8. \A i, j \in 1..Len(t) : i # p /\ j # p /\ Old(i) = Old(j) => i = j
  BY <1>1, <1>2, <1>4
<1> HIDE DEF Old
<1>9. \A k \in 1..Len(t) : k # p => t[k].id # x.id
  BY <1>7 DEF TimerIds
<1>10. ASSUME NEW i \in 1..Len(t), NEW j \in 1..Len(t), t[i].id = t[j].id
       PROVE  i = j
  <2>1. CASE i # p /\ j # p
    BY <1>7, <1>8, <1>10, <2>1 DEF DistinctIds
  <2>2. CASE i = p \/ j = p
    BY <1>6, <1>9, <1>10, <2>2
  <2> QED
    BY <2>1, <2>2
<1> QED
  BY <1>10 DEF DistinctIds, t

(***************************************************************************)
(* removeTimerById removes the timer it is asked to remove, and no other.  *)
(***************************************************************************)
LEMMA RemoveTimerKeeps ==
  ASSUME NEW S, \A r \in S : r.target \in Int,
         NEW s \in Seq(S), NEW id,
         Sorted(s), DistinctIds(s)
  PROVE  /\ RemoveTimer(s, id) \in Seq(S)
         /\ Sorted(RemoveTimer(s, id))
         /\ DistinctIds(RemoveTimer(s, id))
         /\ TimersIn(RemoveTimer(s, id)) = {r \in TimersIn(s) : r.id # id}
         /\ TimerIds(RemoveTimer(s, id)) = TimerIds(s) \ {id}
<1>1. CASE WithId(s, id) = {}
  <2>1. RemoveTimer(s, id) = s
    BY <1>1 DEF RemoveTimer
  <2>2. \A r \in TimersIn(s) : r.id # id
    BY <1>1 DEF WithId, TimersIn
  <2> QED
    BY <2>1, <2>2, IdsOfTimers
<1>2. CASE WithId(s, id) # {}
  <2> DEFINE p == CHOOSE i \in WithId(s, id) : \A j \in WithId(s, id) : i <= j
  <2>1. Len(s) \in Nat
    BY LenProperties
  <2>2. WithId(s, id) \subseteq Nat
    BY <2>1 DEF WithId
  <2>3. \E i \in WithId(s, id) : \A j \in WithId(s, id) : i <= j
    BY <1>2, <2>2, LeastNatural
  <2>4. p \in WithId(s, id)
    BY <2>3
  <2>5. RemoveTimer(s, id) = Unsplice(s, p)
    BY <1>2 DEF RemoveTimer
  <2> HIDE DEF p
  <2>6. p \in 1..Len(s) /\ s[p].id = id
    BY <2>4 DEF WithId
  <2>7. \A r \in TimersIn(s) : r.id = id <=> r = s[p]
    BY <2>6 DEF TimersIn, DistinctIds
  <2>8. TimersIn(s) \ {s[p]} = {r \in TimersIn(s) : r.id # id}
    BY <2>7
  <2> QED
    BY <2>5, <2>6, <2>8, UnspliceKeeps
<1> QED
  BY <1>1, <1>2

(***************************************************************************)
(* What the list operations do to the length of the list: the timers of    *)
(* the C loop have a number of slots.                                      *)
(***************************************************************************)
LEMMA InsertTimerLength ==
  ASSUME NEW S, \A r \in S : r.target \in Int,
         NEW s \in Seq(S), NEW x \in S
  PROVE  Len(InsertTimer(s, x)) = Len(s) + 1
<1>1. InsertPosition(s, x) \in 1..(Len(s) + 1)
  BY InsertPositionFacts
<1> QED
  BY <1>1, SpliceFacts DEF InsertTimer

LEMMA PopTimerLength ==
  ASSUME NEW S, NEW s \in Seq(S), Len(s) > 0
  PROVE  Len(PopTimer(s)) = Len(s) - 1
<1>1. Len(s) \in 1..Len(s)
  BY LenProperties
<1> QED
  BY <1>1, UnspliceFacts DEF PopTimer

LEMMA RemoveTimerLength ==
  ASSUME NEW S, NEW s \in Seq(S), NEW id
  PROVE  Len(RemoveTimer(s, id)) <= Len(s)
<1> DEFINE T == WithId(s, id)
           p == CHOOSE i \in T : \A j \in T : i <= j
<1>1. Len(s) \in Nat /\ T \subseteq 1..Len(s)
  BY LenProperties DEF WithId
<1>2. CASE T = {}
  BY <1>1, <1>2 DEF RemoveTimer
<1>3. CASE T # {}
  <2>1. T \subseteq Nat
    BY <1>1
  <2> HIDE DEF T
  <2>2. \E i \in T : \A j \in T : i <= j
    BY <1>3, <2>1, LeastNatural
  <2>3. p \in T
    BY <2>2
  <2>4. RemoveTimer(s, id) = Unsplice(s, p)
    BY <1>3 DEF RemoveTimer, T
  <2> HIDE DEF p
  <2>5. Len(Unsplice(s, p)) = Len(s) - 1
    BY <1>1, <2>3, UnspliceFacts
  <2> QED
    BY <1>1, <2>4, <2>5
<1> QED
  BY <1>2, <1>3
==============================================================================
