----------------------------- MODULE ScreensProofs -----------------------------
(* Proofs about Screens for any number of requests, rows, codes and forms, *)
(* and for any events, instants, zone and first day of the week.  What the *)
(* greedy packing computes is proved by induction on the events placed.    *)
EXTENDS Screens, EventFormProofs, DashboardProofs, FiniteSetTheorems

-----------------------------------------------------------------------------
(* The calendar. *)

Within ==
  /\ planned \in [Item -> Instant]
  /\ today \in FirstDay..(FirstDay + MaxDays)
  /\ weekOffset \in (-MaxWeeks)..MaxWeeks

Drawn == mounted \in BOOLEAN

LEMMA CalendarTyped == CalendarTypeOK <=> Within /\ Drawn
  BY DEF CalendarTypeOK, Within, Drawn

LEMMA CalendarStarts == CalendarInit => CalendarTypeOK
<1>1. FirstDay \in FirstDay..(FirstDay + MaxDays) /\ 0 \in (-MaxWeeks)..MaxWeeks
  BY WeekAssumption
<1>2. CalendarInit => Within
  BY <1>1 DEF CalendarInit, Within
<1>3. CalendarInit => Drawn
  BY DEF CalendarInit, Drawn
<1> QED BY <1>2, <1>3, CalendarTyped

LEMMA WithinKeeps ==
  ASSUME Within, [CalendarNext]_calendarVars
  PROVE  Within'
<1>1. CASE Mount \/ UNCHANGED calendarVars
  BY <1>1 DEF Within, Mount, calendarVars
<1>2. ASSUME NEW offset, Go(offset) PROVE Within'
  BY <1>2 DEF Within, Go
<1>3. CASE RenderLater
  <2>1. today' = today + 1 /\ today < FirstDay + MaxDays
        /\ planned' = planned /\ weekOffset' = weekOffset
    BY <1>3 DEF RenderLater
  <2> QED BY <2>1, WeekAssumption DEF Within
<1> QED BY <1>1, <1>2, <1>3 DEF CalendarNext, Previous, NextWeek, Today

LEMMA CalendarNextKeeps ==
  ASSUME CalendarTypeOK, [CalendarNext]_calendarVars
  PROVE  CalendarTypeOK'
<1>1. Within /\ Drawn
  BY CalendarTyped
<1>2. Drawn'
  BY <1>1, Zenon DEF Drawn, CalendarNext, calendarVars, Mount, Previous, NextWeek,
     Today, Go, RenderLater
<1> QED BY <1>1, <1>2, WithinKeeps DEF CalendarTypeOK, Within, Drawn

(* The first day of a week is at most six days before any of its days.     *)
LEMMA WeekOf ==
  ASSUME NEW day \in Int
  PROVE  /\ StartOfWeek(day) \in Int /\ StartOfWeek(day) % 7 = WeekStart
         /\ StartOfWeek(day) <= day /\ day <= StartOfWeek(day) + 6
<1>1. WeekStart \in 0..6
  BY WeekAssumption
<1> DEFINE back == ((day % 7) - WeekStart + 7) % 7
<1>2. day % 7 \in 0..6 /\ back \in 0..6
  BY <1>1
<1>3. (day - back) % 7 = WeekStart
  BY <1>1, <1>2, SMTT(60)
<1> QED BY <1>2, <1>3 DEF StartOfWeek, Dow

-----------------------------------------------------------------------------
(* The packing of a column into lanes. *)

(* Every set of numbers that is not empty has a least member.              *)
LEMMA Least ==
  ASSUME NEW S \in SUBSET Nat, S # {}
  PROVE  \E m \in S : \A n \in S : m <= n
<1> DEFINE Less == {r \in Nat \X Nat : r[1] < r[2]}
<1>1. PICK m \in S : \A n \in S : ~(<<n, m>> \in Less)
  <2>1. IsWellFoundedOn(Less, Nat)
    BY NatLessThanWellFounded, Zenon DEF OpToRel
  <2> HIDE DEF Less
  <2> QED BY <2>1, WFMin
<1>2. ASSUME NEW n \in S PROVE m <= n
  <2>1. n \in Nat /\ m \in Nat /\ ~(<<n, m>> \in Less)
    BY <1>1
  <2> QED BY <2>1
<1> QED BY <1>2

LEMMA LeastOne ==
  ASSUME NEW S \in SUBSET Nat, S # {}
  PROVE  Min(S) \in S
<1>1. \E m \in S : \A n \in S : m <= n
  BY Least
<1> QED BY <1>1 DEF Min

(* Induction up to a bound, for a set: the least number outside it would   *)
(* follow one that is in it.                                               *)
LEMMA UpTo ==
  ASSUME NEW N \in Nat, NEW S, 0 \in S,
         \A n \in 0..N : n < N /\ n \in S => n + 1 \in S
  PROVE  0..N \subseteq S
<1> DEFINE Out == (0..N) \ S
<1> SUFFICES ASSUME Out # {} PROVE FALSE
  OBVIOUS
<1>1. PICK m \in Out : \A n \in Out : m <= n
  <2>1. Out \in SUBSET Nat
    OBVIOUS
  <2> HIDE DEF Out
  <2> QED BY <2>1, Least
<1>2. m \in 1..N /\ m - 1 \in 0..N /\ m - 1 < N /\ ~(m <= m - 1)
  OBVIOUS
<1>3. m - 1 \in S
  BY <1>1, <1>2
<1> QED BY <1>2, <1>3

LEMMA TopTyped ==
  ASSUME Within, NEW e \in Item
  PROVE  Top(e) \in Int
<1>1. planned[e] \in Int /\ Zone \in Int
  BY WeekAssumption DEF Within
<1>2. SinceStart(e) \in Int
  BY <1>1 DEF SinceStart, Minute, GridStart
<1> QED BY <1>2 DEF Top, MaxTop, GridStart, GridEnd, EventHeight

(* A finite set of events has a sorted enumeration: the place of an event  *)
(* in it is one more than the number of those that come first.             *)
LEMMA Sortable ==
  ASSUME Within, NEW these \in SUBSET Item
  PROVE  /\ Cardinality(these) \in Nat
         /\ \E c \in [1..Cardinality(these) -> these] :
              \A i, j \in 1..Cardinality(these) : i < j => ComesFirst(c[i], c[j])
<1> DEFINE size == Cardinality(these)
           Above(e) == {d \in these : ComesFirst(d, e)}
           place == [e \in these |-> Cardinality(Above(e)) + 1]
<1>1. IsFiniteSet(these) /\ size \in Nat
  BY WeekAssumption, FS_Subset, FS_CardinalityType
<1>2. \A e \in these : e \in Nat /\ Top(e) \in Int
  BY TopTyped, WeekAssumption
<1>3. ASSUME NEW d \in these, NEW e \in these, d # e
      PROVE  ComesFirst(d, e) \/ ComesFirst(e, d)
  BY <1>2, <1>3 DEF ComesFirst
<1>4. ASSUME NEW d \in these, NEW e \in these, ComesFirst(d, e)
      PROVE  Above(d) \subseteq Above(e) /\ d \in Above(e) /\ d \notin Above(d)
  BY <1>2, <1>4 DEF ComesFirst
<1>5. \A e \in these : IsFiniteSet(Above(e)) /\ Cardinality(Above(e)) \in Nat
  BY <1>1, FS_Subset, FS_CardinalityType
<1>6. ASSUME NEW d \in these, NEW e \in these, ComesFirst(d, e)
      PROVE  place[d] < place[e]
  <2>1. /\ Cardinality(Above(d)) <= Cardinality(Above(e))
        /\ Cardinality(Above(d)) # Cardinality(Above(e))
    <3>1. Above(d) \in SUBSET Above(e) /\ Above(d) # Above(e)
      BY <1>4, <1>6
    <3> HIDE DEF Above
    <3> QED BY <1>5, <3>1, FS_Subset
  <2>2. Cardinality(Above(d)) \in Nat /\ Cardinality(Above(e)) \in Nat
    BY <1>5
  <2> HIDE DEF Above
  <2> QED BY <2>1, <2>2
<1>7. ASSUME NEW e \in these PROVE place[e] \in 1..size
  <2>1. Above(e) \in SUBSET these /\ Above(e) # these
    BY <1>2 DEF ComesFirst
  <2>2. Cardinality(Above(e)) <= size /\ Cardinality(Above(e)) # size
    <3> HIDE DEF Above
    <3> QED BY <1>1, <2>1, FS_Subset
  <2> QED BY <1>1, <1>5, <2>2
<1> HIDE DEF Above
<1>8. place \in Injection(these, 1..size)
  <2>1. \A d, e \in these : d # e => place[d] # place[e]
    <3> HIDE DEF place
    <3> QED BY <1>3, <1>6, <1>7
  <2>2. place \in [these -> 1..size]
    BY <1>7
  <2> HIDE DEF place
  <2> QED BY <2>1, <2>2 DEF Injection, IsInjective
<1> HIDE DEF place
<1>9. place \in Surjection(these, 1..size)
  <2>1. IsFiniteSet(1..size) /\ Cardinality(1..size) = size
    BY <1>1, FS_Interval
  <2> QED BY <1>8, <2>1, FS_Injection
<1> DEFINE c == [i \in 1..size |-> CHOOSE e \in these : place[e] = i]
<1>10. \A i \in 1..size : c[i] \in these /\ place[c[i]] = i
  <2>1. \A i \in 1..size : \E e \in these : place[e] = i
    BY <1>9 DEF Surjection
  <2> QED BY <2>1
<1>11. ASSUME NEW i \in 1..size, NEW j \in 1..size, i < j
       PROVE  ComesFirst(c[i], c[j])
  <2> HIDE DEF c
  <2>1. place[c[i]] = i /\ place[c[j]] = j /\ c[i] \in these /\ c[j] \in these
    BY <1>10
  <2>2. c[i] # c[j]
    BY <1>11, <2>1
  <2>3. ~ComesFirst(c[j], c[i])
    BY <1>6, <1>11, <2>1
  <2> QED BY <1>3, <2>1, <2>2, <2>3
<1>12. c \in [1..size -> these]
  BY <1>10
<1> HIDE DEF c
<1> QED BY <1>1, <1>11, <1>12

(* A column is a sequence of events, later ones no higher up.              *)
Sorted(c) ==
  /\ c \in Seq(Item)
  /\ \A i, j \in 1..Len(c) : i <= j => Top(c[i]) <= Top(c[j])

LEMMA ColumnSorted ==
  ASSUME Within, NEW day
  PROVE  Sorted(Column(day))
<1> DEFINE these == {e \in Item : LocalDay(e) = day}
           size == Cardinality(these)
           c == Column(day)
<1>1. /\ c \in [1..size -> these] /\ size \in Nat
      /\ \A i, j \in 1..size : i < j => ComesFirst(c[i], c[j])
  <2>1. these \in SUBSET Item
    OBVIOUS
  <2>2. c = CHOOSE d \in [1..size -> these] :
              \A i, j \in 1..size : i < j => ComesFirst(d[i], d[j])
    BY DEF Column
  <2> HIDE DEF these, c
  <2>3. /\ size \in Nat
        /\ \E d \in [1..size -> these] :
             \A i, j \in 1..size : i < j => ComesFirst(d[i], d[j])
    BY <2>1, Sortable
  <2> HIDE DEF size
  <2> QED BY <2>2, <2>3, Zenon
<1>2. \A i \in 1..size : c[i] \in Item /\ Top(c[i]) \in Int
  <2> HIDE DEF c, size
  <2> QED BY <1>1, TopTyped
<1>3. c \in Seq(Item) /\ Len(c) = size
  <2>1. c \in [1..size -> Item]
    BY <1>1
  <2> HIDE DEF c, size
  <2> QED BY <1>1, <2>1
<1>4. ASSUME NEW i \in 1..size, NEW j \in 1..size, i <= j
      PROVE  Top(c[i]) <= Top(c[j])
  <2> HIDE DEF c, size
  <2>1. CASE i = j
    BY <1>2, <2>1
  <2>2. CASE i < j
    BY <1>1, <1>2, <2>2 DEF ComesFirst
  <2> QED BY <1>1, <1>4, <2>1, <2>2
<1> QED BY <1>3, <1>4 DEF Sorted

(* The tops of a column, and what the packing of its first n events keeps  *)
(* true: (1) a lane ends no earlier than any event in it, (2) and where    *)
(* one of them does; (3) events of one lane do not overlap; (4) some event *)
(* is on screen together with one of every lane.                           *)
Sinking(N, t) ==
  t \in [1..N -> Int] /\ \A i, j \in 1..N : i <= j => t[i] <= t[j]

Fit(t, n, k, ends, lanes) ==
  /\ ends \in [1..k -> Int] /\ lanes \in [1..n -> 1..k]
  /\ \A i \in 1..n : t[i] + EventHeight <= ends[lanes[i]]
  /\ \A l \in 1..k : \E i \in 1..n : lanes[i] = l /\ ends[l] = t[i] + EventHeight
  /\ \A i, j \in 1..n :
       i < j /\ lanes[i] = lanes[j] => t[i] + EventHeight <= t[j]
  /\ n > 0 => \E i \in 1..n : \A l \in 1..k : \E j \in 1..n :
       lanes[j] = l /\ t[j] <= t[i] /\ t[i] < t[j] + EventHeight

LEMMA NothingFits ==
  ASSUME NEW t
  PROVE  Fit(t, 0, 0, <<>>, <<>>)
<1>1. <<>> \in [1..0 -> Int] /\ <<>> \in [1..0 -> 1..0]
  OBVIOUS
<1> QED BY <1>1 DEF Fit

(* One event more in some lane, one that has ended or a new one.           *)
OneMore(t, n, k, ends, lanes, m, lane, ends2, lanes2) ==
  /\ lane \in 1..m
  /\ \/ m = k /\ ends[lane] <= t[n + 1]
     \/ m = k + 1 /\ lane = m /\ \A l \in 1..k : ends[l] > t[n + 1]
  /\ ends2 \in [1..m -> Int] /\ lanes2 \in [1..(n + 1) -> 1..m]
  /\ ends2[lane] = t[n + 1] + EventHeight /\ lanes2[n + 1] = lane
  /\ \A l \in 1..k : l # lane => ends2[l] = ends[l]
  /\ \A i \in 1..n : lanes2[i] = lanes[i]

LEMMA OneMoreFits ==
  ASSUME NEW N \in Nat, NEW t, Sinking(N, t), NEW n \in Nat, n < N,
         NEW k \in Nat, NEW ends, NEW lanes, Fit(t, n, k, ends, lanes),
         NEW m \in Nat, NEW lane, NEW ends2, NEW lanes2,
         OneMore(t, n, k, ends, lanes, m, lane, ends2, lanes2)
  PROVE  Fit(t, n + 1, m, ends2, lanes2)
<1> USE DEF OneMore
<1> DEFINE H == EventHeight
<1>1. H \in Int /\ H > 0
  BY DEF EventHeight
<1> HIDE DEF H
<1>2. ASSUME NEW i \in 1..(n + 1)
      PROVE  t[i] \in Int /\ t[i] <= t[n + 1]
  <2>1. i \in 1..N /\ n + 1 \in 1..N /\ i <= n + 1
    OBVIOUS
  <2> QED BY <2>1 DEF Sinking
<1>3. /\ \A i \in 1..n : lanes[i] \in 1..k /\ ends[lanes[i]] \in Int
                          /\ t[i] + H <= ends[lanes[i]]
      /\ \A l \in 1..k : ends[l] \in Int
      /\ \A l \in 1..k : \E i \in 1..n : lanes[i] = l /\ ends[l] = t[i] + H
      /\ \A i, j \in 1..n : i < j /\ lanes[i] = lanes[j] => t[i] + H <= t[j]
  BY DEF Fit, H
<1>4. ASSUME NEW i \in 1..(n + 1)
      PROVE  t[i] + H <= ends2[lanes2[i]]
  <2>1. CASE lanes2[i] = lane
    <3>1. ends2[lane] = t[n + 1] + H
      BY DEF H
    <3>2. t[i] \in Int /\ t[n + 1] \in Int /\ t[i] <= t[n + 1]
      BY <1>2
    <3>3. \A p, q, r \in Int : p <= q => p + r <= q + r
      OBVIOUS
    <3> QED BY <1>1, <2>1, <3>1, <3>2, <3>3
  <2>2. CASE lanes2[i] # lane
    <3>1. i # n + 1
      BY <2>2
    <3>2. i \in 1..n
      BY <3>1
    <3> QED BY <1>3, <2>2, <3>2
  <2> QED BY <2>1, <2>2
<1>5. ASSUME NEW l \in 1..m
      PROVE  \E i \in 1..(n + 1) : lanes2[i] = l /\ ends2[l] = t[i] + H
  <2>1. CASE l = lane
    BY <2>1 DEF H
  <2>2. CASE l # lane
    <3>1. l \in 1..k
      BY <2>2
    <3>2. PICK i \in 1..n : lanes[i] = l /\ ends[l] = t[i] + H
      BY <1>3, <3>1
    <3> QED BY <2>2, <3>1, <3>2
  <2> QED BY <2>1, <2>2
<1>6. ASSUME NEW i \in 1..(n + 1), NEW j \in 1..(n + 1), i < j, lanes2[i] = lanes2[j]
      PROVE  t[i] + H <= t[j]
  <2>1. i \in 1..n
    BY <1>6
  <2>2. CASE j = n + 1
    <3>1. lanes[i] = lane /\ lane \in 1..k
      BY <1>3, <1>6, <2>1, <2>2
    <3>2. m = k
      BY <3>1
    <3>3. t[i] + H <= ends[lane] /\ ends[lane] \in Int
      BY <1>3, <2>1, <3>1
    <3>4. ends[lane] <= t[n + 1]
      BY <3>2
    <3>5. t[i] \in Int /\ t[n + 1] \in Int /\ t[j] = t[n + 1]
      BY <1>2, <2>1, <2>2
    <3>6. \A p, q, r, u \in Int : p + q <= r /\ r <= u => p + q <= u
      OBVIOUS
    <3> QED BY <1>1, <3>3, <3>4, <3>5, <3>6
  <2>3. CASE j \in 1..n
    BY <1>3, <1>6, <2>1, <2>3
  <2> QED BY <2>2, <2>3
<1>7. \E i \in 1..(n + 1) : \A l \in 1..m : \E j \in 1..(n + 1) :
        lanes2[j] = l /\ t[j] <= t[i] /\ t[i] < t[j] + H
  <2>1. CASE m = k
    <3>1. n > 0
      BY <1>3, <2>1
    <3>2. PICK i \in 1..n : \A l \in 1..k : \E j \in 1..n :
            lanes[j] = l /\ t[j] <= t[i] /\ t[i] < t[j] + H
      BY <3>1 DEF Fit, H
    <3>3. ASSUME NEW l \in 1..m
          PROVE  \E j \in 1..(n + 1) :
                   lanes2[j] = l /\ t[j] <= t[i] /\ t[i] < t[j] + H
      <4>1. PICK j \in 1..n : lanes[j] = l /\ t[j] <= t[i] /\ t[i] < t[j] + H
        BY <2>1, <3>2
      <4>2. j \in 1..(n + 1) /\ lanes2[j] = l
        BY <4>1
      <4> QED BY <4>1, <4>2
    <3>4. i \in 1..(n + 1)
      OBVIOUS
    <3> QED BY <3>3, <3>4
  <2>2. CASE m = k + 1 /\ lane = m /\ \A l \in 1..k : ends[l] > t[n + 1]
    <3>1. ASSUME NEW l \in 1..m
          PROVE  \E j \in 1..(n + 1) :
                   lanes2[j] = l /\ t[j] <= t[n + 1] /\ t[n + 1] < t[j] + H
      <4>1. PICK j \in 1..(n + 1) : lanes2[j] = l /\ ends2[l] = t[j] + H
        BY <1>5
      <4>2. t[n + 1] \in Int /\ t[j] \in Int /\ t[j] <= t[n + 1]
        BY <1>2
      <4>3. t[n + 1] < ends2[l]
        <5>1. CASE l = lane
          <6>1. ends2[l] = t[n + 1] + H
            BY <5>1 DEF H
          <6>2. \A p, q \in Int : q > 0 => p < p + q
            OBVIOUS
          <6> QED BY <1>1, <4>2, <6>1, <6>2
        <5>2. CASE l \in 1..k /\ l # lane
          BY <2>2, <1>3, <4>2, <5>2
        <5> QED BY <2>2, <5>1, <5>2
      <4> QED BY <4>1, <4>2, <4>3
    <3>2. n + 1 \in 1..(n + 1)
      OBVIOUS
    <3> QED BY <3>1, <3>2
  <2> QED BY <2>1, <2>2
<1> QED BY <1>4, <1>5, <1>6, <1>7 DEF Fit, H

Tops(c) == [i \in 1..Len(c) |-> Top(c[i])]

LEMMA TopsSink ==
  ASSUME Within, NEW c, Sorted(c)
  PROVE  Len(c) \in Nat /\ Sinking(Len(c), Tops(c))
<1>1. Len(c) \in Nat /\ \A i \in 1..Len(c) : c[i] \in Item
  BY DEF Sorted
<1>2. \A i \in 1..Len(c) : Top(c[i]) \in Int
  BY <1>1, TopTyped
<1> QED BY <1>1, <1>2 DEF Sorted, Sinking, Tops

LongerBy(longer, n, s, x, T) ==
  /\ longer \in [1..(n + 1) -> T] /\ longer[n + 1] = x
  /\ \A i \in 1..n : longer[i] = s[i]

LEMMA Appended ==
  ASSUME NEW T, NEW s \in Seq(T), NEW x \in T
  PROVE  LongerBy(Append(s, x), Len(s), s, x, T)
<1> DEFINE a == Append(s, x)
<1>1. a \in Seq(T) /\ Len(a) = Len(s) + 1
  OBVIOUS
<1>2. a[Len(s) + 1] = x /\ \A i \in 1..Len(s) : a[i] = s[i]
  OBVIOUS
<1> HIDE DEF a
<1>3. a \in [1..(Len(s) + 1) -> T]
  BY <1>1
<1> QED BY <1>2, <1>3 DEF a, LongerBy

LEMMA PlaceFits ==
  ASSUME Within, NEW c, Sorted(c), NEW n \in Nat, n < Len(c),
         NEW k \in Nat, NEW packed, Fit(Tops(c), n, k, packed.ends, packed.lanes)
  PROVE  \E m \in Nat : LET next == Place(packed, c[n + 1])
                        IN Fit(Tops(c), n + 1, m, next.ends, next.lanes)
<1> DEFINE t     == Tops(c)
           ends  == packed.ends
           lanes == packed.lanes
           top   == Top(c[n + 1])
           free  == {l \in DOMAIN ends : ends[l] <= top}
           next  == Place(packed, c[n + 1])
           end   == top + EventHeight
           lane  == IF free = {} THEN Len(ends) + 1 ELSE Min(free)
<1>1. Len(c) \in Nat /\ Sinking(Len(c), t)
  BY TopsSink
<1>2. n + 1 \in 1..Len(c) /\ t[n + 1] = top
  BY <1>1 DEF Tops
<1>3. ends \in [1..k -> Int] /\ lanes \in [1..n -> 1..k] /\ top \in Int
      /\ EventHeight \in Int /\ end \in Int
  <2>1. top \in Int
    BY <1>1, <1>2 DEF Sinking
  <2>2. Fit(t, n, k, ends, lanes)
    OBVIOUS
  <2> HIDE DEF t, ends, lanes
  <2>3. ends \in [1..k -> Int] /\ lanes \in [1..n -> 1..k]
    BY <2>2 DEF Fit
  <2> QED BY <2>1, <2>3 DEF EventHeight
<1>4. /\ next.lanes = Append(lanes, lane)
      /\ next.ends = IF free = {} THEN Append(ends, end) ELSE [ends EXCEPT ![lane] = end]
  BY DEF Place
<1> HIDE DEF next, ends, lanes, top, end, t
<1>5. ends \in Seq(Int) /\ Len(ends) = k /\ DOMAIN ends = 1..k
  BY <1>3
<1>6. lanes \in Seq(1..k) /\ Len(lanes) = n
  BY <1>3
<1>7. CASE free = {}
  <2>1. lane = k + 1 /\ next.ends = Append(ends, end) /\ next.lanes = Append(lanes, k + 1)
    BY <1>4, <1>5, <1>7
  <2>2. \A l \in 1..k : ends[l] > top
    BY <1>3, <1>5, <1>7
  <2>3. /\ next.ends \in [1..(k + 1) -> Int] /\ next.ends[k + 1] = end
        /\ \A l \in 1..k : next.ends[l] = ends[l]
    <3>1. next.ends = Append(ends, end) /\ end \in Int
      BY <1>3, <2>1
    <3> HIDE DEF lane, free
    <3>2. LongerBy(next.ends, k, ends, end, Int)
      BY <1>5, <3>1, Appended
    <3> QED BY <3>2 DEF LongerBy
  <2>4. /\ next.lanes \in [1..(n + 1) -> 1..(k + 1)] /\ next.lanes[n + 1] = k + 1
        /\ \A i \in 1..n : next.lanes[i] = lanes[i]
    <3> DEFINE T == 1..(k + 1)
               x == k + 1
    <3>1. lanes \in Seq(T) /\ x \in T
      BY <1>3
    <3>2. next.lanes = Append(lanes, x)
      BY <2>1
    <3> HIDE DEF lane, free, T, x
    <3>3. LongerBy(next.lanes, n, lanes, x, T)
      BY <1>6, <3>1, <3>2, Appended
    <3> QED BY <3>3 DEF T, x, LongerBy
  <2>5. Fit(t, n + 1, k + 1, next.ends, next.lanes)
    <3>1. k + 1 \in Nat /\ k + 1 \in 1..(k + 1) /\ Fit(t, n, k, ends, lanes)
      BY DEF ends, lanes, t
    <3>2. OneMore(t, n, k, ends, lanes, k + 1, k + 1, next.ends, next.lanes)
      BY <1>2, <2>2, <2>3, <2>4, <3>1 DEF end, OneMore
    <3> QED BY <1>1, <3>1, <3>2, OneMoreFits
  <2> QED BY <2>5 DEF next, t
<1>8. CASE free # {}
  <2>1. lane = Min(free) /\ lane \in free
    <3>1. free \in SUBSET Nat
      BY <1>5
    <3> HIDE DEF free
    <3> QED BY <1>8, <3>1, LeastOne
  <2>2. lane \in 1..k /\ ends[lane] <= top
    BY <1>5, <2>1
  <2> HIDE DEF lane, free
  <2>3. /\ next.ends \in [1..k -> Int] /\ next.ends[lane] = end
        /\ \A l \in 1..k : l # lane => next.ends[l] = ends[l]
    BY <1>3, <1>4, <1>8, <2>2
  <2>4. /\ next.lanes \in [1..(n + 1) -> 1..k] /\ next.lanes[n + 1] = lane
        /\ \A i \in 1..n : next.lanes[i] = lanes[i]
    <3> DEFINE T == 1..k
    <3>1. next.lanes = Append(lanes, lane) /\ lane \in T /\ lanes \in Seq(T)
      BY <1>4, <1>6, <2>2
    <3> HIDE DEF T
    <3>2. LongerBy(next.lanes, n, lanes, lane, T)
      BY <1>6, <3>1, Appended
    <3> QED BY <3>2 DEF T, LongerBy
  <2>5. Fit(t, n + 1, k, next.ends, next.lanes)
    <3>1. Fit(t, n, k, ends, lanes)
      BY DEF ends, lanes, t
    <3>2. OneMore(t, n, k, ends, lanes, k, lane, next.ends, next.lanes)
      BY <1>2, <2>2, <2>3, <2>4 DEF end, OneMore
    <3> QED BY <1>1, <3>1, <3>2, OneMoreFits
  <2> QED BY <2>5 DEF next, t
<1> QED BY <1>7, <1>8

(* The recursive function by which a column is packed exists, and has the  *)
(* value its equation gives it.                                            *)
LEMMA PackedStepwise ==
  ASSUME NEW c, Len(c) \in Nat
  PROVE  \E after :
           /\ Packed(c) = after[Len(c)]
           /\ after[0] = [ends |-> <<>>, lanes |-> <<>>]
           /\ \A n \in 0..Len(c) : n < Len(c) => after[n + 1] = Place(after[n], c[n + 1])
<1> DEFINE N == Len(c)
           Value(f, n) == IF n = 0 THEN [ends |-> <<>>, lanes |-> <<>>]
                                  ELSE Place(f[n - 1], c[n])
           S == {m \in 0..N : \E f : f = [n \in 0..m |-> Value(f, n)]}
           after == CHOOSE f : f = [n \in 0..N |-> Value(f, n)]
<1>1. 0 \in S
  <2> DEFINE f == [n \in 0..0 |-> [ends |-> <<>>, lanes |-> <<>>]]
  <2>1. f = [n \in 0..0 |-> Value(f, n)]
    OBVIOUS
  <2> HIDE DEF f, Value
  <2>2. 0 \in 0..N
    OBVIOUS
  <2> QED BY <2>1, <2>2
<1>2. ASSUME NEW m \in 0..N, m < N, m \in S PROVE m + 1 \in S
  <2>1. PICK f : f = [n \in 0..m |-> Value(f, n)]
    BY <1>2
  <2> DEFINE g == [n \in 0..(m + 1) |-> IF n = m + 1 THEN Value(f, n) ELSE f[n]]
  <2>2. \A n \in 0..(m + 1) : g[n] = Value(g, n)
    <3>1. ASSUME NEW n \in 0..(m + 1) PROVE Value(f, n) = Value(g, n)
      <4>1. n # 0 => n - 1 \in 0..m
        BY <3>1
      <4>2. n # 0 => g[n - 1] = f[n - 1]
        BY <4>1
      <4> HIDE DEF g
      <4> QED BY <4>2
    <3>2. ASSUME NEW n \in 0..(m + 1) PROVE g[n] = Value(f, n)
      <4>1. CASE n = m + 1
        <5> HIDE DEF Value
        <5> QED BY <4>1
      <4>2. CASE n \in 0..m
        <5> HIDE DEF Value
        <5>1. f[n] = Value(f, n)
          BY <2>1, <4>2
        <5> QED BY <4>2, <5>1
      <4> QED BY <4>1, <4>2
    <3> HIDE DEF g, Value
    <3> QED BY <3>1, <3>2
  <2>3. g = [n \in 0..(m + 1) |-> Value(g, n)]
    <3> HIDE DEF Value
    <3>1. DOMAIN g = 0..(m + 1) /\ g = [n \in DOMAIN g |-> g[n]]
      OBVIOUS
    <3> HIDE DEF g
    <3> QED BY <2>2, <3>1
  <2>4. m + 1 \in 0..N
    BY <1>2
  <2> HIDE DEF g, Value
  <2> QED BY <2>3, <2>4
<1>3. N \in S
  <2> HIDE DEF S
  <2>1. 0..N \subseteq S
    BY <1>1, <1>2, UpTo
  <2> QED BY <2>1
<1>4. after = [n \in 0..N |-> Value(after, n)]
  <2> HIDE DEF Value
  <2>1. \E f : f = [n \in 0..N |-> Value(f, n)]
    BY <1>3
  <2> QED BY <2>1, Zenon
<1>5. Packed(c) = after[N]
  BY DEF Packed
<1> HIDE DEF after
<1>6. \A n \in 0..N : after[n] = Value(after, n)
  <2> HIDE DEF Value
  <2> QED BY <1>4
<1>7. after[0] = [ends |-> <<>>, lanes |-> <<>>]
  BY <1>6
<1>8. ASSUME NEW n \in 0..N, n < N PROVE after[n + 1] = Place(after[n], c[n + 1])
  <2>1. n + 1 \in 0..N /\ n + 1 # 0 /\ (n + 1) - 1 = n
    BY <1>8
  <2> QED BY <1>6, <2>1
<1> QED BY <1>5, <1>7, <1>8

LEMMA PackedFits ==
  ASSUME Within, NEW c, Sorted(c)
  PROVE  \E k \in Nat : Fit(Tops(c), Len(c), k, Packed(c).ends, Packed(c).lanes)
<1>1. Len(c) \in Nat
  BY TopsSink
<1>2. PICK after :
        /\ Packed(c) = after[Len(c)]
        /\ after[0] = [ends |-> <<>>, lanes |-> <<>>]
        /\ \A n \in 0..Len(c) : n < Len(c) => after[n + 1] = Place(after[n], c[n + 1])
  BY <1>1, PackedStepwise
<1> DEFINE S == {n \in 0..Len(c) :
                   \E k \in Nat : Fit(Tops(c), n, k, after[n].ends, after[n].lanes)}
<1>3. 0 \in S
  <2>1. after[0].ends = <<>> /\ after[0].lanes = <<>>
    BY <1>2
  <2> QED BY <1>1, <2>1, NothingFits
<1>4. ASSUME NEW n \in 0..Len(c), n < Len(c), n \in S PROVE n + 1 \in S
  <2>1. PICK k \in Nat : Fit(Tops(c), n, k, after[n].ends, after[n].lanes)
    BY <1>4
  <2>2. PICK m \in Nat : LET next == Place(after[n], c[n + 1])
                        IN Fit(Tops(c), n + 1, m, next.ends, next.lanes)
    BY <1>1, <1>4, <2>1, PlaceFits
  <2>3. Fit(Tops(c), n + 1, m, after[n + 1].ends, after[n + 1].lanes)
    BY <1>2, <1>4, <2>2
  <2>4. n + 1 \in 0..Len(c)
    BY <1>1, <1>4
  <2> QED BY <2>3, <2>4
<1>5. Len(c) \in S
  <2> HIDE DEF S
  <2>1. 0..Len(c) \subseteq S
    BY <1>1, <1>3, <1>4, UpTo
  <2> QED BY <1>1, <2>1
<1> QED BY <1>2, <1>5

(* The number of events on screen with one of them is at most the number   *)
(* of lanes, and for some event it is the number of lanes.                 *)
LEMMA NoFewerLanes ==
  ASSUME NEW N \in Nat, NEW t \in [1..N -> Int], NEW k \in Nat, NEW ends, NEW lanes,
         Fit(t, N, k, ends, lanes), NEW i \in 1..N
  PROVE  LET At == {j \in 1..N : t[j] <= t[i] /\ t[i] < t[j] + EventHeight}
         IN Cardinality(At) \in Nat /\ Cardinality(At) <= k
<1> DEFINE At == {j \in 1..N : t[j] <= t[i] /\ t[i] < t[j] + EventHeight}
<1>1. IsFiniteSet(At) /\ Cardinality(At) \in Nat
  <2>1. IsFiniteSet(1..N) /\ At \in SUBSET (1..N)
    BY FS_Interval
  <2> HIDE DEF At
  <2> QED BY <2>1, FS_Subset, FS_CardinalityType
<1>2. IsFiniteSet(1..k) /\ Cardinality(1..k) = k
  BY FS_Interval
<1>3. ASSUME NEW a \in At, NEW b \in At, a < b PROVE lanes[a] # lanes[b]
  <2>1. a \in 1..N /\ b \in 1..N /\ t[b] <= t[i] /\ t[i] < t[a] + EventHeight
    OBVIOUS
  <2>2. lanes[a] = lanes[b] => t[a] + EventHeight <= t[b]
    BY <1>3, <2>1 DEF Fit
  <2>3. EventHeight \in Int /\ t[a] \in Int /\ t[b] \in Int /\ t[i] \in Int
    BY <2>1 DEF EventHeight
  <2> QED BY <2>1, <2>2, <2>3
<1>4. \A a, b \in At : a # b => lanes[a] # lanes[b]
  <2>1. \A a, b \in At : a # b => a < b \/ b < a
    OBVIOUS
  <2> HIDE DEF At
  <2> QED BY <1>3, <2>1
<1>5. [j \in At |-> lanes[j]] \in [At -> 1..k]
  BY DEF Fit
<1> HIDE DEF At
<1>6. [j \in At |-> lanes[j]] \in Injection(At, 1..k)
  BY <1>4, <1>5 DEF Injection, IsInjective
<1>7. Cardinality(At) <= k
  BY <1>2, <1>6, FS_Injection
<1> QED BY <1>1, <1>7 DEF At

LEMMA NoMoreLanes ==
  ASSUME NEW N \in Nat, NEW t \in [1..N -> Int], NEW k \in Nat, NEW ends, NEW lanes,
         Fit(t, N, k, ends, lanes), N > 0
  PROVE  \E i \in 1..N :
           LET At == {j \in 1..N : t[j] <= t[i] /\ t[i] < t[j] + EventHeight}
           IN k <= Cardinality(At)
<1>1. PICK i \in 1..N : \A l \in 1..k : \E j \in 1..N :
        lanes[j] = l /\ t[j] <= t[i] /\ t[i] < t[j] + EventHeight
  BY DEF Fit
<1> DEFINE At == {j \in 1..N : t[j] <= t[i] /\ t[i] < t[j] + EventHeight}
           one == [l \in 1..k |-> CHOOSE j \in At : lanes[j] = l]
<1>2. \A l \in 1..k : \E j \in At : lanes[j] = l
  BY <1>1
<1>3. IsFiniteSet(At) /\ Cardinality(At) \in Nat
  <2>1. IsFiniteSet(1..N) /\ At \in SUBSET (1..N)
    BY FS_Interval
  <2> HIDE DEF At
  <2> QED BY <2>1, FS_Subset, FS_CardinalityType
<1> HIDE DEF At
<1>4. \A l \in 1..k : one[l] \in At /\ lanes[one[l]] = l
  BY <1>2
<1>5. one \in [1..k -> At]
  BY <1>4
<1> HIDE DEF one
<1>6. one \in Injection(1..k, At)
  <2>1. \A l, m \in 1..k : l # m => one[l] # one[m]
    BY <1>4
  <2> QED BY <1>5, <2>1 DEF Injection, IsInjective
<1>7. Cardinality(1..k) <= Cardinality(At) /\ Cardinality(1..k) = k
  BY <1>3, <1>6, FS_Injection, FS_Interval
<1>8. k <= Cardinality(At)
  BY <1>7
<1> QED BY <1>8 DEF At

LEMMA ColumnFits ==
  ASSUME Within, NEW c, Sorted(c)
  PROVE  /\ LET lanes == Packed(c).lanes
            IN \A i, j \in DOMAIN c :
                 i < j /\ lanes[i] = lanes[j] => Top(c[i]) + EventHeight <= Top(c[j])
         /\ LET At(i) == {j \in DOMAIN c : Top(c[j]) <= Top(c[i])
                                          /\ Top(c[i]) < Top(c[j]) + EventHeight}
            IN c # <<>> =>
                 Len(Packed(c).ends) = Max({Cardinality(At(i)) : i \in DOMAIN c})
<1> DEFINE N == Len(c)
           t == Tops(c)
           ends == Packed(c).ends
           lanes == Packed(c).lanes
           At(i) == {j \in 1..N : t[j] <= t[i] /\ t[i] < t[j] + EventHeight}
           sizes == {Cardinality(At(i)) : i \in 1..N}
<1>1. N \in Nat /\ t \in [1..N -> Int] /\ DOMAIN c = 1..N /\ (c # <<>> => N > 0)
  <2>1. N \in Nat /\ t \in [1..N -> Int]
    BY TopsSink DEF Sinking
  <2> QED BY <2>1 DEF Sorted
<1>2. \A i \in 1..N : t[i] = Top(c[i])
  BY DEF Tops
<1>3. PICK k \in Nat : Fit(t, N, k, ends, lanes)
  BY PackedFits
<1> HIDE DEF N, t, ends, lanes
<1>4. \A i, j \in 1..N :
        i < j /\ lanes[i] = lanes[j] => Top(c[i]) + EventHeight <= Top(c[j])
  BY <1>2, <1>3 DEF Fit
<1>5. Len(ends) = k
  BY <1>3 DEF Fit
<1>6. ASSUME c # <<>> PROVE k = Max(sizes)
  <2>1. \A s \in sizes : s \in Nat /\ s <= k
    BY <1>1, <1>3, NoFewerLanes
  <2>2. \E s \in sizes : k <= s
    <3>1. PICK i \in 1..N : k <= Cardinality(At(i))
      BY <1>1, <1>3, <1>6, NoMoreLanes
    <3> QED BY <3>1
  <2> HIDE DEF sizes
  <2>3. k \in sizes /\ \A s \in sizes : k >= s
    BY <2>1, <2>2
  <2>4. Max(sizes) \in sizes /\ \A s \in sizes : Max(sizes) >= s
    BY <2>3 DEF Max
  <2>5. Max(sizes) >= k /\ k >= Max(sizes) /\ Max(sizes) \in Nat
    BY <2>1, <2>3, <2>4
  <2> HIDE DEF Max
  <2> QED BY <2>5
<1>7. \A i \in 1..N : At(i) = {j \in DOMAIN c : Top(c[j]) <= Top(c[i])
                                          /\ Top(c[i]) < Top(c[j]) + EventHeight}
  BY <1>1, <1>2
<1> QED BY <1>1, <1>4, <1>5, <1>6, <1>7 DEF ends, lanes

LEMMA LanesFitAlways == Within => LanesFit
<1> SUFFICES ASSUME Within PROVE LanesFit
  OBVIOUS
<1>1. ASSUME NEW c \in Columns PROVE Sorted(c)
  <2>1. Sorted(<<>>)
    BY DEF Sorted
  <2> QED BY <2>1, ColumnSorted DEF Columns
<1>2. LanesApart
  BY <1>1, ColumnFits DEF LanesApart
<1>3. LanesNeeded
  BY <1>1, ColumnFits DEF LanesNeeded
<1> QED BY <1>2, <1>3 DEF LanesFit

-----------------------------------------------------------------------------
(* The pages beside each other: a page nobody follows has nothing open.    *)

Blank ==
  /\ page = "away" /\ status = Loading /\ pending = NoCall /\ data = NoRows
  /\ bare = {} /\ held = {}

Idle == \A f \in Form : phase[f] = "idle"

ScreensInv ==
  /\ FormInv /\ DashboardInv /\ CalendarTypeOK
  /\ focus \in {"form", "dashboard", "calendar"}
  /\ focus # "form" => Idle
  /\ focus # "dashboard" => Blank

LEMMA BlankKeeps ==
  ASSUME Blank, RInv', UNCHANGED <<screen, seen>>
  PROVE  DashboardInv' /\ Blank'
<1>1. /\ page' = "away" /\ status' = Loading /\ pending' = NoCall /\ data' = NoRows
      /\ bare' = {} /\ held' = {}
  BY DEF Blank, screen, seen
<1>2. Remember
  BY <1>1 DEF Remember
<1>3. Loading' = Loading /\ NoCall' = NoCall /\ NoRows' = NoRows
  BY DEF Loading, NoCall, NoRows
<1> QED BY <1>1, <1>2, <1>3, AwayKeeps DEF Blank

LEMMA FormMovesKeep ==
  ASSUME ScreensInv, FormMoves
  PROVE  ScreensInv'
<1>1. FormInv' /\ RInv'
  BY FormNextKeeps DEF ScreensInv, FormMoves, FormInv
<1>2. DashboardInv' /\ Blank'
  BY <1>1, BlankKeeps DEF ScreensInv, FormMoves
<1>3. CalendarTypeOK'
  BY CalendarNextKeeps DEF ScreensInv, FormMoves
<1> QED BY <1>1, <1>2, <1>3 DEF ScreensInv, FormMoves

LEMMA CalendarMovesKeep ==
  ASSUME ScreensInv, CalendarMoves
  PROVE  ScreensInv'
<1>1. /\ CalendarNext /\ UNCHANGED <<screen, seen>> /\ focus' = "calendar"
      /\ UNCHANGED formVars /\ UNCHANGED form /\ FormInv /\ CalendarTypeOK
      /\ Idle /\ Blank /\ RInv
  BY DEF ScreensInv, CalendarMoves, formVars, FormInv
<1>2. FormInv'
  BY <1>1, FormNextKeeps
<1>3. DashboardInv' /\ Blank'
  BY <1>1, <1>2, BlankKeeps DEF FormInv
<1>4. CalendarTypeOK'
  BY <1>1, CalendarNextKeeps
<1>5. Idle'
  BY <1>1 DEF Idle, form
<1> QED BY <1>1, <1>2, <1>3, <1>4, <1>5 DEF ScreensInv

(* To a form the requests of the dashboard are those of another client.    *)
LEMMA DashboardMovesKeep ==
  ASSUME ScreensInv, DashboardMoves
  PROVE  ScreensInv'
<1>1. FormInv /\ Idle /\ DashboardNext /\ UNCHANGED <<form, told>>
  BY DEF ScreensInv, DashboardMoves
<1>2. ASSUME NEW p \in Proc, Release(p) PROVE FormInv'
  <2>1. \A f \in Form : call[f] # p
    BY <1>1, RegistryAssumption DEF Idle, FormInv, FInv, Waits
  <2> QED BY <1>1, <1>2, <2>1, UnheardKeeps DEF Unheard
<1>3. ASSUME NEW l \in List, NEW p \in Proc, Fetch(l, p) PROVE FormInv'
  <2> DEFINE r == [NoRequest EXCEPT !.op = LoadOp[l]]
  <2>1. LoadOp[l] \in {"listPersons", "listEvents", "listAssignments"}
    BY Lists
  <2>2. WellFormed(r) /\ r.form = NoForm
    BY <2>1, Ops DEF WellFormed, NoRequest, Request
  <2>3. Start(p, r)
    BY <1>3 DEF Fetch
  <2> HIDE DEF r
  <2> QED BY <1>1, <2>2, <2>3, NobodysStartKeeps
<1>4. ASSUME UNCHANGED registryVars PROVE FormInv'
  BY <1>1, <1>4, FormNextKeeps DEF formVars
<1>5. ASSUME Operate PROVE FormInv'
  BY <1>1, <1>5, FormNextKeeps DEF FormNext
<1>6. ASSUME NEW p \in Proc, Direct(p) \/ Serve(p) PROVE FormInv'
  <2>1. CASE Direct(p)
    BY <1>1, <2>1, DirectKeeps
  <2>2. CASE Serve(p)
    BY <1>1, <2>2, FormNextKeeps DEF FormNext
  <2> QED BY <1>6, <2>1, <2>2
<1>7. FormInv'
  BY <1>1, <1>2, <1>3, <1>4, <1>5, <1>6 DEF DashboardNext, Enter, Leave, Lost, Loaded,
     Failed, Arrived, Unread
<1>8. DashboardInv'
  BY <1>1, DashboardNextKeeps DEF ScreensInv
<1>9. CalendarTypeOK' /\ Idle'
  BY <1>1, CalendarNextKeeps DEF ScreensInv, DashboardMoves, Idle, form
<1> QED BY <1>7, <1>8, <1>9 DEF ScreensInv, DashboardMoves

(* The inductive invariant: that of each page, and that the pages nobody   *)
(* follows wait for nothing.                                               *)
THEOREM ScreensInvariant == Spec => []ScreensInv
<1>1. Init => ScreensInv
  <2> SUFFICES ASSUME Init PROVE ScreensInv
    OBVIOUS
  <2>1. FormInv /\ DashboardInv /\ CalendarTypeOK
    BY FormStarts, DashboardStarts, CalendarStarts DEF Init
  <2>2. Idle /\ Blank
    BY DEF Init, FormInit, DashboardInit, Idle, Blank
  <2> QED BY <2>1, <2>2 DEF ScreensInv, Init
<1>2. ScreensInv /\ [Next]_vars => ScreensInv'
  <2> SUFFICES ASSUME ScreensInv, [Next]_vars PROVE ScreensInv'
    OBVIOUS
  <2>1. CASE UNCHANGED vars
    <3>1. UNCHANGED <<formVars, screen, seen, calendarVars, focus>>
      BY <2>1 DEF vars, formVars
    <3>2. FormInv' /\ CalendarTypeOK'
      BY <3>1, FormNextKeeps, CalendarNextKeeps DEF ScreensInv
    <3>3. DashboardInv'
      BY <2>1, DashboardNextKeeps DEF ScreensInv, vars, dashboardVars
    <3>4. focus # "form" => Idle'
      BY <3>1 DEF ScreensInv, Idle, formVars, form
    <3>5. focus # "dashboard" => Blank'
      BY <3>1, <3>2, BlankKeeps DEF ScreensInv, FormInv
    <3> QED BY <3>1, <3>2, <3>3, <3>4, <3>5 DEF ScreensInv
  <2> QED BY <2>1, FormMovesKeep, DashboardMovesKeep, CalendarMovesKeep DEF Next
<1> QED BY <1>1, <1>2, PTL DEF Spec

(* Type correctness of the tables, the requests and the three pages.       *)
THEOREM ScreensTypeCorrect == Spec => []TypeOK
<1>1. ScreensInv => TypeOK
  BY FormGuarantees, DashboardGuarantees DEF ScreensInv, TypeOK
<1> QED BY <1>1, ScreensInvariant, PTL

(* Every row refers to rows that exist                                     *)
(* (services/event_assignments.py:62).                                     *)
THEOREM ReferencesHold == Spec => []NoDangling
<1>1. ScreensInv => NoDangling
  BY FormGuarantees DEF ScreensInv
<1> QED BY <1>1, ScreensInvariant, PTL

(* Nobody is stored or shown with some of their roles                      *)
(* (services/persons.py:28, api/persons.py:58).                            *)
THEOREM RolesStayWhole == Spec => []RolesWhole
<1>1. ScreensInv => RolesWhole
  BY FormGuarantees DEF ScreensInv
<1> QED BY <1>1, ScreensInvariant, PTL

(* A refusal means that nothing was written, and every status is one the   *)
(* route documents, or 500, or none (services/event_assignments.py:60,     *)
(* api/persons.py:69).                                                     *)
THEOREM AnswersAreTrue == Spec => []AnswersTrue
<1>1. ScreensInv => AnswersTrue
  BY FormGuarantees DEF ScreensInv
<1> QED BY <1>1, ScreensInvariant, PTL

(* Whatever a request wrote, its account has the permission for it         *)
(* (docs/06 4g).                                                           *)
THEOREM WritesAreAllowed == Spec => []WritesNeedRight
<1>1. ScreensInv => WritesNeedRight
  BY FormGuarantees DEF ScreensInv
<1> QED BY <1>1, ScreensInvariant, PTL

(* Every row that a form's submissions made is one it was told of, one it  *)
(* is waiting for, or equals a submission that got no definite answer: two *)
(* equal rows that were not both reported need a silent submission         *)
(* (services/event_assignments.py:14, EventAssignments.tsx:198).           *)
THEOREM RowsAreReported == Spec => []RowsAreTold
<1>1. ScreensInv => RowsAreTold
  BY FormGuarantees DEF ScreensInv
<1> QED BY <1>1, ScreensInvariant, PTL

(* What the page was told is created it shows, or it says that it could    *)
(* not refresh (EventAssignments.tsx:32).                                  *)
THEOREM CreatedRowsAreShown == Spec => []CreatedRowShown
<1>1. ScreensInv => CreatedRowShown
  BY FormGuarantees DEF ScreensInv
<1> QED BY <1>1, ScreensInvariant, PTL

(* What the dashboard says of an event was so at some moment since it      *)
(* asked, whatever is read when and whatever fails (dashboardData.ts:60).  *)
THEOREM ListsAreTrue == Spec => []ListedIsTrue
<1>1. ScreensInv => ListedIsTrue
  BY DashboardGuarantees DEF ScreensInv
<1> QED BY <1>1, ScreensInvariant, PTL

(* The week begins on the locale's first day and holds today, or the day   *)
(* as many weeks away (weekMath.ts:82).                                    *)
THEOREM WeekIsRight == Spec => []WeekHoldsToday
<1>1. Within => WeekHoldsToday
  BY WeekAssumption, WeekOf DEF Within, WeekHoldsToday, FirstShown, Week, Dow
<1>2. ScreensInv => Within
  BY CalendarTyped DEF ScreensInv
<1> QED BY <1>1, <1>2, ScreensInvariant, PTL

(* Overlapping events are drawn side by side, in no more lanes than there  *)
(* are events on screen at one height, for any number of events a day      *)
(* (CalendarGrid.tsx:148).                                                 *)
THEOREM LanesAreRight == Spec => []LanesFit
<1>1. ScreensInv => LanesFit
  BY CalendarTyped, LanesFitAlways DEF ScreensInv
<1> QED BY <1>1, ScreensInvariant, PTL

-----------------------------------------------------------------------------
(* To the API the pages are clients: what they do to it is to ask, to read *)
(* an answer, or nothing.                                                  *)
LEMMA PagesActAtOnce == ScreensInv /\ [Next]_vars => [Atomic!Next]_(Atomic!api)
<1> SUFFICES ASSUME ScreensInv, [Next]_vars
             PROVE  Atomic!Next \/ UNCHANGED Atomic!api
  OBVIOUS
<1>1. RInv
  BY DEF ScreensInv, FormInv
<1>2. ASSUME UNCHANGED registryVars PROVE Atomic!Next \/ UNCHANGED Atomic!api
  BY <1>1, <1>2, OneAct
<1>3. ASSUME \/ Operate \/ \E p \in Proc : Direct(p) \/ Serve(p) \/ Release(p)
      PROVE  Atomic!Next \/ UNCHANGED Atomic!api
  BY <1>1, <1>3, OneAct
<1>4. CASE UNCHANGED vars \/ CalendarMoves
  BY <1>2, <1>4 DEF vars, CalendarMoves
<1>5. CASE FormMoves
  <2>1. ASSUME NEW f \in Form, NEW p \in Proc, Submit(f, p) PROVE Atomic!Next
    <3>1. PICK t \in [event : Event, person : Person, responsibility : Responsibility] :
            SendTriple(f, p, t)
      BY <2>1 DEF Submit
    <3> DEFINE r == [NoRequest EXCEPT
                       !.op = "createAssignment", !.event = t.event,
                       !.person = t.person, !.codes = {t.responsibility},
                       !.form = f]
    <3>2. Start(p, r)
      BY <3>1 DEF SendTriple
    <3>3. WellFormed(r)
      BY Ops DEF WellFormed, NoRequest, Request, Code
    <3> HIDE DEF r
    <3> QED BY <1>1, <3>2, <3>3, OneQuestion
  <2>2. ASSUME NEW f \in Form, NEW p \in Proc, Refresh(f, p) PROVE Atomic!Next
    <3> DEFINE r == [NoRequest EXCEPT !.op = "listAssignments", !.form = f]
    <3>1. Start(p, r)
      BY <2>2 DEF Refresh
    <3>2. WellFormed(r)
      BY Ops DEF WellFormed, NoRequest, Request
    <3> HIDE DEF r
    <3> QED BY <1>1, <3>1, <3>2, OneQuestion
  <2>3. CASE \E f \in Form, p \in Proc :
               Accepted(f, p) \/ Rejected(f, p) \/ Refreshed(f, p)
    BY <1>3, <2>3 DEF Accepted, Rejected, Refreshed, Answered
  <2>4. CASE \E f \in Form, p \in Proc : PostLost(f, p)
    BY <1>2, <2>4 DEF PostLost
  <2>5. CASE \E f \in Form : RefreshFails(f)
    BY <1>2, <1>3, <2>5 DEF RefreshFails, Answered
  <2>6. CASE Operate \/ \E p \in Proc : Direct(p) \/ Serve(p) \/ Unheard(p)
    BY <1>3, <2>6 DEF Unheard
  <2> QED BY <1>5, <2>1, <2>2, <2>3, <2>4, <2>5, <2>6 DEF FormMoves, FormNext
<1>6. CASE DashboardMoves
  <2>1. ASSUME NEW l \in List, NEW p \in Proc, Fetch(l, p) PROVE Atomic!Next
    <3> DEFINE r == [NoRequest EXCEPT !.op = LoadOp[l]]
    <3>1. LoadOp[l] \in {"listPersons", "listEvents", "listAssignments"}
      BY Lists
    <3>2. WellFormed(r)
      BY <3>1, Ops DEF WellFormed, NoRequest, Request
    <3>3. Start(p, r)
      BY <2>1 DEF Fetch
    <3> HIDE DEF r
    <3> QED BY <1>1, <3>2, <3>3, OneQuestion
  <2> QED BY <1>2, <1>3, <1>6, <2>1 DEF DashboardMoves, DashboardNext, Enter, Leave, Lost,
             Loaded, Failed, Arrived, Unread
<1> QED BY <1>4, <1>5, <1>6 DEF Next

(* Overlapping requests look one after another to their clients: each acts *)
(* at one moment, on all it stores at once, and its answer is true of that *)
(* moment (services/event_assignments.py:62, services/persons.py:28).      *)
THEOREM RequestsActAtOnce == Spec => ActsAtOnce
<1>1. Init => Atomic!Init
  BY AtomicStarts DEF Init, FormInit
<1> QED BY <1>1, PagesActAtOnce, ScreensInvariant, PTL
        DEF Spec, ActsAtOnce, Atomic!Spec

=============================================================================
