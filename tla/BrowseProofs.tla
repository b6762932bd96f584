---------------------------- MODULE BrowseProofs ----------------------------
(***************************************************************************)
(* Proofs about ScheduleBrowse, for any sessions, movies, filters and page *)
(* size.  What Sorted makes of a set is the set in order, so both lists    *)
(* are complete and sorted.  At rest the pager was reset for the filters   *)
(* that are shown, and stands on its first page unless the customer turned *)
(* it; a menu that nobody asked for belongs to a session the board has     *)
(* lost, and is closed by the effects that are due.                        *)
(***************************************************************************)
EXTENDS ScheduleBrowse, FiniteSetTheorems, WellFoundedInduction, TLAPS

Picks == [query : Queries \cup {None}, genre : Genres \cup {None},
          status : {"planned", "active", "deactivated", None}]
Pool  == IF place = "schedule" THEN Sessions ELSE Movies

\* A pager at rest was reset for the filters shown.
PagerRests == /\ ~due => Key = lastKey
              /\ page # 1 /\ Key = lastKey => turned

\* A menu nobody asked for is closed by the effects that are due.
MenuAsked == active \in {None, asked} \/ (due /\ active \notin BoardItems)

IInv == TypeOK /\ PagerRests /\ MenuAsked

-----------------------------------------------------------------------------
(* What the helpers return.                                                *)

LEMMA TypeParts ==
    ASSUME TypeOK
    PROVE  /\ place \in {"schedule", "movies"} /\ url \in Addresses /\ pick \in Picks
           /\ films \in {{}, Movies} /\ items \subseteq Sessions /\ loads \in 0..MaxLoads
           /\ loading \in BOOLEAN /\ failed \in BOOLEAN /\ due \in BOOLEAN /\ turned \in BOOLEAN
           /\ page \in 1..TotalPages(Cardinality(Pool)) /\ Len(lastKey) = Len(Key)
           /\ active \in Sessions \cup {None} /\ asked \in Sessions \cup {None}
BY DEF TypeOK, Picks, Pool

\* A nonempty set of days has a first one.
LEMMA FirstDay == ASSUME NEW D, D \subseteq Days, D # {} PROVE First(D) \in D
<1>1. PICK x \in D : \A y \in D : ~ (<<y, x>> \in OpToRel(<, Nat))
  BY ShapeAssumption, NatLessThanWellFounded, WFMin
<1>2. ASSUME NEW y \in D PROVE x <= y
  <2>1. x \in Nat /\ y \in Nat
    BY ShapeAssumption
  <2>2. ~(y < x)
    BY <1>1, <2>1 DEF OpToRel
  <2> QED
    BY <2>1, <2>2
<1> QED
  BY <1>2 DEF First

LEMMA Counted ==
    ASSUME NEW S, NEW T, T \subseteq S, IsFiniteSet(S)
    PROVE  /\ Cardinality(T) \in Nat /\ Cardinality(S) \in Nat
           /\ Cardinality(T) <= Cardinality(S)
BY FS_Subset, FS_CardinalityType

\* A list has its length, whatever order it is in.
LEMMA SortedLength ==
    ASSUME NEW n \in Nat, NEW f, f = [i \in 1..n |-> f[i]]
    PROVE  Len(f) = n /\ (f # <<>> => n > 0) /\ f \in Seq({f[i] : i \in 1..n})
<1>1. Len(f) = n
  OBVIOUS
<1>2. n = 0 => f = <<>>
  OBVIOUS
<1>3. f \in [1..n -> {f[i] : i \in 1..n}]
  OBVIOUS
<1> QED
  BY <1>1, <1>2, <1>3

LEMMA PagesOf ==
    ASSUME NEW n \in Nat
    PROVE  /\ TotalPages(n) \in Nat \ {0}
           /\ n > 0 => TotalPages(n) = (n + PageSize - 1) \div PageSize
<1>1. PageSize \in Nat \ {0}
  BY ShapeAssumption
<1>2. n > 0 => (n + PageSize - 1) \div PageSize \in Nat \ {0}
  BY <1>1
<1> QED
  BY <1>2 DEF TotalPages

LEMMA PagesGrow ==
    ASSUME NEW m \in Nat, NEW n \in Nat, m <= n
    PROVE  TotalPages(m) <= TotalPages(n)
<1>1. PageSize \in Nat \ {0}
  BY ShapeAssumption
<1>2. CASE m = 0
  BY <1>2, PagesOf DEF TotalPages
<1>3. CASE m > 0
  <2>1. (m + PageSize - 1) \div PageSize <= (n + PageSize - 1) \div PageSize
    BY <1>1, <1>3
  <2> QED
    BY <1>3, <2>1 DEF TotalPages
<1> QED
  BY <1>2, <1>3

\* The page that ends the division starts inside the list.
LEMMA LastPageStarts ==
    ASSUME NEW n \in Nat \ {0}, NEW P \in Nat \ {0}, NEW p \in 1..((n + P - 1) \div P)
    PROVE  (p - 1) * P < n
<1> DEFINE q == (n + P - 1) \div P
<1>1. q \in Nat /\ q * P <= n + P - 1
  OBVIOUS
<1>2. p \in Nat /\ p <= q
  BY <1>1
<1> HIDE DEF q
<1>3. p * P <= q * P
  BY <1>1, <1>2
<1>4. p * P = (p - 1) * P + P
  BY <1>2
<1>5. (p - 1) * P \in Int /\ p * P \in Int /\ q * P \in Int
  BY <1>1, <1>2
<1> QED
  BY <1>1, <1>3, <1>4, <1>5

LEMMA PageHolds ==
    ASSUME NEW P \in Nat \ {0}, NEW p \in Nat \ {0}
    PROVE  /\ (p - 1) * P \in Nat /\ p * P \in Nat
           /\ p * P >= (p - 1) * P + 1
<1>1. (p - 1) * P \in Nat /\ p * P \in Nat
  OBVIOUS
<1>2. p * P = (p - 1) * P + P
  OBVIOUS
<1> QED
  BY <1>1, <1>2

LEMMA PageStarts ==
    ASSUME NEW n \in Nat \ {0}, NEW p \in 1..TotalPages(n)
    PROVE  /\ (p - 1) * PageSize \in Nat /\ p * PageSize \in Nat
           /\ (p - 1) * PageSize < n
           /\ p * PageSize >= (p - 1) * PageSize + 1
<1>1. PageSize \in Nat \ {0} /\ p \in 1 .. ((n + PageSize - 1) \div PageSize)
  BY ShapeAssumption, PagesOf
<1>2. p \in Nat \ {0}
  BY PagesOf
<1>3. (p - 1) * PageSize < n
  BY <1>1, LastPageStarts
<1> QED
  BY <1>1, <1>2, <1>3, PageHolds

LEMMA Clamped ==
    ASSUME NEW p \in Nat \ {0}, NEW total \in Nat \ {0}
    PROVE  Clamp(p, total) \in 1..total /\ (p = 1 => Clamp(p, total) = 1)
BY DEF Clamp

Size == Cardinality(IF place = "schedule" THEN Matching(url.query, url.listDay) ELSE Filtered)

\* The list under the pager is not longer than what there is.
LEMMA ListLength ==
    ASSUME TypeOK
    PROVE  /\ Size \in Nat /\ Cardinality(Pool) \in Nat /\ Size <= Cardinality(Pool)
           /\ Len(Listed) = Size /\ (Listed # <<>> => Size > 0)
           /\ Listed \in Seq({Listed[i] : i \in 1..Size})
<1>1. /\ Matching(url.query, url.listDay) \subseteq Sessions /\ Filtered \subseteq Movies
      /\ place \in {"schedule", "movies"}
  BY TypeParts DEF Matching, Filtered
<1>2. Size \in Nat /\ Cardinality(Pool) \in Nat /\ Size <= Cardinality(Pool)
  BY <1>1, FiniteAssumption, Counted DEF Size, Pool
<1>3. CASE place = "schedule"
  <2> DEFINE S == Matching(url.query, url.listDay)
             g(i) == CHOOSE s \in S : Cardinality({t \in S : Before(t, s)}) = i - 1
  <2>1. Size = Cardinality(S)
    BY <1>3 DEF Size
  <2>2. Listed = [i \in 1..Cardinality(S) |-> g(i)]
    BY <1>3 DEF Listed, ListItems, Sorted
  <2> HIDE DEF S, g, Size
  <2>3. Listed = [i \in 1..Size |-> g(i)]
    BY <2>1, <2>2
  <2> QED
    BY <2>3, <1>2, SortedLength
<1>4. CASE place # "schedule"
  <2> DEFINE S == Filtered
             Ahead(m, n) == \/ StatusPriority(m) < StatusPriority(n)
                            \/ /\ StatusPriority(m) = StatusPriority(n)
                               /\ TitleRank[m] < TitleRank[n]
             g(i) == CHOOSE s \in S : Cardinality({t \in S : Ahead(t, s)}) = i - 1
  <2>1. Size = Cardinality(S)
    BY <1>4 DEF Size
  <2>2. Listed = [i \in 1..Cardinality(S) |-> g(i)]
    BY <1>4 DEF Listed, FilmItems, Sorted
  <2> HIDE DEF S, g, Size
  <2>3. Listed = [i \in 1..Size |-> g(i)]
    BY <2>1, <2>2
  <2> QED
    BY <2>3, <1>2, SortedLength
<1> QED
  BY <1>2, <1>3, <1>4

LEMMA PagerRange ==
    ASSUME TypeOK
    PROVE  /\ Total \in Nat \ {0} /\ 1..Total \subseteq 1..TotalPages(Cardinality(Pool))
           /\ page \in Nat \ {0}
           /\ SafePage \in 1..Total /\ SettledPage = SafePage
           /\ page = 1 => SafePage = 1
           /\ PageButtons(SafePage, Total) \subseteq 1..Total
<1>1. Total \in Nat \ {0} /\ Total <= TotalPages(Cardinality(Pool))
      /\ TotalPages(Cardinality(Pool)) \in Nat \ {0}
  BY ListLength, PagesOf, PagesGrow DEF Total
<1>2. page \in Nat \ {0}
  BY <1>1, TypeParts
<1>3. SafePage \in 1..Total /\ SettledPage = SafePage /\ (page = 1 => SafePage = 1)
  BY <1>1, <1>2, Clamped DEF SafePage, SettledPage
<1>4. PageButtons(SafePage, Total) \subseteq 1..Total
  BY DEF PageButtons
<1> QED
  BY <1>1, <1>2, <1>3, <1>4

-----------------------------------------------------------------------------
(* What Sorted makes of a set and a strict total order R of it.            *)

StrictOrder(S, R) ==
    /\ \A s \in S : <<s, s>> \notin R
    /\ \A s, t, u \in S : <<s, t>> \in R /\ <<t, u>> \in R => <<s, u>> \in R
    /\ \A s, t \in S : s # t => <<s, t>> \in R \/ <<t, s>> \in R

\* How many elements are before s.
Place(S, R, s) == Cardinality({t \in S : <<t, s>> \in R})

\* The sequence q lists every element of S, in order.
InOrder(q, S, R) ==
    /\ q \in [1..Cardinality(S) -> S]
    /\ \A s \in S : \E i \in 1..Cardinality(S) : q[i] = s
    /\ \A i, j \in 1..Cardinality(S) : i < j => <<q[i], q[j]>> \in R

LEMMA Places ==
    ASSUME NEW S, IsFiniteSet(S), NEW R, StrictOrder(S, R)
    PROVE  /\ \A s \in S : Place(S, R, s) \in 0..(Cardinality(S) - 1)
           /\ \A s, t \in S : <<s, t>> \in R => Place(S, R, s) < Place(S, R, t)
           /\ \A i \in 1..Cardinality(S) : \E s \in S : Place(S, R, s) = i - 1
<1> DEFINE A(s) == {t \in S : <<t, s>> \in R}
           n == Cardinality(S)
<1>1. n \in Nat
  BY FS_CardinalityType
<1>2. ASSUME NEW s \in S PROVE IsFiniteSet(A(s)) /\ Cardinality(A(s)) \in Nat /\ Cardinality(A(s)) < n
  <2>1. A(s) \in SUBSET S /\ s \notin A(s)
    BY DEF StrictOrder
  <2>2. IsFiniteSet(A(s)) /\ Cardinality(A(s)) <= n /\ (n = Cardinality(A(s)) => S = A(s))
    BY <2>1, FS_Subset
  <2>3. Cardinality(A(s)) \in Nat
    BY <2>2, FS_CardinalityType
  <2> QED
    BY <1>1, <2>1, <2>2, <2>3
<1>3. ASSUME NEW s \in S, NEW t \in S, <<s, t>> \in R PROVE Cardinality(A(s)) < Cardinality(A(t))
  <2>1. A(s) \in SUBSET A(t) /\ s \in A(t) /\ s \notin A(s)
    BY <1>3 DEF StrictOrder
  <2>2. /\ Cardinality(A(s)) <= Cardinality(A(t))
        /\ Cardinality(A(t)) = Cardinality(A(s)) => A(t) = A(s)
    BY <1>2, <2>1, FS_Subset
  <2> QED
    BY <1>2, <2>1, <2>2
<1> DEFINE c(s) == Cardinality(A(s))
           f == [s \in S |-> c(s)]
<1>4. /\ \A s \in S : c(s) \in Nat /\ c(s) < n
      /\ \A s, t \in S : <<s, t>> \in R => c(s) < c(t)
  BY <1>2, <1>3
<1> HIDE DEF c
<1>5. f \in [S -> 0..(n - 1)]
  <2> HIDE DEF n
  <2> QED
    BY <1>1, <1>4
<1>6. ASSUME NEW s \in S, NEW t \in S, f[s] = f[t] PROVE s = t
  <2>1. c(s) = c(t) /\ c(s) \in Nat
    BY <1>4, <1>6
  <2>2. <<s, t>> \notin R /\ <<t, s>> \notin R
    BY <1>4, <2>1
  <2> QED
    BY <2>2 DEF StrictOrder
<1>7. f \in Injection(S, 0..(n - 1))
  BY <1>5, <1>6 DEF Injection, IsInjective
<1>8. IsFiniteSet(0..(n - 1)) /\ Cardinality(0..(n - 1)) = n
  BY <1>1, FS_Interval
<1>9. f \in Surjection(S, 0..(n - 1))
  BY <1>7, <1>8, FS_Injection
<1>10. \A k \in 0..(n - 1) : \E s \in S : c(s) = k
  <2>1. \A k \in 0..(n - 1) : \E s \in S : f[s] = k
    BY <1>9 DEF Surjection
  <2> QED
    BY <2>1
<1>11. \A s \in S : Place(S, R, s) = c(s)
  BY DEF Place, c
<1>12. \A i \in 1..n : \E s \in S : Place(S, R, s) = i - 1
  <2> HIDE DEF n
  <2>1. \A i \in 1..n : i - 1 \in 0..(n - 1)
    BY <1>1
  <2> QED
    BY <1>10, <1>11, <2>1
<1>13. \A s \in S : Place(S, R, s) \in 0..(n - 1)
  <2> HIDE DEF n
  <2> QED
    BY <1>1, <1>4, <1>11
<1> QED
  BY <1>4, <1>11, <1>12, <1>13

LEMMA PlacedInOrder ==
    ASSUME NEW S, IsFiniteSet(S), NEW R, StrictOrder(S, R), NEW q,
           q = [i \in 1..Cardinality(S) |-> CHOOSE s \in S : Place(S, R, s) = i - 1]
    PROVE  InOrder(q, S, R)
<1> DEFINE n == Cardinality(S)
<1>1. n \in Nat
  BY FS_CardinalityType
<1>2. ASSUME NEW i \in 1..n PROVE q[i] \in S /\ Place(S, R, q[i]) = i - 1
  BY Places
<1>3. ASSUME NEW s \in S PROVE \E i \in 1..n : q[i] = s
  <2>1. Place(S, R, s) \in 0..(n - 1)
    BY Places
  <2> DEFINE i == Place(S, R, s) + 1
  <2>2. i \in 1..n /\ Place(S, R, q[i]) = Place(S, R, s) /\ q[i] \in S
    BY <1>1, <1>2, <2>1
  <2>3. q[i] = s
    BY <2>1, <2>2, Places DEF StrictOrder
  <2> QED
    BY <2>2, <2>3
<1>4. ASSUME NEW i \in 1..n, NEW j \in 1..n, i < j PROVE <<q[i], q[j]>> \in R
  <2>1. q[i] # q[j] /\ ~ (Place(S, R, q[j]) < Place(S, R, q[i]))
    BY <1>2, <1>4
  <2> QED
    BY <1>2, <2>1, Places DEF StrictOrder
<1>5. q \in [1..n -> S]
  BY <1>2
<1> QED
  BY <1>3, <1>4, <1>5 DEF InOrder

-----------------------------------------------------------------------------
(* The order of the two lists.                                             *)

\* The orders of the two lists, as relations.
ListOrder == {p \in Sessions \X Sessions : Before(p[1], p[2])}

Ahead(m, n) == \/ StatusPriority(m) < StatusPriority(n)
               \/ /\ StatusPriority(m) = StatusPriority(n)
                  /\ TitleRank[m] < TitleRank[n]
FilmOrder == {p \in Movies \X Movies : Ahead(p[1], p[2])}

\* Whatever is asked for, Before decides: days, seats and times leave no two
\* sessions of the hall level.
LEMMA ListOrderStrict ==
    ASSUME NEW S, S \subseteq Sessions
    PROVE  StrictOrder(S, ListOrder)
<1>1. \A s \in S : DayOf[s] \in Nat /\ StartOf[s] \in Nat /\ OccupiedOf[s] \in Nat
  BY ShapeAssumption
<1>2. \A s, t \in S : <<s, t>> \in ListOrder <=> Before(s, t)
  BY DEF ListOrder
<1>3. \A s, t \in S : StartOf[s] = StartOf[t] => s = t
  BY OneHall
<1> DEFINE Earlier(x, y) == IF url.dateSort = "farthest" THEN x > y ELSE x < y
           Taken(x, y) == CASE url.seatSort = "most_occupied"  -> x > y
                            [] url.seatSort = "least_occupied" -> x < y
                            [] OTHER -> FALSE
<1>4. ASSUME NEW x \in Nat, NEW y \in Nat, NEW z \in Nat
      PROVE  /\ ~ Earlier(x, x)
             /\ Earlier(x, y) /\ Earlier(y, z) => Earlier(x, z)
             /\ Earlier(x, y) \/ Earlier(y, x) \/ x = y
  OBVIOUS
<1>5. ASSUME NEW x \in Nat, NEW y \in Nat, NEW z \in Nat
      PROVE  /\ ~ Taken(x, x)
             /\ Taken(x, y) => ~ Taken(y, x)
             /\ Taken(x, y) /\ Taken(y, z) => Taken(x, z)
             /\ ~ Taken(x, y) /\ ~ Taken(y, z) => ~ Taken(x, z)
  <2>1. CASE url.seatSort = "most_occupied"
    BY <2>1
  <2>2. CASE url.seatSort = "least_occupied"
    BY <2>2
  <2>3. CASE url.seatSort \notin {"most_occupied", "least_occupied"}
    BY <2>3
  <2> QED
    BY <2>1, <2>2, <2>3
<1>6. \A s, t : Before(s, t) <=>
                \/ Earlier(DayOf[s], DayOf[t])
                \/ /\ DayOf[s] = DayOf[t]
                   /\ \/ Taken(OccupiedOf[s], OccupiedOf[t])
                      \/ /\ ~ Taken(OccupiedOf[t], OccupiedOf[s])
                         /\ Earlier(StartOf[s], StartOf[t])
  BY DEF Before
<1> HIDE DEF Earlier, Taken
<1>7. ASSUME NEW s \in S PROVE ~ Before(s, s)
  BY <1>1, <1>4, <1>5, <1>6
<1>8. ASSUME NEW s \in S, NEW t \in S, NEW u \in S, Before(s, t), Before(t, u)
      PROVE  Before(s, u)
  <2>1. /\ Earlier(DayOf[s], DayOf[t]) /\ Earlier(DayOf[t], DayOf[u])
              => Earlier(DayOf[s], DayOf[u])
        /\ Earlier(StartOf[s], StartOf[t]) /\ Earlier(StartOf[t], StartOf[u])
              => Earlier(StartOf[s], StartOf[u])
    BY <1>1, <1>4
  <2>2. /\ Taken(OccupiedOf[s], OccupiedOf[t]) /\ Taken(OccupiedOf[t], OccupiedOf[u])
              => Taken(OccupiedOf[s], OccupiedOf[u])
        /\ ~ Taken(OccupiedOf[u], OccupiedOf[t]) /\ ~ Taken(OccupiedOf[t], OccupiedOf[s])
              => ~ Taken(OccupiedOf[u], OccupiedOf[s])
        /\ Taken(OccupiedOf[s], OccupiedOf[t]) /\ ~ Taken(OccupiedOf[u], OccupiedOf[t])
              => Taken(OccupiedOf[s], OccupiedOf[u])
        /\ ~ Taken(OccupiedOf[t], OccupiedOf[s]) /\ Taken(OccupiedOf[t], OccupiedOf[u])
              => Taken(OccupiedOf[s], OccupiedOf[u])
    BY <1>1, <1>5
  <2> QED
    BY <1>6, <1>8, <2>1, <2>2
<1>9. ASSUME NEW s \in S, NEW t \in S, s # t PROVE Before(s, t) \/ Before(t, s)
  <2>1. Earlier(StartOf[s], StartOf[t]) \/ Earlier(StartOf[t], StartOf[s])
    BY <1>1, <1>3, <1>4, <1>9
  <2>2. Earlier(DayOf[s], DayOf[t]) \/ Earlier(DayOf[t], DayOf[s]) \/ DayOf[s] = DayOf[t]
    BY <1>1, <1>4
  <2> QED
    BY <1>6, <2>1, <2>2
<1> QED
  BY <1>2, <1>7, <1>8, <1>9 DEF StrictOrder

LEMMA FilmOrderStrict ==
    ASSUME NEW S, S \subseteq Movies
    PROVE  StrictOrder(S, FilmOrder)
<1>1. \A m \in S : StatusPriority(m) \in 0..2 /\ TitleRank[m] \in Nat
  BY ShapeAssumption DEF StatusPriority
<1>2. \A m, n \in S : <<m, n>> \in FilmOrder <=> Ahead(m, n)
  BY DEF FilmOrder
<1>3. \A m, n \in S : TitleRank[m] = TitleRank[n] => m = n
  BY RanksAssumption
<1> QED
  BY <1>1, <1>2, <1>3 DEF StrictOrder, Ahead

\* The list shows every session that matches, once, in the order asked for;
\* the catalogue every movie that does, those now showing first.
ListsInOrder ==
    /\ InOrder(ListItems, Matching(url.query, url.listDay), ListOrder)
    /\ InOrder(FilmItems, Filtered, FilmOrder)

LEMMA ListsOrdered == ASSUME TypeOK PROVE ListsInOrder
<1>1. InOrder(ListItems, Matching(url.query, url.listDay), ListOrder)
  <2> DEFINE S == Matching(url.query, url.listDay)
  <2>1. S \subseteq Sessions
    BY TypeParts DEF Matching
  <2>2. IsFiniteSet(S) /\ StrictOrder(S, ListOrder)
    BY <2>1, FiniteAssumption, FS_Subset, ListOrderStrict
  <2> HIDE DEF S
  <2>3. ASSUME NEW s \in S
        PROVE  {t \in S : Before(t, s)} = {t \in S : <<t, s>> \in ListOrder}
    BY <2>1, <2>3 DEF ListOrder
  <2>4. \A s \in S : Cardinality({t \in S : Before(t, s)}) = Place(S, ListOrder, s)
    BY <2>3 DEF Place
  <2> DEFINE a(i) == CHOOSE s \in S : Cardinality({t \in S : Before(t, s)}) = i - 1
             b(i) == CHOOSE s \in S : Place(S, ListOrder, s) = i - 1
  <2>5. ListItems = [i \in 1..Cardinality(S) |-> a(i)]
    BY DEF ListItems, Sorted, S
  <2>6. \A i \in 1..Cardinality(S) : a(i) = b(i)
    BY <2>4
  <2> HIDE DEF a, b
  <2>7. ListItems = [i \in 1..Cardinality(S) |-> b(i)]
    BY <2>5, <2>6
  <2>8. InOrder(ListItems, S, ListOrder)
    BY <2>2, <2>7, PlacedInOrder DEF b
  <2> QED
    BY <2>8 DEF S
<1>2. InOrder(FilmItems, Filtered, FilmOrder)
  <2> DEFINE S == Filtered
  <2>1. S \subseteq Movies
    BY TypeParts DEF Filtered
  <2>2. IsFiniteSet(S) /\ StrictOrder(S, FilmOrder)
    BY <2>1, FiniteAssumption, FS_Subset, FilmOrderStrict
  <2> HIDE DEF S
  <2>3. ASSUME NEW s \in S
        PROVE  {t \in S : Ahead(t, s)} = {t \in S : <<t, s>> \in FilmOrder}
    BY <2>1, <2>3 DEF FilmOrder
  <2>4. \A s \in S : Cardinality({t \in S : Ahead(t, s)}) = Place(S, FilmOrder, s)
    BY <2>3 DEF Place
  <2> DEFINE a(i) == CHOOSE s \in S : Cardinality({t \in S : Ahead(t, s)}) = i - 1
             b(i) == CHOOSE s \in S : Place(S, FilmOrder, s) = i - 1
  <2>5. FilmItems = [i \in 1..Cardinality(S) |-> a(i)]
    BY DEF FilmItems, Sorted, S, Ahead
  <2>6. \A i \in 1..Cardinality(S) : a(i) = b(i)
    BY <2>4
  <2> HIDE DEF a, b
  <2>7. FilmItems = [i \in 1..Cardinality(S) |-> b(i)]
    BY <2>5, <2>6
  <2>8. InOrder(FilmItems, S, FilmOrder)
    BY <2>2, <2>7, PlacedInOrder DEF b
  <2> QED
    BY <2>8 DEF S
<1> QED
  BY <1>1, <1>2 DEF ListsInOrder

-----------------------------------------------------------------------------
(* What a render keeps.                                                    *)

\* The filters of a page are as many whatever they are.
LEMMA KeyLength ==
    /\ place = "schedule" => Len(Key) = 4
    /\ place # "schedule" => Len(Key) = 3
BY DEF Key

\* The day effects write addresses.
LEMMA Rewritten == ASSUME TypeOK PROVE Rewrite \in Addresses
<1>1. url \in Addresses /\ items \subseteq Sessions
  BY TypeParts
<1>2. BoardDays \subseteq Days /\ ListDays \subseteq Days
  BY <1>1, ShapeAssumption DEF BoardDays, ListDays, DayOptions, BoardBase, Matching
<1>3. BoardDays # {} => First(BoardDays) \in Days
  BY <1>2, FirstDay
<1>4. ASSUME NEW d \in Days \cup {NoDay} PROVE [url EXCEPT !.day = d] \in Addresses
  BY <1>1 DEF Addresses
<1>5. ASSUME NEW d \in Days \cup {NoDay} PROVE [url EXCEPT !.listDay = d] \in Addresses
  BY <1>1 DEF Addresses
<1>6. WithOfferedDay(url) \in Addresses
  BY <1>2, <1>3, <1>4 DEF WithOfferedDay
<1>7. WithOfferedListDay(url) \in Addresses
  BY <1>2, <1>5 DEF WithOfferedListDay
<1> QED
  BY <1>1, <1>6, <1>7 DEF Rewrite

\* An event whose render the effects will follow keeps the invariant when it
\* keeps the pager and the types of what it writes.
LEMMA EventKeeps ==
    ASSUME IInv, ~ due, place' = place, page' = page, lastKey' = lastKey,
           Rendered(active), Remembered(asked),
           url' \in Addresses, pick' \in Picks, items' \subseteq Sessions, films' \in {{}, Movies},
           loads' \in 0..MaxLoads, loading' \in BOOLEAN, failed' \in BOOLEAN
    PROVE  IInv'
<1>1. TypeOK /\ PagerRests /\ MenuAsked
  BY DEF IInv
<1>2. active' \in Sessions \cup {None} /\ asked' \in Sessions \cup {None}
      /\ due' = TRUE /\ turned' = (turned /\ Key' = Key)
  BY <1>1, TypeParts DEF Rendered, Remembered
<1>3. Len(Key') = Len(Key)
  BY DEF Key
<1>4. Len(lastKey') = Len(Key')
  BY <1>1, <1>3, TypeParts
<1>5. page' \in 1..TotalPages(Cardinality(Pool'))
  BY <1>1, TypeParts DEF Pool
<1>6. TypeOK'
  BY <1>1, <1>2, <1>4, <1>5, TypeParts DEF TypeOK, Picks, Pool
<1>7. PagerRests'
  BY <1>1, <1>2, TypeParts DEF PagerRests
<1>8. MenuAsked'
  <2>1. active \in {None, asked}
    BY <1>1 DEF MenuAsked
  <2>2. CASE BoardShown' /\ active \in BoardItems'
    BY <2>1, <2>2 DEF Rendered, Remembered, MenuAsked
  <2>3. CASE BoardShown' /\ active \notin BoardItems'
    BY <2>3 DEF Rendered, MenuAsked
  <2>4. CASE ~ BoardShown'
    BY <2>4 DEF Rendered, MenuAsked
  <2> QED
    BY <2>2, <2>3, <2>4
<1> QED
  BY <1>6, <1>7, <1>8 DEF IInv

\* A page that mounts starts with its pager at rest and no menu.
LEMMA MountKeeps ==
    ASSUME NEW p \in {"schedule", "movies"}, NEW u \in Addresses, Mount(p, u)
    PROVE  IInv'
<1>1. Cardinality(Pool') \in Nat
  BY FiniteAssumption, FS_CardinalityType DEF Pool
<1>2. page' \in 1..TotalPages(Cardinality(Pool'))
  <2>1. TotalPages(Cardinality(Pool')) \in Nat \ {0} /\ page' = 1
    BY <1>1, PagesOf DEF Mount
  <2> QED
    BY <2>1
<1>3. NoPick \in Picks
  BY DEF NoPick, Picks
<1>4. 1 \in 0..MaxLoads
  BY ShapeAssumption
<1>5. TypeOK'
  BY <1>2, <1>3, <1>4 DEF Mount, TypeOK, Picks, Pool
<1>6. PagerRests' /\ MenuAsked'
  BY DEF Mount, PagerRests, MenuAsked
<1> QED
  BY <1>5, <1>6 DEF IInv

LEMMA SomeAddresses ==
    /\ Defaults \in Addresses
    /\ \A m \in Movies : [Defaults EXCEPT !.movieId = m] \in Addresses
    /\ Links \subseteq Addresses
BY LinkAssumption DEF Defaults, Addresses, DateSorts, SeatSorts, NoDay

LEMMA InitHolds == ASSUME Init PROVE IInv
<1>1. Cardinality(Pool) \in Nat
  BY FiniteAssumption, FS_CardinalityType DEF Pool
<1>2. page \in 1..TotalPages(Cardinality(Pool))
  <2>1. TotalPages(Cardinality(Pool)) \in Nat \ {0} /\ page = 1
    BY <1>1, PagesOf DEF Init
  <2> QED
    BY <2>1
<1>3. NoPick \in Picks /\ 1 \in 0..MaxLoads
  BY ShapeAssumption DEF NoPick, Picks
<1>4. TypeOK
  BY <1>2, <1>3, SomeAddresses DEF Init, TypeOK, Picks, Pool
<1>5. PagerRests /\ MenuAsked
  BY DEF Init, PagerRests, MenuAsked
<1> QED
  BY <1>4, <1>5 DEF IInv

-----------------------------------------------------------------------------
(* The steps.                                                              *)

\* The effects reset the pager for the filters of the render they belong to;
\* when they write the address they are due again.
LEMMA EffectsKeep == ASSUME IInv, Effects PROVE IInv'
<1>1. TypeOK /\ PagerRests /\ MenuAsked
  BY DEF IInv
<1>2. UNCHANGED <<place, pick, items, films, loads, loading, failed>>
      /\ url' = Rewrite /\ page' = SettledPage /\ lastKey' = Key
      /\ active' = (IF BoardShown' THEN Closed(active) ELSE None)
      /\ due' = (<<url', page', active'>> # <<url, page, active>>)
      /\ turned' = (turned /\ Key' = Key)
  BY DEF Effects
<1>3. asked' \in {asked, None} /\ active' \in {active, None}
  BY <1>2 DEF Effects, Remembered, Closed
<1>4. SettledPage \in 1..TotalPages(Cardinality(Pool))
  BY <1>1, PagerRange
<1>5. page' \in 1..TotalPages(Cardinality(Pool'))
  BY <1>2, <1>4 DEF Pool
<1>6. Len(lastKey') = Len(Key')
  BY <1>2 DEF Key
<1>7. TypeOK'
  <2>1. due' \in BOOLEAN /\ turned' \in BOOLEAN
    BY <1>2
  <2>2. url' \in Addresses
    BY <1>1, <1>2, Rewritten
  <2>3. active' \in Sessions \cup {None} /\ asked' \in Sessions \cup {None}
    BY <1>1, <1>3, TypeParts
  <2> QED
    BY <1>1, <1>2, <1>5, <1>6, <2>1, <2>2, <2>3, TypeParts DEF TypeOK, Picks, Pool
<1>8. PagerRests'
  <2>1. ASSUME ~ due' PROVE Key' = lastKey'
    <3>1. url' = url
      BY <1>2, <2>1
    <3> QED
      BY <3>1, <1>2 DEF Key
  <2>2. ASSUME page' # 1, Key' = lastKey' PROVE turned'
    <3>1. Key = lastKey
      BY <1>2, <2>2 DEF SettledPage
    <3>2. page # 1
      BY <1>1, <1>2, <2>2, PagerRange
    <3>3. turned
      BY <1>1, <3>1, <3>2 DEF PagerRests
    <3> QED
      BY <1>2, <2>2, <3>3
  <2> QED
    BY <2>1, <2>2 DEF PagerRests
<1>9. MenuAsked'
  <2>1. SUFFICES ASSUME active' # None, active' # asked'
                 PROVE  due' /\ active' \notin BoardItems'
    BY DEF MenuAsked
  <2>2. BoardShown' /\ active' = active /\ active \in BoardItems
    BY <1>2, <2>1 DEF Closed
  <2>3. active = asked
    BY <1>1, <2>1, <2>2 DEF MenuAsked
  <2>4. active \notin BoardItems'
    BY <2>1, <2>2, <2>3 DEF Effects, Remembered
  <2>5. url' # url
    BY <1>2, <2>2, <2>4 DEF BoardItems, BoardBase, BoardDays, SelectedDay
  <2> QED
    BY <1>2, <2>2, <2>4, <2>5
<1> QED
  BY <1>7, <1>8, <1>9 DEF IInv

LEMMA LoadKeeps == ASSUME IInv, Load PROVE IInv'
<1>1. TypeOK
  BY DEF IInv
<1>2. loads' \in 0..MaxLoads
  BY <1>1, TypeParts, ShapeAssumption DEF Load
<1> QED
  BY <1>1, <1>2, TypeParts, EventKeeps DEF Load

LEMMA LoadedKeeps == ASSUME IInv, Loaded PROVE IInv'
<1>1. TypeOK
  BY DEF IInv
<1>2. loads' \in 0..MaxLoads
  BY <1>1, TypeParts, ShapeAssumption DEF Loaded
<1>3. items' \subseteq Sessions /\ films' \in {{}, Movies} /\ failed' \in BOOLEAN
  BY ShapeAssumption DEF Loaded
<1> QED
  BY <1>1, <1>2, <1>3, TypeParts, EventKeeps DEF Loaded

LEMMA NavigateKeeps ==
    ASSUME IInv, ~ due, NEW u \in Addresses, Navigate(u)
    PROVE  IInv'
<1>1. TypeOK
  BY DEF IInv
<1> QED
  BY <1>1, TypeParts, EventKeeps DEF Navigate

\* Whatever the customer chooses on the schedule is written to the address,
\* which stays an address.
LEMMA ChosenAddress ==
    ASSUME TypeOK
    PROVE  /\ \A d \in BoardDays : [url EXCEPT !.day = d, !.sessionId = None] \in Addresses
           /\ \A m \in MovieOptions \cup {None} :
                  [url EXCEPT !.movieId = m, !.sessionId = None] \in Addresses
           /\ \A g \in GenreOptions \cup {None} :
                  [url EXCEPT !.genre = g, !.sessionId = None] \in Addresses
           /\ [url EXCEPT !.day = NoDay, !.genre = None, !.movieId = None, !.sessionId = None]
                  \in Addresses
<1>1. url \in Addresses /\ items \subseteq Sessions
  BY TypeParts
<1>2. BoardDays \subseteq Days
  BY <1>1, ShapeAssumption DEF BoardDays, DayOptions, BoardBase
<1>3. MovieOptions \subseteq Movies
  BY <1>1, ShapeAssumption DEF MovieOptions
<1>4. GenreOptions \subseteq Genres
  BY <1>3, ShapeAssumption DEF GenreOptions
<1> QED
  BY <1>1, <1>2, <1>3, <1>4 DEF Addresses

LEMMA ListAddress ==
    ASSUME TypeOK
    PROVE  /\ \A q \in Queries \cup {None} : [url EXCEPT !.query = q] \in Addresses
           /\ \A d \in ListDays \cup {NoDay} : [url EXCEPT !.listDay = d] \in Addresses
           /\ \A o \in DateSorts : [url EXCEPT !.dateSort = o] \in Addresses
           /\ \A o \in SeatSorts : [url EXCEPT !.seatSort = o] \in Addresses
           /\ [url EXCEPT !.listDay = NoDay, !.query = None,
                          !.dateSort = "nearest", !.seatSort = ""] \in Addresses
<1>1. url \in Addresses /\ items \subseteq Sessions
  BY TypeParts
<1>2. ListDays \subseteq Days
  BY <1>1, ShapeAssumption DEF ListDays, DayOptions, Matching
<1> QED
  BY <1>1, <1>2 DEF Addresses, DateSorts, SeatSorts

LEMMA ChooseKeeps ==
    ASSUME IInv, ChooseDay \/ ChooseFilter \/ ResetBoardFilters
    PROVE  IInv'
<1>1. ~ due /\ TypeOK
  BY DEF IInv, ChooseDay, ChooseFilter, ResetBoardFilters
<1>2. \E u \in Addresses : Navigate(u)
  BY <1>1, ChosenAddress DEF ChooseDay, ChooseFilter, ResetBoardFilters
<1> QED
  BY <1>1, <1>2, NavigateKeeps

LEMMA ListKeeps ==
    ASSUME IInv, ChangeList \/ ResetListFilters
    PROVE  IInv'
<1>1. ~ due /\ TypeOK
  BY DEF IInv, ChangeList, ResetListFilters
<1>2. \E u \in Addresses : Navigate(u)
  BY <1>1, ListAddress DEF ChangeList, ResetListFilters
<1> QED
  BY <1>1, <1>2, NavigateKeeps

LEMMA CatalogKeeps == ASSUME IInv, ChangeCatalog PROVE IInv'
<1>1. TypeOK
  BY DEF IInv
<1>2. (UNION {GenresOf[m] : m \in films}) \subseteq Genres
  BY <1>1, TypeParts, ShapeAssumption
<1>3. pick' \in Picks
  BY <1>1, <1>2, TypeParts DEF ChangeCatalog, Picks, NoPick
<1> QED
  BY <1>1, <1>3, TypeParts, EventKeeps DEF ChangeCatalog

\* The buttons turn to a page the list has.
LEMMA TurnKeeps == ASSUME IInv, TurnPage PROVE IInv'
<1>1. TypeOK /\ PagerRests /\ MenuAsked /\ ~ due
  BY DEF IInv, TurnPage
<1>2. page' \in 1..Total
  BY <1>1, PagerRange DEF TurnPage
<1>3. page' \in 1..TotalPages(Cardinality(Pool))
  BY <1>1, <1>2, PagerRange
<1>4. UNCHANGED <<place, url, pick, items, films, loads, loading, failed, lastKey, active, asked>>
      /\ turned' = TRUE /\ due' = TRUE
  BY DEF TurnPage
<1>5. Key' = Key /\ Pool' = Pool
  BY <1>4 DEF Key, Pool
<1>6. TypeOK'
  BY <1>1, <1>3, <1>4, <1>5, TypeParts DEF TypeOK, Picks, Pool
<1>7. PagerRests' /\ MenuAsked'
  BY <1>1, <1>4 DEF PagerRests, MenuAsked
<1> QED
  BY <1>6, <1>7 DEF IInv

LEMMA MenuKeeps == ASSUME IInv, ClickSession \/ CloseMenu PROVE IInv'
<1>1. TypeOK /\ PagerRests /\ ~ due
  BY DEF IInv, ClickSession, CloseMenu
<1>2. UNCHANGED <<place, url, pick, items, films, loads, loading, failed, page, lastKey, turned>>
      /\ due' = TRUE /\ asked' = active'
  BY DEF ClickSession, CloseMenu
<1>3. active' \in Sessions \cup {None}
  BY <1>1, TypeParts DEF ClickSession, CloseMenu, BoardItems, BoardBase
<1>4. Key' = Key /\ Pool' = Pool
  BY <1>2 DEF Key, Pool
<1>5. TypeOK'
  BY <1>1, <1>2, <1>3, <1>4, TypeParts DEF TypeOK, Picks, Pool
<1>6. PagerRests' /\ MenuAsked'
  BY <1>1, <1>2, <1>4 DEF PagerRests, MenuAsked
<1> QED
  BY <1>5, <1>6 DEF IInv

LEMMA StutterKeeps == ASSUME IInv, UNCHANGED vars PROVE IInv'
<1>1. Key' = Key /\ BoardItems' = BoardItems
  BY DEF vars, Key, BoardItems, BoardBase, BoardDays, SelectedDay
<1>2. TypeOK'
  BY <1>1 DEF IInv, TypeOK, vars
<1>3. PagerRests' /\ MenuAsked'
  BY <1>1 DEF IInv, PagerRests, MenuAsked, vars
<1> QED
  BY <1>2, <1>3 DEF IInv

LEMMA NextHolds == ASSUME IInv, [Next]_vars PROVE IInv'
<1>1. CASE Effects
  BY <1>1, EffectsKeep
<1>2. CASE LoadSchedule \/ LoadMoviesCatalog
  BY <1>2, LoadKeeps DEF LoadSchedule, LoadMoviesCatalog
<1>3. CASE Loaded
  BY <1>3, LoadedKeeps
<1>4. CASE OpenMovies
  BY <1>4, MountKeeps, SomeAddresses DEF OpenMovies
<1>5. CASE OpenSchedule
  <2>1. TypeOK
    BY DEF IInv
  <2>2. \E u \in Addresses : Mount("schedule", u)
    <3>1. items \subseteq Sessions
      BY <2>1, TypeParts
    <3>2. \A s \in items : MovieOf[s] \in Movies
      BY <3>1, ShapeAssumption
    <3> QED
      BY <1>5, <3>2, SomeAddresses DEF OpenSchedule
  <2> QED
    BY <2>2, MountKeeps
<1>6. CASE ChangeCatalog
  BY <1>6, CatalogKeeps
<1>7. CASE FollowLink
  BY <1>7, NavigateKeeps, SomeAddresses DEF FollowLink
<1>8. CASE ChooseDay \/ ChooseFilter \/ ResetBoardFilters
  BY <1>8, ChooseKeeps
<1>9. CASE ChangeList \/ ResetListFilters
  BY <1>9, ListKeeps
<1>10. CASE TurnPage
  BY <1>10, TurnKeeps
<1>11. CASE ClickSession \/ CloseMenu
  BY <1>11, MenuKeeps
<1>12. CASE UNCHANGED vars
  BY <1>12, StutterKeeps
<1> QED
  BY <1>1, <1>2, <1>3, <1>4, <1>5, <1>6, <1>7, <1>8, <1>9, <1>10, <1>11, <1>12 DEF Next

-----------------------------------------------------------------------------
(* What follows.                                                           *)

\* The invariant holds in every state of every run.
THEOREM Invariance == Spec => []IInv
<1>1. Init => IInv
  BY InitHolds
<1>2. IInv /\ [Next]_vars => IInv'
  BY NextHolds
<1> QED
  BY <1>1, <1>2, PTL DEF Spec

\* The page only ever holds addresses, filters and sessions it was given, and
\* its pager a page that all there is would fill.
THEOREM TypeCorrect == Spec => []TypeOK
<1>1. IInv => TypeOK
  BY DEF IInv
<1> QED
  BY <1>1, Invariance, PTL

\* The safe page of a list that is not empty has an item.
LEMMA PageFilled ==
    ASSUME TypeOK, Listed # <<>>
    PROVE  PageItems # <<>>
<1>1. Size \in Nat \ {0} /\ Len(Listed) = Size
  BY ListLength
<1>2. SafePage \in 1..TotalPages(Size)
  BY <1>1, PagerRange DEF Total
<1> DEFINE a == (SafePage - 1) * PageSize
           b == IF SafePage * PageSize < Size THEN SafePage * PageSize ELSE Size
<1>3. a \in Nat /\ b \in Nat /\ a < b
  BY <1>1, <1>2, PageStarts
<1>4. PageItems = SubSeq(Listed, a + 1, b)
  BY <1>1 DEF PageItems
<1> HIDE DEF a, b
<1>5. PICK X : Listed \in Seq(X)
  BY ListLength
<1> HIDE DEF Listed
<1>6. Len(SubSeq(Listed, a + 1, b)) = b - a
  BY <1>1, <1>3, <1>5
<1> QED
  BY <1>3, <1>4, <1>6

\* Whatever is loaded, filtered and chosen, the list is every session that
\* matches, once and in the order asked for, and the catalogue every movie that
\* does (sortPublicScheduleListItems, the catalogue's sort).
THEOREM ListsComplete == Spec => []ListsInOrder
<1>1. TypeOK => ListsInOrder
  BY ListsOrdered
<1> QED
  BY <1>1, TypeCorrect, PTL

\* The page shown has an item when the list has one, and is the first until
\* the customer turns it (usePagination).
THEOREM PagesAsAsked == Spec => []PageAsAsked
<1>1. IInv => PageAsAsked
  <2>1. SUFFICES ASSUME IInv PROVE PageAsAsked
    OBVIOUS
  <2>2. TypeOK /\ PagerRests
    BY <2>1 DEF IInv
  <2>3. SafePage # 1 => turned
    BY <2>2, PagerRange DEF PagerRests, SafePage
  <2> QED
    BY <2>2, <2>3, PageFilled DEF PageAsAsked
<1> QED
  BY <1>1, Invariance, PTL

\* The quick menu that is drawn belongs to the session the customer clicked,
\* which the board has shown ever since (ScheduleChronoboard).
THEOREM MenusAsAsked == Spec => []MenuAsAsked
<1>1. IInv => MenuAsAsked
  BY DEF IInv, MenuAsked, MenuAsAsked, MenuItem
<1> QED
  BY <1>1, Invariance, PTL

=============================================================================
