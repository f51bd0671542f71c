---------------------------- MODULE TimelineProofs ----------------------------
(***************************************************************************)
(* Proofs about Timeline: what the grid draws, for every gallery, every     *)
(* page size, any number of callers and of outside events.                 *)
(***************************************************************************)
EXTENDS Timeline, FiniteSetTheorems, SequenceTheorems, TLAPS

-----------------------------------------------------------------------------
(* What the state is made of, in the detail the proofs need. *)

Headings == {Undated} \cup {Day[x] : x \in Item}

Table == {t \in Seq(Headings) : Len(t) <= Cardinality(Item)}

Items == {s \in Seq(Item) : Len(s) <= PageSize}

Answer == [items : Items, next : Item \cup {None}]

Flight == [start : Item \cup {None}, answer : Answer \cup {None}]

LoadType == [phase : {"asked", "answered", "failed"}, answer : Table \cup {None},
             painted : Table \cup {None}, reading : BOOLEAN]

StoreType == [View -> [days : Table \cup {None}, pages : [Page -> Items \cup {None}]]]

Ranges == Asks \cup {<<0, 1>>, None}

\* TypeOK in parts, with what it leaves open: the world and the callers,
World ==
  /\ archive \subseteq Item /\ stored \in BOOLEAN /\ view \in View /\ shifted \in BOOLEAN
  /\ want \in [Caller -> Ranges] /\ resyncs \in 0 .. MaxResyncs /\ notice \in BOOLEAN

\* the table, the load that fetches it and what the store keeps of it,
Tables == table \in Table /\ load \in LoadType /\ store \in StoreType

\* a store and the reads of it, on a phone only,
Shelf ==
  /\ emptying \in BOOLEAN /\ reads \subseteq [page : Page, of : View]
  /\ ~stored => reads = {} /\ ~emptying /\ store = EmptyStore /\ ~load.reading

\* the grid,
Sheet ==
  /\ slot \in [Index -> Item \cup {None}] /\ where \in [Item -> Index \cup {0}]
  /\ done \subseteq Page /\ spoiled \subseteq done /\ cursor \in [Page -> Item \cup {None}]

\* and the requests that are out, f when d is in hand.
Out(f, d) ==
  /\ DOMAIN f \subseteq Page \ d /\ Cardinality(DOMAIN f) <= MaxInFlight
  /\ \A p \in DOMAIN f : f[p] \in Flight

Typing == World /\ Tables /\ Shelf /\ Sheet /\ Out(flight, done)

\* What a load has laid out is what is on screen.
OnScreen == load.painted # None => load.painted = table

\* Without a store only the pages in hand are drawn, each item where it was last
\* written.
DrawnInHand ==
  ~stored =>
    /\ \A i \in Drawn : \E p \in done : i \in Ground(p)
    /\ \A x \in Item : where[x] # 0 =>
          /\ \E p \in done : where[x] \in Ground(p)
          /\ slot[where[x]] \in {None, x}

\* The item before a page of the view on screen.
Before(x, p) ==
  p * PageSize \in DOMAIN Within(view, archive) /\ Within(view, archive)[p * PageSize] = x

\* While the archive stands still every cursor is the item before its page, and an
\* answer is what the archive would say now.
Fetched ==
  ~shifted =>
    /\ \A p \in Page : cursor[p] # None => Before(cursor[p], p)
    /\ \A p \in DOMAIN flight :
          /\ flight[p].start # None => Before(flight[p].start, p)
          /\ flight[p].answer # None =>
                flight[p].answer = PageOf(view, archive, flight[p].start, p)

IInv ==
  /\ Typing /\ OnScreen /\ DrawnInHand /\ Fetched
  /\ RightPlace /\ UnderItsHeading /\ DoneIsDrawn /\ Replaced

-----------------------------------------------------------------------------
(* Pages and positions. *)

\* The greater and the lesser of two numbers.
LEMMA MaxOfTwo ==
  ASSUME NEW m \in Int, NEW n \in Int
  PROVE  Max({m, n}) = IF m >= n THEN m ELSE n
BY DEF Max

\* The same for the lesser.
LEMMA MinOfTwo ==
  ASSUME NEW m \in Int, NEW n \in Int
  PROVE  Min({m, n}) = IF m <= n THEN m ELSE n
BY DEF Min

\* Page sizes are positive numbers.
LEMMA Sizes ==
  /\ PageSize \in Nat /\ PageSize > 0
  /\ Cardinality(Item) \in Nat /\ Cardinality(Item) > 0
BY TimelineAssumption, FS_CardinalityType, FS_EmptySet

\* What division leaves.
LEMMA Divided ==
  ASSUME NEW n \in Int, NEW d \in Nat, d > 0
  PROVE  n \div d \in Int /\ d * (n \div d) <= n /\ n < d * (n \div d) + d
BY Z3

\* Division keeps the order.
LEMMA Halved ==
  ASSUME NEW m \in Int, NEW n \in Int, m <= n, NEW d \in Nat, d > 0
  PROVE  m \div d <= n \div d
<1>1. /\ m \div d \in Int /\ d * (m \div d) <= m /\ m < d * (m \div d) + d
  BY Divided
<1>2. /\ n \div d \in Int /\ d * (n \div d) <= n /\ n < d * (n \div d) + d
  BY Divided
<1> DEFINE a == m \div d
           b == n \div d
<1> HIDE DEF a, b
<1>3. a \in Int /\ b \in Int /\ d * a <= m /\ n < d * b + d
  BY <1>1, <1>2 DEF a, b
<1>4. ASSUME a >= b + 1 PROVE FALSE
  <2>1. d * a >= d * (b + 1)
    BY <1>3, <1>4
  <2>2. d * (b + 1) = d * b + d
    BY <1>3
  <2> QED BY <2>1, <2>2, <1>3
<1> QED BY <1>3, <1>4 DEF a, b

\* A number lies on one page only.
LEMMA OnePage ==
  ASSUME NEW p \in Nat, NEW q \in Nat, NEW i \in Ground(p), i \in Ground(q)
  PROVE  p = q
<1>1. i \in Int /\ p * PageSize < i /\ i <= (p + 1) * PageSize
  BY Sizes DEF Ground
<1>2. q * PageSize < i /\ i <= (q + 1) * PageSize
  BY Sizes DEF Ground
<1>3. ASSUME p < q PROVE FALSE
  <2>1. (p + 1) * PageSize <= q * PageSize
    BY <1>3, Sizes
  <2> QED BY <2>1, <1>1, <1>2, Sizes
<1>4. ASSUME q < p PROVE FALSE
  <2>1. (q + 1) * PageSize <= p * PageSize
    BY <1>4, Sizes
  <2> QED BY <2>1, <1>1, <1>2, Sizes
<1> QED BY <1>3, <1>4

\* The page a position lies on.
LEMMA PageOfPosition ==
  ASSUME NEW i \in Nat, i > 0
  PROVE  /\ (i - 1) \div PageSize \in Nat
         /\ i \in Ground((i - 1) \div PageSize)
<1> DEFINE p == (i - 1) \div PageSize
<1>1. p \in Int /\ PageSize * p <= i - 1 /\ i - 1 < PageSize * p + PageSize
  BY Divided, Sizes
<1> HIDE DEF p
<1>2. p >= 0
  <2>1. ASSUME p <= -1 PROVE FALSE
    <3>1. PageSize * p <= PageSize * (-1)
      BY <2>1, <1>1, Sizes
    <3> QED BY <3>1, <1>1, Sizes
  <2> QED BY <2>1, <1>1
<1>3. p * PageSize = PageSize * p /\ (p + 1) * PageSize = PageSize * p + PageSize
  BY <1>1, Sizes
<1>4. i \in Ground(p)
  BY <1>1, <1>2, <1>3, Sizes DEF Ground
<1> QED BY <1>1, <1>2, <1>4 DEF p

\* The positions of a page are those of its items in order.
LEMMA GroundIs ==
  ASSUME NEW p \in Nat
  PROVE  /\ p * PageSize \in Nat
         /\ Ground(p) = p * PageSize + 1 .. p * PageSize + PageSize
<1>1. p * PageSize \in Nat /\ (p + 1) * PageSize = p * PageSize + PageSize
  BY Sizes
<1> QED BY <1>1, Sizes DEF Ground

\* A page's positions are positions of the grid.
LEMMA PageFits ==
  ASSUME NEW p \in Page
  PROVE  p \in Nat /\ Ground(p) \subseteq Index
<1> DEFINE last == (Cardinality(Item) - 1) \div PageSize
           pages == (Cardinality(Item) + PageSize - 1) \div PageSize
<1>1. last \in Int /\ PageSize * last <= Cardinality(Item) - 1
  BY Divided, Sizes
<1>2. pages \in Int /\ Cardinality(Item) + PageSize - 1 < PageSize * pages + PageSize
  BY Divided, Sizes
<1>3. p \in Nat /\ p <= last
  BY <1>1 DEF Page
<1>4. Index = 1 .. pages * PageSize
  BY DEF Index
<1> HIDE DEF last, pages
<1>5. last + 1 <= pages
  <2>1. ASSUME pages <= last PROVE FALSE
    <3>1. PageSize * pages <= PageSize * last
      BY <2>1, <1>1, <1>2, Sizes
    <3> QED BY <3>1, <1>1, <1>2, Sizes
  <2> QED BY <2>1, <1>1, <1>2
<1>6. p * PageSize + PageSize <= pages * PageSize
  <2>1. (p + 1) * PageSize <= pages * PageSize
    BY <1>3, <1>5, <1>1, <1>2, Sizes
  <2>2. (p + 1) * PageSize = p * PageSize + PageSize
    BY <1>3, Sizes
  <2> QED BY <2>1, <2>2
<1>7. p * PageSize \in Nat /\ Ground(p) = p * PageSize + 1 .. p * PageSize + PageSize
  BY <1>3, GroundIs
<1>8. pages * PageSize \in Int
  BY <1>2, Sizes
<1> QED BY <1>3, <1>4, <1>6, <1>7, <1>8, Sizes

\* Every page a range asks for is a page of the grid.
LEMMA PagesInGrid ==
  ASSUME NEW r \in Nat \X Nat, NEW count \in Nat, count > 0, count <= Cardinality(Item)
  PROVE  PagesUnder(r, count) \subseteq Page
<1> DEFINE f == From(r, count)
           t == To(r, count)
<1>1. f \in Nat /\ f <= count - 1
  BY MaxOfTwo, MinOfTwo DEF From
<1>2. t \in Nat /\ t >= 1 /\ t <= count
  BY <1>1, MaxOfTwo, MinOfTwo DEF To
<1> HIDE DEF f, t
<1>3. f \div PageSize \in Int /\ f \div PageSize >= 0
  BY <1>1, Halved, Divided, Sizes, 0 \div PageSize = 0
<1>4. (t - 1) \div PageSize \in Int /\ (Cardinality(Item) - 1) \div PageSize \in Int
  BY <1>2, Divided, Sizes
<1>5. (t - 1) \div PageSize <= (Cardinality(Item) - 1) \div PageSize
  BY <1>2, Halved, Sizes
<1>6. PagesUnder(r, count) = f \div PageSize .. (t - 1) \div PageSize
  BY DEF PagesUnder, f, t
<1> QED BY <1>3, <1>4, <1>5, <1>6 DEF Page

-----------------------------------------------------------------------------
(* The order of a view.  The items held are counted off by place: the item at a *)
(* position is the one that as many places reach up to.                        *)

Chosen(v, held) == {n \in DOMAIN Listed[v] : Listed[v][n] \in held}

Rank(S, n) == Cardinality({m \in S : m <= n})

Nth(S, k) == CHOOSE n \in S : Rank(S, n) = k

\* A later place has more places up to it, and at most all of them.
LEMMA RankGrows ==
  ASSUME NEW S \in SUBSET Nat, IsFiniteSet(S), NEW n \in S
  PROVE  /\ Rank(S, n) \in 1 .. Cardinality(S)
         /\ \A m \in S : m < n => Rank(S, m) < Rank(S, n)
<1> DEFINE upto(m) == {x \in S : x <= m}
<1>1. \A m : IsFiniteSet(upto(m)) /\ Cardinality(upto(m)) \in Nat
             /\ Cardinality(upto(m)) <= Cardinality(S)
  BY FS_Subset, FS_CardinalityType
<1>2. Cardinality(upto(n)) # 0
  BY <1>1, FS_EmptySet, n \in upto(n)
<1>3. ASSUME NEW m \in S, m < n PROVE Cardinality(upto(m)) < Cardinality(upto(n))
  <2>1. upto(m) \in SUBSET upto(n)
    <3>1. m \in Nat /\ n \in Nat /\ (\A x \in S : x \in Nat)
      BY <1>3
    <3>2. \A x \in S : x <= m => x <= n
      BY <3>1, <1>3
    <3> QED BY <3>2
  <2>2. n \in upto(n) /\ n \notin upto(m)
    BY <1>3
  <2>3. upto(m) # upto(n)
    BY <2>2
  <2> HIDE DEF upto
  <2>4. /\ Cardinality(upto(m)) <= Cardinality(upto(n))
        /\ Cardinality(upto(n)) = Cardinality(upto(m)) => upto(n) = upto(m)
    BY <1>1, <2>1, FS_Subset
  <2> QED BY <1>1, <2>3, <2>4
<1>4. Cardinality(S) \in Nat
  BY FS_CardinalityType
<1>5. \A m : Rank(S, m) = Cardinality(upto(m))
  BY DEF Rank
<1> HIDE DEF upto
<1> QED BY <1>1, <1>2, <1>3, <1>4, <1>5

\* Every position up to their number is the rank of one place.
LEMMA RankReaches ==
  ASSUME NEW S \in SUBSET Nat, IsFiniteSet(S), NEW k \in 1 .. Cardinality(S)
  PROVE  \E n \in S : Rank(S, n) = k
<1> DEFINE f == [n \in S |-> Rank(S, n)]
           T == 1 .. Cardinality(S)
<1>1. Cardinality(S) \in Nat
  BY FS_CardinalityType
<1>2. IsFiniteSet(T) /\ Cardinality(T) = Cardinality(S)
  BY <1>1, FS_Interval
<1>3. \A n \in S : Rank(S, n) \in T
  BY RankGrows
<1>4. ASSUME NEW m \in S, NEW n \in S, m # n PROVE f[m] # f[n]
  <2>1. m \in Nat /\ n \in Nat /\ (m < n \/ n < m)
    BY <1>4
  <2>2. CASE m < n
    BY <2>2, <1>3, RankGrows
  <2>3. CASE n < m
    BY <2>3, <1>3, RankGrows
  <2> QED BY <2>1, <2>2, <2>3
<1>5. f \in [S -> T]
  BY <1>3
<1>6. f \in Injection(S, T)
  BY <1>4, <1>5 DEF Injection, IsInjective
<1>7. f \in Surjection(S, T)
  BY <1>2, <1>6, FS_Injection
<1>8. \E n \in S : f[n] = k
  BY <1>7 DEF Surjection
<1> QED BY <1>8

\* The places in order: each is reached once, and the ranks give them back.
LEMMA NthIs ==
  ASSUME NEW S \in SUBSET Nat, IsFiniteSet(S)
  PROVE  /\ \A k \in 1 .. Cardinality(S) : Nth(S, k) \in S /\ Rank(S, Nth(S, k)) = k
         /\ \A n \in S : Rank(S, n) \in 1 .. Cardinality(S) /\ Nth(S, Rank(S, n)) = n
<1>1. ASSUME NEW k \in 1 .. Cardinality(S)
      PROVE  Nth(S, k) \in S /\ Rank(S, Nth(S, k)) = k
  BY RankReaches DEF Nth
<1>2. ASSUME NEW n \in S
      PROVE  Rank(S, n) \in 1 .. Cardinality(S) /\ Nth(S, Rank(S, n)) = n
  <2>1. Rank(S, n) \in 1 .. Cardinality(S)
    BY RankGrows
  <2> DEFINE m == Nth(S, Rank(S, n))
  <2>2. m \in S /\ Rank(S, m) = Rank(S, n)
    BY <2>1, <1>1
  <2> HIDE DEF m
  <2>3. m \in Nat /\ n \in Nat
    BY <2>2
  <2>4. ASSUME m < n PROVE FALSE
    BY <2>4, <2>1, <2>2, RankGrows
  <2>5. ASSUME n < m PROVE FALSE
    BY <2>5, <2>1, <2>2, RankGrows
  <2>6. m = n
    BY <2>3, <2>4, <2>5
  <2> QED BY <2>1, <2>6 DEF m
<1> QED BY <1>1, <1>2

\* A view lists different items at different places.
LEMMA Lists ==
  ASSUME NEW v \in View
  PROVE  /\ Listed[v] \in Seq(Item) /\ Len(Listed[v]) \in Nat
         /\ DOMAIN Listed[v] = 1 .. Len(Listed[v])
         /\ \A n \in DOMAIN Listed[v] : Listed[v][n] \in Item
         /\ \A m, n \in DOMAIN Listed[v] : Listed[v][m] = Listed[v][n] => m = n
<1>1. Listed[v] \in Seq(Item) /\ IsInjective(Listed[v])
  BY TimelineAssumption
<1>2. Len(Listed[v]) \in Nat /\ DOMAIN Listed[v] = 1 .. Len(Listed[v])
  BY <1>1, LenProperties
<1>3. \A n \in DOMAIN Listed[v] : Listed[v][n] \in Item
  BY <1>1, <1>2, ElementOfSeq
<1> QED BY <1>1, <1>2, <1>3 DEF IsInjective

\* The places chosen are a finite set of places.
LEMMA ChosenIs ==
  ASSUME NEW v \in View, NEW held
  PROVE  /\ Chosen(v, held) \in SUBSET Nat /\ IsFiniteSet(Chosen(v, held))
         /\ Chosen(v, held) \subseteq DOMAIN Listed[v]
         /\ Cardinality(Chosen(v, held)) \in Nat
         /\ Cardinality(Chosen(v, held)) <= Cardinality(Item)
<1>1. Chosen(v, held) \subseteq 1 .. Len(Listed[v]) /\ Len(Listed[v]) \in Nat
  BY Lists DEF Chosen
<1>2. IsFiniteSet(Chosen(v, held))
  <2> DEFINE T == 1 .. Len(Listed[v])
  <2>1. IsFiniteSet(T)
    BY <1>1, FS_Interval
  <2> HIDE DEF T
  <2>2. Chosen(v, held) \in SUBSET T
    BY <1>1 DEF T
  <2> QED BY <2>1, <2>2, FS_Subset
<1>3. Cardinality(Chosen(v, held)) \in Nat
  BY <1>2, FS_CardinalityType
<1> DEFINE f == [n \in Chosen(v, held) |-> Listed[v][n]]
<1>4. f \in Injection(Chosen(v, held), Item)
  BY Lists, <1>1 DEF Injection, IsInjective
<1>5. Cardinality(Chosen(v, held)) <= Cardinality(Item)
  BY <1>4, FS_Injection, TimelineAssumption
<1>6. Chosen(v, held) \in SUBSET Nat
  BY <1>1
<1> QED BY <1>1, <1>2, <1>3, <1>5, <1>6, Lists

\* A sequence by its places.
LEMMA SequenceOf ==
  ASSUME NEW S, NEW n \in Nat, NEW s, s \in [1 .. n -> S]
  PROVE  s \in Seq(S) /\ Len(s) = n /\ DOMAIN s = 1 .. n
<1>1. s \in Seq(S)
  BY SeqDef
<1> QED BY <1>1, LenProperties

\* What a view shows: the items held, each at the position of its rank.
LEMMA WithinIs ==
  ASSUME NEW v \in View, NEW held \in SUBSET Item
  PROVE  /\ Within(v, held) \in Seq(Item)
         /\ Len(Within(v, held)) = Cardinality(Chosen(v, held))
         /\ Len(Within(v, held)) \in Nat /\ Len(Within(v, held)) <= Cardinality(Item)
         /\ DOMAIN Within(v, held) = 1 .. Len(Within(v, held))
         /\ \A k \in DOMAIN Within(v, held) :
               Within(v, held)[k] = Listed[v][Nth(Chosen(v, held), k)]
         /\ \A k, l \in DOMAIN Within(v, held) :
               Within(v, held)[k] = Within(v, held)[l] => k = l
<1> DEFINE S == Chosen(v, held)
           W == [k \in 1 .. Cardinality(S) |-> Listed[v][Nth(S, k)]]
<1>1. Within(v, held) = W
  BY DEF Within, Chosen, Nth, Rank
<1>2. /\ S \in SUBSET Nat /\ IsFiniteSet(S) /\ S \subseteq DOMAIN Listed[v]
      /\ Cardinality(S) \in Nat /\ Cardinality(S) <= Cardinality(Item)
  BY ChosenIs
<1>3. \A k \in 1 .. Cardinality(S) : Nth(S, k) \in S /\ Rank(S, Nth(S, k)) = k
  BY <1>2, NthIs
<1>4. W \in [1 .. Cardinality(S) -> Item]
  BY <1>2, <1>3, Lists
<1>5. W \in Seq(Item) /\ Len(W) = Cardinality(S) /\ DOMAIN W = 1 .. Cardinality(S)
  BY <1>2, <1>4, SequenceOf
<1>6. ASSUME NEW k \in 1 .. Cardinality(S), NEW l \in 1 .. Cardinality(S), W[k] = W[l]
      PROVE  k = l
  <2>1. Nth(S, k) \in DOMAIN Listed[v] /\ Nth(S, l) \in DOMAIN Listed[v]
    BY <1>2, <1>3
  <2>2. Listed[v][Nth(S, k)] = Listed[v][Nth(S, l)]
    BY <1>6
  <2>3. Nth(S, k) = Nth(S, l)
    BY <2>1, <2>2, Lists
  <2> QED BY <2>3, <1>3
<1> QED BY <1>1, <1>2, <1>5, <1>6

\* The items chosen after an item are the ones at the positions after its own.
LEMMA AfterIsRest ==
  ASSUME NEW v \in View, NEW held \in SUBSET Item, NEW k \in DOMAIN Within(v, held)
  PROVE  LET W == Within(v, held)
             R == Within(v, held \cap After(v, W[k]))
         IN  Len(R) = Len(W) - k /\ \A j \in 1 .. Len(R) : R[j] = W[k + j]
<1> DEFINE S == Chosen(v, held)
           x == Within(v, held)[k]
           at == Nth(S, k)
           U == Chosen(v, held \cap After(v, x))
<1>1. /\ S \in SUBSET Nat /\ IsFiniteSet(S) /\ S \subseteq DOMAIN Listed[v]
      /\ Cardinality(S) \in Nat
  BY ChosenIs
<1>2. /\ \A i \in 1 .. Cardinality(S) : Nth(S, i) \in S /\ Rank(S, Nth(S, i)) = i
      /\ \A n \in S : Rank(S, n) \in 1 .. Cardinality(S) /\ Nth(S, Rank(S, n)) = n
  BY <1>1, NthIs
<1>3. k \in 1 .. Cardinality(S) /\ x = Listed[v][at]
  BY WithinIs
<1>4. at \in S /\ at \in Nat /\ Rank(S, at) = k /\ at \in DOMAIN Listed[v]
  BY <1>1, <1>2, <1>3
<1>5. After(v, x) = {Listed[v][n] : n \in at + 1 .. Len(Listed[v])}
  <2>1. x = Listed[v][at]
    BY <1>3
  <2> HIDE DEF x, at, S
  <2>2. \A n \in DOMAIN Listed[v] : Listed[v][n] = x => n = at
    BY <2>1, <1>4, Lists
  <2>3. (CHOOSE n \in DOMAIN Listed[v] : Listed[v][n] = x) = at
    BY <2>1, <2>2, <1>4
  <2> QED BY <2>3 DEF After
<1>6. U = {n \in S : n > at}
  <2>1. \A n : n \in U <=> n \in DOMAIN Listed[v] /\ Listed[v][n] \in held
                                /\ Listed[v][n] \in After(v, x)
    BY DEF Chosen
  <2>2. \A n \in DOMAIN Listed[v] : Listed[v][n] \in After(v, x) <=> n > at
    <3>1. /\ DOMAIN Listed[v] = 1 .. Len(Listed[v]) /\ Len(Listed[v]) \in Nat
          /\ \A m, n \in DOMAIN Listed[v] : Listed[v][m] = Listed[v][n] => m = n
      BY Lists
    <3>2. at \in 1 .. Len(Listed[v])
      BY <1>4, <3>1
    <3> HIDE DEF x, at
    <3>3. ASSUME NEW n \in DOMAIN Listed[v], n > at PROVE Listed[v][n] \in After(v, x)
      <4>1. n \in at + 1 .. Len(Listed[v])
        BY <3>1, <3>2, <3>3
      <4> QED BY <4>1, <1>5
    <3>4. ASSUME NEW n \in DOMAIN Listed[v], Listed[v][n] \in After(v, x) PROVE n > at
      <4>1. PICK m \in at + 1 .. Len(Listed[v]) : Listed[v][n] = Listed[v][m]
        BY <3>4, <1>5
      <4>2. m \in DOMAIN Listed[v] /\ m > at
        BY <4>1, <3>1, <3>2
      <4> QED BY <4>1, <4>2, <3>1, <3>4
    <3> QED BY <3>3, <3>4
  <2>3. \A n : n \in S <=> n \in DOMAIN Listed[v] /\ Listed[v][n] \in held
    BY DEF Chosen
  <2> HIDE DEF S, U, x, at
  <2> QED BY <2>1, <2>2, <2>3
<1> DEFINE W == Within(v, held)
           R == Within(v, held \cap After(v, x))
<1>7. /\ U \in SUBSET Nat /\ IsFiniteSet(U) /\ Cardinality(U) \in Nat
  BY ChosenIs
<1>8. /\ Len(W) = Cardinality(S) /\ DOMAIN W = 1 .. Cardinality(S)
      /\ \A j \in DOMAIN W : W[j] = Listed[v][Nth(S, j)]
  BY WithinIs
<1>9. /\ Len(R) = Cardinality(U) /\ DOMAIN R = 1 .. Cardinality(U)
      /\ \A j \in DOMAIN R : R[j] = Listed[v][Nth(U, j)]
  <2>1. held \cap After(v, x) \in SUBSET Item
    OBVIOUS
  <2> HIDE DEF x, U
  <2> QED BY <2>1, WithinIs DEF U
<1>10. \A j \in 1 .. Cardinality(U) : Nth(U, j) \in U /\ Rank(U, Nth(U, j)) = j
  BY <1>7, NthIs
<1> DEFINE upto == {m \in S : m <= at}
<1>11. Cardinality(upto) = k /\ IsFiniteSet(upto)
  BY <1>1, <1>4, FS_Subset DEF Rank
<1>12. Cardinality(U) = Cardinality(S) - k
  <2>1. S \cap upto = upto /\ U = S \ upto
    <3> HIDE DEF S, at, U
    <3>1. \A m \in S : m \in Nat
      BY <1>1
    <3>2. at \in Nat
      BY <1>4
    <3>3. \A m \in S : (m <= at) <=> ~(m > at)
      BY <3>1, <3>2
    <3> QED BY <3>3, <1>6
  <2> HIDE DEF S, U, upto, at
  <2> QED BY <2>1, <1>1, <1>11, FS_Difference
<1>13. ASSUME NEW n \in U PROVE Rank(S, n) = Rank(U, n) + k
  <2> DEFINE A == {m \in S : m <= n}
             B == {m \in U : m <= n}
  <2>1. IsFiniteSet(A) /\ IsFiniteSet(B)
    BY <1>1, <1>7, FS_Subset
  <2>2. A = upto \cup B /\ upto \cap B = {}
    <3> HIDE DEF S, at, U
    <3>1. \A m \in S : m \in Nat
      BY <1>1
    <3>2. n \in S /\ n > at /\ n \in Nat
      BY <1>6, <3>1
    <3>3. \A m \in S : m <= at => m <= n
      BY <3>1, <3>2, <1>4
    <3>4. \A m \in S : (m <= at) <=> ~(m > at)
      <4>1. at \in Nat
        BY <1>4
      <4> QED BY <3>1, <4>1
    <3> QED BY <3>3, <3>4, <1>6
  <2>3. Cardinality(A) = Rank(S, n) /\ Cardinality(B) = Rank(U, n)
    BY DEF Rank
  <2>4. Cardinality(B) \in Nat /\ Cardinality({}) = 0
    BY <2>1, FS_CardinalityType, FS_EmptySet
  <2> HIDE DEF A, B, upto, S, U
  <2>5. Cardinality(A) = k + Cardinality(B) - 0
    BY <2>1, <2>2, <2>4, <1>11, FS_Union
  <2> QED BY <2>3, <2>4, <2>5, <1>3
<1>14. ASSUME NEW j \in 1 .. Cardinality(U)
       PROVE  Nth(U, j) = Nth(S, k + j) /\ k + j \in 1 .. Cardinality(S)
  <2>1. Nth(U, j) \in U /\ Rank(U, Nth(U, j)) = j
    BY <1>10
  <2>2. Nth(U, j) \in S /\ Rank(S, Nth(U, j)) = k + j
    <3>1. Nth(U, j) \in S
      BY <2>1, <1>6
    <3> HIDE DEF S, U
    <3> QED BY <3>1, <2>1, <1>13, <1>3
  <2> HIDE DEF S, U
  <2> QED BY <2>2, <1>2
<1> HIDE DEF S, U, W, R, x, at
<1>15. \A j \in 1 .. Len(R) : R[j] = W[k + j]
  BY <1>8, <1>9, <1>14
<1>16. Len(R) = Len(W) - k
  BY <1>8, <1>9, <1>12
<1> QED BY <1>15, <1>16 DEF R, W, x

-----------------------------------------------------------------------------
(* What the server answers. *)

\* A table has a heading of its view for each item shown.
LEMMA TableIs ==
  ASSUME NEW v \in View, NEW held \in SUBSET Item
  PROVE  TableOf(v, held) \in Table
<1> DEFINE W == Within(v, held)
<1>1. /\ W \in Seq(Item) /\ Len(W) \in Nat /\ Len(W) <= Cardinality(Item)
      /\ DOMAIN W = 1 .. Len(W)
  BY WithinIs
<1>2. ASSUME NEW n \in DOMAIN W PROVE Heading(v, W[n]) \in Headings
  <2>1. W[n] \in Item
    BY <1>1, <1>2
  <2> HIDE DEF W
  <2> QED BY <2>1 DEF Headings, Heading
<1> DEFINE T == [n \in DOMAIN W |-> Heading(v, W[n])]
<1>3. TableOf(v, held) = T
  BY DEF TableOf
<1>4. T \in [1 .. Len(W) -> Headings]
  BY <1>1, <1>2
<1>5. T \in Seq(Headings) /\ Len(T) = Len(W)
  BY <1>1, <1>4, SequenceOf
<1> QED BY <1>1, <1>3, <1>5 DEF Table

\* What is left of a sequence from a position on.
LEMMA SubSeqIs ==
  ASSUME NEW s \in Seq(Item), NEW m \in Nat, NEW n \in Nat, n <= Len(s)
  PROVE  /\ SubSeq(s, m + 1, n) \in Seq(Item)
         /\ Len(SubSeq(s, m + 1, n)) = IF m <= n THEN n - m ELSE 0
         /\ \A j \in 1 .. n - m : SubSeq(s, m + 1, n)[j] = s[m + j]
<1>1. Len(s) \in Nat /\ \A i \in 1 .. Len(s) : s[i] \in Item
  BY LenProperties, ElementOfSeq
<1>2. \A i \in m + 1 .. n : s[i] \in Item
  BY <1>1
<1>3. m + 1 \in Int /\ n \in Int
  OBVIOUS
<1> DEFINE f == m + 1
<1>4. f \in Int /\ (\A i \in f .. n : s[i] \in Item)
  BY <1>2
<1> HIDE DEF f
<1>5. /\ SubSeq(s, f, n) \in Seq(Item)
      /\ Len(SubSeq(s, f, n)) = IF f <= n THEN n - f + 1 ELSE 0
      /\ \A i \in 1 .. n - f + 1 : SubSeq(s, f, n)[i] = s[f + i - 1]
  BY <1>3, <1>4, SubSeqProperties
<1> USE DEF f
<1>6. Len(SubSeq(s, f, n)) = IF m <= n THEN n - m ELSE 0
  BY <1>5
<1>7. ASSUME NEW j \in 1 .. n - m PROVE SubSeq(s, f, n)[j] = s[m + j]
  <2>1. j \in 1 .. n - f + 1 /\ f + j - 1 = m + j
    OBVIOUS
  <2> QED BY <2>1, <1>5
<1> QED BY <1>5, <1>6, <1>7

\* What is left of a view after an item or an offset are items.
LEMMA RestIs ==
  ASSUME NEW v \in View, NEW held \in SUBSET Item, NEW start, NEW p \in Nat
  PROVE  Rest(v, held, start, p) \in Seq(Item)
<1>1. Within(v, held \cap After(v, start)) \in Seq(Item)
  BY WithinIs
<1>2. Within(v, held) \in Seq(Item) /\ Len(Within(v, held)) \in Nat
  BY WithinIs
<1>3. p * PageSize \in Nat
  BY GroundIs
<1>4. SubSeq(Within(v, held), p * PageSize + 1, Len(Within(v, held))) \in Seq(Item)
  BY <1>2, <1>3, SubSeqIs
<1> QED BY <1>1, <1>4 DEF Rest

\* An answer has at most a page of items.
LEMMA PageIs ==
  ASSUME NEW v \in View, NEW held \in SUBSET Item, NEW start, NEW p \in Nat
  PROVE  /\ PageOf(v, held, start, p) \in Answer
         /\ LET rest == Rest(v, held, start, p)
                page == PageOf(v, held, start, p)
            IN  /\ Len(page.items) = IF PageSize <= Len(rest) THEN PageSize ELSE Len(rest)
                /\ DOMAIN page.items = 1 .. Len(page.items)
                /\ \A n \in DOMAIN page.items : page.items[n] = rest[n]
                /\ page.next # None =>
                      Len(rest) > PageSize /\ page.next = page.items[PageSize]
<1> DEFINE rest == Rest(v, held, start, p)
           size == IF PageSize <= Len(rest) THEN PageSize ELSE Len(rest)
           items == SubSeq(rest, 1, size)
           next == IF Len(rest) > PageSize /\ v \in Dated
                   THEN Last(items) ELSE None
<1>1. rest \in Seq(Item) /\ Len(rest) \in Nat
  BY RestIs, LenProperties
<1> HIDE DEF rest
<1>2. size \in Nat /\ size <= Len(rest) /\ size <= PageSize
  BY <1>1, Sizes
<1>3. PageOf(v, held, start, p) = [items |-> items, next |-> next]
  <2>1. Min({PageSize, Len(rest)}) = size
    BY <1>1, Sizes, MinOfTwo
  <2> QED BY <2>1 DEF PageOf, rest
<1> HIDE DEF size
<1>4. /\ items \in Seq(Item) /\ Len(items) = size
      /\ \A j \in 1 .. size : items[j] = rest[j]
  <2>1. /\ SubSeq(rest, 0 + 1, size) \in Seq(Item)
        /\ Len(SubSeq(rest, 0 + 1, size)) = IF 0 <= size THEN size - 0 ELSE 0
        /\ \A j \in 1 .. size - 0 : SubSeq(rest, 0 + 1, size)[j] = rest[0 + j]
    BY <1>1, <1>2, SubSeqIs, 0 \in Nat
  <2>2. 0 + 1 = 1 /\ 0 <= size /\ size - 0 = size
    BY <1>2
  <2>3. \A j \in 1 .. size : 0 + j = j
    BY <1>2
  <2> QED BY <2>1, <2>2, <2>3
<1>5. DOMAIN items = 1 .. size
  BY <1>4, LenProperties
<1> HIDE DEF items
<1>6. ASSUME Len(rest) > PageSize
      PROVE  size = PageSize /\ Last(items) = items[PageSize] /\ Last(items) \in Item
  <2>1. size = PageSize
    BY <1>1, <1>6, Sizes DEF size
  <2>2. Last(items) = items[PageSize]
    BY <2>1, <1>4 DEF Last
  <2>3. items[PageSize] \in Item
    BY <2>1, <1>4, ElementOfSeq, Sizes
  <2> QED BY <2>1, <2>2, <2>3
<1>7. next \in Item \cup {None}
  BY <1>6
<1>8. items \in Items
  BY <1>2, <1>4 DEF Items
<1>9. next # None => Len(rest) > PageSize /\ next = items[PageSize]
  BY <1>6
<1> HIDE DEF next
<1>10. PageOf(v, held, start, p) \in Answer
  BY <1>3, <1>7, <1>8 DEF Answer
<1>11. PageOf(v, held, start, p).items = items /\ PageOf(v, held, start, p).next = next
  BY <1>3
<1> QED BY <1>4, <1>5, <1>9, <1>10, <1>11 DEF rest, size

\* Whether it continues from the item before it or starts at its offset, a page is
\* what the view shows there, and the cursor it gives is the item before the next.
LEMMA PageHere ==
  ASSUME NEW v \in View, NEW held \in SUBSET Item, NEW start, NEW p \in Nat,
         start # None =>
            /\ p * PageSize \in DOMAIN Within(v, held)
            /\ Within(v, held)[p * PageSize] = start
  PROVE  LET W == Within(v, held)
             page == PageOf(v, held, start, p)
         IN  /\ \A n \in DOMAIN page.items :
                   p * PageSize + n \in DOMAIN W /\ page.items[n] = W[p * PageSize + n]
             /\ page.next # None =>
                   /\ (p + 1) * PageSize \in DOMAIN W
                   /\ W[(p + 1) * PageSize] = page.next
<1> DEFINE W == Within(v, held)
           rest == Rest(v, held, start, p)
           page == PageOf(v, held, start, p)
           off == p * PageSize
<1>1. W \in Seq(Item) /\ Len(W) \in Nat /\ DOMAIN W = 1 .. Len(W)
  BY WithinIs
<1>2. off \in Nat /\ (p + 1) * PageSize = off + PageSize
  BY GroundIs, Sizes
<1>3. Len(rest) \in Nat /\ DOMAIN rest = 1 .. Len(rest)
  BY RestIs, LenProperties
<1>4. /\ Len(rest) > 0 => Len(rest) = Len(W) - off
      /\ \A j \in 1 .. Len(rest) : rest[j] = W[off + j]
  <2>1. CASE start # None
    <3>1. off \in DOMAIN W /\ W[off] = start
      BY <2>1
    <3>2. rest = Within(v, held \cap After(v, W[off]))
      BY <2>1, <3>1 DEF Rest
    <3> HIDE DEF rest, off
    <3>3. Len(rest) = Len(W) - off /\ \A j \in 1 .. Len(rest) : rest[j] = W[off + j]
      BY <3>1, <3>2, AfterIsRest
    <3> QED BY <3>3
  <2>2. CASE start = None
    <3>1. rest = SubSeq(W, off + 1, Len(W))
      BY <2>2 DEF Rest
    <3> HIDE DEF rest, off, W
    <3>2. /\ Len(rest) = IF off <= Len(W) THEN Len(W) - off ELSE 0
          /\ \A j \in 1 .. Len(W) - off : rest[j] = W[off + j]
      BY <3>1, <1>1, <1>2, SubSeqIs
    <3>3. Len(rest) > 0 => Len(rest) = Len(W) - off
      <4>1. Len(rest) = IF off <= Len(W) THEN Len(W) - off ELSE 0
        BY <3>2
      <4>2. Len(W) \in Nat /\ off \in Nat
        BY <1>1, <1>2
      <4> QED BY <4>1, <4>2
    <3>4. \A j \in 1 .. Len(rest) : j \in 1 .. Len(W) - off
      <4>1. Len(rest) = IF off <= Len(W) THEN Len(W) - off ELSE 0
        BY <3>2
      <4>2. Len(W) \in Nat /\ off \in Nat
        BY <1>1, <1>2
      <4> QED BY <4>1, <4>2
    <3> QED BY <3>2, <3>3, <3>4
  <2> QED BY <2>1, <2>2
<1>5. /\ Len(page.items) = IF PageSize <= Len(rest) THEN PageSize ELSE Len(rest)
      /\ DOMAIN page.items = 1 .. Len(page.items)
      /\ \A n \in DOMAIN page.items : page.items[n] = rest[n]
      /\ page.next # None => Len(rest) > PageSize /\ page.next = page.items[PageSize]
  BY PageIs
<1> HIDE DEF W, rest, page, off
<1>6. ASSUME NEW n \in DOMAIN page.items
      PROVE  off + n \in DOMAIN W /\ page.items[n] = W[off + n]
  <2>1. n \in 1 .. Len(rest)
    BY <1>3, <1>5, Sizes
  <2>2. off + n \in 1 .. Len(W)
    BY <2>1, <1>1, <1>2, <1>3, <1>4
  <2> QED BY <2>1, <2>2, <1>1, <1>4, <1>5
<1>7. ASSUME page.next # None
      PROVE  off + PageSize \in DOMAIN W /\ W[off + PageSize] = page.next
  <2>1. PageSize \in DOMAIN page.items /\ page.next = page.items[PageSize]
    BY <1>5, <1>7, <1>3, Sizes
  <2> QED BY <2>1, <1>6
<1> QED BY <1>2, <1>6, <1>7 DEF W, page, off

-----------------------------------------------------------------------------
(* The requests that are out. *)

\* Typing says all that TypeOK does.
LEMMA TypingMeansTypeOK == Typing => TypeOK
<1> SUFFICES ASSUME Typing PROVE TypeOK
  OBVIOUS
<1>1. /\ archive \subseteq Item /\ stored \in BOOLEAN /\ view \in View
      /\ want \in [Caller -> Asks \cup {<<0, 1>>, None}]
      /\ resyncs \in 0 .. MaxResyncs
      /\ {notice, emptying, shifted} \subseteq BOOLEAN
      /\ reads \subseteq [page : Page, of : View]
      /\ (~stored => reads = {} /\ ~emptying /\ store = EmptyStore /\ ~load.reading)
  BY DEF Typing, World, Shelf, Ranges
<1>2. /\ slot \in [Index -> Item \cup {None}]
      /\ where \in [Item -> Index \cup {0}]
      /\ done \subseteq Page /\ spoiled \subseteq done
      /\ cursor \in [Page -> Item \cup {None}]
      /\ DOMAIN flight \subseteq Page \ done /\ Cardinality(DOMAIN flight) <= MaxInFlight
  BY DEF Typing, Sheet, Out
<1>3. table \in Seq({Undated} \cup {Day[x] : x \in Item})
  BY DEF Typing, Tables, Table, Headings
<1>4. load.phase \in {"asked", "answered", "failed"}
  BY DEF Typing, Tables, LoadType
<1> QED BY <1>1, <1>2, <1>3, <1>4 DEF TypeOK

\* There are finitely many pages.
LEMMA PagesFinite == IsFiniteSet(Page) /\ Page \subseteq Nat
<1>1. (Cardinality(Item) - 1) \div PageSize \in Int
  BY Divided, Sizes
<1> DEFINE last == (Cardinality(Item) - 1) \div PageSize
<1> HIDE DEF last
<1>2. last \in Int /\ Page = 0 .. last
  BY <1>1 DEF Page, last
<1>3. IsFiniteSet(0 .. last)
  BY <1>2, FS_Interval
<1> QED BY <1>2, <1>3

\* What is wanted are pages of the grid.
LEMMA WantedInGrid ==
  ASSUME NEW w \in [Caller -> Ranges], NEW t \in Table, t # <<>>
  PROVE  Wanted(w, t) \subseteq Page
<1>1. Len(t) \in Nat /\ Len(t) > 0 /\ Len(t) <= Cardinality(Item)
  BY EmptySeq, LenProperties DEF Table
<1>2. ASSUME NEW d \in Caller, w[d] # None PROVE PagesUnder(w[d], Len(t)) \subseteq Page
  <2>1. w[d] \in Nat \X Nat
    BY <1>2, TimelineAssumption DEF Ranges
  <2> QED BY <2>1, <1>1, PagesInGrid
<1> QED BY <1>2 DEF Wanted

\* A pump keeps requests or makes them, for pages not in hand, and keeps the bound.
LEMMA PumpIs ==
  ASSUME NEW w \in [Caller -> Ranges], NEW t \in Table, NEW d, NEW f, Out(f, d),
         NEW c \in [Page -> Item \cup {None}], NEW g \in Pump(t, w, d, f, c)
  PROVE  /\ Out(g, d)
         /\ \A p \in DOMAIN g : \/ p \in DOMAIN f /\ g[p] = f[p]
                                \/ p \in Page /\ g[p] = Request(p, c)
<1>1. CASE t = <<>>
  <2>1. g = f
    BY <1>1 DEF Pump
  <2> QED BY <2>1
<1>2. CASE t # <<>>
  <2> DEFINE kept == DOMAIN f \cap Wanted(w, t)
             queue == Wanted(w, t) \ (d \cup kept)
             room == Max({0, MaxInFlight - Cardinality(kept)})
  <2>1. PICK s \in SUBSET queue :
          /\ Cardinality(s) = Min({room, Cardinality(queue)})
          /\ g = [p \in kept \cup s |-> IF p \in kept THEN f[p] ELSE Request(p, c)]
    BY <1>2 DEF Pump
  <2>2. Wanted(w, t) \subseteq Page /\ IsFiniteSet(Page)
    BY <1>2, WantedInGrid, PagesFinite
  <2>3. DOMAIN f \subseteq Page \ d /\ Cardinality(DOMAIN f) <= MaxInFlight
        /\ MaxInFlight \in Nat
    BY TimelineAssumption DEF Out
  <2>4. IsFiniteSet(DOMAIN f) /\ IsFiniteSet(Wanted(w, t))
    <3>1. DOMAIN f \in SUBSET Page /\ Wanted(w, t) \in SUBSET Page
      BY <2>2, <2>3
    <3> QED BY <3>1, <2>2, FS_Subset
  <2>5. /\ IsFiniteSet(kept) /\ Cardinality(kept) \in Nat
        /\ Cardinality(kept) <= Cardinality(DOMAIN f) /\ Cardinality(DOMAIN f) \in Nat
    BY <2>4, FS_Subset, FS_CardinalityType
  <2>6. IsFiniteSet(queue) /\ Cardinality(queue) \in Nat
    BY <2>4, FS_Subset, FS_CardinalityType
  <2>7. IsFiniteSet(s) /\ Cardinality(s) \in Nat
    BY <2>1, <2>6, FS_Subset, FS_CardinalityType
  <2> HIDE DEF kept, queue
  <2>8. room = MaxInFlight - Cardinality(kept)
    BY <2>3, <2>5, MaxOfTwo
  <2>9. Cardinality(s) <= room
    <3>1. room \in Int
      BY <2>8, <2>5, <2>3
    <3> HIDE DEF room
    <3>2. Min({room, Cardinality(queue)}) <= room
      BY <3>1, <2>6, MinOfTwo
    <3> QED BY <3>2, <2>1
  <2>10. Cardinality(kept \cup s) <= Cardinality(kept) + Cardinality(s)
    <3>1. Cardinality(kept \cup s) = Cardinality(kept) + Cardinality(s) - Cardinality(kept \cap s)
      BY <2>5, <2>7, FS_Union
    <3>2. Cardinality(kept \cap s) \in Nat
      <4>1. IsFiniteSet(kept \cap s)
        BY <2>5, FS_Intersection
      <4> QED BY <4>1, FS_CardinalityType
    <3> QED BY <3>1, <3>2, <2>5, <2>7
  <2>11. DOMAIN g = kept \cup s
    BY <2>1
  <2>12. Cardinality(DOMAIN g) <= MaxInFlight
    <3>1. Cardinality(kept \cup s) \in Nat
      <4>1. IsFiniteSet(kept \cup s)
        BY <2>5, <2>7, FS_Union
      <4> QED BY <4>1, FS_CardinalityType
    <3> HIDE DEF room
    <3> QED BY <3>1, <2>8, <2>9, <2>10, <2>11, <2>5, <2>7, <2>3
  <2>13. DOMAIN g \subseteq Page \ d
    BY <2>1, <2>2, <2>3, <2>11 DEF kept, queue
  <2>14. \A p \in DOMAIN g : \/ p \in DOMAIN f /\ g[p] = f[p]
                             \/ p \in Page /\ g[p] = Request(p, c)
    BY <2>1, <2>11, <2>13 DEF kept
  <2>15. \A p \in DOMAIN g : g[p] \in Flight
    BY <2>14, <2>13 DEF Out, Flight, Request
  <2> QED BY <2>12, <2>13, <2>14, <2>15 DEF Out
<1> QED BY <1>1, <1>2

\* A pump and the reads that go with it.
LEMMA PumpedIs ==
  ASSUME NEW w \in [Caller -> Ranges], NEW t \in Table, NEW d, NEW f, Out(f, d),
         NEW c \in [Page -> Item \cup {None}], World, Shelf, Pumped(t, w, d, f, c)
  PROVE  /\ Out(flight', d)
         /\ \A p \in DOMAIN flight' : \/ p \in DOMAIN f /\ flight'[p] = f[p]
                                      \/ p \in Page /\ flight'[p] = Request(p, c)
         /\ reads' \subseteq [page : Page, of : View]
         /\ ~stored => reads' = {}
<1>1. PICK g \in Pump(t, w, d, f, c) :
         /\ flight' = g
         /\ reads' = IF stored
                     THEN reads \cup {[page |-> p, of |-> view] : p \in DOMAIN g \ DOMAIN f}
                     ELSE reads
  BY DEF Pumped
<1>2. /\ Out(g, d)
      /\ \A p \in DOMAIN g : \/ p \in DOMAIN f /\ g[p] = f[p]
                             \/ p \in Page /\ g[p] = Request(p, c)
  BY PumpIs
<1>3. DOMAIN g \subseteq Page
  BY <1>2 DEF Out
<1>4. reads' \subseteq [page : Page, of : View] /\ (~stored => reads' = {})
  BY <1>1, <1>3 DEF World, Shelf
<1> QED BY <1>1, <1>2, <1>4

-----------------------------------------------------------------------------
(* A load, and whatever leaves the drawing as it is. *)

\* An empty sequence has no positions, and nothing is out when no request is.
LEMMA NothingOut == DOMAIN <<>> = {} /\ \A d : Out(<<>>, d)
<1>1. DOMAIN <<>> = {}
  OBVIOUS
<1>2. Cardinality({}) = 0 /\ MaxInFlight \in Nat
  BY FS_EmptySet, TimelineAssumption
<1> QED BY <1>1, <1>2 DEF Out

\* A grid with nothing on it is a grid.
LEMMA BlankIsTyped ==
  /\ Blank \in [Index -> Item \cup {None}] /\ Nowhere \in [Item -> Index \cup {0}]
  /\ NoCursor \in [Page -> Item \cup {None}]
  /\ \A i \in Index : Blank[i] = None
  /\ \A x \in Item : Nowhere[x] = 0
  /\ \A p \in Page : NoCursor[p] = None
BY DEF Blank, Nowhere, NoCursor

\* A load starts a grid over.
LEMMA LoadKeeps ==
  ASSUME IInv, World', Shelf', store' \in StoreType, Load
  PROVE  IInv'
<1>1. /\ slot' = Blank /\ where' = Nowhere /\ done' = {} /\ cursor' = NoCursor
      /\ flight' = <<>> /\ spoiled' = {} /\ table' = table
      /\ load' = [phase |-> "asked", answer |-> None, painted |-> None, reading |-> stored]
  BY DEF Load, Clear, Forget
<1>2. stored \in BOOLEAN /\ table \in Table
  BY DEF IInv, Typing, World, Tables
<1>3. Tables'
  <2>1. load' \in LoadType
    BY <1>1, <1>2 DEF LoadType
  <2> QED BY <1>1, <1>2, <2>1 DEF Tables
<1>4. Sheet'
  BY <1>1, BlankIsTyped DEF Sheet
<1>5. Out(flight', done')
  BY <1>1, NothingOut
<1>6. Typing'
  BY <1>3, <1>4, <1>5 DEF Typing, Out
<1>7. OnScreen'
  BY <1>1 DEF OnScreen
<1>8. (DrawnInHand /\ Fetched /\ RightPlace /\ UnderItsHeading /\ DoneIsDrawn /\ Replaced)'
  <2>1. Drawn' = {}
    BY <1>1, BlankIsTyped DEF Drawn
  <2>2. DrawnInHand'
    BY <1>1, <2>1, BlankIsTyped DEF DrawnInHand
  <2>3. Fetched'
    BY <1>1, NothingOut, BlankIsTyped DEF Fetched
  <2>4. RightPlace' /\ UnderItsHeading' /\ DoneIsDrawn' /\ Replaced'
    BY <1>1, <2>1 DEF RightPlace, UnderItsHeading, DoneIsDrawn, Replaced
  <2> QED BY <2>2, <2>3, <2>4
<1> QED BY <1>6, <1>7, <1>8 DEF IInv

\* The grid as it was, under the same view of the same archive.
LEMMA SameDrawing ==
  ASSUME IInv, UNCHANGED <<archive, shifted, stored, view, table, slot, where, done,
                           cursor, spoiled, resyncs>>
  PROVE  /\ (DrawnInHand /\ RightPlace /\ UnderItsHeading /\ DoneIsDrawn /\ Replaced)'
         /\ Sheet'
<1>1. DrawnInHand' /\ RightPlace'
  BY DEF IInv, DrawnInHand, RightPlace, Drawn
<1>2. UnderItsHeading' /\ DoneIsDrawn'
  BY DEF IInv, UnderItsHeading, DoneIsDrawn, Drawn
<1>3. Replaced'
  BY DEF IInv, Replaced
<1>4. Sheet'
  BY DEF IInv, Typing, Sheet
<1> QED BY <1>1, <1>2, <1>3, <1>4

\* An error shown, a table on its way or a read answered leaves all else alone.
LEMMA QuietKeeps ==
  ASSUME IInv, UNCHANGED <<archive, shifted, stored, view, table, slot, where, done,
                           cursor, spoiled, resyncs, flight, want>>,
         load' \in LoadType, load'.painted = load.painted, store' \in StoreType,
         notice' \in BOOLEAN, Shelf'
  PROVE  IInv'
<1>1. /\ (DrawnInHand /\ RightPlace /\ UnderItsHeading /\ DoneIsDrawn /\ Replaced)'
      /\ Sheet'
  BY SameDrawing
<1>2. Fetched'
  BY DEF IInv, Fetched, Before
<1>3. OnScreen'
  BY DEF IInv, OnScreen
<1>4. World'
  BY DEF IInv, Typing, World
<1>5. Tables'
  BY DEF IInv, Typing, Tables
<1>6. Out(flight', done')
  BY DEF IInv, Typing
<1>7. Typing'
  BY <1>1, <1>4, <1>5, <1>6 DEF Typing, Out
<1> QED BY <1>1, <1>2, <1>3, <1>7 DEF IInv

\* What requests and cursors say of the items before them stays true while requests
\* are kept, made from the cursors, or answered as the archive stands.
LEMMA FetchedKeeps ==
  ASSUME IInv, UNCHANGED <<archive, shifted, view>>,
         NEW c, cursor' = c, \A p \in Page : ~shifted /\ c[p] # None => Before(c[p], p),
         \A p \in DOMAIN flight' :
            \/ p \in DOMAIN flight /\ flight'[p] = flight[p]
            \/ p \in Page /\ flight'[p] = Request(p, c)
            \/ /\ p \in DOMAIN flight
               /\ flight'[p].start = flight[p].start
               /\ flight'[p].answer = PageOf(view, archive, flight[p].start, p)
  PROVE  Fetched'
<1> SUFFICES ASSUME ~shifted PROVE Fetched'
  BY DEF Fetched
<1>1. \A p \in DOMAIN flight :
         /\ flight[p].start # None => Before(flight[p].start, p)
         /\ flight[p].answer # None =>
               flight[p].answer = PageOf(view, archive, flight[p].start, p)
  BY DEF IInv, Fetched
<1>2. ASSUME NEW p \in DOMAIN flight'
      PROVE  /\ flight'[p].start # None => Before(flight'[p].start, p)
             /\ flight'[p].answer # None =>
                   flight'[p].answer = PageOf(view, archive, flight'[p].start, p)
  <2>1. CASE p \in DOMAIN flight /\ flight'[p] = flight[p]
    BY <1>1, <2>1
  <2>2. CASE p \in Page /\ flight'[p] = Request(p, c)
    BY <2>2 DEF Request
  <2>3. CASE /\ p \in DOMAIN flight
             /\ flight'[p].start = flight[p].start
             /\ flight'[p].answer = PageOf(view, archive, flight[p].start, p)
    BY <1>1, <2>3
  <2> QED BY <2>1, <2>2, <2>3
<1>3. \A x, p : (Before(x, p))' <=> Before(x, p)
  BY DEF Before
<1> QED BY <1>2, <1>3 DEF Fetched, Before

\* Nothing moves but requests, ranges, the load, the store and the notice.
LEMMA FlightKeeps ==
  ASSUME IInv, UNCHANGED <<archive, shifted, stored, view, table, slot, where, done,
                           cursor, spoiled, resyncs>>,
         Out(flight', done), want' \in [Caller -> Ranges], notice' \in BOOLEAN,
         load' \in LoadType, load'.painted = load.painted, store' \in StoreType, Shelf',
         \A p \in DOMAIN flight' :
            \/ p \in DOMAIN flight /\ flight'[p] = flight[p]
            \/ p \in Page /\ flight'[p] = Request(p, cursor)
            \/ /\ p \in DOMAIN flight
               /\ flight'[p].start = flight[p].start
               /\ flight'[p].answer = PageOf(view, archive, flight[p].start, p)
  PROVE  IInv'
<1>1. /\ (DrawnInHand /\ RightPlace /\ UnderItsHeading /\ DoneIsDrawn /\ Replaced)'
      /\ Sheet'
  BY SameDrawing
<1>2. \A p \in Page : ~shifted /\ cursor[p] # None => Before(cursor[p], p)
  BY DEF IInv, Fetched
<1>3. Fetched'
  BY <1>2, FetchedKeeps
<1>4. OnScreen'
  BY DEF IInv, OnScreen
<1>5. World' /\ Tables'
  BY DEF IInv, Typing, World, Tables
<1>6. Typing'
  BY <1>1, <1>5 DEF Typing, Out
<1> QED BY <1>1, <1>3, <1>4, <1>6 DEF IInv

-----------------------------------------------------------------------------
(* The steps, one by one. *)

\* What the invariant says of types, where a step reads them.
LEMMA TypedState ==
  ASSUME IInv
  PROVE  /\ archive \in SUBSET Item /\ stored \in BOOLEAN /\ view \in View
         /\ want \in [Caller -> Ranges] /\ notice \in BOOLEAN /\ resyncs \in 0 .. MaxResyncs
         /\ table \in Table /\ load \in LoadType /\ store \in StoreType
         /\ World /\ Shelf /\ Sheet /\ Out(flight, done)
BY DEF IInv, Typing, World, Tables

\* A change of load that keeps it a load.
LEMMA LoadMoves ==
  ASSUME NEW l \in LoadType, NEW a \in Table \cup {None}
  PROVE  /\ [l EXCEPT !.answer = a] \in LoadType
         /\ [l EXCEPT !.answer = a].painted = l.painted
         /\ [l EXCEPT !.answer = a].reading = l.reading
         /\ [l EXCEPT !.reading = FALSE] \in LoadType
         /\ [l EXCEPT !.reading = FALSE].painted = l.painted
         /\ ~[l EXCEPT !.reading = FALSE].reading
         /\ [l EXCEPT !.phase = "failed", !.answer = None] \in LoadType
         /\ [l EXCEPT !.phase = "failed", !.answer = None].painted = l.painted
         /\ [l EXCEPT !.phase = "failed", !.answer = None].reading = l.reading
BY DEF LoadType

\* The archive answers with its table.
LEMMA TableAnsweredKeeps ==
  ASSUME IInv, TableAnswered
  PROVE  IInv'
<1>1. /\ load' = [load EXCEPT !.answer = TableOf(view, archive)]
      /\ UNCHANGED <<server, shelf, model, stored, view, want, resyncs, notice, reads>>
  BY DEF TableAnswered
<1>2. TableOf(view, archive) \in Table
  BY TypedState, TableIs
<1>3. load' \in LoadType /\ load'.painted = load.painted /\ load'.reading = load.reading
  BY <1>1, <1>2, TypedState, LoadMoves
<1>4. Shelf'
  BY <1>1, <1>3, TypedState DEF Shelf, shelf
<1> QED BY <1>1, <1>3, <1>4, TypedState, QuietKeeps DEF server, shelf, model

\* The table could not be had.
LEMMA TableFailedKeeps ==
  ASSUME IInv, TableFailed
  PROVE  IInv'
<1>1. /\ load' = [load EXCEPT !.phase = "failed", !.answer = None] /\ notice' = TRUE
      /\ UNCHANGED <<server, shelf, model, stored, view, want, resyncs, reads>>
  BY DEF TableFailed
<1>2. load' \in LoadType /\ load'.painted = load.painted /\ load'.reading = load.reading
  BY <1>1, TypedState, LoadMoves
<1>3. Shelf'
  BY <1>1, <1>2, TypedState DEF Shelf, shelf
<1> QED BY <1>1, <1>2, <1>3, TypedState, QuietKeeps DEF server, shelf, model

\* The store has no table.
LEMMA CacheSaysNothingKeeps ==
  ASSUME IInv, CacheSaysNothing
  PROVE  IInv'
<1>1. /\ load' = [load EXCEPT !.reading = FALSE]
      /\ UNCHANGED <<server, shelf, model, stored, view, want, resyncs, notice, reads>>
  BY DEF CacheSaysNothing
<1>2. load' \in LoadType /\ load'.painted = load.painted /\ ~load'.reading
  BY <1>1, TypedState, LoadMoves
<1>3. Shelf'
  BY <1>1, <1>2, TypedState DEF Shelf, shelf
<1> QED BY <1>1, <1>2, <1>3, TypedState, QuietKeeps DEF server, shelf, model

\* The server answers a request with a page.
LEMMA PageAnsweredKeeps ==
  ASSUME IInv, NEW p \in Page, PageAnswered(p)
  PROVE  IInv'
<1> DEFINE page == PageOf(view, archive, flight[p].start, p)
<1>1. /\ p \in DOMAIN flight
      /\ flight' = [flight EXCEPT ![p].answer = page]
      /\ UNCHANGED <<server, shelf, stored, view, table, slot, where, done, cursor, want,
                     resyncs, load, notice, reads, spoiled>>
  BY DEF PageAnswered
<1>2. flight[p] \in Flight /\ page \in Answer
  BY <1>1, TypedState, PagesFinite, PageIs DEF Out
<1> HIDE DEF page
<1>3. DOMAIN flight' = DOMAIN flight
  BY <1>1
<1>4. \A q \in DOMAIN flight : q # p => flight'[q] = flight[q]
  BY <1>1
<1>5. /\ flight'[p] \in Flight /\ flight'[p].start = flight[p].start
      /\ flight'[p].answer = page
  BY <1>1, <1>2 DEF Flight
<1>6. Out(flight', done)
  BY <1>3, <1>4, <1>5, TypedState DEF Out
<1>7. \A q \in DOMAIN flight' :
         \/ q \in DOMAIN flight /\ flight'[q] = flight[q]
         \/ /\ q \in DOMAIN flight
            /\ flight'[q].start = flight[q].start
            /\ flight'[q].answer = PageOf(view, archive, flight[q].start, q)
  BY <1>3, <1>4, <1>5 DEF page
<1>8. Shelf'
  BY <1>1, TypedState DEF Shelf, shelf
<1> QED BY <1>1, <1>6, <1>7, <1>8, TypedState, FlightKeeps DEF server, shelf

\* What is left when a request is gone.
LEMMA WithoutIs ==
  ASSUME NEW d, Out(flight, d), NEW p \in DOMAIN flight
  PROVE  Out(Without(p), d \cup {p}) /\ Out(Without(p), d)
         /\ DOMAIN Without(p) = DOMAIN flight \ {p}
         /\ \A q \in DOMAIN Without(p) : Without(p)[q] = flight[q]
<1>1. /\ DOMAIN Without(p) = DOMAIN flight \ {p}
      /\ \A q \in DOMAIN Without(p) : Without(p)[q] = flight[q]
  BY DEF Without
<1>2. DOMAIN flight \in SUBSET Page
  BY DEF Out
<1>3. IsFiniteSet(DOMAIN flight)
  BY <1>2, PagesFinite, FS_Subset
<1>4. /\ Cardinality(DOMAIN flight \ {p}) <= Cardinality(DOMAIN flight)
      /\ Cardinality(DOMAIN flight \ {p}) \in Nat /\ Cardinality(DOMAIN flight) \in Nat
  BY <1>3, FS_Subset, FS_CardinalityType
<1>5. Cardinality(DOMAIN Without(p)) <= MaxInFlight
  BY <1>1, <1>4, TimelineAssumption DEF Out
<1> QED BY <1>1, <1>5 DEF Out

\* A request that failed is gone.
LEMMA PageFailedKeeps ==
  ASSUME IInv, NEW p \in Page, PageFailed(p)
  PROVE  IInv'
<1>1. /\ p \in DOMAIN flight /\ flight' = Without(p) /\ notice' = TRUE
      /\ UNCHANGED <<server, shelf, stored, view, table, slot, where, done, cursor, want,
                     resyncs, load, reads, spoiled>>
  BY DEF PageFailed
<1>2. /\ Out(flight', done)
      /\ \A q \in DOMAIN flight' : q \in DOMAIN flight /\ flight'[q] = flight[q]
  BY <1>1, TypedState, WithoutIs
<1>3. Shelf'
  BY <1>1, TypedState DEF Shelf, shelf
<1> QED BY <1>1, <1>2, <1>3, TypedState, FlightKeeps DEF server, shelf

\* A range declared, moved or retired pumps.
LEMMA DeclareKeeps ==
  ASSUME IInv, NEW c \in Caller, NEW r \in Asks \cup {None}, Declare(c, r)
  PROVE  IInv'
<1>1. /\ want' = [want EXCEPT ![c] = r]
      /\ Pumped(table, want', done, flight, cursor)
      /\ UNCHANGED <<server, shelf, stored, view, table, slot, where, done, cursor,
                     resyncs, load, notice, spoiled>>
  BY DEF Declare
<1>2. want' \in [Caller -> Ranges]
  BY <1>1, TypedState DEF Ranges
<1>3. /\ Out(flight', done)
      /\ \A p \in DOMAIN flight' : \/ p \in DOMAIN flight /\ flight'[p] = flight[p]
                                   \/ p \in Page /\ flight'[p] = Request(p, cursor)
      /\ reads' \subseteq [page : Page, of : View]
      /\ ~stored => reads' = {}
  BY <1>1, <1>2, TypedState, PumpedIs DEF Sheet
<1>4. Shelf'
  BY <1>1, <1>3, TypedState DEF Shelf, shelf
<1> QED BY <1>1, <1>2, <1>3, <1>4, TypedState, FlightKeeps DEF server, shelf

\* Another view.
LEMMA SetViewKeeps ==
  ASSUME IInv, NEW v \in View, SetView(v)
  PROVE  IInv'
<1>1. /\ view' = v /\ Load
      /\ UNCHANGED <<server, shelf, stored, want, resyncs, reads>>
  BY DEF SetView
<1>2. /\ notice' = FALSE
      /\ load' = [phase |-> "asked", answer |-> None, painted |-> None, reading |-> stored]
  BY <1>1 DEF Load
<1>3. World'
  BY <1>1, <1>2, TypedState DEF World, server
<1>4. Shelf'
  BY <1>1, <1>2, TypedState DEF Shelf, shelf
<1> QED BY <1>1, <1>3, <1>4, TypedState, LoadKeeps DEF shelf

\* Trying again.
LEMMA RetryKeeps ==
  ASSUME IInv, Retry
  PROVE  IInv'
<1>1. /\ resyncs' = 0 /\ Load
      /\ UNCHANGED <<server, shelf, stored, view, want, reads>>
  BY DEF Retry
<1>2. /\ notice' = FALSE
      /\ load' = [phase |-> "asked", answer |-> None, painted |-> None, reading |-> stored]
  BY <1>1 DEF Load
<1>3. World'
  <2>1. resyncs' \in 0 .. MaxResyncs
    BY <1>1, TimelineAssumption
  <2> QED BY <1>1, <1>2, <2>1, TypedState DEF World, server
<1>4. Shelf'
  BY <1>1, <1>2, TypedState DEF Shelf, shelf
<1> QED BY <1>1, <1>3, <1>4, TypedState, LoadKeeps DEF shelf

\* After a write of this client's own.
LEMMA ReloadKeeps ==
  ASSUME IInv, Reload
  PROVE  IInv'
<1>1. /\ resyncs' = 0 /\ Load
      /\ reads' = {} /\ emptying' = stored /\ store' = store
      /\ UNCHANGED <<server, stored, view, want>>
  BY DEF Reload, DropStore
<1>2. /\ notice' = FALSE
      /\ load' = [phase |-> "asked", answer |-> None, painted |-> None, reading |-> stored]
  BY <1>1 DEF Load
<1>3. World'
  <2>1. resyncs' \in 0 .. MaxResyncs
    BY <1>1, TimelineAssumption
  <2> QED BY <1>1, <1>2, <2>1, TypedState DEF World, server
<1>4. Shelf'
  BY <1>1, <1>2, TypedState DEF Shelf
<1> QED BY <1>1, <1>3, <1>4, TypedState, LoadKeeps

\* A page refused starts the load over.
LEMMA PageRefusedKeeps ==
  ASSUME IInv, NEW p \in Page, PageRefused(p)
  PROVE  IInv'
<1>1. /\ resyncs < MaxResyncs /\ resyncs' = resyncs + 1 /\ Load
      /\ UNCHANGED <<server, shelf, stored, view, want, reads>>
  BY DEF PageRefused
<1>2. /\ notice' = FALSE
      /\ load' = [phase |-> "asked", answer |-> None, painted |-> None, reading |-> stored]
  BY <1>1 DEF Load
<1>3. World'
  <2>1. resyncs' \in 0 .. MaxResyncs
    BY <1>1, TypedState, TimelineAssumption
  <2> QED BY <1>1, <1>2, <2>1, TypedState DEF World, server
<1>4. Shelf'
  BY <1>1, <1>2, TypedState DEF Shelf, shelf
<1> QED BY <1>1, <1>3, <1>4, TypedState, LoadKeeps DEF shelf

\* An album changed: the store goes, the grid stays.
LEMMA AlbumsChangedKeeps ==
  ASSUME IInv, AlbumsChanged
  PROVE  IInv'
<1>1. /\ stored /\ reads' = {} /\ emptying' = stored /\ store' = store
      /\ load' = [load EXCEPT !.reading = FALSE]
      /\ UNCHANGED <<server, model, stored, view, want, resyncs, notice>>
  BY DEF AlbumsChanged, DropStore
<1>2. load' \in LoadType /\ load'.painted = load.painted /\ ~load'.reading
  BY <1>1, TypedState, LoadMoves
<1>3. Shelf'
  BY <1>1, <1>2, TypedState DEF Shelf
<1> QED BY <1>1, <1>2, <1>3, TypedState, QuietKeeps DEF server, model

\* The store is emptied.
LEMMA StoreEmptiedKeeps ==
  ASSUME IInv, StoreEmptied
  PROVE  IInv'
<1>1. /\ emptying' = FALSE /\ store' = EmptyStore
      /\ UNCHANGED <<server, model, stored, view, want, resyncs, load, notice, reads>>
  BY DEF StoreEmptied
<1>2. EmptyStore \in StoreType
  BY DEF EmptyStore, StoreType
<1>3. Shelf'
  BY <1>1, TypedState DEF Shelf
<1> QED BY <1>1, <1>2, <1>3, TypedState, QuietKeeps DEF server, model

\* A table laid out over an empty grid.
LEMMA LaidOutKeeps ==
  ASSUME IInv, UNCHANGED <<archive, shifted, stored, view, where, done, cursor, want,
                           resyncs, notice>>,
         table' \in Table, slot' = Blank, spoiled' = spoiled \cup done,
         load' \in LoadType, load'.painted = table', store' \in StoreType, Shelf',
         Out(flight', done),
         \A p \in DOMAIN flight' : \/ p \in DOMAIN flight /\ flight'[p] = flight[p]
                                   \/ p \in Page /\ flight'[p] = Request(p, cursor)
  PROVE  IInv'
<1>1. Drawn' = {}
  BY BlankIsTyped DEF Drawn
<1>2. World' /\ Tables'
  BY TypedState DEF World, Tables
<1>3. Sheet'
  BY TypedState, BlankIsTyped DEF Sheet
<1>4. Typing'
  BY <1>2, <1>3 DEF Typing, Out
<1>5. OnScreen'
  BY DEF OnScreen
<1>6. DrawnInHand'
  <2> SUFFICES ASSUME ~stored, NEW x \in Item, where[x] # 0
               PROVE  (\E p \in done : where[x] \in Ground(p)) /\ Blank[where[x]] = None
    BY <1>1 DEF DrawnInHand
  <2>1. where[x] \in Index
    BY TypedState DEF Sheet
  <2> QED BY <2>1, BlankIsTyped DEF IInv, DrawnInHand
<1>7. Fetched'
  <2>1. \A p \in Page : ~shifted /\ cursor[p] # None => Before(cursor[p], p)
    BY DEF IInv, Fetched
  <2> QED BY <2>1, FetchedKeeps
<1>8. done' \ spoiled' = {}
  OBVIOUS
<1>9. RightPlace' /\ UnderItsHeading' /\ DoneIsDrawn' /\ Replaced'
  BY <1>1, <1>8 DEF RightPlace, UnderItsHeading, DoneIsDrawn, Replaced
<1> QED BY <1>4, <1>5, <1>6, <1>7, <1>9 DEF IInv

\* A table that replaces another starts the grid over.
LEMMA ReplacedTableKeeps ==
  ASSUME IInv, UNCHANGED <<archive, shifted, stored, view, want, resyncs, notice>>,
         table' \in Table, Forget,
         load' \in LoadType, load'.painted = table', store' \in StoreType, Shelf',
         Out(flight', {}),
         \A p \in DOMAIN flight' : p \in Page /\ flight'[p] = Request(p, NoCursor)
  PROVE  IInv'
<1>1. /\ slot' = Blank /\ where' = Nowhere /\ done' = {} /\ cursor' = NoCursor
      /\ spoiled' = {}
  BY DEF Forget
<1>2. Drawn' = {}
  BY <1>1, BlankIsTyped DEF Drawn
<1>3. World' /\ Tables'
  BY TypedState DEF World, Tables
<1>4. Sheet'
  BY <1>1, BlankIsTyped DEF Sheet
<1>5. Typing'
  BY <1>1, <1>3, <1>4 DEF Typing, Out
<1>6. OnScreen'
  BY DEF OnScreen
<1>7. DrawnInHand'
  BY <1>1, <1>2, BlankIsTyped DEF DrawnInHand
<1>8. Fetched'
  <2>1. \A p \in Page : NoCursor[p] = None
    BY BlankIsTyped
  <2> QED BY <1>1, <2>1, FetchedKeeps
<1>9. RightPlace' /\ UnderItsHeading' /\ DoneIsDrawn' /\ Replaced'
  BY <1>1, <1>2 DEF RightPlace, UnderItsHeading, DoneIsDrawn, Replaced
<1> QED BY <1>5, <1>6, <1>7, <1>8, <1>9 DEF IInv

\* The archive's table lands.
LEMMA TableHandledKeeps ==
  ASSUME IInv, TableHandled
  PROVE  IInv'
<1> DEFINE t == load.answer
<1>1. /\ t # None /\ table' = t
      /\ load' = [load EXCEPT !.phase = "answered", !.answer = None, !.painted = t]
      /\ store' = IF stored THEN [store EXCEPT ![view].days = t] ELSE store
      /\ UNCHANGED <<server, emptying, stored, view, want, resyncs, notice>>
  BY DEF TableHandled
<1>2. t \in Table
  BY <1>1, TypedState DEF LoadType
<1>3. load' \in LoadType /\ load'.painted = t /\ load'.reading = load.reading
  BY <1>1, <1>2, TypedState DEF LoadType
<1>4. store' \in StoreType
  BY <1>1, <1>2, TypedState DEF StoreType
<1>5. ASSUME reads' \subseteq [page : Page, of : View], ~stored => reads' = {}
      PROVE  Shelf'
  BY <1>1, <1>3, <1>5, TypedState DEF Shelf
<1>6. cursor \in [Page -> Item \cup {None}] /\ NoCursor \in [Page -> Item \cup {None}]
  BY TypedState, BlankIsTyped DEF Sheet
<1>7. CASE load.painted = t
  <2>1. t = table
    BY <1>1, <1>7 DEF IInv, OnScreen
  <2>2. /\ UNCHANGED <<slot, where, done, cursor, spoiled>>
        /\ Pumped(t, want, done, flight, cursor)
    BY <1>7 DEF TableHandled
  <2> HIDE DEF t
  <2>3. /\ Out(flight', done)
        /\ \A p \in DOMAIN flight' : \/ p \in DOMAIN flight /\ flight'[p] = flight[p]
                                     \/ p \in Page /\ flight'[p] = Request(p, cursor)
        /\ reads' \subseteq [page : Page, of : View] /\ (~stored => reads' = {})
    BY <1>2, <1>6, <2>2, TypedState, PumpedIs
  <2>4. Shelf'
    BY <1>5, <2>3
  <2> QED BY <1>1, <1>3, <1>4, <1>7, <2>1, <2>2, <2>3, <2>4, TypedState, FlightKeeps
          DEF server
<1>8. CASE load.painted # t /\ load.painted = None
  <2>1. /\ slot' = Blank /\ spoiled' = spoiled \cup done
        /\ UNCHANGED <<where, done, cursor>>
        /\ Pumped(t, want, done, flight, cursor)
    BY <1>8 DEF TableHandled, TableLands
  <2> HIDE DEF t
  <2>2. /\ Out(flight', done)
        /\ \A p \in DOMAIN flight' : \/ p \in DOMAIN flight /\ flight'[p] = flight[p]
                                     \/ p \in Page /\ flight'[p] = Request(p, cursor)
        /\ reads' \subseteq [page : Page, of : View] /\ (~stored => reads' = {})
    BY <1>2, <1>6, <2>1, TypedState, PumpedIs
  <2>3. Shelf'
    BY <1>5, <2>2
  <2> QED BY <1>1, <1>2, <1>3, <1>4, <2>1, <2>2, <2>3, LaidOutKeeps DEF server
<1>9. CASE load.painted # t /\ load.painted # None
  <2>1. Forget /\ Pumped(t, want, {}, <<>>, NoCursor)
    BY <1>9 DEF TableHandled, TableLands
  <2> HIDE DEF t
  <2>2. /\ Out(flight', {})
        /\ \A p \in DOMAIN flight' : \/ p \in DOMAIN <<>> /\ flight'[p] = <<>>[p]
                                     \/ p \in Page /\ flight'[p] = Request(p, NoCursor)
        /\ reads' \subseteq [page : Page, of : View] /\ (~stored => reads' = {})
    BY <1>2, <1>6, <2>1, NothingOut, TypedState, PumpedIs
  <2>3. \A p \in DOMAIN flight' : p \in Page /\ flight'[p] = Request(p, NoCursor)
    BY <2>2, NothingOut
  <2>4. Shelf'
    BY <1>5, <2>2
  <2> QED BY <1>1, <1>2, <1>3, <1>4, <2>1, <2>2, <2>3, <2>4, ReplacedTableKeeps DEF server
<1> QED BY <1>7, <1>8, <1>9

\* A stored table is laid out.
LEMMA CacheLaysOutKeeps ==
  ASSUME IInv, CacheLaysOut
  PROVE  IInv'
<1> DEFINE t == store[view].days
<1>1. /\ t # None /\ table' = t
      /\ load' = [load EXCEPT !.reading = FALSE, !.painted = t]
      /\ slot' = Blank /\ spoiled' = spoiled \cup done
      /\ Pumped(t, want, done, flight, cursor)
      /\ UNCHANGED <<server, shelf, stored, view, where, done, cursor, want, resyncs,
                     notice>>
  BY DEF CacheLaysOut
<1>2. t \in Table
  <2>1. store[view] \in [days : Table \cup {None}, pages : [Page -> Items \cup {None}]]
    BY TypedState DEF StoreType
  <2>2. t \in Table \cup {None}
    BY <2>1
  <2> QED BY <1>1, <2>2
<1> HIDE DEF t
<1>3. load' \in LoadType /\ load'.painted = t /\ ~load'.reading
  BY <1>1, <1>2, TypedState DEF LoadType
<1>4. /\ Out(flight', done)
      /\ \A p \in DOMAIN flight' : \/ p \in DOMAIN flight /\ flight'[p] = flight[p]
                                   \/ p \in Page /\ flight'[p] = Request(p, cursor)
      /\ reads' \subseteq [page : Page, of : View] /\ (~stored => reads' = {})
  BY <1>1, <1>2, TypedState, PumpedIs DEF Sheet
<1>5. Shelf'
  BY <1>1, <1>3, <1>4, TypedState DEF Shelf, shelf
<1> QED BY <1>1, <1>2, <1>3, <1>4, <1>5, TypedState, LaidOutKeeps DEF server, shelf

-----------------------------------------------------------------------------
(* Writing a page into its slots. *)

\* The slots of a page take its items and no others change; each of its items is
\* known by a slot that holds it.
LEMMA WriteIs ==
  ASSUME Sheet, NEW p \in Page, NEW items \in Items
  PROVE  /\ WriteSlots(p, items) \in [Index -> Item \cup {None}]
         /\ \A i \in Index :
               IF i - p * PageSize \in DOMAIN items
               THEN i \in Ground(p) /\ WriteSlots(p, items)[i] = items[i - p * PageSize]
               ELSE WriteSlots(p, items)[i] = slot[i]
         /\ \A i \in Index : slot[i] # None => WriteSlots(p, items)[i] # None
         /\ WriteWhere(p, items) \in [Item -> Index \cup {0}]
         /\ \A x \in Item :
               IF x \in ToSet(items)
               THEN /\ WriteWhere(p, items)[x] \in Index \cap Ground(p)
                    /\ WriteWhere(p, items)[x] - p * PageSize \in DOMAIN items
                    /\ WriteSlots(p, items)[WriteWhere(p, items)[x]] = x
               ELSE WriteWhere(p, items)[x] = where[x]
<1> DEFINE off == p * PageSize
           S == WriteSlots(p, items)
           X == WriteWhere(p, items)
<1>1. items \in Seq(Item) /\ Len(items) \in Nat /\ Len(items) <= PageSize
      /\ DOMAIN items = 1 .. Len(items) /\ (\A n \in DOMAIN items : items[n] \in Item)
  BY LenProperties, ElementOfSeq DEF Items
<1>2. /\ p \in Nat /\ off \in Nat /\ Ground(p) = off + 1 .. off + PageSize
      /\ Ground(p) \subseteq Index
  BY PageFits, GroundIs
<1>3. Index \subseteq Int /\ None \notin Item
  BY TimelineAssumption DEF Index
<1> HIDE DEF off
<1>4. \A n \in DOMAIN items : off + n \in Ground(p) /\ off + n \in Int /\ off + n - off = n
  BY <1>1, <1>2, Sizes
<1>5. \A i \in Index : S[i] = IF i - off \in DOMAIN items THEN items[i - off] ELSE slot[i]
  BY DEF WriteSlots, off
<1>6. S \in [Index -> Item \cup {None}]
  <2>1. \A i \in Index : S[i] \in Item \cup {None}
    BY <1>1, <1>5 DEF Sheet
  <2>2. S = [i \in Index |-> S[i]]
    BY DEF WriteSlots
  <2> HIDE DEF S
  <2> QED BY <2>1, <2>2
<1>7. ASSUME NEW i \in Index, i - off \in DOMAIN items PROVE i \in Ground(p)
  BY <1>1, <1>2, <1>3, <1>7, Sizes
<1>8. ASSUME NEW x \in ToSet(items)
      PROVE  /\ X[x] \in Index \cap Ground(p) /\ X[x] - off \in DOMAIN items
             /\ S[X[x]] = x
  <2> DEFINE n == CHOOSE m \in DOMAIN items : items[m] = x
  <2>1. n \in DOMAIN items /\ items[n] = x
    BY DEF ToSet
  <2>2. x \in Item
    BY <2>1, <1>1
  <2>3. X[x] = off + n
    BY <2>2 DEF WriteWhere, off
  <2> HIDE DEF n, X, S
  <2>4. X[x] \in Ground(p) /\ X[x] \in Index /\ X[x] - off = n
    <3>1. off + n \in Ground(p) /\ off + n - off = n
      BY <2>1, <1>4
    <3>2. Ground(p) \subseteq Index
      BY <1>2
    <3>3. X[x] \in Ground(p)
      BY <2>3, <3>1
    <3>4. X[x] - off = n
      <4>1. n \in Nat /\ off \in Nat
        BY <2>1, <1>1, <1>2
      <4> QED BY <2>3, <4>1
    <3> QED BY <3>2, <3>3, <3>4
  <2> QED BY <2>1, <2>4, <1>5
<1>9. \A x \in Item : x \notin ToSet(items) => X[x] = where[x]
  BY DEF WriteWhere
<1>10. X \in [Item -> Index \cup {0}]
  <2>1. \A x \in Item : X[x] \in Index \cup {0}
    BY <1>8, <1>9 DEF Sheet
  <2>2. X = [x \in Item |-> X[x]]
    BY DEF WriteWhere
  <2> HIDE DEF X
  <2> QED BY <2>1, <2>2
<1> HIDE DEF S, X
<1>11. \A i \in Index : slot[i] # None => S[i] # None
  BY <1>1, <1>3, <1>5
<1>12. \A i \in Index : IF i - off \in DOMAIN items
                       THEN i \in Ground(p) /\ S[i] = items[i - off] ELSE S[i] = slot[i]
  BY <1>5, <1>7
<1>13. \A x \in Item : IF x \in ToSet(items)
                       THEN /\ X[x] \in Index \cap Ground(p)
                            /\ X[x] - off \in DOMAIN items
                            /\ S[X[x]] = x
                       ELSE X[x] = where[x]
  BY <1>8, <1>9
<1> QED BY <1>6, <1>10, <1>11, <1>12, <1>13 DEF S, X, off

\* A page that is not short of what the table has there covers it.
LEMMA Covered ==
  ASSUME NEW t \in Table, NEW p \in Nat, NEW size \in Nat,
         ~ (Cardinality(Ground(p) \cap DOMAIN t) > size), NEW i \in Ground(p) \cap DOMAIN t
  PROVE  i - p * PageSize \in 1 .. size
<1> DEFINE off == p * PageSize
           last == IF off + PageSize <= Len(t) THEN off + PageSize ELSE Len(t)
           T == off + 1 .. last
<1>1. off \in Nat /\ Ground(p) = off + 1 .. off + PageSize
  BY GroundIs
<1>2. Len(t) \in Nat /\ DOMAIN t = 1 .. Len(t)
  BY LenProperties DEF Table
<1> HIDE DEF off
<1>3. Ground(p) \cap DOMAIN t = T /\ last \in Int
  BY <1>1, <1>2, Sizes
<1> HIDE DEF last
<1>4. Cardinality(T) = IF off + 1 > last THEN 0 ELSE last - (off + 1) + 1
  BY <1>1, <1>3, FS_Interval
<1>5. i \in off + 1 .. last
  BY <1>3
<1>6. Cardinality(T) = last - off
  BY <1>1, <1>3, <1>4, <1>5
<1>7. last - off <= size
  <2>1. ~ (Cardinality(T) > size)
    BY <1>3
  <2> QED BY <2>1, <1>6, <1>1, <1>3
<1>8. i - off \in 1 .. size
  BY <1>1, <1>3, <1>5, <1>7
<1> QED BY <1>8 DEF off

\* A page that belongs is written, and its request is gone.
LEMMA PageAcceptedKeeps ==
  ASSUME IInv, NEW p \in Page, PageAccepted(p)
  PROVE  IInv'
<1> DEFINE items == flight[p].answer.items
           next == flight[p].answer.next
           reached == IF next # None /\ Len(items) = PageSize
                      THEN [cursor EXCEPT ![p + 1] = next] ELSE cursor
           short == Cardinality(Ground(p) \cap DOMAIN table) > Len(items)
           off == p * PageSize
           W == Within(view, archive)
<1>1. /\ p \in DOMAIN flight /\ flight[p].answer # None
      /\ ~Misplaced(table, p, items) \/ resyncs >= MaxResyncs
      /\ slot' = WriteSlots(p, items)
      /\ where' = WriteWhere(p, items)
      /\ done' = done \cup {p}
      /\ cursor' = reached
      /\ spoiled' = IF short THEN spoiled \cup {p} ELSE spoiled \ {p}
      /\ store' = IF stored THEN [store EXCEPT ![view].pages[p] = items] ELSE store
      /\ Pumped(table, want, done \cup {p}, Without(p), reached)
      /\ notice' = FALSE
      /\ UNCHANGED <<server, emptying, stored, view, table, want, resyncs, load>>
  BY DEF PageAccepted
<1>2. items \in Items /\ next \in Item \cup {None} /\ flight[p].answer \in Answer
  BY <1>1, TypedState DEF Out, Flight, Answer
<1>3. p \notin done /\ p \in Nat /\ done \subseteq Nat /\ done \subseteq Page
  BY <1>1, TypedState, PagesFinite DEF Out, Sheet
<1>4. /\ WriteSlots(p, items) \in [Index -> Item \cup {None}]
      /\ \A i \in Index :
            IF i - off \in DOMAIN items
            THEN i \in Ground(p) /\ WriteSlots(p, items)[i] = items[i - off]
            ELSE WriteSlots(p, items)[i] = slot[i]
      /\ \A i \in Index : slot[i] # None => WriteSlots(p, items)[i] # None
      /\ WriteWhere(p, items) \in [Item -> Index \cup {0}]
      /\ \A x \in Item :
            IF x \in ToSet(items)
            THEN /\ WriteWhere(p, items)[x] \in Index \cap Ground(p)
                 /\ WriteWhere(p, items)[x] - off \in DOMAIN items
                 /\ WriteSlots(p, items)[WriteWhere(p, items)[x]] = x
            ELSE WriteWhere(p, items)[x] = where[x]
  BY <1>2, TypedState, WriteIs
<1>5. reached \in [Page -> Item \cup {None}]
  <2>1. next # None => next \in Item
    BY <1>2
  <2> HIDE DEF next, items
  <2> QED BY <2>1, TypedState DEF Sheet
<1>6. Sheet'
  <2>1. spoiled' \subseteq done'
    <3> HIDE DEF short
    <3> QED BY <1>1, TypedState DEF Sheet
  <2>2. done' \subseteq Page
    BY <1>1, <1>3
  <2> HIDE DEF reached, items
  <2> QED BY <1>1, <1>4, <1>5, <2>1, <2>2 DEF Sheet
<1> HIDE DEF reached
<1>7. /\ Out(Without(p), done \cup {p}) /\ DOMAIN Without(p) = DOMAIN flight \ {p}
      /\ \A q \in DOMAIN Without(p) : Without(p)[q] = flight[q]
  BY <1>1, TypedState, WithoutIs
<1>8. /\ Out(flight', done \cup {p})
      /\ \A q \in DOMAIN flight' : \/ q \in DOMAIN Without(p) /\ flight'[q] = Without(p)[q]
                                   \/ q \in Page /\ flight'[q] = Request(q, reached)
      /\ reads' \subseteq [page : Page, of : View] /\ (~stored => reads' = {})
  BY <1>1, <1>5, <1>7, TypedState, PumpedIs
<1>9. store' \in StoreType
  <2> HIDE DEF items
  <2> QED BY <1>1, <1>2, TypedState DEF StoreType
<1>10. Tables' /\ World' /\ Shelf'
  <2>1. Tables'
    BY <1>1, <1>9, TypedState DEF Tables
  <2>2. World'
    BY <1>1, TypedState DEF World, server
  <2>3. Shelf'
    <3> HIDE DEF items
    <3> QED BY <1>1, <1>8, TypedState DEF Shelf
  <2> QED BY <2>1, <2>2, <2>3
<1>11. Typing'
  BY <1>1, <1>6, <1>8, <1>10 DEF Typing, Out
<1>12. OnScreen'
  BY <1>1 DEF IInv, OnScreen
<1> HIDE DEF items, next, short, off
<1>13. \A i \in Index : i \notin Ground(p) => slot'[i] = slot[i]
  BY <1>1, <1>4
<1>14. Drawn \subseteq Drawn'
  BY <1>1, <1>4 DEF Drawn
<1>15. \A q \in done : \A i \in Ground(q) : i \notin Ground(p)
  BY <1>3, OnePage
<1>16. DrawnInHand'
  <2> SUFFICES ASSUME ~stored PROVE DrawnInHand'
    BY <1>1 DEF DrawnInHand
  <2>1. ASSUME NEW i \in Drawn' PROVE \E q \in done' : i \in Ground(q)
    <3>1. i \in Index /\ slot'[i] # None
      BY DEF Drawn
    <3>2. CASE i \in Ground(p)
      BY <3>2, <1>1
    <3>3. CASE i \notin Ground(p)
      <4>1. i \in Drawn
        BY <3>1, <3>3, <1>13 DEF Drawn
      <4> QED BY <4>1, <1>1 DEF IInv, DrawnInHand
    <3> QED BY <3>2, <3>3
  <2>2. ASSUME NEW x \in Item, where'[x] # 0
        PROVE  /\ \E q \in done' : where'[x] \in Ground(q)
               /\ slot'[where'[x]] \in {None, x}
    <3>1. CASE x \in ToSet(items)
      BY <3>1, <1>1, <1>4
    <3>2. CASE x \notin ToSet(items)
      <4>1. where'[x] = where[x]
        BY <3>2, <1>1, <1>4
      <4>2. PICK q \in done : where[x] \in Ground(q)
        BY <4>1, <2>2 DEF IInv, DrawnInHand
      <4>3. slot[where[x]] \in {None, x}
        BY <4>1, <2>2 DEF IInv, DrawnInHand
      <4>4. where[x] \in Index
        BY <4>1, <2>2, TypedState DEF Sheet
      <4>5. slot'[where[x]] = slot[where[x]]
        BY <4>2, <4>4, <1>13, <1>15
      <4> QED BY <4>1, <4>2, <4>3, <4>5, <1>1
    <3> QED BY <3>1, <3>2
  <2> QED BY <2>1, <2>2 DEF DrawnInHand
<1>17. ASSUME ~shifted
       PROVE  /\ \A n \in DOMAIN items : off + n \in DOMAIN W /\ items[n] = W[off + n]
              /\ next # None => Before(next, p + 1)
  <2>1. /\ flight[p].start # None => Before(flight[p].start, p)
        /\ flight[p].answer = PageOf(view, archive, flight[p].start, p)
    BY <1>1, <1>17 DEF IInv, Fetched
  <2>2. view \in View /\ archive \in SUBSET Item
    BY TypedState
  <2> DEFINE page == PageOf(view, archive, flight[p].start, p)
  <2>3. /\ \A n \in DOMAIN page.items :
               off + n \in DOMAIN W /\ page.items[n] = W[off + n]
        /\ page.next # None =>
               (p + 1) * PageSize \in DOMAIN W /\ W[(p + 1) * PageSize] = page.next
    BY <2>1, <2>2, <1>3, PageHere DEF Before, off
  <2>4. items = page.items /\ next = page.next
    BY <2>1 DEF items, next
  <2> HIDE DEF page
  <2> QED BY <2>3, <2>4 DEF Before
<1>18. \A i \in Index : i - off \in DOMAIN items => off + (i - off) = i
  <2>1. off \in Nat /\ Index \subseteq Int
    BY <1>3, GroundIs DEF off, Index
  <2> QED BY <2>1
<1>19. Fetched'
  <2>1. ASSUME NEW q \in Page, ~shifted, reached[q] # None PROVE Before(reached[q], q)
    <3>1. CASE reached[q] = cursor[q]
      BY <2>1, <3>1 DEF IInv, Fetched
    <3>2. CASE reached[q] # cursor[q]
      <4>1. q = p + 1 /\ reached[q] = next /\ next # None
        BY <3>2, <2>1, TypedState DEF reached, Sheet
      <4> QED BY <4>1, <2>1, <1>17
    <3> QED BY <3>1, <3>2
  <2>2. \A q \in DOMAIN flight' : \/ q \in DOMAIN flight /\ flight'[q] = flight[q]
                                  \/ q \in Page /\ flight'[q] = Request(q, reached)
    BY <1>7, <1>8
  <2> QED BY <1>1, <2>1, <2>2, FetchedKeeps DEF server
<1>20. RightPlace'
  <2> SUFFICES ASSUME ~stored, ~shifted, NEW i \in Drawn'
               PROVE  i \in DOMAIN W /\ slot'[i] = W[i] /\ where'[slot'[i]] = i
    BY <1>1 DEF RightPlace, server
  <2>1. ASSUME NEW j \in Drawn' PROVE j \in DOMAIN W /\ slot'[j] = W[j]
    <3>1. j \in Index /\ slot'[j] # None
      BY <2>1 DEF Drawn
    <3>2. CASE j - off \in DOMAIN items
      <4>1. slot'[j] = items[j - off]
        BY <3>1, <3>2, <1>1, <1>4
      <4>2. off + (j - off) \in DOMAIN W /\ items[j - off] = W[off + (j - off)]
        BY <3>2, <1>17
      <4>3. off + (j - off) = j
        BY <3>1, <3>2, <1>18
      <4> HIDE DEF W
      <4> QED BY <4>1, <4>2, <4>3
    <3>3. CASE j - off \notin DOMAIN items
      <4>1. slot'[j] = slot[j]
        BY <3>1, <3>3, <1>1, <1>4
      <4>2. j \in Drawn
        BY <3>1, <4>1 DEF Drawn
      <4> QED BY <4>1, <4>2 DEF IInv, RightPlace
    <3> QED BY <3>2, <3>3
  <2>2. i \in DOMAIN W /\ slot'[i] = W[i]
    BY <2>1
  <2>3. i \in Index /\ slot'[i] \in Item
    BY <1>6 DEF Sheet, Drawn
  <2> DEFINE x == slot'[i]
             j == where'[x]
  <2>4. CASE x \in ToSet(items)
    <3>1. j \in Index /\ slot'[j] = x
      BY <2>3, <2>4, <1>1, <1>4
    <3>2. j \in Drawn'
      BY <3>1, <2>3, TimelineAssumption DEF Drawn
    <3>3. j \in DOMAIN W /\ W[j] = W[i]
      BY <3>1, <3>2, <2>1, <2>2
    <3>4. j = i
      <4> HIDE DEF x, j
      <4>1. view \in View /\ archive \in SUBSET Item
        BY TypedState
      <4> QED BY <4>1, <3>3, <2>2, WithinIs
    <3> QED BY <3>4, <2>2
  <2>5. CASE x \notin ToSet(items)
    <3>1. where'[x] = where[x]
      BY <2>3, <2>5, <1>1, <1>4
    <3>2. i - off \notin DOMAIN items
      <4>1. ASSUME i - off \in DOMAIN items PROVE FALSE
        <5>1. x = items[i - off]
          BY <4>1, <2>3, <1>1, <1>4
        <5> QED BY <5>1, <4>1, <2>5 DEF ToSet
      <4> QED BY <4>1
    <3>3. slot'[i] = slot[i]
      BY <2>3, <3>2, <1>1, <1>4
    <3>4. i \in Drawn
      BY <2>3, <3>3, TimelineAssumption DEF Drawn
    <3>5. where[slot[i]] = i
      BY <3>4 DEF IInv, RightPlace
    <3> QED BY <2>2, <3>1, <3>3, <3>5
  <2> QED BY <2>4, <2>5
<1>21. UnderItsHeading'
  <2> SUFFICES ASSUME ~stored, resyncs < MaxResyncs, NEW i \in Drawn'
               PROVE  i \in DOMAIN table /\ table[i] \in {Undated, Day[slot'[i]]}
    BY <1>1 DEF UnderItsHeading
  <2>1. i \in Index /\ slot'[i] # None
    BY DEF Drawn
  <2>2. ~Misplaced(table, p, items)
    <3>1. ~(resyncs >= MaxResyncs)
      BY TypedState, TimelineAssumption
    <3> QED BY <3>1, <1>1
  <2>3. CASE i - off \in DOMAIN items
    <3>1. slot'[i] = items[i - off] /\ off + (i - off) = i
      BY <2>1, <2>3, <1>1, <1>4, <1>18
    <3>2. \A n \in DOMAIN items :
             off + n \in DOMAIN table /\ table[off + n] \in {Undated, Day[items[n]]}
      BY <2>2 DEF Misplaced, off
    <3>3. /\ off + (i - off) \in DOMAIN table
          /\ table[off + (i - off)] \in {Undated, Day[items[i - off]]}
      BY <2>3, <3>2
    <3> QED BY <3>1, <3>3
  <2>4. CASE i - off \notin DOMAIN items
    <3>1. slot'[i] = slot[i]
      BY <2>1, <2>4, <1>1, <1>4
    <3>2. i \in Drawn
      BY <2>1, <3>1 DEF Drawn
    <3> QED BY <3>1, <3>2 DEF IInv, UnderItsHeading
  <2> QED BY <2>3, <2>4
<1>22. ASSUME ~short, NEW i \in Ground(p) \cap DOMAIN table
       PROVE  i - off \in DOMAIN items /\ i \in Index /\ slot'[i] = items[i - off]
  <2>1. items \in Seq(Item) /\ Len(items) \in Nat /\ DOMAIN items = 1 .. Len(items)
    BY <1>2, LenProperties DEF Items
  <2>2. i - off \in 1 .. Len(items)
    BY <2>1, <1>22, <1>3, TypedState, Covered DEF short, off
  <2>3. i \in Index
    BY PageFits
  <2> QED BY <2>1, <2>2, <2>3, <1>1, <1>4
<1>23. \A q \in done' \ spoiled' : q # p => q \in done \ spoiled
  BY <1>1
<1>24. p \in done' \ spoiled' => ~short
  BY <1>1
<1>25. DoneIsDrawn'
  <2> SUFFICES ASSUME NEW q \in done' \ spoiled', NEW i \in Ground(q) \cap DOMAIN table
               PROVE  i \in Drawn'
    BY <1>1 DEF DoneIsDrawn
  <2>1. CASE q = p
    <3>1. i - off \in DOMAIN items /\ i \in Index /\ slot'[i] = items[i - off]
      BY <2>1, <1>22, <1>24
    <3>2. items[i - off] \in Item
      BY <3>1, <1>2, LenProperties, ElementOfSeq DEF Items
    <3> QED BY <3>1, <3>2, TimelineAssumption DEF Drawn
  <2>2. CASE q # p
    BY <2>2, <1>14, <1>23 DEF IInv, DoneIsDrawn
  <2> QED BY <2>1, <2>2
<1>26. Replaced'
  <2> SUFFICES ASSUME ~shifted, NEW q \in done' \ spoiled',
                      NEW i \in Ground(q) \cap DOMAIN table
               PROVE  slot'[i] = W[i]
    BY <1>1 DEF Replaced, server
  <2>1. CASE q = p
    <3>1. i - off \in DOMAIN items /\ i \in Index /\ slot'[i] = items[i - off]
      BY <2>1, <1>22, <1>24
    <3>2. items[i - off] = W[off + (i - off)] /\ off + (i - off) = i
      BY <3>1, <1>17, <1>18
    <3> QED BY <3>1, <3>2
  <2>2. CASE q # p
    <3>1. q \in done \ spoiled /\ q \in Page
      BY <2>2, <1>3, <1>23
    <3>2. slot[i] = W[i]
      BY <3>1 DEF IInv, Replaced
    <3>3. i \in Index /\ i \notin Ground(p)
      BY <3>1, <1>15, PageFits
    <3> QED BY <3>2, <3>3, <1>13
  <2> QED BY <2>1, <2>2
<1> QED BY <1>11, <1>12, <1>16, <1>19, <1>20, <1>21, <1>25, <1>26 DEF IInv

\* A stored page is drawn while its request is out, or is not.
LEMMA CachePageKeeps ==
  ASSUME IInv, NEW r \in reads, CachePage(r)
  PROVE  IInv'
<1> DEFINE items == store[r.of].pages[r.page]
           p == r.page
<1>1. /\ reads' = reads \ {r}
      /\ UNCHANGED <<server, shelf, stored, view, table, done, cursor, flight, want, resyncs,
                     load, notice, spoiled>>
  BY DEF CachePage
<1>2. Shelf'
  BY <1>1, TypedState DEF Shelf, shelf
<1>3. CASE UNCHANGED <<slot, where>>
  BY <1>1, <1>2, <1>3, TypedState, QuietKeeps DEF server, shelf
<1>4. CASE ~ UNCHANGED <<slot, where>>
  <2>1. /\ items # None
        /\ p \in DOMAIN flight /\ p \notin done
        /\ slot' = WriteSlots(p, items)
        /\ where' = WriteWhere(p, items)
    BY <1>4 DEF CachePage
  <2>2. r \in [page : Page, of : View] /\ stored
    BY TypedState DEF Shelf
  <2>3. p \in Page /\ items \in Items
    <3>1. store[r.of] \in [days : Table \cup {None}, pages : [Page -> Items \cup {None}]]
      BY <2>2, TypedState DEF StoreType
    <3>2. store[r.of].pages \in [Page -> Items \cup {None}]
      BY <3>1
    <3> QED BY <3>2, <2>1, <2>2
  <2> HIDE DEF items, p
  <2>4. /\ WriteSlots(p, items) \in [Index -> Item \cup {None}]
        /\ \A i \in Index :
              IF i - p * PageSize \in DOMAIN items
              THEN i \in Ground(p) /\ WriteSlots(p, items)[i] = items[i - p * PageSize]
              ELSE WriteSlots(p, items)[i] = slot[i]
        /\ \A i \in Index : slot[i] # None => WriteSlots(p, items)[i] # None
        /\ WriteWhere(p, items) \in [Item -> Index \cup {0}]
    BY <2>3, TypedState, WriteIs
  <2>5. World' /\ Tables'
    BY <1>1, TypedState DEF World, Tables, server, shelf
  <2>6. Sheet'
    BY <1>1, <2>1, <2>4, TypedState DEF Sheet
  <2>7. Typing'
    BY <1>1, <1>2, <2>5, <2>6, TypedState DEF Typing, Out
  <2>8. OnScreen'
    BY <1>1 DEF IInv, OnScreen
  <2>9. DrawnInHand' /\ RightPlace' /\ UnderItsHeading'
    BY <1>1, <2>2 DEF DrawnInHand, RightPlace, UnderItsHeading
  <2>10. Fetched'
    BY <1>1 DEF IInv, Fetched, Before, server
  <2>11. Drawn \subseteq Drawn'
    BY <2>1, <2>4 DEF Drawn
  <2>12. DoneIsDrawn'
    BY <1>1, <2>11 DEF IInv, DoneIsDrawn
  <2>13. Replaced'
    <3> SUFFICES ASSUME ~shifted, NEW q \in done \ spoiled,
                        NEW i \in Ground(q) \cap DOMAIN table
                 PROVE  slot'[i] = Within(view, archive)[i]
      BY <1>1 DEF Replaced, server
    <3>1. q \in Page /\ q # p
      BY <2>1, TypedState DEF Sheet
    <3>2. i \in Index /\ i \notin Ground(p)
      BY <2>3, <3>1, PageFits, OnePage
    <3>3. slot'[i] = slot[i]
      BY <3>2, <2>1, <2>4
    <3> QED BY <3>3 DEF IInv, Replaced
  <2> QED BY <2>7, <2>8, <2>9, <2>10, <2>12, <2>13 DEF IInv
<1> QED BY <1>3, <1>4

\* A patched tile spoils the page it lands on; a browser, where every item is
\* drawn where it was last written, has none to patch.
LEMMA PatchKeeps ==
  ASSUME IInv, NEW x \in Item, Patch(x)
  PROVE  IInv'
<1> DEFINE j == where[x]
           hit == (j - 1) \div PageSize
<1>1. /\ j # 0 /\ slot[j] \notin {None, x}
      /\ slot' = [slot EXCEPT ![j] = x]
      /\ spoiled' = spoiled \cup (done \cap {hit})
      /\ UNCHANGED <<server, shelf, stored, view, table, where, done, cursor, flight, want,
                     resyncs, load, notice, reads>>
  BY DEF Patch
<1>2. stored
  BY <1>1, TypedState DEF IInv, DrawnInHand
<1>3. j \in Index /\ j \in Nat /\ j > 0
  BY <1>1, TypedState DEF Sheet, Index
<1>4. hit \in Nat /\ j \in Ground(hit)
  BY <1>3, PageOfPosition
<1> HIDE DEF j, hit
<1>5. World' /\ Tables' /\ Shelf'
  BY <1>1, TypedState DEF World, Tables, Shelf, server, shelf
<1>6. Sheet'
  BY <1>1, TypedState DEF Sheet
<1>7. Typing'
  BY <1>1, <1>5, <1>6, TypedState DEF Typing, Out
<1>8. OnScreen'
  BY <1>1 DEF IInv, OnScreen
<1>9. DrawnInHand' /\ RightPlace' /\ UnderItsHeading'
  BY <1>1, <1>2 DEF DrawnInHand, RightPlace, UnderItsHeading
<1>10. Fetched'
  BY <1>1 DEF IInv, Fetched, Before, server
<1>11. slot \in [Index -> Item \cup {None}] /\ None \notin Item
  BY TypedState, TimelineAssumption DEF Sheet
<1>12. Drawn \subseteq Drawn'
  BY <1>1, <1>11 DEF Drawn
<1>13. DoneIsDrawn'
  BY <1>1, <1>12 DEF IInv, DoneIsDrawn
<1>14. Replaced'
  <2> SUFFICES ASSUME ~shifted, NEW q \in done \ spoiled', NEW i \in Ground(q) \cap DOMAIN table
               PROVE  slot'[i] = Within(view, archive)[i]
    BY <1>1 DEF Replaced, server
  <2>1. q \in done \ spoiled /\ q # hit
    BY <1>1
  <2>2. q \in Page /\ q \in Nat
    BY <2>1, TypedState, PagesFinite DEF Sheet
  <2>3. i # j
    BY <1>4, <2>1, <2>2, OnePage
  <2>4. i \in Index
    BY <2>2, PageFits
  <2>5. slot'[i] = slot[i]
    BY <1>1, <1>11, <2>3, <2>4
  <2> QED BY <2>1, <2>5 DEF IInv, Replaced
<1> QED BY <1>7, <1>8, <1>9, <1>10, <1>13, <1>14 DEF IInv

\* Somebody else changes the archive.
LEMMA ArchiveMovesKeeps ==
  ASSUME IInv, NEW x \in Item, ArchiveMoves(x)
  PROVE  IInv'
<1>1. /\ archive' = (IF x \in archive THEN archive \ {x} ELSE archive \cup {x})
      /\ shifted' = TRUE
      /\ UNCHANGED <<shelf, model, stored, view, want, resyncs, load, notice, reads>>
  BY DEF ArchiveMoves
<1>2. UNCHANGED <<table, slot, where, done, cursor, flight, spoiled, store, emptying,
                  stored, view, want, resyncs, load, notice, reads>>
  BY <1>1 DEF shelf, model
<1>3. World' /\ Tables' /\ Shelf' /\ Sheet'
  BY <1>1, <1>2, TypedState DEF World, Tables, Shelf, Sheet
<1>4. Typing'
  BY <1>2, <1>3, TypedState DEF Typing, Out
<1>5. OnScreen' /\ DrawnInHand' /\ DoneIsDrawn' /\ UnderItsHeading'
  BY <1>2 DEF IInv, OnScreen, DrawnInHand, DoneIsDrawn, UnderItsHeading, Drawn
<1>6. Fetched' /\ RightPlace' /\ Replaced'
  BY <1>1 DEF Fetched, RightPlace, Replaced
<1> QED BY <1>4, <1>5, <1>6 DEF IInv

-----------------------------------------------------------------------------
(* The theorems. *)

\* A grid opens empty, on a store that is empty or holds what was seen before.
LEMMA OpensRight == Init => IInv
<1> SUFFICES ASSUME Init PROVE IInv
  OBVIOUS
<1>1. /\ archive \in Holdings /\ stored \in BOOLEAN /\ view = Opening
      /\ store \in {EmptyStore} \cup (IF stored THEN {StoreOf(held) : held \in Holdings} ELSE {})
      /\ table = <<>> /\ slot = Blank /\ where = Nowhere
      /\ done = {} /\ cursor = NoCursor /\ flight = <<>>
      /\ want = [c \in Caller |-> IF c = Grid THEN <<0, 1>> ELSE None]
      /\ resyncs = 0 /\ notice = FALSE /\ reads = {} /\ emptying = FALSE
      /\ load = [phase |-> "asked", answer |-> None, painted |-> None, reading |-> stored]
      /\ spoiled = {} /\ shifted = FALSE
  BY DEF Init
<1>2. World
  <2>1. archive \subseteq Item /\ view \in View /\ resyncs \in 0 .. MaxResyncs
    BY <1>1, TimelineAssumption
  <2> QED BY <1>1, <2>1 DEF World, Ranges
<1>3. table \in Table
  BY <1>1, EmptySeq, Sizes DEF Table
<1>4. load \in LoadType
  BY <1>1 DEF LoadType
<1>5. store \in StoreType
  <2>1. EmptyStore \in StoreType
    BY DEF EmptyStore, StoreType
  <2>2. ASSUME NEW held \in Holdings PROVE StoreOf(held) \in StoreType
    <3>1. held \in SUBSET Item
      BY TimelineAssumption
    <3>2. \A v \in View : TableOf(v, held) \in Table
      BY <3>1, TableIs
    <3>3. \A v \in View, p \in Page : PageOf(v, held, None, p).items \in Items
      <4>1. \A v \in View, p \in Page : PageOf(v, held, None, p) \in Answer
        BY <3>1, PageIs, PagesFinite
      <4> QED BY <4>1 DEF Answer
    <3> QED BY <3>2, <3>3 DEF StoreOf, StoreType
  <2> QED BY <1>1, <2>1, <2>2
<1>6. Shelf
  BY <1>1 DEF Shelf
<1>7. Sheet
  BY <1>1, BlankIsTyped DEF Sheet
<1>8. Out(flight, done)
  BY <1>1, NothingOut
<1>9. Typing
  BY <1>2, <1>3, <1>4, <1>5, <1>6, <1>7, <1>8 DEF Typing, Tables
<1>10. Drawn = {}
  BY <1>1, BlankIsTyped DEF Drawn
<1>11. OnScreen /\ DrawnInHand
  BY <1>1, <1>10, BlankIsTyped DEF OnScreen, DrawnInHand
<1>12. Fetched
  BY <1>1, NothingOut, BlankIsTyped DEF Fetched
<1>13. RightPlace /\ UnderItsHeading /\ DoneIsDrawn /\ Replaced
  BY <1>1, <1>10 DEF RightPlace, UnderItsHeading, DoneIsDrawn, Replaced
<1> QED BY <1>9, <1>11, <1>12, <1>13 DEF IInv

\* A step that changes nothing.
LEMMA StutterKeeps ==
  ASSUME IInv, UNCHANGED vars
  PROVE  IInv'
<1>1. Shelf'
  BY TypedState DEF Shelf, vars
<1> QED BY <1>1, TypedState, QuietKeeps DEF vars

\* Every step keeps what is known of the grid.
LEMMA EveryStepKeeps == IInv /\ [Next]_vars => IInv'
<1> SUFFICES ASSUME IInv, [Next]_vars PROVE IInv'
  OBVIOUS
<1>1. CASE TableAnswered
  BY <1>1, TableAnsweredKeeps
<1>2. CASE TableHandled
  BY <1>2, TableHandledKeeps
<1>3. CASE TableFailed
  BY <1>3, TableFailedKeeps
<1>4. CASE CacheSaysNothing
  BY <1>4, CacheSaysNothingKeeps
<1>5. CASE CacheLaysOut
  BY <1>5, CacheLaysOutKeeps
<1>6. ASSUME NEW p \in Page,
             PageAnswered(p) \/ PageRefused(p) \/ PageAccepted(p) \/ PageFailed(p)
      PROVE  IInv'
  BY <1>6, PageAnsweredKeeps, PageRefusedKeeps, PageAcceptedKeeps, PageFailedKeeps
<1>7. ASSUME NEW r \in reads, CachePage(r) PROVE IInv'
  BY <1>7, CachePageKeeps
<1>8. ASSUME NEW c \in Caller, NEW r \in Asks \cup {None}, Declare(c, r) PROVE IInv'
  BY <1>8, DeclareKeeps
<1>9. ASSUME NEW v \in View, SetView(v) PROVE IInv'
  BY <1>9, SetViewKeeps
<1>10. CASE Retry \/ Reload
  BY <1>10, RetryKeeps, ReloadKeeps
<1>11. CASE AlbumsChanged \/ StoreEmptied
  BY <1>11, AlbumsChangedKeeps, StoreEmptiedKeeps
<1>12. ASSUME NEW x \in Item, Patch(x) \/ ArchiveMoves(x) PROVE IInv'
  BY <1>12, PatchKeeps, ArchiveMovesKeeps
<1>13. CASE UNCHANGED vars
  BY <1>13, StutterKeeps
<1> QED BY <1>1, <1>2, <1>3, <1>4, <1>5, <1>6, <1>7, <1>8, <1>9, <1>10, <1>11, <1>12,
           <1>13 DEF Next

\* The invariant holds of every behaviour.
LEMMA GridInvariant == Spec => []IInv
BY OpensRight, EveryStepKeeps, PTL DEF Spec

\* Types: what is in flight is never in hand, and at most MaxInFlight requests are
\* out whatever callers declare and however often the grid starts over (pump).
THEOREM Typed == Spec => []TypeOK
<1>1. IInv => TypeOK
  BY TypingMeansTypeOK DEF IInv
<1> QED BY <1>1, GridInvariant, PTL

\* In a browser every tile drawn is the item of that position of the view on screen,
\* while the archive stands still: a page that continues from a cursor is the same
\* page its offset would give (fetchTimeline; accept, clear, useTimeline.ts).
THEOREM TilesAreInPlace == Spec => []RightPlace
<1>1. IInv => RightPlace
  BY DEF IInv
<1> QED BY <1>1, GridInvariant, PTL

\* While a resync is left, a browser draws nothing under another day's heading,
\* whatever the archive does (misplaced, useTimeline.ts).
THEOREM HeadingsHold == Spec => []UnderItsHeading
<1>1. IInv => UnderItsHeading
  BY DEF IInv
<1> QED BY <1>1, GridInvariant, PTL

\* A page in hand is drawn whole unless it came back short or lost slots to a table
\* or a patch, so nothing else is left that pump would never ask for again.
THEOREM InHandIsDrawn == Spec => []DoneIsDrawn
<1>1. IInv => DoneIsDrawn
  BY DEF IInv
<1> QED BY <1>1, GridInvariant, PTL

\* The network always replaces what the cache painted (accept, useTimeline.ts).
THEOREM NetworkReplaces == Spec => []Replaced
<1>1. IInv => Replaced
  BY DEF IInv
<1> QED BY <1>1, GridInvariant, PTL
===============================================================================
