------------------------------- MODULE Timeline -------------------------------
(***************************************************************************)
(* A gallery grid addressed by position: packages/core's useTimeline, the  *)
(* phone's cache that it reads through, and the archive that answers it.   *)
(*                                                                         *)
(* A table gives every position its heading before any item is fetched.    *)
(* Pages are then fetched for what callers want, at most MaxInFlight at a  *)
(* time, and written into their slots.  The archive changes under it, the  *)
(* view changes above it, the phone's cache answers at its own pace, and   *)
(* every answer describes the moment the server gave it.                   *)
(*                                                                         *)
(* Positions count from 1 and pages from 0.  A timeline is the sequence of *)
(* its items, a table the sequence of their headings: runs of equal        *)
(* headings are the code's day runs.                                       *)
(***************************************************************************)
EXTENDS Integers, Sequences, FiniteSets, SequencesExt, FiniteSetsExt

CONSTANTS Item,         \* what the archive may ever hold
          View,         \* the orders and filters the grid can be put under
          Listed,       \* for each view, every item it can list, in its order
          Day,          \* the day of each item, by its own date
          Dated,        \* the views in order of time: newest and oldest first
          Undated,      \* the heading of every position of any other view
          PageSize,     \* PAGE_SIZE
          MaxInFlight,  \* MAX_IN_FLIGHT
          MaxResyncs,   \* MAX_RESYNCS
          Caller,       \* who declares ranges: the grid, the viewer
          Asks,         \* the ranges they may declare, as <<start, end>>
          Grid,         \* the caller whose range is seeded
          Opening,      \* the view a grid opens under
          Holdings,     \* what the archive may hold at first, and may have held
          Budget,       \* how many outside events may happen, with a store and without
          None

ASSUME TimelineAssumption ==
  /\ PageSize \in Nat \ {0} /\ MaxInFlight \in Nat \ {0} /\ MaxResyncs \in Nat
  /\ IsFiniteSet(Item) /\ Item # {} /\ None \notin Item
  /\ Listed \in [View -> Seq(Item)] /\ \A v \in View : IsInjective(Listed[v])
  /\ Dated \subseteq View
  /\ Opening \in View /\ Holdings \subseteq SUBSET Item /\ Budget \in [BOOLEAN -> Nat]
  /\ Grid \in Caller /\ Asks \subseteq Nat \X Nat

Page == 0 .. (Cardinality(Item) - 1) \div PageSize

Index == 1 .. ((Cardinality(Item) + PageSize - 1) \div PageSize) * PageSize

\* The positions of a page, and where page p starts.
Ground(p) == p * PageSize + 1 .. (p + 1) * PageSize

VARIABLES
  archive,  \* what the archive holds now
  stored,   \* whether this client has a store: the phone has, a browser not
  view,     \* the view the grid is under
  table,    \* the day model: a heading for every position
  slot,     \* the items array
  where,    \* byID: the position an item was last written at, 0 for none
  done,     \* pages in hand
  cursor,   \* the item a page continues from, where the one before said so
  flight,   \* the requests for pages: [start, answer], the answer in transit
  want,     \* the range each caller stands on, or None
  resyncs,  \* how many of MaxResyncs are spent
  load,     \* the load in progress or last made
  notice,   \* whether the error is shown
  reads,    \* reads of stored pages not answered yet
  store,    \* the phone's cache: the table and the pages of each view
  emptying, \* a drop of the whole store has been issued and has not run
  spoiled,  \* observation: pages in hand that came back short, or lost slots since
  shifted,  \* observation: whether the archive has changed since the start
  budget

server == <<archive, shifted>>
shelf == <<store, emptying>>
model == <<table, slot, where, done, cursor, flight, spoiled>>
vars == <<archive, stored, view, table, slot, where, done, cursor, flight, want,
          resyncs, load, notice, reads, store, emptying, spoiled, shifted, budget>>

-----------------------------------------------------------------------------
(* What the server answers. *)

\* The items held that a view lists, in its order.
Within(v, held) ==
  LET listed == {n \in DOMAIN Listed[v] : Listed[v][n] \in held}
      nth(k) == CHOOSE n \in listed : Cardinality({m \in listed : m <= n}) = k
  IN  [k \in 1 .. Cardinality(listed) |-> Listed[v][nth(k)]]

\* The run an item is counted under: its day, in an order of time.
Heading(v, x) == IF v \in Dated THEN Day[x] ELSE Undated

TableOf(v, held) ==
  LET items == Within(v, held) IN [n \in DOMAIN items |-> Heading(v, items[n])]

\* What a view lists after an item, by its place in the order.
After(v, x) ==
  LET place == CHOOSE n \in DOMAIN Listed[v] : Listed[v][n] = x
  IN  {Listed[v][n] : n \in place + 1 .. Len(Listed[v])}

\* fetchTimeline: the page that continues after an item, whether or not the item
\* is still there, or the page at an offset.
Rest(v, held, start, p) ==
  IF start # None
  THEN Within(v, held \cap After(v, start))
  ELSE SubSeq(Within(v, held), p * PageSize + 1, Len(Within(v, held)))

\* A cursor is handed out when there is more, and only in an order of time.
PageOf(v, held, start, p) ==
  LET rest == Rest(v, held, start, p)
      items == SubSeq(rest, 1, Min({PageSize, Len(rest)}))
  IN  [items |-> items,
       next |-> IF Len(rest) > PageSize /\ v \in Dated
                THEN Last(items) ELSE None]

-----------------------------------------------------------------------------
(* The pieces of the hook. *)

Blank == [i \in Index |-> None]

Nowhere == [x \in Item |-> 0]

NoCursor == [p \in Page |-> None]

EmptyStore == [v \in View |-> [days |-> None, pages |-> [p \in Page |-> None]]]

\* Mutant: only the end of the table is checked.
MisplacedByCount(t, p, items) ==
  \E n \in DOMAIN items : p * PageSize + n > Len(t)

\* misplaced: an item past the end of the table, or under another day than its
\* own date says, whatever view the table on screen is of.
Misplaced(t, p, items) ==
  \E n \in DOMAIN items :
     LET i == p * PageSize + n
     IN  ~ (i \in DOMAIN t /\ t[i] \in {Undated, Day[items[n]]})

\* write: the slots and the positions a page of items leaves behind.
WriteSlots(p, items) ==
  [i \in Index |-> IF i - p * PageSize \in DOMAIN items
                   THEN items[i - p * PageSize] ELSE slot[i]]

WriteWhere(p, items) ==
  [x \in Item |-> IF x \in ToSet(items)
                  THEN p * PageSize + (CHOOSE n \in DOMAIN items : items[n] = x)
                  ELSE where[x]]

\* The pages under a range, clamped to the table, as pump walks them.
From(r, count) == Max({0, Min({r[1], count - 1})})

To(r, count) == Max({From(r, count) + 1, Min({r[2], count})})

PagesUnder(r, count) ==
  From(r, count) \div PageSize .. (To(r, count) - 1) \div PageSize

Wanted(w, t) ==
  UNION {PagesUnder(w[c], Len(t)) : c \in {d \in Caller : w[d] # None}}

\* How far a page is from the middle of the nearest range that asks for it, in
\* units of half an item.
Away(p, w, t) ==
  LET count == Len(t)
      from(r) == From(r, count) + To(r, count) - 2 * PageSize * p
      off(r) == Max({from(r), -from(r)})
  IN  Min({off(w[c]) : c \in {d \in Caller :
                                w[d] # None /\ p \in PagesUnder(w[d], count)}})

Request(p, c) == [start |-> c[p], answer |-> None]

\* Mutant: pages in hand are asked for again.
PumpAll(t, w, d, f, c) ==
  IF t = <<>> THEN {f}
  ELSE {[p \in Wanted(w, t) |-> IF p \in DOMAIN f THEN f[p] ELSE Request(p, c)]}

\* pump: nothing without a table; otherwise what is no longer wanted is
\* abandoned, and what is wanted and neither in hand nor on its way is asked
\* for, nearest first, until MaxInFlight are out.  Pages as near as each other
\* go in either order.
Pump(t, w, d, f, c) ==
  IF t = <<>> THEN {f}
  ELSE LET kept  == DOMAIN f \cap Wanted(w, t)
           queue == Wanted(w, t) \ (d \cup kept)
           room  == Max({0, MaxInFlight - Cardinality(kept)})
           nearest == {s \in SUBSET queue :
                         /\ Cardinality(s) = Min({room, Cardinality(queue)})
                         /\ \A p \in s, q \in queue \ s : Away(p, w, t) <= Away(q, w, t)}
       IN  {[p \in kept \cup s |-> IF p \in kept THEN f[p] ELSE Request(p, c)]
              : s \in nearest}

\* fetchPage asks the store for a page in the same breath as the server.
Pumped(t, w, d, f, c) ==
  \E g \in Pump(t, w, d, f, c) :
     /\ flight' = g
     /\ reads' = IF stored
                 THEN reads \cup {[page |-> p, of |-> view] : p \in DOMAIN g \ DOMAIN f}
                 ELSE reads

\* Mutant: the cursors of the view before are kept.
ForgetButCursors ==
  /\ done' = {}
  /\ where' = Nowhere
  /\ slot' = Blank
  /\ spoiled' = {}
  /\ UNCHANGED cursor

\* Mutant: the slots are emptied under pages that stay done.
ForgetButDone ==
  /\ cursor' = NoCursor
  /\ where' = Nowhere
  /\ slot' = Blank
  /\ UNCHANGED <<done, spoiled>>

\* clear: every request abandoned, every page, cursor, position and slot gone.
Forget ==
  /\ done' = {}
  /\ cursor' = NoCursor
  /\ where' = Nowhere
  /\ slot' = Blank
  /\ spoiled' = {}

Clear == Forget /\ flight' = <<>>

\* load: the table on screen stays until another lands, and the answers to an
\* earlier load no longer count.
Load ==
  /\ Clear
  /\ load' = [phase |-> "asked", answer |-> None, painted |-> None, reading |-> stored]
  /\ notice' = FALSE
  /\ UNCHANGED table

\* archiveChanged: the epoch moves, so every read under way answers null, and
\* the store is emptied when the database gets to it.
DropStore ==
  /\ reads' = {}
  /\ emptying' = stored
  /\ UNCHANGED store

Spend == budget > 0 /\ budget' = budget - 1

-----------------------------------------------------------------------------
(* The day table. *)

TableAnswered ==
  /\ load.phase = "asked" /\ load.answer = None
  /\ load' = [load EXCEPT !.answer = TableOf(view, archive)]
  /\ UNCHANGED <<server, shelf, model, stored, view, want, resyncs, notice, reads, budget>>

\* The slots start again under a new table, while what is in hand of an older
\* one is forgotten only where a table was already painted by this load.
TableLands(t) ==
  IF load.painted = None
  THEN /\ slot' = Blank
       /\ spoiled' = spoiled \cup done
       /\ UNCHANGED <<where, done, cursor>>
       /\ Pumped(t, want, done, flight, cursor)
  ELSE /\ Forget
       /\ Pumped(t, want, {}, <<>>, NoCursor)

TableHandled ==
  /\ load.phase = "asked" /\ load.answer # None
  /\ LET t == load.answer
     IN  /\ table' = t
         /\ load' = [load EXCEPT !.phase = "answered", !.answer = None, !.painted = t]
         /\ IF load.painted = t
            THEN /\ UNCHANGED <<slot, where, done, cursor, spoiled>>
                 /\ Pumped(t, want, done, flight, cursor)
            ELSE TableLands(t)
         /\ store' = IF stored THEN [store EXCEPT ![view].days = t] ELSE store
  /\ UNCHANGED <<server, emptying, stored, view, want, resyncs, notice, budget>>

TableFailed ==
  /\ load.phase = "asked"
  /\ load' = [load EXCEPT !.phase = "failed", !.answer = None]
  /\ notice' = TRUE
  /\ Spend
  /\ UNCHANGED <<server, shelf, model, stored, view, want, resyncs, reads>>

\* The store may answer null for anything: a miss, an expiry, a failure.
CacheSaysNothing ==
  /\ load.reading
  /\ load' = [load EXCEPT !.reading = FALSE]
  /\ UNCHANGED <<server, shelf, model, stored, view, want, resyncs, notice, reads, budget>>

\* A stored table is laid out unless the archive's has landed already.
CacheLaysOut ==
  /\ load.reading /\ load.phase # "answered"
  /\ store[view].days # None
  /\ LET t == store[view].days
     IN  /\ table' = t
         /\ load' = [load EXCEPT !.reading = FALSE, !.painted = t]
         /\ slot' = Blank
         /\ spoiled' = spoiled \cup done
         /\ Pumped(t, want, done, flight, cursor)
  /\ UNCHANGED <<server, shelf, stored, view, where, done, cursor, want, resyncs,
                 notice, budget>>

-----------------------------------------------------------------------------
(* Pages. *)

PageAnswered(p) ==
  /\ p \in DOMAIN flight /\ flight[p].answer = None
  /\ flight' = [flight EXCEPT ![p].answer = PageOf(view, archive, flight[p].start, p)]
  /\ UNCHANGED <<server, shelf, stored, view, table, slot, where, done, cursor, want,
                 resyncs, load, notice, reads, spoiled, budget>>

Without(p) == [q \in DOMAIN flight \ {p} |-> flight[q]]

\* stale: a page that does not belong under the table starts the load over.
PageRefused(p) ==
  /\ p \in DOMAIN flight /\ flight[p].answer # None
  /\ Misplaced(table, p, flight[p].answer.items)
  /\ resyncs < MaxResyncs
  /\ resyncs' = resyncs + 1
  /\ Load
  /\ UNCHANGED <<server, shelf, stored, view, want, reads, budget>>

\* accept: a page that belongs, or any page once the resyncs are spent.
PageAccepted(p) ==
  /\ p \in DOMAIN flight /\ flight[p].answer # None
  /\ LET items == flight[p].answer.items
         next == flight[p].answer.next
         reached == IF next # None /\ Len(items) = PageSize
                    THEN [cursor EXCEPT ![p + 1] = next] ELSE cursor
         short == Cardinality(Ground(p) \cap DOMAIN table) > Len(items)
     IN  /\ ~Misplaced(table, p, items) \/ resyncs >= MaxResyncs
         /\ slot' = WriteSlots(p, items)
         /\ where' = WriteWhere(p, items)
         /\ done' = done \cup {p}
         /\ cursor' = reached
         /\ spoiled' = IF short THEN spoiled \cup {p} ELSE spoiled \ {p}
         /\ store' = IF stored THEN [store EXCEPT ![view].pages[p] = items] ELSE store
         /\ Pumped(table, want, done \cup {p}, Without(p), reached)
  /\ notice' = FALSE
  /\ UNCHANGED <<server, emptying, stored, view, table, want, resyncs, load, budget>>

\* Mutant: a page that failed says nothing.
PageFailedInSilence(p) ==
  /\ p \in DOMAIN flight
  /\ flight' = Without(p)
  /\ Spend
  /\ UNCHANGED <<server, shelf, stored, view, table, slot, where, done, cursor, want,
                 resyncs, load, notice, reads, spoiled>>

\* A page that failed is not asked for again by itself.
PageFailed(p) ==
  /\ p \in DOMAIN flight
  /\ flight' = Without(p)
  /\ notice' = TRUE
  /\ Spend
  /\ UNCHANGED <<server, shelf, stored, view, table, slot, where, done, cursor, want,
                 resyncs, load, reads, spoiled>>

\* Mutant: a stored page is drawn whenever the store gets round to it.
CachePageAnyTime(r) ==
  /\ r \in reads
  /\ reads' = reads \ {r}
  /\ LET items == store[r.of].pages[r.page]
     IN  IF items = None \/ Misplaced(table, r.page, items)
         THEN UNCHANGED <<slot, where>>
         ELSE /\ slot' = WriteSlots(r.page, items)
              /\ where' = WriteWhere(r.page, items)
  /\ UNCHANGED <<server, shelf, stored, view, table, done, cursor, flight, want, resyncs,
                 load, notice, spoiled, budget>>

\* A stored page is drawn while its request is out, if it belongs.
CachePage(r) ==
  /\ r \in reads
  /\ reads' = reads \ {r}
  /\ LET items == store[r.of].pages[r.page]
     IN  \/ UNCHANGED <<slot, where>>
         \/ /\ items # None
            /\ r.page \in DOMAIN flight /\ r.page \notin done
            /\ ~Misplaced(table, r.page, items)
            /\ slot' = WriteSlots(r.page, items)
            /\ where' = WriteWhere(r.page, items)
  /\ UNCHANGED <<server, shelf, stored, view, table, done, cursor, flight, want, resyncs,
                 load, notice, spoiled, budget>>

-----------------------------------------------------------------------------
(* The callers, and what happens elsewhere. *)

\* request: a range declared, moved, or retired.
Declare(c, r) ==
  /\ want[c] # r
  /\ want' = [want EXCEPT ![c] = r]
  /\ Pumped(table, want', done, flight, cursor)
  /\ Spend
  /\ UNCHANGED <<server, shelf, stored, view, table, slot, where, done, cursor,
                 resyncs, load, notice, spoiled>>

SetView(v) ==
  /\ v # view
  /\ view' = v
  /\ Load
  /\ Spend
  /\ UNCHANGED <<server, shelf, stored, want, resyncs, reads>>

Retry ==
  /\ resyncs' = 0
  /\ Load
  /\ Spend
  /\ UNCHANGED <<server, shelf, stored, view, want, reads>>

\* reload: after a write of this client's own.
Reload ==
  /\ DropStore
  /\ resyncs' = 0
  /\ Load
  /\ Spend
  /\ UNCHANGED <<server, stored, view, want>>

\* An album changed: the store is dropped, the grid is left as it is.
AlbumsChanged ==
  /\ stored
  /\ DropStore
  /\ load' = [load EXCEPT !.reading = FALSE]
  /\ Spend
  /\ UNCHANGED <<server, model, stored, view, want, resyncs, notice>>

StoreEmptied ==
  /\ emptying
  /\ emptying' = FALSE
  /\ store' = EmptyStore
  /\ UNCHANGED <<server, model, stored, view, want, resyncs, load, notice, reads, budget>>

\* The poll for tiles whose derivatives are being made: what comes back, however
\* late, is put where byID says, over whatever is drawn there in another state.
\* Which tiles are in which state is left out, so it may or may not be.
Patch(x) ==
  /\ where[x] # 0 /\ slot[where[x]] \notin {None, x}
  /\ slot' = [slot EXCEPT ![where[x]] = x]
  /\ spoiled' = spoiled \cup (done \cap {(where[x] - 1) \div PageSize})
  /\ UNCHANGED <<server, shelf, stored, view, table, where, done, cursor, flight, want,
                 resyncs, load, notice, reads, budget>>

\* Another client uploads or deletes.
ArchiveMoves(x) ==
  /\ archive' = IF x \in archive THEN archive \ {x} ELSE archive \cup {x}
  /\ shifted' = TRUE
  /\ Spend
  /\ UNCHANGED <<shelf, model, stored, view, want, resyncs, load, notice, reads>>

-----------------------------------------------------------------------------

\* The store of a phone holds nothing, or what an earlier launch saw.
StoreOf(held) ==
  [v \in View |->
     [days |-> TableOf(v, held),
      pages |-> [p \in Page |-> IF p * PageSize < Len(Within(v, held))
                                THEN PageOf(v, held, None, p).items ELSE None]]]

Init ==
  /\ archive \in Holdings
  /\ stored \in BOOLEAN
  /\ view = Opening
  /\ store \in {EmptyStore} \cup (IF stored THEN {StoreOf(held) : held \in Holdings} ELSE {})
  /\ table = <<>> /\ slot = Blank /\ where = Nowhere
  /\ done = {} /\ cursor = NoCursor /\ flight = <<>>
  /\ want = [c \in Caller |-> IF c = Grid THEN <<0, 1>> ELSE None]
  /\ resyncs = 0
  /\ load = [phase |-> "asked", answer |-> None, painted |-> None, reading |-> stored]
  /\ notice = FALSE /\ reads = {} /\ emptying = FALSE
  /\ spoiled = {} /\ shifted = FALSE
  /\ budget = Budget[stored]

Next ==
  \/ TableAnswered \/ TableHandled \/ TableFailed
  \/ CacheSaysNothing \/ CacheLaysOut
  \/ \E p \in Page : PageAnswered(p) \/ PageRefused(p) \/ PageAccepted(p) \/ PageFailed(p)
  \/ \E r \in reads : CachePage(r)
  \/ \E c \in Caller, r \in Asks \cup {None} : Declare(c, r)
  \/ \E v \in View : SetView(v)
  \/ Retry \/ Reload \/ AlbumsChanged \/ StoreEmptied
  \/ \E x \in Item : Patch(x) \/ ArchiveMoves(x)

\* Every request is answered or fails, and what is answered is handled.
Fairness ==
  /\ WF_vars(TableAnswered) /\ WF_vars(TableHandled)
  /\ \A p \in Page : WF_vars(PageAnswered(p)) /\ WF_vars(PageRefused(p) \/ PageAccepted(p))

Spec == Init /\ [][Next]_vars

FairSpec == Spec /\ Fairness

-----------------------------------------------------------------------------
(* Properties. *)

Drawn == {i \in Index : slot[i] # None}

TypeOK ==
  /\ archive \subseteq Item /\ stored \in BOOLEAN /\ view \in View
  /\ table \in Seq({Undated} \cup {Day[x] : x \in Item})
  /\ slot \in [Index -> Item \cup {None}]
  /\ where \in [Item -> Index \cup {0}]
  /\ done \subseteq Page /\ spoiled \subseteq done
  /\ cursor \in [Page -> Item \cup {None}]
  /\ DOMAIN flight \subseteq Page \ done /\ Cardinality(DOMAIN flight) <= MaxInFlight
  /\ want \in [Caller -> Asks \cup {<<0, 1>>, None}]
  /\ resyncs \in 0 .. MaxResyncs
  /\ load.phase \in {"asked", "answered", "failed"}
  /\ {notice, emptying, shifted} \subseteq BOOLEAN
  /\ reads \subseteq [page : Page, of : View]
  /\ ~stored => reads = {} /\ ~emptying /\ store = EmptyStore /\ ~load.reading

\* While the archive stands still, every tile a browser draws is the item at
\* that position of the view it is under, and byID says so: whatever reloads,
\* changes of view, cursors and abandoned requests came between (clear and the
\* controllers' identity checks, useTimeline.ts).
RightPlace ==
  ~stored /\ ~shifted =>
    \A i \in Drawn :
       /\ i \in DOMAIN Within(view, archive)
       /\ slot[i] = Within(view, archive)[i]
       /\ where[slot[i]] = i

\* While there is a resync left, a browser draws nothing outside the table or
\* under another day's heading, whatever the archive does meanwhile and whichever
\* view the table still on screen is of: accept and misplaced, useTimeline.ts.
UnderItsHeading ==
  ~stored /\ resyncs < MaxResyncs =>
    \A i \in Drawn :
       i \in DOMAIN table /\ table[i] \in {Undated, Day[slot[i]]}

\* A page in hand is drawn whole, but for one that came back short or whose
\* slots a table that landed took away (spoiled): nothing else may mark a page
\* done, or empty its slots and leave it done, since what is done is never asked
\* for again (pump, useTimeline.ts).
DoneIsDrawn ==
  \A p \in done \ spoiled : Ground(p) \cap DOMAIN table \subseteq Drawn

\* useTimeline: "whichever answers first is drawn, and the network always replaces
\* what the cache painted."  While the archive stands still a page in hand shows
\* what the archive holds there, whatever the store drew first and however late
\* it answers; the slots a table or a patch took from it are left out (spoiled).
Replaced ==
  ~shifted =>
    \A p \in done \ spoiled : \A i \in Ground(p) \cap DOMAIN table :
       slot[i] = Within(view, archive)[i]

\* What somebody looks at is in hand in the end, or the notice says why not:
\* pump is called again by whatever could let it go on, and the resyncs end.
WantedIsInHand ==
  []<>(notice \/ (load.phase # "asked" /\ (table # <<>> => Wanted(want, table) \subseteq done)))

\* at: "The item at a position, or undefined while it is still being fetched."
\* Once the archive's table has landed, a page that nothing will ask for again
\* leaves no position undefined, while the archive stands still.
NothingForgotten ==
  ~shifted /\ load.phase = "answered" =>
    \A p \in done : Ground(p) \cap DOMAIN table \subseteq Drawn
=============================================================================
