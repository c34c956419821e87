------------------------------- MODULE Metrics -------------------------------
(***************************************************************************)
(* The metrics plugin, for one channel: orders are placed day after day,   *)
(* and the dashboard asks for the number of orders of each of the last     *)
(* days.  The service takes the days apart by their number in the year and *)
(* keeps an answer for the rest of the day.  It reads the orders page by   *)
(* page, while more of them are placed.                                    *)
(*                                                                         *)
(* The average and the total of a day are other sums over the same orders. *)
(* One request is looked at at a time: requests share the cache alone.     *)
(***************************************************************************)
EXTENDS Integers, FiniteSets, FiniteSetsExt

CONSTANTS
    Orders,         \* their ids
    Take,           \* orders of a page: 1000 in the code
    MaxTick,        \* 365 in the code: days of an ordinary year
    NrOfEntries,    \* 30 in the code
    LeapYears,      \* years that are a day longer
    FirstDay,       \* the first day there are orders
    LastDay,        \* bound: days
    Never           \* an order not placed yet

VARIABLES
    today,          \* days since the beginning of year 0
    placed,         \* the day every order was placed
    load,           \* the local state of a request that reads the orders
    cache,          \* the answer kept under today's key, or none
    answer          \* the last answer: its day, what it should count, its entries

vars == <<today, placed, load, cache, answer>>

\* The first day of a year: those before it have MaxTick days, or one more.
FirstOf(y) == MaxTick * y + Cardinality(LeapYears \cap (0 .. y - 1))

Year(day) == Max({y \in 0 .. day : FirstOf(y) <= day})

\* getDayOfYear.
GetDayOfYear(day) == day - FirstOf(Year(day)) + 1

\* setDayOfYear: in the year of the date given.
SetDayOfYear(day, tick) == FirstOf(Year(day)) + tick - 1

-----------------------------------------------------------------------------
(* loadData.                                                                *)

\* sub(endDate, { days: 30 }).
StartDate(day) == day - NrOfEntries

StartTick(day) == GetDayOfYear(StartDate(day))

\* A slip of Wrapped: the year goes on.
NotWrapped(tick) == tick

\* "make sure we dont go over month 12 or week 52".
Wrapped(tick) == IF tick >= MaxTick THEN tick - MaxTick ELSE tick

Ticks(day) == {Wrapped(StartTick(day) + i) : i \in 1 .. NrOfEntries}

\* The rows of the query.
Rows(day) == {o \in Orders : placed[o] # Never /\ placed[o] >= StartDate(day)}

\* skip and take. With a join TypeORM pages by the id. An order gets its id long
\* before it is placed, so its row may come to lie before others.
Rank(o, rows) == Cardinality({p \in rows : p < o})

Page(rows, skip) == {o \in rows : Rank(o, rows) \in skip .. skip + Take - 1}

\* dataPerInterval: the orders of each tick, as often as they were read, and the
\* date that becomes its label.
Entries ==
    {[date |-> SetDayOfYear(load.day, tick),
      orders |-> [o \in Orders |->
          IF load.read[o] > 0 /\ GetDayOfYear(placed[o]) = tick THEN load.read[o] ELSE 0]] :
        tick \in Ticks(load.day)}

-----------------------------------------------------------------------------
NoAnswer == [day |-> Never, asked |-> Never, known |-> {}, entries |-> {}]

Idle == [step |-> "idle", day |-> Never, known |-> {}, read |-> [o \in Orders |-> 0], skip |-> 0]

Placed == {o \in Orders : placed[o] # Never}

Init ==
    /\ today = FirstDay
    /\ placed = [o \in Orders |-> Never]
    /\ load = Idle
    /\ cache = NoAnswer
    /\ answer = NoAnswer

\* A slip of KeptOvernight: the key does not have the day.
KeptForADay == cache

\* The key of the cache has endDate: after midnight nothing is found.
KeptOvernight == NoAnswer

NextDay ==
    /\ today < LastDay
    /\ today' = today + 1
    /\ cache' = KeptOvernight
    /\ answer' = NoAnswer
    /\ UNCHANGED <<placed, load>>

Place(o) ==
    /\ placed[o] = Never
    /\ placed' = [placed EXCEPT ![o] = today]
    /\ UNCHANGED <<today, load, cache, answer>>

\* getMetrics: what is cached for today, unless the caller refreshes.
Cached ==
    /\ load.step = "idle" /\ cache # NoAnswer
    /\ answer' = [cache EXCEPT !.asked = today]
    /\ UNCHANGED <<today, placed, load, cache>>

GetMetrics(refresh) ==
    /\ load.step = "idle" /\ (cache = NoAnswer \/ refresh)
    /\ load' = [Idle EXCEPT !.step = "page", !.day = today, !.known = Placed]
    /\ UNCHANGED <<today, placed, cache, answer>>

\* getManyAndCount is two queries: this is the first.
ReadPage ==
    /\ load.step = "page"
    /\ LET items == Page(Rows(load.day), load.skip)
       IN  load' = [load EXCEPT
               !.step = "count",
               !.read = [o \in Orders |-> IF o \in items THEN load.read[o] + 1 ELSE load.read[o]],
               !.skip = @ + Cardinality(items)]
    /\ UNCHANGED <<today, placed, cache, answer>>

MoreOrders ==
    /\ load.step = "count" /\ load.skip < Cardinality(Rows(load.day))
    /\ load' = [load EXCEPT !.step = "page"]
    /\ UNCHANGED <<today, placed, cache, answer>>

\* What the answer should count: of the orders there were when it was asked for,
\* those that no row of a later one has moved.
Unmoved == {o \in load.known : \A p \in Placed \ load.known : o < p}

\* All are read. The key of the cache has the day it was asked for, which nobody
\* asks for when it is over.
Finish ==
    /\ load.step = "count" /\ load.skip >= Cardinality(Rows(load.day))
    /\ answer' = [day |-> load.day, asked |-> load.day, known |-> Unmoved, entries |-> Entries]
    /\ cache' = IF load.day = today THEN answer' ELSE cache
    /\ load' = Idle
    /\ UNCHANGED <<today, placed>>

\* A query fails, and the request with it.
LoadFails ==
    /\ load.step # "idle"
    /\ load' = Idle
    /\ UNCHANGED <<today, placed, cache, answer>>

Next ==
    \/ NextDay
    \/ \E o \in Orders : Place(o)
    \/ Cached \/ \E refresh \in BOOLEAN : GetMetrics(refresh)
    \/ ReadPage \/ MoreOrders \/ Finish \/ LoadFails

Spec == Init /\ [][Next]_vars

-----------------------------------------------------------------------------
(* Properties.                                                              *)

\* Days, orders and answers keep their types, and an answer is of the day it was
\* asked for.
TypeOK ==
    /\ today \in FirstDay .. LastDay
    /\ placed \in [Orders -> (FirstDay .. LastDay) \cup {Never}]
    /\ load.step \in {"idle", "page", "count"}
    /\ load.step # "idle" => load.day \in FirstDay .. today
    /\ load.read \in [Orders -> Nat] /\ load.skip \in Nat
    /\ answer.day = answer.asked
    /\ answer.known \in SUBSET Orders

\* The entries that count an order.
EntriesOf(o) == {e \in answer.entries : e.orders[o] # 0}

\* The orders of the last days that were placed when an answer was asked for are
\* counted once, and on the day they were placed. An order that is placed while
\* the answer is read moves the rows behind its own: those may be counted twice.
\* The other exceptions are at the turn of the year: orders of the days MaxTick
\* and later are counted nowhere, entries of last year carry a date of this
\* year, and an answer whose days begin with a year that follows a leap year is
\* a day late.
RecentOrderIsCountedOnce ==
    \A o \in answer.known :
        (/\ placed[o] > answer.day - NrOfEntries /\ GetDayOfYear(placed[o]) < MaxTick
         /\ GetDayOfYear(answer.day - NrOfEntries) <= MaxTick)
            => /\ Cardinality(EntriesOf(o)) = 1
               /\ \A e \in EntriesOf(o) : e.orders[o] = 1
               /\ Year(placed[o]) = Year(answer.day) => \A e \in EntriesOf(o) : e.date = placed[o]

\* An answer has an entry for each of the last days.
EntriesAreTheLastDays ==
    answer # NoAnswer =>
        {e.date : e \in answer.entries} = (answer.day - NrOfEntries + 1) .. answer.day
=============================================================================
