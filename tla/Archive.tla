------------------------------ MODULE Archive ------------------------------
(***************************************************************************)
(* The archive of what was said (Archive.cpp) in the table Log of the      *)
(* database (DB.cpp).  A row is known by its idx, which AUTOINCREMENT      *)
(* makes its position.  Times are counted in ticks, so many to the second; *)
(* the database keeps whole seconds.  The lines come from the callers with *)
(* the times the callers give them, in any order: nothing makes the clock, *)
(* or the callers, go forward only.                                        *)
(*                                                                         *)
(* Both queries return rows in the order of idx, so that a set of them     *)
(* says what the caller gets.                                              *)
(***************************************************************************)
EXTENDS Integers, Sequences, FiniteSets

CONSTANTS
    Keys,           \* userId, serverName and channel of a row
    Tick,           \* ticks in a second
    MaxTime,        \* bound: the last tick
    MaxRows         \* bound: rows of the table

ASSUME TickAssumption == Tick \in Nat \ {0}
ASSUME BoundsAssumption == MaxTime \in Nat /\ MaxRows \in Nat

VARIABLE log        \* the table Log

Times == 0..MaxTime

\* std::chrono::system_clock::to_time_t and from_time_t
to_time_t(time) == time \div Tick
from_time_t(second) == second * Tick

Row == [key : Keys, logTime : Nat]

\* Archive::insert
insertLog(k, time) ==
    /\ Len(log) < MaxRows
    /\ log' = Append(log, [key |-> k, logTime |-> to_time_t(time)])

Rows(k) == {i \in DOMAIN log : log[i].key = k}

\* Archive::read(serverName, channel, begin, end)
MutFetchRange(k, begin, end) ==
    IF begin >= end THEN {}
    ELSE {i \in Rows(k) : /\ log[i].logTime >= to_time_t(begin)
                          /\ log[i].logTime <= to_time_t(end)}
fetchRange(k, begin, end) ==
    IF begin >= end THEN {}
    ELSE {i \in Rows(k) : /\ log[i].logTime >= to_time_t(begin)
                          /\ log[i].logTime < to_time_t(end)}

\* Archive::read(serverName, channel, end, lines, includeEnd)
MutFetchLast(k, end, count, includeEnd) ==
    LET endEpoch == to_time_t(end)
        before == {i \in Rows(k) : log[i].logTime < endEpoch}
    IN  {i \in before : Cardinality({j \in before : j > i}) < count}
fetchLast(k, end, count, includeEnd) ==
    LET endEpoch == to_time_t(end) + (IF includeEnd THEN 1 ELSE 0)
        before == {i \in Rows(k) : log[i].logTime < endEpoch}
    IN  {i \in before : Cardinality({j \in before : j > i}) < count}

-----------------------------------------------------------------------------
(* Properties *)

\* The lines of k were logged in the order of their seconds.
InOrder(k) ==
    \A i, j \in Rows(k) : i < j => log[i].logTime <= log[j].logTime

\* Cutting a range of time at any point, be it within a second, loses no line
\* and repeats none: the two reads return between them what the one would.
\* If the lines were logged in order, so are the lines of the two reads.
RangesMeet ==
    \A k \in Keys, begin, middle, end \in Times :
        begin <= middle /\ middle <= end =>
            LET first == fetchRange(k, begin, middle)
                second == fetchRange(k, middle, end)
            IN  /\ first \union second = fetchRange(k, begin, end)
                /\ InOrder(k) => \A i \in first, j \in second : i < j
                /\ first \intersect second = {}

\* Reading backwards, page by page, each page ending at the time the oldest
\* line of the page before came with.  With includeEnd no line between the two
\* pages is left out; without, none comes twice.  (The one may repeat lines of
\* that second, and the other leaves some out: the caller is given seconds.)
PagesMeet ==
    \A k \in Keys, end \in Times, lines, more \in 1..MaxRows,
       includeEnd \in BOOLEAN :
        LET page == fetchLast(k, end, lines, includeEnd)
        IN  InOrder(k) => \A oldest \in page :
              (\A i \in page : oldest <= i) =>
                LET from == from_time_t(log[oldest].logTime)
                    older == fetchLast(k, from, more, TRUE)
                    strictly == fetchLast(k, from, more, FALSE)
                IN  /\ \A i \in older, j \in Rows(k) :
                         i <= j /\ j <= oldest => j \in older \union page
                    /\ strictly \intersect page = {}
=============================================================================
