--------------------------- MODULE AttendanceLogs ---------------------------
(***************************************************************************)
(* The collection verification_logs: the verifications and streams that    *)
(* write a row for each verdict (_write_verification_log in                *)
(* app/routers/face.py, _log_stream_identification in                      *)
(* app/routers/stream.py), and the administrator who pages through the     *)
(* history and reads the totals while they do (get_attendance_logs and     *)
(* get_attendance_stats in app/routers/admin.py).                          *)
(*                                                                         *)
(* An action is the code between two awaits.  No code deletes a row.       *)
(***************************************************************************)
EXTENDS Integers, Sequences, FiniteSets, FiniteSetsExt

CONSTANTS Check,     \* verdicts that are logged
          Limit,     \* the page size the reader asks for
          Day,       \* ticks of the clock in a day
          Offset,    \* ticks by which local time, +07:00, is ahead of UTC
          Filters,   \* the filters an administrator asks for
          Unset,      \* a parameter of a filter that is not given
          MaxTime,   \* bound: clock
          MaxFails   \* bound: database calls that raise

ASSUME LogAssumption == /\ IsFiniteSet(Check)
                        /\ Limit \in Nat \ {0} /\ Day \in Nat \ {0}
                        /\ Offset \in Nat
                        /\ MaxTime \in Nat /\ MaxFails \in Nat

\* A row: the verdict it is about, its timestamp and the field `verified`.
Row == [check : Check, stamp : 0 .. MaxTime, verified : BOOLEAN]

\* The counts of get_attendance_stats, in the order they are asked for.
Counts == <<"total_all", "success_all", "today_all", "today_success">>

\* verified, date_from, date_to, the calendar day and the hours of a request; dates
\* and days count from the first day, hours are ticks.
NoFilter == [verified |-> Unset, from |-> Unset, to |-> Unset, day |-> Unset,
             hourFrom |-> Unset, hourTo |-> Unset]

VARIABLES now,     \* the clock, in the milliseconds MongoDB keeps
          rows,    \* verification_logs
          writer,  \* where each verdict's coroutine is
          draft,   \* the row it inserts
          reader,  \* what the administrator's request does
          filter,  \* the query parameters of its requests
          page,    \* the page asked for
          total,   \* the total of the last response, or the local of a request
          stats,   \* the counts received so far
          shown,   \* history: rows on the pages shown so far
          before,  \* history: rows that were there when the administrator began
          gap,     \* history: a row was inserted between the count and the find
          began,   \* the time the request for the totals began
          fails    \* number of failures so far

writeVars == <<rows, writer, draft>>
pageVars == <<filter, page, total, shown, gap>>
statVars == <<stats, began>>
vars == <<now, writeVars, reader, pageVars, statVars, before, fails>>

Init == /\ now = 0
        /\ rows = {}
        /\ writer = [c \in Check |-> "idle"]
        /\ draft = [c \in Check |-> [check |-> c, stamp |-> 0, verified |-> FALSE]]
        /\ reader = "idle"
        /\ filter = NoFilter /\ page = 1 /\ total = 0
        /\ stats = <<>>
        /\ shown = {} /\ before = {} /\ gap = FALSE
        /\ began = 0
        /\ fails = 0

\* A definition named Wrong... is a plausible bug in the definition after it; the
\* properties are tested against it and no action uses it.

Tick == /\ now < MaxTime
        /\ now' = now + 1
        /\ UNCHANGED <<writeVars, reader, pageVars, statVars, before, fails>>

-----------------------------------------------------------------------------
(* Verdicts. *)

\* The verdict is there: the row takes the time and is handed to insert_one.
Log(c, verified) ==
    /\ writer[c] = "idle"
    /\ writer' = [writer EXCEPT ![c] = "inserting"]
    /\ draft' = [draft EXCEPT ![c] = [check |-> c, stamp |-> now, verified |-> verified]]
    /\ UNCHANGED <<now, rows, reader, pageVars, statVars, before, fails>>

\* insert_one takes effect, after which it returns or raises: nobody can tell.
\* Rows may arrive in another order than their times.
Insert(c) ==
    /\ writer[c] = "inserting"
    /\ writer' = [writer EXCEPT ![c] = "answering"]
    /\ rows' = rows \cup {draft[c]}
    /\ gap' = (gap \/ reader = "finding")
    /\ UNCHANGED <<now, draft, reader, filter, page, total, shown, statVars, before, fails>>

\* insert_one raises without effect, which is logged and forgotten: the verdict is
\* answered all the same.
InsertFails(c) ==
    /\ writer[c] = "inserting"
    /\ fails < MaxFails
    /\ fails' = fails + 1
    /\ writer' = [writer EXCEPT ![c] = "answering"]
    /\ UNCHANGED <<now, rows, draft, reader, pageVars, statVars, before>>

-----------------------------------------------------------------------------
(* The administrator pages through the history. *)

\* math.ceil(total / limit) if total > 0 else 0
TotalPages(n) == (n + Limit - 1) \div Limit

WrongSkipped == page * Limit

\* $skip, and skip()
Skipped == (page - 1) * Limit

LeastOf(a, b) == IF a < b THEN a ELSE b

Holds(bound, test) == bound = Unset \/ test

\* date_from and date_to are whole days of UTC, both included.
InDates(f, r) == /\ Holds(f.from, r.stamp >= f.from * Day)
                 /\ Holds(f.to, r.stamp < (f.to + 1) * Day)

\* The parameters that need the aggregation.
NeedsPipeline(f) == f.day # Unset \/ f.hourFrom # Unset \/ f.hourTo # Unset

\* $dayOfMonth and $hour are taken in local time.
InCalendar(f, r) ==
    LET local == r.stamp + Offset
    IN  /\ Holds(f.day, local \div Day = f.day)
        /\ Holds(f.hourFrom, local % Day >= f.hourFrom)
        /\ Holds(f.hourTo, local % Day <= f.hourTo)

\* The rows of S a request with filter f is about.
Selected(f, S) == {r \in S : /\ Holds(f.verified, r.verified = f.verified)
                             /\ InDates(f, r) /\ InCalendar(f, r)}

Found == Selected(filter, rows)

\* Every row of S comes before every row of T in some order that sorts by
\* descending timestamp.  Rows of the same millisecond have no order.
Precede(S, T) == \A s \in S, r \in T : s.stamp >= r.stamp

\* What sort, skip and limit may return.
Pages ==
    LET n == Cardinality(Found)
        above == LeastOf(Skipped, n)
        size == LeastOf(Limit, n - above)
    IN {S \in kSubset(size, Found) :
           \E A \in kSubset(above, Found \ S) :
               Precede(A, Found \ A) /\ Precede(S, (Found \ A) \ S)}

BeginWalk ==
    /\ reader = "idle"
    /\ reader' = "asking"
    /\ filter' \in Filters
    /\ before' = rows
    /\ UNCHANGED <<now, writeVars, page, total, shown, gap, statVars, fails>>

\* count_documents
Count ==
    /\ reader = "asking" /\ ~NeedsPipeline(filter)
    /\ reader' = "finding"
    /\ total' = Cardinality(Found)
    /\ gap' = FALSE
    /\ UNCHANGED <<now, writeVars, filter, page, shown, statVars, before, fails>>

\* find, sort, skip, limit; the page is shown with the total counted before.
Find ==
    /\ reader = "finding"
    /\ reader' = "shown"
    /\ \E S \in Pages : shown' = shown \cup S
    /\ UNCHANGED <<now, writeVars, filter, page, total, gap, statVars, before, fails>>

\* With $facet the total and the page are computed from the same input.
Aggregate ==
    /\ reader = "asking" /\ NeedsPipeline(filter)
    /\ reader' = "shown"
    /\ total' = Cardinality(Found)
    /\ gap' = FALSE
    /\ \E S \in Pages : shown' = shown \cup S
    /\ UNCHANGED <<now, writeVars, filter, page, statVars, before, fails>>

\* The request raises; the page that was shown stays, and the administrator asks
\* again.
AskAgain ==
    /\ reader \in {"asking", "finding"}
    /\ fails < MaxFails
    /\ fails' = fails + 1
    /\ reader' = "asking"
    /\ UNCHANGED <<now, writeVars, pageVars, statVars, before>>

WrongHasNext == total > 0

\* The button of the next page is enabled.
HasNext == page < TotalPages(total)

NextPage ==
    /\ reader = "shown" /\ HasNext
    /\ reader' = "asking"
    /\ page' = page + 1
    /\ UNCHANGED <<now, writeVars, filter, total, shown, gap, statVars, before, fails>>

-----------------------------------------------------------------------------
(* The administrator reads the totals. *)

WrongToday(r) == r.stamp < (began \div Day + 1) * Day

\* today_start <= timestamp < today_end
Today(r) == LET start == (began \div Day) * Day
            IN start <= r.stamp /\ r.stamp < start + Day

\* The rows a count is about.
Counted(name, S) ==
    {r \in S : /\ name \in {"success_all", "today_success"} => r.verified
               /\ name \in {"today_all", "today_success"} => Today(r)}

BeginStats ==
    /\ reader = "idle"
    /\ reader' = "counting"
    /\ before' = rows
    /\ began' = now
    /\ UNCHANGED <<now, writeVars, pageVars, stats, fails>>

\* One count_documents after the other.
CountStat ==
    /\ reader = "counting"
    /\ stats' = Append(stats, Cardinality(Counted(Counts[Len(stats) + 1], rows)))
    /\ reader' = IF Len(stats') = Len(Counts) THEN "told" ELSE "counting"
    /\ UNCHANGED <<now, writeVars, pageVars, began, before, fails>>

-----------------------------------------------------------------------------
Next == \/ Tick
        \/ \E c \in Check : \/ \E v \in BOOLEAN : Log(c, v)
                            \/ Insert(c) \/ InsertFails(c)
        \/ BeginWalk \/ Count \/ Find \/ Aggregate \/ AskAgain \/ NextPage
        \/ BeginStats \/ CountStat

Spec == Init /\ [][Next]_vars

-----------------------------------------------------------------------------
(* Properties. *)

\* Every variable ranges over the values the code gives it; no page is asked for
\* beyond the last one there was.
TypeOK ==
    /\ now \in 0 .. MaxTime
    /\ rows \subseteq Row
    /\ writer \in [Check -> {"idle", "inserting", "answering"}]
    /\ draft \in [Check -> Row]
    /\ reader \in {"idle", "asking", "finding", "shown", "counting", "told"}
    /\ filter \in Filters \cup {NoFilter}
    /\ page \in 1 .. 1 + TotalPages(Cardinality(rows))
    /\ total \in 0 .. Cardinality(rows)
    /\ stats \in UNION {[1 .. n -> 0 .. Cardinality(rows)] : n \in 0 .. 4}
    /\ shown \subseteq rows /\ before \subseteq rows
    /\ gap \in BOOLEAN
    /\ began \in 0 .. MaxTime
    /\ fails \in 0 .. MaxFails

\* Another row has the same timestamp.
Tied(r) == \E s \in rows \ {r} : s.stamp = r.stamp

\* The administrator reached the last page.
AtEnd == reader = "shown" /\ ~HasNext

\* Whoever pages to the end sees every row her filter selects of those that were
\* there when she began, however many are logged meanwhile and in whatever order
\* they arrive: new rows push the old ones to later pages only.  There are two
\* exceptions: rows of the same millisecond, which two queries may sort
\* differently, and a row logged between the count and the find of the last page,
\* which pushes the oldest one behind it.  The aggregation used for calendar
\* filters has no such gap, so there `gap` stays FALSE.
PagesShowAll ==
    AtEnd => \A r \in Selected(filter, before) : r \in shown \/ Tied(r) \/ gap

Distance(a, b) == IF a < b THEN b - a ELSE a - b

Unverified(S) == {r \in S : ~r.verified}

SameDay(t, u) == t \div Day = u \div Day

\* The four counts are separate reads, so the failures computed from them may be
\* off, and even negative, but never by more than the rows logged meanwhile.
StatsOff ==
    reader = "told" =>
        LET logged == Cardinality(rows \ before)
        IN /\ Distance(stats[1] - stats[2], Cardinality(Unverified(before))) <= logged
           /\ Distance(stats[3] - stats[4],
                       Cardinality({r \in Unverified(before) : SameDay(r.stamp, began)})) <= logged
=============================================================================
