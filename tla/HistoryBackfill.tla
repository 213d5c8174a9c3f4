-------------------------- MODULE HistoryBackfill --------------------------
(***************************************************************************)
(* The jobs that fetch the hourly bars of a symbol from OKX's public REST  *)
(* interface (ingest/okx_public.py): one deepens the history to the start  *)
(* of a locked window, one renews the recent bars and looks further back   *)
(* when the lake has a gap, and the timer of cli.py asks for the newest    *)
(* page only.  They page backwards from a cursor, keep what they fetched   *)
(* in memory and upsert it at the end, so that a run that raises or is     *)
(* killed leaves nothing.  The stored bars are the checkpoint of the next. *)
(*                                                                         *)
(* The deepening and the renewal are processes of their own; a fetch of    *)
(* the newest page is a short renewal.  The collector stores bars as they  *)
(* close, or misses them.  A bar is the number of its hour; bar t is open  *)
(* while the clock is at t.  Every page the exchange returns is older than *)
(* its cursor, so that the check for a cursor seen before never ends a run.*)
(***************************************************************************)
EXTENDS Naturals, FiniteSets

CONSTANTS WindowStart, WindowEnd,   \* start_at and end_at
          MinBars,                  \* minimum_coverage of the expected bars
          PageLimit,                \* limit
          MaxPages,                 \* max_pages_per_symbol
          HistoryPages,             \* history_pages
          RepairPages,              \* gap_repair_pages
          LastHour,                 \* a bound: the clock
          MaxOutages                \* a bound: runs that fail

Hours == 0..LastHour
TheWindow == WindowStart..(WindowEnd - 1)
Backfills == {"deepen", "renew"}
Nowhere == LastHour + 1      \* no cursor: from the newest bar on

ASSUME BackfillAssumption ==
    /\ {WindowStart, WindowEnd, LastHour, MaxOutages} \subseteq Nat
    /\ {PageLimit, MaxPages, HistoryPages, RepairPages} \subseteq Nat \ {0}
    /\ WindowStart < WindowEnd /\ WindowEnd <= LastHour
    /\ MinBars \in 0..(WindowEnd - WindowStart)

VARIABLES hour,      \* the clock: the bar that is open
          stored_bars, \* silver/market_bar: the bars of the symbol
          running,   \* the jobs that run
          cursor,    \* `after` of each job
          fetched,   \* what each job fetched and has not published
          pages_left,\* the pages each job may still fetch
          outages,   \* how many runs failed
          began      \* auxiliary: the hour the deepening began at

backfillVars == <<hour, stored_bars, running, cursor, fetched, pages_left, outages,
                  began>>
jobVars == <<running, cursor, fetched, pages_left, began>>

BackfillInit ==
    /\ hour = 0 /\ stored_bars = {} /\ running = {}
    /\ cursor = [b \in Backfills |-> Nowhere]
    /\ fetched = [b \in Backfills |-> {}]
    /\ pages_left = [b \in Backfills |-> 0]
    /\ outages = 0 /\ began = 0

\* A bar closes, and the collector stores it or has missed it.
BarCloses ==
    /\ hour < LastHour
    /\ hour' = hour + 1
    /\ stored_bars' \in {stored_bars, stored_bars \cup {hour}}
    /\ UNCHANGED <<jobVars, outages>>

-----------------------------------------------------------------------------
(* What the jobs read before they fetch.                                   *)

InWindow == stored_bars \cap TheWindow
EarliestBar == CHOOSE t \in InWindow : \A u \in InWindow : t <= u

\* The window's start is there: a bar of its first two hours.
HasWindowStart == InWindow # {} /\ EarliestBar <= WindowStart + 1

\* A symbol with enough bars and the start is skipped.
Skipped == HasWindowStart /\ Cardinality(InWindow) >= MinBars

\* (a mutant: on from the checkpoint whatever lies above it)
ResumeOnly == IF InWindow = {} THEN Nowhere ELSE EarliestBar

\* From the newest bar when nothing is stored, or when the start is there and
\* bars in between are missing; else on from the earliest bar.
Checkpoint == IF InWindow = {} \/ HasWindowStart THEN Nowhere ELSE EarliestBar

Missing(bars) == {b \in Hours \ bars : \E t, u \in bars : t < b /\ b < u}

\* _market_bar_symbols_with_internal_gaps and the page count it asks for.
RenewPages ==
    IF Missing(stored_bars) # {} /\ RepairPages > HistoryPages THEN RepairPages ELSE HistoryPages

Begin(b, from, pages) ==
    /\ b \notin running
    /\ running' = running \cup {b}
    /\ cursor' = [cursor EXCEPT ![b] = from]
    /\ fetched' = [fetched EXCEPT ![b] = {}]
    /\ pages_left' = [pages_left EXCEPT ![b] = pages]
    /\ UNCHANGED <<hour, stored_bars, outages>>

BeginDeepen ==
    /\ ~Skipped
    /\ Begin("deepen", Checkpoint, MaxPages)
    /\ began' = hour

\* The newest candles count as a page of their own.
BeginRenew == Begin("renew", Nowhere, RenewPages + 1) /\ UNCHANGED began

\* okx-fetch-candles: one page.
BeginRecent == Begin("renew", Nowhere, 1) /\ UNCHANGED began

-----------------------------------------------------------------------------
(* The pages.                                                              *)

\* The newest PageLimit of what the exchange has that is older than the cursor, the
\* open bar among them.
Top(from) == IF from = Nowhere THEN hour + 1 ELSE from
Page(from) == {t \in 0..hour : t < Top(from) /\ t + PageLimit >= Top(from)}

\* normalize_okx_candles_to_market_bars drops the bar that is open.
Closed(page) == {t \in page : t < hour}

\* The deepening keeps the bars of its window.
Wanted(b, page) == Closed(page) \cap (IF b = "deepen" THEN TheWindow ELSE Hours)

\* A page that ends a run: the exchange has no more, or the start is reached.
LastPage(b, page) ==
    \/ Cardinality(page) < PageLimit
    \/ b = "deepen" /\ \E t \in page : t <= WindowStart

\* (a mutant: what the pages before brought is dropped)
LatestPage(bars, page) == page

\* symbol_records.extend
Gathered(bars, page) == bars \cup page

FetchPage(b) ==
    /\ b \in running /\ pages_left[b] > 0
    /\ LET page == Page(cursor[b])
       IN  /\ fetched' = [fetched EXCEPT ![b] = Gathered(@, Wanted(b, page))]
           /\ IF LastPage(b, page)
                THEN pages_left' = [pages_left EXCEPT ![b] = 0] /\ UNCHANGED cursor
                ELSE /\ pages_left' = [pages_left EXCEPT ![b] = @ - 1]
                     /\ cursor' = [cursor EXCEPT ![b] = CHOOSE t \in page : \A u \in page : t <= u]
    /\ UNCHANGED <<hour, stored_bars, running, outages, began>>

Forget(b) ==
    /\ running' = running \ {b}
    /\ cursor' = [cursor EXCEPT ![b] = Nowhere]
    /\ fetched' = [fetched EXCEPT ![b] = {}]
    /\ pages_left' = [pages_left EXCEPT ![b] = 0]

\* publish_market_bars_to_lake: one upsert.
PublishBars(b) ==
    /\ b \in running /\ pages_left[b] = 0
    /\ stored_bars' = stored_bars \cup fetched[b]
    /\ Forget(b)
    /\ UNCHANGED <<hour, outages, began>>

\* The retries of a request are used up, or the process dies.
RunFails(b) ==
    /\ b \in running /\ outages < MaxOutages
    /\ outages' = outages + 1
    /\ Forget(b)
    /\ UNCHANGED <<hour, stored_bars, began>>

-----------------------------------------------------------------------------
BackfillNext ==
    \/ BarCloses \/ BeginDeepen \/ BeginRenew \/ BeginRecent
    \/ \E b \in Backfills : FetchPage(b) \/ PublishBars(b) \/ RunFails(b)

DeepenGoesOn == FetchPage("deepen") \/ PublishBars("deepen")

\* The deepening is run again until the window is covered, and a run goes on
\* until it ends or fails.  Nothing is asked of the renewal, whose timer
\* deploy/retirement-20260905.json has retired, and of the newest page, which a
\* gap may be too old for.
BackfillFairness ==
    /\ WF_backfillVars(BarCloses)
    /\ WF_backfillVars(BeginDeepen)
    /\ WF_backfillVars(DeepenGoesOn)

BackfillSpec == BackfillInit /\ [][BackfillNext]_backfillVars
FairBackfillSpec == BackfillSpec /\ BackfillFairness

-----------------------------------------------------------------------------
(* Properties.                                                             *)

BackfillTypeOK ==
    /\ hour \in Hours /\ stored_bars \subseteq 0..hour
    /\ running \subseteq Backfills
    /\ cursor \in [Backfills -> 0..Nowhere]
    /\ fetched \in [Backfills -> SUBSET Hours]
    /\ pages_left \in [Backfills -> Nat]
    /\ outages \in 0..MaxOutages /\ began \in 0..hour

\* The exchange has the window, and the pages of one run reach its start.
ReachesStart == MaxPages * PageLimit > LastHour - WindowStart

\* A window that has closed is covered in the end, wherever its bars were missing
\* and however often a run failed: a run goes on from the earliest bar, and once the
\* start is there it goes back to the newest (okx_public.py:536-547).
HistoryCovered ==
    (ReachesStart /\ hour >= WindowEnd) ~> (Cardinality(InWindow) >= MinBars)

\* What a deepening run publishes makes no gap among the bars of the window that
\* had closed when it began: it joins the checkpoint it started from, whatever the
\* collector and the other job stored meanwhile (okx_public.py:551-587).
NoGapMade ==
    [][ReachesStart /\ running \ running' = {"deepen"} =>
          Missing(InWindow)' \ Missing(InWindow) \subseteq began..LastHour]_backfillVars
=============================================================================
