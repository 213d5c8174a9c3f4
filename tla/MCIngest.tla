------------------------------ MODULE MCIngest ------------------------------
(***************************************************************************)
(* The ways into the lake, the lock their writes take and the ways from    *)
(* the cloud's archive to the NAS, for TLC: a behaviour is about one.      *)
(***************************************************************************)
EXTENDS TelemetryBundles, WsCollector, DatasetLock, HistoryBackfill, HighFrequencyArchive,
        RedactedArchive

CONSTANTS fill, order, hot1, hot2, hot3, red1, red2

VARIABLE part    \* what a behaviour is about, for good

\* The windows of the bundles overlap; the first two are of one day.
Windows == <<{fill}, {fill, order}, {order}>>
BundleDays == <<1, 1, 2>>

\* One message per dataset, and one more trade after the first flush.
MessageFeeds == <<"trade_print", "orderbook_snapshot", "market_bar", "trade_print">>

\* Two files of the first day and one of the second; a bundle of each.
HotDays == (hot1 :> 1) @@ (hot2 :> 1) @@ (hot3 :> 2)
RedactedDays == (red1 :> 1) @@ (red2 :> 2)

ingestVars == <<bundleVars, collectorVars, lockVars, backfillVars, archiveVars, redactedVars,
                part>>

IngestInit ==
    /\ BundlesInit /\ CollectorInit /\ LockInit /\ BackfillInit
    /\ ArchiveInit /\ RedactedInit
    /\ part \in {"bundles", "collector", "lock", "history", "hot", "redacted"}

\* Jobs that are all dead wait for nothing.
AllDead == (\A j \in Jobs : Dead(j)) /\ UNCHANGED lockVars

nasVars == <<archiveVars, redactedVars>>
BundlesPart(A) ==
    part = "bundles" /\ A /\ UNCHANGED <<collectorVars, lockVars, backfillVars, nasVars, part>>
CollectorPart(A) ==
    part = "collector" /\ A /\ UNCHANGED <<bundleVars, lockVars, backfillVars, nasVars, part>>
LockPart(A) ==
    part = "lock" /\ A /\ UNCHANGED <<bundleVars, collectorVars, backfillVars, nasVars, part>>
HistoryPart(A) ==
    part = "history" /\ A /\ UNCHANGED <<bundleVars, collectorVars, lockVars, nasVars, part>>

HotPart(A) ==
    part = "hot" /\ A
    /\ UNCHANGED <<bundleVars, collectorVars, lockVars, backfillVars, redactedVars, part>>
RedactedPart(A) ==
    part = "redacted" /\ A
    /\ UNCHANGED <<bundleVars, collectorVars, lockVars, backfillVars, archiveVars, part>>

IngestNext ==
    \/ BundlesPart(BundlesNext)
    \/ CollectorPart(CollectorNext)
    \/ LockPart(LockNext \/ AllDead)
    \/ HistoryPart(BackfillNext)
    \/ HotPart(ArchiveNext)
    \/ RedactedPart(RedactedNext)

\* The fairness of each module, where its part is.  Only the actions of one part are ever
\* enabled in a behaviour, so that those of several parts can share a formula.
IngestFairness ==
    /\ WF_ingestVars(BundlesPart(Sync) \/ HistoryPart(BarCloses) \/ LockPart(LockAges)
                     \/ HotPart(StartPull) \/ RedactedPart(StartRun))
    /\ WF_ingestVars(HistoryPart(BeginDeepen) \/ HotPart(PullGoesOn) \/ RedactedPart(RunStep))
    /\ WF_ingestVars(HistoryPart(DeepenGoesOn))
    /\ \A p \in Pruners : WF_ingestVars(HotPart(PruneGoesOn(p)) \/ RedactedPart(RemovalStep(p)))
    /\ \A j \in Jobs :
          /\ WF_ingestVars(LockPart(StatLock(j)))
          /\ WF_ingestVars(LockPart(JudgeStale(j) \/ JudgeLive(j)))
          /\ WF_ingestVars(LockPart(BreakLock(j)))

ASSUME OneByOne == Pruners = Removers

IngestSpec == IngestInit /\ [][IngestNext]_ingestVars /\ IngestFairness
=============================================================================
