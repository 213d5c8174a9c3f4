------------------------------ MODULE MCService ------------------------------
(***************************************************************************)
(* The caches of the API process for TLC: a behaviour uses one of them.    *)
(* Its threads are interchangeable, and the publishers are.                *)
(***************************************************************************)
EXTENDS RiskPermission, AdvisoryCache, CostEstimates, TLC

VARIABLE use    \* what a behaviour is about, for good

\* The threads of the process serve every kind of request.
Symmetry == Permutations(Threads \cup Clients \cup Inquirers) \cup Permutations(Publishers)

\* Two requests and a publisher; one request while a permission ages and expires; one
\* publication with two of a change of what it was computed from, time and a new bundle;
\* two publishers; failing reads.
\* `stops` are the phases in which a publisher may stop.
PermissionUse(threads, publishers, rows) ==
    [part |-> "permission", threads |-> threads, publishers |-> publishers, rows |-> rows,
     changes |-> 0, time |-> 0, bundles |-> 0, fails |-> FALSE, stops |-> {}]

PermissionUses ==
    {PermissionUse(2, 1, 2),
     [PermissionUse(1, 1, 2) EXCEPT !.time = 2],
     [PermissionUse(1, 1, 1) EXCEPT !.changes = 1, !.time = 1],
     [PermissionUse(1, 1, 1) EXCEPT !.changes = 1, !.bundles = 1],
     [PermissionUse(1, 1, 1) EXCEPT !.time = 1, !.bundles = 1],
     [PermissionUse(1, 2, 2) EXCEPT !.stops = {"meta"}],
     [PermissionUse(1, 1, 2) EXCEPT !.stops = {"rowAway"}],
     [PermissionUse(1, 1, 1) EXCEPT !.bundles = 1, !.fails = TRUE,
                                    !.stops = {"row", "rowAway", "metaAway"}]}

\* Two clients while both datasets are written, or while the rows of Gold expire; one while a
\* report pack stands in for them; one while Gold is replaced and anything fails; two while
\* it is replaced.
AdvisoryUse(clients, most, time, fresh, fails) ==
    [part |-> "advisory", clients |-> clients, most |-> most, time |-> time,
     fresh |-> fresh, fails |-> fails]

WritesOf(gold, report, other) ==
    [s \in Sources |-> CASE s = Gold -> gold [] s = Report -> report [] OTHER -> other]

AdvisoryUses ==
    {AdvisoryUse(2, WritesOf(1, 0, 1), 0, {FALSE}, FALSE),
     AdvisoryUse(2, WritesOf(1, 0, 0), 1, {TRUE}, FALSE),
     AdvisoryUse(1, WritesOf(1, 0, 0), 2, {TRUE}, FALSE),
     AdvisoryUse(1, WritesOf(1, 1, 0), 1, {TRUE}, FALSE),
     AdvisoryUse(1, WritesOf(2, 1, 0), 0, {FALSE}, TRUE),
     AdvisoryUse(2, WritesOf(2, 0, 0), 0, {FALSE}, FALSE)}

\* A full proof of cost, one that a strategy's few fills give, one without fees, a probe.
FillsShown ==
    {[source |-> "actual_fills", live |-> "many", complete |-> TRUE, slips |-> TRUE],
     [source |-> "mixed_actual_proxy", live |-> "some", complete |-> TRUE, slips |-> TRUE],
     [source |-> "actual_okx_fills_fee_missing", live |-> "few", complete |-> FALSE, slips |-> FALSE],
     [source |-> "bootstrap_cost_probe", live |-> "few", complete |-> FALSE, slips |-> TRUE]}

\* With a notional_bucket, or with a notional that fits the size (one that fits none asks
\* for what the bucket "all" does).
CostAsks ==
    [regime : {"normal", "trend"}, bucket : {"all", "small"}, sizes : {{}}]
      \cup [regime : {"normal", "trend"}, bucket : {"any"}, sizes : {{"small"}}]

\* What the lake may hold at any time; one request after the other while anything fails;
\* two requests while the rows are replaced.
CostUses ==
    {[part |-> "costs", what |-> "choice", requests |-> 1],
     [part |-> "costs", what |-> "failures", requests |-> 1],
     [part |-> "costs", what |-> "threads", requests |-> 2]}

\* What reads of the manifest, of the row, of the gates and the bars show: when they fail,
\* nothing.
ReadsShown ==
    /\ \A p \in Publishers :
           publisher[p].at = "idle" /\ publisher'[p].at = "read"
               => publisher'[p].bundle = bundle
    /\ \A t \in Threads :
           /\ thread[t].at \in {"idle", "lookup"} /\ thread'[t].at \in {"key", "select"}
                  => thread'[t].bundle = bundle \/ (use.fails /\ thread'[t].bundle = 0)
           /\ ~use.fails /\ thread[t].at = "select" /\ thread'[t].at = "compute"
                  => thread'[t].row = row
           /\ ~use.fails /\ thread[t].at = "compute" /\ thread'[t].at = "answered"
                  => thread'[t].answer.perm \in {RecomputedNow, thread[t].row.perm}

\* Time passes between runs of the publisher or after its reads, and the host's telemetry
\* comes once.  A request that is answered goes out, and one that is about to read waits
\* only for what changes that.
PermissionNext ==
    /\ RiskNext
    /\ clock' # clock => \A p \in Publishers : publisher[p].at \in {"idle", "read"}
    /\ clock' # clock \/ health' # health
           => \A t \in Threads : thread[t].at \in {"idle", "lookup", "compute"}
    /\ bundle' # bundle => bundle = 0 /\ \A t \in Threads : thread[t].at \in {"idle", "lookup"}
    /\ (\E p \in Publishers : publisher[p].at = "read")
           => clock' # clock \/ publisher' # publisher
    /\ thread' = thread => \A t \in Threads :
           /\ thread[t].at \in {"key", "select"} => row' # row
           /\ thread[t].at = "sign" => meta' # meta
           /\ thread[t].at = "compute" => clock' # clock \/ health' # health
    /\ \A p \in Publishers :
           /\ publisher'[p] # publisher[p] /\ publisher'[p].at = "idle"
                  => publisher[p].at \in use.stops \/ metas' # metas
           /\ publisher'[p].at = "read" => published < use.rows
    /\ (\E t \in Threads : Answered(t)) => \E t \in Threads : Answered(t) /\ ~Answered(t)'
    /\ health'.gates \in {"ready", "quarantine", "bootstrap"} /\ health'.costOk /\ health'.costSeen
    /\ published' <= use.rows
    /\ health'.changes <= use.changes
    /\ clock' <= use.time
    /\ bundle' # 0 => use.bundles # 0
    /\ Cardinality({t \in Threads : thread'[t].at # "idle"}) <= use.threads
    /\ Cardinality({p \in Publishers : publisher'[p].at # "idle"}) <= use.publishers
    /\ health'.bar # 0 => use.changes # 0
    /\ cache # {} /\ cache' = {} => use.fails
    /\ thread' # thread => published >= use.threads - 1
    /\ use.fails => Cardinality(unfound') <= 1
    /\ ReadsShown

\* What has been read when the last dataset is.
Read(c) == IF client'[c].at = "keep" THEN Sources ELSE {}

\* The lake changes while requests are about to come, to sign or to read: the other steps do
\* not look at it.  Two are under way once Gold has its last version, the first one from
\* before.  Reads fail, and a rewrite is killed, only where they may.
AdviceNext ==
    /\ AdvisoryNext
    /\ lakeFiles' # lakeFiles => \A c \in Clients : client[c].at \in {"idle", "sign", "load"}
    /\ now' # now => \A c \in Clients : client[c].at \in {"idle", "sign", "get", "filter"}
    /\ \A c \in Clients : client'[c].at = "sign" => client'[c].fresh \in use.fresh
    /\ (\E c \in Clients : client[c].at = "answered")
           => \E c \in Clients : client[c].at = "answered" /\ client'[c].at = "idle"
    /\ \A s \in Sources :
           /\ writes'[s] <= use.most[s]
           /\ backup'[s] # 0 => writes[s] < use.most[s]
           /\ backup[s] # 0 /\ backup'[s] = 0 => writes'[s] # writes[s] \/ use.fails
    /\ use.time = 0 => \A s \in {Gold, Report} : \A i \in DOMAIN written'[s] : written'[s][i] = {1}
    /\ begun' # begun => \A s \in {Gold, Report} : writes[s] >= use.most[s] - 1
    /\ Cardinality({c \in Clients : client'[c].at # "idle"})
           <= IF writes[Gold] = use.most[Gold] THEN use.clients ELSE 1
    /\ Cardinality(missed') <= 1
    /\ ~use.fails =>
           \A c \in Clients, s \in Sources :
               client'[c].loaded[s] = 0 /\ s \in client'[c].done \cup Read(c)
                   => client[c].at # "load" \/ s \in client[c].done \/ version[s] = 0
                          \/ Unneeded(s, client[c].loaded)
    /\ now' <= use.time

\* When requests come: after all of time, at any time, or from the end of the first run on.
CostsAsked ==
    CASE use.what = "choice" -> hour = MaxHours /\ runs = MaxRuns /\ calibration.at = "idle"
      [] use.what = "failures" -> TRUE
      [] use.what = "threads" -> runs = 2 \/ (runs = 1 /\ calibration.at = "idle")

\* Time passes between runs and requests; the datasets change under two requests while these
\* are about to come, to sign or to read: the other steps do not look at them.
CostsNext ==
    /\ CostNext
    /\ hour' # hour
           => /\ use.what = "choice" /\ calibration.at = "idle"
              /\ \A c \in Inquirers : inquiry[c].at = "idle"
    /\ (\E c \in Inquirers : inquiry[c].at = "answered")
           => \E c \in Inquirers : inquiry[c].at = "answered" /\ inquiry'[c].at = "idle"
    /\ Cardinality({c \in Inquirers : inquiry'[c].at # "idle"}) <= use.requests
    /\ inquiry' # inquiry
           => \A c \in Inquirers : inquiry'[c].ask
                  \subseteq {[regime |-> "normal", bucket |-> "any", sizes |-> {"small"}]}
    /\ runs' # runs /\ use.what # "choice"
           => \E r \in calibration'.rows : r.source = "actual_fills"
    /\ use.what # "failures"
           => /\ calibration'.at = "idle" => calibration.at \in {"idle", "replaced"}
              /\ calibration'.at # calibration.at /\ calibration.at = "replaced"
                     => costHealth' # costHealth
              /\ unread' # unread => lake = Gone
    /\ use.what = "threads"
           => /\ lake' # lake => \A c \in Inquirers : inquiry[c].at \in {"idle", "sign", "load"}
              /\ costHealth' # costHealth
                     => \A c \in Inquirers : inquiry[c].at \in {"idle", "signed"}
    /\ inquiry' # inquiry => CostsAsked

ServiceInit ==
    /\ RiskInit /\ AdvisoryInit /\ CostInit
    /\ use \in PermissionUses \cup AdvisoryUses \cup CostUses

ServiceNext ==
    /\ UNCHANGED use
    /\ \/ use.part = "permission" /\ PermissionNext /\ UNCHANGED <<advisoryVars, costVars>>
       \/ use.part = "advisory" /\ AdviceNext /\ UNCHANGED <<riskVars, costVars>>
       \/ use.part = "costs" /\ CostsNext /\ UNCHANGED <<riskVars, advisoryVars>>

ServiceSpec == ServiceInit /\ [][ServiceNext]_<<riskVars, advisoryVars, costVars, use>>

\* The context changes between requests.
QuietContextNext ==
    /\ ServiceNext
    /\ health' # health => \A t \in Threads : thread[t].at = "idle"

QuietContextSpec ==
    ServiceInit /\ [][QuietContextNext]_<<riskVars, advisoryVars, costVars, use>>
=============================================================================
