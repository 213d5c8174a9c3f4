---------------------------- MODULE WsCollector ----------------------------
(***************************************************************************)
(* The collector of OKX's public websocket (ingest/okx_ws_public.py): one  *)
(* coroutine that reads messages, reopens a silent or broken connection,   *)
(* and publishes its buffer to four datasets of the lake.                  *)
(*                                                                         *)
(* A flush appends to raw_ws, upserts market_bar, appends trade_print and  *)
(* appends orderbook_snapshot, in this order; any of them may raise (disk, *)
(* lock timeout), and what was appended stays.  The unit stops the         *)
(* collector after two hours with SIGTERM, which Python does not turn into *)
(* an exception: the buffer is lost, as it is when the process is killed.  *)
(***************************************************************************)
EXTENDS Naturals, Sequences, FiniteSets, SequencesExt

CONSTANTS Channels,        \* what the collector subscribes to
          Feeds,           \* the dataset each message belongs to, in the order received
          FlushMax,        \* flush_max_messages
          MaxAttempts,     \* reconnect_max_attempts
          MaxErrors        \* a bound: failures of the connection and of the lake

Messages == DOMAIN Feeds
Datasets == <<"raw_ws", "market_bar", "trade_print", "orderbook_snapshot">>

ASSUME CollectorAssumption ==
    /\ FlushMax \in Nat \ {0} /\ MaxAttempts \in Nat /\ MaxErrors \in Nat
    /\ Feeds \in Seq({"market_bar", "trade_print", "orderbook_snapshot", "none"})

VARIABLES open,          \* a connection is open
          subscribed,    \* the channels the open connection was asked for
          attempts,      \* reconnect_attempts since the last message
          messages_read, \* how many messages were read
          buffer,        \* the messages not published yet, in order
          stored,        \* how often each dataset holds each message
          pc,            \* what the coroutine does next
          writing,       \* the dataset a flush writes next
          status,        \* the status it would report
          health,        \* collector_health: the last status and count reported
          errors,        \* how many failures happened
          broken         \* auxiliary: a flush raised

flushVars == <<buffer, stored, writing>>
connection == <<open, subscribed, attempts>>
collectorVars == <<connection, flushVars, messages_read, pc, status, health, errors, broken>>

Places == {"connect", "subscribe", "receive", "reconnect", "flush", "report",
             "lastFlush", "lastReport", "stopped", "failed", "killed"}

CollectorInit ==
    /\ open = FALSE /\ subscribed = {} /\ attempts = 0
    /\ messages_read = 0 /\ buffer = <<>> /\ writing = 1
    /\ stored = [d \in Range(Datasets) |-> [m \in Messages |-> 0]]
    /\ pc = "connect" /\ status = "RUNNING"
    /\ health = [status |-> "none", read |-> 0]
    /\ errors = 0 /\ broken = FALSE

Fails == errors < MaxErrors /\ errors' = errors + 1

-----------------------------------------------------------------------------
(* The connection (connect, subscribe_public_channels, read_messages).     *)

\* The first connection and subscription; a failure here ends the collector
\* before the `try`, so nothing is reported.
Start ==
    /\ pc = "connect"
    /\ \/ /\ open' = TRUE /\ subscribed' = Channels
          /\ health' = [status |-> status, read |-> messages_read]
          /\ pc' = "receive"
          /\ UNCHANGED errors
       \/ /\ Fails
          /\ pc' = "stopped"
          /\ UNCHANGED <<open, subscribed, health>>
    /\ UNCHANGED <<attempts, flushVars, messages_read, status, broken>>

\* The interval between flushes has passed or it has not: either is possible.
Due(b) == Len(b) >= FlushMax

Buffered(b, m) == Append(b, m)

\* A message arrives and is buffered; pings are answered and change nothing else.
Receive ==
    /\ pc = "receive" /\ open
    /\ messages_read < Len(Feeds)
    /\ attempts' = 0
    /\ messages_read' = messages_read + 1
    /\ buffer' = Buffered(buffer, messages_read + 1)
    /\ \/ pc' = "flush" /\ writing' = 1
       \/ ~Due(buffer') /\ UNCHANGED <<pc, writing>>
    /\ UNCHANGED <<open, subscribed, stored, status, health, errors, broken>>

\* A message that is not a JSON object, or a pong that cannot be sent: the
\* exception leaves read_messages.
ReceiveMalformed ==
    /\ pc = "receive" /\ open
    /\ Fails
    /\ attempts' = 0
    /\ status' = "ERROR" /\ pc' = "lastFlush" /\ writing' = 1
    /\ UNCHANGED <<open, subscribed, buffer, stored, messages_read, health, broken>>

\* A receive timeout or an exception of recv: the connection is closed, or
\* the exception leaves read_messages after too many in a row.
ReceiveFails ==
    /\ pc = "receive" /\ open
    /\ Fails
    /\ attempts' = attempts + 1
    /\ IF attempts' > MaxAttempts
         THEN /\ status' = "ERROR" /\ pc' = "lastFlush" /\ writing' = 1
              /\ UNCHANGED <<open, subscribed>>
         ELSE /\ open' = FALSE /\ subscribed' = {} /\ pc' = "reconnect"
              /\ UNCHANGED <<status, writing>>
    /\ UNCHANGED <<buffer, stored, messages_read, health, broken>>

\* connect sends every payload of _subscriptions.
SentOnConnect == Channels

\* After the backoff; a close or connect that fails here is inside no `try`,
\* and its exception leaves read_messages whatever the number of attempts.
Reconnect ==
    /\ pc = "reconnect"
    /\ \/ /\ open' = TRUE /\ subscribed' = SentOnConnect
          /\ pc' = "receive"
          /\ UNCHANGED <<errors, status, writing>>
       \/ /\ Fails
          /\ status' = "ERROR" /\ pc' = "lastFlush" /\ writing' = 1
          /\ UNCHANGED <<open, subscribed>>
    /\ UNCHANGED <<attempts, buffer, stored, messages_read, health, broken>>

\* max_messages were read.
ReadingEnds ==
    /\ pc = "receive" /\ messages_read = Len(Feeds)
    /\ pc' = "lastFlush" /\ writing' = 1
    /\ UNCHANGED <<connection, buffer, stored, messages_read, status, health, errors, broken>>

-----------------------------------------------------------------------------
(* The flush (publish_okx_public_ws_messages_to_lake) and the final one.   *)

\* The messages of a batch that a dataset takes.
Taken(d, batch) == {m \in Range(batch) : d \in {"raw_ws", Feeds[m]}}

\* The rows a write leaves: market_bar is upserted by key, the others append.
Put(d, batch) ==
    [m \in Messages |->
        IF m \notin Taken(d, batch) THEN stored[d][m]
        ELSE IF d = "market_bar" THEN 1 ELSE stored[d][m] + 1]

WriteNext ==
    /\ writing <= Len(Datasets)
    /\ stored' = [stored EXCEPT ![Datasets[writing]] = Put(Datasets[writing], buffer)]
    /\ writing' = writing + 1

Kept(b) == b                              \* (a mutant: the buffer is not cleared)
Cleared(b) == <<>>

\* The next dataset of a flush; after the last one the buffer is cleared.
Flush ==
    /\ pc = "flush"
    /\ \/ /\ WriteNext
          /\ UNCHANGED <<buffer, pc, status, errors, broken>>
       \/ /\ writing > Len(Datasets)
          /\ buffer' = Cleared(buffer) /\ pc' = "report"
          /\ UNCHANGED <<stored, writing, status, errors, broken>>
       \/ /\ writing <= Len(Datasets) /\ Fails
          /\ broken' = TRUE
          /\ status' = "ERROR" /\ pc' = "lastFlush" /\ writing' = 1
          /\ UNCHANGED <<buffer, stored>>
    /\ UNCHANGED <<connection, messages_read, health>>

\* publish_okx_public_ws_collector_health after a flush.
Report ==
    /\ pc = "report"
    /\ \/ /\ health' = [status |-> status, read |-> messages_read]
          /\ pc' = "receive"
          /\ UNCHANGED <<status, errors, writing>>
       \/ /\ Fails
          /\ status' = "ERROR" /\ pc' = "lastFlush" /\ writing' = 1
          /\ UNCHANGED health
    /\ UNCHANGED <<connection, buffer, stored, messages_read, broken>>

NothingLeft == buffer = <<>>

\* The finally block: what the buffer still holds is published, again from
\* the first dataset when an earlier flush of it raised.
LastFlush ==
    /\ pc = "lastFlush"
    /\ \/ /\ NothingLeft
          /\ pc' = "lastReport"
          /\ UNCHANGED <<flushVars, errors, broken>>
       \/ /\ ~NothingLeft /\ WriteNext
          /\ pc' = IF writing = Len(Datasets) THEN "lastReport" ELSE pc
          /\ UNCHANGED <<buffer, errors, broken>>
       \/ /\ ~NothingLeft /\ Fails
          /\ broken' = TRUE /\ pc' = "failed"
          /\ UNCHANGED flushVars
    /\ UNCHANGED <<connection, messages_read, status, health>>

LastReport ==
    /\ pc = "lastReport"
    /\ \/ /\ health' = [status |-> IF status = "RUNNING" THEN "STOPPED" ELSE status,
                        read |-> messages_read]
          /\ UNCHANGED errors
       \/ Fails /\ UNCHANGED health
    /\ pc' = "stopped"
    /\ UNCHANGED <<connection, flushVars, messages_read, status, broken>>

\* SIGTERM of `timeout 2h`, or SIGKILL.
Killed ==
    /\ pc \notin {"stopped", "failed", "killed"}
    /\ Fails
    /\ pc' = "killed"
    /\ UNCHANGED <<connection, flushVars, messages_read, status, health, broken>>

\* A collector that ended stays so: systemd starts another one.
Ended == pc \in {"stopped", "failed", "killed"} /\ UNCHANGED collectorVars

CollectorNext ==
    \/ Start \/ Receive \/ ReceiveMalformed \/ ReceiveFails \/ Reconnect \/ ReadingEnds
    \/ Flush \/ Report \/ LastFlush \/ LastReport \/ Killed \/ Ended

CollectorSpec == CollectorInit /\ [][CollectorNext]_collectorVars

-----------------------------------------------------------------------------
(* Properties.                                                             *)

CollectorTypeOK ==
    /\ open \in BOOLEAN /\ subscribed \subseteq Channels
    /\ attempts \in 0..MaxErrors
    /\ messages_read \in 0..Len(Feeds)
    /\ buffer \in Seq(Messages)
    /\ stored \in [Range(Datasets) -> [Messages -> Nat]]
    /\ pc \in Places /\ writing \in 1..(Len(Datasets) + 1)
    /\ status \in {"RUNNING", "ERROR"}
    /\ errors \in 0..MaxErrors /\ broken \in BOOLEAN

InDatasets(m) ==
    \A d \in {"raw_ws", Feeds[m]} \ {"none"} : stored[d][m] > 0

\* Every message read is still buffered or in all its datasets, whatever the
\* connection and the lake do, and a collector that ended left nothing in its
\* buffer, unless the process was killed or its last flush raised
\* (okx_ws_public.py:344-420).
MessagesKept ==
    pc \notin {"killed", "failed"} =>
        \A m \in 1..messages_read :
            InDatasets(m) \/ (pc # "stopped" /\ m \in Range(buffer))

\* A message is in a dataset once, unless a flush raised: the finally block
\* then publishes the same buffer from the first dataset on (okx_ws_public.py:392).
StoredOnce ==
    ~broken => \A d \in Range(Datasets) : \A m \in Messages : stored[d][m] <= 1

\* A message that was read gets into its datasets, and once, through reconnections, full
\* buffers and flushes that raise (okx_ws_public.py:344-420).
DeliveredOnce == MessagesKept /\ StoredOnce
=============================================================================
