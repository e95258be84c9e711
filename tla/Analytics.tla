------------------------------- MODULE Analytics -------------------------------
(***************************************************************************)
(* internal/analytics: each ledger.entry_created event is added to four    *)
(* aggregates by four autocommitted upserts, then logged under its         *)
(* event_id, and only then are the cached metrics of its date dropped.     *)
(* The log is the only protection against adding an event again.           *)
(*                                                                         *)
(* "counted" says how often an event has been added to each aggregate, the *)
(* sums of the tables with their terms kept apart.  A view is the answer   *)
(* to a query for a range of dates: of daily_metrics (GetDailyMetrics, and *)
(* the daily GetMetricsSummary) or of hourly_metrics (the hourly one).     *)
(*                                                                         *)
(* A fault is also a query that fails, or a DEL of Redis that fails.       *)
(***************************************************************************)
EXTENDS Consumer

CONSTANTS Dates,     \* ordered
          DateOf,    \* the date of each payload, a ledger entry
          FirstHour, \* the payloads of the hour after midnight
          Readers,   \* callers of the cached queries
          Views,     \* what they ask for
          NoValue

\* A range that the handler of the query lets through.
Admissible(v) == v.first <= v.last

ASSUME AnalyticsConstants ==
  /\ Dates \subseteq Nat
  /\ Views \subseteq [period : {"daily", "hourly"}, first : Dates, last : Dates]
  /\ \A v \in Views : Admissible(v)
  /\ FirstHour \subseteq Payloads
  /\ DateOf \in [Payloads -> Dates]

VARIABLES counted,   \* per aggregate and event
          log,       \* status in event_processing_log, per event
          cache,     \* cached views
          pc,        \* where each instance's handler is
          rpc, got,  \* the readers
          raced,     \* history: views cached from a read an upsert overtook
          failed     \* history: messages whose handler failed

vars == <<consumer, faults, counted, log, cache, pc, rpc, got, raced, failed>>

Aggregates == {"daily", "hourly", "sender", "receiver"}

\* BETWEEN the two dates.  A date is its midnight: of the last date, an hourly
\* view has the first hour only.
InRange(v) ==
  {t \in Payloads :
     /\ v.first <= DateOf[t]
     /\ DateOf[t] < v.last \/ (DateOf[t] = v.last /\ (v.period = "daily" \/ t \in FirstHour))}

Shows(v) == [t \in InRange(v) |-> counted[v.period][t]]

TypeOK ==
  /\ ConsumerTypeOK
  /\ counted \in [Aggregates -> [Payloads -> Nat]]
  /\ log \in [Payloads -> {"none", "processed", "failed"}]
  /\ DOMAIN cache = Views /\ DOMAIN got = Readers
  /\ pc \in [Consumers -> Aggregates \cup {"idle", "check", "log", "report", "invalidate", "ack"}]
  /\ \A c \in Consumers : pc[c] = "idle" <=> msg[c] = NoMessage
  /\ rpc \in [Readers -> Views \cup {NoValue}]
  /\ raced \subseteq Views
  /\ failed \subseteq Messages

Init ==
  /\ ConsumerInit
  /\ counted = [a \in Aggregates |-> [t \in Payloads |-> 0]]
  /\ log = [t \in Payloads |-> "none"]
  /\ cache = [v \in Views |-> NoValue]
  /\ pc = [c \in Consumers |-> "idle"]
  /\ rpc = [g \in Readers |-> NoValue]
  /\ got = [g \in Readers |-> NoValue]
  /\ raced = {} /\ failed = {}

Goto(c, l) == pc' = [pc EXCEPT ![c] = l]
Event(c) == Payload(msg[c])

-----------------------------------------------------------------------------
(* The handler.                                                            *)

Fetch(c) ==
  /\ FetchMessage(c)
  /\ Goto(c, "check")
  /\ UNCHANGED <<faults, counted, log, cache, rpc, got, raced, failed>>

\* The handler returns an error.
Refuse(c) ==
  /\ HandlerFailed(c)
  /\ Goto(c, "idle")
  /\ failed' = failed \cup {msg[c]}
  /\ UNCHANGED <<counted, cache, rpc, got, raced>>

\* Variants named ...Bug are plausible mistakes in the definition that follows
\* them.  Here: the log is not looked at.
IsEventProcessedBug(c) ==
  /\ pc[c] = "check"
  /\ Goto(c, "daily")
  /\ UNCHANGED <<consumer, faults, counted, log, cache, rpc, got, raced, failed>>

\* Any row will do, one that reports a failure too.
IsEventProcessed(c) ==
  /\ pc[c] = "check"
  /\ Goto(c, IF log[Event(c)] = "none" THEN "daily" ELSE "ack")
  /\ UNCHANGED <<consumer, faults, counted, log, cache, rpc, got, raced, failed>>

After == [daily |-> "hourly", hourly |-> "sender", sender |-> "receiver", receiver |-> "log"]

Count(c) == counted' = [counted EXCEPT ![pc[c]][Event(c)] = @ + 1]

\* UpsertDailyMetric, UpsertHourlyMetric, and UpsertUserSnapshot twice.  A snapshot
\* is for an id that is not empty: the ledger's events have both.
Upsert(c) ==
  /\ pc[c] \in Aggregates
  /\ Count(c)
  /\ Goto(c, After[pc[c]])
  /\ UNCHANGED <<consumer, faults, log, cache, rpc, got, raced, failed>>

\* The upsert may have been applied.
UpsertFails(c) ==
  /\ pc[c] \in Aggregates
  /\ Count(c) \/ UNCHANGED counted
  /\ Goto(c, "report")
  /\ Fault
  /\ UNCHANGED <<consumer, log, cache, rpc, got, raced, failed>>

\* A second row of the event_id is refused; a refused or failed INSERT is an
\* error of the handler, which leaves the upserts and the cache as they are.
CreateEventLog(c) ==
  /\ pc[c] = "log"
  /\ \/ /\ log[Event(c)] = "none"
        /\ log' = [log EXCEPT ![Event(c)] = "processed"]
        /\ Goto(c, "invalidate")
        /\ UNCHANGED <<consumer, counted, cache, rpc, got, raced, failed>>
     \/ log[Event(c)] # "none" /\ Refuse(c) /\ UNCHANGED log
  /\ UNCHANGED faults

\* After a failed upsert: the row is of status failed, and the handler fails.
ReportFailure(c) ==
  /\ pc[c] = "report"
  /\ log' = [log EXCEPT ![Event(c)] = IF @ = "none" THEN "failed" ELSE @]
  /\ Refuse(c)
  /\ UNCHANGED faults

\* The log row may have been inserted.
QueryFails(c) ==
  /\ pc[c] \in {"check", "log", "report"}
  /\ \/ UNCHANGED log
     \/ /\ pc[c] = "log" /\ log[Event(c)] = "none"
        /\ log' = [log EXCEPT ![Event(c)] = "processed"]
  /\ Refuse(c)
  /\ Fault

\* The pattern *date* of the SCAN: a key shows the first and the last date.
Matches(v, d) == d \in {v.first, v.last}

Drop(S) ==
  /\ cache' = [v \in Views |-> IF v \in S THEN NoValue ELSE cache[v]]
  /\ raced' = raced \ S

\* The keys the SCAN returned are not deleted.
InvalidateCacheForDateBug(c) ==
  /\ pc[c] = "invalidate"
  /\ Goto(c, "ack")
  /\ UNCHANGED <<consumer, faults, counted, log, cache, rpc, got, raced, failed>>

\* A DEL that fails leaves the keys behind it.  The DELs are one step: a key
\* set between them is as if it were set before or after all of them.
InvalidateCacheForDate(c) ==
  LET S == {v \in Views : Matches(v, DateOf[Event(c)])} IN
  /\ pc[c] = "invalidate"
  /\ \/ Drop(S) /\ UNCHANGED faults
     \/ (\E R \in SUBSET S : Drop(R)) /\ Fault
  /\ Goto(c, "ack")
  /\ UNCHANGED <<consumer, counted, log, rpc, got, failed>>

Ack(c) ==
  /\ pc[c] = "ack"
  /\ CommitMessage(c)
  /\ Goto(c, "idle")
  /\ UNCHANGED <<faults, counted, log, cache, rpc, got, raced, failed>>

Flush(c) == FlushCommits(c) /\ UNCHANGED <<counted, log, cache, pc, rpc, got, raced, failed>>

\* Each upsert and the log row stay: there is no transaction around them.
Die(c) ==
  /\ Crash(c)
  /\ Goto(c, "idle")
  /\ UNCHANGED <<counted, log, cache, rpc, got, raced, failed>>

Reassign(p, c) ==
  /\ Rebalance(p, c)
  /\ UNCHANGED <<counted, log, cache, pc, rpc, got, raced, failed>>

-----------------------------------------------------------------------------
(* GetDailyMetrics and GetMetricsSummary.  A hit changes nothing.          *)

ReadMiss(g, v) ==
  /\ rpc[g] = NoValue /\ cache[v] = NoValue
  /\ rpc' = [rpc EXCEPT ![g] = v]
  /\ got' = [got EXCEPT ![g] = Shows(v)]
  /\ UNCHANGED <<consumer, faults, counted, log, cache, pc, raced, failed>>

CacheView(g) ==
  /\ rpc[g] # NoValue
  /\ cache' = [cache EXCEPT ![rpc[g]] = got[g]]
  /\ raced' = IF got[g] = Shows(rpc[g]) THEN raced \ {rpc[g]} ELSE raced \cup {rpc[g]}
  /\ rpc' = [rpc EXCEPT ![g] = NoValue]
  /\ got' = [got EXCEPT ![g] = NoValue]
  /\ UNCHANGED <<consumer, faults, counted, log, pc, failed>>

\* Redis expires each entry after its time to live; here, one set without it.
ExpireCacheBug(v) == FALSE /\ UNCHANGED vars

ExpireCache(v) ==
  /\ cache[v] # NoValue
  /\ Drop({v})
  /\ UNCHANGED <<consumer, faults, counted, log, pc, rpc, got, failed>>

-----------------------------------------------------------------------------
Step(c) ==
  \/ Fetch(c) \/ IsEventProcessed(c) \/ Upsert(c) \/ CreateEventLog(c)
  \/ ReportFailure(c) \/ InvalidateCacheForDate(c) \/ Ack(c) \/ Flush(c)

Next ==
  \/ \E c \in Consumers : Step(c) \/ UpsertFails(c) \/ QueryFails(c) \/ Die(c)
  \/ \E p \in Partitions, c \in Consumers : Reassign(p, c)
  \/ \E g \in Readers : CacheView(g) \/ \E v \in Views : ReadMiss(g, v)
  \/ \E v \in Views : ExpireCache(v)

Spec == Init /\ [][Next]_vars

\* The consumer goroutine runs as long as its process, kafka-go flushes the
\* commits it was asked for, and Redis expires what has a time to live.
FairSpec ==
  /\ Spec
  /\ \A c \in Consumers : WF_vars(Step(c)) /\ WF_vars(Flush(c))
  /\ \A v \in Views : WF_vars(ExpireCache(v))

-----------------------------------------------------------------------------
(* Safety.                                                                 *)

\* An event is added once per partition that holds a copy of it, as two instances
\* may be at the copies at once, and once more per fault at most: a crash or an
\* error between its upserts and its log row, or a rebalance that has two
\* instances at one copy.  A second copy in the same partition is not counted.
\* The later aggregates never get ahead of the earlier ones, and an event that
\* is logged as processed is in all of them.
CountedOnce ==
  \A t \in Payloads :
    /\ counted["daily"][t] <= Cardinality(Holding(t)) + faults
    /\ counted["hourly"][t] <= counted["daily"][t]
    /\ counted["sender"][t] <= counted["hourly"][t]
    /\ counted["receiver"][t] <= counted["sender"][t]
    /\ log[t] = "processed" => counted["receiver"][t] > 0

\* What a cached view shows of its first and its last date is current, unless a
\* change is about to drop the view, or the view was read before a change and
\* cached after it, or a fault kept the invalidation from happening, or an event
\* of the date was added again and then refused by the log.  The dates between
\* are left out: a change there does not drop the view.
StaleOnlyByRace ==
  \A v \in Views :
    \/ cache[v] = NoValue
    \/ \A t \in InRange(v) : Matches(v, DateOf[t]) => cache[v][t] = counted[v.period][t]
    \/ v \in raced
    \/ \E c \in Consumers :
         /\ pc[c] \in Aggregates \cup {"log", "invalidate"}
         /\ Matches(v, DateOf[Event(c)])
    \/ \E m \in failed : Matches(v, DateOf[Payload(m)])
    \/ faults > 0

-----------------------------------------------------------------------------
(* Liveness.                                                               *)

\* Every event in the topic is counted in full and logged, or a delivery of it
\* is reported as an error; and when all are, whatever was cached in a race, by
\* a fault or past an invalidation that did not match, gives way to views that
\* show what was counted, those with a date in their middle too.
EventuallyConsistent ==
  <>[](/\ \A m \in Messages : \/ log[Payload(m)] = "processed"
                             \/ \E n \in failed : Payload(n) = Payload(m)
       /\ \A v \in Views : cache[v] \in {NoValue, Shows(v)})
=============================================================================
