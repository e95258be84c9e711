-------------------------------- MODULE Outbox --------------------------------
(***************************************************************************)
(* The transactional outbox of pkg/outbox: business transactions insert    *)
(* event rows, and one publisher goroutine per running instance of the     *)
(* service polls the table and writes the rows to Kafka.                   *)
(*                                                                         *)
(* A row is visible to a poll only once its transaction has committed, but *)
(* its created_at is the time that transaction began (CURRENT_TIMESTAMP),  *)
(* so rows become visible in an order created_at does not show.  "copies"  *)
(* counts how often an event is in its Kafka topic.                        *)
(*                                                                         *)
(* A fault is a publisher that stops (process crash, or the cancelled      *)
(* context of a shutdown), an UPDATE of the table that fails, or a write   *)
(* that Kafka kept although the client saw an error.  MaxFaults bounds     *)
(* their number; a write that simply fails is not a fault.                 *)
(***************************************************************************)
EXTENDS Naturals, FiniteSets

CONSTANTS Events,       \* rows that may be inserted
          Publishers,   \* running instances of Publisher.Start on one table
          MaxAttempts,  \* 5 in the code: "attempts < 5" and "Attempts >= 4"
          BatchLimit,   \* 100 in the code
          RowsPerTx,    \* a business transaction saves one or two events
          NoEvent,      \* a publisher is between two events
          MaxFaults     \* bound of the model

ASSUME OutboxConstants ==
  /\ NoEvent \notin Events
  /\ MaxAttempts \in Nat \ {0}
  /\ BatchLimit \in Nat \ {0}
  /\ RowsPerTx \in Nat \ {0}
  /\ MaxFaults \in Nat
  /\ IsFiniteSet(Events)

VARIABLES status, attempts, created, \* columns of the table outbox_events
          committed,               \* when the row's transaction ended
          clock,   \* orders the begins and the commits of transactions
          pc,      \* where each publisher's loop is
          todo,    \* the rest of the batch it selected
          seen,    \* the attempts of each row of that batch when selected
          cur,     \* the event it is publishing
          copies,  \* copies of each event in Kafka
          faults

table == <<status, attempts, created, committed, clock>>
loop  == <<pc, todo, seen, cur>>
vars  == <<status, attempts, created, committed, clock, pc, todo, seen, cur, copies, faults>>

Committed == {"pending", "published", "failed"}
Status    == Committed \cup {"none", "open", "aborted"}

TypeOK ==
  /\ status \in [Events -> Status]
  /\ attempts \in [Events -> Nat]
  /\ created \in [Events -> Nat]
  /\ committed \in [Events -> Nat]
  /\ clock \in Nat
  /\ pc \in [Publishers -> {"loop", "sent", "refused"}]
  /\ todo \in [Publishers -> SUBSET Events]
  /\ seen \in [Publishers -> [Events -> Nat]]
  /\ cur \in [Publishers -> Events \cup {NoEvent}]
  /\ \A p \in Publishers : (cur[p] = NoEvent) <=> (pc[p] = "loop")
  /\ copies \in [Events -> Nat]
  /\ faults \in 0..MaxFaults

Init ==
  /\ status = [e \in Events |-> "none"]
  /\ attempts = [e \in Events |-> 0]
  /\ created = [e \in Events |-> 0]
  /\ committed = [e \in Events |-> 0]
  /\ clock = 0
  /\ pc = [p \in Publishers |-> "loop"]
  /\ todo = [p \in Publishers |-> {}]
  /\ seen = [p \in Publishers |-> [e \in Events |-> 0]]
  /\ cur = [p \in Publishers |-> NoEvent]
  /\ copies = [e \in Events |-> 0]
  /\ faults = 0

-----------------------------------------------------------------------------
(* The business transaction: SaveEvent inside db.WithTransaction.          *)

SaveEvents(S) ==
  /\ S # {}
  /\ Cardinality(S) <= RowsPerTx
  /\ \A e \in S : status[e] = "none"
  /\ clock' = clock + 1
  /\ status' = [e \in Events |-> IF e \in S THEN "open" ELSE status[e]]
  /\ created' = [e \in Events |-> IF e \in S THEN clock' ELSE created[e]]
  /\ UNCHANGED <<attempts, committed, loop, copies, faults>>

\* The rows of one transaction share its start time.
EndTx(t, outcome) ==
  LET S == {e \in Events : status[e] = "open" /\ created[e] = t} IN
  /\ S # {}
  /\ clock' = clock + 1
  /\ status' = [e \in Events |-> IF e \in S THEN outcome ELSE status[e]]
  /\ committed' = [e \in Events |-> IF e \in S THEN clock' ELSE committed[e]]
  /\ UNCHANGED <<attempts, created, loop, copies, faults>>

CommitTx == \E e \in Events : EndTx(created[e], "pending")

RollbackTx == \E e \in Events : EndTx(created[e], "aborted")

-----------------------------------------------------------------------------
(* The publisher.                                                          *)

\* Variants named ...Bug are plausible mistakes in the definition that follows
\* them; nothing uses them, they serve to show what a property depends on.
\* Here: the poll stops one attempt early.
SelectableEarlyBug ==
  {e \in Events : status[e] = "pending" /\ attempts[e] < MaxAttempts - 1}

\* It reads rows of transactions that are still open.
SelectableDirtyBug ==
  {e \in Events : status[e] \in {"open", "pending"} /\ attempts[e] < MaxAttempts}

Selectable == {e \in Events : status[e] = "pending" /\ attempts[e] < MaxAttempts}

\* ORDER BY created_at ASC LIMIT 100; ties are broken arbitrarily.
IsBatch(B) ==
  /\ B \subseteq Selectable
  /\ B # {}
  /\ Cardinality(B) <= BatchLimit
  /\ \/ B = Selectable
     \/ Cardinality(B) = BatchLimit
  /\ \A e \in B : \A f \in Selectable \ B : created[e] <= created[f]

\* No ORDER BY.
IsNextBug(p, e) == e \in todo[p]

\* The next event of the range loop.  Rows keep the order they were selected in.
IsNext(p, e) ==
  /\ e \in todo[p]
  /\ \A f \in todo[p] : created[e] <= created[f]

GetPendingEvents(p) ==
  /\ pc[p] = "loop" /\ todo[p] = {}
  /\ \E B \in SUBSET Events :
       /\ IsBatch(B)
       /\ todo' = [todo EXCEPT ![p] = B]
  /\ seen' = [seen EXCEPT ![p] = [e \in Events |-> attempts[e]]]
  /\ UNCHANGED <<table, pc, cur, copies, faults>>

Publish(p, e, result, kept) ==
  /\ pc[p] = "loop"
  /\ IsNext(p, e)
  /\ pc' = [pc EXCEPT ![p] = result]
  /\ cur' = [cur EXCEPT ![p] = e]
  /\ todo' = [todo EXCEPT ![p] = @ \ {e}]
  /\ copies' = [copies EXCEPT ![e] = @ + kept]
  /\ UNCHANGED <<table, seen>>

PublishEvent(p) ==
  /\ \E e \in Events : Publish(p, e, "sent", 1)
  /\ UNCHANGED faults

\* The error of PublishEvent is ignored.
PublishRefusedBug(p) ==
  /\ \E e \in Events : Publish(p, e, "sent", 0)
  /\ UNCHANGED faults

PublishRefused(p) ==
  /\ \E e \in Events : Publish(p, e, "refused", 0)
  /\ UNCHANGED faults

Fault == faults < MaxFaults /\ faults' = faults + 1

ContinueBug(p) == pc' = [pc EXCEPT ![p] = "loop"] /\ UNCHANGED cur

\* The range loop goes on to the next event of the batch.
Continue(p) ==
  /\ pc' = [pc EXCEPT ![p] = "loop"]
  /\ cur' = [cur EXCEPT ![p] = NoEvent]

\* Kafka has the message, but PublishEvent returned an error.
PublishUnacknowledged(p) ==
  /\ \E e \in Events : Publish(p, e, "refused", 1)
  /\ Fault

\* Only published_at is set.
MarkAsPublishedBug(p) ==
  /\ pc[p] = "sent"
  /\ Continue(p)
  /\ UNCHANGED <<table, todo, seen, copies, faults>>

MarkAsPublished(p) ==
  /\ pc[p] = "sent"
  /\ Continue(p)
  /\ status' = [status EXCEPT ![cur[p]] = "published"]
  /\ UNCHANGED <<attempts, created, committed, clock, todo, seen, copies, faults>>

\* One retry too many before giving up.
RecordRefusalBug(p) ==
  /\ pc[p] = "refused"
  /\ Continue(p)
  /\ attempts' = [attempts EXCEPT ![cur[p]] = @ + 1]
  /\ status' = [status EXCEPT ![cur[p]] =
                  IF seen[p][cur[p]] >= MaxAttempts THEN "failed" ELSE @]
  /\ UNCHANGED <<created, committed, clock, todo, seen, copies, faults>>

\* The batch's copy of attempts decides, not the table's.
RecordRefusal(p) ==
  /\ pc[p] = "refused"
  /\ Continue(p)
  /\ attempts' = [attempts EXCEPT ![cur[p]] = @ + 1]
  /\ status' = [status EXCEPT ![cur[p]] =
                  IF seen[p][cur[p]] >= MaxAttempts - 1 THEN "failed" ELSE @]
  /\ UNCHANGED <<created, committed, clock, todo, seen, copies, faults>>

\* The error of either UPDATE is logged or dropped; the loop goes on.
UpdateLost(p) ==
  /\ pc[p] \in {"sent", "refused"}
  /\ Fault
  /\ Continue(p)
  /\ UNCHANGED <<table, todo, seen, copies>>

\* The publisher stops in the middle of its batch; another start polls afresh.
Stop(p) ==
  /\ pc[p] # "loop" \/ todo[p] # {}
  /\ Fault
  /\ Continue(p)
  /\ todo' = [todo EXCEPT ![p] = {}]
  /\ UNCHANGED <<table, seen, copies>>

Step(p) ==
  \/ GetPendingEvents(p)
  \/ PublishEvent(p)
  \/ PublishRefused(p)
  \/ PublishUnacknowledged(p)
  \/ MarkAsPublished(p)
  \/ RecordRefusal(p)
  \/ UpdateLost(p)

Next ==
  \/ \E S \in SUBSET Events : SaveEvents(S)
  \/ CommitTx
  \/ RollbackTx
  \/ \E p \in Publishers : Step(p) \/ Stop(p)

Spec == Init /\ [][Next]_vars

\* The ticker fires for as long as the process runs, and a publisher that
\* stopped is started again; nothing forces a transaction to end.
FairSpec == Spec /\ \A p \in Publishers : WF_vars(Step(p))

-----------------------------------------------------------------------------
(* Safety.                                                                 *)

\* An event marked as published is in Kafka, whoever marked it, and Kafka
\* holds only events of committed transactions: nothing is announced that a
\* rollback took back.
PublishedIsInKafka ==
  \A e \in Events : /\ status[e] = "published" => copies[e] > 0
                    /\ copies[e] > 0 => status[e] \in Committed

\* With one publisher a row leaves the retries only as published or, after
\* MaxAttempts refusals, as failed: no pending row is past the limit of the
\* poll, where nothing would ever select or report it.
ExhaustedIsFailed ==
  \A e \in Events :
    /\ status[e] = "pending" => attempts[e] < MaxAttempts
    /\ status[e] = "failed" => attempts[e] = MaxAttempts

\* Only overlapping publishers and faults duplicate an event: without either
\* it is in Kafka once.
CopiesBounded ==
  \A e \in Events : copies[e] <= Cardinality(Publishers) + faults

\* An event of a transaction that began after another had committed does not
\* overtake that one's event, unless that event was refused or a fault occurred.
CausalOrder ==
  [][\A e, f \in Events :
       (/\ status[e] \in Committed
        /\ committed[e] < created[f]
        /\ copies[f] = 0 /\ copies'[f] > 0)
       => copies[e] > 0 \/ attempts[e] > 0 \/ faults > 0]_vars

-----------------------------------------------------------------------------
(* Liveness.                                                               *)

\* A committed event does not stay in the outbox: it is published, or given
\* up after MaxAttempts refusals.
EventuallySettled ==
  \A e \in Events :
    status[e] = "pending" ~> status[e] \in {"published", "failed"}

\* The table as the abstract channel of module EventChannel.
Channel == INSTANCE EventChannel WITH
             state <- [e \in Events |->
                         CASE status[e] \in {"none", "open", "aborted"} -> "unborn"
                           [] status[e] = "pending" -> "owed"
                           [] OTHER -> status[e]],
             delivered <- {e \in Events : copies[e] > 0}

\* The outbox implements at-least-once delivery.
AtLeastOnce == Channel!Spec
=============================================================================
