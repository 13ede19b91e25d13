-------------------------- MODULE FluxMonitor_proofs --------------------------
(***************************************************************************)
(* Proofs about FluxMonitor: what is true of the transactions, the records *)
(* and the consumed logs for any number of rounds, transactions,           *)
(* reorganisations, crashes and failing calls.                             *)
(***************************************************************************)
EXTENDS FluxMonitor, FiniteSetTheorems, TLAPS

\* The causes are left open: where a log comes from does not matter here.
TxOf(C) == [round : Rounds, cause : C, recorded : BOOLEAN,
            state : {"pending", "mined", "reverted"}]

TxsTyped == \E C : txs \in Seq(TxOf(C))

RowsTyped(rows) == \A r \in DOMAIN rows : rows[r].subs \in Nat

TaskTyped == task.running \in BOOLEAN /\ (task.running => task.round \in Rounds)

AnsweredIsConsumed ==
  \A i \in DOMAIN txs : Recorded(i) /\ txs[i].cause # NoLog => txs[i].cause \in consumed

RunningIsUnconsumed ==
  task.running /\ task.cause # NoLog => task.cause \notin consumed

RecordedHasRow ==
  \A i \in DOMAIN txs :
    Recorded(i) /\ txs[i].round \notin lost =>
      txs[i].round \in DOMAIN stats /\ stats[txs[i].round].subs > 0

PollingIsUnanswered ==
  task.running /\ task.cause = NoLog =>
    \A i \in DOMAIN txs : Recorded(i) /\ txs[i].round = task.round => task.round \in lost

(* The invariant: the properties to prove and what keeps them so: a log    *)
(* that is being answered is not consumed, a poll that runs is for a round *)
(* without a record, and a recorded answer has its row.                    *)
FluxInv ==
  /\ TxsTyped /\ RowsTyped(stats) /\ TaskTyped
  /\ AnsweredIsConsumed /\ RunningIsUnconsumed
  /\ RecordedHasRow /\ PollingIsUnanswered
  /\ LogAnsweredOnce /\ ConsumedIsAnsweredOrDeclined /\ PollRepeatsOnlyUnrecorded

-----------------------------------------------------------------------------
(* Transactions                                                            *)

SameTxs ==
  /\ DOMAIN txs' = DOMAIN txs
  /\ \A i \in DOMAIN txs : /\ txs'[i].round = txs[i].round
                           /\ txs'[i].cause = txs[i].cause
                           /\ txs'[i].recorded = txs[i].recorded

(* A larger set of causes admits the same transactions.                    *)
LEMMA TxSeqGrows ==
  ASSUME NEW C, NEW D, C \subseteq D, NEW s \in Seq(TxOf(C))
  PROVE  s \in Seq(TxOf(D))
<1>1. TxOf(C) \subseteq TxOf(D)
  BY DEF TxOf
<1> HIDE DEF TxOf
<1> QED  BY <1>1

(* A transaction created for a task is added at the end.                   *)
LEMMA CreateAppends ==
  ASSUME FluxInv, NEW b \in BOOLEAN, task.running, CreateEthTransaction(b)
  PROVE  /\ TxsTyped'
         /\ Len(txs) \in Nat /\ DOMAIN txs = 1..Len(txs)
         /\ DOMAIN txs' = 1..(Len(txs) + 1)
         /\ \A i \in DOMAIN txs : txs'[i] = txs[i]
         /\ txs'[Len(txs) + 1] = [round |-> task.round, cause |-> task.cause,
                                  recorded |-> b, state |-> "pending"]
<1> DEFINE new == [round |-> task.round, cause |-> task.cause,
                   recorded |-> b, state |-> "pending"]
<1>1. PICK C : txs \in Seq(TxOf(C))
  BY DEF FluxInv, TxsTyped
<1>2. txs \in Seq(TxOf(C \cup {task.cause}))
  BY <1>1, TxSeqGrows
<1>3. new \in TxOf(C \cup {task.cause})
  BY DEF FluxInv, TaskTyped, TxOf
<1>4. txs' = Append(txs, new)
  BY DEF CreateEthTransaction
<1> HIDE DEF new
<1>5. txs' \in Seq(TxOf(C \cup {task.cause}))
  BY <1>2, <1>3, <1>4
<1>6. TxsTyped'
  BY <1>5 DEF TxsTyped
<1>7. /\ Len(txs) \in Nat /\ DOMAIN txs = 1..Len(txs)
      /\ DOMAIN txs' = 1..(Len(txs) + 1)
      /\ \A i \in DOMAIN txs : txs'[i] = txs[i]
      /\ txs'[Len(txs) + 1] = new
  BY <1>2, <1>3, <1>4
<1> QED  BY <1>6, <1>7 DEF new

(* Mining and reorganisations change the state of transactions only.       *)
LEMMA ChainKeepsTxs ==
  ASSUME FluxInv, ChainStep
  PROVE  SameTxs /\ TxsTyped'
<1>1. PICK C : txs \in Seq(TxOf(C))
  BY DEF FluxInv, TxsTyped
<1>2. Len(txs) \in Nat /\ DOMAIN txs = 1..Len(txs)
  BY <1>1
<1>3. \A i \in DOMAIN txs : txs[i] \in TxOf(C)
  BY <1>1
<1>4. \A i \in DOMAIN txs, v \in {"pending", "mined", "reverted"} :
        LET t == [txs[i] EXCEPT !.state = v]
        IN  /\ t \in TxOf(C) /\ t.round = txs[i].round
            /\ t.cause = txs[i].cause /\ t.recorded = txs[i].recorded
  BY <1>3 DEF TxOf
<1>5. CASE UNCHANGED txs
  BY <1>5, <1>1 DEF SameTxs, TxsTyped
<1>6. CASE submit
  <2>1. PICK i \in DOMAIN txs, v \in {"mined", "reverted"} :
          txs' = [txs EXCEPT ![i] = [txs[i] EXCEPT !.state = v]]
    BY <1>6 DEF submit
  <2>2. \A j \in DOMAIN txs : txs'[j] = IF j = i THEN [txs[i] EXCEPT !.state = v] ELSE txs[j]
    BY <2>1
  <2>3. DOMAIN txs' = DOMAIN txs
    BY <2>1
  <2>4. SameTxs
    BY <1>4, <2>2, <2>3 DEF SameTxs
  <2>5. txs' \in [1..Len(txs) -> TxOf(C)]
    BY <1>2, <1>3, <1>4, <2>1
  <2>6. txs' \in Seq(TxOf(C))
    BY <1>2, <2>5
  <2> QED  BY <2>4, <2>6 DEF TxsTyped
<1>7. ASSUME NEW r \in Rounds, Reorg(r)  PROVE SameTxs /\ TxsTyped'
  <2>1. txs' = [i \in DOMAIN txs |->
                  IF txs[i].round < r THEN txs[i] ELSE [txs[i] EXCEPT !.state = "pending"]]
    BY <1>7 DEF Reorg
  <2>2. SameTxs
    BY <1>4, <2>1 DEF SameTxs
  <2>3. txs' \in [1..Len(txs) -> TxOf(C)]
    BY <1>2, <1>3, <1>4, <2>1
  <2>4. txs' \in Seq(TxOf(C))
    BY <1>2, <2>3
  <2> QED  BY <2>2, <2>4 DEF TxsTyped
<1> QED
  BY <1>5, <1>6, <1>7 DEF ChainStep, OthersStart, OthersAnswer

-----------------------------------------------------------------------------
(* Rows                                                                    *)

(* Finding or creating a row keeps the rows there are.                     *)
LEMMA FindOrCreateKeeps ==
  ASSUME NEW rows, RowsTyped(rows), NEW r, NEW n
  PROVE  /\ RowsTyped(FindOrCreate(rows, r, n))
         /\ DOMAIN FindOrCreate(rows, r, n) = DOMAIN rows \cup {r}
         /\ \A q \in DOMAIN rows : FindOrCreate(rows, r, n)[q] = rows[q]
BY DEF RowsTyped, FindOrCreate

(* Rewinding leaves typed rows, also when a call fails half-way.           *)
LEMMA LogRowsTyped ==
  ASSUME RowsTyped(stats), NEW log,
         NEW rows \in RowsAfterFailure(log) \cup {RowsFor(log)}
  PROVE  RowsTyped(rows)
<1> DEFINE found == FindOrCreate(stats, log.round, 1)
           kept == DeleteBackThrough(found, log.round)
<1>1. RowsTyped(found)
  BY FindOrCreateKeeps
<1>2. RowsTyped(kept)
  BY <1>1 DEF RowsTyped, DeleteBackThrough
<1>3. RowsTyped(FindOrCreate(kept, log.round, 1))
  BY <1>2, FindOrCreateKeeps
<1>4. rows \in {stats, found, kept, FindOrCreate(kept, log.round, 1)}
  BY DEF RowsAfterFailure, RowsFor
<1> QED  BY <1>1, <1>2, <1>3, <1>4

(* A record is dropped only into the history of lost ones.                 *)
LEMMA SetRowsKeepsRecords ==
  ASSUME RowsTyped(stats), RecordedHasRow, NEW rows, RowsTyped(rows), SetRows(rows),
         UNCHANGED txs
  PROVE  RowsTyped(stats)' /\ RecordedHasRow'
<1>1. stats' = rows /\ lost' = lost \cup Forgotten(rows)
  BY DEF SetRows
<1>2. ASSUME NEW i \in DOMAIN txs, Recorded(i), txs[i].round \notin lost'
      PROVE  txs[i].round \in DOMAIN rows /\ rows[txs[i].round].subs > 0
  <2>1. txs[i].round \in DOMAIN stats /\ stats[txs[i].round].subs > 0
    BY <1>1, <1>2 DEF RecordedHasRow
  <2>2. txs[i].round \notin Forgotten(rows)
    BY <1>1, <1>2
  <2>3. txs[i].round \in DOMAIN rows /\ rows[txs[i].round].subs # 0
    BY <2>1, <2>2 DEF Forgotten
  <2> QED  BY <2>3 DEF RowsTyped
<1>3. RecordedHasRow'
  BY <1>1, <1>2 DEF RecordedHasRow, Recorded
<1> QED  BY <1>1, <1>3

-----------------------------------------------------------------------------
(* Steps                                                                   *)

(* The job starts with an empty database.                                  *)
LEMMA FluxInit == Init => FluxInv
<1> SUFFICES ASSUME Init PROVE FluxInv
  OBVIOUS
<1>1. txs = <<>> /\ DOMAIN txs = {} /\ consumed = {} /\ DOMAIN stats = {}
  BY DEF Init
<1>2. task.running = FALSE
  BY DEF Init, Idle
<1>3. txs \in Seq(TxOf({}))
  BY <1>1
<1>4. TxsTyped
  BY <1>3 DEF TxsTyped
<1> QED
  BY <1>1, <1>2, <1>4 DEF FluxInv, RowsTyped, TaskTyped, AnsweredIsConsumed,
     RunningIsUnconsumed, RecordedHasRow, PollingIsUnanswered, LogAnsweredOnce,
     ConsumedIsAnsweredOrDeclined, PollRepeatsOnlyUnrecorded

(* A step that leaves the job and the database alone.                      *)
LEMMA SameTxsKeepInv ==
  ASSUME FluxInv, SameTxs, TxsTyped', UNCHANGED <<task, dbVars, lost, declined>>
  PROVE  FluxInv'
<1>1. UNCHANGED <<task, stats, consumed, lost, declined>>
  BY DEF dbVars
<1>2. \A i \in DOMAIN txs : Recorded(i)' = Recorded(i)
  BY DEF SameTxs, Recorded
<1>3. RowsTyped(stats)' /\ TaskTyped' /\ RunningIsUnconsumed'
  BY <1>1 DEF FluxInv, RowsTyped, TaskTyped, RunningIsUnconsumed
<1>4. AnsweredIsConsumed' /\ RecordedHasRow'
  BY <1>1, <1>2 DEF FluxInv, AnsweredIsConsumed, RecordedHasRow, SameTxs
<1>5. PollingIsUnanswered'
  BY <1>1, <1>2 DEF FluxInv, PollingIsUnanswered, SameTxs
<1>6. LogAnsweredOnce' /\ PollRepeatsOnlyUnrecorded'
  BY <1>1, <1>2 DEF FluxInv, LogAnsweredOnce, PollRepeatsOnlyUnrecorded, SameTxs
<1>7. ConsumedIsAnsweredOrDeclined'
  BY <1>1, <1>2 DEF FluxInv, ConsumedIsAnsweredOrDeclined, SameTxs
<1> QED  BY <1>3, <1>4, <1>5, <1>6, <1>7 DEF FluxInv

(* A step after which no run is in progress and no log is newly consumed   *)
(* without being declined.                                                 *)
LEMMA EndOfTaskKeepsInv ==
  ASSUME FluxInv, task' = Idle, UNCHANGED txs,
         RowsTyped(stats)', RecordedHasRow',
         NEW L, consumed' = consumed \cup L, declined' = declined \cup L,
         lost \subseteq lost'
  PROVE  FluxInv'
<1>1. task'.running = FALSE
  BY DEF Idle
<1>2. \A i \in DOMAIN txs : Recorded(i)' = Recorded(i)
  BY DEF Recorded
<1>3. TxsTyped' /\ TaskTyped' /\ RunningIsUnconsumed' /\ PollingIsUnanswered'
  BY <1>1 DEF FluxInv, TxsTyped, TaskTyped, RunningIsUnconsumed, PollingIsUnanswered
<1>4. AnsweredIsConsumed'
  BY <1>2 DEF FluxInv, AnsweredIsConsumed
<1>5. LogAnsweredOnce' /\ PollRepeatsOnlyUnrecorded'
  BY <1>2 DEF FluxInv, LogAnsweredOnce, PollRepeatsOnlyUnrecorded
<1>6. ConsumedIsAnsweredOrDeclined'
  BY <1>2 DEF FluxInv, ConsumedIsAnsweredOrDeclined
<1> QED  BY <1>3, <1>4, <1>5, <1>6 DEF FluxInv

(* Taking a log: skipped, declined, or its run started.                    *)
LEMMA LogKeepsInv == FluxInv /\ processBroadcast => FluxInv'
<1> SUFFICES ASSUME FluxInv, processBroadcast PROVE FluxInv'
  OBVIOUS
<1> DEFINE log == Head(backlog)
<1>1. UNCHANGED txs /\ ~task.running
  BY DEF processBroadcast
<1>2. RowsTyped(stats) /\ RecordedHasRow /\ TxsTyped
  BY DEF FluxInv
<1>3. SameTxs /\ TxsTyped'
  BY <1>1, <1>2 DEF SameTxs, TxsTyped
<1>4. CASE UNCHANGED <<task, dbVars, lost, declined>>
  BY <1>3, <1>4, SameTxsKeepInv
<1>5. ASSUME NEW rows \in RowsAfterFailure(log) \cup {RowsFor(log)}, SetRows(rows)
      PROVE  RowsTyped(stats)' /\ RecordedHasRow' /\ lost \subseteq lost'
  <2>1. RowsTyped(rows)
    BY <1>2, <1>5, LogRowsTyped
  <2>2. RowsTyped(stats)' /\ RecordedHasRow'
    BY <1>1, <1>2, <1>5, <2>1, SetRowsKeepsRecords
  <2> QED  BY <1>5, <2>2 DEF SetRows
<1>6. CASE DeclineLog(log)
  <2>1. task' = task /\ UNCHANGED txs
    BY <1>1, <1>6 DEF DeclineLog
  <2>2. PICK rows \in RowsAfterFailure(log) \cup {RowsFor(log)} : SetRows(rows)
    BY <1>6 DEF DeclineLog
  <2>3. RowsTyped(stats)' /\ RecordedHasRow' /\ lost \subseteq lost'
    BY <1>5, <2>2
  <2>4. PICK L : consumed' = consumed \cup L /\ declined' = declined \cup L
    <3>1. CASE MarkConsumed(log)
      BY <3>1 DEF MarkConsumed
    <3>2. CASE UNCHANGED <<consumed, declined>>
      <4>1. consumed' = consumed \cup {} /\ declined' = declined \cup {}
        BY <3>2
      <4> QED  BY <4>1
    <3> QED  BY <1>6, <3>1, <3>2 DEF DeclineLog
  <2>5. \A i \in DOMAIN txs : Recorded(i)' = Recorded(i)
    BY <2>1 DEF Recorded
  <2>6. TxsTyped' /\ TaskTyped' /\ RunningIsUnconsumed' /\ PollingIsUnanswered'
    BY <1>1, <1>3, <2>1 DEF FluxInv, TaskTyped, RunningIsUnconsumed, PollingIsUnanswered
  <2>7. AnsweredIsConsumed' /\ ConsumedIsAnsweredOrDeclined'
    BY <2>1, <2>4, <2>5 DEF FluxInv, AnsweredIsConsumed, ConsumedIsAnsweredOrDeclined
  <2>8. LogAnsweredOnce' /\ PollRepeatsOnlyUnrecorded'
    BY <2>1, <2>3, <2>5 DEF FluxInv, LogAnsweredOnce, PollRepeatsOnlyUnrecorded
  <2> QED  BY <2>3, <2>6, <2>7, <2>8 DEF FluxInv
<1>7. CASE ~WasAlreadyConsumed(log) /\ AnswerLog(log)
  <2>1. SetRows(RowsFor(log)) /\ log \notin consumed /\ UNCHANGED <<txs, consumed, declined>>
    BY <1>1, <1>7 DEF AnswerLog, WasAlreadyConsumed
  <2>2. RowsTyped(stats)' /\ RecordedHasRow' /\ lost \subseteq lost'
    BY <1>5, <2>1
  <2>3. /\ task'.running = TRUE /\ task'.cause = log /\ task'.round = log.round
        /\ log.round \in Rounds
    BY <1>7 DEF AnswerLog, Eligible, validOracleRound
  <2>4. log # NoLog
    BY <2>3 DEF NoLog, Rounds
  <2>5. \A i \in DOMAIN txs : Recorded(i)' = Recorded(i)
    BY <2>1 DEF Recorded
  <2>6. TxsTyped' /\ TaskTyped' /\ RunningIsUnconsumed' /\ PollingIsUnanswered'
    BY <1>3, <2>1, <2>3, <2>4 DEF TaskTyped, RunningIsUnconsumed, PollingIsUnanswered
  <2>7. AnsweredIsConsumed' /\ ConsumedIsAnsweredOrDeclined'
    BY <2>1, <2>5 DEF FluxInv, AnsweredIsConsumed, ConsumedIsAnsweredOrDeclined
  <2>8. LogAnsweredOnce' /\ PollRepeatsOnlyUnrecorded'
    BY <2>1, <2>2, <2>5 DEF FluxInv, LogAnsweredOnce, PollRepeatsOnlyUnrecorded
  <2> QED  BY <2>2, <2>6, <2>7, <2>8 DEF FluxInv
<1> QED
  BY <1>4, <1>6, <1>7 DEF processBroadcast, SkipLog, dbVars

(* A poll starts a run only for a round whose row counts no submission.    *)
LEMMA PollKeepsInv == FluxInv /\ pollIfEligible => FluxInv'
<1> SUFFICES ASSUME FluxInv, pollIfEligible PROVE FluxInv'
  OBVIOUS
<1> DEFINE r == SuggestedRound
           rows == FindOrCreate(stats, r, 0)
<1>1. /\ ~task.running /\ r \in Rounds /\ stats' = rows
      /\ UNCHANGED <<txs, consumed, lost, declined>>
  BY DEF pollIfEligible
<1> HIDE DEF r
<1>2. RowsTyped(stats)
  BY DEF FluxInv
<1>3. /\ RowsTyped(rows) /\ DOMAIN rows = DOMAIN stats \cup {r}
      /\ \A q \in DOMAIN stats : rows[q] = stats[q]
  BY <1>2, FindOrCreateKeeps
<1> HIDE DEF rows
<1>4. \A i \in DOMAIN txs : Recorded(i)' = Recorded(i)
  BY <1>1 DEF Recorded
<1>5. RowsTyped(stats)' /\ RecordedHasRow'
  BY <1>1, <1>3, <1>4 DEF FluxInv, RowsTyped, RecordedHasRow
<1>6. TxsTyped' /\ AnsweredIsConsumed' /\ ConsumedIsAnsweredOrDeclined'
  BY <1>1, <1>4 DEF FluxInv, TxsTyped, AnsweredIsConsumed, ConsumedIsAnsweredOrDeclined
<1>7. LogAnsweredOnce' /\ PollRepeatsOnlyUnrecorded'
  BY <1>1, <1>4 DEF FluxInv, LogAnsweredOnce, PollRepeatsOnlyUnrecorded
<1>8. TaskTyped' /\ RunningIsUnconsumed' /\ PollingIsUnanswered'
  <2>1. CASE UNCHANGED task
    BY <1>1, <2>1 DEF FluxInv, TaskTyped, RunningIsUnconsumed, PollingIsUnanswered
  <2>2. CASE /\ ~AlreadyAnswered(rows[r])
             /\ task' = [running |-> TRUE, cause |-> NoLog, round |-> r]
    <3>1. ASSUME NEW i \in DOMAIN txs, Recorded(i), txs[i].round = r, r \notin lost
          PROVE  FALSE
      <4>1. r \in DOMAIN stats /\ stats[r].subs > 0
        BY <3>1 DEF FluxInv, RecordedHasRow
      <4> QED  BY <1>3, <2>2, <4>1 DEF AlreadyAnswered
    <3>2. task'.running = TRUE /\ task'.cause = NoLog /\ task'.round = r
      BY <2>2
    <3> QED
      BY <1>1, <1>4, <3>1, <3>2 DEF TaskTyped, RunningIsUnconsumed, PollingIsUnanswered
  <2> QED  BY <2>1, <2>2 DEF pollIfEligible, rows, r
<1> QED  BY <1>5, <1>6, <1>7, <1>8 DEF FluxInv

(* A transaction without a record breaks nothing: repetitions of its answer*)
(* are those the properties allow.                                         *)
LEMMA UnrecordedKeepsInv ==
  ASSUME FluxInv, task.running, CreateEthTransaction(FALSE), task' = Idle,
         UNCHANGED <<dbVars, lost, declined>>
  PROVE  FluxInv'
<1>1. PICK n \in Nat :
      /\ TxsTyped' /\ DOMAIN txs = 1..n /\ DOMAIN txs' = 1..(n + 1)
      /\ \A i \in DOMAIN txs : txs'[i] = txs[i]
      /\ txs'[n + 1] = [round |-> task.round, cause |-> task.cause,
                        recorded |-> FALSE, state |-> "pending"]
  BY CreateAppends
<1>2. UNCHANGED <<stats, consumed, lost, declined>> /\ task'.running = FALSE
  BY DEF dbVars, Idle
<1>3. ~Recorded(n + 1)' /\ \A i \in DOMAIN txs : Recorded(i)' = Recorded(i)
  BY <1>1 DEF Recorded
<1>4. \A i \in DOMAIN txs' : i \in DOMAIN txs \/ i = n + 1
  BY <1>1
<1>5. /\ TaskTyped' /\ RunningIsUnconsumed' /\ PollingIsUnanswered' /\ RowsTyped(stats)'
  BY <1>2 DEF FluxInv, TaskTyped, RunningIsUnconsumed, PollingIsUnanswered, RowsTyped
<1>6. AnsweredIsConsumed' /\ RecordedHasRow'
  BY <1>1, <1>2, <1>3, <1>4 DEF FluxInv, AnsweredIsConsumed, RecordedHasRow
<1>7. LogAnsweredOnce'
  BY <1>1, <1>3, <1>4 DEF FluxInv, LogAnsweredOnce
<1>8. ConsumedIsAnsweredOrDeclined'
  BY <1>1, <1>2, <1>3 DEF FluxInv, ConsumedIsAnsweredOrDeclined
<1>9. PollRepeatsOnlyUnrecorded'
  <2> SUFFICES ASSUME NEW i \in DOMAIN txs', NEW j \in DOMAIN txs', i < j,
                      txs'[i].round = txs'[j].round, txs'[j].cause = NoLog,
                      Recorded(i)'
               PROVE  txs'[i].round \in lost'
    BY DEF PollRepeatsOnlyUnrecorded
  <2>1. i \in DOMAIN txs /\ Recorded(i) /\ txs'[i] = txs[i]
    BY <1>1, <1>3, <1>4
  <2>2. CASE j \in DOMAIN txs
    BY <1>1, <1>2, <2>1, <2>2 DEF FluxInv, PollRepeatsOnlyUnrecorded
  <2>3. CASE j = n + 1
    BY <1>1, <1>2, <2>1, <2>3 DEF FluxInv, PollingIsUnanswered
  <2> QED  BY <1>4, <2>2, <2>3
<1> QED  BY <1>1, <1>5, <1>6, <1>7, <1>8, <1>9 DEF FluxInv

(* A commit records the transaction, consumes the log it answers and       *)
(* counts it in the row of its round, together.                            *)
LEMMA CommitKeepsInv == FluxInv /\ Commit => FluxInv'
<1> SUFFICES ASSUME FluxInv, Commit PROVE FluxInv'
  OBVIOUS
<1>1. PICK n \in Nat :
      /\ TxsTyped' /\ DOMAIN txs = 1..n /\ DOMAIN txs' = 1..(n + 1)
      /\ \A i \in DOMAIN txs : txs'[i] = txs[i]
      /\ txs'[n + 1] = [round |-> task.round, cause |-> task.cause,
                        recorded |-> TRUE, state |-> "pending"]
  BY CreateAppends DEF Commit
<1>2. /\ task'.running = FALSE /\ task.running
      /\ lost' = lost /\ declined' = declined
      /\ UpdateRoundStats(task.round, IF task.cause = NoLog THEN 0 ELSE 1)
      /\ consumed' = IF task.cause = NoLog THEN consumed ELSE consumed \cup {task.cause}
  BY DEF Commit, Idle
<1>3. Recorded(n + 1)' /\ \A i \in DOMAIN txs : Recorded(i)' = Recorded(i)
  BY <1>1 DEF Recorded
<1>4. \A i \in DOMAIN txs' : i \in DOMAIN txs \/ i = n + 1
  BY <1>1
<1>5. TaskTyped' /\ RunningIsUnconsumed' /\ PollingIsUnanswered'
  BY <1>2 DEF TaskTyped, RunningIsUnconsumed, PollingIsUnanswered, Commit, Idle
<1>6. /\ RowsTyped(stats)' /\ DOMAIN stats' = DOMAIN stats \cup {task.round}
      /\ stats'[task.round].subs > 0
      /\ \A q \in DOMAIN stats : q # task.round => stats'[q] = stats[q]
  <2>1. RowsTyped(stats)
    BY DEF FluxInv
  <2> DEFINE row == IF task.round \in DOMAIN stats THEN stats[task.round]
                    ELSE [subs |-> 0, logs |-> 0]
             k == IF task.cause = NoLog THEN 0 ELSE 1
  <2>2. row.subs \in Nat
    BY <2>1 DEF RowsTyped
  <2>3. stats' = [q \in DOMAIN stats \cup {task.round} |->
                    IF q = task.round THEN [subs |-> row.subs + 1, logs |-> row.logs + k]
                    ELSE stats[q]]
    BY <1>2 DEF UpdateRoundStats
  <2> HIDE DEF row, k
  <2> QED  BY <2>1, <2>2, <2>3 DEF RowsTyped
<1>7. RecordedHasRow'
  <2> SUFFICES ASSUME NEW i \in DOMAIN txs', Recorded(i)', txs'[i].round \notin lost'
               PROVE  txs'[i].round \in DOMAIN stats' /\ stats'[txs'[i].round].subs > 0
    BY DEF RecordedHasRow
  <2>1. CASE i \in DOMAIN txs
    <3>1. /\ txs'[i] = txs[i] /\ Recorded(i)
          /\ txs[i].round \in DOMAIN stats /\ stats[txs[i].round].subs > 0
      BY <1>1, <1>2, <1>3, <2>1 DEF FluxInv, RecordedHasRow
    <3> QED  BY <1>6, <3>1
  <2>2. CASE i = n + 1
    BY <1>1, <1>6, <2>2
  <2> QED  BY <1>4, <2>1, <2>2
<1>8. AnsweredIsConsumed'
  BY <1>1, <1>2, <1>3, <1>4 DEF FluxInv, AnsweredIsConsumed
<1>9. LogAnsweredOnce'
  <2> SUFFICES ASSUME NEW i \in DOMAIN txs', NEW j \in DOMAIN txs', Recorded(i)', Recorded(j)',
                      txs'[i].cause = txs'[j].cause, txs'[i].cause # NoLog
               PROVE  i = j
    BY DEF LogAnsweredOnce
  <2>1. ASSUME NEW k \in DOMAIN txs, Recorded(k), txs[k].cause = task.cause, task.cause # NoLog
        PROVE  FALSE
    BY <1>2, <2>1 DEF FluxInv, AnsweredIsConsumed, RunningIsUnconsumed
  <2>2. CASE i \in DOMAIN txs /\ j \in DOMAIN txs
    BY <1>1, <1>3, <2>2 DEF FluxInv, LogAnsweredOnce
  <2>3. CASE i = n + 1 /\ j \in DOMAIN txs
    BY <1>1, <1>3, <2>1, <2>3
  <2>4. CASE j = n + 1 /\ i \in DOMAIN txs
    BY <1>1, <1>3, <2>1, <2>4
  <2> QED  BY <1>4, <2>2, <2>3, <2>4
<1>10. ConsumedIsAnsweredOrDeclined'
  <2> SUFFICES ASSUME NEW log \in consumed', log \notin declined'
               PROVE  \E i \in DOMAIN txs' : Recorded(i)' /\ txs'[i].cause = log
    BY DEF ConsumedIsAnsweredOrDeclined
  <2>1. CASE log \in consumed
    <3>1. PICK i \in DOMAIN txs : Recorded(i) /\ txs[i].cause = log
      BY <1>2, <2>1 DEF FluxInv, ConsumedIsAnsweredOrDeclined
    <3>2. i \in DOMAIN txs' /\ Recorded(i)' /\ txs'[i].cause = log
      BY <1>1, <1>3, <3>1
    <3> QED  BY <3>2
  <2>2. CASE log = task.cause
    <3>1. n + 1 \in DOMAIN txs' /\ Recorded(n + 1)' /\ txs'[n + 1].cause = log
      BY <1>1, <1>3, <2>2
    <3> QED  BY <3>1
  <2> QED  BY <1>2, <2>1, <2>2
<1>11. PollRepeatsOnlyUnrecorded'
  <2> SUFFICES ASSUME NEW i \in DOMAIN txs', NEW j \in DOMAIN txs', i < j,
                      txs'[i].round = txs'[j].round, txs'[j].cause = NoLog,
                      Recorded(i)'
               PROVE  txs'[i].round \in lost'
    BY DEF PollRepeatsOnlyUnrecorded
  <2>1. i \in DOMAIN txs /\ txs'[i] = txs[i]
    BY <1>1, <1>4
  <2>2. Recorded(i)
    BY <1>3, <2>1
  <2>3. CASE j \in DOMAIN txs
    BY <1>1, <1>2, <2>1, <2>2, <2>3 DEF FluxInv, PollRepeatsOnlyUnrecorded
  <2>4. CASE j = n + 1
    BY <1>1, <1>2, <2>1, <2>2, <2>4 DEF FluxInv, PollingIsUnanswered
  <2> QED  BY <1>4, <2>3, <2>4
<1> QED
  BY <1>1, <1>5, <1>6, <1>7, <1>8, <1>9, <1>10, <1>11 DEF FluxInv

(* Runs that end without a record, and crashes.                            *)
LEMMA FailuresKeepInv == FluxInv /\ (NoAnswer \/ CommitFails \/ Crash) => FluxInv'
<1> SUFFICES ASSUME FluxInv, NoAnswer \/ CommitFails \/ Crash PROVE FluxInv'
  OBVIOUS
<1>1. ASSUME UNCHANGED <<txs, stats, lost>>
      PROVE  RowsTyped(stats)' /\ RecordedHasRow' /\ lost \subseteq lost'
  BY <1>1 DEF FluxInv, RowsTyped, RecordedHasRow, Recorded
<1>2. ASSUME UNCHANGED <<txs, stats, lost, consumed, declined>>, task' = Idle
      PROVE  FluxInv'
  <2>1. consumed' = consumed \cup {} /\ declined' = declined \cup {}
    BY <1>2
  <2> QED  BY <1>1, <1>2, <2>1, EndOfTaskKeepsInv
<1>3. CASE NoAnswer
  <2>1. UNCHANGED <<txs, stats, lost>> /\ task' = Idle
    BY <1>3 DEF NoAnswer
  <2>2. CASE UNCHANGED <<consumed, declined>>
    BY <1>2, <2>1, <2>2
  <2>3. CASE MarkConsumed(task.cause)
    BY <1>1, <2>1, <2>3, EndOfTaskKeepsInv DEF MarkConsumed
  <2> QED  BY <1>3, <2>2, <2>3 DEF NoAnswer
<1>4. CASE CommitFails
  <2>1. CASE UNCHANGED txs
    BY <1>2, <1>4, <2>1 DEF CommitFails, dbVars
  <2>2. CASE CreateEthTransaction(FALSE)
    BY <1>4, <2>2, UnrecordedKeepsInv DEF CommitFails
  <2> QED  BY <1>4, <2>1, <2>2 DEF CommitFails
<1>5. CASE Crash
  BY <1>2, <1>5 DEF Crash, dbVars
<1> QED  BY <1>3, <1>4, <1>5

(* Every step keeps the invariant.                                         *)
LEMMA FluxNext == FluxInv /\ [Next]_vars => FluxInv'
<1> SUFFICES ASSUME FluxInv, [Next]_vars PROVE FluxInv'
  OBVIOUS
<1>0. TxsTyped
  BY DEF FluxInv
<1>1. CASE ChainStep
  <2>1. SameTxs /\ TxsTyped'
    BY <1>1, ChainKeepsTxs
  <2>2. UNCHANGED <<task, dbVars, lost, declined>>
    BY <1>1 DEF ChainStep, OthersStart, submit, OthersAnswer, Reorg
  <2> QED  BY <2>1, <2>2, SameTxsKeepInv
<1>2. ASSUME UNCHANGED <<txs, task, dbVars, lost, declined>>
      PROVE  FluxInv'
  <2>1. SameTxs /\ TxsTyped'
    BY <1>0, <1>2 DEF SameTxs, TxsTyped
  <2> QED  BY <1>2, <2>1, SameTxsKeepInv
<1>3. CASE HandleLog
  BY <1>2, <1>3 DEF HandleLog
<1>4. CASE UNCHANGED vars
  BY <1>2, <1>4 DEF vars
<1> QED
  BY <1>1, <1>3, <1>4, LogKeepsInv, PollKeepsInv, CommitKeepsInv, FailuresKeepInv
     DEF Next, FinishTask

-----------------------------------------------------------------------------
(* What a row counts                                                       *)

\* The submissions that rows count for round r.
SubsOf(rows, r) == IF r \in DOMAIN rows THEN rows[r].subs ELSE 0

CountInv == FluxInv /\ RecordCountsSubmissions

(* Rewinding keeps a count or sets it to 0.                                *)
LEMMA LogRowsCount ==
  ASSUME NEW log, NEW rows \in RowsAfterFailure(log) \cup {RowsFor(log)}, NEW q
  PROVE  SubsOf(rows, q) \in {SubsOf(stats, q), 0}
<1>1. ASSUME NEW t, NEW r, NEW n PROVE SubsOf(FindOrCreate(t, r, n), q) = SubsOf(t, q)
  BY DEF SubsOf, FindOrCreate
<1>2. ASSUME NEW t, NEW r PROVE SubsOf(DeleteBackThrough(t, r), q) \in {SubsOf(t, q), 0}
  BY DEF SubsOf, DeleteBackThrough
<1> DEFINE found == FindOrCreate(stats, log.round, 1)
           kept == DeleteBackThrough(found, log.round)
<1>3. rows \in {stats, found, kept, FindOrCreate(kept, log.round, 1)}
  BY DEF RowsAfterFailure, RowsFor
<1>4. SubsOf(found, q) = SubsOf(stats, q)
  BY <1>1
<1>5. SubsOf(kept, q) \in {SubsOf(found, q), 0}
  BY <1>2
<1>6. SubsOf(FindOrCreate(kept, log.round, 1), q) = SubsOf(kept, q)
  BY <1>1
<1> HIDE DEF found, kept
<1> QED  BY <1>3, <1>4, <1>5, <1>6

(* What is not among the lost records is counted as before.                *)
LEMMA SetRowsCounts ==
  ASSUME RowsTyped(stats), NEW log, NEW rows \in RowsAfterFailure(log) \cup {RowsFor(log)}, SetRows(rows),
         NEW r, r \notin lost'
  PROVE  r \notin lost /\ SubsOf(stats', r) = SubsOf(stats, r)
<1>1. stats' = rows /\ lost' = lost \cup Forgotten(rows)
  BY DEF SetRows
<1>2. SubsOf(rows, r) \in {SubsOf(stats, r), 0}
  BY LogRowsCount
<1>3. r \notin Forgotten(rows)
  BY <1>1
<1>4. SubsOf(rows, r) = SubsOf(stats, r)
  <2>1. CASE r \in DOMAIN stats /\ stats[r].subs > 0
    <3>1. r \in DOMAIN rows /\ rows[r].subs # 0
      BY <1>3, <2>1 DEF Forgotten
    <3> QED  BY <1>2, <3>1 DEF SubsOf
  <2>2. CASE r \in DOMAIN stats /\ ~(stats[r].subs > 0)
    <3>1. stats[r].subs = 0
      BY <2>2 DEF RowsTyped
    <3> QED  BY <1>2, <2>2, <3>1 DEF SubsOf
  <2>3. CASE r \notin DOMAIN stats
    BY <1>2, <2>3 DEF SubsOf
  <2> QED  BY <2>1, <2>2, <2>3
<1> QED  BY <1>1, <1>4

(* A step that changes neither what was submitted nor what is counted.     *)
LEMMA SameCounts ==
  ASSUME RecordCountsSubmissions, SameTxs,
         \A r : r \notin lost' => r \notin lost /\ SubsOf(stats', r) = SubsOf(stats, r)
  PROVE  RecordCountsSubmissions'
<1>1. \A r : Submissions(r)' = Submissions(r)
  BY DEF SameTxs, Submissions, Recorded
<1>2. \A r \in Rounds \ lost : Cardinality(Submissions(r)) = SubsOf(stats, r)
  BY DEF RecordCountsSubmissions, SubsOf
<1>3. \A r \in Rounds \ lost' : Cardinality(Submissions(r)') = SubsOf(stats', r)
  BY <1>1, <1>2
<1> QED  BY <1>3 DEF RecordCountsSubmissions, SubsOf

(* Each step counts what it records.                                       *)
LEMMA CountNext == CountInv /\ [Next]_vars => RecordCountsSubmissions'
<1> SUFFICES ASSUME CountInv, [Next]_vars PROVE RecordCountsSubmissions'
  OBVIOUS
<1>1. FluxInv /\ RecordCountsSubmissions
  BY DEF CountInv
<1>2. ASSUME UNCHANGED <<txs, stats, lost>> PROVE RecordCountsSubmissions'
  <2>1. SameTxs
    BY <1>2 DEF SameTxs
  <2> QED  BY <1>1, <1>2, <2>1, SameCounts
<1>3. CASE ChainStep
  <2>1. SameTxs
    BY <1>1, <1>3, ChainKeepsTxs
  <2>2. UNCHANGED <<stats, lost>>
    BY <1>3 DEF ChainStep, OthersStart, submit, OthersAnswer, Reorg, dbVars
  <2> QED  BY <1>1, <2>1, <2>2, SameCounts
<1>4. CASE processBroadcast
  <2> DEFINE log == Head(backlog)
  <2>1. CASE UNCHANGED <<stats, lost>>
    BY <1>2, <1>4, <2>1 DEF processBroadcast
  <2>2. ASSUME NEW rows \in RowsAfterFailure(log) \cup {RowsFor(log)}, SetRows(rows)
        PROVE  RecordCountsSubmissions'
    <3>1. SameTxs
      BY <1>4 DEF processBroadcast, SameTxs
    <3>2. \A r : r \notin lost' => r \notin lost /\ SubsOf(stats', r) = SubsOf(stats, r)
      BY <1>1, <2>2, SetRowsCounts DEF FluxInv
    <3> QED  BY <1>1, <3>1, <3>2, SameCounts
  <2>3. CASE DeclineLog(log) \/ AnswerLog(log)
    <3>1. \E rows \in RowsAfterFailure(log) \cup {RowsFor(log)} : SetRows(rows)
      BY <2>3 DEF DeclineLog, AnswerLog
    <3> QED  BY <2>2, <3>1
  <2> QED  BY <1>4, <2>1, <2>3 DEF processBroadcast, SkipLog, dbVars
<1>5. CASE pollIfEligible
  <2>1. stats' = FindOrCreate(stats, SuggestedRound, 0) /\ lost' = lost /\ txs' = txs
    BY <1>5 DEF pollIfEligible
  <2>2. \A r : SubsOf(stats', r) = SubsOf(stats, r)
    BY <2>1 DEF SubsOf, FindOrCreate
  <2>3. SameTxs
    BY <2>1 DEF SameTxs
  <2> QED  BY <1>1, <2>1, <2>2, <2>3, SameCounts
<1>6. ASSUME NEW b \in BOOLEAN, task.running, CreateEthTransaction(b)
      PROVE  /\ \A r : ~b \/ r # task.round => Submissions(r)' = Submissions(r)
             /\ b => \A r : r = task.round =>
                       /\ IsFiniteSet(Submissions(r))
                       /\ Cardinality(Submissions(r)') = Cardinality(Submissions(r)) + 1
  <2>1. PICK n \in Nat :
        /\ DOMAIN txs = 1..n /\ DOMAIN txs' = 1..(n + 1)
        /\ \A i \in DOMAIN txs : txs'[i] = txs[i]
        /\ txs'[n + 1] = [round |-> task.round, cause |-> task.cause,
                          recorded |-> b, state |-> "pending"]
    BY <1>1, <1>6, CreateAppends
  <2>2. \A r : \A i \in 1..n : i \in Submissions(r)' <=> i \in Submissions(r)
    BY <2>1 DEF Submissions, Recorded
  <2>3. \A r : Submissions(r) \subseteq 1..n /\ Submissions(r)' \subseteq 1..(n + 1)
    BY <2>1 DEF Submissions
  <2>4. \A r : n + 1 \in Submissions(r)' <=> b /\ r = task.round
    BY <2>1 DEF Submissions, Recorded
  <2>5. n + 1 \notin 1..n /\ 1..(n + 1) = 1..n \cup {n + 1}
    BY <2>1
  <2>6. \A r : ~b \/ r # task.round => Submissions(r)' = Submissions(r)
    <3> SUFFICES ASSUME NEW r, ~b \/ r # task.round
                 PROVE  Submissions(r)' = Submissions(r)
      OBVIOUS
    <3>1. n + 1 \notin Submissions(r)'
      BY <2>4
    <3>2. Submissions(r)' \subseteq 1..n
      BY <2>3, <2>5, <3>1
    <3> QED  BY <2>2, <2>3, <3>2
  <2>7. ASSUME b, NEW r, r = task.round
        PROVE  /\ IsFiniteSet(Submissions(r))
               /\ Cardinality(Submissions(r)') = Cardinality(Submissions(r)) + 1
    <3>1. Submissions(r)' = Submissions(r) \cup {n + 1} /\ n + 1 \notin Submissions(r)
      BY <2>2, <2>3, <2>4, <2>5, <2>7
    <3>2. IsFiniteSet(1..n)
      BY <2>1, FS_Interval
    <3>3. IsFiniteSet(Submissions(r))
      BY <2>3, <3>2, FS_Subset
    <3> QED  BY <3>1, <3>3, FS_AddElement
  <2> QED  BY <2>6, <2>7
<1>7. CASE CommitFails /\ CreateEthTransaction(FALSE)
  <2>1. task.running /\ stats' = stats /\ lost' = lost
    BY <1>7 DEF CommitFails, dbVars
  <2>2. \A r : Submissions(r)' = Submissions(r)
    BY <1>6, <1>7, <2>1
  <2> QED  BY <1>1, <2>1, <2>2 DEF RecordCountsSubmissions
<1>8. CASE Commit
  <2>1. /\ task.running /\ CreateEthTransaction(TRUE) /\ lost' = lost
        /\ UpdateRoundStats(task.round, IF task.cause = NoLog THEN 0 ELSE 1)
    BY <1>8 DEF Commit
  <2>2. \A r : r # task.round => SubsOf(stats', r) = SubsOf(stats, r)
    BY <2>1 DEF SubsOf, UpdateRoundStats
  <2>3. SubsOf(stats', task.round) = SubsOf(stats, task.round) + 1
    BY <2>1 DEF SubsOf, UpdateRoundStats
  <2>4. \A r : r # task.round => Submissions(r)' = Submissions(r)
    BY <1>6, <2>1
  <2>5. ASSUME NEW r, r = task.round
        PROVE  Cardinality(Submissions(r)') = Cardinality(Submissions(r)) + 1
    BY <1>6, <2>1, <2>5
  <2>6. \A r \in Rounds \ lost : Cardinality(Submissions(r)) = SubsOf(stats, r)
    BY <1>1 DEF RecordCountsSubmissions, SubsOf
  <2>7. ASSUME NEW r \in Rounds \ lost PROVE Cardinality(Submissions(r)') = SubsOf(stats', r)
    <3>1. CASE r = task.round
      BY <2>3, <2>5, <2>6, <3>1
    <3>2. CASE r # task.round
      BY <2>2, <2>4, <2>6, <3>2
    <3> QED  BY <3>1, <3>2
  <2> QED  BY <2>1, <2>7 DEF RecordCountsSubmissions, SubsOf
<1>9. CASE HandleLog \/ NoAnswer \/ Crash \/ UNCHANGED vars
  BY <1>2, <1>9 DEF HandleLog, NoAnswer, Crash, vars, dbVars
<1>10. CASE CommitFails /\ UNCHANGED txs
  BY <1>2, <1>10 DEF CommitFails, dbVars
<1> QED
  BY <1>3, <1>4, <1>5, <1>7, <1>8, <1>9, <1>10 DEF Next, FinishTask, CommitFails

(* No transaction, no row.                                                 *)
LEMMA CountInit == Init => RecordCountsSubmissions
<1> SUFFICES ASSUME Init PROVE RecordCountsSubmissions
  OBVIOUS
<1>1. DOMAIN txs = {} /\ DOMAIN stats = {}
  BY DEF Init
<1>2. \A r : Submissions(r) = {}
  BY <1>1 DEF Submissions
<1> QED  BY <1>1, <1>2, FS_EmptySet DEF RecordCountsSubmissions

-----------------------------------------------------------------------------
(* Theorems                                                                *)

(* The invariant holds in every reachable state.                           *)
LEMMA FluxInvariant == Spec => []FluxInv
<1> QED  BY FluxInit, FluxNext, PTL DEF Spec

(* However often a NewRound log is sent, reorganised or interrupted by a   *)
(* crash, at most one recorded transaction answers it.                     *)
THEOREM FluxLogAnsweredOnce == Spec => []LogAnsweredOnce
<1>1. FluxInv => LogAnsweredOnce
  BY DEF FluxInv
<1> QED  BY <1>1, FluxInvariant, PTL

(* No crash and no failing call makes the job forget a log: it is consumed *)
(* only with its answer queued or by the job's own decision.               *)
THEOREM FluxNoLogForgotten == Spec => []ConsumedIsAnsweredOrDeclined
<1>1. FluxInv => ConsumedIsAnsweredOrDeclined
  BY DEF FluxInv
<1> QED  BY <1>1, FluxInvariant, PTL

(* A poll repeats an answer only when the record of it is missing.         *)
THEOREM FluxPollRepeats == Spec => []PollRepeatsOnlyUnrecorded
<1>1. FluxInv => PollRepeatsOnlyUnrecorded
  BY DEF FluxInv
<1> QED  BY <1>1, FluxInvariant, PTL

(* Until its record is rewound, the row of a round counts the transactions *)
(* recorded for it, for any number of crashes, repeated logs and           *)
(* reorganisations.                                                        *)
THEOREM FluxRecordCounts == Spec => []RecordCountsSubmissions
<1>1. Init => CountInv
  BY FluxInit, CountInit DEF CountInv
<1>2. CountInv /\ [Next]_vars => CountInv'
  BY FluxNext, CountNext DEF CountInv
<1>3. CountInv => RecordCountsSubmissions
  BY DEF CountInv
<1> QED  BY <1>1, <1>2, <1>3, PTL DEF Spec
=============================================================================
