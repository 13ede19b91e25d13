----------------------------- MODULE FluxMonitor -----------------------------
(***************************************************************************)
(* The Chainlink node behind the price feed: the flux monitor job answers  *)
(* the rounds of a FluxAggregator.  It answers when a NewRound log asks it *)
(* to and when a timer makes it poll, and keeps in its database how often  *)
(* it has submitted to each round, so as not to answer twice.              *)
(*                                                                         *)
(* One goroutine handles logs and polls, so there is one task.  What       *)
(* happens during its run: the chain moves, logs arrive, the node crashes. *)
(* The timers are in PollManager: here a poll may happen at any time.      *)
(***************************************************************************)
EXTENDS Naturals, Sequences, FiniteSets

CONSTANTS
  MaxRound,   \* bound on the rounds of the aggregator
  MaxTxs,     \* bound on the transactions the job creates
  MaxTrouble, \* bound on reorganisations, crashes and failing calls together
  MaxLoad     \* bound on all of these together, a transaction counting half

ASSUME BoundsAreNaturals ==
  MaxRound \in Nat /\ MaxTxs \in Nat /\ MaxTrouble \in Nat /\ MaxLoad \in Nat

VARIABLES
  rounds,    \* chain: what the aggregator knows of each round
  reorgs,    \* chain: reorganisations so far, which tell equal logs apart
  tooOld,    \* the logs up to this round have left the log broadcaster's pool
  txs,       \* the transactions created, in the order of their nonces
  backlog,   \* NewRound logs waiting for the job
  task,      \* the pipeline run in progress
  stats,     \* database: the row of each round that has one
  consumed,  \* database: logs marked consumed
  faults,    \* crashes and failing database calls so far
  lost,      \* history: rounds whose record of a submission was deleted
  declined   \* history: logs marked consumed without an answer

chainVars == <<rounds, reorgs>>
dbVars == <<stats, consumed>>
vars == <<chainVars, tooOld, txs, backlog, task, dbVars, faults, lost, declined>>

Rounds == 1..MaxRound
BacklogSize == 2

Log == [round : Rounds, fork : 0..MaxTrouble, own : BOOLEAN]
NoLog == [round |-> 0, fork |-> 0, own |-> FALSE]   \* what causes a poll
Cause == Log \cup {NoLog}

NoRound == [status |-> "none", fork |-> 0, own |-> FALSE]
Round == [status : {"none", "open", "answered", "full"}, fork : 0..MaxTrouble, own : BOOLEAN]
Tx == [round : Rounds, cause : Cause, recorded : BOOLEAN,
       state : {"pending", "mined", "reverted"}]
Row == [subs : Nat, logs : Nat]
Idle == [running |-> FALSE, cause |-> NoLog, round |-> 0]

TypeOK ==
  /\ rounds \in [Rounds -> Round]
  /\ reorgs \in Nat /\ faults \in Nat /\ reorgs + faults <= MaxTrouble
  /\ tooOld \in 0..MaxRound
  /\ txs \in Seq(Tx) /\ Len(txs) <= MaxTxs
  /\ backlog \in Seq(Log) /\ Len(backlog) <= BacklogSize
  /\ task \in [running : BOOLEAN, cause : Cause, round : Rounds \cup {0}]
  /\ DOMAIN stats \subseteq Rounds /\ \A r \in DOMAIN stats : stats[r] \in Row
  /\ consumed \subseteq Log /\ declined \subseteq consumed /\ lost \subseteq Rounds

Init ==
  /\ rounds = [r \in Rounds |-> NoRound] /\ reorgs = 0 /\ tooOld = 0
  /\ txs = <<>> /\ backlog = <<>> /\ task = Idle
  /\ stats = [r \in {} |-> [subs |-> 0, logs |-> 0]] /\ consumed = {}
  /\ faults = 0 /\ lost = {} /\ declined = {}

Started(r) == rounds[r].status # "none"
reportingRoundId == Cardinality({r \in Rounds : Started(r)})

\* There is room for n more under the bound.
Room(n) == 2 * (reportingRoundId + reorgs + faults) + Len(txs) + n <= MaxLoad
Trouble == reorgs + faults < MaxTrouble /\ Room(2)
Fault == Trouble /\ faults' = faults + 1

MaxOf(S) == CHOOSE n \in S : \A k \in S : k <= n

-----------------------------------------------------------------------------
(* FluxAggregator.  A round is open until enough answers or its timeout    *)
(* make it supersedable ("answered"), and accepts answers until it is full.*)
(* The restart delay is 0, and this oracle is always enabled.              *)

acceptingSubmissions(r) == r # 0 /\ rounds[r].status \in {"open", "answered"}
supersedable(r) == r # 0 => rounds[r].status \in {"answered", "full"}

lastReportedRound ==
  MaxOf({0} \cup {txs[i].round : i \in {j \in DOMAIN txs : txs[j].state = "mined"}})

\* The round before the reporting one may be answered until that one is.
previousAndCurrentUnanswered(r) ==
  r + 1 = reportingRoundId /\ rounds[reportingRoundId].status = "open"

validOracleRound(r) ==
  /\ r \in Rounds /\ r > lastReportedRound
  /\ r \in {reportingRoundId, reportingRoundId + 1} \/ previousAndCurrentUnanswered(r)
  /\ supersedable(r - 1)

Eligible(r) == validOracleRound(r) /\ (Started(r) => acceptingSubmissions(r))

\* oracleRoundState(oracle, 0) pushes towards the round that is open.
SuggestedRound ==
  LET current == reportingRoundId
  IN IF supersedable(current)
        /\ (lastReportedRound = current \/ ~acceptingSubmissions(current))
     THEN current + 1 ELSE current

OpenRound(own) == [status |-> "open", fork |-> reorgs, own |-> own]

OthersStart ==
  /\ reportingRoundId < MaxRound /\ Room(2) /\ supersedable(reportingRoundId)
  /\ rounds' = [rounds EXCEPT ![reportingRoundId + 1] = OpenRound(FALSE)]
  /\ UNCHANGED <<reorgs, tooOld, txs, backlog, task, dbVars, faults, lost, declined>>

OthersAnswer(r) ==
  /\ acceptingSubmissions(r)
  /\ rounds' = [rounds EXCEPT ![r].status = IF @ = "open" THEN "answered" ELSE "full"]
  /\ UNCHANGED <<reorgs, tooOld, txs, backlog, task, dbVars, faults, lost, declined>>

\* The pending transactions are mined in the order of their nonces.
submit ==
  \E i \in DOMAIN txs :
    /\ txs[i].state = "pending" /\ \A j \in 1..(i - 1) : txs[j].state # "pending"
    /\ LET r == txs[i].round
       IN IF Eligible(r)
          THEN /\ Started(r) \/ Room(2)
               /\ txs' = [txs EXCEPT ![i].state = "mined"]
               /\ rounds' = IF Started(r) THEN rounds
                            ELSE [rounds EXCEPT ![r] = OpenRound(TRUE)]
          ELSE txs' = [txs EXCEPT ![i].state = "reverted"] /\ UNCHANGED rounds
    /\ UNCHANGED <<reorgs, tooOld, backlog, task, dbVars, faults, lost, declined>>

\* What the blocks from the start of round r on held goes back to the mempool.
Reorg(r) ==
  /\ Started(r) /\ Trouble /\ reorgs' = reorgs + 1
  /\ rounds' = [q \in Rounds |-> IF q < r THEN rounds[q] ELSE NoRound]
  /\ txs' = [i \in DOMAIN txs |->
               IF txs[i].round < r THEN txs[i] ELSE [txs[i] EXCEPT !.state = "pending"]]
  /\ tooOld' = IF tooOld < r THEN tooOld ELSE r - 1
  /\ UNCHANGED <<backlog, task, dbVars, faults, lost, declined>>

ChainStep == OthersStart \/ submit \/ \E r \in Rounds : OthersAnswer(r) \/ Reorg(r)

-----------------------------------------------------------------------------
(* The log broadcaster and the backlog                                     *)

NewRoundLog(r) == [round |-> r, fork |-> rounds[r].fork, own |-> rounds[r].own]

\* The pool holds the canonical logs of the blocks that are not too old.
Unconsumed_Newest ==
  IF reportingRoundId <= tooOld \/ NewRoundLog(reportingRoundId) \in consumed THEN <<>>
  ELSE <<NewRoundLog(reportingRoundId)>>

Unconsumed ==
  LET Sent(log) == log.round > tooOld /\ log \notin consumed
  IN SelectSeq([r \in 1..reportingRoundId |-> NewRoundLog(r)], Sent)

\* A full queue drops its oldest log.
Add(queue, logs) ==
  LET all == queue \o logs
  IN IF Len(all) <= BacklogSize THEN all
     ELSE SubSeq(all, Len(all) - BacklogSize + 1, Len(all))

\* Every head brings the logs that are not consumed, block by block, of which
\* each holds one round's start, and then deletes the blocks below the depth
\* that is kept.
HandleLog ==
  /\ Unconsumed # <<>>
  /\ backlog' = Add(backlog, Unconsumed)
  /\ tooOld' \in tooOld..reportingRoundId
  /\ UNCHANGED <<chainVars, txs, task, dbVars, faults, lost, declined>>

-----------------------------------------------------------------------------
(* The round statistics                                                    *)

MostRecentRoundID == MaxOf({0} \cup DOMAIN stats)

\* A row that exists is left as it is.
FindOrCreate(rows, r, logs) ==
  [q \in DOMAIN rows \cup {r} |->
     IF q \in DOMAIN rows THEN rows[q] ELSE [subs |-> 0, logs |-> logs]]

DeleteBackThrough(rows, r) == [q \in {p \in DOMAIN rows : p < r} |-> rows[q]]

UpdateRoundStats_Overwrites(r, logs) ==
  stats' = [q \in DOMAIN stats \cup {r} |->
              IF q = r THEN [subs |-> 1, logs |-> logs] ELSE stats[q]]

UpdateRoundStats(r, logs) ==
  LET row == IF r \in DOMAIN stats THEN stats[r] ELSE [subs |-> 0, logs |-> 0]
  IN stats' = [q \in DOMAIN stats \cup {r} |->
                 IF q = r THEN [subs |-> row.subs + 1, logs |-> row.logs + logs]
                 ELSE stats[q]]

\* Runs are inserted finished, with the row that counts them.
JobRunFinished(row) == row.subs > 0

Forgotten(rows) ==
  {r \in DOMAIN stats : stats[r].subs > 0 /\ (r \in DOMAIN rows => rows[r].subs = 0)}

\* The rows before the answer to a log is considered: an older round rewinds.
RowsFor(log) ==
  LET found == FindOrCreate(stats, log.round, 1)
  IN IF log.round < MostRecentRoundID /\ found[log.round].logs > 0
     THEN FindOrCreate(DeleteBackThrough(found, log.round), log.round, 1)
     ELSE found

\* What a failing database call leaves behind, where it fails.
RowsAfterFailure(log) ==
  LET found == FindOrCreate(stats, log.round, 1)
  IN {stats, found} \cup
     (IF log.round < MostRecentRoundID /\ found[log.round].logs > 0
      THEN {DeleteBackThrough(found, log.round)} ELSE {})

-----------------------------------------------------------------------------
(* The job                                                                 *)

SetRows(rows) == stats' = rows /\ lost' = lost \cup Forgotten(rows)

MarkConsumed(log) == consumed' = consumed \cup {log} /\ declined' = declined \cup {log}

\* Any error, and a round that does not pay, ends in the deferred call, which
\* may fail itself.
DeclineLog(log) ==
  /\ UNCHANGED task
  /\ \/ SetRows(RowsFor(log)) /\ MarkConsumed(log) /\ UNCHANGED faults
     \/ SetRows(RowsFor(log)) /\ Fault /\ UNCHANGED <<consumed, declined>>
     \/ /\ \E rows \in RowsAfterFailure(log) : SetRows(rows)
        /\ MarkConsumed(log) /\ Fault

Ignored(log, row) == (row.subs > 0 /\ ~JobRunFinished(row)) \/ log.own

AnswerLog(log) ==
  LET rows == RowsFor(log)
  IN /\ SetRows(rows)
     /\ ~Ignored(log, rows[log.round])
     /\ Eligible(log.round)
     /\ task' = [running |-> TRUE, cause |-> log, round |-> log.round]
     /\ UNCHANGED <<consumed, declined, faults>>

WasAlreadyConsumed_Never(log) == FALSE

WasAlreadyConsumed(log) == log \in consumed

SkipLog == UNCHANGED <<task, dbVars, faults, lost, declined>>

processBroadcast ==
  /\ ~task.running /\ backlog # <<>>
  /\ backlog' = Tail(backlog)
  /\ LET log == Head(backlog)
     IN \/ WasAlreadyConsumed(log) /\ SkipLog
        \/ Fault /\ UNCHANGED <<task, dbVars, lost, declined>>
        \/ ~WasAlreadyConsumed(log) /\ (DeclineLog(log) \/ AnswerLog(log))
  /\ UNCHANGED <<chainVars, tooOld, txs>>

AlreadyAnswered_Never(row) == FALSE

AlreadyAnswered(row) == row.subs > 0

pollIfEligible ==
  LET r == SuggestedRound
      rows == FindOrCreate(stats, r, 0)
  IN /\ ~task.running /\ r \in Rounds
     /\ stats' = rows
     /\ IF AlreadyAnswered(rows[r]) \/ ~Eligible(r)
        THEN UNCHANGED task
        ELSE task' = [running |-> TRUE, cause |-> NoLog, round |-> r]
     /\ UNCHANGED <<chainVars, tooOld, txs, backlog, consumed, faults, lost, declined>>

\* The run has no valid answer, or a poll's is within the deviation.
NoAnswer ==
  /\ task.running /\ task' = Idle
  /\ IF task.cause = NoLog THEN UNCHANGED <<consumed, faults, declined>>
     ELSE \/ MarkConsumed(task.cause) /\ UNCHANGED faults
          \/ Fault /\ UNCHANGED <<consumed, declined>>
  /\ UNCHANGED <<chainVars, tooOld, txs, backlog, stats, lost>>

\* Not part of the database transaction: it stays if that fails.
CreateEthTransaction(recorded) ==
  /\ Len(txs) < MaxTxs /\ Room(1)
  /\ txs' = Append(txs, [round |-> task.round, cause |-> task.cause,
                         recorded |-> recorded, state |-> "pending"])

Commit ==
  /\ task.running /\ task' = Idle
  /\ CreateEthTransaction(TRUE)
  /\ UpdateRoundStats(task.round, IF task.cause = NoLog THEN 0 ELSE 1)
  /\ consumed' = IF task.cause = NoLog THEN consumed ELSE consumed \cup {task.cause}
  /\ UNCHANGED <<chainVars, tooOld, backlog, faults, lost, declined>>

CommitFails_MarksLog ==
  /\ task.running /\ task' = Idle /\ Fault
  /\ CreateEthTransaction(FALSE) \/ UNCHANGED txs
  /\ consumed' = IF task.cause = NoLog THEN consumed ELSE consumed \cup {task.cause}
  /\ UNCHANGED <<chainVars, tooOld, backlog, stats, lost, declined>>

CommitFails ==
  /\ task.running /\ task' = Idle /\ Fault
  /\ CreateEthTransaction(FALSE) \/ UNCHANGED txs
  /\ UNCHANGED <<chainVars, tooOld, backlog, dbVars, lost, declined>>

\* What is in memory is lost; the database and the transactions stay.  The
\* node that starts again reads the logs from the first unconsumed one on.
Crash ==
  /\ Fault /\ task' = Idle /\ backlog' = <<>> /\ tooOld' = 0
  /\ UNCHANGED <<chainVars, txs, dbVars, lost, declined>>

FinishTask == NoAnswer \/ Commit \/ CommitFails

Next ==
  ChainStep \/ HandleLog \/ processBroadcast \/ pollIfEligible \/ FinishTask \/ Crash

(***************************************************************************)
(* Heads keep coming, a run ends, and Go's select, which picks at random   *)
(* among the channels that are ready, does not pass over the logs for ever.*)
(***************************************************************************)
Spec ==
  /\ Init /\ [][Next]_vars
  /\ WF_vars(HandleLog) /\ WF_vars(FinishTask) /\ SF_vars(processBroadcast)

-----------------------------------------------------------------------------
(* Properties                                                              *)

Recorded(i) == txs[i].recorded
Submissions(r) == {i \in DOMAIN txs : txs[i].round = r /\ Recorded(i)}

(* Until it is rewound, the record of a round counts the transactions that *)
(* were created for it, failed commits excepted: crashes, repeated logs and*)
(* reorganisations do not make it miscount.                                *)
RecordCountsSubmissions ==
  \A r \in Rounds \ lost :
    Cardinality(Submissions(r)) = IF r \in DOMAIN stats THEN stats[r].subs ELSE 0

(* However often a log is sent again, and whatever fails in between, one   *)
(* recorded transaction answers it.                                        *)
LogAnsweredOnce ==
  \A i, j \in DOMAIN txs :
    Recorded(i) /\ Recorded(j) /\ txs[i].cause = txs[j].cause /\ txs[i].cause # NoLog
      => i = j

(* A log is marked consumed only once its answer is queued, or because the *)
(* job has decided not to answer it: none is forgotten by a crash.         *)
ConsumedIsAnsweredOrDeclined ==
  \A log \in consumed :
    log \in declined \/ \E i \in DOMAIN txs : Recorded(i) /\ txs[i].cause = log

(* A poll answers a round again only when the record of the first answer   *)
(* was rewound or never written; other repetitions answer a log.           *)
PollRepeatsOnlyUnrecorded ==
  \A i, j \in DOMAIN txs :
    i < j /\ txs[i].round = txs[j].round /\ txs[j].cause = NoLog
      => ~Recorded(i) \/ txs[i].round \in lost

(* The log of every round that stays on the chain is dealt with in the end,*)
(* although the backlog drops logs and a crash empties it, unless it grows *)
(* too old in the pool first.                                              *)
Pending(r) == Started(r) /\ NewRoundLog(r) \notin consumed

LogsAreHandled == \A r \in Rounds : Pending(r) ~> (~Pending(r) \/ r <= tooOld)
=============================================================================
