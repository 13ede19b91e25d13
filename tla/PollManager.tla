----------------------------- MODULE PollManager -----------------------------
(***************************************************************************)
(* When the flux monitor polls: the timers and tickers of PollManager, the *)
(* hibernation that the Flags contract asks for, and the goroutine consume *)
(* that serves ticks and logs one at a time (FluxMonitor has what a poll   *)
(* submits).                                                               *)
(*                                                                         *)
(* Time is not counted: a timer that runs may fire, and its tick counts    *)
(* from when it is taken.  Of the two flags the job looks at, the one that *)
(* stands for all aggregators stays raised; the flips are those of the     *)
(* other, raised by odd flips and lowered by even ones, each with its log. *)
(***************************************************************************)
EXTENDS Naturals, Sequences, FiniteSets

CONSTANTS
  MaxFlips,   \* bound on the changes of the flag
  MaxFaults   \* bound on failing calls about flags and their logs

ASSUME BoundsAreNaturals == MaxFlips \in Nat /\ MaxFaults \in Nat

VARIABLES
  cfg,        \* the job's configuration
  pm,         \* the poll manager: hibernation and the state of every timer
  consumer,   \* what consume is doing
  startPoll,  \* the initial poll waits to be received
  flips,      \* Flags contract: changes so far
  joined,     \* the flips that are in the block of the flip before them
  backlog,    \* flag logs waiting for the job
  consumed,   \* database: flag logs marked consumed
  tooOld,     \* the logs up to this flip have left the broadcaster's pool
  faults,
  gap,        \* history: why no timer may be left
  staleWake   \* history: woken by a log older than the flag

chainVars == <<flips, joined>>
flagVars == <<chainVars, backlog, consumed, tooOld, faults, staleWake>>
vars == <<cfg, pm, consumer, startPoll, flagVars, gap>>

Flip == 1..MaxFlips
BacklogSize == 2
Raise(i) == i % 2 = 1

raised == Raise(flips)

\* A drumbeat needs the idle timer disabled; a job may do without any timer.
Configs == {c \in [poll : BOOLEAN, idle : BOOLEAN, drumbeat : BOOLEAN] :
              c.drumbeat => ~c.idle}
Timed == cfg.poll \/ cfg.idle \/ cfg.drumbeat

Retry == [running : BOOLEAN, full : BOOLEAN, blocked : BOOLEAN]
Manager == [hibernating : BOOLEAN, hibernation : BOOLEAN, poll : BOOLEAN, idle : BOOLEAN,
            round : BOOLEAN, drumbeat : BOOLEAN, beat : BOOLEAN, retry : Retry]

Requests == {"idle", "hibernation", "awaken", "other"}
Consumer == [at : {"free", "stuck"}, request : {"other"}, log : {0}]
            \cup [at : {"asking", "polling"}, request : Requests, log : Flip \cup {0}]
Free == [at |-> "free", request |-> "other", log |-> 0]
Stuck == [at |-> "stuck", request |-> "other", log |-> 0]

Gaps == {"none", "cut short", "idle poll ended", "woken late"}

\* When the round of the state read started, and whether it will time out.
RoundStates == [recent : BOOLEAN, timesOut : BOOLEAN]

TypeOK ==
  /\ cfg \in Configs /\ pm \in Manager /\ consumer \in Consumer
  /\ startPoll \in BOOLEAN /\ flips \in 0..MaxFlips
  /\ joined \subseteq Flip
  /\ backlog \in Seq(Flip) /\ Len(backlog) <= BacklogSize
  /\ consumed \subseteq Flip /\ tooOld \in 0..MaxFlips /\ faults \in 0..MaxFaults
  /\ gap \in Gaps /\ staleWake \in BOOLEAN

Fault == faults < MaxFaults /\ faults' = faults + 1

-----------------------------------------------------------------------------
(* The retry ticker: its goroutine sends ticks into a channel of one place *)
(* and can be stopped only while it is not sending.                        *)

StopBlocks_Always(m) == m.retry.running

StopBlocks(m) == m.retry.running /\ m.retry.blocked

StartRetryTicker(m) == [m EXCEPT !.retry.running = TRUE]
StopRetryTicker(m) == [m EXCEPT !.retry.running = FALSE]

-----------------------------------------------------------------------------
(* PollManager                                                             *)

startPollTicker(m) == [m EXCEPT !.poll = cfg.poll]

\* A round that is too old leaves the idle timer as it is.
IdleRestarts(rs) == cfg.idle /\ rs.recent

startIdleTimer_OldRoundStops(m, rs) ==
  IF IdleRestarts(rs) THEN [StopRetryTicker(m) EXCEPT !.idle = TRUE]
  ELSE [m EXCEPT !.idle = FALSE]

startIdleTimer(m, rs) ==
  IF ~cfg.idle THEN [m EXCEPT !.idle = FALSE]
  ELSE IF IdleRestarts(rs) THEN [StopRetryTicker(m) EXCEPT !.idle = TRUE]
  ELSE m

startRoundTimer(m, rs) == [m EXCEPT !.round = rs.timesOut]

startDrumbeat(m) == [m EXCEPT !.drumbeat = cfg.drumbeat]

StartTimers(m, rs) ==
  startDrumbeat(startRoundTimer(startIdleTimer(startPollTicker(m), rs), rs))

Reset(m, rs) == IF m.hibernating THEN [m EXCEPT !.hibernation = TRUE] ELSE StartTimers(m, rs)

ResetIdleTimer(m, rs) == IF m.hibernating THEN m ELSE startIdleTimer(m, rs)

\* What starts the idle timer first stops the retry ticker.
ResetBlocks(m, rs) == ~m.hibernating /\ IdleRestarts(rs) /\ StopBlocks(m)

\* What Hibernate has done when it comes to stop the retry ticker.
Quieten(m) ==
  [m EXCEPT !.hibernating = TRUE, !.hibernation = TRUE, !.poll = FALSE,
            !.idle = FALSE, !.round = FALSE, !.drumbeat = FALSE]

Hibernate_KeepsRetry(m) == Quieten(m)

Hibernate(m) == StopRetryTicker(Quieten(m))

Awaken_StillHibernating(m, rs) == StartTimers([m EXCEPT !.hibernation = FALSE], rs)

Awaken(m, rs) ==
  StartTimers([m EXCEPT !.hibernating = FALSE, !.hibernation = FALSE], rs)

\* The goroutine waits for ever for its own retry ticker to stop.
StuckIn(m) == consumer' = Stuck /\ pm' = m /\ UNCHANGED gap

\* What may still tick is a round timer or a tick that was left behind.
Waning(m) ==
  ~(m.hibernation \/ m.poll \/ m.idle \/ m.drumbeat \/ m.retry.running)

Silent(m) == Waning(m) /\ ~m.round /\ ~m.beat /\ ~m.retry.full

\* A manager that has a lasting timer again needs no excuse.
Note(why) == gap' = IF Waning(pm') THEN why ELSE "none"

-----------------------------------------------------------------------------
(* Start                                                                   *)

NewManager ==
  [hibernating |-> FALSE, hibernation |-> FALSE, poll |-> FALSE,
   idle |-> cfg.idle, round |-> FALSE,
   drumbeat |-> FALSE, beat |-> FALSE,
   retry |-> [running |-> FALSE, full |-> FALSE, blocked |-> FALSE]]

\* A flag that cannot be read counts as lowered.
IsHibernating(readFails) == raised /\ ~readFails

\* The job may start under a raised flag, whose log it may have handled.
Init ==
  /\ cfg \in Configs
  /\ flips \in {0, 1} /\ flips <= MaxFlips
  /\ joined = {} /\ consumed \in SUBSET (1..flips) /\ tooOld = 0
  /\ faults \in {0, 1} /\ faults <= MaxFaults
  /\ \E rs \in RoundStates :
       pm = IF IsHibernating(faults = 1) THEN Hibernate(NewManager) ELSE Awaken(NewManager, rs)
  /\ startPoll = (~pm.hibernating /\ (cfg.poll \/ cfg.idle))
  /\ consumer = Free /\ backlog = <<>>
  /\ gap = "none" /\ staleWake = FALSE

-----------------------------------------------------------------------------
(* Ticks                                                                   *)

\* A goroutine that finds the channel full waits with its tick.
RetryTicks ==
  /\ pm.retry.running /\ ~pm.retry.blocked
  /\ pm' = [pm EXCEPT !.retry.full = TRUE, !.retry.blocked = pm.retry.full]

Beats == pm.drumbeat /\ ~pm.beat /\ pm' = [pm EXCEPT !.beat = TRUE]

Tick ==
  /\ RetryTicks \/ Beats
  /\ UNCHANGED <<cfg, consumer, startPoll, flagVars, gap>>

\* After five seconds nobody waits for the initial poll to be received.
StartPollExpires ==
  /\ startPoll /\ startPoll' = FALSE
  /\ UNCHANGED <<cfg, pm, consumer, flagVars, gap>>

-----------------------------------------------------------------------------
(* consume: polls                                                          *)

Asks(request, log) == consumer' = [at |-> "asking", request |-> request, log |-> log]

\* The poll ticker goes on; the other timers fire once.
TakeTick(name) ==
  /\ pm[name]
  /\ pm' = [pm EXCEPT ![name] = name = "poll"]
  /\ Asks(IF name \in {"idle", "hibernation"} THEN name ELSE "other", 0)
  /\ UNCHANGED startPoll

\* A goroutine that waits puts its tick in the place that is free now.
TakeRetry ==
  /\ pm.retry.full
  /\ pm' = [pm EXCEPT !.retry.full = pm.retry.blocked, !.retry.blocked = FALSE]
  /\ Asks("other", 0) /\ UNCHANGED startPoll

TakeBeat ==
  /\ pm.beat /\ pm' = [pm EXCEPT !.beat = FALSE]
  /\ Asks("other", 0) /\ UNCHANGED startPoll

TakeStartPoll ==
  /\ startPoll /\ startPoll' = FALSE
  /\ Asks("other", 0) /\ UNCHANGED pm

Take ==
  /\ consumer = Free
  /\ \/ \E name \in {"hibernation", "poll", "idle", "round"} : TakeTick(name)
     \/ TakeRetry \/ TakeBeat \/ TakeStartPoll
  /\ UNCHANGED <<cfg, flagVars, gap>>

\* The deferred MarkConsumed of a poll that a FlagLowered log asked for.
EndPoll ==
  /\ consumer' = Free
  /\ \/ consumed' = consumed \cup ({consumer.log} \ {0}) /\ UNCHANGED faults
     \/ consumer.log # 0 /\ Fault /\ UNCHANGED consumed
  /\ UNCHANGED <<cfg, startPoll, chainVars, backlog, tooOld, staleWake>>

\* Hibernating, not connected, or no round state: the timers are not reset.
PollCutShort ==
  /\ consumer.at = "asking" /\ EndPoll
  /\ UNCHANGED pm /\ Note("cut short")

\* Whatever the round state read, the timers follow it.
PollResets ==
  /\ consumer.at = "asking"
  /\ consumer.request = "hibernation" \/ ~pm.hibernating
  /\ \E rs \in RoundStates :
       IF ResetBlocks(pm, rs) THEN StuckIn(startPollTicker(pm))
       ELSE /\ pm' = Reset(pm, rs) /\ Note(gap)
            /\ consumer' = [consumer EXCEPT !.at = "polling"]
  /\ UNCHANGED <<cfg, startPoll, flagVars>>

\* After an idle poll the retry ticker runs if it failed, and only then.
AfterIdle(failed) ==
  IF failed THEN pm' = StartRetryTicker(pm) /\ EndPoll /\ gap' = "none"
  ELSE IF StopBlocks(pm) THEN StuckIn(pm) /\ UNCHANGED <<cfg, startPoll, flagVars>>
  ELSE pm' = StopRetryTicker(pm) /\ EndPoll /\ Note("idle poll ended")

PollEnds ==
  /\ consumer.at = "polling"
  /\ \/ consumer.request = "idle" /\ \E failed \in BOOLEAN : AfterIdle(failed)
     \/ consumer.request # "idle" /\ EndPoll /\ UNCHANGED <<pm, gap>>

-----------------------------------------------------------------------------
(* consume: logs of the aggregator, which come when they like              *)

\* It restarts the idle timer at once, and the others if the job considers an
\* answer, for which it reads the round state.
NewRoundLog ==
  /\ consumer = Free
  /\ \E log \in RoundStates, rs \in RoundStates :
       LET m == ResetIdleTimer(pm, log)
       IN IF ResetBlocks(pm, log) THEN StuckIn(pm)
          ELSE \/ pm' = m /\ UNCHANGED consumer /\ Note(gap)
               \/ ResetBlocks(m, rs) /\ StuckIn(startPollTicker(m))
               \/ /\ ~ResetBlocks(m, rs) /\ pm' = Reset(m, rs) /\ Note(gap)
                  /\ consumer' = [Free EXCEPT !.at = "polling"]
  /\ UNCHANGED <<cfg, startPoll, flagVars>>

AnswerUpdatedLog ==
  /\ consumer = Free
  /\ \E rs \in RoundStates :
       IF ResetBlocks(pm, rs) THEN StuckIn(startPollTicker(pm))
       ELSE pm' = Reset(pm, rs) /\ UNCHANGED consumer /\ Note(gap)
  /\ UNCHANGED <<cfg, startPoll, flagVars>>

-----------------------------------------------------------------------------
(* Flags                                                                   *)

\* raiseFlags and lowerFlags; one block may hold several flips.
FlipFlag ==
  /\ flips < MaxFlips /\ flips' = flips + 1
  /\ joined' = joined \/ (flips > tooOld /\ joined' = joined \cup {flips + 1})
  /\ UNCHANGED <<cfg, pm, consumer, startPoll, backlog, consumed, tooOld, faults, gap, staleWake>>

\* The logs the broadcaster has in its pool and sends.
Sent == ((tooOld + 1)..flips) \ consumed

SameBlock(i, j) == (i + 1)..j \subseteq joined

\* Block by block, but the logs of one block come out of a Go map.
SendOrders(logs) ==
  {s \in [1..Cardinality(logs) -> logs] :
     \A j, k \in DOMAIN s : j < k => s[j] # s[k] /\ (s[j] < s[k] \/ SameBlock(s[k], s[j]))}

\* A full queue drops its oldest.
Add(queue, logs) ==
  LET all == queue \o logs
  IN IF Len(all) <= BacklogSize THEN all
     ELSE SubSeq(all, Len(all) - BacklogSize + 1, Len(all))

\* Every head brings the logs that are not consumed and then deletes the
\* blocks below the depth that is kept, which no later head brings.
HandleLog ==
  /\ Sent # {}
  /\ \E logs \in SendOrders(Sent) : backlog' = Add(backlog, logs)
  /\ tooOld' \in {n \in tooOld..flips : n + 1 \notin joined}
  /\ UNCHANGED <<cfg, pm, consumer, startPoll, chainVars, consumed, faults, gap, staleWake>>

MarkConsumed(i) ==
  \/ consumed' = consumed \cup {i} /\ UNCHANGED faults
  \/ Fault /\ UNCHANGED consumed

FlagRaised_Inverted(i) ==
  /\ MarkConsumed(i) /\ UNCHANGED consumer
  /\ IF raised THEN UNCHANGED <<pm, gap, staleWake>>
     ELSE ~StopBlocks(pm) /\ pm' = Hibernate(pm) /\ gap' = "none" /\ staleWake' = FALSE

\* The contract is asked whether the flag is raised; a failing call says no.
FlagRaised(i) ==
  \/ /\ raised
     /\ IF StopBlocks(pm)
        THEN StuckIn(Quieten(pm)) /\ UNCHANGED <<consumed, faults, staleWake>>
        ELSE /\ pm' = Hibernate(pm) /\ gap' = "none" /\ staleWake' = FALSE
             /\ MarkConsumed(i) /\ UNCHANGED consumer
  \/ ~raised /\ MarkConsumed(i) /\ UNCHANGED <<pm, consumer, gap, staleWake>>
  \/ /\ raised /\ Fault /\ consumed' = consumed \cup {i}
     /\ UNCHANGED <<pm, consumer, gap, staleWake>>

\* Only a node that hibernates reacts, and only then is the log consumed.
FlagLowered(i) ==
  IF pm.hibernating
  THEN /\ \E rs \in RoundStates : pm' = Awaken(pm, rs)
       /\ Note("woken late") /\ staleWake' = raised
       /\ Asks("awaken", i) /\ UNCHANGED <<consumed, faults>>
  ELSE UNCHANGED <<pm, consumer, consumed, faults, gap, staleWake>>

processBroadcast ==
  /\ consumer = Free /\ backlog # <<>>
  /\ backlog' = Tail(backlog)
  /\ LET i == Head(backlog)
     IN \/ i \in consumed /\ UNCHANGED <<pm, consumer, consumed, faults, gap, staleWake>>
        \/ Fault /\ UNCHANGED <<pm, consumer, consumed, gap, staleWake>>
        \/ i \notin consumed /\ (IF Raise(i) THEN FlagRaised(i) ELSE FlagLowered(i))
  /\ UNCHANGED <<cfg, startPoll, chainVars, tooOld>>

-----------------------------------------------------------------------------
Next ==
  \/ Tick \/ StartPollExpires \/ Take \/ PollCutShort \/ PollResets \/ PollEnds
  \/ NewRoundLog \/ AnswerUpdatedLog \/ FlipFlag \/ HandleLog \/ processBroadcast

(***************************************************************************)
(* Heads keep coming, a poll ends, and select, which picks at random among *)
(* the channels that are ready, does not pass over the logs for ever.      *)
(***************************************************************************)
Spec ==
  /\ Init /\ [][Next]_vars
  /\ WF_vars(HandleLog) /\ WF_vars(PollCutShort \/ PollResets) /\ WF_vars(PollEnds)
  /\ SF_vars(processBroadcast)

-----------------------------------------------------------------------------
(* Properties                                                              *)

(* A node that hibernates runs its hibernation timer at most: no other will*)
(* make it poll.  What ticked before may still wait in the retry and       *)
(* drumbeat channels.  The one exception is a node that is stuck in        *)
(* Hibernate, before its retry ticker has stopped.                         *)
HibernationIsQuiet ==
  pm.hibernating =>
    /\ ~(pm.poll \/ pm.idle \/ pm.round \/ pm.drumbeat)
    /\ pm.retry.running => consumer = Stuck

(* A job that is configured with a timer is left without any only by a poll*)
(* that returned before it reset them, by an idle poll that did not fail,  *)
(* or by being woken in an old round; whatever else happens, it will poll  *)
(* again without a log.                                                    *)
SilentOnlyAfterGap ==
  Timed /\ consumer = Free /\ ~startPoll /\ Silent(pm) => gap # "none"

(* The job is awake under a raised flag only while the log of that flip is *)
(* unhandled, after a failing call, or because an older FlagLowered log was*)
(* handled after it.                                                       *)
AwakeUnderRaisedFlag ==
  raised /\ ~pm.hibernating => flips \notin consumed \/ faults > 0 \/ staleWake

(* Two ticks the job had no time for stop it: nothing else does.           *)
StuckOnlyByUnservedTicks ==
  consumer = Stuck => pm.retry.running /\ pm.retry.full /\ pm.retry.blocked

\* The log of flip i grew too old in the pool before it was handled.
Expired(i) == i <= tooOld /\ i \notin consumed

(* A node that hibernates under a lowered flag wakes, unless the flag is   *)
(* raised again first, it is stuck in Hibernate, or the FlagLowered log    *)
(* grew too old before it was handled.                                     *)
LoweredFlagWakes ==
  (pm.hibernating /\ ~raised) ~>
    (~pm.hibernating \/ raised \/ consumer = Stuck \/ Expired(flips))
=============================================================================
