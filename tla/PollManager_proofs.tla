------------------------- MODULE PollManager_proofs --------------------------
(***************************************************************************)
(* Proofs about PollManager: what hibernation leaves running, what can stop*)
(* the job and what can leave it without a timer, for any configuration    *)
(* and any number of flips of the flag and of failing calls.               *)
(***************************************************************************)
EXTENDS PollManager, FiniteSetTheorems, SequenceTheorems, TLAPS

Still(m) == ~m.poll /\ ~m.idle /\ ~m.round /\ ~m.drumbeat
Quiet(m) == Still(m) /\ ~m.retry.running

\* Only timers that are configured run, and a goroutine that waits with its
\* tick runs and has filled the channel.
Sound(m) ==
  /\ m \in Manager
  /\ m.poll => cfg.poll
  /\ m.idle => cfg.idle
  /\ m.drumbeat => cfg.drumbeat
  /\ m.retry.blocked => m.retry.full /\ m.retry.running

ManagerInv(m) ==
  /\ Sound(m)
  /\ m.hibernating => Quiet(m)
  /\ ~m.hibernating => ~m.hibernation

\* A manager whose operation waits for the retry ticker to stop.
Caught(m) ==
  /\ Sound(m) /\ StopBlocks(m)
  /\ m.hibernating => Still(m)

ConsumerOf(at, request, log) == [at |-> at, request |-> request, log |-> log]

\* What is being served is the reason why no timer may be left for now.
Serving ==
  \/ consumer.at \in {"asking", "polling"} /\ consumer.request = "idle"
  \/ consumer.at = "asking" /\ consumer.request = "hibernation"

(* The invariant: hibernation and the timers agree unless the job is stuck,*)
(* an idle poll is never that of a hibernating node, and where a job that  *)
(* is configured with a timer has no lasting timer left there is a reason. *)
PollInv ==
  /\ cfg \in Configs
  /\ IF consumer.at = "stuck" THEN consumer = Stuck /\ Caught(pm) ELSE ManagerInv(pm)
  /\ consumer = ConsumerOf(consumer.at, consumer.request, consumer.log)
  /\ consumer.request = "idle" => ~pm.hibernating
  /\ consumer.at = "asking" /\ consumer.request = "hibernation" => pm.hibernating
  /\ Timed /\ Waning(pm) => gap # "none" \/ Serving

-----------------------------------------------------------------------------
(* The operations of the manager                                           *)

(* The fields of a manager.                                                *)
LEMMA ManagerFields ==
  ASSUME NEW m \in Manager
  PROVE  /\ m.hibernating \in BOOLEAN /\ m.drumbeat \in BOOLEAN /\ m.beat \in BOOLEAN
         /\ m.hibernation \in BOOLEAN /\ m.poll \in BOOLEAN /\ m.idle \in BOOLEAN
         /\ m.round \in BOOLEAN
         /\ m.retry \in Retry
         /\ m.retry.running \in BOOLEAN /\ m.retry.full \in BOOLEAN /\ m.retry.blocked \in BOOLEAN
BY DEF Manager, Retry

(* Stopping the retry ticker while its goroutine does not wait.            *)
LEMMA StopRetry ==
  ASSUME NEW m, Sound(m), ~StopBlocks(m)
  PROVE  /\ Sound(StopRetryTicker(m))
         /\ ~StopRetryTicker(m).retry.running
         /\ \A f \in {"hibernating", "hibernation", "poll", "idle", "round", "drumbeat", "beat"} :
              StopRetryTicker(m)[f] = m[f]
<1> DEFINE n == StopRetryTicker(m)
<1>1. m \in Manager /\ ~m.retry.blocked
  BY DEF Sound, StopBlocks
<1>2. n \in Manager
  BY <1>1 DEF StopRetryTicker, Manager, Retry
<1>3. /\ ~n.retry.running /\ n.retry.blocked = m.retry.blocked
      /\ n.hibernating = m.hibernating /\ n.hibernation = m.hibernation
      /\ n.poll = m.poll /\ n.idle = m.idle /\ n.round = m.round
      /\ n.drumbeat = m.drumbeat /\ n.beat = m.beat
  BY <1>1 DEF StopRetryTicker, Manager, Retry
<1>4. Sound(n)
  BY <1>1, <1>2, <1>3 DEF Sound
<1> HIDE DEF n
<1> QED  BY <1>3, <1>4 DEF n

(* Starting the timers of a node that is awake: a lasting timer that ran   *)
(* goes on.                                                                *)
LEMMA StartTimersFacts ==
  ASSUME cfg \in Configs, NEW m, Sound(m), ~m.hibernating, ~m.hibernation,
         NEW rs \in RoundStates, ~(IdleRestarts(rs) /\ StopBlocks(m))
  PROVE  /\ ManagerInv(StartTimers(m, rs))
         /\ ~StartTimers(m, rs).hibernating
         /\ Waning(StartTimers(m, rs)) => Waning(m) /\ ~cfg.poll /\ ~cfg.drumbeat
<1> DEFINE a == startPollTicker(m)
           b == startIdleTimer(a, rs)
           c == startRoundTimer(b, rs)
           d == startDrumbeat(c)
<1>1. cfg.poll \in BOOLEAN /\ cfg.idle \in BOOLEAN /\ cfg.drumbeat \in BOOLEAN
  BY DEF Configs
<1>2. m \in Manager
  BY DEF Sound
<1>3. /\ a \in Manager
      /\ a.poll = cfg.poll
      /\ a.hibernating = m.hibernating /\ a.hibernation = m.hibernation /\ a.idle = m.idle
      /\ a.round = m.round /\ a.drumbeat = m.drumbeat /\ a.retry = m.retry
  BY <1>1, <1>2 DEF startPollTicker, Manager
<1>4. Sound(a) /\ (IdleRestarts(rs) => ~StopBlocks(a))
  BY <1>1, <1>2, <1>3, ManagerFields DEF Sound, StopBlocks
<1> HIDE DEF a
<1>5. /\ Sound(b)
      /\ ~b.hibernating /\ ~b.hibernation /\ b.poll = a.poll /\ b.drumbeat = a.drumbeat
      /\ b.idle \/ (b.idle = a.idle /\ b.retry = a.retry)
  <2>1. CASE ~cfg.idle
    <3>1. b = [a EXCEPT !.idle = FALSE] /\ a.idle = FALSE
      BY <1>3, <1>4, <2>1, ManagerFields DEF startIdleTimer, Sound
    <3>2. b = a
      BY <1>3, <3>1 DEF Manager
    <3> QED  BY <1>3, <1>4, <3>2
  <2>2. CASE cfg.idle /\ IdleRestarts(rs)
    <3> DEFINE n == StopRetryTicker(a)
    <3>1. /\ Sound(n) /\ n.hibernating = a.hibernating /\ n.hibernation = a.hibernation
          /\ n.poll = a.poll /\ n.drumbeat = a.drumbeat
      BY <1>4, <2>2, StopRetry
    <3>2. b = [n EXCEPT !.idle = TRUE]
      BY <2>2 DEF startIdleTimer
    <3> HIDE DEF n
    <3>3. n \in Manager
      BY <3>1 DEF Sound
    <3>4. /\ b \in Manager /\ b.idle /\ b.retry = n.retry
          /\ b.hibernating = n.hibernating /\ b.hibernation = n.hibernation
          /\ b.poll = n.poll /\ b.drumbeat = n.drumbeat
      BY <3>2, <3>3 DEF Manager
    <3>5. Sound(b)
      BY <2>2, <3>1, <3>4 DEF Sound
    <3> HIDE DEF b
    <3> QED  BY <1>3, <3>1, <3>4, <3>5
  <2>3. CASE cfg.idle /\ ~IdleRestarts(rs)
    <3>1. b = a
      BY <2>3 DEF startIdleTimer
    <3> QED  BY <1>3, <1>4, <3>1
  <2> QED  BY <1>1, <2>1, <2>2, <2>3
<1> HIDE DEF b
<1>6. /\ Sound(c) /\ c.hibernating = b.hibernating /\ c.hibernation = b.hibernation
      /\ c.poll = b.poll /\ c.idle = b.idle /\ c.drumbeat = b.drumbeat /\ c.retry = b.retry
  <2>1. b \in Manager
    BY <1>5 DEF Sound
  <2>2. /\ c \in Manager /\ c.hibernating = b.hibernating /\ c.hibernation = b.hibernation
        /\ c.poll = b.poll /\ c.idle = b.idle /\ c.drumbeat = b.drumbeat /\ c.retry = b.retry
    BY <2>1 DEF startRoundTimer, Manager, RoundStates
  <2> HIDE DEF c
  <2> QED  BY <1>5, <2>2 DEF Sound
<1> HIDE DEF c
<1>7. /\ Sound(d) /\ d.hibernating = c.hibernating /\ d.hibernation = c.hibernation
      /\ d.poll = c.poll /\ d.idle = c.idle /\ d.drumbeat = cfg.drumbeat /\ d.retry = c.retry
  <2>1. c \in Manager
    BY <1>6 DEF Sound
  <2>2. /\ d \in Manager /\ d.hibernating = c.hibernating /\ d.hibernation = c.hibernation
        /\ d.poll = c.poll /\ d.idle = c.idle /\ d.drumbeat = cfg.drumbeat /\ d.retry = c.retry
    BY <1>1, <2>1 DEF startDrumbeat, Manager
  <2> HIDE DEF d
  <2> QED  BY <1>6, <2>2 DEF Sound
<1>8. StartTimers(m, rs) = d
  BY DEF StartTimers, a, b, c
<1> HIDE DEF d
<1>9. ManagerInv(d) /\ ~d.hibernating
  BY <1>5, <1>6, <1>7 DEF ManagerInv
<1>10. ASSUME Waning(d)
       PROVE  Waning(m) /\ ~cfg.poll /\ ~cfg.drumbeat
  <2>1. ~d.idle /\ ~d.poll /\ ~d.drumbeat /\ ~d.retry.running
    BY <1>10 DEF Waning
  <2>2. ~a.idle /\ ~a.retry.running /\ ~a.poll
    BY <1>5, <1>6, <1>7, <2>1
  <2>3. ~m.idle /\ ~m.retry.running
    BY <1>3, <2>2
  <2>4. ~m.poll
    BY <1>3, <2>2 DEF Sound
  <2>5. ~m.drumbeat
    BY <1>7, <2>1 DEF Sound
  <2>6. ~cfg.poll /\ ~cfg.drumbeat
    BY <1>3, <1>7, <2>1, <2>2
  <2> QED  BY <2>3, <2>4, <2>5, <2>6 DEF Waning
<1> QED  BY <1>8, <1>9, <1>10

(* Reset, hibernating or not.                                              *)
LEMMA ResetFacts ==
  ASSUME cfg \in Configs, NEW m, ManagerInv(m), NEW rs \in RoundStates, ~ResetBlocks(m, rs)
  PROVE  /\ ManagerInv(Reset(m, rs))
         /\ Reset(m, rs).hibernating = m.hibernating
         /\ Waning(Reset(m, rs)) => Waning(m) /\ ~m.hibernating
<1>1. m \in Manager /\ m.hibernating \in BOOLEAN
  BY ManagerFields DEF ManagerInv, Sound
<1>2. CASE m.hibernating
  <2> DEFINE n == Reset(m, rs)
  <2>1. n = [m EXCEPT !.hibernation = TRUE]
    BY <1>2 DEF Reset
  <2>2. /\ n \in Manager /\ n.hibernation /\ n.hibernating = m.hibernating
        /\ n.poll = m.poll /\ n.idle = m.idle /\ n.round = m.round
        /\ n.drumbeat = m.drumbeat /\ n.retry = m.retry
    BY <1>1, <2>1 DEF Manager
  <2> HIDE DEF n
  <2>3. ManagerInv(n) /\ ~Waning(n)
    BY <1>2, <2>2 DEF ManagerInv, Sound, Quiet, Still, Waning
  <2> QED  BY <2>2, <2>3 DEF n
<1>3. CASE ~m.hibernating
  <2>1. Sound(m) /\ ~m.hibernation /\ ~(IdleRestarts(rs) /\ StopBlocks(m))
    BY <1>3 DEF ManagerInv, ResetBlocks
  <2>2. Reset(m, rs) = StartTimers(m, rs)
    BY <1>3 DEF Reset
  <2>3. /\ ManagerInv(StartTimers(m, rs)) /\ ~StartTimers(m, rs).hibernating
        /\ Waning(StartTimers(m, rs)) => Waning(m)
    BY <1>3, <2>1, StartTimersFacts
  <2>4. StartTimers(m, rs).hibernating \in BOOLEAN
    BY <2>3, ManagerFields DEF ManagerInv, Sound
  <2> QED  BY <1>1, <1>3, <2>2, <2>3, <2>4
<1> QED  BY <1>1, <1>2, <1>3

(* The idle timer alone, which a NewRound log restarts.                    *)
LEMMA ResetIdleTimerFacts ==
  ASSUME cfg \in Configs, NEW m, ManagerInv(m), NEW rs \in RoundStates, ~ResetBlocks(m, rs)
  PROVE  /\ ManagerInv(ResetIdleTimer(m, rs))
         /\ ResetIdleTimer(m, rs).hibernating = m.hibernating
         /\ Waning(ResetIdleTimer(m, rs)) => Waning(m)
<1>1. m \in Manager /\ Sound(m)
  BY DEF ManagerInv, Sound
<1>2. CASE m.hibernating
  <2>1. ResetIdleTimer(m, rs) = m
    BY <1>2 DEF ResetIdleTimer
  <2> QED  BY <2>1
<1>3. CASE ~m.hibernating /\ ~cfg.idle
  <2>1. ResetIdleTimer(m, rs) = [m EXCEPT !.idle = FALSE] /\ m.idle = FALSE
    BY <1>1, <1>3, ManagerFields DEF ResetIdleTimer, startIdleTimer, Sound
  <2>2. ResetIdleTimer(m, rs) = m
    BY <1>1, <2>1 DEF Manager
  <2> QED  BY <2>2
<1>4. CASE ~m.hibernating /\ cfg.idle /\ ~IdleRestarts(rs)
  <2>1. ResetIdleTimer(m, rs) = m
    BY <1>4 DEF ResetIdleTimer, startIdleTimer
  <2> QED  BY <2>1
<1>5. CASE ~m.hibernating /\ cfg.idle /\ IdleRestarts(rs)
  <2> DEFINE n == StopRetryTicker(m)
             b == ResetIdleTimer(m, rs)
  <2>1. /\ Sound(n) /\ n.hibernating = m.hibernating /\ n.hibernation = m.hibernation
        /\ n.poll = m.poll /\ n.drumbeat = m.drumbeat /\ ~n.retry.running
    BY <1>1, <1>5, StopRetry DEF ResetBlocks
  <2>2. b = [n EXCEPT !.idle = TRUE]
    BY <1>5 DEF ResetIdleTimer, startIdleTimer
  <2> HIDE DEF n, b
  <2>3. n \in Manager
    BY <2>1 DEF Sound
  <2>4. /\ b \in Manager /\ b.idle /\ b.retry = n.retry
        /\ b.hibernating = n.hibernating /\ b.hibernation = n.hibernation
        /\ b.poll = n.poll /\ b.drumbeat = n.drumbeat
    BY <2>2, <2>3 DEF Manager
  <2>5. ManagerInv(b) /\ ~Waning(b)
    BY <1>5, <2>1, <2>4 DEF Sound, ManagerInv, Waning
  <2> QED  BY <2>1, <2>4, <2>5 DEF b
<1> QED  BY <1>1, <1>2, <1>3, <1>4, <1>5, ManagerFields

(* What Hibernate does before it stops the retry ticker.                   *)
LEMMA QuietenFacts ==
  ASSUME NEW m, Sound(m)
  PROVE  /\ Sound(Quieten(m)) /\ Still(Quieten(m))
         /\ Quieten(m).hibernating /\ Quieten(m).hibernation
         /\ StopBlocks(Quieten(m)) = StopBlocks(m)
<1> DEFINE n == Quieten(m)
<1>1. m \in Manager
  BY DEF Sound
<1>2. /\ n \in Manager /\ n.hibernating /\ n.hibernation
      /\ ~n.poll /\ ~n.idle /\ ~n.round /\ ~n.drumbeat /\ n.retry = m.retry
  BY <1>1 DEF Quieten, Manager
<1> HIDE DEF n
<1>3. Sound(n) /\ Still(n) /\ StopBlocks(n) = StopBlocks(m)
  BY <1>2 DEF Sound, Still, StopBlocks
<1> QED  BY <1>2, <1>3 DEF n

(* Hibernating: one timer is left.                                         *)
LEMMA HibernateFacts ==
  ASSUME NEW m, Sound(m), ~StopBlocks(m)
  PROVE  /\ ManagerInv(Hibernate(m))
         /\ Hibernate(m).hibernating
         /\ ~Waning(Hibernate(m))
<1> DEFINE n == Quieten(m)
           h == StopRetryTicker(n)
<1>1. Sound(n) /\ Still(n) /\ n.hibernating /\ n.hibernation /\ ~StopBlocks(n)
  BY QuietenFacts
<1> HIDE DEF n
<1>2. /\ Sound(h) /\ ~h.retry.running
      /\ h.hibernating = n.hibernating /\ h.hibernation = n.hibernation
      /\ h.poll = n.poll /\ h.idle = n.idle /\ h.round = n.round /\ h.drumbeat = n.drumbeat
  BY <1>1, StopRetry
<1> HIDE DEF h
<1>3. ManagerInv(h) /\ h.hibernating /\ ~Waning(h)
  BY <1>1, <1>2 DEF ManagerInv, Quiet, Still, Waning
<1> QED  BY <1>3 DEF Hibernate, h, n

(* An operation that was caught had resumed the poll ticker at most.       *)
LEMMA CaughtFacts ==
  ASSUME cfg \in Configs, NEW m, ManagerInv(m), StopBlocks(m)
  PROVE  Caught(m) /\ Caught(startPollTicker(m)) /\ ~m.hibernating
         /\ startPollTicker(m).hibernating = m.hibernating
<1>1. Sound(m) /\ m \in Manager /\ ~m.hibernating /\ cfg.poll \in BOOLEAN
  BY DEF ManagerInv, Sound, Quiet, StopBlocks, Configs
<1> DEFINE n == startPollTicker(m)
<1>2. /\ n \in Manager /\ n.poll = cfg.poll /\ n.hibernating = m.hibernating
      /\ n.idle = m.idle /\ n.drumbeat = m.drumbeat /\ n.retry = m.retry
  BY <1>1 DEF startPollTicker, Manager
<1> HIDE DEF n
<1>3. Caught(n) /\ Caught(m)
  BY <1>1, <1>2 DEF Caught, Sound, StopBlocks
<1> QED  BY <1>1, <1>2, <1>3 DEF n

(* Waking: every timer that is configured and wanted starts.               *)
LEMMA AwakenFacts ==
  ASSUME cfg \in Configs, NEW m, Sound(m), ~m.retry.running, NEW rs \in RoundStates
  PROVE  /\ ManagerInv(Awaken(m, rs)) /\ ~Awaken(m, rs).hibernating
         /\ Waning(Awaken(m, rs)) => ~cfg.poll /\ ~cfg.drumbeat /\ ~m.idle
<1> DEFINE n == [m EXCEPT !.hibernating = FALSE, !.hibernation = FALSE]
<1>1. m \in Manager
  BY DEF Sound
<1>2. /\ n \in Manager /\ ~n.hibernating /\ ~n.hibernation /\ n.poll = m.poll
      /\ n.idle = m.idle /\ n.drumbeat = m.drumbeat /\ n.retry = m.retry
  BY <1>1 DEF Manager
<1>3. Awaken(m, rs) = StartTimers(n, rs)
  BY DEF Awaken
<1> HIDE DEF n
<1>4. Sound(n) /\ ~StopBlocks(n)
  BY <1>2 DEF Sound, StopBlocks
<1>5. Waning(n) => ~m.idle
  BY <1>2 DEF Waning
<1> QED  BY <1>2, <1>3, <1>4, <1>5, StartTimersFacts

-----------------------------------------------------------------------------
(* The steps                                                               *)

(* Whatever changes in what the invariant does not mention.                *)
LEMMA SameManager ==
  ASSUME PollInv, UNCHANGED <<cfg, pm, gap, consumer>>
  PROVE  PollInv'
BY DEF PollInv, ManagerInv, Caught, Sound, Quiet, Still, Waning, StopBlocks, Serving,
       ConsumerOf, Timed

(* What is said of a manager reads the configuration, which does not change*)
LEMMA NextManager ==
  ASSUME cfg' = cfg, NEW n, pm' = n
  PROVE  /\ ManagerInv(n) => ManagerInv(pm)'
         /\ Caught(n) => Caught(pm)'
BY DEF ManagerInv, Caught, Sound, Quiet, Still, StopBlocks

\* A step in which the timers that last go on or start.
Lasting(n) ==
  /\ ManagerInv(n)
  /\ n.hibernating = pm.hibernating
  /\ Waning(n) => Waning(pm)

(* A tick that waits in a channel leaves every timer as it is, and a       *)
(* goroutine that waits goes on waiting.                                   *)
LEMMA TickLasts ==
  ASSUME PollInv, Tick
  PROVE  /\ ManagerInv(pm) => ManagerInv(pm')
         /\ Caught(pm) => Caught(pm')
         /\ pm'.hibernating = pm.hibernating /\ Waning(pm') = Waning(pm)
<1>1. Sound(pm) /\ pm \in Manager
  BY DEF PollInv, ManagerInv, Caught, Sound
<1>2. /\ Sound(pm')
      /\ pm'.hibernating = pm.hibernating /\ pm'.hibernation = pm.hibernation
      /\ pm'.poll = pm.poll /\ pm'.idle = pm.idle /\ pm'.round = pm.round
      /\ pm'.drumbeat = pm.drumbeat /\ pm'.retry.running = pm.retry.running
      /\ StopBlocks(pm) => StopBlocks(pm')
  <2>1. CASE RetryTicks
    <3>1. pm' = [pm EXCEPT !.retry.full = TRUE, !.retry.blocked = pm.retry.full]
          /\ pm.retry.running /\ ~pm.retry.blocked
      BY <2>1 DEF RetryTicks
    <3>2. /\ pm'.hibernating = pm.hibernating /\ pm'.drumbeat = pm.drumbeat
          /\ pm'.hibernation = pm.hibernation /\ pm'.poll = pm.poll
          /\ pm'.idle = pm.idle /\ pm'.round = pm.round
          /\ pm'.retry.running = pm.retry.running /\ pm'.retry.full
      BY <1>1, <3>1 DEF Manager, Retry
    <3>3. pm' \in Manager
      BY <1>1, <3>1 DEF Manager, Retry
    <3>4. Sound(pm')
      BY <1>1, <3>1, <3>2, <3>3 DEF Sound
    <3> QED  BY <3>1, <3>2, <3>4 DEF StopBlocks
  <2>2. CASE Beats
    <3>1. pm' = [pm EXCEPT !.beat = TRUE]
      BY <2>2 DEF Beats
    <3>2. /\ pm' \in Manager
          /\ pm'.hibernating = pm.hibernating /\ pm'.drumbeat = pm.drumbeat
          /\ pm'.hibernation = pm.hibernation /\ pm'.poll = pm.poll
          /\ pm'.idle = pm.idle /\ pm'.round = pm.round /\ pm'.retry = pm.retry
      BY <1>1, <3>1 DEF Manager
    <3>3. Sound(pm')
      BY <1>1, <3>2 DEF Sound
    <3> QED  BY <3>2, <3>3 DEF StopBlocks
  <2> QED  BY <2>1, <2>2 DEF Tick
<1> QED  BY <1>2 DEF ManagerInv, Caught, Quiet, Still, Waning

(* A step of the timers alone.                                             *)
LEMMA TickInv ==
  ASSUME PollInv, Tick
  PROVE  PollInv'
<1>1. UNCHANGED <<cfg, consumer, gap>>
  BY DEF Tick
<1>2. /\ ManagerInv(pm) => ManagerInv(pm')
      /\ Caught(pm) => Caught(pm')
      /\ pm'.hibernating = pm.hibernating /\ Waning(pm') = Waning(pm)
  BY TickLasts
<1>3. /\ ManagerInv(pm) => ManagerInv(pm)'
      /\ Caught(pm) => Caught(pm)'
  BY <1>1, <1>2, NextManager
<1>4. Waning(pm)' = Waning(pm) /\ Serving' = Serving /\ Timed' = Timed /\ Stuck' = Stuck
  BY <1>1, <1>2 DEF Waning, Serving, Timed, Stuck
<1> QED  BY <1>1, <1>2, <1>3, <1>4 DEF PollInv, ConsumerOf

(* What the invariant says after a step, of the values the step sets.      *)
LEMMA NextInv ==
  ASSUME cfg \in Configs, cfg' = cfg, ManagerInv(pm'),
         NEW at \in {"free", "asking", "polling"}, NEW request, NEW log,
         consumer' = ConsumerOf(at, request, log),
         request = "idle" => ~pm'.hibernating,
         at = "asking" /\ request = "hibernation" => pm'.hibernating,
         Timed /\ Waning(pm') => \/ gap' # "none"
                                 \/ at \in {"asking", "polling"} /\ request = "idle"
                                 \/ at = "asking" /\ request = "hibernation"
  PROVE  PollInv'
<1>1. ManagerInv(pm)' /\ Timed' = Timed
  BY NextManager DEF Timed
<1>2. consumer'.at = at /\ consumer'.request = request /\ consumer'.log = log
  BY DEF ConsumerOf
<1> QED  BY <1>1, <1>2 DEF PollInv, Waning, Serving

(* consume takes a tick and asks.                                          *)
LEMMA TakeInv ==
  ASSUME PollInv, Take
  PROVE  PollInv'
<1>1. /\ UNCHANGED <<cfg, gap>> /\ consumer.at = "free" /\ cfg \in Configs
      /\ ManagerInv(pm) /\ Sound(pm) /\ pm \in Manager
      /\ Timed /\ Waning(pm) => gap # "none"
  BY DEF Take, Free, PollInv, ManagerInv, Sound, Serving
<1>2. ASSUME NEW name \in {"hibernation", "poll", "idle", "round"}, TakeTick(name)
      PROVE  PollInv'
  <2>1. /\ pm' = [pm EXCEPT ![name] = (name = "poll")] /\ pm[name]
        /\ consumer' = ConsumerOf("asking",
                        IF name \in {"idle", "hibernation"} THEN name ELSE "other", 0)
    BY <1>2 DEF TakeTick, Asks, ConsumerOf
  <2>2. /\ pm' \in Manager /\ pm'.hibernating = pm.hibernating /\ pm'.retry = pm.retry
        /\ pm'.drumbeat = pm.drumbeat
    BY <1>1, <2>1 DEF Manager
  <2>3. /\ pm'.hibernation = IF name = "hibernation" THEN FALSE ELSE pm.hibernation
        /\ pm'.poll = pm.poll
        /\ pm'.idle = IF name = "idle" THEN FALSE ELSE pm.idle
        /\ pm'.round = IF name = "round" THEN FALSE ELSE pm.round
    BY <1>1, <2>1 DEF Manager
  <2>4. Sound(pm')
    BY <1>1, <2>1, <2>2, <2>3 DEF Sound
  <2>5. ManagerInv(pm')
    BY <1>1, <2>1, <2>2, <2>3, <2>4 DEF ManagerInv, Quiet, Still
  <2>6. name = "idle" => ~pm.hibernating
    BY <1>1, <2>1 DEF ManagerInv, Quiet, Still
  <2>7. name = "hibernation" => pm.hibernating
    BY <1>1, <2>1 DEF ManagerInv
  <2>8. Waning(pm') => name \in {"idle", "hibernation"} \/ Waning(pm)
    BY <1>1, <2>1, <2>2, <2>3 DEF Waning
  <2> QED  BY <1>1, <2>1, <2>2, <2>5, <2>6, <2>7, <2>8, NextInv
<1>3. ASSUME Lasting(pm'), Asks("other", 0)
      PROVE  PollInv'
  <2>1. consumer' = ConsumerOf("asking", "other", 0)
    BY <1>3 DEF Asks, ConsumerOf
  <2> QED  BY <1>1, <1>3, <2>1, NextInv DEF Lasting
<1>4. CASE TakeRetry
  <2>1. pm' = [pm EXCEPT !.retry.full = pm.retry.blocked, !.retry.blocked = FALSE]
    BY <1>4 DEF TakeRetry
  <2>2. /\ pm'.hibernating = pm.hibernating /\ pm'.drumbeat = pm.drumbeat
        /\ pm'.hibernation = pm.hibernation /\ pm'.poll = pm.poll
        /\ pm'.idle = pm.idle /\ pm'.round = pm.round
        /\ pm'.retry.running = pm.retry.running /\ ~pm'.retry.blocked
    BY <1>1, <2>1 DEF Manager, Retry
  <2>3. pm' \in Manager
    BY <1>1, <2>1 DEF Manager, Retry
  <2>4. ManagerInv(pm')
    BY <1>1, <2>2, <2>3 DEF ManagerInv, Sound, Quiet, Still
  <2> QED  BY <1>3, <1>4, <2>2, <2>4 DEF TakeRetry, Lasting, Waning
<1>5. CASE TakeBeat
  <2>1. pm' = [pm EXCEPT !.beat = FALSE]
    BY <1>5 DEF TakeBeat
  <2>2. /\ pm' \in Manager
        /\ pm'.hibernating = pm.hibernating /\ pm'.drumbeat = pm.drumbeat
        /\ pm'.hibernation = pm.hibernation /\ pm'.poll = pm.poll
        /\ pm'.idle = pm.idle /\ pm'.round = pm.round /\ pm'.retry = pm.retry
    BY <1>1, <2>1 DEF Manager
  <2>3. ManagerInv(pm')
    BY <1>1, <2>2 DEF ManagerInv, Sound, Quiet, Still
  <2> QED  BY <1>3, <1>5, <2>2, <2>3 DEF TakeBeat, Lasting, Waning
<1>6. CASE TakeStartPoll
  BY <1>1, <1>3, <1>6 DEF TakeStartPoll, Lasting
<1> QED  BY <1>2, <1>4, <1>5, <1>6 DEF Take

(* A poll that returns early.                                              *)
LEMMA PollCutShortInv ==
  ASSUME PollInv, PollCutShort
  PROVE  PollInv'
<1>1. /\ UNCHANGED <<cfg, pm>> /\ consumer' = ConsumerOf("free", "other", 0)
      /\ gap' = IF Waning(pm') THEN "cut short" ELSE "none"
      /\ cfg \in Configs /\ ManagerInv(pm)
  BY DEF PollCutShort, EndPoll, Note, PollInv, Free, ConsumerOf
<1> QED  BY <1>1, NextInv

(* What the job does when the retry ticker cannot be stopped.              *)
LEMMA StuckInv ==
  ASSUME cfg \in Configs, cfg' = cfg, Caught(pm'), consumer' = Stuck
  PROVE  PollInv'
<1>1. consumer'.at = "stuck" /\ consumer'.request = "other"
      /\ consumer' = ConsumerOf(consumer'.at, consumer'.request, consumer'.log)
  BY DEF Stuck, ConsumerOf
<1>2. Caught(pm)' /\ ~Waning(pm)' /\ consumer' = Stuck'
  BY NextManager DEF Caught, Waning, StopBlocks, Stuck
<1> QED  BY <1>1, <1>2 DEF PollInv, ConsumerOf

(* A poll that resets the timers, or stops in doing so.                    *)
LEMMA PollResetsInv ==
  ASSUME PollInv, PollResets
  PROVE  PollInv'
<1>1. /\ cfg' = cfg /\ cfg \in Configs /\ ManagerInv(pm)
      /\ consumer = ConsumerOf("asking", consumer.request, consumer.log)
      /\ consumer.request = "idle" => ~pm.hibernating
      /\ consumer.request = "hibernation" => pm.hibernating
      /\ Timed /\ Waning(pm) => gap # "none" \/ consumer.request \in {"idle", "hibernation"}
  BY DEF PollResets, PollInv, Serving
<1>2. PICK rs \in RoundStates :
        \/ ResetBlocks(pm, rs) /\ consumer' = Stuck /\ pm' = startPollTicker(pm)
        \/ /\ ~ResetBlocks(pm, rs)
           /\ pm' = Reset(pm, rs) /\ Note(gap)
           /\ consumer' = [consumer EXCEPT !.at = "polling"]
  BY DEF PollResets, StuckIn
<1>3. CASE ResetBlocks(pm, rs) /\ consumer' = Stuck /\ pm' = startPollTicker(pm)
  BY <1>1, <1>3, CaughtFacts, StuckInv DEF ResetBlocks
<1>4. CASE /\ ~ResetBlocks(pm, rs)
           /\ pm' = Reset(pm, rs) /\ Note(gap)
           /\ consumer' = [consumer EXCEPT !.at = "polling"]
  <2>1. /\ ManagerInv(pm') /\ pm'.hibernating = pm.hibernating
        /\ Waning(pm') => Waning(pm) /\ ~pm.hibernating
    BY <1>1, <1>4, ResetFacts
  <2>2. consumer' = ConsumerOf("polling", consumer.request, consumer.log)
    BY <1>1, <1>4 DEF ConsumerOf
  <2>3. Waning(pm') => gap' = gap
    BY <1>4 DEF Note
  <2> QED  BY <1>1, <2>1, <2>2, <2>3, NextInv
<1> QED  BY <1>2, <1>3, <1>4

(* The retry ticker starts after an idle poll that failed.                 *)
LEMMA StartRetry ==
  ASSUME NEW m, ManagerInv(m), ~m.hibernating
  PROVE  /\ ManagerInv(StartRetryTicker(m))
         /\ ~StartRetryTicker(m).hibernating /\ ~Waning(StartRetryTicker(m))
<1> DEFINE n == StartRetryTicker(m)
<1>1. m \in Manager
  BY DEF ManagerInv, Sound
<1>2. n \in Manager
  BY <1>1 DEF StartRetryTicker, Manager, Retry
<1>3. /\ n.retry.running /\ n.retry.blocked = m.retry.blocked /\ n.retry.full = m.retry.full
      /\ n.hibernating = m.hibernating /\ n.hibernation = m.hibernation
      /\ n.poll = m.poll /\ n.idle = m.idle /\ n.drumbeat = m.drumbeat
  BY <1>1 DEF StartRetryTicker, Manager, Retry
<1> HIDE DEF n
<1>4. ManagerInv(n) /\ ~Waning(n)
  BY <1>2, <1>3 DEF ManagerInv, Sound, Waning
<1> QED  BY <1>3, <1>4 DEF n

(* The end of a poll.                                                      *)
LEMMA PollEndsInv ==
  ASSUME PollInv, PollEnds
  PROVE  PollInv'
<1>1. /\ cfg \in Configs /\ ManagerInv(pm) /\ consumer.at = "polling"
      /\ consumer.request = "idle" => ~pm.hibernating
      /\ Timed /\ Waning(pm) => gap # "none" \/ consumer.request = "idle"
  BY DEF PollEnds, PollInv, Serving
<1>2. EndPoll => cfg' = cfg /\ consumer' = ConsumerOf("free", "other", 0)
  BY DEF EndPoll, Free, ConsumerOf
<1>3. CASE consumer.request # "idle" /\ EndPoll /\ UNCHANGED <<pm, gap>>
  BY <1>1, <1>2, <1>3, NextInv
<1>4. CASE consumer.request = "idle" /\ pm' = StartRetryTicker(pm) /\ EndPoll
  BY <1>1, <1>2, <1>4, StartRetry, NextInv
<1>5. CASE StopBlocks(pm) /\ consumer' = Stuck /\ UNCHANGED <<cfg, pm>>
  BY <1>1, <1>5, CaughtFacts, StuckInv
<1>6. CASE /\ consumer.request = "idle" /\ ~StopBlocks(pm)
           /\ pm' = StopRetryTicker(pm) /\ EndPoll /\ Note("idle poll ended")
  <2>1. Sound(pm') /\ pm'.hibernating = pm.hibernating /\ pm'.hibernation = pm.hibernation
    BY <1>1, <1>6, StopRetry DEF ManagerInv
  <2>2. ManagerInv(pm')
    BY <1>1, <1>6, <2>1 DEF ManagerInv
  <2>3. Waning(pm') => gap' = "idle poll ended"
    BY <1>6 DEF Note
  <2> QED  BY <1>1, <1>2, <1>6, <2>1, <2>2, <2>3, NextInv
<1> QED  BY <1>3, <1>4, <1>5, <1>6 DEF PollEnds, AfterIdle, StuckIn

(* A NewRound log.                                                         *)
LEMMA NewRoundLogInv ==
  ASSUME PollInv, NewRoundLog
  PROVE  PollInv'
<1>1. /\ cfg' = cfg /\ cfg \in Configs /\ ManagerInv(pm) /\ consumer = Free
      /\ Timed /\ Waning(pm) => gap # "none"
  BY DEF NewRoundLog, PollInv, Serving, Free
<1>2. PICK log \in RoundStates, rs \in RoundStates :
        \/ ResetBlocks(pm, log) /\ consumer' = Stuck /\ pm' = pm
        \/ /\ ~ResetBlocks(pm, log)
           /\ \/ pm' = ResetIdleTimer(pm, log) /\ UNCHANGED consumer /\ Note(gap)
              \/ /\ ResetBlocks(ResetIdleTimer(pm, log), rs)
                 /\ consumer' = Stuck /\ pm' = startPollTicker(ResetIdleTimer(pm, log))
              \/ /\ ~ResetBlocks(ResetIdleTimer(pm, log), rs)
                 /\ pm' = Reset(ResetIdleTimer(pm, log), rs) /\ Note(gap)
                 /\ consumer' = [Free EXCEPT !.at = "polling"]
  BY DEF NewRoundLog, StuckIn
<1> DEFINE m == ResetIdleTimer(pm, log)
<1>3. ~ResetBlocks(pm, log) =>
        /\ ManagerInv(m)
        /\ Waning(m) => Waning(pm)
  BY <1>1, ResetIdleTimerFacts
<1> HIDE DEF m
<1>4. CASE \/ ResetBlocks(pm, log) /\ consumer' = Stuck /\ pm' = pm
           \/ /\ ~ResetBlocks(pm, log) /\ ResetBlocks(m, rs)
              /\ consumer' = Stuck /\ pm' = startPollTicker(m)
  <2>1. Caught(pm')
    BY <1>1, <1>3, <1>4, CaughtFacts DEF ResetBlocks
  <2> QED  BY <1>1, <1>4, <2>1, StuckInv
<1>5. CASE ~ResetBlocks(pm, log) /\ pm' = m /\ UNCHANGED consumer /\ Note(gap)
  <2>1. consumer' = ConsumerOf("free", "other", 0)
    BY <1>1, <1>5 DEF Free, ConsumerOf
  <2>2. Waning(pm') => gap' = gap
    BY <1>5 DEF Note
  <2> QED  BY <1>1, <1>3, <1>5, <2>1, <2>2, NextInv
<1>6. CASE /\ ~ResetBlocks(pm, log) /\ ~ResetBlocks(m, rs)
           /\ pm' = Reset(m, rs) /\ Note(gap)
           /\ consumer' = [Free EXCEPT !.at = "polling"]
  <2>1. consumer' = ConsumerOf("polling", "other", 0)
    BY <1>6 DEF Free, ConsumerOf
  <2>2. Waning(pm') => gap' = gap
    BY <1>6 DEF Note
  <2>3. ManagerInv(pm') /\ (Waning(pm') => Waning(m))
    BY <1>1, <1>3, <1>6, ResetFacts
  <2> QED  BY <1>1, <1>3, <1>6, <2>1, <2>2, <2>3, NextInv
<1> QED  BY <1>2, <1>4, <1>5, <1>6 DEF m

(* An AnswerUpdated log.                                                   *)
LEMMA AnswerUpdatedLogInv ==
  ASSUME PollInv, AnswerUpdatedLog
  PROVE  PollInv'
<1>1. /\ cfg' = cfg /\ cfg \in Configs /\ ManagerInv(pm) /\ consumer = Free
      /\ Timed /\ Waning(pm) => gap # "none"
  BY DEF AnswerUpdatedLog, PollInv, Serving, Free
<1>2. PICK rs \in RoundStates :
        IF ResetBlocks(pm, rs) THEN consumer' = Stuck /\ pm' = startPollTicker(pm)
        ELSE pm' = Reset(pm, rs) /\ UNCHANGED consumer /\ Note(gap)
  BY DEF AnswerUpdatedLog, StuckIn
<1>3. CASE ResetBlocks(pm, rs)
  BY <1>1, <1>2, <1>3, CaughtFacts, StuckInv DEF ResetBlocks
<1>4. CASE ~ResetBlocks(pm, rs)
  <2>1. ManagerInv(pm') /\ (Waning(pm') => Waning(pm))
    BY <1>1, <1>2, <1>4, ResetFacts
  <2>2. Waning(pm') => gap' = gap
    BY <1>2, <1>4 DEF Note
  <2>3. consumer' = ConsumerOf("free", "other", 0)
    BY <1>1, <1>2, <1>4 DEF Free, ConsumerOf
  <2> QED  BY <1>1, <2>1, <2>2, <2>3, NextInv
<1> QED  BY <1>3, <1>4

(* A log of the flag, whatever log it is.                                  *)
LEMMA FlagLogInv ==
  ASSUME PollInv, processBroadcast
  PROVE  PollInv'
<1>1. /\ cfg' = cfg /\ cfg \in Configs /\ ManagerInv(pm) /\ Sound(pm) /\ consumer = Free
      /\ Timed /\ Waning(pm) => gap # "none"
  BY DEF processBroadcast, PollInv, ManagerInv, Serving, Free
<1>2. PICK i :
        \/ UNCHANGED <<pm, consumer, gap>>
        \/ FlagRaised(i)
        \/ FlagLowered(i)
  BY DEF processBroadcast
<1>3. CASE UNCHANGED <<pm, consumer, gap>>
  BY <1>1, <1>3, SameManager
<1>4. CASE StopBlocks(pm) /\ consumer' = Stuck /\ pm' = Quieten(pm)
  <2>1. Caught(pm')
    BY <1>1, <1>4, QuietenFacts DEF Caught
  <2> QED  BY <1>1, <1>4, <2>1, StuckInv
<1>5. CASE ~StopBlocks(pm) /\ pm' = Hibernate(pm) /\ UNCHANGED consumer
  <2>1. ManagerInv(pm') /\ pm'.hibernating /\ ~Waning(pm')
    BY <1>1, <1>5, HibernateFacts
  <2>2. consumer' = ConsumerOf("free", "other", 0)
    BY <1>1, <1>5 DEF Free, ConsumerOf
  <2> QED  BY <1>1, <2>1, <2>2, NextInv
<1>6. CASE FlagRaised(i)
  BY <1>3, <1>4, <1>5, <1>6 DEF FlagRaised, StuckIn
<1>7. CASE FlagLowered(i)
  <2>1. CASE ~pm.hibernating
    BY <1>3, <1>7, <2>1 DEF FlagLowered
  <2>2. CASE pm.hibernating
    <3>1. PICK rs \in RoundStates : pm' = Awaken(pm, rs)
      BY <1>7, <2>2 DEF FlagLowered
    <3>2. Note("woken late") /\ consumer' = ConsumerOf("asking", "awaken", i)
      BY <1>7, <2>2 DEF FlagLowered, Asks, ConsumerOf
    <3>3. ~pm.retry.running
      BY <1>1, <2>2 DEF ManagerInv, Quiet, Still
    <3>4. ManagerInv(pm')
      BY <1>1, <3>1, <3>3, AwakenFacts
    <3>5. Waning(pm') => gap' = "woken late"
      BY <3>2 DEF Note
    <3> QED  BY <1>1, <3>2, <3>4, <3>5, NextInv
  <2> QED  BY <2>1, <2>2
<1> QED  BY <1>2, <1>3, <1>6, <1>7

(* The job starts hibernating or awake; what it was configured with runs.  *)
LEMMA InitPollInv ==
  ASSUME Init
  PROVE  PollInv
<1>1. cfg \in Configs /\ consumer = ConsumerOf("free", "other", 0)
  BY DEF Init, Free, ConsumerOf
<1>2. cfg.poll \in BOOLEAN /\ cfg.idle \in BOOLEAN /\ cfg.drumbeat \in BOOLEAN
  BY <1>1 DEF Configs
<1> DEFINE m == NewManager
<1>3. /\ m \in Manager /\ ~m.hibernating /\ ~m.hibernation /\ ~m.poll
      /\ m.idle = cfg.idle /\ ~m.round
      /\ ~m.drumbeat /\ ~m.retry.running /\ ~m.retry.blocked
  BY <1>2 DEF NewManager, Manager, Retry
<1> HIDE DEF m
<1>4. Sound(m) /\ ~StopBlocks(m)
  BY <1>3 DEF Sound, StopBlocks
<1>5. PICK rs \in RoundStates : pm = Hibernate(m) \/ pm = Awaken(m, rs)
  BY DEF Init, m
<1>6. ManagerInv(Hibernate(m)) /\ ~Waning(Hibernate(m))
  BY <1>4, HibernateFacts
<1>7. /\ ManagerInv(Awaken(m, rs))
      /\ Waning(Awaken(m, rs)) => ~cfg.poll /\ ~cfg.drumbeat /\ ~m.idle
  BY <1>1, <1>3, <1>4, AwakenFacts
<1>8. ManagerInv(pm)
  BY <1>5, <1>6, <1>7
<1>9. Timed => ~Waning(pm)
  BY <1>3, <1>5, <1>6, <1>7 DEF Timed
<1> QED  BY <1>1, <1>8, <1>9 DEF PollInv, ConsumerOf

-----------------------------------------------------------------------------
(* The flag, its logs and being awake                                      *)

(* The invariant of the flag: logs that are waiting, served or consumed are*)
(* those of past flips, only FlagLowered logs are served by a poll, and a  *)
(* node that is awake although the log of the last raise was consumed has  *)
(* met a failing call or an older log.                                     *)
FlagInv ==
  /\ flips \in Nat /\ tooOld \in Nat /\ faults \in Nat
  /\ consumed \subseteq 1..flips
  /\ backlog \in Seq(1..flips)
  /\ consumer.log = 0 \/ (consumer.log \in 1..flips /\ ~Raise(consumer.log))
  /\ AwakeUnderRaisedFlag

(* A step that neither wakes the node nor touches the flag and its logs.   *)
LEMMA FlagNeutral ==
  ASSUME FlagInv, UNCHANGED flagVars, pm'.hibernating = pm.hibernating,
         consumer'.log \in {0, consumer.log}
  PROVE  FlagInv'
BY DEF FlagInv, AwakeUnderRaisedFlag, raised, flagVars, chainVars

(* Ticks and the timers' own operations leave hibernation as it is.        *)
LEMMA TakeKeepsHibernation ==
  ASSUME PollInv, Take
  PROVE  pm'.hibernating = pm.hibernating /\ consumer'.log = 0
<1>1. pm \in Manager
  BY DEF PollInv, Take, Free, ManagerInv, Sound
<1>2. ASSUME NEW name \in {"hibernation", "poll", "idle", "round"}, TakeTick(name)
      PROVE  pm'.hibernating = pm.hibernating /\ consumer'.log = 0
  BY <1>1, <1>2 DEF Manager, TakeTick, Asks
<1>3. CASE TakeRetry
  BY <1>1, <1>3 DEF TakeRetry, Asks, Manager
<1>4. CASE TakeBeat
  BY <1>1, <1>4 DEF TakeBeat, Asks, Manager
<1>5. CASE TakeStartPoll
  BY <1>5 DEF TakeStartPoll, Asks
<1> QED  BY <1>2, <1>3, <1>4, <1>5 DEF Take

(* A poll that resets the timers goes on with the log it serves.           *)
LEMMA PollResetsKeepsHibernation ==
  ASSUME PollInv, PollResets
  PROVE  pm'.hibernating = pm.hibernating /\ consumer'.log \in {0, consumer.log}
<1>1. /\ cfg \in Configs /\ ManagerInv(pm)
      /\ consumer = ConsumerOf(consumer.at, consumer.request, consumer.log)
  BY DEF PollInv, PollResets
<1>2. PICK rs \in RoundStates :
        \/ ResetBlocks(pm, rs) /\ consumer' = Stuck /\ pm' = startPollTicker(pm)
        \/ /\ ~ResetBlocks(pm, rs) /\ pm' = Reset(pm, rs)
           /\ consumer' = [consumer EXCEPT !.at = "polling"]
  BY DEF PollResets, StuckIn
<1>3. CASE ResetBlocks(pm, rs) /\ consumer' = Stuck /\ pm' = startPollTicker(pm)
  BY <1>1, <1>3, CaughtFacts DEF Stuck, ResetBlocks
<1>4. CASE /\ ~ResetBlocks(pm, rs) /\ pm' = Reset(pm, rs)
           /\ consumer' = [consumer EXCEPT !.at = "polling"]
  <2>1. pm'.hibernating = pm.hibernating
    BY <1>1, <1>4, ResetFacts
  <2>2. consumer'.log = consumer.log
    BY <1>1, <1>4 DEF ConsumerOf
  <2> QED  BY <2>1, <2>2
<1> QED  BY <1>2, <1>3, <1>4

(* Logs of the aggregator change timers only.                              *)
LEMMA RoundLogKeepsHibernation ==
  ASSUME PollInv, NewRoundLog \/ AnswerUpdatedLog
  PROVE  pm'.hibernating = pm.hibernating /\ consumer'.log = 0
<1>1. cfg \in Configs /\ ManagerInv(pm)
  BY DEF PollInv, NewRoundLog, AnswerUpdatedLog, Free
<1>2. consumer = Free /\ (consumer' \in {Stuck, Free, [Free EXCEPT !.at = "polling"]})
  BY DEF NewRoundLog, AnswerUpdatedLog, StuckIn
<1>3. consumer'.log = 0
  BY <1>2 DEF Free, Stuck
<1>4. \/ pm' = pm
      \/ \E rs \in RoundStates : ResetBlocks(pm, rs) /\ pm' = startPollTicker(pm)
      \/ \E log \in RoundStates :
           ~ResetBlocks(pm, log) /\ pm' = ResetIdleTimer(pm, log)
      \/ \E log \in RoundStates, rs \in RoundStates :
           /\ ~ResetBlocks(pm, log) /\ ResetBlocks(ResetIdleTimer(pm, log), rs)
           /\ pm' = startPollTicker(ResetIdleTimer(pm, log))
      \/ \E log \in RoundStates, rs \in RoundStates :
           /\ ~ResetBlocks(pm, log) /\ ~ResetBlocks(ResetIdleTimer(pm, log), rs)
           /\ pm' = Reset(ResetIdleTimer(pm, log), rs)
      \/ \E rs \in RoundStates : ~ResetBlocks(pm, rs) /\ pm' = Reset(pm, rs)
  BY DEF NewRoundLog, AnswerUpdatedLog, StuckIn
<1>5. ASSUME NEW m, ManagerInv(m), NEW rs \in RoundStates, ~ResetBlocks(m, rs)
      PROVE  Reset(m, rs).hibernating = m.hibernating
  BY <1>1, <1>5, ResetFacts
<1>7. ASSUME NEW m, ManagerInv(m), NEW rs \in RoundStates, ResetBlocks(m, rs)
      PROVE  startPollTicker(m).hibernating = m.hibernating
  BY <1>1, <1>7, CaughtFacts DEF ResetBlocks
<1>6. ASSUME NEW log \in RoundStates, ~ResetBlocks(pm, log)
      PROVE  /\ ManagerInv(ResetIdleTimer(pm, log))
             /\ ResetIdleTimer(pm, log).hibernating = pm.hibernating
  BY <1>1, <1>6, ResetIdleTimerFacts
<1> QED  BY <1>1, <1>3, <1>4, <1>5, <1>6, <1>7

(* The end of a poll consumes the log it served, if any; that log lowered  *)
(* the flag, so it is not the one of the last raise.                       *)
LEMMA EndPollFlag ==
  ASSUME FlagInv, EndPoll, pm'.hibernating = pm.hibernating
  PROVE  FlagInv'
<1>1. /\ flips' = flips /\ tooOld' = tooOld /\ backlog' = backlog /\ staleWake' = staleWake
      /\ consumer'.log = 0
  BY DEF EndPoll, chainVars, Free
<1>2. CASE consumed' = consumed \cup ({consumer.log} \ {0}) /\ faults' = faults
  <2>1. raised => consumer.log # flips
    BY DEF FlagInv, raised, Raise
  <2>2. consumed' \subseteq 1..flips
    BY <1>2 DEF FlagInv
  <2>3. raised /\ flips \in consumed' => flips \in consumed
    BY <1>2, <2>1
  <2> QED  BY <1>1, <1>2, <2>2, <2>3 DEF FlagInv, AwakeUnderRaisedFlag, raised
<1>3. CASE Fault /\ UNCHANGED consumed
  BY <1>1, <1>3 DEF FlagInv, AwakeUnderRaisedFlag, Fault
<1> QED  BY <1>2, <1>3 DEF EndPoll

(* Every way a poll can end.                                               *)
LEMMA PollEndFlag ==
  ASSUME PollInv, FlagInv, PollCutShort \/ PollEnds
  PROVE  FlagInv'
<1>1. ManagerInv(pm) /\ Sound(pm)
  BY DEF PollInv, ManagerInv, PollCutShort, PollEnds
<1>2. CASE EndPoll /\ UNCHANGED pm
  BY <1>2, EndPollFlag
<1>3. CASE EndPoll /\ pm' = StartRetryTicker(pm) /\ consumer.request = "idle"
  <2>1. ~pm.hibernating /\ pm \in Manager
    BY <1>1, <1>3 DEF PollInv, Sound
  <2>2. pm'.hibernating = pm.hibernating
    BY <1>3, <2>1 DEF StartRetryTicker, Manager
  <2> QED  BY <1>3, <2>2, EndPollFlag
<1>4. CASE ~StopBlocks(pm) /\ pm' = StopRetryTicker(pm) /\ EndPoll
  <2>1. pm'.hibernating = pm.hibernating
    BY <1>1, <1>4, StopRetry
  <2> QED  BY <1>4, <2>1, EndPollFlag
<1>5. CASE consumer' = Stuck /\ UNCHANGED <<pm, flagVars>>
  BY <1>5, FlagNeutral DEF Stuck
<1> QED  BY <1>2, <1>3, <1>4, <1>5 DEF PollCutShort, PollEnds, AfterIdle, StuckIn

(* The logs of a set, in some order, are a sequence of its members.        *)
LEMMA SendOrderIsSeq ==
  ASSUME NEW n \in Nat, NEW logs \in SUBSET (1..n), NEW s \in SendOrders(logs)
  PROVE  s \in Seq(1..n)
<1>1. IsFiniteSet(logs)
  <2>1. IsFiniteSet(1..n)
    BY FS_Interval
  <2> QED  BY <2>1, FS_Subset
<1>2. Cardinality(logs) \in Nat
  BY <1>1, FS_CardinalityType
<1>3. s \in [1..Cardinality(logs) -> 1..n]
  BY DEF SendOrders
<1> QED  BY <1>2, <1>3, IsASeq

(* A full queue keeps some of what it had and was given.                   *)
LEMMA AddIsSeq ==
  ASSUME NEW S, NEW queue \in Seq(S), NEW logs \in Seq(S)
  PROVE  Add(queue, logs) \in Seq(S)
<1> DEFINE all == queue \o logs
           first == Len(all) - BacklogSize + 1
<1>1. all \in Seq(S) /\ Len(all) \in Nat
  BY ConcatProperties, LenProperties
<1>2. Add(queue, logs) = IF Len(all) <= BacklogSize THEN all ELSE SubSeq(all, first, Len(all))
  BY DEF Add
<1> HIDE DEF all
<1>3. ASSUME Len(all) > BacklogSize
      PROVE  SubSeq(all, first, Len(all)) \in Seq(S)
  <2>1. first \in 1..Len(all)+1 /\ Len(all) \in 0..Len(all)
    BY <1>1, <1>3 DEF BacklogSize
  <2> HIDE DEF first
  <2>2. \A k \in first..Len(all) : all[k] \in S
    <3> SUFFICES ASSUME NEW k \in first..Len(all)
                 PROVE  all[k] \in S
      OBVIOUS
    <3>1. k \in 1..Len(all)
      BY <1>1, <2>1
    <3> QED  BY <1>1, <3>1, ElementOfSeq
  <2> QED  BY <1>1, <2>1, <2>2, SubSeqProperties
<1> HIDE DEF first
<1>4. Len(all) <= BacklogSize \/ Len(all) > BacklogSize
  BY <1>1 DEF BacklogSize
<1> QED  BY <1>1, <1>2, <1>3, <1>4

(* A head brings logs of past flips.                                       *)
LEMMA HandleLogFlag ==
  ASSUME FlagInv, HandleLog
  PROVE  FlagInv'
<1>1. PICK logs \in SendOrders(Sent) : backlog' = Add(backlog, logs)
  BY DEF HandleLog
<1>2. Sent \in SUBSET (1..flips)
  BY DEF Sent, FlagInv
<1>3. logs \in Seq(1..flips)
  BY <1>2, SendOrderIsSeq DEF FlagInv
<1>4. backlog' \in Seq(1..flips)
  BY <1>1, <1>3, AddIsSeq DEF FlagInv
<1>5. UNCHANGED <<pm, consumer, flips, consumed, faults, staleWake>>
  BY DEF HandleLog, chainVars
<1>6. tooOld' \in Nat
  BY DEF HandleLog, FlagInv
<1> QED  BY <1>4, <1>5, <1>6 DEF FlagInv, AwakeUnderRaisedFlag, raised

(* The log of a new flip is not consumed yet.                              *)
LEMMA FlipFlagFlag ==
  ASSUME FlagInv, FlipFlag
  PROVE  FlagInv'
<1>1. /\ flips \in Nat /\ flips' = flips + 1
      /\ UNCHANGED <<pm, consumer, backlog, consumed, tooOld, faults, staleWake>>
  BY DEF FlipFlag, FlagInv
<1>2. (1..flips) \subseteq 1..flips' /\ flips' \notin 1..flips /\ flips' \in Nat
  BY <1>1
<1>3. backlog \in Seq(1..flips')
  BY <1>2, SeqMonotonic DEF FlagInv
<1> QED  BY <1>1, <1>2, <1>3 DEF FlagInv, AwakeUnderRaisedFlag

(* A FlagRaised log puts the node to sleep under a raised flag, unless the *)
(* call fails or the job stops; a FlagLowered log wakes it, which is noted *)
(* if the flag is raised.                                                  *)
LEMMA FlagLogFlag ==
  ASSUME PollInv, FlagInv, processBroadcast
  PROVE  FlagInv'
<1>1. /\ backlog # <<>> /\ backlog' = Tail(backlog) /\ flips' = flips /\ tooOld' = tooOld
      /\ consumer = Free /\ consumer.log = 0 /\ ManagerInv(pm)
  BY DEF processBroadcast, chainVars, Free, PollInv
<1>2. Head(backlog) \in 1..flips /\ backlog' \in Seq(1..flips)
  BY <1>1, HeadTailProperties DEF FlagInv
<1>3. ASSUME NEW j \in 1..flips, MarkConsumed(j)
      PROVE  consumed' \subseteq 1..flips /\ faults' \in Nat
  <2>1. CASE consumed' = consumed \cup {j} /\ UNCHANGED faults
    BY <2>1 DEF FlagInv
  <2>2. CASE Fault /\ UNCHANGED consumed
    BY <2>2 DEF Fault, FlagInv
  <2> QED  BY <1>3, <2>1, <2>2 DEF MarkConsumed
<1>4. PICK i \in 1..flips :
      \/ UNCHANGED <<pm, consumer, consumed, faults, staleWake>>
      \/ Fault /\ UNCHANGED <<pm, consumer, consumed, staleWake>>
      \/ FlagRaised(i)
      \/ ~Raise(i) /\ FlagLowered(i)
  BY <1>2 DEF processBroadcast
<1>5. CASE UNCHANGED <<pm, consumer, consumed, faults, staleWake>>
  BY <1>1, <1>2, <1>5 DEF FlagInv, AwakeUnderRaisedFlag, raised
<1>6. CASE Fault /\ UNCHANGED <<pm, consumer, consumed, staleWake>>
  BY <1>1, <1>2, <1>6 DEF FlagInv, AwakeUnderRaisedFlag, Fault
<1>7. CASE FlagRaised(i)
  <2>1. CASE /\ consumer' = Stuck /\ pm' = Quieten(pm)
             /\ UNCHANGED <<consumed, faults, staleWake>>
    <3>1. consumer'.log = 0 /\ pm'.hibernating
      BY <1>1, <2>1, QuietenFacts DEF Stuck, ManagerInv
    <3> QED  BY <1>1, <1>2, <2>1, <3>1 DEF FlagInv, AwakeUnderRaisedFlag, raised
  <2>2. CASE ~StopBlocks(pm) /\ pm' = Hibernate(pm) /\ MarkConsumed(i) /\ UNCHANGED consumer
    <3>1. pm'.hibernating
      BY <1>1, <2>2, HibernateFacts DEF ManagerInv
    <3>2. consumed' \subseteq 1..flips /\ faults' \in Nat
      BY <1>3, <2>2
    <3> QED  BY <1>1, <1>2, <2>2, <3>1, <3>2 DEF FlagInv, AwakeUnderRaisedFlag
  <2>3. CASE ~raised /\ MarkConsumed(i) /\ UNCHANGED <<pm, consumer, staleWake>>
    <3>1. consumed' \subseteq 1..flips /\ faults' \in Nat
      BY <1>3, <2>3
    <3> QED  BY <1>1, <1>2, <2>3, <3>1 DEF FlagInv, AwakeUnderRaisedFlag, raised
  <2>4. CASE Fault /\ consumed' = consumed \cup {i} /\ UNCHANGED <<pm, consumer, staleWake>>
    BY <1>1, <1>2, <2>4 DEF FlagInv, AwakeUnderRaisedFlag, Fault
  <2> QED  BY <1>7, <2>1, <2>2, <2>3, <2>4 DEF FlagRaised, StuckIn
<1>8. CASE ~Raise(i) /\ FlagLowered(i)
  <2>1. CASE ~pm.hibernating
    BY <1>5, <1>8, <2>1 DEF FlagLowered
  <2>2. CASE pm.hibernating
    <3>1. (raised => staleWake') /\ UNCHANGED <<consumed, faults>>
      BY <1>8, <2>2 DEF FlagLowered
    <3>2. consumer'.log = i
      <4>1. Asks("awaken", i)
        BY <1>8, <2>2 DEF FlagLowered
      <4> QED  BY <4>1 DEF Asks
    <3> QED  BY <1>1, <1>2, <1>8, <3>1, <3>2 DEF FlagInv, AwakeUnderRaisedFlag, raised
  <2> QED  BY <2>1, <2>2
<1> QED  BY <1>5, <1>6, <1>7, <1>8, <1>4

(* The job starts asleep if the flag is raised and can be read.            *)
LEMMA InitFlagInv ==
  ASSUME Init
  PROVE  FlagInv
<1>1. /\ flips \in {0, 1} /\ consumed \subseteq 1..flips /\ backlog = <<>> /\ faults \in {0, 1}
      /\ consumer.log = 0 /\ tooOld = 0
  BY DEF Init, Free
<1>2. raised /\ ~(faults > 0) => pm.hibernating
  <2> SUFFICES ASSUME raised, ~(faults > 0)
               PROVE  pm.hibernating
    OBVIOUS
  <2>1. pm = Hibernate(NewManager)
    BY <1>1 DEF Init, IsHibernating
  <2>2. NewManager \in Manager
    BY DEF Init, Configs, NewManager, Manager, Retry
  <2>3. Sound(NewManager) /\ ~StopBlocks(NewManager)
    BY <2>2 DEF Sound, StopBlocks, NewManager
  <2> QED  BY <2>1, <2>3, HibernateFacts
<1> QED  BY <1>1, <1>2 DEF FlagInv, AwakeUnderRaisedFlag

-----------------------------------------------------------------------------
(* The theorems                                                            *)

(* The invariant holds of every run of the job.                            *)
THEOREM PollInvariant == Spec => []PollInv
<1>1. Init => PollInv
  BY InitPollInv
<1>2. PollInv /\ [Next]_vars => PollInv'
  <2> SUFFICES ASSUME PollInv, [Next]_vars
               PROVE  PollInv'
    OBVIOUS
  <2>1. CASE StartPollExpires \/ FlipFlag \/ HandleLog \/ UNCHANGED vars
    BY <2>1, SameManager DEF StartPollExpires, FlipFlag, HandleLog, vars
  <2> QED
    BY <2>1, TickInv, TakeInv, PollCutShortInv, PollResetsInv, PollEndsInv, NewRoundLogInv,
       AnswerUpdatedLogInv, FlagLogInv DEF Next
<1> QED  BY <1>1, <1>2, PTL DEF Spec

(* While the node hibernates, no timer but the hibernation timer runs,     *)
(* whatever it was doing when the flag was raised, unless it is stuck in   *)
(* Hibernate: then the retry ticker runs too.                              *)
THEOREM PollHibernationIsQuiet == Spec => []HibernationIsQuiet
<1>1. PollInv => HibernationIsQuiet
  BY DEF PollInv, ManagerInv, Caught, Quiet, Still, HibernationIsQuiet
<1> QED  BY <1>1, PollInvariant, PTL

(* The job is stopped for ever only by a retry ticker with two ticks that  *)
(* were not served.                                                        *)
THEOREM PollStuckOnlyByUnservedTicks == Spec => []StuckOnlyByUnservedTicks
<1>1. PollInv => StuckOnlyByUnservedTicks
  <2> SUFFICES ASSUME PollInv, consumer = Stuck
               PROVE  pm.retry.running /\ pm.retry.full /\ pm.retry.blocked
    BY DEF StuckOnlyByUnservedTicks
  <2>1. StopBlocks(pm) /\ Sound(pm)
    BY DEF Stuck, PollInv, Caught
  <2> QED  BY <2>1 DEF StopBlocks, Sound
<1> QED  BY <1>1, PollInvariant, PTL

(* In every configuration that has a timer, the job is left without one    *)
(* only by a poll that returned early, an idle poll that did not fail, or  *)
(* being woken in an old round.                                            *)
THEOREM PollSilentOnlyAfterGap == Spec => []SilentOnlyAfterGap
<1>1. PollInv => SilentOnlyAfterGap
  BY DEF PollInv, Serving, Free, Silent, SilentOnlyAfterGap
<1> QED  BY <1>1, PollInvariant, PTL

(* The flag's invariant holds of every run of the job.                     *)
LEMMA FlagInvariant == Spec => []FlagInv
<1>1. Init => FlagInv
  BY InitFlagInv
<1>2. PollInv /\ FlagInv /\ [Next]_vars => FlagInv'
  <2> SUFFICES ASSUME PollInv, FlagInv, [Next]_vars
               PROVE  FlagInv'
    OBVIOUS
  <2>1. CASE StartPollExpires \/ UNCHANGED vars
    BY <2>1, FlagNeutral DEF StartPollExpires, vars
  <2>2. CASE Tick
    <3>1. pm'.hibernating = pm.hibernating
      BY <2>2, TickLasts
    <3> QED  BY <2>2, <3>1, FlagNeutral DEF Tick
  <2>3. CASE Take
    BY <2>3, TakeKeepsHibernation, FlagNeutral DEF Take
  <2>4. CASE PollResets
    BY <2>4, PollResetsKeepsHibernation, FlagNeutral DEF PollResets
  <2>5. CASE NewRoundLog \/ AnswerUpdatedLog
    BY <2>5, RoundLogKeepsHibernation, FlagNeutral DEF NewRoundLog, AnswerUpdatedLog
  <2> QED
    BY <2>1, <2>2, <2>3, <2>4, <2>5, PollEndFlag, HandleLogFlag, FlipFlagFlag, FlagLogFlag
    DEF Next
<1> QED  BY <1>1, <1>2, PollInvariant, PTL DEF Spec

(* While the flag is raised and its log was handled, the job sleeps, unless*)
(* a call failed or an older FlagLowered log was handled after the flag was*)
(* raised: for any number of flips and failing calls.                      *)
THEOREM PollAwakeUnderRaisedFlag == Spec => []AwakeUnderRaisedFlag
<1>1. FlagInv => AwakeUnderRaisedFlag
  BY DEF FlagInv
<1> QED  BY <1>1, FlagInvariant, PTL
=============================================================================
