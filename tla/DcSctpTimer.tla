----------------------------- MODULE DcSctpTimer -----------------------------
(***************************************************************************)
(* A dcSCTP timer from top to bottom: Timer and TimerManager               *)
(* (net/dcsctp/timer/timer.cc) on top of TaskQueueTimeout                  *)
(* (net/dcsctp/timer/task_queue_timeout.cc), which keeps one delayed task  *)
(* in the task queue and reuses it when the timeout is stopped and started *)
(* again.                                                                  *)
(*                                                                         *)
(* Points in time are kept relative to Now(): the clock's tick takes one   *)
(* from each of them, down to 0: a time that has come.  The                *)
(* expired timeout id reaches HandleTimeout in a step of its own, so that  *)
(* the owner may stop, restart or destroy the timer in between; an         *)
(* embedder that calls HandleTimeout at once is the case where nothing     *)
(* happens in between.                                                     *)
(***************************************************************************)
EXTENDS Integers, Sequences

CONSTANTS
  Durations,           \* durations the owner asks for, in ticks
  kMaxTimerDuration,   \* Timer::kMaxTimerDuration
  MaxBackoffDuration,  \* TimerOptions::max_backoff_duration
  Exponential,         \* is TimerOptions::backoff_algorithm kExponential?
  MaxRestarts,         \* TimerOptions::max_restarts, or NoLimit
  Generations,         \* the number of timer generations, 2^32 in the code
  MaxTimers,           \* timers the owner creates, one after the other
  CountCap,            \* expiration_count_ is counted up to this number
  Infinity             \* Timestamp::PlusInfinity()

NoLimit == -1     \* std::nullopt

ASSUME TimerAssumption ==
  /\ Durations \subseteq Nat \ {0}
  /\ Durations # {}
  /\ kMaxTimerDuration \in Nat \ {0}
  /\ MaxBackoffDuration \in Nat \ {0}
  /\ Exponential \in BOOLEAN
  /\ MaxRestarts \in Nat \cup {NoLimit}
  /\ Generations \in Nat \ {0, 1}
  /\ MaxTimers \in Nat
  /\ CountCap \in Nat /\ CountCap > MaxRestarts
  /\ Infinity \notin Int

VARIABLES
  timer,    \* the members of the Timer and of its TaskQueueTimeout, and `left`,
            \* the time the owner's last Start() or the last backoff leaves
  expired   \* timeout ids given to on_expired_, not yet to HandleTimeout

vars == <<timer, expired>>

TimeoutID == [id : Nat, generation : 0..(Generations - 1)]

MakeTimeoutId(t) == [id |-> t.id, generation |-> t.generation]

Least(a, b) == IF a <= b THEN a ELSE b

------------------------------------------------------------------------------
(* The durations.                                                          *)

\* Mutant: the backoff's maximum is looked at before doubling.
GetBackoffDuration_CapFirst(d, count) ==
  LET Passed(k) == k > 0 /\ d * 2^(k - 1) > MaxBackoffDuration
      Ends(k) == k = count \/ d * 2^k >= kMaxTimerDuration \/ Passed(k)
      last == CHOOSE k \in 0..count : Ends(k) /\ \A j \in 0..(k - 1) : ~Ends(j)
  IN  IF ~Exponential THEN d
      ELSE IF Passed(last) THEN MaxBackoffDuration
      ELSE Least(d * 2^last, kMaxTimerDuration)

\* GetBackoffDuration: the loop doubles until it has counted down, has reached
\* the largest duration of a timer, or has passed the backoff's maximum.
GetBackoffDuration(d, count) ==
  LET Passed(k) == k > 0 /\ d * 2^k > MaxBackoffDuration
      Ends(k) == k = count \/ d * 2^k >= kMaxTimerDuration \/ Passed(k)
      last == CHOOSE k \in 0..count : Ends(k) /\ \A j \in 0..(k - 1) : ~Ends(j)
  IN  IF ~Exponential THEN d
      ELSE IF Passed(last) THEN MaxBackoffDuration
      ELSE Least(d * 2^last, kMaxTimerDuration)

------------------------------------------------------------------------------
(* TaskQueueTimeout.                                                       *)

Due(time) == time \in Int /\ time <= 0

\* Mutant: a task that is already posted is always kept.
TimeoutStart_KeepsTask(t, d, id) ==
  LET u == [t EXCEPT !.timeout_expiration = d, !.timeout_id = id]
  IN  IF t.posted_task_expiration = Infinity
      THEN [u EXCEPT !.posted_task_expiration = d, !.tasks = Append(@, d)]
      ELSE u

\* A running task is kept if it comes no later than the new expiration; if it
\* comes later its safety flag is replaced, which is as good as taking it out
\* of the queue.
TimeoutStart(t, d, id) ==
  LET u == [t EXCEPT !.timeout_expiration = d, !.timeout_id = id]
  IN  IF t.posted_task_expiration = Infinity
      THEN [u EXCEPT !.posted_task_expiration = d, !.tasks = Append(@, d)]
      ELSE IF d >= t.posted_task_expiration
      THEN u
      ELSE [u EXCEPT !.posted_task_expiration = d, !.tasks = <<d>>]

TimeoutStop(t) == [t EXCEPT !.timeout_expiration = Infinity]

\* Mutant: the task that runs is still taken to be posted.
TimeoutTask_StillPosted(t) ==
  LET u == [t EXCEPT !.tasks = Tail(@), !.timeout_expiration = Infinity]
  IN  IF t.timeout_expiration = Infinity \/ Due(t.timeout_expiration)
      THEN u
      ELSE TimeoutStart(u, t.timeout_expiration, t.timeout_id)

\* Mutant: a timeout that is not due yet when the task runs is forgotten.
TimeoutTask_NoRetry(t) ==
  [t EXCEPT !.posted_task_expiration = Infinity, !.tasks = Tail(@),
            !.timeout_expiration = Infinity]

\* The posted task: the timeout was stopped, or is not due yet and a new task
\* is posted for the rest, or has expired.
TimeoutTask(t) ==
  LET u == [t EXCEPT !.posted_task_expiration = Infinity, !.tasks = Tail(@),
                     !.timeout_expiration = Infinity]
  IN  IF t.timeout_expiration = Infinity \/ Due(t.timeout_expiration)
      THEN u
      ELSE TimeoutStart(u, t.timeout_expiration, t.timeout_id)

------------------------------------------------------------------------------
(* Timer.                                                                  *)

\* The part that Start() and Trigger() share: a new generation, and a timeout
\* under its id.
Arm(t, d) ==
  LET u == [t EXCEPT !.is_running = TRUE, !.left = d,
                     !.generation = (@ + 1) % Generations]
  IN  TimeoutStart(u, d, MakeTimeoutId(u))

\* Timer::Start; Timeout::Restart of a running timer is Stop and Start.
Start(t) ==
  LET u == [t EXCEPT !.expiration_count = 0]
  IN  Arm(IF t.is_running THEN TimeoutStop(u) ELSE u, t.duration)

Stop(t) ==
  IF t.is_running
  THEN [TimeoutStop(t) EXCEPT !.expiration_count = 0, !.is_running = FALSE,
                              !.left = 0]
  ELSE t

set_duration(t, d) == [t EXCEPT !.duration = Least(d, kMaxTimerDuration)]

\* What the owner's on_expired_ callback may do to the timer it was called for.
Callbacks(t) == {t, Start(t), Stop(t)}

\* The first half of Timer::Trigger, before on_expired_ is called.
Expire(t) ==
  LET count == Least(t.expiration_count + 1, CountCap)
      u == [t EXCEPT !.expiration_count = count, !.is_running = FALSE,
                     !.left = 0]
  IN  IF MaxRestarts = NoLimit \/ count <= MaxRestarts
      THEN Arm(u, GetBackoffDuration(t.duration, count))
      ELSE u

\* Mutant: a duration of zero is taken for a new duration.
Renew_Zero(t, d) ==
  LET u == [t EXCEPT !.duration = d]
  IN  IF d = t.duration THEN t
      ELSE IF t.is_running
      THEN Arm(TimeoutStop(u), GetBackoffDuration(d, t.expiration_count))
      ELSE u

\* The second half: on_expired_ has returned the duration d, 0 for no change.
Renew(t, d) ==
  LET u == [t EXCEPT !.duration = d]
  IN  IF d = 0 \/ d = t.duration THEN t
      ELSE IF t.is_running
      THEN Arm(TimeoutStop(u), GetBackoffDuration(d, t.expiration_count))
      ELSE u

\* Mutant: Trigger() does not compare generations.
Accepts_AnyGeneration(t, id) == t.exists /\ t.is_running /\ id.id = t.id

\* The condition of Timer::Trigger, and of the lookup in TimerManager.
Accepts(t, id) == t.exists /\ t.is_running /\ id = MakeTimeoutId(t)

------------------------------------------------------------------------------
(* The actions.                                                            *)

NewTimer(id, d) ==
  [id |-> id, exists |-> TRUE, duration |-> d, generation |-> 0,
   is_running |-> FALSE, expiration_count |-> 0, left |-> 0,
   timeout_expiration |-> Infinity, posted_task_expiration |-> Infinity,
   timeout_id |-> [id |-> 0, generation |-> 0], tasks |-> <<>>]

\* CreateTimer() has made the first timer; timer ids start at 1.
Init ==
  /\ \E d \in Durations : timer = NewTimer(1, d)
  /\ expired = {}

\* Bounds the model: a generation is not used again while an id of its last
\* use is still on its way to HandleTimeout.  The code accepts this much
\* ("it's hard to restart it 4 billion times within its duration").
NoReuse == MakeTimeoutId(timer') \notin expired'

OwnerStarts ==
  /\ timer.exists
  /\ timer' = Start(timer)
  /\ UNCHANGED expired
  /\ NoReuse

OwnerStops ==
  /\ timer.exists
  /\ timer' = Stop(timer)
  /\ UNCHANGED expired

OwnerSetsDuration(d) ==
  /\ timer.exists
  /\ timer' = set_duration(timer, d)
  /\ UNCHANGED expired

\* ~Timer: stops, unregisters, and the timeout's safety flag is cleared.
OwnerDestroys ==
  /\ timer.exists
  /\ timer' = [Stop(timer) EXCEPT !.exists = FALSE, !.tasks = <<>>,
                                  !.posted_task_expiration = Infinity]
  /\ UNCHANGED expired

CreateTimer(d) ==
  /\ ~timer.exists
  /\ timer.id < MaxTimers
  /\ timer' = NewTimer(timer.id + 1, d)
  /\ UNCHANGED expired

Sooner(time) == IF time = Infinity \/ Due(time) THEN time ELSE time - 1

\* Time passes.
Tick ==
  /\ timer' = [timer EXCEPT
       !.left = Sooner(@), !.timeout_expiration = Sooner(@),
       !.posted_task_expiration = Sooner(@),
       !.tasks = [i \in DOMAIN @ |-> Sooner(@[i])]]
  /\ timer' # timer
  /\ UNCHANGED expired

\* The task queue runs a task, on time or later.
RunTask ==
  /\ timer.tasks # <<>>
  /\ Due(Head(timer.tasks))
  /\ timer' = TimeoutTask(timer)
  /\ expired' = IF Due(timer.timeout_expiration)
                THEN expired \cup {timer.timeout_id} ELSE expired

\* HandleTimeout() gets the id of an expired timeout.
HandleTimeout(id) ==
  /\ expired' = expired \ {id}
  /\ IF Accepts(timer, id)
     THEN /\ \E t \in Callbacks(Expire(timer)), d \in Durations \cup {0} :
               timer' = Renew(t, d)
          /\ NoReuse
     ELSE UNCHANGED timer

Next ==
  \/ OwnerStarts
  \/ OwnerStops
  \/ \E d \in Durations : OwnerSetsDuration(d)
  \/ OwnerDestroys
  \/ \E d \in Durations : CreateTimer(d)
  \/ Tick
  \/ RunTask
  \/ \E id \in expired : HandleTimeout(id)

Spec == Init /\ [][Next]_vars

\* The clock goes on, the task queue runs what is due and the embedder hands
\* over the ids it is given; nothing is assumed of the timer's owner.
FairSpec ==
  /\ Spec
  /\ WF_vars(Tick)
  /\ WF_vars(RunTask)
  /\ WF_vars(\E id \in expired : HandleTimeout(id))
------------------------------------------------------------------------------
(* Properties.                                                             *)

Time == Int \cup {Infinity}

\* The members have their types.  expiration_count_ stays within its cap and a
\* timer's generation within its 32 bits.
TypeOK ==
  /\ timer \in [id : Nat, exists : BOOLEAN, duration : Int \ {0},
                generation : 0..(Generations - 1), is_running : BOOLEAN,
                expiration_count : 0..CountCap, left : Int,
                timeout_expiration : Time, posted_task_expiration : Time,
                timeout_id : TimeoutID,
                tasks : Seq(Int)]
  /\ expired \subseteq TimeoutID

\* posted_task_expiration_ is "the time when the posted delayed task is set to
\* expire [...] the infinite future if there is no such task running"
\* (task_queue_timeout.h): one live task at most is in the queue, however the
\* timeout is stopped, restarted sooner or later, or expires, and the posted
\* lambda's DCHECK never fails.
OneTask ==
  timer.tasks = IF timer.posted_task_expiration = Infinity THEN <<>>
                ELSE <<timer.posted_task_expiration>>

\* A running timer never sleeps through its expiration: a task is posted for
\* then or earlier, unless its timeout has expired and the id is on its way to
\* HandleTimeout.  The timeout runs for as long as the owner was promised.  A
\* timer that is not running has no timeout: Timeout::Start and Stop are called
\* in pairs (timeout.h), and Start's DCHECK never fails.
Awake ==
  /\ timer.is_running =>
       \/ /\ timer.timeout_expiration = timer.left
          /\ timer.timeout_id = MakeTimeoutId(timer)
          /\ timer.posted_task_expiration \in Int
          /\ timer.posted_task_expiration <= timer.left
          /\ timer.timeout_id \notin expired
       \/ /\ timer.timeout_expiration = Infinity
          /\ Due(timer.left)
          /\ MakeTimeoutId(timer) \in expired
  /\ ~timer.is_running => timer.timeout_expiration = Infinity

\* Trigger() never acts early: an expired timeout id that it would accept
\* belongs to the last (re)start of the timer, and that one's time has come,
\* whatever ids of earlier starts or of destroyed timers arrive late.
NeverEarly == \A id \in expired : Accepts(timer, id) => Due(timer.left)

\* However often a timer expires, and whatever durations its owner sets or its
\* callback returns in between, it waits for no longer than max_backoff_duration
\* or a duration that was asked for: the next retry comes.
BackoffInBounds ==
  timer.is_running => \/ timer.left <= MaxBackoffDuration
                      \/ \E d \in Durations : timer.left <= d

\* A timer that is left running triggers: it is stopped again and again, or its
\* generation changes again and again, by Trigger() or by its owner.
Triggers ==
  []<>~timer.is_running \/ []<><<timer'.generation # timer.generation>>_vars
=============================================================================
