-------------------------- MODULE DcSctpTimerProofs --------------------------
(***************************************************************************)
(* A dcSCTP timer never triggers early and never sleeps through its time,  *)
(* for every set of durations, every backoff and every number of           *)
(* generations.                                                            *)
(***************************************************************************)
EXTENDS DcSctpTimer, WellFoundedInduction, TLAPS

Timer == [id : Nat, exists : BOOLEAN, duration : Int \ {0},
          generation : 0..(Generations - 1), is_running : BOOLEAN,
          expiration_count : 0..CountCap, left : Int,
          timeout_expiration : Time, posted_task_expiration : Time,
          timeout_id : TimeoutID, tasks : Seq(Int)]

\* OneTask of a timer t
OneTaskOf(t) ==
  t.tasks = IF t.posted_task_expiration = Infinity THEN <<>>
            ELSE <<t.posted_task_expiration>>

\* A timer whose timeout runs for as long as it is promised to, or that is
\* stopped and has none.
Ready(t) ==
  /\ t \in Timer
  /\ OneTaskOf(t)
  /\ IF t.is_running
     THEN /\ t.timeout_expiration = t.left
          /\ t.timeout_id = MakeTimeoutId(t)
          /\ t.posted_task_expiration \in Int
          /\ t.posted_task_expiration <= t.left
     ELSE t.timeout_expiration = Infinity

\* A destroyed timer does not run.
RunsIfExists == timer.is_running => timer.exists

IInv == TypeOK /\ OneTask /\ Awake /\ RunsIfExists

USE TimerAssumption DEF NoLimit

------------------------------------------------------------------------------
(* TaskQueueTimeout.                                                       *)

\* u is t but for its timeout and its task.
SameTimer(u, t) ==
  /\ u.id = t.id /\ u.exists = t.exists /\ u.duration = t.duration
  /\ u.generation = t.generation /\ u.is_running = t.is_running
  /\ u.expiration_count = t.expiration_count /\ u.left = t.left

\* The timeout of u has been started, for d and under this id.
Started(u, d, id) ==
  /\ u \in Timer
  /\ OneTaskOf(u)
  /\ u.timeout_expiration = d
  /\ u.timeout_id = id
  /\ u.posted_task_expiration \in Int
  /\ u.posted_task_expiration <= d

\* u is t with one task, posted for d.
Posted(u, t, d) ==
  /\ u \in Timer /\ OneTaskOf(u) /\ SameTimer(u, t)
  /\ u.posted_task_expiration = d
  /\ u.timeout_expiration = t.timeout_expiration
  /\ u.timeout_id = t.timeout_id

LEMMA OneTaskPosted ==
  ASSUME NEW d \in Int, NEW t \in Timer
  PROVE  Posted([t EXCEPT !.posted_task_expiration = d, !.tasks = <<d>>], t, d)
<1> DEFINE s == <<d>>
<1>1. s \in Seq(Int)
  OBVIOUS
<1>2. d # Infinity /\ d \in Time
  BY DEF Time
<1>3. s = <<d>>
  OBVIOUS
<1> HIDE DEF s
<1>4. LET u == [t EXCEPT !.posted_task_expiration = d, !.tasks = s]
      IN  /\ u \in Timer /\ SameTimer(u, t)
          /\ u.tasks = s
          /\ u.posted_task_expiration = d
          /\ u.timeout_expiration = t.timeout_expiration
          /\ u.timeout_id = t.timeout_id
  BY <1>1, <1>2, Zenon DEF Timer, SameTimer
<1> QED
  BY <1>2, <1>3, <1>4 DEF OneTaskOf, Posted

\* TaskQueueTimeout::Start leaves one task, no later than the timeout.
LEMMA TimeoutStartKeeps ==
  ASSUME NEW t \in Timer, OneTaskOf(t), NEW d \in Int, NEW id \in TimeoutID
  PROVE  /\ Started(TimeoutStart(t, d, id), d, id)
         /\ SameTimer(TimeoutStart(t, d, id), t)
<1> DEFINE u == [t EXCEPT !.timeout_expiration = d, !.timeout_id = id]
<1>1. /\ u \in Timer /\ SameTimer(u, t)
      /\ u.timeout_expiration = d /\ u.timeout_id = id
      /\ u.posted_task_expiration = t.posted_task_expiration
      /\ u.tasks = t.tasks
  BY Zenon DEF Timer, Time, SameTimer
<1>2. CASE t.posted_task_expiration = Infinity
  <2> DEFINE v == [u EXCEPT !.posted_task_expiration = d,
                            !.tasks = Append(u.tasks, d)]
  <2>1. TimeoutStart(t, d, id) = v
    BY <1>2, Zenon DEF TimeoutStart
  <2>2. u.tasks = <<>>
    BY <1>1, <1>2 DEF OneTaskOf
  <2> HIDE DEF u
  <2>3. Append(u.tasks, d) = <<d>>
    BY <2>2, SMTT(30)
  <2>4. Posted([u EXCEPT !.posted_task_expiration = d, !.tasks = <<d>>], u, d)
    BY <1>1, OneTaskPosted, Zenon
  <2>5. Posted(v, u, d)
    BY <2>3, <2>4, Zenon
  <2> HIDE DEF v
  <2>6. Started(v, d, id) /\ SameTimer(v, t)
    BY <1>1, <2>5 DEF Posted, Started, SameTimer
  <2> QED
    BY <2>1, <2>6
<1>3. CASE t.posted_task_expiration # Infinity /\ d >= t.posted_task_expiration
  <2>1. TimeoutStart(t, d, id) = u
    BY <1>3, Zenon DEF TimeoutStart
  <2>2. t.posted_task_expiration \in Int
    BY <1>3 DEF Timer, Time
  <2> HIDE DEF u
  <2> QED
    BY <1>1, <1>3, <2>1, <2>2 DEF Started, OneTaskOf
<1>4. CASE t.posted_task_expiration # Infinity /\ ~(d >= t.posted_task_expiration)
  <2> DEFINE v == [u EXCEPT !.posted_task_expiration = d, !.tasks = <<d>>]
  <2>1. TimeoutStart(t, d, id) = v
    BY <1>4, Zenon DEF TimeoutStart
  <2> HIDE DEF u
  <2>2. Posted(v, u, d)
    BY <1>1, OneTaskPosted, Zenon
  <2> HIDE DEF v
  <2>3. Started(v, d, id) /\ SameTimer(v, t)
    BY <1>1, <2>2 DEF Posted, Started, SameTimer
  <2> QED
    BY <2>1, <2>3
<1> QED
  BY <1>2, <1>3, <1>4

\* Timeout::Stop leaves the task in the queue.
LEMMA TimeoutStopKeeps ==
  ASSUME NEW t \in Timer, OneTaskOf(t)
  PROVE  /\ TimeoutStop(t) \in Timer
         /\ OneTaskOf(TimeoutStop(t))
         /\ SameTimer(TimeoutStop(t), t)
         /\ TimeoutStop(t).timeout_expiration = Infinity
  BY Zenon DEF TimeoutStop, Timer, Time, OneTaskOf, SameTimer

------------------------------------------------------------------------------
(* Timer.                                                                  *)

\* A set of natural numbers has a least element: how a loop that counts knows
\* where it stops.
LEMMA LeastNatural ==
  ASSUME NEW T, T \subseteq Nat, T # {}
  PROVE  \E x \in T : \A y \in T : x <= y
<1> DEFINE R == OpToRel(<, Nat)
<1>1. IsWellFoundedOn(R, Nat)
  BY NatLessThanWellFounded
<1>2. \A y, x \in Nat : y < x => <<y, x>> \in R
  BY Zenon DEF OpToRel
<1> HIDE DEF R
<1>3. PICK x \in T : \A y \in T : ~(<<y, x>> \in R)
  BY <1>1, WFMin
<1>4. ASSUME NEW y \in T PROVE x <= y
  <2>1. x \in Nat /\ y \in Nat
    OBVIOUS
  <2>2. ~(y < x)
    BY <1>2, <1>3, <2>1
  <2> QED
    BY <2>1, <2>2
<1> QED
  BY <1>4

\* Whatever the loop of GetBackoffDuration stops at is a duration.
LEMMA BackoffType ==
  ASSUME NEW d \in Int, NEW count \in Nat
  PROVE  GetBackoffDuration(d, count) \in Int
<1> DEFINE Passed(k) == k > 0 /\ d * 2^k > MaxBackoffDuration
           Ends(k) == k = count \/ d * 2^k >= kMaxTimerDuration \/ Passed(k)
           last == CHOOSE k \in 0..count :
                     Ends(k) /\ \A j \in 0..(k - 1) : ~Ends(j)
           S == {k \in 0..count : Ends(k)}
<1>1. last \in 0..count
  <2>1. S \subseteq Nat /\ count \in S
    OBVIOUS
  <2>2. PICK k \in S : \A j \in S : k <= j
    BY <2>1, LeastNatural, Zenon
  <2>3. \A j \in 0..(k - 1) : ~Ends(j)
    BY <2>2
  <2>4. k \in 0..count /\ Ends(k)
    BY <2>2
  <2> HIDE DEF Ends
  <2> QED
    BY <2>3, <2>4
<1>2. \/ GetBackoffDuration(d, count) = d
      \/ GetBackoffDuration(d, count) = MaxBackoffDuration
      \/ GetBackoffDuration(d, count) = Least(d * 2^last, kMaxTimerDuration)
  BY Zenon DEF GetBackoffDuration
<1> HIDE DEF last
<1>3. d * 2^last \in Int
  BY <1>1
<1> QED
  BY <1>2, <1>3 DEF Least

LEMMA IdType ==
  ASSUME NEW t \in Timer
  PROVE  MakeTimeoutId(t) \in TimeoutID
  BY DEF MakeTimeoutId, TimeoutID, Timer

\* A timer that has been armed is ready, whatever its timeout was before.
LEMMA ArmKeeps ==
  ASSUME NEW t \in Timer, OneTaskOf(t), NEW d \in Int
  PROVE  Ready(Arm(t, d)) /\ Arm(t, d).exists = t.exists
<1> DEFINE g == (t.generation + 1) % Generations
           u == [t EXCEPT !.is_running = TRUE, !.left = d, !.generation = g]
<1>1. t.generation \in 0..(Generations - 1)
  BY DEF Timer
<1>2. g \in 0..(Generations - 1)
  BY <1>1
<1>3. Arm(t, d) = TimeoutStart(u, d, MakeTimeoutId(u))
  BY Zenon DEF Arm
<1> HIDE DEF g
<1>4. /\ u \in Timer /\ OneTaskOf(u)
      /\ u.is_running = TRUE /\ u.left = d /\ u.exists = t.exists
  BY <1>2, Zenon DEF Timer, OneTaskOf
<1> DEFINE v == TimeoutStart(u, d, MakeTimeoutId(u))
<1>5. MakeTimeoutId(u) \in TimeoutID
  BY <1>4, IdType
<1> HIDE DEF u
<1>6. Started(v, d, MakeTimeoutId(u)) /\ SameTimer(v, u)
  BY <1>4, <1>5, TimeoutStartKeeps
<1> HIDE DEF v
<1>7. MakeTimeoutId(v) = MakeTimeoutId(u)
  BY <1>6 DEF SameTimer, MakeTimeoutId
<1>8. Ready(v) /\ v.exists = t.exists
  BY <1>4, <1>6, <1>7 DEF Ready, Started, SameTimer
<1> QED
  BY <1>3, <1>8 DEF v

LEMMA StartKeeps ==
  ASSUME NEW t \in Timer, OneTaskOf(t)
  PROVE  Ready(Start(t)) /\ Start(t).exists = t.exists
<1> DEFINE u == [t EXCEPT !.expiration_count = 0]
           v == IF t.is_running THEN TimeoutStop(u) ELSE u
<1>1. 0 \in 0..CountCap
  OBVIOUS
<1>2. u \in Timer /\ OneTaskOf(u) /\ u.exists = t.exists
  BY <1>1, Zenon DEF Timer, OneTaskOf
<1>3. Start(t) = Arm(v, t.duration)
  BY Zenon DEF Start
<1> HIDE DEF u
<1>4. v \in Timer /\ OneTaskOf(v) /\ v.exists = t.exists
  BY <1>2, TimeoutStopKeeps DEF SameTimer
<1>5. t.duration \in Int
  BY DEF Timer
<1> HIDE DEF v
<1> QED
  BY <1>3, <1>4, <1>5, ArmKeeps

\* u is t with this count, and not running.
Halted(u, t) ==
  /\ u \in Timer
  /\ u.is_running = FALSE
  /\ u.exists = t.exists /\ u.tasks = t.tasks
  /\ u.posted_task_expiration = t.posted_task_expiration
  /\ u.timeout_expiration = t.timeout_expiration

LEMMA HaltedType ==
  ASSUME NEW t \in Timer, NEW c \in 0..CountCap, NEW l \in Int
  PROVE  Halted([t EXCEPT !.expiration_count = c, !.is_running = FALSE,
                          !.left = l], t)
<1> DEFINE u == [t EXCEPT !.expiration_count = c, !.is_running = FALSE,
                          !.left = l]
<1>1. /\ u.is_running = FALSE
      /\ u.exists = t.exists /\ u.tasks = t.tasks
      /\ u.posted_task_expiration = t.posted_task_expiration
      /\ u.timeout_expiration = t.timeout_expiration
  BY DEF Timer
<1>2. u \in Timer
  <2> DEFINE v == [t EXCEPT !.expiration_count = c]
             w == [v EXCEPT !.is_running = FALSE]
  <2>1. v \in Timer
    BY Zenon DEF Timer
  <2> HIDE DEF v
  <2>2. w \in Timer
    BY <2>1, Zenon DEF Timer
  <2> HIDE DEF w
  <2>3. [w EXCEPT !.left = l] \in Timer
    BY <2>2, Zenon DEF Timer
  <2>4. u = [w EXCEPT !.left = l]
    BY Zenon DEF v, w
  <2> QED
    BY <2>3, <2>4
<1> QED
  BY <1>1, <1>2 DEF Halted

LEMMA StopKeeps ==
  ASSUME NEW t \in Timer, OneTaskOf(t),
         ~t.is_running => t.timeout_expiration = Infinity
  PROVE  Ready(Stop(t)) /\ Stop(t).exists = t.exists /\ ~Stop(t).is_running
<1>1. CASE t.is_running
  <2> DEFINE u == TimeoutStop(t)
             v == [u EXCEPT !.expiration_count = 0, !.is_running = FALSE,
                            !.left = 0]
  <2>1. Stop(t) = v
    BY <1>1, Zenon DEF Stop
  <2>2. /\ u \in Timer /\ OneTaskOf(u) /\ SameTimer(u, t)
        /\ u.timeout_expiration = Infinity
    BY TimeoutStopKeeps
  <2> HIDE DEF u
  <2> 0 \in 0..CountCap /\ 0 \in Int
    OBVIOUS
  <2>3. Halted(v, u)
    BY <2>2, HaltedType, Zenon
  <2> HIDE DEF v
  <2>4. Ready(v) /\ v.exists = t.exists /\ ~v.is_running
    BY <2>2, <2>3 DEF Halted, OneTaskOf, Ready, SameTimer
  <2> QED
    BY <2>1, <2>4
<1>2. CASE ~t.is_running
  BY <1>2 DEF Stop, Ready
<1> QED
  BY <1>1, <1>2

\* The first half of Trigger leaves the timer ready: armed again, or stopped.
LEMMA ExpireKeeps ==
  ASSUME NEW t \in Timer, OneTaskOf(t), t.timeout_expiration = Infinity
  PROVE  Ready(Expire(t)) /\ Expire(t).exists = t.exists
<1> DEFINE count == Least(t.expiration_count + 1, CountCap)
           u == [t EXCEPT !.expiration_count = count, !.is_running = FALSE,
                          !.left = 0]
           d == GetBackoffDuration(t.duration, count)
<1>1. t.expiration_count \in 0..CountCap /\ t.duration \in Int
  BY DEF Timer
<1>2. count \in 0..CountCap
  BY <1>1 DEF Least
<1>3. Expire(t) = Arm(u, d) \/ Expire(t) = u
  BY Zenon DEF Expire
<1> HIDE DEF count
<1>4. d \in Int
  <2>1. count \in Nat
    BY <1>2
  <2> QED
    BY <1>1, <2>1, BackoffType
<1> HIDE DEF d
<1>5. 0 \in Int
  OBVIOUS
<1>6. Halted(u, t)
  BY <1>5, <1>2, HaltedType, Zenon
<1> HIDE DEF u
<1>7. /\ u \in Timer /\ OneTaskOf(u)
      /\ u.exists = t.exists /\ u.is_running = FALSE
      /\ u.timeout_expiration = Infinity
  BY <1>6 DEF Halted, OneTaskOf
<1>8. Ready(Arm(u, d)) /\ Arm(u, d).exists = u.exists
  BY <1>4, <1>7, ArmKeeps
<1>9. Ready(u)
  BY <1>7 DEF Ready
<1> QED
  BY <1>3, <1>7, <1>8, <1>9

\* The callback may stop the timer, start it anew or leave it as it is.
LEMMA CallbacksKeep ==
  ASSUME NEW t, Ready(t), NEW u \in Callbacks(t)
  PROVE  Ready(u) /\ u.exists = t.exists
<1>1. /\ t \in Timer /\ OneTaskOf(t)
      /\ ~t.is_running => t.timeout_expiration = Infinity
  BY DEF Ready
<1> QED
  BY <1>1, StartKeeps, StopKeeps DEF Callbacks

\* The second half of Trigger restarts a running timer with its new duration.
LEMMA RenewKeeps ==
  ASSUME NEW t, Ready(t), NEW d \in Int
  PROVE  Ready(Renew(t, d)) /\ Renew(t, d).exists = t.exists
<1>1. CASE d = 0 \/ d = t.duration
  <2>1. Renew(t, d) = t
    BY <1>1, Zenon DEF Renew
  <2> QED
    BY <2>1
<1>2. CASE ~(d = 0 \/ d = t.duration)
  <2> DEFINE u == [t EXCEPT !.duration = d]
             b == GetBackoffDuration(d, t.expiration_count)
  <2>1. t \in Timer
    BY DEF Ready
  <2>2. u \in Timer
    BY <1>2, <2>1, Zenon DEF Timer
  <2>3. /\ u.exists = t.exists /\ u.is_running = t.is_running
        /\ u.tasks = t.tasks
        /\ u.posted_task_expiration = t.posted_task_expiration
        /\ u.timeout_expiration = t.timeout_expiration
        /\ u.left = t.left
    BY <2>1 DEF Timer
  <2>4. b \in Int
    <3>1. t.expiration_count \in Nat
      BY <2>1 DEF Timer
    <3> QED
      BY <3>1, BackoffType
  <2>5. CASE t.is_running
    <3>1. Renew(t, d) = Arm(TimeoutStop(u), b)
      BY <1>2, <2>5, Zenon DEF Renew
    <3> HIDE DEF u, b
    <3>2. OneTaskOf(u)
      BY <2>3 DEF Ready, OneTaskOf
    <3>3. /\ TimeoutStop(u) \in Timer /\ OneTaskOf(TimeoutStop(u))
          /\ TimeoutStop(u).exists = u.exists
      BY <2>2, <3>2, TimeoutStopKeeps DEF SameTimer
    <3> QED
      BY <2>3, <2>4, <3>1, <3>3, ArmKeeps
  <2>6. CASE ~t.is_running
    <3>1. Renew(t, d) = u
      BY <1>2, <2>6, Zenon DEF Renew
    <3> HIDE DEF u
    <3> QED
      BY <2>2, <2>3, <2>6, <3>1 DEF Ready, OneTaskOf
  <2> QED
    BY <2>5, <2>6
<1> QED
  BY <1>1, <1>2

------------------------------------------------------------------------------
(* The invariant.                                                          *)

\* A ready timer under an id that is not on its way satisfies the invariant.
LEMMA ReadyIInv ==
  ASSUME Ready(timer'), expired' \subseteq TimeoutID,
         timer'.is_running =>
           MakeTimeoutId(timer') \notin expired' /\ timer'.exists
  PROVE  IInv'
  BY DEF Ready, IInv, TypeOK, OneTask, Awake, RunsIfExists, Timer, OneTaskOf

LEMMA IInvSound ==
  ASSUME IInv
  PROVE  /\ timer \in Timer /\ OneTaskOf(timer) /\ expired \subseteq TimeoutID
         /\ ~timer.is_running => timer.timeout_expiration = Infinity
  BY DEF IInv, TypeOK, OneTask, Awake, Timer, OneTaskOf

\* A timer that was created and not started.
LEMMA NewTimerReady ==
  ASSUME NEW id \in Nat, NEW d \in Durations
  PROVE  Ready(NewTimer(id, d)) /\ ~NewTimer(id, d).is_running
<1>1. /\ d \in Int \ {0} /\ 0 \in 0..(Generations - 1) /\ 0 \in 0..CountCap
      /\ [id |-> 0, generation |-> 0] \in TimeoutID
      /\ Infinity \in Time /\ <<>> \in Seq(Int)
  BY DEF TimeoutID, Time
<1> QED
  BY <1>1 DEF Ready, OneTaskOf, NewTimer, Timer

LEMMA InitIInv == Init => IInv
<1> SUFFICES ASSUME NEW d \in Durations, timer = NewTimer(1, d), expired = {}
             PROVE  IInv
  BY DEF Init
<1>1. Ready(timer) /\ ~timer.is_running
  BY NewTimerReady
<1> QED
  BY <1>1 DEF Ready, IInv, TypeOK, OneTask, Awake, RunsIfExists, Timer, OneTaskOf

LEMMA OwnerStartsKeeps == IInv /\ OwnerStarts => IInv'
<1> SUFFICES ASSUME IInv, OwnerStarts PROVE IInv'
  OBVIOUS
<1>1. Ready(timer') /\ timer'.exists
  BY IInvSound, StartKeeps DEF OwnerStarts
<1> QED
  BY <1>1, IInvSound, ReadyIInv DEF OwnerStarts, NoReuse

LEMMA OwnerStopsKeeps == IInv /\ OwnerStops => IInv'
<1> SUFFICES ASSUME IInv, OwnerStops PROVE IInv'
  OBVIOUS
<1>1. Ready(timer') /\ ~timer'.is_running
  BY IInvSound, StopKeeps DEF OwnerStops
<1> QED
  BY <1>1, IInvSound, ReadyIInv DEF OwnerStops

LEMMA OwnerSetsDurationKeeps ==
  ASSUME IInv, NEW d \in Durations, OwnerSetsDuration(d)
  PROVE  IInv'
<1> DEFINE e == Least(d, kMaxTimerDuration)
<1>1. e \in Int \ {0}
  BY DEF Least
<1>2. timer' = [timer EXCEPT !.duration = e] /\ expired' = expired
  BY DEF OwnerSetsDuration, set_duration
<1> HIDE DEF e
<1>3. timer \in Timer
  BY IInvSound
<1>4. /\ timer' \in Timer
      /\ timer'.tasks = timer.tasks /\ timer'.left = timer.left
      /\ timer'.posted_task_expiration = timer.posted_task_expiration
      /\ timer'.timeout_expiration = timer.timeout_expiration
      /\ timer'.timeout_id = timer.timeout_id
      /\ timer'.id = timer.id /\ timer'.generation = timer.generation
      /\ timer'.is_running = timer.is_running /\ timer'.exists = timer.exists
  BY <1>1, <1>2, <1>3, Zenon DEF Timer
<1> QED
  BY <1>2, <1>4
     DEF IInv, TypeOK, Timer, OneTask, Awake, RunsIfExists, MakeTimeoutId

LEMMA OwnerDestroysKeeps == IInv /\ OwnerDestroys => IInv'
<1> SUFFICES ASSUME IInv, OwnerDestroys PROVE IInv'
  OBVIOUS
<1> DEFINE t == Stop(timer)
<1>1. timer' = [t EXCEPT !.exists = FALSE, !.tasks = <<>>,
                         !.posted_task_expiration = Infinity]
  BY DEF OwnerDestroys
<1>2. Ready(t) /\ ~t.is_running
  BY IInvSound, StopKeeps
<1> HIDE DEF t
<1>3. /\ timer' \in Timer /\ timer'.tasks = <<>>
      /\ timer'.posted_task_expiration = Infinity
      /\ timer'.timeout_expiration = Infinity
      /\ ~timer'.is_running
  <2>1. Infinity \in Time /\ <<>> \in Seq(Int) /\ FALSE \in BOOLEAN
    BY DEF Time
  <2> QED
    BY <1>1, <1>2, <2>1, Zenon DEF Timer, Ready
<1>4. expired' = expired
  BY DEF OwnerDestroys
<1> QED
  BY <1>3, <1>4, IInvSound, ReadyIInv DEF Ready, OneTaskOf

LEMMA CreateTimerKeeps ==
  ASSUME IInv, NEW d \in Durations, CreateTimer(d)
  PROVE  IInv'
<1>1. timer.id + 1 \in Nat
  BY IInvSound DEF Timer
<1>2. Ready(timer') /\ ~timer'.is_running
  BY <1>1, NewTimerReady DEF CreateTimer
<1> QED
  BY <1>2, IInvSound, ReadyIInv DEF CreateTimer

LEMMA SoonerOrder ==
  /\ \A a \in Time : Sooner(a) \in Time
  /\ \A a \in Int : Sooner(a) \in Int
  /\ Sooner(Infinity) = Infinity
  /\ \A a, b \in Int : a <= b => Sooner(a) <= Sooner(b)
  /\ \A a : Due(a) => Sooner(a) = a
  BY DEF Sooner, Due, Time

LEMMA TickKeeps == IInv /\ Tick => IInv'
<1> SUFFICES ASSUME IInv, Tick PROVE IInv'
  OBVIOUS
<1> DEFINE tasks == [i \in DOMAIN timer.tasks |-> Sooner(timer.tasks[i])]
           p == timer.posted_task_expiration
<1>1. timer \in Timer /\ OneTaskOf(timer)
  BY IInvSound
<1>2. /\ tasks \in Seq(Int)
      /\ tasks = IF Sooner(p) = Infinity THEN <<>> ELSE <<Sooner(p)>>
  <2>1. CASE p = Infinity
    <3>1. timer.tasks = <<>>
      BY <1>1, <2>1 DEF OneTaskOf
    <3>2. tasks = <<>>
      BY <3>1
    <3> QED
      BY <2>1, <3>2, SoonerOrder
  <2>2. CASE p # Infinity
    <3>1. timer.tasks = <<p>> /\ p \in Int
      BY <1>1, <2>2 DEF OneTaskOf, Timer, Time
    <3>2. Sooner(p) \in Int /\ Sooner(p) # Infinity
      BY <3>1, SoonerOrder
    <3>3. tasks = <<Sooner(p)>>
      BY <3>1
    <3> QED
      BY <3>2, <3>3
  <2> QED
    BY <2>1, <2>2
<1>3. /\ timer' = [timer EXCEPT
           !.left = Sooner(timer.left),
           !.timeout_expiration = Sooner(timer.timeout_expiration),
           !.posted_task_expiration = Sooner(p),
           !.tasks = tasks]
      /\ expired' = expired
  BY DEF Tick
<1>4. /\ Sooner(timer.left) \in Int
      /\ Sooner(timer.timeout_expiration) \in Time
      /\ Sooner(p) \in Time
  BY <1>1, SoonerOrder, Zenon DEF Timer
<1> HIDE DEF tasks
<1>5. /\ timer' \in Timer
      /\ timer'.left = Sooner(timer.left)
      /\ timer'.timeout_expiration = Sooner(timer.timeout_expiration)
      /\ timer'.posted_task_expiration = Sooner(p)
      /\ timer'.tasks = tasks
      /\ timer'.timeout_id = timer.timeout_id
      /\ timer'.id = timer.id /\ timer'.generation = timer.generation
      /\ timer'.is_running = timer.is_running /\ timer'.exists = timer.exists
  BY <1>1, <1>2, <1>3, <1>4, Zenon DEF Timer
<1>6. TypeOK'
  BY <1>3, <1>5 DEF IInv, TypeOK, Timer
<1>7. OneTask'
  BY <1>2, <1>5 DEF OneTask
<1>8. Awake'
  <2>1. MakeTimeoutId(timer') = MakeTimeoutId(timer)
    BY <1>5 DEF MakeTimeoutId
  <2>2. timer.left \in Int
    BY <1>1 DEF Timer
  <2> QED
    BY <1>3, <1>5, <2>1, <2>2, SoonerOrder DEF IInv, Awake
<1> QED
  BY <1>5, <1>6, <1>7, <1>8 DEF IInv, RunsIfExists

LEMMA RunTaskKeeps == IInv /\ RunTask => IInv'
<1> SUFFICES ASSUME IInv, RunTask PROVE IInv'
  OBVIOUS
<1> DEFINE e == timer.timeout_expiration
           u == [timer EXCEPT !.posted_task_expiration = Infinity,
                              !.tasks = Tail(timer.tasks),
                              !.timeout_expiration = Infinity]
<1>1. /\ timer \in Timer /\ OneTaskOf(timer) /\ expired \subseteq TimeoutID
      /\ ~timer.is_running => e = Infinity
  BY IInvSound
<1>2. Tail(timer.tasks) = <<>>
  <2> DEFINE p == timer.posted_task_expiration
  <2>1. timer.tasks = <<p>> /\ p \in Int
    BY <1>1 DEF RunTask, OneTaskOf, Timer, Time
  <2> QED
    BY <2>1
<1>3. /\ u \in Timer /\ OneTaskOf(u) /\ SameTimer(u, timer)
      /\ u.timeout_expiration = Infinity
      /\ u.timeout_id = timer.timeout_id
  <2>1. Infinity \in Time /\ <<>> \in Seq(Int)
    BY DEF Time
  <2> QED
    BY <1>1, <1>2, <2>1, Zenon DEF Timer, OneTaskOf, SameTimer
<1>4. /\ timer' = IF e = Infinity \/ Due(e) THEN u
                  ELSE TimeoutStart(u, e, timer.timeout_id)
      /\ expired' = IF Due(e) THEN expired \cup {timer.timeout_id} ELSE expired
  BY DEF RunTask, TimeoutTask
<1> HIDE DEF u
<1>5. CASE Due(e)
  <2>1. timer' = u /\ expired' = expired \cup {timer.timeout_id}
    BY <1>4, <1>5
  <2>2. timer.is_running /\ timer.left = e /\ timer.timeout_id = MakeTimeoutId(timer)
    BY <1>1, <1>5 DEF IInv, Awake, Due
  <2>3. MakeTimeoutId(timer') = MakeTimeoutId(timer)
    BY <1>3, <2>1 DEF SameTimer, MakeTimeoutId
  <2>4. timer.timeout_id \in TimeoutID
    BY <1>1 DEF Timer
  <2> QED
    BY <1>1, <1>3, <1>5, <2>1, <2>2, <2>3, <2>4
       DEF IInv, TypeOK, Timer, OneTask, OneTaskOf, Awake, RunsIfExists, SameTimer
<1>6. CASE e = Infinity
  <2>1. timer' = u /\ expired' = expired
    BY <1>4, <1>6 DEF Due
  <2>2. MakeTimeoutId(timer') = MakeTimeoutId(timer)
    BY <1>3, <2>1 DEF SameTimer, MakeTimeoutId
  <2>3. timer.is_running => Due(timer.left) /\ MakeTimeoutId(timer) \in expired
    <3>1. timer.left # Infinity
      BY <1>1 DEF Timer
    <3> QED
      BY <1>6, <3>1 DEF IInv, Awake
  <2> QED
    BY <1>1, <1>3, <2>1, <2>2, <2>3
       DEF IInv, TypeOK, Timer, OneTask, OneTaskOf, Awake, RunsIfExists, SameTimer
<1>7. CASE e # Infinity /\ ~Due(e)
  <2> DEFINE v == TimeoutStart(u, e, timer.timeout_id)
  <2>1. timer' = v /\ expired' = expired
    BY <1>4, <1>7
  <2>2. e \in Int /\ timer.timeout_id \in TimeoutID
    BY <1>1, <1>7 DEF Timer, Time
  <2>3. Started(v, e, timer.timeout_id) /\ SameTimer(v, u)
    BY <1>3, <2>2, TimeoutStartKeeps
  <2> HIDE DEF v
  <2>4. /\ timer.is_running /\ timer.left = e
        /\ timer.timeout_id = MakeTimeoutId(timer)
        /\ timer.timeout_id \notin expired
    BY <1>1, <1>7 DEF IInv, Awake
  <2>5. SameTimer(v, timer)
    BY <1>3, <2>3 DEF SameTimer
  <2>6. MakeTimeoutId(v) = MakeTimeoutId(timer)
    BY <2>5 DEF SameTimer, MakeTimeoutId
  <2>7. Ready(v) /\ MakeTimeoutId(v) \notin expired
    BY <2>3, <2>4, <2>5, <2>6 DEF Ready, Started, SameTimer
  <2> QED
    BY <1>1, <2>1, <2>5, <2>7, ReadyIInv DEF IInv, RunsIfExists, SameTimer
<1> QED
  BY <1>5, <1>6, <1>7

LEMMA HandleTimeoutKeeps ==
  ASSUME IInv, NEW id \in expired, HandleTimeout(id)
  PROVE  IInv'
<1>1. /\ timer \in Timer /\ OneTaskOf(timer) /\ expired \subseteq TimeoutID
  BY IInvSound
<1>2. expired' = expired \ {id}
  BY DEF HandleTimeout
<1>3. CASE Accepts(timer, id)
  <2>1. timer.timeout_expiration = Infinity
    BY <1>3 DEF Accepts, IInv, Awake
  <2>2. PICK t \in Callbacks(Expire(timer)), d \in Durations \cup {0} :
          timer' = Renew(t, d)
    BY <1>3 DEF HandleTimeout
  <2>3. Ready(Expire(timer)) /\ Expire(timer).exists
    BY <1>1, <1>3, <2>1, ExpireKeeps DEF Accepts
  <2>4. Ready(t) /\ t.exists
    BY <2>3, CallbacksKeep
  <2>5. d \in Int
    OBVIOUS
  <2>6. Ready(timer') /\ timer'.exists
    BY <2>2, <2>4, <2>5, RenewKeeps
  <2>7. MakeTimeoutId(timer') \notin expired'
    BY <1>3 DEF HandleTimeout, NoReuse
  <2> QED
    BY <1>1, <1>2, <2>6, <2>7, ReadyIInv
<1>4. CASE ~Accepts(timer, id)
  <2>1. timer' = timer
    BY <1>4 DEF HandleTimeout
  <2> QED
    BY <1>1, <1>2, <1>4, <2>1
       DEF IInv, TypeOK, OneTask, Awake, RunsIfExists, Accepts
<1> QED
  BY <1>3, <1>4

LEMMA NextKeeps == IInv /\ [Next]_vars => IInv'
<1> SUFFICES ASSUME IInv, [Next]_vars PROVE IInv'
  OBVIOUS
<1>1. CASE UNCHANGED vars
  BY <1>1 DEF IInv, TypeOK, OneTask, Awake, RunsIfExists, vars
<1>2. CASE Next
  BY <1>2, OwnerStartsKeeps, OwnerStopsKeeps, OwnerSetsDurationKeeps,
     OwnerDestroysKeeps, CreateTimerKeeps, TickKeeps, RunTaskKeeps,
     HandleTimeoutKeeps DEF Next
<1> QED
  BY <1>1, <1>2

LEMMA AlwaysIInv == Spec => []IInv
  BY InitIInv, NextKeeps, PTL DEF Spec

\* The timer's members keep their types: expiration_count_ stays at its cap and
\* the generation within its 32 bits, also after it has wrapped around.
THEOREM TimerTypeCorrect == Spec => []TypeOK
<1>1. IInv => TypeOK
  BY DEF IInv
<1> QED
  BY <1>1, AlwaysIInv, PTL

\* For every set of durations, every backoff and every restart limit, one live
\* task at most is posted for a timeout and posted_task_expiration_ says when
\* it comes: the DCHECK in the lambda that TaskQueueTimeout::Start posts holds.
THEOREM OneTaskAlways == Spec => []OneTask
<1>1. IInv => OneTask
  BY DEF IInv
<1> QED
  BY <1>1, AlwaysIInv, PTL

\* A running timer always has a task that comes in time, or its expired id is
\* on its way: reusing a posted task, as TaskQueueTimeout::Start does, never
\* makes a timer late or leaves it asleep.
THEOREM AwakeAlways == Spec => []Awake
<1>1. IInv => Awake
  BY DEF IInv
<1> QED
  BY <1>1, AlwaysIInv, PTL

\* Timer::Trigger never acts on an id before the timer's last start has run
\* for its time, in whatever order expirations, stops, restarts, destructions
\* and calls of HandleTimeout come.
THEOREM NeverEarlyAlways == Spec => []NeverEarly
<1>1. IInv => NeverEarly
  BY DEF IInv, Awake, NeverEarly, Accepts
<1> QED
  BY <1>1, AlwaysIInv, PTL
=============================================================================
