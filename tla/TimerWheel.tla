----------------------------- MODULE TimerWheel -----------------------------
(***************************************************************************)
(* timer_helper (src/zbf/timer_helper.hpp): a thread counts ticks, and at   *)
(* each tick runs the tasks of every interval of its slot table that        *)
(* divides the count; a task that returns true is kept.  The count starts   *)
(* again after the last interval of the table.                              *)
(***************************************************************************)
EXTENDS Integers, Sequences, FiniteSetsExt

CONSTANTS
    TickUnits,        \* units of the instance
    TimerTasks,       \* tasks of the list followed
    TimerHorizon      \* bound: ticks followed

VARIABLES
    tickUnit, interval,  \* _tickUnit; the interval the tasks are added for
    timerPc,          \* "wait", "slots" (in the loop over the table), "tasks" (in onTicks()), "exit"
    tick, elapsed,    \* tick, and the ticks since start()
    slot, left,       \* index in the table; tasks onTicks() still has to run
    taskList,         \* _timerTasks[interval]
    ran,              \* history: for each task that is kept, the ticks of its last two runs, or 0
    dropped,          \* tasks that returned false
    timerStopped      \* _stopped

timerVars == <<tickUnit, interval, timerPc, tick, elapsed, slot, left, taskList, ran, dropped, timerStopped>>

TimeSlots ==
    [TenMilliSec |-> <<1, 2, 3, 5, 10, 20, 30, 50, 100>>,
     Second      |-> <<1, 2, 3, 5, 10, 15, 20, 30, 60>>,
     TenSecond   |-> <<1, 2, 3, 6, 9, 12, 18, 30, 60>>,
     Minute      |-> <<1, 2, 3, 5, 10, 15, 20, 30, 60>>]

Slots == TimeSlots[tickUnit]

Wheel == Slots[Len(Slots)]

\* addTimerTask(), before start(), for one interval of the table.
TimerInit ==
    /\ tickUnit \in TickUnits
    /\ interval \in {Slots[i] : i \in DOMAIN Slots}
    /\ taskList \in {s \in UNION {[1..n -> TimerTasks] : n \in 1..2} : Len(s) = 2 => s[1] # s[2]}
    /\ timerPc = "wait" /\ tick = 0 /\ elapsed = 0 /\ slot = 1 /\ left = 0
    /\ ran = [t \in TimerTasks |-> <<0, 0>>] /\ dropped = {} /\ timerStopped = FALSE

\* stop(): the thread leaves at its next look at _stopped.
TimerStop ==
    /\ ~timerStopped /\ timerStopped' = TRUE
    /\ UNCHANGED <<tickUnit, interval, timerPc, tick, elapsed, slot, left, taskList, ran, dropped>>

\* wait_for() ends: the thread was stopped, or a unit has passed.
TimerTick ==
    /\ timerPc = "wait"
    /\ IF timerStopped THEN timerPc' = "exit" /\ UNCHANGED <<tick, elapsed, slot, ran>>
       ELSE /\ elapsed < TimerHorizon
            /\ tick' = tick + 1 /\ elapsed' = elapsed + 1
            /\ slot' = 1 /\ timerPc' = "slots"
            /\ ran' = [t \in TimerTasks |-> IF t \in dropped THEN <<0, 0>> ELSE ran[t]]
    /\ UNCHANGED <<tickUnit, interval, left, taskList, dropped, timerStopped>>

Due_Equal(n) == tick = n

Due(n) == tick % n = 0

\* The loop over the table up to the list followed here: onTicks() is entered
\* with the tasks the list holds then; at the end the count may start again.
TimerSlots ==
    /\ timerPc = "slots"
    /\ LET hit == {i \in slot..Len(Slots) : Slots[i] = interval /\ Due(interval)} IN
       IF hit # {} /\ ~timerStopped
         THEN /\ timerPc' = "tasks" /\ left' = Len(taskList)
              /\ slot' = (CHOOSE i \in hit : TRUE) + 1 /\ UNCHANGED tick
       ELSE /\ timerPc' = "wait" /\ tick' = (IF tick = Wheel THEN 0 ELSE tick)
            /\ UNCHANGED <<slot, left>>
    /\ UNCHANGED <<tickUnit, interval, elapsed, taskList, ran, dropped, timerStopped>>

\* onTicks(): the front task runs and is put back at the end if it returns true.
TimerTask ==
    /\ timerPc = "tasks"
    /\ IF left = 0 \/ timerStopped THEN timerPc' = "slots" /\ UNCHANGED <<left, taskList, ran, dropped>>
       ELSE \E again \in BOOLEAN :
              LET t == Head(taskList) IN
              /\ ran' = [ran EXCEPT ![t] = <<@[2], elapsed>>]
              /\ taskList' = IF again THEN Append(Tail(taskList), t) ELSE Tail(taskList)
              /\ dropped' = IF again THEN dropped ELSE dropped \cup {t}
              /\ left' = left - 1 /\ UNCHANGED timerPc
    /\ UNCHANGED <<tickUnit, interval, tick, elapsed, slot, timerStopped>>

TimerNext == TimerStop \/ TimerTick \/ TimerSlots \/ TimerTask

-----------------------------------------------------------------------------
\* The last tick up to the n-th at which the interval is due: its multiples within
\* each turn of the table.
LastDue(n) ==
    LET due == {m \in 1..n : (IF m % Wheel = 0 THEN Wheel ELSE m % Wheel) % interval = 0}
    IN IF due = {} THEN 0 ELSE Max(due)

\* However tasks come and go at the ticks and stop() interleaves, a task that always
\* returned true has run, whenever the timer waits, at the last tick that was due;
\* every task, the last run of one that returned false included, runs once per due
\* tick and skips none, whatever the other tasks of the list return; one that
\* returned false never runs again.  Two runs are an interval apart, but over the
\* turn of the table, where an interval that does not divide the turn loses the rest:
\* that gap is longer by Wheel % interval.
TimerRegular ==
    /\ \A i, j \in DOMAIN taskList : i # j => taskList[i] # taskList[j]
    /\ \A i \in DOMAIN taskList :
         /\ taskList[i] \notin dropped
         /\ timerPc = "wait" /\ ~timerStopped => ran[taskList[i]][2] = LastDue(elapsed)
    /\ \A t \in TimerTasks : ran[t][2] # 0 =>
         /\ t \in dropped => ran[t][2] = elapsed
         /\ ran[t][2] = LastDue(ran[t][2]) /\ ran[t][1] = LastDue(ran[t][2] - 1)
         /\ ran[t][1] # 0 => ran[t][2] - ran[t][1] =
              interval + (IF (ran[t][2] - 1) \div Wheel > (ran[t][1] - 1) \div Wheel THEN Wheel % interval ELSE 0)

\* The comment on TickUnit gives the period of each interval, "1.5M" for 9 ticks of ten
\* seconds: two runs of a task are always an interval apart.
PeriodKept == \A t \in TimerTasks : ran[t][1] # 0 => ran[t][2] - ran[t][1] = interval
=============================================================================
