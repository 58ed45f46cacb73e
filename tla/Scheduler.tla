----------------------------- MODULE Scheduler -----------------------------
(***************************************************************************)
(* The scheduler (scheduler/mod.rs) and cron (scheduler/cron.rs): the task *)
(* of one job, its handle, and two clocks: a sleep ends by the monotonic   *)
(* clock and never early, while cron looks for its next minute on the      *)
(* local wall clock, which may be set (by NTP, by hand, or by daylight     *)
(* saving) at any moment, and rounds the time to sleep down to whole       *)
(* milliseconds.  A cron expression has two of its five fields here,       *)
(* minute and hour: matches() treats the five alike.                       *)
(***************************************************************************)
EXTENDS Integers, Sequences, FiniteSets

CONSTANTS
    MinuteTicks,   \* ticks of a minute
    MilliTicks,    \* ticks of a millisecond
    PauseTicks,    \* ticks of the second cron sleeps after a task
    Period,        \* ticks between two runs of every(), or before the one of after() and at()
    Minutes, Hours,\* an hour has the minutes 0..Minutes-1, a day the hours 0..Hours-1
    CronExprs,     \* cron expressions: [minute, hour], two fields
    Horizon,       \* how many minutes ahead next_after() searches
    Jumps,         \* by how much the wall clock may be set forward, or back
    MaxClock,      \* bound on both clocks
    MaxBacks       \* bound on how often the wall clock is set back

ASSUME SchedulerAssumption ==
    /\ {MinuteTicks, MilliTicks, PauseTicks, Period, Minutes, Hours, Horizon} \subseteq Nat \ {0}
    /\ MilliTicks <= PauseTicks /\ PauseTicks < MinuteTicks /\ MaxClock \in Nat
    /\ Jumps \subseteq Int /\ MaxBacks \in Nat
    /\ \A e \in CronExprs : \A f \in {e.minute, e.hour} :
         /\ f.form \in {"any", "step", "list"}
         /\ f.form = "step" => f.n \in Nat
         /\ f.form = "list" => \A p \in f.parts : {p.lo, p.hi} \subseteq Nat

Bad == {-1}    \* a parse error

\* parse_part(): a value, or a range of them, within the bounds of the field.
parse_part(part, max) ==
    IF part.lo > part.hi \/ part.hi > max THEN Bad ELSE part.lo .. part.hi

\* parse_field(): "*", "*/n", or a list of parts.  (The least value is 0.)
parse_field(field, max) ==
    CASE field.form = "any" -> 0..max
      [] field.form = "step" -> IF field.n = 0 THEN Bad ELSE {v \in 0..max : v % field.n = 0}
      [] field.form = "list" ->
            LET parsed == {parse_part(p, max) : p \in field.parts} IN
            IF Bad \in parsed THEN Bad ELSE UNION parsed

VARIABLES
    clock,         \* the monotonic clock, which tokio sleeps by
    offset,        \* what the wall clock is ahead of it
    expr,          \* the cron expression, if that is the job's kind
    task,          \* [kind, pc]
    wake,          \* when its sleep or its next tick ends
    slot,          \* the minute cron is sleeping for, -1 if there is none
    handle,        \* "held", or "cancelled": cancel() was called, or the handle dropped
    backs,         \* history: how often the wall clock was set back,
    asOf,          \*   and how often when cron last looked at it
    ran            \* history: the minutes cron ran its task for, each with its asOf

schedulerVars == <<clock, offset, expr, task, wake, slot, handle, backs, asOf, ran>>

SchedulerInit ==
    /\ clock \in 0..(MinuteTicks - 1)
    /\ \E kind \in {"every", "after", "at", "cron"} : task = [kind |-> kind, pc |-> "new"]
    /\ expr \in CronExprs /\ (task.kind # "cron" => expr = CHOOSE e \in CronExprs : TRUE)
    /\ wake = 0 /\ slot = -1 /\ handle = "held" /\ ran = <<>>
    /\ offset = 0 /\ backs = 0 /\ asOf = 0

To(pc) == task' = [task EXCEPT !.pc = pc]
Wall == clock + offset
Now == Wall \div MinuteTicks
Match(minute) ==
    /\ minute % Minutes \in parse_field(expr.minute, Minutes - 1)
    /\ (minute \div Minutes) % Hours \in parse_field(expr.hour, Hours - 1)

\* next_after(): the first matching minute after this one, -1 if there is none in reach
next_after ==
    LET found == {m \in (Now + 1)..(Now + Horizon) : Match(m)} IN
    IF found = {} THEN -1 ELSE CHOOSE m \in found : \A n \in found : m <= n

Starts(kind) ==
    /\ task.kind = kind /\ task.pc = "new"
    /\ UNCHANGED <<clock, offset, expr, slot, handle, backs, asOf, ran>>

\* The first tick of an interval is at once.
every == Starts("every") /\ wake' = clock /\ To("select")

after == Starts("after") /\ wake' = clock + Period /\ To("select")

\* The time may be past, which leaves a delay of nothing.
at == Starts("at") /\ wake' \in {clock, clock + Period} /\ To("select")

\* CronExpr::parse() may refuse the expression.
parse ==
    /\ Starts("cron") /\ UNCHANGED wake
    /\ To(IF Bad \in {parse_field(expr.minute, Minutes - 1), parse_field(expr.hour, Hours - 1)}
          THEN "rejected" ELSE "compute")

StartJob == every \/ after \/ at \/ parse

\* cron(): the wall clock tells how long to sleep until the next match, and the sleep
\* is by the other clock; a minute if there is no match.
Compute ==
    LET next == next_after IN
    /\ task.kind = "cron" /\ task.pc = "compute"
    /\ slot' = next
    /\ wake' = IF next = -1 THEN clock + MinuteTicks
               ELSE clock + MilliTicks * ((next * MinuteTicks - Wall) \div MilliTicks)
    /\ asOf' = backs
    /\ To("select")
    /\ UNCHANGED <<clock, offset, expr, handle, backs, ran>>

\* The timer of the select! fires and the task is started - cancelled or not, if both
\* are ready.  A missed tick of every() comes as soon as the task is back.
Fire ==
    /\ task.pc = "select" /\ clock >= wake
    /\ IF task.kind = "cron" /\ slot = -1 THEN To("compute") /\ UNCHANGED <<ran, wake>>
       ELSE /\ ran' = IF task.kind = "cron" THEN Append(ran, [minute |-> slot, asOf |-> asOf]) ELSE ran
            /\ wake' = IF task.kind = "every" THEN wake + Period ELSE wake
            /\ To("running")
    /\ UNCHANGED <<clock, offset, expr, slot, handle, backs, asOf>>

\* The second cron sleeps, so as not to be early again in the same minute
Pause == PauseTicks

TaskEnds ==
    /\ task.pc = "running"
    /\ CASE task.kind = "every" -> To("select") /\ UNCHANGED wake
         [] task.kind = "cron" -> To("pause") /\ wake' = clock + Pause
         [] OTHER -> To("done") /\ UNCHANGED wake
    /\ UNCHANGED <<clock, offset, expr, slot, handle, backs, asOf, ran>>

PauseOver ==
    /\ task.pc = "pause" /\ clock >= wake
    /\ To("compute")
    /\ UNCHANGED <<clock, offset, expr, wake, slot, handle, backs, asOf, ran>>

\* JobHandle::cancel(), or its drop
Cancel ==
    /\ handle = "held" /\ task.pc # "new"
    /\ handle' = "cancelled"
    /\ UNCHANGED <<clock, offset, expr, task, wake, slot, backs, asOf, ran>>

\* The wrong variant: cron does not look at its token.
MutantCancelled ==
    /\ handle = "cancelled"
    /\ task.pc = "select" /\ task.kind # "cron"
    /\ To("done")
    /\ UNCHANGED <<clock, offset, expr, wake, slot, handle, backs, asOf, ran>>

\* The other branch of the select!.  A running task is awaited by every(), after() and
\* at(); cron has it inside the branch that loses, and drops it half way.
IsCancelled ==
    /\ handle = "cancelled"
    /\ task.pc = "select" \/ (task.kind = "cron" /\ task.pc \in {"running", "pause"})
    /\ To("done")
    /\ UNCHANGED <<clock, offset, expr, wake, slot, handle, backs, asOf, ran>>

SchedTick ==
    /\ clock < MaxClock
    /\ clock' = clock + 1
    /\ UNCHANGED <<offset, expr, task, wake, slot, handle, backs, asOf, ran>>

\* Somebody sets the wall clock.
SetClock(jump) ==
    /\ Wall + jump \in 0..MaxClock
    /\ offset' = offset + jump
    /\ backs' = IF jump < 0 THEN backs + 1 ELSE backs
    /\ backs' <= MaxBacks
    /\ UNCHANGED <<clock, expr, task, wake, slot, handle, asOf, ran>>

SchedulerNext ==
    \/ StartJob \/ Compute \/ Fire \/ TaskEnds \/ PauseOver \/ Cancel \/ IsCancelled \/ SchedTick
    \/ \E jump \in Jumps : SetClock(jump)

\* The runtime polls a ready task; tasks end; a select! that finds both branches ready
\* again and again takes each in the end, because it picks at random.
SchedulerFairness ==
    /\ WF_schedulerVars(StartJob) /\ WF_schedulerVars(Compute) /\ WF_schedulerVars(Fire)
    /\ WF_schedulerVars(TaskEnds) /\ WF_schedulerVars(PauseOver) /\ SF_schedulerVars(IsCancelled)

SchedulerSafety == SchedulerInit /\ [][SchedulerNext]_schedulerVars

SchedulerSpec == SchedulerSafety /\ SchedulerFairness
------------------------------------------------------------------------------
Denotes(field, v) ==
    \/ field.form = "any"
    \/ field.form = "step" /\ \E k \in 0..v : v = k * field.n
    \/ field.form = "list" /\ \E p \in field.parts : p.lo <= v /\ v <= p.hi

(***************************************************************************)
(* Cron runs its task only for minutes the expression denotes, and never   *)
(* again for a minute, or an earlier one, that it has run it for, although *)
(* a sleep rounded down may end, and the task be over, before the minute   *)
(* has begun, and although the wall clock may be set forward during the    *)
(* sleep.  Only where the wall clock was set back between the two looks at *)
(* it does a minute come again.                                            *)
(***************************************************************************)
CronOncePerMinute ==
    task.kind = "cron" =>
        \A i \in 1..Len(ran) :
            /\ Denotes(expr.minute, ran[i].minute % Minutes)
            /\ Denotes(expr.hour, (ran[i].minute \div Minutes) % Hours)
            /\ \A j \in 1..(i - 1) :
                 ran[j].minute < ran[i].minute \/ ran[j].asOf < ran[i].asOf

(***************************************************************************)
(* A job whose handle is cancelled or dropped ends, whatever its kind and  *)
(* whatever it is doing; it may be run again before that, since a timer    *)
(* that is due and the cancellation are picked from at random.             *)
(***************************************************************************)
CancelledJobEnds == handle = "cancelled" ~> task.pc \in {"done", "rejected"}

\* Jobs run when they should, and stop when they are told to.
ScheduledAsAsked == []CronOncePerMinute /\ CancelledJobEnds
=============================================================================
