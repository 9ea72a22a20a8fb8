--------------------------------- MODULE Cfs ---------------------------------
(* One CPU's half of the CFS-like scheduler (Source/Scheduler.c): the circular *)
(* run queue kept in the tasks' own RunNext pointers, the weighted virtual     *)
(* runtimes, and the timer tick that preempts the current task.  The whole of  *)
(* ScheduleFromIsr is one step here: interrupts are off and no other CPU       *)
(* touches this queue.  Scheduler.tla interleaves the CPUs instead and         *)
(* abstracts the ring and the virtual runtimes.                                *)
(*                                                                             *)
(* The bootstrap processor (isBsp) is followed from SmpInit on, because KMain  *)
(* calls SchedulerInit only after SmpInit has put InitTask on the queue.       *)
EXTENDS Integers, FiniteSets

CONSTANTS CfsThread,    \* the Task objects TaskCreate hands out
          WbThread,     \* the one PCacheInit creates, before the first tick
          BootThread,   \* the BSP's boot thread
          IdleThread,   \* this CPU's idle task
          NoTask,       \* NULLPTR
          WbHere,       \* did SchedPickCpuForTask choose this CPU for WbThread?
          Nice0Weight,  \* NICE_0_WEIGHT, scaled down
          Weights,      \* the weights TaskSetNice may give (GSchedWeights)
          VMax,         \* UINT64MAX, scaled down
          VBound,       \* bound: virtual runtime a thread may reach
          MaxDelta      \* bound: timer ticks between two accountings

CfsTask == CfsThread \cup {BootThread, IdleThread}

(* What the constants are assumed to be. *)
CfsAssumption ==
  /\ IsFiniteSet(CfsThread) /\ WbThread \in CfsThread
  /\ BootThread \notin CfsThread \cup {IdleThread} /\ IdleThread \notin CfsThread
  /\ NoTask \notin CfsTask
  /\ WbHere \in BOOLEAN
  /\ Nice0Weight \in Nat \ {0} /\ Weights \subseteq (Nat \ {0})
  /\ VBound \in Nat /\ VMax \in Nat /\ VBound < VMax
  /\ MaxDelta \in Nat

VARIABLES isBsp,  \* PerCpu.IsBsp: is this the bootstrap processor?
          phase,  \* boot: "smp", "wipe", "pcache"; "run" once interrupts are on
          ticked, \* has the first timer interrupt been taken?
          cpu,    \* the scheduling fields of PerCpu
          task    \* the scheduling fields of every Task

cfsVars == <<isBsp, phase, ticked, cpu, task>>

World == [cpu |-> cpu, task |-> task]

States == {"NEW", "RUNNING", "READY", "BLOCKED", "ZOMBIE"}

(* A zeroed Task: MemSet(T, 0, sizeof(Task)).  TASK_RUNNING is 0. *)
ZeroTask == [state |-> "RUNNING", next |-> NoTask, onRq |-> FALSE,
             vr |-> 0, weight |-> 0]

(* TaskInitCfsFields and State = TASK_READY. *)
FreshTask == [ZeroTask EXCEPT !.state = "READY", !.weight = Nice0Weight]

(* SchedulerInitPerCpu's idle task: the largest virtual runtime, weight 1. *)
IdleTask(s) == [state |-> s, next |-> NoTask, onRq |-> FALSE,
                vr |-> VMax, weight |-> 1]
------------------------------------------------------------------------------
(* The run queue.  cpu.queue is the tail; the tail's next is the head.  These  *)
(* operators map a world (the PerCpu and all the Tasks) to the next one.       *)

(* The n-th task met walking from the tail; the walk of RqDelLocked and        *)
(* RqPickMinVruntimeLocked visits 1, 2, ... until it is back at the head.      *)
Walk(w) ==
  LET at[n \in 0..Cardinality(CfsTask)] ==
        IF n = 0 THEN w.cpu.queue
        ELSE LET prev == at[n - 1]
             IN  IF prev = NoTask THEN NoTask ELSE w.task[prev].next
  IN  at

Ring(w) == LET at == Walk(w) IN {at[n] : n \in 1..Cardinality(CfsTask)} \ {NoTask}

RqAddLocked(w, t) ==
  IF w.task[t].onRq THEN w
  ELSE LET tail  == w.cpu.queue
           queued == [w.task[t] EXCEPT
             !.onRq = TRUE,
             !.vr   = IF @ < w.cpu.minV THEN w.cpu.minV ELSE @,
             !.next = IF tail = NoTask THEN t ELSE w.task[tail].next]
           linked == [w.task EXCEPT ![t] = queued]
       IN  [cpu  |-> [w.cpu EXCEPT !.queue = t,
                                   !.count = @ + 1,
                                   !.load  = @ + w.task[t].weight],
            task |-> IF tail = NoTask THEN linked
                     ELSE [linked EXCEPT ![tail].next = t]]

(* The tail once t, whose predecessor is prev, is unlinked. *)
TailKept(w, t, prev) == IF prev = t THEN NoTask ELSE w.cpu.queue
TailAfter(w, t, prev) == IF prev = t THEN NoTask
                         ELSE IF w.cpu.queue = t THEN prev ELSE w.cpu.queue

RqDelLocked(w, t) ==
  IF ~w.task[t].onRq \/ t \notin Ring(w) THEN w
  ELSE LET prev  == CHOOSE p \in Ring(w) : w.task[p].next = t
           gone  == [w.task EXCEPT ![prev].next = w.task[t].next,
                                   ![t].next = NoTask,
                                   ![t].onRq = FALSE]
       IN  [cpu  |-> [w.cpu EXCEPT !.queue = TailAfter(w, t, prev),
                                   !.count = @ - 1,
                                   !.load  = @ - w.task[t].weight],
            task |-> gone]

(* A task the pick may take: READY, on the queue, below UINT64MAX. *)
MayRun(w, t) == /\ w.task[t].state = "READY"
                  /\ w.task[t].onRq
                  /\ w.task[t].vr < VMax

(* Is the task at the n-th place of the walk preferred to the one at the m-th? *)
LaterWins(vn, n, vm, m) == vn > vm \/ (vn = vm /\ n <= m)
RunsBefore(vn, n, vm, m) == vn < vm \/ (vn = vm /\ n <= m)

(* The first task of the ring with the least virtual runtime, or NoTask. *)
RqPickMin(w) ==
  LET at   == Walk(w)
      can  == {n \in 1..Cardinality(CfsTask) : at[n] # NoTask /\ MayRun(w, at[n])}
      Vr(n) == w.task[at[n]].vr
      best == {n \in can : \A m \in can : RunsBefore(Vr(n), n, Vr(m), m)}
  IN  IF can = {} THEN NoTask ELSE at[CHOOSE n \in best : TRUE]

(* Vruntime is a UINT64. *)
WrappedSum(v, d) == (v + d) % (VMax + 1)

(* Charge the current task for delta ticks of the timer. *)
Account(w, delta) ==
  LET cur == w.cpu.current
      wt  == IF w.task[cur].weight = 0 THEN Nice0Weight ELSE w.task[cur].weight
      num == delta * Nice0Weight + w.cpu.frac
      v   == WrappedSum(w.task[cur].vr, num \div wt)
  IN  IF delta = 0 THEN w
      ELSE [cpu  |-> [w.cpu EXCEPT !.frac = num % wt,
                                   !.minV = IF v < @ THEN v ELSE @],
            task |-> [w.task EXCEPT ![cur].vr = v]]

RequeueFlagOnly(w) ==
  IF w.task[w.cpu.current].state # "RUNNING" THEN w
  ELSE [w EXCEPT !.task[w.cpu.current].state = "READY"]

(* ScheduleFromIsr puts a preempted RUNNING task back on the queue. *)
Requeue(w) ==
  LET cur == w.cpu.current
  IN  IF w.task[cur].state # "RUNNING" THEN w
      ELSE RqAddLocked([w EXCEPT !.task[cur].state = "READY"], cur)

(* Take the least virtual runtime off the queue, or fall back to idle. *)
SwitchTo(w) ==
  LET picked == RqPickMin(w)
      next   == IF picked = NoTask THEN IdleThread ELSE picked
      off    == IF picked = NoTask THEN w ELSE RqDelLocked(w, picked)
  IN  [cpu  |-> [off.cpu EXCEPT !.current = next],
       task |-> [off.task EXCEPT ![next].state = "RUNNING"]]
------------------------------------------------------------------------------
ZeroCpu(cur) == [queue |-> NoTask, count |-> 0, load |-> 0, minV |-> 0,
                 frac |-> 0, current |-> cur]

NewThreads == [t \in CfsThread |-> [ZeroTask EXCEPT !.state = "NEW"]]

TasksAtStart(idleState) ==
  [t \in CfsTask |-> IF t = IdleThread THEN IdleTask(idleState)
                     ELSE IF t = BootThread THEN ZeroTask ELSE NewThreads[t]]

(* The BSP enters SmpInit with InitTask all zero (BSS); an application         *)
(* processor leaves ApEntry with its idle task current.                        *)
CfsInit ==
  /\ isBsp \in BOOLEAN
  /\ ticked = FALSE
  /\ IF isBsp
     THEN /\ phase = "smp"
          /\ cpu = ZeroCpu(NoTask)
          /\ task = TasksAtStart("READY")
     ELSE /\ phase = "run"
          /\ cpu = ZeroCpu(IdleThread)
          /\ task = TasksAtStart("RUNNING")

Become(w) == cpu' = w.cpu /\ task' = w.task

(* SmpInit -> SchedulerInitPerCpu(BSP): InitTask is current and queued. *)
SchedulerInitPerCpu ==
  /\ phase = "smp"
  /\ phase' = "wipe"
  /\ Become(RqAddLocked([World EXCEPT !.cpu.current = BootThread], BootThread))
  /\ UNCHANGED <<isBsp, ticked>>

(* KMain then calls SchedulerInit, which zeroes and refills InitTask. *)
SchedulerInit ==
  /\ phase = "wipe"
  /\ phase' = "pcache"
  /\ task' = [task EXCEPT ![BootThread] =
                [ZeroTask EXCEPT !.next = BootThread, !.weight = Nice0Weight]]
  /\ UNCHANGED <<isBsp, ticked, cpu>>

(* PCacheInit creates the write-back thread; KMain then enables interrupts. *)
PCacheInit ==
  /\ phase = "pcache"
  /\ phase' = "run"
  /\ IF WbHere
     THEN Become(RqAddLocked([World EXCEPT !.task[WbThread] = FreshTask], WbThread))
     ELSE UNCHANGED <<cpu, task>>
  /\ UNCHANGED <<isBsp, ticked>>

(* TaskCreate by any CPU whose SchedPickCpuForTask chose this one.  The timer  *)
(* has been running since InitTimer, so the BSP takes its first tick as soon   *)
(* as KMain enables interrupts, before it creates anything else.               *)
CfsTaskCreate(t) ==
  /\ phase = "run" /\ (isBsp => ticked)
  /\ t # WbThread /\ task[t].state = "NEW"
  /\ Become(RqAddLocked([World EXCEPT !.task[t] = FreshTask], t))
  /\ UNCHANGED <<isBsp, phase, ticked>>

(* Is the current task executing its own code (not halted in a loop)? *)
Executing(t) == /\ phase = "run"
                /\ cpu.current = t
                /\ task[t].state \in {"RUNNING", "READY"}

(* TaskBlock and TaskExit refuse InitTask; idle calls neither. *)
CfsTaskBlock(t) ==
  /\ Executing(t) /\ t \in CfsThread
  /\ Become(RqDelLocked([World EXCEPT !.task[t].state = "BLOCKED"], t))
  /\ UNCHANGED <<isBsp, phase, ticked>>

CfsTaskExit(t) ==
  /\ Executing(t) /\ t \in CfsThread
  /\ Become(RqDelLocked([World EXCEPT !.task[t].state = "ZOMBIE"], t))
  /\ UNCHANGED <<isBsp, phase, ticked>>

CfsTaskWakeup(t) ==
  /\ phase = "run"
  /\ task[t].state = "BLOCKED"
  /\ Become(RqAddLocked([World EXCEPT !.task[t].state = "READY"], t))
  /\ UNCHANGED <<isBsp, phase, ticked>>

(* A task is in TaskRing from its creation to its exit; idle never is. *)
InTaskRing(t) == t # IdleThread /\ task[t].state \notin {"NEW", "ZOMBIE"}

ReplacedLoad(load, oldW, newW) == IF load > oldW THEN load - oldW + newW ELSE load
Reweighed(load, oldW, newW) == IF load >= oldW THEN load - oldW + newW ELSE newW

TaskSetNice(t, newW) ==
  /\ phase = "run" /\ InTaskRing(t)
  /\ cpu' = IF task[t].onRq
            THEN [cpu EXCEPT !.load = Reweighed(@, task[t].weight, newW)]
            ELSE cpu
  /\ task' = [task EXCEPT ![t].weight = newW]
  /\ UNCHANGED <<isBsp, phase, ticked>>

(* One timer interrupt: ScheduleFromIsr after delta ticks of the clock.  The   *)
(* bound keeps runtimes finite; the idle task's wraps from VMax.               *)
Tick(delta) ==
  /\ phase = "run"
  /\ \E queued \in {Requeue(World)} :
       \E charged \in {Account(queued, delta)} :
         \E w \in {SwitchTo(charged)} :
           /\ \A t \in CfsTask : w.task[t].vr \notin (VBound + 1)..(VMax - 1)
           /\ Become(w)
  /\ ticked' = TRUE
  /\ UNCHANGED <<isBsp, phase>>

CfsNext ==
  \/ SchedulerInitPerCpu
  \/ SchedulerInit
  \/ PCacheInit
  \/ \E t \in CfsThread : CfsTaskCreate(t) \/ CfsTaskBlock(t) \/ CfsTaskExit(t) \/ CfsTaskWakeup(t)
  \/ \E t \in CfsTask, w \in Weights : TaskSetNice(t, w)
  \/ \E d \in 0..MaxDelta : Tick(d)

(* Boot code runs to completion and the timer keeps interrupting. *)
CfsFairness == /\ WF_cfsVars(SchedulerInitPerCpu \/ SchedulerInit \/ PCacheInit)
               /\ WF_cfsVars(\E d \in 0..MaxDelta : Tick(d))

CfsSpec == CfsInit /\ [][CfsNext]_cfsVars

CfsFairSpec == CfsSpec /\ CfsFairness
------------------------------------------------------------------------------
(* The scheduling fields keep their types. *)
CfsTypeOK ==
  /\ isBsp \in BOOLEAN /\ phase \in {"smp", "wipe", "pcache", "run"} /\ ticked \in BOOLEAN
  /\ cpu \in [queue : CfsTask \cup {NoTask}, count : Nat, load : Nat, minV : 0..VMax,
              frac : Nat, current : CfsTask \cup {NoTask}]
  /\ task \in [CfsTask -> [state : States, next : CfsTask \cup {NoTask}, onRq : BOOLEAN,
                        vr : 0..VMax, weight : Nat]]

(* From the first tick on, the ring walked from the tail is closed and holds   *)
(* exactly the tasks whose OnRunQueue flag is set: RqAddLocked, RqDelLocked    *)
(* and TaskBlock never leave a flagged task unreachable or link one twice.     *)
RingIsQueue ==
  ticked => /\ Ring(World) = {t \in CfsTask : task[t].onRq}
            /\ Ring(World) # {} =>
                 \E n \in 1..Cardinality(CfsTask) : Walk(World)[n] = cpu.queue

(* What the tasks of S weigh together: a pair for each unit of each one. *)
SumWeight(S) == Cardinality(UNION {{t} \X (1..task[t].weight) : t \in S})

(* RunQueueCount and Load follow the ring through every add, delete, pick and  *)
(* change of weight; only the entry SmpInit counted before SchedulerInit wiped *)
(* InitTask stays in RunQueueCount for good.                                   *)
AccountingExact ==
  ticked => /\ cpu.count = Cardinality(Ring(World)) + (IF isBsp THEN 1 ELSE 0)
            /\ cpu.load = SumWeight(Ring(World))

(* No live thread is forgotten: a READY thread is on the ring a tick picks     *)
(* from, and the only RUNNING one is the current task.                         *)
NoTaskForgotten ==
  ticked => \A t \in CfsThread \cup {BootThread} :
    /\ task[t].state = "READY" => t \in Ring(World)
    /\ task[t].state = "RUNNING" => t = cpu.current \/ (t = BootThread /\ ~isBsp)

(* The ring, what is counted of it and what it is for, over states of the     *)
(* right types.                                                                *)
RingSound == CfsTypeOK /\ RingIsQueue /\ AccountingExact /\ NoTaskForgotten

(* A tick never passes over a task that has run less: after the switch every   *)
(* READY task left on the queue has at least the chosen one's virtual runtime. *)
TickPicksLeast ==
  [][ticked' /\ cpu'.current # cpu.current =>
       \A t \in CfsTask : (task'[t].state = "READY" /\ task'[t].onRq) =>
                          task'[t].vr >= task'[cpu'.current].vr]_cfsVars
------------------------------------------------------------------------------
(* PageCache.h configures a "Background writeback" every second: the thread    *)
(* that does it eventually gets the CPU.                                       *)
WritebackRuns == isBsp => <>(cpu.current = WbThread)
=============================================================================
