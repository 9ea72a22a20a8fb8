------------------------------ MODULE Scheduler ------------------------------
(* The SMP scheduler (Source/Scheduler.c): several CPUs, each with a run queue *)
(* and a spin lock, preempt, create, block, wake, steal, end and reap tasks.   *)
(*                                                                             *)
(* A critical section that takes one lock is one step, enabled when the lock   *)
(* is free; a section that waits for a second lock while it holds the first    *)
(* keeps the first across steps.  What the code reads before it takes the lock *)
(* is read in an earlier step, so it can be stale.  A task interrupted between *)
(* two of its steps continues wherever it is scheduled next.                   *)
(*                                                                             *)
(* A run queue is a set here and virtual runtimes are left out (Cfs.tla has    *)
(* the ring and the runtimes): a pick takes any READY task of the queue, and a *)
(* steal may find none whose runtime is above zero.  Every weight is           *)
(* NICE_0_WEIGHT but the idle tasks' 1: nothing in the tree calls TaskSetNice, *)
(* SchedSetAffinity or SchedMigrateTask.                                       *)
EXTENDS Integers, FiniteSets

CONSTANTS Cpu,       \* CPU indices, all online
          Bsp,       \* the bootstrap processor
          Thread,    \* the Task objects TaskCreate hands out; none is reused
          InitTask,  \* the BSP's boot thread
          Idle,      \* Idle[c] is the idle task of CPU c
          Starters,  \* the tasks that start others and wait for them (TaskIsAlive)
          Sleepers,  \* the threads that call TaskBlock (kconsole, kcursor)
          None,      \* NULLPTR, or no CPU
          BootCount, \* what boot left in the BSP's RunQueueCount and Load ...
          BootLoad   \* ... see SchedulerInit in Cfs.tla

IdleTasks == {Idle[c] : c \in Cpu}
Task == Thread \cup {InitTask} \cup IdleTasks

ASSUME SchedulerAssumption ==
  /\ Cpu \subseteq Nat /\ IsFiniteSet(Cpu) /\ Bsp \in Cpu
  /\ IsFiniteSet(Thread)
  /\ Idle \in [Cpu -> IdleTasks]
  /\ \A c, d \in Cpu : Idle[c] = Idle[d] => c = d
  /\ InitTask \notin Thread \cup IdleTasks /\ Thread \cap IdleTasks = {}
  /\ None \notin Task \cup Cpu
  /\ Starters \subseteq Thread \cup {InitTask} /\ Sleepers \subseteq Thread
  /\ BootCount \in Nat /\ BootLoad \in Nat

NICE_0_WEIGHT == 1024
SCHED_BALANCE_THRESHOLD == 512
SCHED_IDLE_STEAL_MIN_LOAD == 1024

VARIABLES tstate,   \* Task.State; "NEW" before TaskCreate
          onRq,     \* Task.OnRunQueue
          home,     \* Task.Cpu
          rq,       \* PerCpu.RunQueue, as a set
          count,    \* PerCpu.RunQueueCount
          load,     \* PerCpu.Load
          current,  \* PerCpu.CurrentTask
          rqLock,   \* the CPU holding PerCpu.RunQueueLock across steps
          gLock,    \* the CPU holding GSchedLock across steps
          zombies,  \* ZombieList
          freed,    \* tasks FreeTaskResources has freed
          isr,      \* where each CPU is in ScheduleFromIsr
          next,     \* its local Next
          idling,   \* where each idle task is in its loop
          victim,   \* TryStealFrom's Victim: [isr, idle] per CPU
          op,       \* where each task is in a scheduler call of its own
          waking,   \* TaskWakeup in a device interrupt handler of the BSP
          announced \* the sleepers whose queue has its Blocked flag set

queueVars == <<onRq, home, rq, count, load>>
lockVars == <<rqLock, gLock>>
callVars == <<idling, victim, op, waking, announced>>
vars == <<tstate, queueVars, current, lockVars, zombies, freed, isr, next, callVars>>

NoOp == [pc |-> "run", cpu |-> None, task |-> None]
NoWake == [task |-> None, cpu |-> None]

Weight(t) == IF t \in IdleTasks THEN 1 ELSE NICE_0_WEIGHT

IsrPhases == {"off", "account", "pick", "balance", "steal", "steal2", "switch"}
OpPhases == {"run", "create", "announced", "block", "halt", "reaped", "exit", "dead"}

(* The BSP has taken its first tick, the others run their idle tasks. *)
Init ==
  /\ tstate = [t \in Task |-> IF t \in Thread THEN "NEW"
                              ELSE IF t = Idle[Bsp] THEN "READY" ELSE "RUNNING"]
  /\ onRq = [t \in Task |-> FALSE]
  /\ home = [t \in Task |-> IF t = InitTask THEN Bsp
                            ELSE IF t \in Thread THEN None
                            ELSE CHOOSE c \in Cpu : Idle[c] = t]
  /\ rq = [c \in Cpu |-> {}]
  /\ count = [c \in Cpu |-> IF c = Bsp THEN BootCount ELSE 0]
  /\ load = [c \in Cpu |-> IF c = Bsp THEN BootLoad ELSE 0]
  /\ current = [c \in Cpu |-> IF c = Bsp THEN InitTask ELSE Idle[c]]
  /\ rqLock = [c \in Cpu |-> None] /\ gLock = None
  /\ zombies = {} /\ freed = {}
  /\ isr = [c \in Cpu |-> "off"]
  /\ next = [c \in Cpu |-> None]
  /\ idling = [c \in Cpu |-> "loop"]
  /\ victim = [c \in Cpu |-> [isr |-> None, idle |-> None]]
  /\ op = [t \in Task |-> NoOp]
  /\ waking = NoWake /\ announced = {}
------------------------------------------------------------------------------
(* The run queue.  Each is the effect on queueVars of the function it names.   *)

RqAdd(c, t) ==
  IF onRq[t] THEN UNCHANGED queueVars
  ELSE /\ rq' = [rq EXCEPT ![c] = @ \cup {t}]
       /\ onRq' = [onRq EXCEPT ![t] = TRUE]
       /\ home' = [home EXCEPT ![t] = c]
       /\ count' = [count EXCEPT ![c] = @ + 1]
       /\ load' = [load EXCEPT ![c] = @ + Weight(t)]

(* RqDelLocked finds nothing when t is on another CPU's queue. *)
RqDelKeepingLoad(c, t) ==
  IF onRq[t] /\ t \in rq[c]
  THEN /\ rq' = [rq EXCEPT ![c] = @ \ {t}]
       /\ onRq' = [onRq EXCEPT ![t] = FALSE]
       /\ count' = [count EXCEPT ![c] = @ - 1]
       /\ UNCHANGED <<home, load>>
  ELSE UNCHANGED queueVars
RqDel(c, t) ==
  IF onRq[t] /\ t \in rq[c]
  THEN /\ rq' = [rq EXCEPT ![c] = @ \ {t}]
       /\ onRq' = [onRq EXCEPT ![t] = FALSE]
       /\ count' = [count EXCEPT ![c] = @ - 1]
       /\ load' = [load EXCEPT ![c] = @ - Weight(t)]
       /\ UNCHANGED home
  ELSE UNCHANGED queueVars

(* RqDelLocked(from, t) and RqAddLocked(to, t) under both locks. *)
RqMoveKeepingCpu(from, to, t) ==
  /\ rq' = [rq EXCEPT ![from] = @ \ {t}, ![to] = @ \cup {t}]
  /\ count' = [count EXCEPT ![from] = @ - 1, ![to] = @ + 1]
  /\ load' = [load EXCEPT ![from] = @ - Weight(t), ![to] = @ + Weight(t)]
  /\ UNCHANGED <<onRq, home>>
RqMove(from, to, t) ==
  /\ rq' = [rq EXCEPT ![from] = @ \ {t}, ![to] = @ \cup {t}]
  /\ home' = [home EXCEPT ![t] = to]
  /\ count' = [count EXCEPT ![from] = @ - 1, ![to] = @ + 1]
  /\ load' = [load EXCEPT ![from] = @ - Weight(t), ![to] = @ + Weight(t)]
  /\ UNCHANGED onRq

Eligible(c) == {t \in rq[c] : tstate[t] = "READY" /\ onRq[t]}

(* SchedPickCpuForTask returns the first CPU with the least load. *)
LeastLoaded(c) == \A d \in Cpu : load[c] < load[d] \/ (load[c] = load[d] /\ c <= d)

(* SchedIdleBalance on CPU c chooses v: the first of the other CPUs with the   *)
(* most load, when that is worth stealing from.                                *)
Busiest(c, v) ==
  /\ v # c
  /\ \A d \in Cpu \ {c} : load[v] > load[d] \/ (load[v] = load[d] /\ v <= d)
  /\ load[v] >= SCHED_IDLE_STEAL_MIN_LOAD
  /\ load[v] > load[c] + SCHED_BALANCE_THRESHOLD

(* The tasks TryStealFrom may take: not the victim's current one, and none     *)
(* pinned by its affinity (only idle tasks are).                               *)
Stealable(v) == {t \in rq[v] : /\ tstate[t] = "READY" /\ onRq[t]
                               /\ t # current[v]
                               /\ t \notin IdleTasks}

(* TryStealFrom under both locks; a task whose Vruntime is zero is not taken. *)
Steal(c, v) ==
  \/ UNCHANGED queueVars
  \/ count[v] > 1 /\ \E t \in Stealable(v) : RqMove(v, c, t)

(* LockTwoPrqs: "The order of capturing PRQ locks: the smaller index is the    *)
(* first."                                                                     *)
OwnFirst(c, v) == c
FirstLock(c, v) == IF c < v THEN c ELSE v
SecondLock(c, v) == IF FirstLock(c, v) = c THEN v ELSE c
------------------------------------------------------------------------------
(* Interrupts are off while a CPU holds a lock or runs a handler. *)
HoldsNone(c) == gLock # c /\ \A d \in Cpu : rqLock[d] # c
InTask(c) == isr[c] = "off" /\ (c = Bsp => waking = NoWake)
IrqOn(c) == InTask(c) /\ HoldsNone(c)

(* CPU c executes code of its current task t, which is not halted. *)
Runs(c, t) == /\ IrqOn(c) /\ current[c] = t
              /\ tstate[t] \in {"RUNNING", "READY"}
------------------------------------------------------------------------------
(* ScheduleFromIsr on CPU c.                                                   *)

(* A RUNNING task is put back on this CPU's queue; any other is left alone. *)
IsrRequeue(c) ==
  /\ IrqOn(c)
  /\ LET cur == current[c]
     IN  IF tstate[cur] = "RUNNING"
         THEN /\ rqLock[c] = None
              /\ tstate' = [tstate EXCEPT ![cur] = "READY"]
              /\ RqAdd(c, cur)
         ELSE UNCHANGED <<tstate, queueVars>>
  /\ isr' = [isr EXCEPT ![c] = "account"]
  /\ UNCHANGED <<current, lockVars, zombies, freed, next, callVars>>

(* The accounting of the current task needs GSchedLock. *)
IsrAccount(c) ==
  /\ isr[c] = "account"
  /\ gLock = None
  /\ isr' = [isr EXCEPT ![c] = "pick"]
  /\ UNCHANGED <<tstate, queueVars, current, lockVars, zombies, freed, next, callVars>>

(* The idle task, at UINT64MAX until it has been charged, is picked from the   *)
(* queue or taken as the fallback; in that case it is not taken off the queue. *)
PeekNext(c, t) ==
  /\ t \in Eligible(c) \/ (Eligible(c) \subseteq {Idle[c]} /\ t = Idle[c])
  /\ UNCHANGED queueVars
TakeNext(c, t) ==
  \/ t \in Eligible(c) /\ RqDel(c, t)
  \/ Eligible(c) \subseteq {Idle[c]} /\ t = Idle[c] /\ UNCHANGED queueVars

IsrPick(c) ==
  /\ isr[c] = "pick"
  /\ rqLock[c] = None
  /\ \E t \in Task :
       /\ TakeNext(c, t)
       /\ tstate' = [tstate EXCEPT ![t] = "RUNNING"]
       /\ next' = [next EXCEPT ![c] = t]
  /\ isr' = [isr EXCEPT ![c] = "balance"]
  /\ UNCHANGED <<current, lockVars, zombies, freed, callVars>>

(* Once per balance period, a lightly loaded CPU tries to pull a task. *)
IsrBalance(c) ==
  /\ isr[c] = "balance"
  /\ load[c] < SCHED_BALANCE_THRESHOLD
  /\ \E v \in Cpu : Busiest(c, v) /\ victim' = [victim EXCEPT ![c].isr = v]
  /\ isr' = [isr EXCEPT ![c] = "steal"]
  /\ UNCHANGED <<tstate, queueVars, current, lockVars, zombies, freed,
                 next, idling, op, waking, announced>>

IsrStealFirst(c) ==
  LET v == victim[c].isr
  IN  /\ isr[c] = "steal"
      /\ IF count[v] <= 1
         THEN /\ isr' = [isr EXCEPT ![c] = "switch"]
              /\ victim' = [victim EXCEPT ![c].isr = None]
              /\ UNCHANGED rqLock
         ELSE /\ rqLock[FirstLock(c, v)] = None
              /\ rqLock' = [rqLock EXCEPT ![FirstLock(c, v)] = c]
              /\ isr' = [isr EXCEPT ![c] = "steal2"]
              /\ UNCHANGED victim
      /\ UNCHANGED <<tstate, queueVars, current, gLock, zombies, freed,
                     next, idling, op, waking, announced>>

IsrSteal(c) ==
  LET v == victim[c].isr
  IN  /\ isr[c] = "steal2"
      /\ rqLock[SecondLock(c, v)] = None
      /\ Steal(c, v)
      /\ rqLock' = [rqLock EXCEPT ![FirstLock(c, v)] = None]
      /\ isr' = [isr EXCEPT ![c] = "switch"]
      /\ victim' = [victim EXCEPT ![c].isr = None]
      /\ UNCHANGED <<tstate, current, gLock, zombies, freed, next, idling, op, waking, announced>>

(* CurrentTask changes and TimerIsr returns from the interrupt; when the       *)
(* balance period is not over, that is right after the pick.                   *)
IsrSwitch(c) ==
  /\ isr[c] \in {"balance", "switch"}
  /\ current' = [current EXCEPT ![c] = next[c]]
  /\ next' = [next EXCEPT ![c] = None]
  /\ isr' = [isr EXCEPT ![c] = "off"]
  /\ UNCHANGED <<tstate, queueVars, lockVars, zombies, freed, callVars>>

Isr(c) == \/ IsrRequeue(c) \/ IsrAccount(c) \/ IsrPick(c) \/ IsrBalance(c)
          \/ IsrStealFirst(c) \/ IsrSteal(c) \/ IsrSwitch(c)
------------------------------------------------------------------------------
(* IdleLoop of CPU c: SchedIdleBalance, preemptible until it has a lock.       *)

IdleBalance(c) ==
  /\ Runs(c, Idle[c]) /\ idling[c] = "loop"
  /\ \E v \in Cpu : Busiest(c, v) /\ victim' = [victim EXCEPT ![c].idle = v]
  /\ idling' = [idling EXCEPT ![c] = "steal"]
  /\ UNCHANGED <<tstate, queueVars, current, lockVars, zombies, freed,
                 isr, next, op, waking, announced>>

IdleStealFirst(c) ==
  LET v == victim[c].idle
  IN  /\ Runs(c, Idle[c]) /\ idling[c] = "steal"
      /\ IF count[v] <= 1
         THEN /\ idling' = [idling EXCEPT ![c] = "loop"]
              /\ victim' = [victim EXCEPT ![c].idle = None]
              /\ UNCHANGED rqLock
         ELSE /\ rqLock[FirstLock(c, v)] = None
              /\ rqLock' = [rqLock EXCEPT ![FirstLock(c, v)] = c]
              /\ idling' = [idling EXCEPT ![c] = "steal2"]
              /\ UNCHANGED victim
      /\ UNCHANGED <<tstate, queueVars, current, gLock, zombies, freed,
                     isr, next, op, waking, announced>>

IdleSteal(c) ==
  LET v == victim[c].idle
  IN  /\ InTask(c) /\ idling[c] = "steal2"
      /\ rqLock[SecondLock(c, v)] = None
      /\ Steal(c, v)
      /\ rqLock' = [rqLock EXCEPT ![FirstLock(c, v)] = None]
      /\ idling' = [idling EXCEPT ![c] = "loop"]
      /\ victim' = [victim EXCEPT ![c].idle = None]
      /\ UNCHANGED <<tstate, current, gLock, zombies, freed, isr, next, op, waking, announced>>
------------------------------------------------------------------------------
(* Calls of a thread, or of InitTask, while it is current on CPU c.            *)

Caller(c, t, pc) == t \notin IdleTasks /\ Runs(c, t) /\ op[t].pc = pc

(* TaskCreate and UserTaskCreate link the new task and choose its CPU from the *)
(* loads, read here at one moment, without a lock ...                          *)
TaskCreate(c, t, n) ==
  /\ Caller(c, t, "run") /\ t \in Starters
  /\ n \in Thread /\ tstate[n] = "NEW"
  /\ gLock = None
  /\ tstate' = [tstate EXCEPT ![n] = "READY"]
  /\ \E d \in Cpu : /\ LeastLoaded(d)
                    /\ op' = [op EXCEPT ![t] = [pc |-> "create", cpu |-> d, task |-> n]]
  /\ UNCHANGED <<queueVars, current, lockVars, zombies, freed,
                 isr, next, idling, victim, waking, announced>>

(* ... and then queues it there. *)
TaskCreateAdd(c, t) ==
  /\ Caller(c, t, "create")
  /\ rqLock[op[t].cpu] = None
  /\ RqAdd(op[t].cpu, op[t].task)
  /\ op' = [op EXCEPT ![t] = NoOp]
  /\ UNCHANGED <<tstate, current, lockVars, zombies, freed,
                 isr, next, idling, victim, waking, announced>>

(* A sleeper finds its queue empty and sets the queue's Blocked flag ...       *)
AnnounceBlock(c, t) ==
  /\ Caller(c, t, "run") /\ t \in Sleepers
  /\ announced' = announced \cup {t}
  /\ op' = [op EXCEPT ![t].pc = "announced"]
  /\ UNCHANGED <<tstate, queueVars, current, lockVars, zombies, freed,
                 isr, next, idling, victim, waking>>

(* ... and calls TaskBlock, which reads which CPU it is on ...                 *)
TaskBlock(c, t) ==
  /\ Caller(c, t, "announced")
  /\ op' = [op EXCEPT ![t] = [pc |-> "block", cpu |-> c, task |-> None]]
  /\ UNCHANGED <<tstate, queueVars, current, lockVars, zombies, freed,
                 isr, next, idling, victim, waking, announced>>

(* ... takes that CPU's lock, and halts ... *)
TaskBlockLocked(c, t) ==
  /\ Caller(c, t, "block")
  /\ rqLock[op[t].cpu] = None
  /\ tstate' = [tstate EXCEPT ![t] = "BLOCKED"]
  /\ RqDel(op[t].cpu, t)
  /\ op' = [op EXCEPT ![t] = [NoOp EXCEPT !.pc = "halt"]]
  /\ UNCHANGED <<current, lockVars, zombies, freed,
                 isr, next, idling, victim, waking, announced>>

(* ... until its state is no longer BLOCKED. *)
TaskBlockReturn(c, t) ==
  /\ Caller(c, t, "halt")
  /\ op' = [op EXCEPT ![t] = NoOp]
  /\ UNCHANGED <<tstate, queueVars, current, lockVars, zombies, freed,
                 isr, next, idling, victim, waking, announced>>

Reaped == freed' = freed \cup zombies /\ zombies' = {}

(* ReapZombies, as TaskIsAlive and Run.c call it.  The list taken under the    *)
(* lock is private, so its tasks are freed in the same step.                   *)
ReapZombies(c, t) ==
  /\ Caller(c, t, "run") /\ t \in Starters
  /\ gLock = None
  /\ zombies # {}
  /\ Reaped
  /\ UNCHANGED <<tstate, queueVars, current, lockVars, isr, next, callVars>>

(* InitTask may not exit. *)
AnyMayExit(t) == TRUE
MayExit(t) == t # InitTask

(* The CPU whose queue an exiting task leaves. *)
QueueOfCaller(c, t) == c
QueueOfTask(c, t) == home[t]

(* TaskExit, or SchedulerKill of the current task, reaps the others ...        *)
TaskExitReap(c, t) ==
  /\ Caller(c, t, "run") /\ MayExit(t)
  /\ gLock = None
  /\ Reaped
  /\ op' = [op EXCEPT ![t].pc = "reaped"]
  /\ UNCHANGED <<tstate, queueVars, current, lockVars, isr, next, idling, victim, waking, announced>>

(* ... becomes a zombie under GSchedLock ...                                   *)
TaskExit(c, t) ==
  /\ Caller(c, t, "reaped")
  /\ gLock = None /\ gLock' = c
  /\ tstate' = [tstate EXCEPT ![t] = "ZOMBIE"]
  /\ zombies' = zombies \cup {t}
  /\ op' = [op EXCEPT ![t] = [pc |-> "exit", cpu |-> QueueOfTask(c, t), task |-> None]]
  /\ UNCHANGED <<queueVars, current, rqLock, freed, isr, next, idling, victim, waking, announced>>

(* ... and leaves the queue of the CPU it was last on, holding both locks. *)
TaskExitDequeue(c, t) ==
  /\ gLock = c /\ current[c] = t /\ op[t].pc = "exit"
  /\ IF op[t].cpu = None THEN UNCHANGED queueVars
     ELSE rqLock[op[t].cpu] = None /\ RqDel(op[t].cpu, t)
  /\ gLock' = None
  /\ op' = [op EXCEPT ![t] = [NoOp EXCEPT !.pc = "dead"]]
  /\ UNCHANGED <<tstate, current, rqLock, zombies, freed,
                 isr, next, idling, victim, waking, announced>>

ThreadCall(c, t) ==
  \/ \E n \in Thread : TaskCreate(c, t, n)
  \/ TaskCreateAdd(c, t)
  \/ AnnounceBlock(c, t) \/ TaskBlock(c, t) \/ TaskBlockLocked(c, t) \/ TaskBlockReturn(c, t)
  \/ ReapZombies(c, t)
  \/ TaskExitReap(c, t) \/ TaskExit(c, t) \/ TaskExitDequeue(c, t)
------------------------------------------------------------------------------
(* A keyboard or mouse interrupt, which the BSP takes, queues an event; if it  *)
(* finds the Blocked flag set it clears it and calls TaskWakeup, which reads   *)
(* the sleeper's last CPU without a lock ...                                   *)
TaskWakeup(t) ==
  /\ IrqOn(Bsp)
  /\ t \in announced /\ home[t] # None
  /\ announced' = announced \ {t}
  /\ waking' = [task |-> t, cpu |-> home[t]]
  /\ UNCHANGED <<tstate, queueVars, current, lockVars, zombies, freed,
                 isr, next, idling, victim, op>>

(* ... and the task is queued there if it is blocked by then. *)
TaskWakeupUnqueued ==
  /\ waking # NoWake
  /\ rqLock[waking.cpu] = None
  /\ tstate' = IF tstate[waking.task] = "BLOCKED"
               THEN [tstate EXCEPT ![waking.task] = "READY"] ELSE tstate
  /\ waking' = NoWake
  /\ UNCHANGED <<queueVars, current, lockVars, zombies, freed, isr, next, idling, victim, op, announced>>
TaskWakeupLocked ==
  /\ waking # NoWake
  /\ rqLock[waking.cpu] = None
  /\ IF tstate[waking.task] = "BLOCKED"
     THEN /\ tstate' = [tstate EXCEPT ![waking.task] = "READY"]
          /\ RqAdd(waking.cpu, waking.task)
     ELSE UNCHANGED <<tstate, queueVars>>
  /\ waking' = NoWake
  /\ UNCHANGED <<current, lockVars, zombies, freed, isr, next, idling, victim, op, announced>>
------------------------------------------------------------------------------
IdleStep(c) == IdleBalance(c) \/ IdleStealFirst(c) \/ IdleSteal(c)

Next ==
  \/ \E c \in Cpu : Isr(c) \/ IdleStep(c)
  \/ \E c \in Cpu, t \in Task : ThreadCall(c, t)
  \/ \E t \in Task : TaskWakeup(t)
  \/ TaskWakeupLocked

Spec == Init /\ [][Next]_vars
------------------------------------------------------------------------------
(* The scheduling fields and the program counters keep their types. *)
QueueTypes ==
  /\ onRq \in [Task -> BOOLEAN]
  /\ home \in [Task -> Cpu \cup {None}]
  /\ rq \in [Cpu -> SUBSET Task]
  /\ count \in [Cpu -> Int] /\ load \in [Cpu -> Int]

TaskTypes ==
  /\ tstate \in [Task -> {"NEW", "READY", "RUNNING", "BLOCKED", "ZOMBIE"}]
  /\ current \in [Cpu -> Task]
  /\ next \in [Cpu -> Task \cup {None}]
  /\ zombies \subseteq Thread /\ freed \subseteq Thread

ControlTypes ==
  /\ rqLock \in [Cpu -> Cpu \cup {None}] /\ gLock \in Cpu \cup {None}
  /\ isr \in [Cpu -> IsrPhases]
  /\ idling \in [Cpu -> {"loop", "steal", "steal2"}]
  /\ victim \in [Cpu -> [isr : Cpu \cup {None}, idle : Cpu \cup {None}]]
  /\ op \in [Task -> [pc : OpPhases, cpu : Cpu \cup {None}, task : Task \cup {None}]]
  /\ waking \in [task : Task \cup {None}, cpu : Cpu \cup {None}]
  /\ announced \subseteq Sleepers

TypeOK == QueueTypes /\ TaskTypes /\ ControlTypes

(* However preemption, stealing, blocking, waking and exiting interleave, a    *)
(* task is linked in at most one CPU's queue, the one Task.Cpu names, and its  *)
(* OnRunQueue flag says whether it is in one.                                  *)
OnOneQueue ==
  \A t \in Task :
    /\ onRq[t] <=> \E c \in Cpu : t \in rq[c]
    /\ \A c \in Cpu : t \in rq[c] => home[t] = c

Sum(S) == NICE_0_WEIGHT * Cardinality(S \ IdleTasks) + Cardinality(S \cap IdleTasks)

(* RunQueueCount and Load are never lost or counted twice, whichever CPUs add, *)
(* delete and move tasks: they differ from the queue's length and weight by    *)
(* what boot left, and by nothing else.                                        *)
CountsExact ==
  \A c \in Cpu :
    /\ count[c] = Cardinality(rq[c]) + IF c = Bsp THEN BootCount ELSE 0
    /\ load[c] = Sum(rq[c]) + IF c = Bsp THEN BootLoad ELSE 0

(* No thread is lost: one that is ready is on a queue, or its creator is about *)
(* to put it on one.  Not even a wake-up that races a migration drops one.     *)
ReadyIsQueued ==
  \A t \in Thread \cup {InitTask} : tstate[t] = "READY" =>
    onRq[t] \/ \E u \in Task : op[u].pc = "create" /\ op[u].task = t

(* A thread that is RUNNING is in no queue, so no other CPU picks or steals    *)
(* it, and some CPU has it as its current or its next task.                    *)
RunningIsHeld ==
  \A t \in Thread \cup {InitTask} : tstate[t] = "RUNNING" =>
    /\ ~onRq[t]
    /\ \E c \in Cpu : current[c] = t \/ next[c] = t

(* A task whose memory ReapZombies has freed is in no run queue: the exiting   *)
(* task leaves its queue before GSchedLock lets a reaper have it.              *)
FreedNotQueued == \A t \in freed : ~onRq[t]

(* The run-queue locks a CPU needs while it holds another lock. *)
Needed(c) ==
  {l \in Cpu : \/ isr[c] = "steal2" /\ l = SecondLock(c, victim[c].isr)
               \/ idling[c] = "steal2" /\ l = SecondLock(c, victim[c].idle)
               \/ gLock = c /\ op[current[c]].pc = "exit" /\ l = op[current[c]].cpu}

WaitsFor(c, d) == \E l \in Needed(c) : rqLock[l] = d

(* Two CPUs that steal from each other, or steal while a task of theirs exits, *)
(* never wait for each other's locks.                                          *)
NoCircularWait == \A c, d \in Cpu : c # d => ~(WaitsFor(c, d) /\ WaitsFor(d, c))

(* Scheduler.h says of Task.Cpu "current/last CPU": a RUNNING thread that a    *)
(* CPU executes has that CPU in it, as TaskWakeup, which queues it there, and  *)
(* TaskExit, which dequeues it there, both assume.                             *)
CpuFollowsTask ==
  \A c \in Cpu, t \in Thread :
    isr[c] = "off" /\ current[c] = t /\ tstate[t] = "RUNNING" => home[t] = c
=============================================================================
