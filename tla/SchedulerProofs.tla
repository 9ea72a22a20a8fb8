--------------------------- MODULE SchedulerProofs ---------------------------
(* What TLC checks of Scheduler.tla on two CPUs, proved for any number of    *)
(* CPUs and tasks.  IInv is the inductive invariant.  A step changes the run *)
(* queues by at most one RqAdd, RqDel or RqMove (QueueStep), so what depends *)
(* on the queues alone is proved once per such change, not once per action.  *)
(* After it the CPUs' starting and stopping (Smp.tla), for any number of     *)
(* them, and the timer's clock and list (Timer.tla), for any number of CPUs  *)
(* that take its interrupt and of subscribers.                               *)
EXTENDS Scheduler, Smp, Timer, ProofBasics

HoldingNext == {"balance", "steal", "steal2", "switch"}
Stealing == {"steal", "steal2"}

(* The locals of a handler or a call are set while it needs them. *)
LocalsOK ==
  /\ \A c \in Cpu :
       /\ next[c] # None <=> isr[c] \in HoldingNext
       /\ isr[c] \in Stealing => victim[c].isr \in Cpu \ {c}
       /\ idling[c] \in Stealing => victim[c].idle \in Cpu \ {c}
  /\ \A t \in Task : op[t].pc \in {"create", "block"} => op[t].cpu \in Cpu
  /\ \A t \in Task : op[t].pc = "reaped" => t \in Thread
  /\ waking # NoWake => waking.task \in Thread /\ waking.cpu \in Cpu

(* A task that no queue has held yet is in nobody's hands. *)
Unstarted ==
  \A t \in Task : home[t] = None =>
    t \in Thread /\ \A c \in Cpu : current[c] # t /\ next[c] # t

(* The task that is being created has one creator and is on no queue yet.    *)
Created ==
  \A t \in Task : op[t].pc = "create" =>
    LET n == op[t].task
    IN  /\ n \in Thread /\ tstate[n] = "READY" /\ home[n] = None
        /\ \A u \in Task : op[u].pc = "create" /\ op[u].task = n => u = t

NewIsUnstarted == \A t \in Task : tstate[t] = "NEW" => home[t] = None

(* At most one task is between the two halves of TaskExit; it is a zombie and  *)
(* GSchedLock is held, and only it may be a zombie on a queue.               *)
Exiting ==
  /\ \A t \in Task : op[t].pc = "exit" =>
       /\ t \in Thread /\ tstate[t] = "ZOMBIE" /\ op[t].cpu = home[t] /\ gLock # None
       /\ \A u \in Task : op[u].pc = "exit" => u = t
  /\ \A t \in Task : tstate[t] = "ZOMBIE" /\ onRq[t] => op[t].pc = "exit"
  /\ \A t \in zombies : tstate[t] = "ZOMBIE"
  /\ \A t \in freed : tstate[t] = "ZOMBIE" /\ op[t].pc # "exit"

(* A RUNNING thread is on no queue, and it is the next task of a CPU or the  *)
(* current one of a CPU that has not been interrupted.                       *)
HoldsLock ==
  \A t \in Thread \cup {InitTask} : tstate[t] = "RUNNING" =>
    /\ ~onRq[t]
    /\ \E c \in Cpu : next[c] = t \/ (current[c] = t /\ isr[c] = "off")

(* Which locks a CPU holds, and that it never holds two kinds at once.       *)
LocksOK ==
  /\ \A c, l \in Cpu : rqLock[l] = c =>
       \/ isr[c] = "steal2" /\ l = FirstLock(c, victim[c].isr)
       \/ idling[c] = "steal2" /\ l = FirstLock(c, victim[c].idle)
  /\ \A c \in Cpu :
       /\ isr[c] = "steal2" => rqLock[FirstLock(c, victim[c].isr)] = c
       /\ idling[c] = "steal2" =>
            rqLock[FirstLock(c, victim[c].idle)] = c /\ isr[c] = "off"
       /\ gLock = c => isr[c] = "off" /\ idling[c] # "steal2"
(* The inductive invariant. *)
IInv ==
  /\ TypeOK /\ LocalsOK /\ OnOneQueue /\ CountsExact
  /\ Unstarted /\ NewIsUnstarted /\ Created /\ ReadyIsQueued
  /\ Exiting /\ HoldsLock /\ LocksOK
------------------------------------------------------------------------------
(* LockTwoPrqs names the two CPUs' locks. *)
LEMMA LocksAreCpus ==
  ASSUME NEW c \in Cpu, NEW v \in Cpu
  PROVE  FirstLock(c, v) \in Cpu /\ SecondLock(c, v) \in Cpu
BY DEF FirstLock, SecondLock

(* A weight is an integer. *)
LEMMA WeightType == \A t : Weight(t) \in Int
BY DEF Weight, NICE_0_WEIGHT

(* The queue operations keep the queues' types. *)
LEMMA QueueOpTypes ==
  ASSUME QueueTypes, NEW c \in Cpu, NEW v \in Cpu, NEW t \in Task,
         RqAdd(c, t) \/ RqDel(c, t) \/ RqMove(v, c, t) \/ UNCHANGED queueVars
  PROVE  QueueTypes'
<1>1. CASE RqAdd(c, t)
  <2>1. CASE onRq[t]
    BY <1>1, <2>1 DEF QueueTypes, RqAdd, queueVars
  <2>2. CASE ~onRq[t]
    <3>1. rq' \in [Cpu -> SUBSET Task]
      BY <1>1, <2>2 DEF QueueTypes, RqAdd
    <3>2. onRq' \in [Task -> BOOLEAN] /\ home' \in [Task -> Cpu \cup {None}]
      BY <1>1, <2>2 DEF QueueTypes, RqAdd
    <3>3. count' \in [Cpu -> Int] /\ load' \in [Cpu -> Int]
      BY <1>1, <2>2, WeightType DEF QueueTypes, RqAdd
    <3> QED BY <3>1, <3>2, <3>3 DEF QueueTypes
  <2> QED BY <2>1, <2>2
<1>2. CASE RqDel(c, t)
  <2>1. CASE onRq[t] /\ t \in rq[c]
    <3>1. rq' \in [Cpu -> SUBSET Task]
      BY <1>2, <2>1 DEF QueueTypes, RqDel
    <3>2. onRq' \in [Task -> BOOLEAN] /\ home' \in [Task -> Cpu \cup {None}]
      BY <1>2, <2>1 DEF QueueTypes, RqDel
    <3>3. count' \in [Cpu -> Int] /\ load' \in [Cpu -> Int]
      BY <1>2, <2>1, WeightType DEF QueueTypes, RqDel
    <3> QED BY <3>1, <3>2, <3>3 DEF QueueTypes
  <2>2. CASE ~(onRq[t] /\ t \in rq[c])
    BY <1>2, <2>2 DEF QueueTypes, RqDel, queueVars
  <2> QED BY <2>1, <2>2
<1>3. CASE RqMove(v, c, t)
  <2>1. rq' \in [Cpu -> SUBSET Task]
    BY <1>3 DEF QueueTypes, RqMove
  <2>2. onRq' \in [Task -> BOOLEAN] /\ home' \in [Task -> Cpu \cup {None}]
    BY <1>3 DEF QueueTypes, RqMove
  <2>3. count' \in [Cpu -> Int] /\ load' \in [Cpu -> Int]
    BY <1>3, WeightType DEF QueueTypes, RqMove
  <2> QED BY <2>1, <2>2, <2>3 DEF QueueTypes
<1>4. CASE UNCHANGED queueVars
  BY <1>4 DEF QueueTypes, queueVars
<1> QED BY <1>1, <1>2, <1>3, <1>4

(* The only ways a step changes the run queues. *)
QueueChange ==
  \/ UNCHANGED queueVars
  \/ \E c \in Cpu, t \in Task : RqAdd(c, t) \/ RqDel(c, t)
  \/ \E c, v \in Cpu : c # v /\ \E t \in Stealable(v) : RqMove(v, c, t)

(* Every step changes the run queues in one of these ways.                   *)
LEMMA QueueStep ==
  ASSUME TypeOK, LocalsOK, Created, [Next]_vars
  PROVE  QueueChange
<1>1. ASSUME NEW c \in Cpu, IsrRequeue(c) PROVE QueueChange
  BY <1>1 DEF IsrRequeue, QueueChange, TypeOK, TaskTypes
<1>2. ASSUME NEW c \in Cpu, IsrAccount(c) PROVE QueueChange
  BY <1>2 DEF IsrAccount, QueueChange, queueVars
<1>3. ASSUME NEW c \in Cpu, IsrPick(c) PROVE QueueChange
  BY <1>3 DEF IsrPick, TakeNext, QueueChange
<1>4. ASSUME NEW c \in Cpu, IsrBalance(c) PROVE QueueChange
  BY <1>4 DEF IsrBalance, QueueChange, queueVars
<1>5. ASSUME NEW c \in Cpu, IsrStealFirst(c) PROVE QueueChange
  BY <1>5 DEF IsrStealFirst, QueueChange, queueVars
<1>6. ASSUME NEW c \in Cpu, IsrSteal(c) PROVE QueueChange
  BY <1>6 DEF IsrSteal, Steal, QueueChange, LocalsOK, Stealing
<1>7. ASSUME NEW c \in Cpu, IsrSwitch(c) PROVE QueueChange
  BY <1>7 DEF IsrSwitch, QueueChange, queueVars
<1>8. ASSUME NEW c \in Cpu, IdleBalance(c) PROVE QueueChange
  BY <1>8 DEF IdleBalance, QueueChange, queueVars
<1>9. ASSUME NEW c \in Cpu, IdleStealFirst(c) PROVE QueueChange
  BY <1>9 DEF IdleStealFirst, QueueChange, queueVars
<1>10. ASSUME NEW c \in Cpu, IdleSteal(c) PROVE QueueChange
  BY <1>10 DEF IdleSteal, Steal, QueueChange, LocalsOK, Stealing
<1>11. ASSUME NEW c \in Cpu, NEW t \in Task, NEW n \in Thread, TaskCreate(c, t, n) PROVE QueueChange
  BY <1>11 DEF TaskCreate, QueueChange, queueVars
<1>12. ASSUME NEW c \in Cpu, NEW t \in Task, TaskCreateAdd(c, t) PROVE QueueChange
  BY <1>12 DEF TaskCreateAdd, Caller, QueueChange, LocalsOK, Created, Task
<1>13. ASSUME NEW c \in Cpu, NEW t \in Task, TaskBlock(c, t) PROVE QueueChange
  BY <1>13 DEF TaskBlock, QueueChange, queueVars
<1>14. ASSUME NEW c \in Cpu, NEW t \in Task, TaskBlockLocked(c, t) PROVE QueueChange
  BY <1>14 DEF TaskBlockLocked, Caller, QueueChange, LocalsOK
<1>15. ASSUME NEW c \in Cpu, NEW t \in Task, TaskBlockReturn(c, t) PROVE QueueChange
  BY <1>15 DEF TaskBlockReturn, QueueChange, queueVars
<1>16. ASSUME NEW c \in Cpu, NEW t \in Task, ReapZombies(c, t) PROVE QueueChange
  BY <1>16 DEF ReapZombies, QueueChange, queueVars
<1>17. ASSUME NEW c \in Cpu, NEW t \in Task, TaskExit(c, t) PROVE QueueChange
  BY <1>17 DEF TaskExit, QueueChange, queueVars
<1>18. ASSUME NEW c \in Cpu, NEW t \in Task, TaskExitDequeue(c, t) PROVE QueueChange
  BY <1>18 DEF TaskExitDequeue, QueueChange, TypeOK, ControlTypes
<1>19. ASSUME NEW t \in Task, TaskWakeup(t) PROVE QueueChange
  BY <1>19 DEF TaskWakeup, QueueChange, queueVars
<1>20. ASSUME TaskWakeupLocked PROVE QueueChange
  BY <1>20 DEF TaskWakeupLocked, QueueChange, LocalsOK, Task
<1>21. CASE UNCHANGED vars
  BY <1>21 DEF QueueChange, vars
<1>22. ASSUME NEW c \in Cpu, NEW t \in Task, TaskExitReap(c, t) PROVE QueueChange
  BY <1>22 DEF TaskExitReap, QueueChange, queueVars
<1>23. ASSUME NEW c \in Cpu, NEW t \in Task, AnnounceBlock(c, t) PROVE QueueChange
  BY <1>23 DEF AnnounceBlock, QueueChange, queueVars
<1> QED BY <1>1, <1>2, <1>3, <1>4, <1>5, <1>6, <1>7, <1>8, <1>9, <1>10,
          <1>11, <1>12, <1>13, <1>14, <1>15, <1>16, <1>17, <1>18, <1>19,
          <1>20, <1>21, <1>22, <1>23
     DEF Next, Isr, IdleStep, ThreadCall

(* The queues keep their types in every step. *)
LEMMA QueueTypesStep ==
  ASSUME TypeOK, LocalsOK, Created, [Next]_vars
  PROVE  QueueTypes'
<1>1. CASE UNCHANGED queueVars
  BY <1>1 DEF TypeOK, QueueTypes, queueVars
<1>2. ASSUME NEW c \in Cpu, NEW t \in Task, RqAdd(c, t) \/ RqDel(c, t) PROVE QueueTypes'
  BY <1>2, QueueOpTypes DEF TypeOK
<1>3. ASSUME NEW c \in Cpu, NEW v \in Cpu, NEW t \in Stealable(v), RqMove(v, c, t)
      PROVE  QueueTypes'
  BY <1>3, QueueOpTypes DEF TypeOK, QueueTypes, Stealable
<1> QED BY <1>1, <1>2, <1>3, QueueStep DEF QueueChange

(* The tasks' states and the CPUs' current tasks keep their types.           *)
LEMMA TaskTypesStep ==
  ASSUME TypeOK, LocalsOK, Created, [Next]_vars
  PROVE  TaskTypes'
<1>1. ASSUME NEW c \in Cpu, IsrRequeue(c) PROVE TaskTypes'
  BY <1>1 DEF IsrRequeue, TypeOK, TaskTypes, callVars
<1>2. ASSUME NEW c \in Cpu, IsrAccount(c) PROVE TaskTypes'
  BY <1>2 DEF IsrAccount, TypeOK, TaskTypes, callVars
<1>3. ASSUME NEW c \in Cpu, IsrPick(c) PROVE TaskTypes'
  BY <1>3 DEF IsrPick, TypeOK, TaskTypes
<1>4. ASSUME NEW c \in Cpu, IsrBalance(c) PROVE TaskTypes'
  BY <1>4 DEF IsrBalance, TypeOK, TaskTypes, callVars
<1>5. ASSUME NEW c \in Cpu, IsrStealFirst(c) PROVE TaskTypes'
  BY <1>5 DEF IsrStealFirst, TypeOK, TaskTypes, callVars
<1>6. ASSUME NEW c \in Cpu, IsrSteal(c) PROVE TaskTypes'
  BY <1>6 DEF IsrSteal, TypeOK, TaskTypes, callVars
<1>7. ASSUME NEW c \in Cpu, IsrSwitch(c) PROVE TaskTypes'
  BY <1>7 DEF IsrSwitch, TypeOK, TaskTypes, LocalsOK, HoldingNext
<1>8. ASSUME NEW c \in Cpu, IdleBalance(c) PROVE TaskTypes'
  BY <1>8 DEF IdleBalance, TypeOK, TaskTypes, callVars
<1>9. ASSUME NEW c \in Cpu, IdleStealFirst(c) PROVE TaskTypes'
  BY <1>9 DEF IdleStealFirst, TypeOK, TaskTypes, callVars
<1>10. ASSUME NEW c \in Cpu, IdleSteal(c) PROVE TaskTypes'
  BY <1>10 DEF IdleSteal, TypeOK, TaskTypes, callVars
<1>11. ASSUME NEW c \in Cpu, NEW t \in Task, NEW n \in Thread, TaskCreate(c, t, n) PROVE TaskTypes'
  BY <1>11 DEF TaskCreate, TypeOK, TaskTypes, Task
<1>12. ASSUME NEW c \in Cpu, NEW t \in Task, TaskCreateAdd(c, t) PROVE TaskTypes'
  BY <1>12 DEF TaskCreateAdd, TypeOK, TaskTypes, callVars
<1>13. ASSUME NEW c \in Cpu, NEW t \in Task, TaskBlock(c, t) PROVE TaskTypes'
  BY <1>13 DEF TaskBlock, TypeOK, TaskTypes, callVars
<1>14. ASSUME NEW c \in Cpu, NEW t \in Task, TaskBlockLocked(c, t) PROVE TaskTypes'
  BY <1>14 DEF TaskBlockLocked, Caller, TypeOK, TaskTypes
<1>15. ASSUME NEW c \in Cpu, NEW t \in Task, TaskBlockReturn(c, t) PROVE TaskTypes'
  BY <1>15 DEF TaskBlockReturn, TypeOK, TaskTypes, callVars
<1>16. ASSUME NEW c \in Cpu, NEW t \in Task, ReapZombies(c, t) PROVE TaskTypes'
  BY <1>16 DEF ReapZombies, Reaped, TypeOK, TaskTypes
<1>17. ASSUME NEW c \in Cpu, NEW t \in Task, TaskExit(c, t) PROVE TaskTypes'
  BY <1>17 DEF TaskExit, Caller, LocalsOK, TypeOK, TaskTypes, Task
<1>18. ASSUME NEW c \in Cpu, NEW t \in Task, TaskExitDequeue(c, t) PROVE TaskTypes'
  BY <1>18 DEF TaskExitDequeue, TypeOK, TaskTypes, callVars
<1>19. ASSUME NEW t \in Task, TaskWakeup(t) PROVE TaskTypes'
  BY <1>19 DEF TaskWakeup, TypeOK, TaskTypes, callVars
<1>20. ASSUME TaskWakeupLocked PROVE TaskTypes'
  BY <1>20 DEF TaskWakeupLocked, TypeOK, TaskTypes, callVars
<1>21. CASE UNCHANGED vars
  BY <1>21 DEF TypeOK, TaskTypes, vars
<1>22. ASSUME NEW c \in Cpu, NEW t \in Task, TaskExitReap(c, t) PROVE TaskTypes'
  BY <1>22 DEF TaskExitReap, Reaped, TypeOK, TaskTypes
<1>23. ASSUME NEW c \in Cpu, NEW t \in Task, AnnounceBlock(c, t) PROVE TaskTypes'
  BY <1>23 DEF AnnounceBlock, TypeOK, TaskTypes, callVars
<1> QED BY <1>1, <1>2, <1>3, <1>4, <1>5, <1>6, <1>7, <1>8, <1>9, <1>10,
          <1>11, <1>12, <1>13, <1>14, <1>15, <1>16, <1>17, <1>18, <1>19,
          <1>20, <1>21, <1>22, <1>23
     DEF Next, Isr, IdleStep, ThreadCall

(* The locks and the program counters keep their types.                      *)
LEMMA ControlTypesStep ==
  ASSUME TypeOK, LocalsOK, Created, [Next]_vars
  PROVE  ControlTypes'
<1>1. ASSUME NEW c \in Cpu, IsrRequeue(c) PROVE ControlTypes'
  BY <1>1 DEF IsrRequeue, TypeOK, ControlTypes, IsrPhases, lockVars, callVars
<1>2. ASSUME NEW c \in Cpu, IsrAccount(c) PROVE ControlTypes'
  BY <1>2 DEF IsrAccount, TypeOK, ControlTypes, IsrPhases, lockVars, callVars
<1>3. ASSUME NEW c \in Cpu, IsrPick(c) PROVE ControlTypes'
  BY <1>3 DEF IsrPick, TypeOK, ControlTypes, IsrPhases, lockVars, callVars
<1>4. ASSUME NEW c \in Cpu, IsrBalance(c) PROVE ControlTypes'
  BY <1>4 DEF IsrBalance, TypeOK, ControlTypes, IsrPhases, lockVars, callVars
<1>5. ASSUME NEW c \in Cpu, IsrStealFirst(c) PROVE ControlTypes'
  BY <1>5, LocksAreCpus
  DEF IsrStealFirst, TypeOK, ControlTypes, IsrPhases, LocalsOK, Stealing, lockVars
<1>6. ASSUME NEW c \in Cpu, IsrSteal(c) PROVE ControlTypes'
  BY <1>6, LocksAreCpus
  DEF IsrSteal, TypeOK, ControlTypes, IsrPhases, LocalsOK, Stealing, lockVars
<1>7. ASSUME NEW c \in Cpu, IsrSwitch(c) PROVE ControlTypes'
  BY <1>7 DEF IsrSwitch, TypeOK, ControlTypes, IsrPhases, lockVars, callVars
<1>8. ASSUME NEW c \in Cpu, IdleBalance(c) PROVE ControlTypes'
  BY <1>8 DEF IdleBalance, TypeOK, ControlTypes, lockVars
<1>9. ASSUME NEW c \in Cpu, IdleStealFirst(c) PROVE ControlTypes'
  BY <1>9, LocksAreCpus
  DEF IdleStealFirst, TypeOK, ControlTypes, LocalsOK, Stealing, lockVars
<1>10. ASSUME NEW c \in Cpu, IdleSteal(c) PROVE ControlTypes'
  BY <1>10, LocksAreCpus DEF IdleSteal, TypeOK, ControlTypes, LocalsOK, Stealing, lockVars
<1>11. ASSUME NEW c \in Cpu, NEW t \in Task, NEW n \in Thread, TaskCreate(c, t, n) PROVE ControlTypes'
  BY <1>11 DEF TaskCreate, TypeOK, ControlTypes, Task, OpPhases, lockVars
<1>12. ASSUME NEW c \in Cpu, NEW t \in Task, TaskCreateAdd(c, t) PROVE ControlTypes'
  BY <1>12 DEF TaskCreateAdd, TypeOK, ControlTypes, NoOp, OpPhases, lockVars
<1>13. ASSUME NEW c \in Cpu, NEW t \in Task, TaskBlock(c, t) PROVE ControlTypes'
  BY <1>13 DEF TaskBlock, TypeOK, ControlTypes, OpPhases, lockVars
<1>14. ASSUME NEW c \in Cpu, NEW t \in Task, TaskBlockLocked(c, t) PROVE ControlTypes'
  BY <1>14 DEF TaskBlockLocked, TypeOK, ControlTypes, NoOp, OpPhases, lockVars
<1>15. ASSUME NEW c \in Cpu, NEW t \in Task, TaskBlockReturn(c, t) PROVE ControlTypes'
  BY <1>15 DEF TaskBlockReturn, TypeOK, ControlTypes, NoOp, OpPhases, lockVars
<1>16. ASSUME NEW c \in Cpu, NEW t \in Task, ReapZombies(c, t) PROVE ControlTypes'
  BY <1>16 DEF ReapZombies, TypeOK, ControlTypes, IsrPhases, lockVars, callVars
<1>17. ASSUME NEW c \in Cpu, NEW t \in Task, TaskExit(c, t) PROVE ControlTypes'
  BY <1>17 DEF TaskExit, QueueOfTask, TypeOK, QueueTypes, ControlTypes, OpPhases, lockVars
<1>18. ASSUME NEW c \in Cpu, NEW t \in Task, TaskExitDequeue(c, t) PROVE ControlTypes'
  BY <1>18 DEF TaskExitDequeue, TypeOK, ControlTypes, NoOp, OpPhases, lockVars
<1>19. ASSUME NEW t \in Task, TaskWakeup(t) PROVE ControlTypes'
  BY <1>19 DEF TaskWakeup, TypeOK, QueueTypes, ControlTypes, lockVars
<1>20. ASSUME TaskWakeupLocked PROVE ControlTypes'
  BY <1>20 DEF TaskWakeupLocked, TypeOK, ControlTypes, NoWake, lockVars
<1>21. CASE UNCHANGED vars
  BY <1>21 DEF TypeOK, ControlTypes, vars, lockVars, callVars
<1>22. ASSUME NEW c \in Cpu, NEW t \in Task, TaskExitReap(c, t) PROVE ControlTypes'
  BY <1>22 DEF TaskExitReap, TypeOK, ControlTypes, OpPhases, lockVars
<1>23. ASSUME NEW c \in Cpu, NEW t \in Task, AnnounceBlock(c, t) PROVE ControlTypes'
  BY <1>23 DEF AnnounceBlock, TypeOK, ControlTypes, OpPhases, lockVars
<1> QED BY <1>1, <1>2, <1>3, <1>4, <1>5, <1>6, <1>7, <1>8, <1>9, <1>10,
          <1>11, <1>12, <1>13, <1>14, <1>15, <1>16, <1>17, <1>18, <1>19,
          <1>20, <1>21, <1>22, <1>23
     DEF Next, Isr, IdleStep, ThreadCall

(* A handler or a call sets its locals before it uses them.                  *)
LEMMA LocalsStep ==
  ASSUME TypeOK, LocalsOK, Created, [Next]_vars
  PROVE  LocalsOK'
<1>1. ASSUME NEW c \in Cpu, IsrRequeue(c) PROVE LocalsOK'
  BY <1>1
  DEF IsrRequeue, IrqOn, InTask, TypeOK, TaskTypes, ControlTypes, LocalsOK, HoldingNext,
      Stealing, callVars
<1>2. ASSUME NEW c \in Cpu, IsrAccount(c) PROVE LocalsOK'
  BY <1>2
  DEF IsrAccount, TypeOK, TaskTypes, ControlTypes, LocalsOK, HoldingNext, Stealing,
      callVars
<1>3. ASSUME NEW c \in Cpu, IsrPick(c) PROVE LocalsOK'
  BY <1>3, SchedulerAssumption
  DEF IsrPick, TypeOK, TaskTypes, ControlTypes, LocalsOK, HoldingNext, Stealing, callVars
<1>4. ASSUME NEW c \in Cpu, IsrBalance(c) PROVE LocalsOK'
  BY <1>4
  DEF IsrBalance, Busiest, TypeOK, TaskTypes, ControlTypes, LocalsOK, HoldingNext,
      Stealing
<1>5. ASSUME NEW c \in Cpu, IsrStealFirst(c) PROVE LocalsOK'
  BY <1>5
  DEF IsrStealFirst, TypeOK, TaskTypes, ControlTypes, LocalsOK, HoldingNext, Stealing,
      callVars
<1>6. ASSUME NEW c \in Cpu, IsrSteal(c) PROVE LocalsOK'
  BY <1>6
  DEF IsrSteal, TypeOK, TaskTypes, ControlTypes, LocalsOK, HoldingNext, Stealing, callVars
<1>7. ASSUME NEW c \in Cpu, IsrSwitch(c) PROVE LocalsOK'
  BY <1>7
  DEF IsrSwitch, TypeOK, TaskTypes, ControlTypes, LocalsOK, HoldingNext, Stealing,
      callVars
<1>8. ASSUME NEW c \in Cpu, IdleBalance(c) PROVE LocalsOK'
  BY <1>8
  DEF IdleBalance, Busiest, TypeOK, TaskTypes, ControlTypes, LocalsOK, HoldingNext,
      Stealing
<1>9. ASSUME NEW c \in Cpu, IdleStealFirst(c) PROVE LocalsOK'
  BY <1>9
  DEF IdleStealFirst, TypeOK, TaskTypes, ControlTypes, LocalsOK, HoldingNext, Stealing,
      callVars
<1>10. ASSUME NEW c \in Cpu, IdleSteal(c) PROVE LocalsOK'
  BY <1>10
  DEF IdleSteal, TypeOK, TaskTypes, ControlTypes, LocalsOK, HoldingNext, Stealing,
      callVars
<1>11. ASSUME NEW c \in Cpu, NEW t \in Task, NEW n \in Thread, TaskCreate(c, t, n) PROVE LocalsOK'
  BY <1>11
  DEF TaskCreate, TypeOK, TaskTypes, ControlTypes, LocalsOK, HoldingNext, Stealing,
      callVars
<1>12. ASSUME NEW c \in Cpu, NEW t \in Task, TaskCreateAdd(c, t) PROVE LocalsOK'
  BY <1>12
  DEF TaskCreateAdd, NoOp, TypeOK, TaskTypes, ControlTypes, LocalsOK, HoldingNext,
      Stealing
<1>13. ASSUME NEW c \in Cpu, NEW t \in Task, TaskBlock(c, t) PROVE LocalsOK'
  BY <1>13
  DEF TaskBlock, TypeOK, TaskTypes, ControlTypes, LocalsOK, HoldingNext, Stealing,
      callVars
<1>14. ASSUME NEW c \in Cpu, NEW t \in Task, TaskBlockLocked(c, t) PROVE LocalsOK'
  BY <1>14
  DEF TaskBlockLocked, NoOp, TypeOK, TaskTypes, ControlTypes, LocalsOK, HoldingNext,
      Stealing
<1>15. ASSUME NEW c \in Cpu, NEW t \in Task, TaskBlockReturn(c, t) PROVE LocalsOK'
  BY <1>15
  DEF TaskBlockReturn, NoOp, TypeOK, TaskTypes, ControlTypes, LocalsOK, HoldingNext,
      Stealing
<1>16. ASSUME NEW c \in Cpu, NEW t \in Task, ReapZombies(c, t) PROVE LocalsOK'
  BY <1>16
  DEF ReapZombies, TypeOK, TaskTypes, ControlTypes, LocalsOK, HoldingNext, Stealing,
      callVars
<1>17. ASSUME NEW c \in Cpu, NEW t \in Task, TaskExit(c, t) PROVE LocalsOK'
  BY <1>17
  DEF TaskExit, TypeOK, TaskTypes, ControlTypes, LocalsOK, HoldingNext, Stealing, callVars
<1>18. ASSUME NEW c \in Cpu, NEW t \in Task, TaskExitDequeue(c, t) PROVE LocalsOK'
  BY <1>18
  DEF TaskExitDequeue, NoOp, TypeOK, TaskTypes, ControlTypes, LocalsOK, HoldingNext,
      Stealing
<1>19. ASSUME NEW t \in Task, TaskWakeup(t) PROVE LocalsOK'
  BY <1>19, SchedulerAssumption
  DEF TaskWakeup, TypeOK, QueueTypes, ControlTypes, LocalsOK, HoldingNext, Stealing, NoWake
<1>20. ASSUME TaskWakeupLocked PROVE LocalsOK'
  BY <1>20
  DEF TaskWakeupLocked, TypeOK, TaskTypes, ControlTypes, LocalsOK, HoldingNext, Stealing,
      callVars
<1>21. CASE UNCHANGED vars
  BY <1>21 DEF LocalsOK, vars, callVars
<1>22. ASSUME NEW c \in Cpu, NEW t \in Task, TaskExitReap(c, t) PROVE LocalsOK'
  BY <1>22
  DEF TaskExitReap, Caller, MayExit, TypeOK, TaskTypes, ControlTypes, LocalsOK, HoldingNext,
      Stealing, Task
<1>23. ASSUME NEW c \in Cpu, NEW t \in Task, AnnounceBlock(c, t) PROVE LocalsOK'
  BY <1>23
  DEF AnnounceBlock, TypeOK, TaskTypes, ControlTypes, LocalsOK, HoldingNext, Stealing,
      callVars
<1> QED BY <1>1, <1>2, <1>3, <1>4, <1>5, <1>6, <1>7, <1>8, <1>9, <1>10,
          <1>11, <1>12, <1>13, <1>14, <1>15, <1>16, <1>17, <1>18, <1>19,
          <1>20, <1>21, <1>22, <1>23
     DEF Next, Isr, IdleStep, ThreadCall

(* A queue change keeps every task on one queue at most, the one it names.   *)
LEMMA OnOneQueueStep ==
  ASSUME TypeOK, LocalsOK, Created, OnOneQueue, [Next]_vars
  PROVE  OnOneQueue'
<1>1. CASE UNCHANGED queueVars
  BY <1>1 DEF OnOneQueue, queueVars
<1>2. ASSUME NEW c \in Cpu, NEW t \in Task, RqAdd(c, t) PROVE OnOneQueue'
  <2>1. CASE onRq[t]
    BY <1>2, <2>1 DEF OnOneQueue, RqAdd, queueVars
  <2>2. CASE ~onRq[t]
    BY <1>2, <2>2 DEF OnOneQueue, RqAdd, TypeOK, QueueTypes
  <2> QED BY <2>1, <2>2
<1>3. ASSUME NEW c \in Cpu, NEW t \in Task, RqDel(c, t) PROVE OnOneQueue'
  <2>1. CASE onRq[t] /\ t \in rq[c]
    BY <1>3, <2>1 DEF OnOneQueue, RqDel, TypeOK, QueueTypes
  <2>2. CASE ~(onRq[t] /\ t \in rq[c])
    BY <1>3, <2>2 DEF OnOneQueue, RqDel, queueVars
  <2> QED BY <2>1, <2>2
<1>4. ASSUME NEW c \in Cpu, NEW v \in Cpu, c # v, NEW t \in Stealable(v), RqMove(v, c, t)
      PROVE  OnOneQueue'
  BY <1>4 DEF OnOneQueue, RqMove, Stealable, TypeOK, QueueTypes
<1> QED BY <1>1, <1>2, <1>3, <1>4, QueueStep DEF QueueChange

(* A task that has been on a queue never loses its CPU, and one that is on no  *)
(* queue and is not added keeps the CPU it had.                              *)
LEMMA HomeStep ==
  ASSUME TypeOK, LocalsOK, Created, [Next]_vars, NEW t \in Task, home'[t] = None
  PROVE  home[t] = None
<1>1. CASE UNCHANGED queueVars
  BY <1>1 DEF queueVars
<1>2. ASSUME NEW c \in Cpu, NEW u \in Task, RqAdd(c, u) \/ RqDel(c, u) PROVE home[t] = None
  BY <1>2, SchedulerAssumption DEF RqAdd, RqDel, queueVars, TypeOK, QueueTypes
<1>3. ASSUME NEW c \in Cpu, NEW v \in Cpu, NEW u \in Stealable(v), RqMove(v, c, u)
      PROVE  home[t] = None
  BY <1>3, SchedulerAssumption DEF RqMove, TypeOK, QueueTypes
<1> QED BY <1>1, <1>2, <1>3, QueueStep DEF QueueChange

(* A task that is picked has a CPU: it comes from a queue, or it is idle.    *)
LEMMA PickedHasHome ==
  ASSUME TypeOK, OnOneQueue, Unstarted, NEW c \in Cpu, NEW t \in Task, TakeNext(c, t)
  PROVE  home[t] # None
<1>1. CASE t \in rq[c]
  BY <1>1, SchedulerAssumption DEF OnOneQueue
<1>2. CASE t = Idle[c]
  BY <1>2, SchedulerAssumption DEF Unstarted, IdleTasks
<1> QED BY <1>1, <1>2 DEF TakeNext, Eligible

(* A task that no queue has held is neither current nor next anywhere.       *)
LEMMA UnstartedStep ==
  ASSUME TypeOK, LocalsOK, OnOneQueue, Unstarted, Created, [Next]_vars
  PROVE  Unstarted'
<1>1. ASSUME NEW c \in Cpu, IsrRequeue(c) PROVE Unstarted'
  BY <1>1, HomeStep DEF IsrRequeue, Unstarted, callVars
<1>2. ASSUME NEW c \in Cpu, IsrAccount(c) PROVE Unstarted'
  BY <1>2, HomeStep DEF IsrAccount, Unstarted, callVars
<1>3. ASSUME NEW c \in Cpu, IsrPick(c) PROVE Unstarted'
  <2>1. PICK t \in Task : /\ TakeNext(c, t) /\ next' = [next EXCEPT ![c] = t]
                          /\ tstate' = [tstate EXCEPT ![t] = "RUNNING"]
    BY <1>3 DEF IsrPick
  <2>2. home[t] # None
    BY <2>1, PickedHasHome DEF IsrPick
  <2> QED BY <1>3, <2>1, <2>2, HomeStep DEF IsrPick, Unstarted, TypeOK, TaskTypes
<1>4. ASSUME NEW c \in Cpu, IsrBalance(c) PROVE Unstarted'
  BY <1>4, HomeStep DEF IsrBalance, Unstarted, callVars
<1>5. ASSUME NEW c \in Cpu, IsrStealFirst(c) PROVE Unstarted'
  BY <1>5, HomeStep DEF IsrStealFirst, Unstarted, callVars
<1>6. ASSUME NEW c \in Cpu, IsrSteal(c) PROVE Unstarted'
  BY <1>6, HomeStep DEF IsrSteal, Unstarted, callVars
<1>7. ASSUME NEW c \in Cpu, IsrSwitch(c) PROVE Unstarted'
  BY <1>7, HomeStep, SchedulerAssumption
  DEF IsrSwitch, Unstarted, TypeOK, TaskTypes, LocalsOK, HoldingNext
<1>8. ASSUME NEW c \in Cpu, IdleBalance(c) PROVE Unstarted'
  BY <1>8, HomeStep DEF IdleBalance, Unstarted, callVars
<1>9. ASSUME NEW c \in Cpu, IdleStealFirst(c) PROVE Unstarted'
  BY <1>9, HomeStep DEF IdleStealFirst, Unstarted, callVars
<1>10. ASSUME NEW c \in Cpu, IdleSteal(c) PROVE Unstarted'
  BY <1>10, HomeStep DEF IdleSteal, Unstarted, callVars
<1>11. ASSUME NEW c \in Cpu, NEW t \in Task, NEW n \in Thread, TaskCreate(c, t, n) PROVE Unstarted'
  BY <1>11, HomeStep DEF TaskCreate, Unstarted, callVars
<1>12. ASSUME NEW c \in Cpu, NEW t \in Task, TaskCreateAdd(c, t) PROVE Unstarted'
  BY <1>12, HomeStep DEF TaskCreateAdd, Unstarted, callVars
<1>13. ASSUME NEW c \in Cpu, NEW t \in Task, TaskBlock(c, t) PROVE Unstarted'
  BY <1>13, HomeStep DEF TaskBlock, Unstarted, callVars
<1>14. ASSUME NEW c \in Cpu, NEW t \in Task, TaskBlockLocked(c, t) PROVE Unstarted'
  BY <1>14, HomeStep DEF TaskBlockLocked, Unstarted, callVars
<1>15. ASSUME NEW c \in Cpu, NEW t \in Task, TaskBlockReturn(c, t) PROVE Unstarted'
  BY <1>15, HomeStep DEF TaskBlockReturn, Unstarted, callVars
<1>16. ASSUME NEW c \in Cpu, NEW t \in Task, ReapZombies(c, t) PROVE Unstarted'
  BY <1>16, HomeStep DEF ReapZombies, Unstarted, callVars
<1>17. ASSUME NEW c \in Cpu, NEW t \in Task, TaskExit(c, t) PROVE Unstarted'
  BY <1>17, HomeStep DEF TaskExit, Unstarted, callVars
<1>18. ASSUME NEW c \in Cpu, NEW t \in Task, TaskExitDequeue(c, t) PROVE Unstarted'
  BY <1>18, HomeStep DEF TaskExitDequeue, Unstarted, callVars
<1>19. ASSUME NEW t \in Task, TaskWakeup(t) PROVE Unstarted'
  BY <1>19, HomeStep DEF TaskWakeup, Unstarted, callVars
<1>20. ASSUME TaskWakeupLocked PROVE Unstarted'
  BY <1>20, HomeStep DEF TaskWakeupLocked, Unstarted, callVars
<1>21. CASE UNCHANGED vars
  BY <1>21, HomeStep DEF Unstarted, vars
<1>22. ASSUME NEW c \in Cpu, NEW t \in Task, TaskExitReap(c, t) PROVE Unstarted'
  BY <1>22, HomeStep DEF TaskExitReap, Unstarted
<1>23. ASSUME NEW c \in Cpu, NEW t \in Task, AnnounceBlock(c, t) PROVE Unstarted'
  BY <1>23, HomeStep DEF AnnounceBlock, Unstarted, callVars
<1> QED BY <1>1, <1>2, <1>3, <1>4, <1>5, <1>6, <1>7, <1>8, <1>9, <1>10,
          <1>11, <1>12, <1>13, <1>14, <1>15, <1>16, <1>17, <1>18, <1>19,
          <1>20, <1>21, <1>22, <1>23
     DEF Next, Isr, IdleStep, ThreadCall

(* A task that is not created yet has been on no queue.                      *)
LEMMA NewIsUnstartedStep ==
  ASSUME TypeOK, LocalsOK, OnOneQueue, Unstarted, Created, NewIsUnstarted, [Next]_vars
  PROVE  NewIsUnstarted'
<1>1. ASSUME NEW c \in Cpu, IsrRequeue(c) PROVE NewIsUnstarted'
  BY <1>1
  DEF IsrRequeue, NewIsUnstarted, RqAdd, Unstarted, TypeOK, TaskTypes, QueueTypes,
      queueVars
<1>2. ASSUME NEW c \in Cpu, IsrAccount(c) PROVE NewIsUnstarted'
  BY <1>2 DEF IsrAccount, NewIsUnstarted, queueVars
<1>3. ASSUME NEW c \in Cpu, IsrPick(c) PROVE NewIsUnstarted'
  BY <1>3 DEF IsrPick, TakeNext, RqDel, NewIsUnstarted, TypeOK, TaskTypes, queueVars
<1>4. ASSUME NEW c \in Cpu, IsrBalance(c) PROVE NewIsUnstarted'
  BY <1>4 DEF IsrBalance, NewIsUnstarted, queueVars
<1>5. ASSUME NEW c \in Cpu, IsrStealFirst(c) PROVE NewIsUnstarted'
  BY <1>5 DEF IsrStealFirst, NewIsUnstarted, queueVars
<1>6. ASSUME NEW c \in Cpu, IsrSteal(c) PROVE NewIsUnstarted'
  BY <1>6
  DEF IsrSteal, Steal, RqMove, Stealable, NewIsUnstarted, TypeOK, QueueTypes, queueVars
<1>7. ASSUME NEW c \in Cpu, IsrSwitch(c) PROVE NewIsUnstarted'
  BY <1>7 DEF IsrSwitch, NewIsUnstarted, queueVars
<1>8. ASSUME NEW c \in Cpu, IdleBalance(c) PROVE NewIsUnstarted'
  BY <1>8 DEF IdleBalance, NewIsUnstarted, queueVars
<1>9. ASSUME NEW c \in Cpu, IdleStealFirst(c) PROVE NewIsUnstarted'
  BY <1>9 DEF IdleStealFirst, NewIsUnstarted, queueVars
<1>10. ASSUME NEW c \in Cpu, IdleSteal(c) PROVE NewIsUnstarted'
  BY <1>10
  DEF IdleSteal, Steal, RqMove, Stealable, NewIsUnstarted, TypeOK, QueueTypes, queueVars
<1>11. ASSUME NEW c \in Cpu, NEW t \in Task, NEW n \in Thread, TaskCreate(c, t, n) PROVE NewIsUnstarted'
  BY <1>11 DEF TaskCreate, NewIsUnstarted, TypeOK, TaskTypes, queueVars
<1>12. ASSUME NEW c \in Cpu, NEW t \in Task, TaskCreateAdd(c, t) PROVE NewIsUnstarted'
  BY <1>12
  DEF TaskCreateAdd, Caller, RqAdd, NewIsUnstarted, Created, TypeOK, QueueTypes, queueVars
<1>13. ASSUME NEW c \in Cpu, NEW t \in Task, TaskBlock(c, t) PROVE NewIsUnstarted'
  BY <1>13 DEF TaskBlock, NewIsUnstarted, queueVars
<1>14. ASSUME NEW c \in Cpu, NEW t \in Task, TaskBlockLocked(c, t) PROVE NewIsUnstarted'
  BY <1>14 DEF TaskBlockLocked, RqDel, NewIsUnstarted, TypeOK, TaskTypes, queueVars
<1>15. ASSUME NEW c \in Cpu, NEW t \in Task, TaskBlockReturn(c, t) PROVE NewIsUnstarted'
  BY <1>15 DEF TaskBlockReturn, NewIsUnstarted, queueVars
<1>16. ASSUME NEW c \in Cpu, NEW t \in Task, ReapZombies(c, t) PROVE NewIsUnstarted'
  BY <1>16 DEF ReapZombies, NewIsUnstarted, queueVars
<1>17. ASSUME NEW c \in Cpu, NEW t \in Task, TaskExit(c, t) PROVE NewIsUnstarted'
  BY <1>17 DEF TaskExit, NewIsUnstarted, TypeOK, TaskTypes, queueVars
<1>18. ASSUME NEW c \in Cpu, NEW t \in Task, TaskExitDequeue(c, t) PROVE NewIsUnstarted'
  BY <1>18 DEF TaskExitDequeue, RqDel, NewIsUnstarted, TypeOK, TaskTypes, queueVars
<1>19. ASSUME NEW t \in Task, TaskWakeup(t) PROVE NewIsUnstarted'
  BY <1>19 DEF TaskWakeup, NewIsUnstarted, queueVars
<1>20. ASSUME TaskWakeupLocked PROVE NewIsUnstarted'
  BY <1>20
  DEF TaskWakeupLocked, RqAdd, NewIsUnstarted, TypeOK, TaskTypes, QueueTypes, queueVars
<1>21. CASE UNCHANGED vars
  BY <1>21 DEF NewIsUnstarted, vars, queueVars
<1>22. ASSUME NEW c \in Cpu, NEW t \in Task, TaskExitReap(c, t) PROVE NewIsUnstarted'
  BY <1>22 DEF TaskExitReap, NewIsUnstarted, queueVars
<1>23. ASSUME NEW c \in Cpu, NEW t \in Task, AnnounceBlock(c, t) PROVE NewIsUnstarted'
  BY <1>23 DEF AnnounceBlock, NewIsUnstarted, queueVars
<1> QED BY <1>1, <1>2, <1>3, <1>4, <1>5, <1>6, <1>7, <1>8, <1>9, <1>10,
          <1>11, <1>12, <1>13, <1>14, <1>15, <1>16, <1>17, <1>18, <1>19,
          <1>20, <1>21, <1>22, <1>23
     DEF Next, Isr, IdleStep, ThreadCall

(* A task under creation stays READY and on no queue until its creator adds it. *)
LEMMA CreatedStep ==
  ASSUME TypeOK, LocalsOK, OnOneQueue, Unstarted, Created, NewIsUnstarted, [Next]_vars
  PROVE  Created'
<1>1. ASSUME NEW c \in Cpu, IsrRequeue(c) PROVE Created'
  BY <1>1
  DEF IsrRequeue, RqAdd, Created, Unstarted, TypeOK, TaskTypes, QueueTypes, queueVars,
      callVars, Task
<1>2. ASSUME NEW c \in Cpu, IsrAccount(c) PROVE Created'
  BY <1>2 DEF IsrAccount, Created, queueVars, callVars
<1>3. ASSUME NEW c \in Cpu, IsrPick(c) PROVE Created'
  <2>1. PICK t \in Task : /\ TakeNext(c, t) /\ next' = [next EXCEPT ![c] = t]
                          /\ tstate' = [tstate EXCEPT ![t] = "RUNNING"]
    BY <1>3 DEF IsrPick
  <2>2. home[t] # None /\ UNCHANGED home
    BY <2>1, PickedHasHome DEF TakeNext, RqDel, queueVars
  <2> QED BY <1>3, <2>1, <2>2 DEF IsrPick, Created, TypeOK, TaskTypes, callVars, Task
<1>4. ASSUME NEW c \in Cpu, IsrBalance(c) PROVE Created'
  BY <1>4 DEF IsrBalance, Created, queueVars, callVars
<1>5. ASSUME NEW c \in Cpu, IsrStealFirst(c) PROVE Created'
  BY <1>5 DEF IsrStealFirst, Created, queueVars, callVars
<1>6. ASSUME NEW c \in Cpu, IsrSteal(c) PROVE Created'
  <2>1. \A n \in Task : home[n] = None => home'[n] = None
    BY <1>6, SchedulerAssumption
    DEF IsrSteal, Steal, RqMove, Stealable, OnOneQueue, TypeOK, QueueTypes, LocalsOK, Stealing, queueVars
  <2> QED BY <1>6, <2>1 DEF IsrSteal, Created, Task
<1>7. ASSUME NEW c \in Cpu, IsrSwitch(c) PROVE Created'
  BY <1>7 DEF IsrSwitch, Created, queueVars, callVars
<1>8. ASSUME NEW c \in Cpu, IdleBalance(c) PROVE Created'
  BY <1>8 DEF IdleBalance, Created, queueVars, callVars
<1>9. ASSUME NEW c \in Cpu, IdleStealFirst(c) PROVE Created'
  BY <1>9 DEF IdleStealFirst, Created, queueVars, callVars
<1>10. ASSUME NEW c \in Cpu, IdleSteal(c) PROVE Created'
  <2>1. \A n \in Task : home[n] = None => home'[n] = None
    BY <1>10, SchedulerAssumption
    DEF IdleSteal, Steal, RqMove, Stealable, OnOneQueue, TypeOK, QueueTypes, LocalsOK, Stealing, queueVars
  <2> QED BY <1>10, <2>1 DEF IdleSteal, Created, Task
<1>11. ASSUME NEW c \in Cpu, NEW t \in Task, NEW n \in Thread, TaskCreate(c, t, n) PROVE Created'
  BY <1>11
  DEF TaskCreate, Caller, Created, NewIsUnstarted, TypeOK, TaskTypes, ControlTypes,
      queueVars, Task
<1>12. ASSUME NEW c \in Cpu, NEW t \in Task, TaskCreateAdd(c, t) PROVE Created'
  BY <1>12
  DEF TaskCreateAdd, Caller, RqAdd, NoOp, Created, TypeOK, QueueTypes, ControlTypes,
      queueVars, Task
<1>13. ASSUME NEW c \in Cpu, NEW t \in Task, TaskBlock(c, t) PROVE Created'
  BY <1>13 DEF TaskBlock, Caller, NoOp, Created, TypeOK, ControlTypes, queueVars
<1>14. ASSUME NEW c \in Cpu, NEW t \in Task, TaskBlockLocked(c, t) PROVE Created'
  BY <1>14
  DEF TaskBlockLocked, Caller, Runs, RqDel, NoOp, Created, Unstarted, TypeOK, TaskTypes,
      ControlTypes, queueVars, Task
<1>15. ASSUME NEW c \in Cpu, NEW t \in Task, TaskBlockReturn(c, t) PROVE Created'
  BY <1>15 DEF TaskBlockReturn, NoOp, Created, TypeOK, ControlTypes, queueVars
<1>16. ASSUME NEW c \in Cpu, NEW t \in Task, ReapZombies(c, t) PROVE Created'
  BY <1>16 DEF ReapZombies, Created, queueVars, callVars
<1>17. ASSUME NEW c \in Cpu, NEW t \in Task, TaskExit(c, t) PROVE Created'
  BY <1>17
  DEF TaskExit, Caller, Runs, Created, Unstarted, TypeOK, TaskTypes, ControlTypes,
      queueVars, Task
<1>18. ASSUME NEW c \in Cpu, NEW t \in Task, TaskExitDequeue(c, t) PROVE Created'
  BY <1>18 DEF TaskExitDequeue, RqDel, NoOp, Created, TypeOK, ControlTypes, queueVars
<1>19. ASSUME NEW t \in Task, TaskWakeup(t) PROVE Created'
  BY <1>19 DEF TaskWakeup, Created, queueVars, callVars
<1>20. ASSUME TaskWakeupLocked PROVE Created'
  BY <1>20
  DEF TaskWakeupLocked, RqAdd, Created, TypeOK, TaskTypes, QueueTypes, ControlTypes,
      queueVars, Task
<1>21. CASE UNCHANGED vars
  BY <1>21 DEF Created, vars, queueVars, callVars
<1>22. ASSUME NEW c \in Cpu, NEW t \in Task, TaskExitReap(c, t) PROVE Created'
  BY <1>22 DEF TaskExitReap, Caller, Created, TypeOK, ControlTypes, queueVars
<1>23. ASSUME NEW c \in Cpu, NEW t \in Task, AnnounceBlock(c, t) PROVE Created'
  BY <1>23 DEF AnnounceBlock, Caller, NoOp, Created, TypeOK, ControlTypes, queueVars
<1> QED BY <1>1, <1>2, <1>3, <1>4, <1>5, <1>6, <1>7, <1>8, <1>9, <1>10,
          <1>11, <1>12, <1>13, <1>14, <1>15, <1>16, <1>17, <1>18, <1>19,
          <1>20, <1>21, <1>22, <1>23
     DEF Next, Isr, IdleStep, ThreadCall

(* Exiting survives a step that neither reaps, exits nor touches a zombie.   *)
LEMMA ExitingKept ==
  ASSUME TypeOK, Exiting, UNCHANGED <<zombies, freed, op, gLock>>,
         \A u \in Thread : tstate[u] = "ZOMBIE" => tstate'[u] = "ZOMBIE" /\ home'[u] = home[u],
         \A u \in Task : tstate'[u] = "ZOMBIE" /\ onRq'[u] => tstate[u] = "ZOMBIE" /\ onRq[u]
  PROVE  Exiting'
BY DEF Exiting, TypeOK, TaskTypes, Task

(* Only the exiting task is a zombie on a queue, until it leaves the queue.  *)
LEMMA ExitingStep ==
  ASSUME TypeOK, LocalsOK, OnOneQueue, Created, Exiting, [Next]_vars
  PROVE  Exiting'
<1>1. ASSUME NEW c \in Cpu, IsrRequeue(c) PROVE Exiting'
  <2>1. tstate[current[c]] # "ZOMBIE" \/ UNCHANGED <<tstate, queueVars>>
    BY <1>1 DEF IsrRequeue
  <2>2. \A u \in Task : tstate[u] = "ZOMBIE" =>
          tstate'[u] = "ZOMBIE" /\ home'[u] = home[u] /\ onRq'[u] = onRq[u]
    BY <1>1, <2>1 DEF IsrRequeue, RqAdd, TypeOK, TaskTypes, QueueTypes, queueVars
  <2>3. \A u \in Task : tstate'[u] = "ZOMBIE" => tstate[u] = "ZOMBIE"
    BY <1>1 DEF IsrRequeue, TypeOK, TaskTypes
  <2> QED BY <1>1, <2>2, <2>3, ExitingKept DEF IsrRequeue, lockVars, callVars, Task
<1>2. ASSUME NEW c \in Cpu, IsrAccount(c) PROVE Exiting'
  BY <1>2 DEF IsrAccount, Exiting, queueVars, lockVars, callVars
<1>3. ASSUME NEW c \in Cpu, IsrPick(c) PROVE Exiting'
  <2>1. PICK t \in Task : /\ TakeNext(c, t) /\ next' = [next EXCEPT ![c] = t]
                          /\ tstate' = [tstate EXCEPT ![t] = "RUNNING"]
    BY <1>3 DEF IsrPick
  <2>2. tstate[t] # "ZOMBIE" \/ t \notin Thread
    BY <2>1, SchedulerAssumption DEF TakeNext, Eligible, IdleTasks
  <2>3. \A u \in Task : tstate'[u] = "ZOMBIE" => tstate[u] = "ZOMBIE" /\ u # t
    BY <2>1 DEF TypeOK, TaskTypes
  <2>4. UNCHANGED home /\ \A u \in Task \ {t} : onRq'[u] = onRq[u]
    BY <2>1 DEF TakeNext, RqDel, TypeOK, QueueTypes, queueVars
  <2> QED BY <1>3, <2>1, <2>2, <2>3, <2>4, ExitingKept
      DEF IsrPick, lockVars, callVars, TypeOK, TaskTypes, Task
<1>4. ASSUME NEW c \in Cpu, IsrBalance(c) PROVE Exiting'
  BY <1>4 DEF IsrBalance, Exiting, queueVars, lockVars, callVars
<1>5. ASSUME NEW c \in Cpu, IsrStealFirst(c) PROVE Exiting'
  BY <1>5 DEF IsrStealFirst, Exiting, queueVars, lockVars, callVars
<1>6. ASSUME NEW c \in Cpu, IsrSteal(c) PROVE Exiting'
  BY <1>6, ExitingKept
  DEF IsrSteal, Steal, RqMove, Stealable, TypeOK, QueueTypes, queueVars, Task
<1>7. ASSUME NEW c \in Cpu, IsrSwitch(c) PROVE Exiting'
  BY <1>7 DEF IsrSwitch, Exiting, queueVars, lockVars, callVars
<1>8. ASSUME NEW c \in Cpu, IdleBalance(c) PROVE Exiting'
  BY <1>8 DEF IdleBalance, Exiting, queueVars, lockVars, callVars
<1>9. ASSUME NEW c \in Cpu, IdleStealFirst(c) PROVE Exiting'
  BY <1>9 DEF IdleStealFirst, Exiting, queueVars, lockVars, callVars
<1>10. ASSUME NEW c \in Cpu, IdleSteal(c) PROVE Exiting'
  BY <1>10, ExitingKept
  DEF IdleSteal, Steal, RqMove, Stealable, TypeOK, QueueTypes, queueVars, Task
<1>11. ASSUME NEW c \in Cpu, NEW t \in Task, NEW n \in Thread, TaskCreate(c, t, n) PROVE Exiting'
  BY <1>11
  DEF TaskCreate, Exiting, Caller, TypeOK, TaskTypes, ControlTypes, queueVars, lockVars,
      Task
<1>12. ASSUME NEW c \in Cpu, NEW t \in Task, TaskCreateAdd(c, t) PROVE Exiting'
  <2> DEFINE n == op[t].task
             k == op[t].cpu
  <2>1. /\ UNCHANGED <<tstate, zombies, freed, gLock>> /\ op' = [op EXCEPT ![t] = NoOp]
        /\ op[t].pc = "create" /\ RqAdd(k, n)
    BY <1>12 DEF TaskCreateAdd, Caller, lockVars
  <2>2. n \in Task /\ tstate[n] # "ZOMBIE"
    BY <2>1 DEF Created, Task, TypeOK, ControlTypes
  <2> HIDE DEF n, k
  <2>3. \A u \in Task \ {n} : onRq'[u] = onRq[u] /\ home'[u] = home[u]
    BY <2>1 DEF RqAdd, TypeOK, QueueTypes, queueVars
  <2>4. \A u \in Task : IF u = t THEN op'[u] = NoOp ELSE op'[u] = op[u]
    BY <2>1 DEF TypeOK, ControlTypes
  <2> QED BY <2>1, <2>2, <2>3, <2>4 DEF Exiting, NoOp, Task
<1>13. ASSUME NEW c \in Cpu, NEW t \in Task, TaskBlock(c, t) PROVE Exiting'
  BY <1>13 DEF TaskBlock, Caller, Exiting, TypeOK, ControlTypes, queueVars, lockVars
<1>14. ASSUME NEW c \in Cpu, NEW t \in Task, TaskBlockLocked(c, t) PROVE Exiting'
  BY <1>14
  DEF TaskBlockLocked, Caller, Runs, RqDel, NoOp, Exiting, TypeOK, TaskTypes, QueueTypes,
      ControlTypes, queueVars, lockVars
<1>15. ASSUME NEW c \in Cpu, NEW t \in Task, TaskBlockReturn(c, t) PROVE Exiting'
  BY <1>15
  DEF TaskBlockReturn, Caller, NoOp, Exiting, TypeOK, ControlTypes, queueVars, lockVars
<1>16. ASSUME NEW c \in Cpu, NEW t \in Task, ReapZombies(c, t) PROVE Exiting'
  BY <1>16
  DEF ReapZombies, Reaped, Exiting, queueVars, lockVars, callVars, TypeOK, TaskTypes, Task
<1>17. ASSUME NEW c \in Cpu, NEW t \in Task, TaskExit(c, t) PROVE Exiting'
  <2>1. /\ t \in Thread /\ t \notin zombies \cup freed /\ gLock' = c /\ UNCHANGED queueVars
        /\ tstate' = [tstate EXCEPT ![t] = "ZOMBIE"]
        /\ op' = [op EXCEPT ![t] = [pc |-> "exit", cpu |-> home[t], task |-> None]]
        /\ zombies' = zombies \cup {t} /\ UNCHANGED freed
        /\ \A u \in Task : op[u].pc # "exit"
    BY <1>17 DEF TaskExit, Caller, Runs, QueueOfTask, LocalsOK, Exiting
  <2>2. /\ tstate'[t] = "ZOMBIE" /\ op'[t].pc = "exit" /\ op'[t].cpu = home'[t]
        /\ \A u \in Task \ {t} : tstate'[u] = tstate[u] /\ op'[u] = op[u]
        /\ UNCHANGED onRq /\ gLock' # None
    BY <2>1, SchedulerAssumption DEF TypeOK, TaskTypes, ControlTypes, queueVars, Task
  <2> QED BY <2>1, <2>2 DEF Exiting, TypeOK, TaskTypes, Task
<1>18. ASSUME NEW c \in Cpu, NEW t \in Task, TaskExitDequeue(c, t) PROVE Exiting'
  <2>1. /\ op[t].pc = "exit" /\ UNCHANGED <<tstate, zombies, freed>>
        /\ op' = [op EXCEPT ![t] = [NoOp EXCEPT !.pc = "dead"]]
    BY <1>18 DEF TaskExitDequeue
  <2>2. op'[t].pc = "dead" /\ \A u \in Task \ {t} : op'[u] = op[u] /\ op[u].pc # "exit"
    BY <2>1 DEF NoOp, Exiting, TypeOK, ControlTypes
  <2>3. ~onRq'[t] /\ \A u \in Task \ {t} : onRq'[u] = onRq[u]
    <3>1. op[t].cpu = home[t]
      BY <2>1 DEF Exiting
    <3>2. CASE onRq[t]
      <4>1. op[t].cpu \in Cpu /\ t \in rq[op[t].cpu] /\ op[t].cpu # None
        BY <3>1, <3>2, SchedulerAssumption DEF OnOneQueue
      <4> QED BY <1>18, <3>2, <4>1 DEF TaskExitDequeue, RqDel, TypeOK, QueueTypes
    <3>3. CASE ~onRq[t]
      BY <1>18, <3>3 DEF TaskExitDequeue, RqDel, queueVars
    <3> QED BY <3>2, <3>3 DEF TypeOK, QueueTypes
  <2> QED BY <2>1, <2>2, <2>3 DEF Exiting, TypeOK, TaskTypes, Task
<1>19. ASSUME NEW t \in Task, TaskWakeup(t) PROVE Exiting'
  BY <1>19 DEF TaskWakeup, Exiting, queueVars, lockVars, callVars
<1>20. ASSUME TaskWakeupLocked PROVE Exiting'
  <2>1. \A u \in Task : tstate[u] = "ZOMBIE" =>
          tstate'[u] = "ZOMBIE" /\ home'[u] = home[u] /\ onRq'[u] = onRq[u]
    BY <1>20 DEF TaskWakeupLocked, RqAdd, TypeOK, TaskTypes, QueueTypes, queueVars
  <2>2. \A u \in Task : tstate'[u] = "ZOMBIE" => tstate[u] = "ZOMBIE"
    BY <1>20 DEF TaskWakeupLocked, TypeOK, TaskTypes
  <2> QED BY <1>20, <2>1, <2>2, ExitingKept DEF TaskWakeupLocked, lockVars, Task
<1>21. CASE UNCHANGED vars
  BY <1>21 DEF Exiting, vars, queueVars, lockVars, callVars
<1>22. ASSUME NEW c \in Cpu, NEW t \in Task, TaskExitReap(c, t) PROVE Exiting'
  BY <1>22
  DEF TaskExitReap, Caller, Reaped, Exiting, TypeOK, TaskTypes, ControlTypes, queueVars, lockVars,
      Task
<1>23. ASSUME NEW c \in Cpu, NEW t \in Task, AnnounceBlock(c, t) PROVE Exiting'
  BY <1>23 DEF AnnounceBlock, Caller, Exiting, TypeOK, ControlTypes, queueVars, lockVars
<1> QED BY <1>1, <1>2, <1>3, <1>4, <1>5, <1>6, <1>7, <1>8, <1>9, <1>10,
          <1>11, <1>12, <1>13, <1>14, <1>15, <1>16, <1>17, <1>18, <1>19,
          <1>20, <1>21, <1>22, <1>23
     DEF Next, Isr, IdleStep, ThreadCall

(* A READY thread is on a queue, or about to be put on one by its creator.   *)
LEMMA ReadyIsQueuedStep ==
  ASSUME TypeOK, LocalsOK, OnOneQueue, Created, Exiting, ReadyIsQueued, [Next]_vars
  PROVE  ReadyIsQueued'
<1>1. ASSUME NEW c \in Cpu, IsrRequeue(c) PROVE ReadyIsQueued'
  BY <1>1
  DEF IsrRequeue, RqAdd, ReadyIsQueued, TypeOK, TaskTypes, QueueTypes, queueVars,
      callVars, Task
<1>2. ASSUME NEW c \in Cpu, IsrAccount(c) PROVE ReadyIsQueued'
  BY <1>2 DEF IsrAccount, ReadyIsQueued, queueVars, callVars
<1>3. ASSUME NEW c \in Cpu, IsrPick(c) PROVE ReadyIsQueued'
  <2>1. PICK t \in Task : /\ TakeNext(c, t) /\ next' = [next EXCEPT ![c] = t]
                          /\ tstate' = [tstate EXCEPT ![t] = "RUNNING"]
    BY <1>3 DEF IsrPick
  <2>2. \A u \in Task : tstate'[u] = "READY" => tstate[u] = "READY" /\ u # t
    BY <2>1 DEF TypeOK, TaskTypes
  <2>3. \A u \in Task \ {t} : onRq'[u] = onRq[u]
    BY <2>1 DEF TakeNext, RqDel, TypeOK, QueueTypes, queueVars
  <2> QED BY <1>3, <2>2, <2>3 DEF IsrPick, ReadyIsQueued, callVars, Task
<1>4. ASSUME NEW c \in Cpu, IsrBalance(c) PROVE ReadyIsQueued'
  BY <1>4 DEF IsrBalance, ReadyIsQueued, queueVars, callVars
<1>5. ASSUME NEW c \in Cpu, IsrStealFirst(c) PROVE ReadyIsQueued'
  BY <1>5 DEF IsrStealFirst, ReadyIsQueued, queueVars, callVars
<1>6. ASSUME NEW c \in Cpu, IsrSteal(c) PROVE ReadyIsQueued'
  BY <1>6 DEF IsrSteal, Steal, RqMove, ReadyIsQueued, queueVars
<1>7. ASSUME NEW c \in Cpu, IsrSwitch(c) PROVE ReadyIsQueued'
  BY <1>7 DEF IsrSwitch, ReadyIsQueued, queueVars, callVars
<1>8. ASSUME NEW c \in Cpu, IdleBalance(c) PROVE ReadyIsQueued'
  BY <1>8 DEF IdleBalance, ReadyIsQueued, queueVars, callVars
<1>9. ASSUME NEW c \in Cpu, IdleStealFirst(c) PROVE ReadyIsQueued'
  BY <1>9 DEF IdleStealFirst, ReadyIsQueued, queueVars, callVars
<1>10. ASSUME NEW c \in Cpu, IdleSteal(c) PROVE ReadyIsQueued'
  BY <1>10 DEF IdleSteal, Steal, RqMove, ReadyIsQueued, queueVars
<1>11. ASSUME NEW c \in Cpu, NEW t \in Task, NEW n \in Thread, TaskCreate(c, t, n) PROVE ReadyIsQueued'
  BY <1>11
  DEF TaskCreate, Caller, ReadyIsQueued, TypeOK, TaskTypes, ControlTypes, queueVars, Task
<1>12. ASSUME NEW c \in Cpu, NEW t \in Task, TaskCreateAdd(c, t) PROVE ReadyIsQueued'
  BY <1>12
  DEF TaskCreateAdd, Caller, RqAdd, NoOp, Created, ReadyIsQueued, TypeOK, QueueTypes,
      ControlTypes, queueVars, Task
<1>13. ASSUME NEW c \in Cpu, NEW t \in Task, TaskBlock(c, t) PROVE ReadyIsQueued'
  BY <1>13 DEF TaskBlock, Caller, ReadyIsQueued, TypeOK, ControlTypes, queueVars, Task
<1>14. ASSUME NEW c \in Cpu, NEW t \in Task, TaskBlockLocked(c, t) PROVE ReadyIsQueued'
  BY <1>14
  DEF TaskBlockLocked, Caller, RqDel, NoOp, ReadyIsQueued, TypeOK, TaskTypes, QueueTypes,
      ControlTypes, queueVars, Task
<1>15. ASSUME NEW c \in Cpu, NEW t \in Task, TaskBlockReturn(c, t) PROVE ReadyIsQueued'
  BY <1>15
  DEF TaskBlockReturn, Caller, NoOp, ReadyIsQueued, TypeOK, ControlTypes, queueVars, Task
<1>16. ASSUME NEW c \in Cpu, NEW t \in Task, ReapZombies(c, t) PROVE ReadyIsQueued'
  BY <1>16 DEF ReapZombies, ReadyIsQueued, queueVars, callVars
<1>17. ASSUME NEW c \in Cpu, NEW t \in Task, TaskExit(c, t) PROVE ReadyIsQueued'
  BY <1>17
  DEF TaskExit, Caller, ReadyIsQueued, TypeOK, TaskTypes, ControlTypes, queueVars, Task
<1>18. ASSUME NEW c \in Cpu, NEW t \in Task, TaskExitDequeue(c, t) PROVE ReadyIsQueued'
  <2>1. tstate[t] = "ZOMBIE" /\ UNCHANGED tstate
    BY <1>18 DEF TaskExitDequeue, Exiting
  <2>2. \A u \in Task \ {t} : onRq'[u] = onRq[u]
    BY <1>18 DEF TaskExitDequeue, RqDel, TypeOK, QueueTypes, queueVars
  <2>3. \A u \in Task : op[u].pc = "create" => op'[u] = op[u]
    BY <1>18 DEF TaskExitDequeue, TypeOK, ControlTypes
  <2> QED BY <2>1, <2>2, <2>3 DEF ReadyIsQueued, Task
<1>19. ASSUME NEW t \in Task, TaskWakeup(t) PROVE ReadyIsQueued'
  BY <1>19 DEF TaskWakeup, ReadyIsQueued, queueVars, callVars
<1>20. ASSUME TaskWakeupLocked PROVE ReadyIsQueued'
  BY <1>20
  DEF TaskWakeupLocked, RqAdd, ReadyIsQueued, TypeOK, TaskTypes, QueueTypes, queueVars,
      Task
<1>21. CASE UNCHANGED vars
  BY <1>21 DEF ReadyIsQueued, vars, queueVars, callVars
<1>22. ASSUME NEW c \in Cpu, NEW t \in Task, TaskExitReap(c, t) PROVE ReadyIsQueued'
  BY <1>22 DEF TaskExitReap, Caller, ReadyIsQueued, TypeOK, ControlTypes, queueVars, Task
<1>23. ASSUME NEW c \in Cpu, NEW t \in Task, AnnounceBlock(c, t) PROVE ReadyIsQueued'
  BY <1>23 DEF AnnounceBlock, Caller, ReadyIsQueued, TypeOK, ControlTypes, queueVars, Task
<1> QED BY <1>1, <1>2, <1>3, <1>4, <1>5, <1>6, <1>7, <1>8, <1>9, <1>10,
          <1>11, <1>12, <1>13, <1>14, <1>15, <1>16, <1>17, <1>18, <1>19,
          <1>20, <1>21, <1>22, <1>23
     DEF Next, Isr, IdleStep, ThreadCall

(* A RUNNING thread is on no queue and in some CPU's hands.                  *)
LEMMA HeldStep ==
  ASSUME TypeOK, LocalsOK, OnOneQueue, Created, HoldsLock, [Next]_vars
  PROVE  HoldsLock'
<1>1. ASSUME NEW c \in Cpu, IsrRequeue(c) PROVE HoldsLock'
  BY <1>1
  DEF IsrRequeue, IrqOn, InTask, RqAdd, HoldsLock, TypeOK, TaskTypes, QueueTypes, ControlTypes,
      queueVars, Task
<1>2. ASSUME NEW c \in Cpu, IsrAccount(c) PROVE HoldsLock'
  BY <1>2 DEF IsrAccount, HoldsLock, TypeOK, ControlTypes, queueVars
<1>3. ASSUME NEW c \in Cpu, IsrPick(c) PROVE HoldsLock'
  <2>1. PICK t \in Task : /\ TakeNext(c, t) /\ next' = [next EXCEPT ![c] = t]
                          /\ tstate' = [tstate EXCEPT ![t] = "RUNNING"]
    BY <1>3 DEF IsrPick
  <2>2. \A u \in Task : tstate'[u] = "RUNNING" => tstate[u] = "RUNNING" \/ u = t
    BY <2>1 DEF TypeOK, TaskTypes
  <2>3. \A u \in Task \ {t} : onRq'[u] = onRq[u]
    BY <2>1 DEF TakeNext, RqDel, TypeOK, QueueTypes, queueVars
  <2>4. t \in Thread \cup {InitTask} => ~onRq'[t]
    BY <2>1, SchedulerAssumption
    DEF TakeNext, Eligible, RqDel, TypeOK, QueueTypes, IdleTasks
  <2>5. next[c] = None /\ next'[c] = t /\ \A d \in Cpu \ {c} : next'[d] = next[d]
    BY <1>3, <2>1 DEF IsrPick, LocalsOK, HoldingNext, TypeOK, TaskTypes
  <2>6. UNCHANGED current /\ \A d \in Cpu : isr[d] = "off" => isr'[d] = "off"
    BY <1>3 DEF IsrPick, TypeOK, ControlTypes
  <2> QED BY <2>2, <2>3, <2>4, <2>5, <2>6, SchedulerAssumption DEF HoldsLock, Task
<1>4. ASSUME NEW c \in Cpu, IsrBalance(c) PROVE HoldsLock'
  BY <1>4 DEF IsrBalance, HoldsLock, TypeOK, ControlTypes, queueVars
<1>5. ASSUME NEW c \in Cpu, IsrStealFirst(c) PROVE HoldsLock'
  BY <1>5 DEF IsrStealFirst, HoldsLock, TypeOK, ControlTypes, queueVars
<1>6. ASSUME NEW c \in Cpu, IsrSteal(c) PROVE HoldsLock'
  BY <1>6 DEF IsrSteal, Steal, RqMove, HoldsLock, TypeOK, ControlTypes, queueVars
<1>7. ASSUME NEW c \in Cpu, IsrSwitch(c) PROVE HoldsLock'
  BY <1>7 DEF IsrSwitch, HoldsLock, TypeOK, TaskTypes, ControlTypes, queueVars
<1>8. ASSUME NEW c \in Cpu, IdleBalance(c) PROVE HoldsLock'
  BY <1>8 DEF IdleBalance, HoldsLock, queueVars, callVars
<1>9. ASSUME NEW c \in Cpu, IdleStealFirst(c) PROVE HoldsLock'
  BY <1>9 DEF IdleStealFirst, HoldsLock, queueVars, callVars
<1>10. ASSUME NEW c \in Cpu, IdleSteal(c) PROVE HoldsLock'
  BY <1>10 DEF IdleSteal, Steal, RqMove, HoldsLock, queueVars
<1>11. ASSUME NEW c \in Cpu, NEW t \in Task, NEW n \in Thread, TaskCreate(c, t, n) PROVE HoldsLock'
  BY <1>11 DEF TaskCreate, HoldsLock, TypeOK, TaskTypes, queueVars, Task
<1>12. ASSUME NEW c \in Cpu, NEW t \in Task, TaskCreateAdd(c, t) PROVE HoldsLock'
  BY <1>12
  DEF TaskCreateAdd, Caller, RqAdd, Created, HoldsLock, TypeOK, QueueTypes, queueVars, Task
<1>13. ASSUME NEW c \in Cpu, NEW t \in Task, TaskBlock(c, t) PROVE HoldsLock'
  BY <1>13 DEF TaskBlock, HoldsLock, queueVars, callVars
<1>14. ASSUME NEW c \in Cpu, NEW t \in Task, TaskBlockLocked(c, t) PROVE HoldsLock'
  BY <1>14 DEF TaskBlockLocked, RqDel, HoldsLock, TypeOK, TaskTypes, QueueTypes, queueVars, Task
<1>15. ASSUME NEW c \in Cpu, NEW t \in Task, TaskBlockReturn(c, t) PROVE HoldsLock'
  BY <1>15 DEF TaskBlockReturn, HoldsLock, queueVars, callVars
<1>16. ASSUME NEW c \in Cpu, NEW t \in Task, ReapZombies(c, t) PROVE HoldsLock'
  BY <1>16 DEF ReapZombies, HoldsLock, queueVars, callVars
<1>17. ASSUME NEW c \in Cpu, NEW t \in Task, TaskExit(c, t) PROVE HoldsLock'
  BY <1>17 DEF TaskExit, HoldsLock, TypeOK, TaskTypes, queueVars, Task
<1>18. ASSUME NEW c \in Cpu, NEW t \in Task, TaskExitDequeue(c, t) PROVE HoldsLock'
  BY <1>18 DEF TaskExitDequeue, RqDel, HoldsLock, TypeOK, QueueTypes, queueVars, Task
<1>19. ASSUME NEW t \in Task, TaskWakeup(t) PROVE HoldsLock'
  BY <1>19 DEF TaskWakeup, HoldsLock, queueVars, callVars
<1>20. ASSUME TaskWakeupLocked PROVE HoldsLock'
  BY <1>20 DEF TaskWakeupLocked, RqAdd, HoldsLock, TypeOK, TaskTypes, QueueTypes, queueVars, Task
<1>21. CASE UNCHANGED vars
  BY <1>21 DEF HoldsLock, vars, queueVars
<1>22. ASSUME NEW c \in Cpu, NEW t \in Task, TaskExitReap(c, t) PROVE HoldsLock'
  BY <1>22 DEF TaskExitReap, HoldsLock, queueVars
<1>23. ASSUME NEW c \in Cpu, NEW t \in Task, AnnounceBlock(c, t) PROVE HoldsLock'
  BY <1>23 DEF AnnounceBlock, HoldsLock, queueVars, callVars
<1> QED BY <1>1, <1>2, <1>3, <1>4, <1>5, <1>6, <1>7, <1>8, <1>9, <1>10,
          <1>11, <1>12, <1>13, <1>14, <1>15, <1>16, <1>17, <1>18, <1>19,
          <1>20, <1>21, <1>22, <1>23
     DEF Next, Isr, IdleStep, ThreadCall

(* There are finitely many tasks. *)
LEMMA TaskFinite == IsFiniteSet(Task)
<1>1. IsFiniteSet(IdleTasks)
  <2>1. Idle \in Surjection(Cpu, IdleTasks)
    BY SchedulerAssumption DEF Surjection, IdleTasks
  <2> QED BY <2>1, SchedulerAssumption, FS_Surjection
<1>2. IsFiniteSet(Thread) /\ IsFiniteSet({InitTask})
  BY SchedulerAssumption, FS_Singleton
<1> QED BY <1>1, <1>2, FS_Union DEF Task

(* What adding or removing a task does to a queue's length and weight.       *)
LEMMA SumAdd ==
  ASSUME NEW S \in SUBSET Task, NEW t \in Task, t \notin S
  PROVE  /\ Cardinality(S \cup {t}) = Cardinality(S) + 1
         /\ Sum(S \cup {t}) = Sum(S) + Weight(t)
         /\ Cardinality(S) \in Nat /\ Sum(S) \in Int
<1> DEFINE A == S \ IdleTasks  B == S \cap IdleTasks
<1>1. IsFiniteSet(S) /\ IsFiniteSet(A) /\ IsFiniteSet(B)
  BY TaskFinite, FS_Subset
<1>2. Cardinality(S) \in Nat /\ Cardinality(A) \in Nat /\ Cardinality(B) \in Nat
  BY <1>1, FS_CardinalityType
<1>3. Cardinality(S \cup {t}) = Cardinality(S) + 1
  BY <1>1, FS_AddElement
<1>4. Sum(S) = 1024 * Cardinality(A) + Cardinality(B)
  BY DEF Sum, NICE_0_WEIGHT
<1> HIDE DEF A, B
<1>5. CASE t \in IdleTasks
  <2>1. (S \cup {t}) \ IdleTasks = A /\ (S \cup {t}) \cap IdleTasks = B \cup {t}
    BY <1>5 DEF A, B
  <2>2. Cardinality(B \cup {t}) = Cardinality(B) + 1
    BY <1>1, FS_AddElement DEF A, B
  <2>3. Sum(S \cup {t}) = 1024 * Cardinality(A) + Cardinality(B \cup {t})
    BY <2>1 DEF Sum, NICE_0_WEIGHT
  <2> QED BY <1>2, <1>3, <1>4, <1>5, <2>2, <2>3 DEF Weight
<1>6. CASE t \notin IdleTasks
  <2>1. (S \cup {t}) \ IdleTasks = A \cup {t} /\ (S \cup {t}) \cap IdleTasks = B
    BY <1>6 DEF A, B
  <2>2. Cardinality(A \cup {t}) = Cardinality(A) + 1
    BY <1>1, FS_AddElement DEF A, B
  <2>3. Sum(S \cup {t}) = 1024 * Cardinality(A \cup {t}) + Cardinality(B)
    BY <2>1 DEF Sum, NICE_0_WEIGHT
  <2> QED BY <1>2, <1>3, <1>4, <1>6, <2>2, <2>3 DEF Weight, NICE_0_WEIGHT
<1> QED BY <1>5, <1>6

LEMMA SumRemove ==
  ASSUME NEW S \in SUBSET Task, NEW t \in S
  PROVE  /\ Cardinality(S \ {t}) = Cardinality(S) - 1
         /\ Sum(S \ {t}) = Sum(S) - Weight(t)
         /\ Cardinality(S) \in Nat /\ Sum(S) \in Int
<1> DEFINE R == S \ {t}
<1>1. R \in SUBSET Task /\ t \in Task /\ t \notin R /\ R \cup {t} = S
  OBVIOUS
<1>2. /\ Cardinality(S) = Cardinality(R) + 1 /\ Sum(S) = Sum(R) + Weight(t)
      /\ Cardinality(R) \in Nat /\ Sum(R) \in Int
  BY <1>1, SumAdd
<1> QED BY <1>2, WeightType

(* Every queue change counts what it adds, deletes or moves, exactly once.   *)
LEMMA CountsStep ==
  ASSUME TypeOK, LocalsOK, Created, OnOneQueue, CountsExact, [Next]_vars
  PROVE  CountsExact'
<1> DEFINE Count0(c) == IF c = Bsp THEN BootCount ELSE 0
           Load0(c) == IF c = Bsp THEN BootLoad ELSE 0
<1>1. \A c \in Cpu : Count0(c) \in Int /\ Load0(c) \in Int
  BY SchedulerAssumption
<1>2. /\ rq \in [Cpu -> SUBSET Task] /\ count \in [Cpu -> Int] /\ load \in [Cpu -> Int]
  BY DEF TypeOK, QueueTypes
<1>3. \A c \in Cpu : count[c] = Cardinality(rq[c]) + Count0(c) /\ load[c] = Sum(rq[c]) + Load0(c)
  BY DEF CountsExact
<1> SUFFICES \A d \in Cpu : /\ count'[d] = Cardinality(rq'[d]) + Count0(d)
                             /\ load'[d] = Sum(rq'[d]) + Load0(d)
  BY DEF CountsExact, Sum
<1> HIDE DEF Count0, Load0
<1>4. CASE UNCHANGED queueVars
  BY <1>4, <1>3 DEF queueVars
<1>5. ASSUME NEW c \in Cpu, NEW t \in Task, RqAdd(c, t), NEW d \in Cpu
      PROVE  /\ count'[d] = Cardinality(rq'[d]) + Count0(d)
             /\ load'[d] = Sum(rq'[d]) + Load0(d)
  <2>1. CASE onRq[t]
    BY <1>5, <2>1, <1>3 DEF RqAdd, queueVars
  <2>2. CASE ~onRq[t]
    <3>1. t \notin rq[c]
      BY <2>2 DEF OnOneQueue
    <3>2. /\ rq' = [rq EXCEPT ![c] = @ \cup {t}]
          /\ count' = [count EXCEPT ![c] = @ + 1] /\ load' = [load EXCEPT ![c] = @ + Weight(t)]
      BY <1>5, <2>2 DEF RqAdd
    <3>3. CASE d = c
      BY <3>1, <3>2, <3>3, <1>1, <1>2, <1>3, SumAdd, WeightType
    <3>4. CASE d # c
      BY <3>2, <3>4, <1>2, <1>3
    <3> QED BY <3>3, <3>4
  <2> QED BY <2>1, <2>2
<1>6. ASSUME NEW c \in Cpu, NEW t \in Task, RqDel(c, t), NEW d \in Cpu
      PROVE  /\ count'[d] = Cardinality(rq'[d]) + Count0(d)
             /\ load'[d] = Sum(rq'[d]) + Load0(d)
  <2>1. CASE ~(onRq[t] /\ t \in rq[c])
    BY <1>6, <2>1, <1>3 DEF RqDel, queueVars
  <2>2. CASE onRq[t] /\ t \in rq[c]
    <3>1. /\ rq' = [rq EXCEPT ![c] = @ \ {t}]
          /\ count' = [count EXCEPT ![c] = @ - 1] /\ load' = [load EXCEPT ![c] = @ - Weight(t)]
      BY <1>6, <2>2 DEF RqDel
    <3>2. CASE d = c
      BY <2>2, <3>1, <3>2, <1>1, <1>2, <1>3, SumRemove, WeightType
    <3>3. CASE d # c
      BY <3>1, <3>3, <1>2, <1>3
    <3> QED BY <3>2, <3>3
  <2> QED BY <2>1, <2>2
<1>7. ASSUME NEW c \in Cpu, NEW v \in Cpu, c # v, NEW t \in Stealable(v), RqMove(v, c, t),
             NEW d \in Cpu
      PROVE  /\ count'[d] = Cardinality(rq'[d]) + Count0(d)
             /\ load'[d] = Sum(rq'[d]) + Load0(d)
  <2>1. t \in rq[v] /\ t \in Task /\ t \notin rq[c]
    BY <1>7, <1>2 DEF Stealable, OnOneQueue
  <2>2. /\ rq' = [rq EXCEPT ![v] = @ \ {t}, ![c] = @ \cup {t}]
        /\ count' = [count EXCEPT ![v] = @ - 1, ![c] = @ + 1]
        /\ load' = [load EXCEPT ![v] = @ - Weight(t), ![c] = @ + Weight(t)]
    BY <1>7 DEF RqMove
  <2>3. CASE d = v
    BY <1>7, <2>1, <2>2, <2>3, <1>1, <1>2, <1>3, SumRemove, WeightType
  <2>4. CASE d = c
    <3>1. /\ rq'[c] = rq[c] \cup {t} /\ count'[c] = count[c] + 1
          /\ load'[c] = load[c] + Weight(t)
      BY <1>7, <2>2, <1>2
    <3> QED BY <2>1, <2>4, <3>1, <1>1, <1>2, <1>3, SumAdd, WeightType
  <2>5. CASE d # c /\ d # v
    BY <2>2, <2>5, <1>2, <1>3
  <2> QED BY <2>3, <2>4, <2>5
<1> QED BY <1>4, <1>5, <1>6, <1>7, QueueStep DEF QueueChange

(* A CPU holds a run-queue lock across steps only between the two locks of a *)
(* steal, and then it does nothing else.                                     *)
LEMMA LocksStep ==
  ASSUME TypeOK, LocalsOK, Created, LocksOK, [Next]_vars
  PROVE  LocksOK'
<1>1. ASSUME NEW c \in Cpu, IsrRequeue(c) PROVE LocksOK'
  BY <1>1
  DEF IsrRequeue, IrqOn, InTask, HoldsNone, FirstLock, LocksOK, LocalsOK, Stealing,
      TypeOK, ControlTypes, lockVars, callVars
<1>2. ASSUME NEW c \in Cpu, IsrAccount(c) PROVE LocksOK'
  BY <1>2, SchedulerAssumption
  DEF IsrAccount, FirstLock, LocksOK, TypeOK, ControlTypes, lockVars, callVars
<1>3. ASSUME NEW c \in Cpu, IsrPick(c) PROVE LocksOK'
  BY <1>3 DEF IsrPick, FirstLock, LocksOK, TypeOK, ControlTypes, lockVars, callVars
<1>4. ASSUME NEW c \in Cpu, IsrBalance(c) PROVE LocksOK'
  BY <1>4 DEF IsrBalance, FirstLock, LocksOK, TypeOK, ControlTypes, lockVars
<1>5. ASSUME NEW c \in Cpu, IsrStealFirst(c) PROVE LocksOK'
  <2>1. CASE isr' = [isr EXCEPT ![c] = "switch"]
    BY <1>5, <2>1 DEF IsrStealFirst, FirstLock, LocksOK, TypeOK, ControlTypes
  <2>2. CASE isr' # [isr EXCEPT ![c] = "switch"]
    <3>1. /\ isr' = [isr EXCEPT ![c] = "steal2"] /\ UNCHANGED <<victim, idling, gLock>>
          /\ rqLock' = [rqLock EXCEPT ![FirstLock(c, victim[c].isr)] = c]
          /\ rqLock[FirstLock(c, victim[c].isr)] = None /\ isr[c] = "steal"
      BY <1>5, <2>2 DEF IsrStealFirst
    <3>2. FirstLock(c, victim[c].isr) \in Cpu
      BY <3>1, LocksAreCpus DEF LocalsOK, Stealing
    <3> QED BY <3>1, <3>2, SchedulerAssumption DEF LocksOK, TypeOK, ControlTypes
  <2> QED BY <2>1, <2>2
<1>6. ASSUME NEW c \in Cpu, IsrSteal(c) PROVE LocksOK'
  BY <1>6, SchedulerAssumption
  DEF IsrSteal, FirstLock, LocksOK, LocalsOK, Stealing, TypeOK, ControlTypes
<1>7. ASSUME NEW c \in Cpu, IsrSwitch(c) PROVE LocksOK'
  BY <1>7 DEF IsrSwitch, FirstLock, LocksOK, TypeOK, ControlTypes, lockVars, callVars
<1>8. ASSUME NEW c \in Cpu, IdleBalance(c) PROVE LocksOK'
  BY <1>8 DEF IdleBalance, Runs, FirstLock, LocksOK, TypeOK, ControlTypes, lockVars
<1>9. ASSUME NEW c \in Cpu, IdleStealFirst(c) PROVE LocksOK'
  BY <1>9, SchedulerAssumption
  DEF IdleStealFirst, Runs, IrqOn, InTask, HoldsNone, FirstLock, LocksOK, LocalsOK,
      Stealing, TypeOK, ControlTypes
<1>10. ASSUME NEW c \in Cpu, IdleSteal(c) PROVE LocksOK'
  BY <1>10, SchedulerAssumption
  DEF IdleSteal, InTask, FirstLock, LocksOK, LocalsOK, Stealing, TypeOK, ControlTypes
<1>11. ASSUME NEW c \in Cpu, NEW t \in Task, NEW n \in Thread, TaskCreate(c, t, n) PROVE LocksOK'
  BY <1>11 DEF TaskCreate, LocksOK, FirstLock, lockVars, callVars
<1>12. ASSUME NEW c \in Cpu, NEW t \in Task, TaskCreateAdd(c, t) PROVE LocksOK'
  BY <1>12 DEF TaskCreateAdd, LocksOK, FirstLock, lockVars, callVars
<1>13. ASSUME NEW c \in Cpu, NEW t \in Task, TaskBlock(c, t) PROVE LocksOK'
  BY <1>13 DEF TaskBlock, LocksOK, FirstLock, lockVars, callVars
<1>14. ASSUME NEW c \in Cpu, NEW t \in Task, TaskBlockLocked(c, t) PROVE LocksOK'
  BY <1>14 DEF TaskBlockLocked, LocksOK, FirstLock, lockVars, callVars
<1>15. ASSUME NEW c \in Cpu, NEW t \in Task, TaskBlockReturn(c, t) PROVE LocksOK'
  BY <1>15 DEF TaskBlockReturn, LocksOK, FirstLock, lockVars, callVars
<1>16. ASSUME NEW c \in Cpu, NEW t \in Task, ReapZombies(c, t) PROVE LocksOK'
  BY <1>16 DEF ReapZombies, LocksOK, FirstLock, lockVars, callVars
<1>17. ASSUME NEW c \in Cpu, NEW t \in Task, TaskExit(c, t) PROVE LocksOK'
  BY <1>17
  DEF TaskExit, Caller, Runs, IrqOn, InTask, HoldsNone, FirstLock, LocksOK, LocalsOK,
      Stealing, TypeOK, ControlTypes
<1>18. ASSUME NEW c \in Cpu, NEW t \in Task, TaskExitDequeue(c, t) PROVE LocksOK'
  BY <1>18, SchedulerAssumption
  DEF TaskExitDequeue, FirstLock, LocksOK, TypeOK, ControlTypes
<1>19. ASSUME NEW t \in Task, TaskWakeup(t) PROVE LocksOK'
  BY <1>19 DEF TaskWakeup, LocksOK, FirstLock, lockVars, callVars
<1>20. ASSUME TaskWakeupLocked PROVE LocksOK'
  BY <1>20 DEF TaskWakeupLocked, LocksOK, FirstLock, lockVars, callVars
<1>21. CASE UNCHANGED vars
  BY <1>21 DEF LocksOK, FirstLock, vars, lockVars, callVars
<1>22. ASSUME NEW c \in Cpu, NEW t \in Task, TaskExitReap(c, t) PROVE LocksOK'
  BY <1>22 DEF TaskExitReap, LocksOK, FirstLock, lockVars
<1>23. ASSUME NEW c \in Cpu, NEW t \in Task, AnnounceBlock(c, t) PROVE LocksOK'
  BY <1>23 DEF AnnounceBlock, LocksOK, FirstLock, lockVars, callVars
<1> QED BY <1>1, <1>2, <1>3, <1>4, <1>5, <1>6, <1>7, <1>8, <1>9, <1>10,
          <1>11, <1>12, <1>13, <1>14, <1>15, <1>16, <1>17, <1>18, <1>19,
          <1>20, <1>21, <1>22, <1>23
     DEF Next, Isr, IdleStep, ThreadCall

------------------------------------------------------------------------------
(* The state the scheduler is in after the BSP's first tick satisfies IInv.  *)
LEMMA InitIInv == Init => IInv
<1> SUFFICES ASSUME Init PROVE IInv
  OBVIOUS
<1>1. \A t \in IdleTasks : (CHOOSE c \in Cpu : Idle[c] = t) \in Cpu
  BY DEF IdleTasks
<1>2. QueueTypes
  BY <1>1, SchedulerAssumption DEF Init, QueueTypes, Task
<1>3. TaskTypes
  BY SchedulerAssumption DEF Init, TaskTypes, Task, IdleTasks
<1>4. ControlTypes
  BY SchedulerAssumption DEF Init, ControlTypes, IsrPhases, OpPhases, NoOp, NoWake
<1>5. LocalsOK
  BY DEF Init, LocalsOK, HoldingNext, Stealing, NoOp
<1>6. OnOneQueue
  BY DEF Init, OnOneQueue
<1>7. CountsExact
  <2>1. Cardinality({}) = 0 /\ Sum({}) = 0
    BY FS_EmptySet DEF Sum, NICE_0_WEIGHT
  <2> QED BY <2>1, SchedulerAssumption DEF Init, CountsExact
<1>8. Unstarted
  <2>1. \A t \in Task : home[t] = None => t \in Thread
    BY <1>1, SchedulerAssumption DEF Init, Task
  <2>2. \A c \in Cpu : current[c] \notin Thread /\ next[c] \notin Thread
    BY SchedulerAssumption DEF Init, Task, IdleTasks
  <2> QED BY <2>1, <2>2 DEF Unstarted
<1>9. NewIsUnstarted
  BY SchedulerAssumption DEF Init, NewIsUnstarted, Task
<1>10. Created /\ Exiting
  BY DEF Init, Created, Exiting, NoOp
<1>11. ReadyIsQueued
  BY SchedulerAssumption DEF Init, ReadyIsQueued, Task, IdleTasks
<1>12. HoldsLock
  <2>1. \A t \in Thread \cup {InitTask} : tstate[t] = "RUNNING" => t = InitTask
    BY SchedulerAssumption DEF Init, Task
  <2>2. current[Bsp] = InitTask /\ isr[Bsp] = "off" /\ ~onRq[InitTask]
    BY SchedulerAssumption DEF Init, Task
  <2> QED BY <2>1, <2>2, SchedulerAssumption DEF HoldsLock
<1>13. LocksOK
  BY SchedulerAssumption DEF Init, LocksOK
<1> QED BY <1>2, <1>3, <1>4, <1>5, <1>6, <1>7, <1>8, <1>9, <1>10, <1>11, <1>12, <1>13
        DEF IInv, TypeOK

(* Every step preserves IInv. *)
LEMMA StepIInv == IInv /\ [Next]_vars => IInv'
<1> SUFFICES ASSUME IInv, [Next]_vars PROVE IInv'
  OBVIOUS
<1>1. TypeOK'
  BY QueueTypesStep, TaskTypesStep, ControlTypesStep DEF IInv, TypeOK
<1>2. LocalsOK' /\ OnOneQueue' /\ CountsExact'
  BY LocalsStep, OnOneQueueStep, CountsStep DEF IInv
<1>3. Unstarted' /\ NewIsUnstarted' /\ Created' /\ ReadyIsQueued'
  BY UnstartedStep, NewIsUnstartedStep, CreatedStep, ReadyIsQueuedStep DEF IInv
<1>4. Exiting' /\ HoldsLock' /\ LocksOK'
  BY ExitingStep, HeldStep, LocksStep DEF IInv
<1> QED BY <1>1, <1>2, <1>3, <1>4 DEF IInv

(* IInv holds in every reachable state. *)
THEOREM Inductive == Spec => []IInv
BY InitIInv, StepIInv, PTL DEF Spec

(* The scheduling fields and the program counters always keep their types.   *)
THEOREM TypeCorrect == Spec => []TypeOK
<1>1. IInv => TypeOK
  BY DEF IInv
<1> QED BY <1>1, Inductive, PTL

(* ScheduleFromIsr, TryStealFrom, TaskBlock, TaskWakeup, TaskCreate and      *)
(* TaskExit never leave a task on two CPUs' queues, on any number of CPUs.   *)
THEOREM QueuesDisjoint == Spec => []OnOneQueue
<1>1. IInv => OnOneQueue
  BY DEF IInv
<1> QED BY <1>1, Inductive, PTL

(* RunQueueCount and Load, which placement and balancing read, are exact up to *)
(* what boot left in the BSP's, however many CPUs move tasks at once.        *)
THEOREM QueuesCounted == Spec => []CountsExact
<1>1. IInv => CountsExact
  BY DEF IInv
<1> QED BY <1>1, Inductive, PTL

(* A READY thread is always on some queue, or its creator is about to add it. *)
THEOREM NoReadyThreadLost == Spec => []ReadyIsQueued
<1>1. IInv => ReadyIsQueued
  BY DEF IInv
<1> QED BY <1>1, Inductive, PTL

(* A RUNNING thread is on no queue and some CPU has it current or next.      *)
THEOREM RunningThreadHeld == Spec => []RunningIsHeld
<1>1. IInv => RunningIsHeld
  BY DEF IInv, HoldsLock, RunningIsHeld
<1> QED BY <1>1, Inductive, PTL

(* What ReapZombies frees is on no run queue: TaskExit dequeues the task     *)
(* before it lets go of GSchedLock.                                          *)
THEOREM ReapedOffQueues == Spec => []FreedNotQueued
<1>1. IInv => FreedNotQueued
  <2> SUFFICES ASSUME IInv, NEW t \in freed, onRq[t] PROVE FALSE
    BY DEF FreedNotQueued
  <2>1. t \in Task /\ tstate[t] = "ZOMBIE" /\ op[t].pc # "exit"
    BY DEF IInv, Exiting, TypeOK, TaskTypes, Task
  <2> QED BY <2>1 DEF IInv, Exiting
<1> QED BY <1>1, Inductive, PTL

(* LockTwoPrqs' order works: no two CPUs ever wait for each other's locks,   *)
(* whichever of them steal and whichever run TaskExit under GSchedLock.      *)
THEOREM NoDeadlockOnLocks == Spec => []NoCircularWait
<1>1. IInv => NoCircularWait
  <2> SUFFICES ASSUME IInv, NEW c \in Cpu, NEW d \in Cpu, c # d,
                      WaitsFor(c, d), WaitsFor(d, c)
               PROVE  FALSE
    BY DEF NoCircularWait
  <2>1. PICK k \in Needed(c) : rqLock[k] = d
    BY DEF WaitsFor
  <2>2. PICK l \in Needed(d) : rqLock[l] = c
    BY DEF WaitsFor
  <2>3. k \in Cpu /\ l \in Cpu
    BY DEF Needed
  <2>4. /\ (isr[d] = "steal2" /\ k = FirstLock(d, victim[d].isr))
           \/ (idling[d] = "steal2" /\ k = FirstLock(d, victim[d].idle))
        /\ (isr[c] = "steal2" /\ l = FirstLock(c, victim[c].isr))
           \/ (idling[c] = "steal2" /\ l = FirstLock(c, victim[c].idle))
    BY <2>1, <2>2, <2>3 DEF IInv, LocksOK
  <2>5. gLock # c /\ gLock # d
    BY <2>4 DEF IInv, LocksOK
  <2>6. k > l
    BY <2>1, <2>3, <2>4, <2>5, SchedulerAssumption
    DEF IInv, LocksOK, LocalsOK, Stealing, Needed, FirstLock, SecondLock
  <2>7. l > k
    BY <2>2, <2>3, <2>4, <2>5, SchedulerAssumption
    DEF IInv, LocksOK, LocalsOK, Stealing, Needed, FirstLock, SecondLock
  <2> QED BY <2>3, <2>6, <2>7, SchedulerAssumption
<1> QED BY <1>1, Inductive, PTL
------------------------------------------------------------------------------
(* Starting and stopping: a CPU that stopped the others by the count of all of *)
(* them is alone, and every CPU was brought up when SmpInit ends in time.      *)
Places == {"runs", "parked", "enters", "counts", "panics", "shuts", "sends", "waits", "alone", "halted",
           "dead"}
Waited == {"total", "halted", "stop", "ready"}
Halted == {c \in SmpCpu : at[c] = "halted"}
Uncounted == {c \in Aps : at[c] \in {"parked", "enters", "counts"}}

SmpTyped ==
  /\ at \in [SmpCpu -> Places]
  /\ bringup \in {"launch", "launched"} \cup Waited
  /\ nextAp \in 0..N /\ late \in BOOLEAN
  /\ online \subseteq SmpCpu /\ BootCpu \in online
  /\ totalCount \in Nat /\ haltedCount \in Nat /\ apStarted \in Nat

(* A CPU is halted once, by the NMI it took, so the count since ClearHalted    *)
(* never exceeds the CPUs that are.                                            *)
StopInv ==
  /\ Halted \subseteq inNmi
  /\ haltedCount <= Cardinality(Halted)
  /\ AloneIsAlone

(* Without a time-out SmpInit is past nobody who is not online, and GApStarted *)
(* counts nobody who has not started.                                          *)
StartInv ==
  /\ bringup = "launched" => nextAp \in SmpCpu
  /\ ~late => \A c \in SmpCpu : c < nextAp => c \in online
  /\ apStarted + Cardinality(Uncounted) <= N - 1
  /\ bringup \in Waited /\ ~late => nextAp = N /\ apStarted >= N - 1

SmpInv == SmpTyped /\ StopInv /\ StartInv
------------------------------------------------------------------------------
LEMMA CpusFinite ==
  ASSUME SmpAssumption
  PROVE  /\ IsFiniteSet(SmpCpu) /\ N \in Nat /\ N >= 1 /\ Cardinality(SmpCpu) = N
         /\ IsFiniteSet(Aps) /\ Cardinality(Aps) = N - 1
         /\ SmpCpu = 0..(N - 1) /\ BootCpu \in SmpCpu
<1>1. N \in Nat /\ SmpCpu = 0..(N - 1) /\ BootCpu \in SmpCpu
  BY DEF SmpAssumption
<1>2. IsFiniteSet(0..(N - 1))
  BY <1>1, FS_Interval
<1>3. IsFiniteSet(SmpCpu) /\ Cardinality(SmpCpu) = N
  BY <1>1, <1>2 DEF N
<1>4. IsFiniteSet(Aps) /\ Cardinality(Aps) = N - 1
  <2> HIDE DEF N
  <2>1. IsFiniteSet(SmpCpu \ {BootCpu}) /\ Cardinality(SmpCpu \ {BootCpu}) = Cardinality(SmpCpu) - 1
    BY <1>1, <1>3, FS_RemoveElement
  <2> QED BY <1>3, <2>1 DEF Aps
<1>5. N >= 1
  <2> HIDE DEF N
  <2> QED BY <1>1
<1> QED BY <1>1, <1>3, <1>4, <1>5

(* A part of the CPUs is finite; one more or one less of it counts as such.    *)
LEMMA PartFinite ==
  ASSUME SmpAssumption, NEW S, S \subseteq SmpCpu
  PROVE  /\ IsFiniteSet(S) /\ Cardinality(S) \in Nat
         /\ \A T \in SUBSET S : Cardinality(T) <= Cardinality(S)
         /\ \A c : c \notin S => Cardinality(S \cup {c}) = Cardinality(S) + 1
         /\ \A c \in S : Cardinality(S \ {c}) = Cardinality(S) - 1
<1>1. IsFiniteSet(S) /\ Cardinality(S) \in Nat
  BY CpusFinite, FS_Subset, FS_CardinalityType
<1>2. \A T \in SUBSET S : Cardinality(T) <= Cardinality(S)
  BY <1>1, FS_Subset
<1>3. \A c : c \notin S => Cardinality(S \cup {c}) = Cardinality(S) + 1
  BY <1>1, FS_AddElement
<1>4. \A c \in S : Cardinality(S \ {c}) = Cardinality(S) - 1
  BY <1>1, FS_RemoveElement
<1> QED BY <1>1, <1>2, <1>3, <1>4

(* All but one of the CPUs that are not c are all of them.                     *)
LEMMA AllButOne ==
  ASSUME SmpAssumption, NEW c \in SmpCpu, NEW S, S \subseteq SmpCpu \ {c}, Cardinality(S) >= N - 1
  PROVE  S = SmpCpu \ {c}
<1> DEFINE R == SmpCpu \ {c}
<1>1. IsFiniteSet(R) /\ Cardinality(R) = N - 1
  BY CpusFinite, FS_RemoveElement
<1>2. S \subseteq R
  OBVIOUS
<1> HIDE DEF R
<1>3. Cardinality(S) <= Cardinality(R) /\ (Cardinality(S) = Cardinality(R) => S = R) /\ Cardinality(S) \in Nat
  BY <1>1, <1>2, FS_Subset, FS_CardinalityType
<1>4. Cardinality(S) = Cardinality(R)
  BY <1>1, <1>3, CpusFinite
<1> QED BY <1>3, <1>4 DEF R
------------------------------------------------------------------------------
LEMMA SmpInit == SmpAssumption /\ SmpStart => SmpInv
<1> SUFFICES ASSUME SmpAssumption, SmpStart
             PROVE  SmpInv
  OBVIOUS
<1>1. SmpTyped
  <2>1. at \in [SmpCpu -> Places]
    BY DEF SmpStart, Places
  <2>2. 0 \in 0..N
    BY CpusFinite
  <2> QED BY <2>1, <2>2, CpusFinite DEF SmpStart, SmpTyped
<1>2. Halted = {}
  BY DEF Halted, SmpStart
<1>3. StopInv
  BY <1>2, FS_EmptySet DEF StopInv, SmpStart, AloneIsAlone
<1>4. Cardinality(Uncounted) <= N - 1 /\ Cardinality(Uncounted) \in Nat
  <2>1. Uncounted \subseteq Aps /\ Aps \subseteq SmpCpu
    BY DEF Uncounted, Aps
  <2> QED BY <2>1, PartFinite, CpusFinite
<1>5. StartInv
  BY <1>4, CpusFinite DEF StartInv, SmpStart, Waited
<1> QED BY <1>1, <1>3, <1>5 DEF SmpInv

(* A step at which no CPU moves except c, and c to a place where it counts as  *)
(* little as before.                                                           *)
LEMMA StopKeeps ==
  ASSUME SmpAssumption, SmpTyped, StopInv, NEW c \in SmpCpu, NEW to \in Places,
         at[c] # "halted", to \notin {"halted", "alone"}, at' = [at EXCEPT ![c] = to],
         haltedCount' \in {haltedCount, 0}, inNmi \subseteq inNmi', left' = left
  PROVE  StopInv'
<1>1. \A d \in SmpCpu : at'[d] = IF d = c THEN to ELSE at[d]
  BY DEF SmpTyped
<1>2. Halted' = Halted
  BY <1>1 DEF Halted
<1>3. AloneIsAlone'
  BY <1>1 DEF StopInv, AloneIsAlone
<1>4. haltedCount' <= Cardinality(Halted)
  <2>1. Halted \subseteq SmpCpu
    BY DEF Halted
  <2> QED BY <2>1, PartFinite DEF StopInv, SmpTyped
<1> QED BY <1>2, <1>3, <1>4 DEF StopInv

LEMMA StopSame ==
  ASSUME SmpAssumption, SmpTyped, StopInv, at' = at, inNmi' = inNmi, left' = left,
         haltedCount' \in {haltedCount, 0}
  PROVE  StopInv'
<1>1. Halted' = Halted /\ Halted \subseteq SmpCpu
  BY DEF Halted
<1>2. AloneIsAlone'
  BY DEF StopInv, AloneIsAlone
<1>3. haltedCount' <= Cardinality(Halted)
  BY <1>1, PartFinite DEF StopInv, SmpTyped
<1> QED BY <1>1, <1>2, <1>3 DEF StopInv

LEMMA StartKeeps ==
  ASSUME SmpAssumption, SmpTyped, StartInv, UNCHANGED starting, SmpTyped',
         NEW c \in SmpCpu, at' = [at EXCEPT ![c] = at'[c]],
         at'[c] \notin {"parked", "enters", "counts"}
  PROVE  StartInv'
<1>1. Uncounted' \subseteq Uncounted
  BY DEF Uncounted, Aps, SmpTyped
<1>2. Uncounted \subseteq SmpCpu
  BY DEF Uncounted, Aps
<1>3. Cardinality(Uncounted') <= Cardinality(Uncounted) /\ Cardinality(Uncounted) \in Nat
      /\ Cardinality(Uncounted') \in Nat
  BY <1>1, <1>2, PartFinite
<1>4. apStarted' + Cardinality(Uncounted') <= N - 1
  BY <1>3, CpusFinite DEF StartInv, starting, SmpTyped
<1> QED BY <1>4 DEF StartInv, starting

LEMMA StartSame ==
  ASSUME SmpTyped, StartInv, at' = at
  PROVE  Uncounted' = Uncounted
BY DEF Uncounted
------------------------------------------------------------------------------
(* SmpInit, on the boot CPU. *)
LEMMA BringUpStep ==
  ASSUME SmpAssumption, SmpInv,
         LaunchAp \/ AwaitOnline \/ AwaitStarted \/ SetTotal \/ ClearHalted \/ ClearStop
  PROVE  SmpInv'
<1>1. SmpTyped /\ StopInv /\ StartInv
  BY DEF SmpInv
<1>2. /\ UNCHANGED <<at, online, apStarted, inNmi, left>>
      /\ haltedCount' \in {haltedCount, 0}
  BY DEF LaunchAp, AwaitOnline, AwaitStarted, SetTotal, ClearHalted, ClearStop, Boots
<1>3. StopInv'
  BY <1>1, <1>2, StopSame
<1>4. Uncounted' = Uncounted
  BY <1>2 DEF Uncounted
<1>5. apStarted' + Cardinality(Uncounted') <= N - 1
  BY <1>1, <1>2, <1>4 DEF StartInv
<1>6. /\ N \in Nat /\ SmpCpu = 0..(N - 1) /\ nextAp \in 0..N
      /\ (nextAp \in SmpCpu => nextAp + 1 \in 0..N) /\ (nextAp \notin SmpCpu => nextAp = N)
  <2> HIDE DEF N
  <2> QED BY <1>1, CpusFinite DEF SmpTyped
<1>7. CASE LaunchAp
  <2>1. SmpTyped'
    BY <1>1, <1>2, <1>6, <1>7 DEF LaunchAp, Boots, SmpTyped
  <2>2. ~late' => \A c \in SmpCpu : c < nextAp' => c \in online'
    <3> SUFFICES ASSUME ~late, NEW c \in SmpCpu, c < nextAp'
                 PROVE  c \in online
      BY <1>2, <1>7 DEF LaunchAp
    <3>1. c < nextAp \/ c = BootCpu
      BY <1>6, <1>7 DEF LaunchAp, Boots
    <3> QED BY <1>1, <3>1 DEF StartInv, SmpTyped
  <2>3. bringup' = "launched" => nextAp' \in SmpCpu
    BY <1>7 DEF LaunchAp, Boots
  <2>4. bringup' \notin Waited
    BY <1>7 DEF LaunchAp, Boots, Waited
  <2> QED BY <1>3, <1>5, <2>1, <2>2, <2>3, <2>4 DEF SmpInv, StartInv
<1>8. CASE AwaitOnline
  <2>1. nextAp \in SmpCpu
    BY <1>1, <1>8 DEF AwaitOnline, Boots, StartInv
  <2>2. SmpTyped'
    BY <1>1, <1>2, <1>6, <1>8, <2>1 DEF AwaitOnline, Boots, SmpTyped
  <2>3. ~late' => \A c \in SmpCpu : c < nextAp' => c \in online'
    <3> SUFFICES ASSUME ~late', NEW c \in SmpCpu, c < nextAp'
                 PROVE  c \in online
      BY <1>2
    <3>1. ~late /\ nextAp \in online
      BY <1>8 DEF AwaitOnline
    <3>2. c < nextAp \/ c = nextAp
      BY <1>6, <1>8 DEF AwaitOnline
    <3> QED BY <1>1, <3>1, <3>2 DEF StartInv
  <2>4. bringup' = "launch"
    BY <1>8 DEF AwaitOnline, Boots
  <2> QED BY <1>3, <1>5, <2>2, <2>3, <2>4 DEF SmpInv, StartInv, Waited
<1>9. CASE AwaitStarted
  <2>1. SmpTyped'
    BY <1>1, <1>2, <1>6, <1>9 DEF AwaitStarted, Boots, SmpTyped, Waited
  <2>2. bringup' = "total" /\ nextAp' = N /\ (~late' => ~late /\ apStarted >= N - 1)
    BY <1>6, <1>9 DEF AwaitStarted, Boots
  <2> QED BY <1>1, <1>2, <1>3, <1>5, <1>6, <1>9, <2>1, <2>2 DEF SmpInv, StartInv, AwaitStarted
<1>10. CASE SetTotal \/ ClearHalted \/ ClearStop
  <2>1. UNCHANGED <<nextAp, late>> /\ {bringup, bringup'} \subseteq Waited
    BY <1>10 DEF SetTotal, ClearHalted, ClearStop, Boots, Waited
  <2>2. SmpTyped'
    BY <1>1, <1>2, <1>6, <1>10, <2>1 DEF SetTotal, ClearHalted, ClearStop, SmpTyped
  <2>3. bringup' # "launched"
    BY <2>1 DEF Waited
  <2> QED BY <1>1, <1>2, <1>3, <1>5, <2>1, <2>2, <2>3 DEF SmpInv, StartInv
<1> QED BY <1>7, <1>8, <1>9, <1>10

(* ApEntry, on the others. *)
LEMMA ApStep ==
  ASSUME SmpAssumption, SmpInv, NEW c \in Aps, ApEntry(c) \/ ApOnline(c) \/ ApCounts(c)
  PROVE  SmpInv'
<1>1. SmpTyped /\ StopInv /\ StartInv /\ c \in SmpCpu
  BY DEF SmpInv, Aps
<1> DEFINE to == at'[c]
<1>2. /\ at[c] \in {"parked", "enters", "counts"} /\ to \in {"enters", "counts", "runs"}
      /\ at' = [at EXCEPT ![c] = to]
      /\ UNCHANGED <<bringup, nextAp, late, totalCount, haltedCount, inNmi, left>>
      /\ online \subseteq online' /\ online' \subseteq online \cup {c}
      /\ to \in {"enters", "counts"} => apStarted' = apStarted
      /\ to = "runs" => apStarted' = apStarted + 1
  BY <1>1 DEF ApEntry, ApOnline, ApCounts, Starts, Moves, SmpTyped
<1>3. SmpTyped'
  BY <1>1, <1>2 DEF SmpTyped, Places
<1>4. StopInv'
  <2>1. to \in Places /\ at[c] # "halted" /\ to \notin {"halted", "alone"}
    BY <1>2 DEF Places
  <2> QED BY <1>1, <1>2, <2>1, StopKeeps
<1>5. apStarted' + Cardinality(Uncounted') <= N - 1
  <2>1. Uncounted \subseteq SmpCpu /\ c \in Uncounted
    BY <1>2 DEF Uncounted, Aps
  <2>2. CASE to = "runs"
    <3>1. Uncounted' = Uncounted \ {c}
      BY <1>1, <1>2, <2>2 DEF Uncounted, SmpTyped, Aps
    <3>2. Cardinality(Uncounted \ {c}) = Cardinality(Uncounted) - 1 /\ Cardinality(Uncounted) \in Nat
      BY <2>1, PartFinite
    <3> QED BY <1>1, <1>2, <2>2, <3>1, <3>2, CpusFinite DEF StartInv, SmpTyped
  <2>3. CASE to # "runs"
    <3>1. Uncounted' = Uncounted
      BY <1>1, <1>2, <2>3 DEF Uncounted, SmpTyped, Aps
    <3> QED BY <1>1, <1>2, <2>3, <3>1 DEF StartInv
  <2> QED BY <2>2, <2>3
<1>6. StartInv'
  <2>1. bringup \in Waited /\ ~late => apStarted' >= N - 1
    BY <1>1, <1>2, CpusFinite DEF StartInv, SmpTyped
  <2> QED BY <1>1, <1>2, <1>5, <2>1 DEF StartInv
<1> QED BY <1>3, <1>4, <1>6 DEF SmpInv

(* A CPU that panics, shuts down or sends its NMIs. *)
LEMMA StopperStep ==
  ASSUME SmpAssumption, SmpInv, NEW c \in SmpCpu,
         Panics(c) \/ PowerShutdown(c) \/ TakeStop(c) \/ SmpSendNmiToAllButSelf(c)
  PROVE  SmpInv'
<1>1. SmpTyped /\ StopInv /\ StartInv
  BY DEF SmpInv
<1> DEFINE to == at'[c]
<1>2. /\ at[c] # "halted" /\ to \in {"dead", "panics", "shuts", "sends", "waits"}
      /\ at' = [at EXCEPT ![c] = to]
      /\ UNCHANGED <<starting, totalCount, haltedCount, inNmi, left>>
  <2>1. CASE Panics(c)
    BY <1>1, <2>1 DEF Panics, Fatal, PanicHaltForever, SmpTyped
  <2>2. CASE PowerShutdown(c)
    BY <1>1, <2>2 DEF PowerShutdown, SmpTyped
  <2>3. CASE TakeStop(c)
    BY <1>1, <2>3 DEF TakeStop, SmpTyped
  <2>4. CASE SmpSendNmiToAllButSelf(c)
    BY <1>1, <2>4 DEF SmpSendNmiToAllButSelf, Moves, SmpTyped
  <2> QED BY <2>1, <2>2, <2>3, <2>4
<1>3. SmpTyped'
  BY <1>1, <1>2 DEF SmpTyped, Places, starting
<1>4. StopInv'
  <2>1. to \in Places /\ to \notin {"halted", "alone"}
    BY <1>2 DEF Places
  <2> QED BY <1>1, <1>2, <2>1, StopKeeps
<1>5. StartInv'
  BY <1>1, <1>2, <1>3, StartKeeps
<1> QED BY <1>3, <1>4, <1>5 DEF SmpInv

(* Who leaves its wait by the count of all CPUs is the only one not halted. *)
LEMMA AloneStep ==
  ASSUME SmpAssumption, SmpInv, NEW c \in SmpCpu, StopOtherCpus(c)
  PROVE  SmpInv'
<1>1. SmpTyped /\ StopInv /\ StartInv
  BY DEF SmpInv
<1>2. /\ at[c] = "waits" /\ at' = [at EXCEPT ![c] = "alone"]
      /\ UNCHANGED <<starting, totalCount, haltedCount, inNmi>>
      /\ left' = "all" => ~(haltedCount < totalCount - 1) /\ totalCount = N
  BY DEF StopOtherCpus, Moves
<1>3. \A d \in SmpCpu : at'[d] = IF d = c THEN "alone" ELSE at[d]
  BY <1>1, <1>2 DEF SmpTyped
<1>4. SmpTyped'
  BY <1>1, <1>2 DEF SmpTyped, Places, starting
<1>5. Halted' = Halted
  BY <1>2, <1>3 DEF Halted
<1>6. AloneIsAlone'
  <2> SUFFICES ASSUME left' = "all"
               PROVE  \A a, d \in SmpCpu : at'[a] = "alone" /\ d # a => at'[d] = "halted"
    BY DEF AloneIsAlone
  <2>1. Halted \subseteq SmpCpu \ {c}
    BY <1>2 DEF Halted
  <2>2. Cardinality(Halted) \in Nat
    <3>1. Halted \subseteq SmpCpu
      BY DEF Halted
    <3> QED BY <3>1, PartFinite
  <2>3. Cardinality(Halted) >= N - 1
    BY <1>1, <1>2, <2>2, CpusFinite DEF StopInv, SmpTyped
  <2>4. Halted = SmpCpu \ {c}
    BY <2>1, <2>3, AllButOne
  <2>5. \A d \in SmpCpu : d # c => at[d] = "halted"
    BY <2>4 DEF Halted
  <2> QED BY <1>3, <2>5
<1>7. StopInv'
  BY <1>1, <1>2, <1>5, <1>6 DEF StopInv
<1>8. StartInv'
  <2>1. at' = [at EXCEPT ![c] = at'[c]] /\ at'[c] \notin {"parked", "enters", "counts"}
    <3>1. at'[c] = "alone"
      BY <1>3
    <3> QED BY <1>2, <3>1
  <2> QED BY <1>1, <1>2, <1>4, <2>1, StartKeeps
<1> QED BY <1>4, <1>7, <1>8 DEF SmpInv

(* A CPU takes one NMI: it is counted when it was not halted before. *)
LEMMA NmiStep ==
  ASSUME SmpAssumption, SmpInv, NEW c \in SmpCpu, NmiHandler(c)
  PROVE  SmpInv'
<1>1. SmpTyped /\ StopInv /\ StartInv
  BY DEF SmpInv
<1> DEFINE to == at'[c]
<1>2. /\ c \notin inNmi /\ inNmi' = inNmi \cup {c} /\ UNCHANGED <<starting, totalCount, left>>
      /\ at' = [at EXCEPT ![c] = to] /\ to \in {"halted", "dead", "panics"}
      /\ to = "halted" => haltedCount' = haltedCount + 1
      /\ to # "halted" => haltedCount' = haltedCount
  BY <1>1 DEF NmiHandler, Fatal, PanicHaltForever, SmpTyped
<1>3. at[c] # "halted"
  BY <1>1, <1>2 DEF StopInv, Halted
<1>4. SmpTyped'
  BY <1>1, <1>2 DEF SmpTyped, Places, starting
<1>5. StartInv'
  <2>1. to \notin {"parked", "enters", "counts"}
    BY <1>2
  <2> QED BY <1>1, <1>2, <1>4, <2>1, StartKeeps
<1>6. CASE to = "halted"
  <2>1. Halted' = Halted \cup {c} /\ c \notin Halted /\ Halted \subseteq SmpCpu
    BY <1>1, <1>2, <1>3, <1>6 DEF Halted, SmpTyped
  <2>2. Cardinality(Halted \cup {c}) = Cardinality(Halted) + 1 /\ Cardinality(Halted) \in Nat
    BY <2>1, PartFinite
  <2>3. haltedCount' <= Cardinality(Halted')
    BY <1>1, <1>2, <1>6, <2>1, <2>2 DEF StopInv, SmpTyped
  <2>4. AloneIsAlone'
    BY <1>1, <1>2, <1>6 DEF StopInv, AloneIsAlone, SmpTyped
  <2>5. Halted' \subseteq inNmi'
    BY <1>1, <1>2, <2>1 DEF StopInv
  <2>6. StopInv'
    BY <2>3, <2>4, <2>5 DEF StopInv
  <2> QED BY <1>4, <1>5, <2>6 DEF SmpInv
<1>7. CASE to # "halted"
  <2>1. to \in Places /\ to \notin {"halted", "alone"} /\ inNmi \subseteq inNmi'
    BY <1>2, <1>7 DEF Places
  <2>2. StopInv'
    BY <1>1, <1>2, <1>3, <1>7, <2>1, StopKeeps
  <2> QED BY <1>4, <1>5, <2>2 DEF SmpInv
<1> QED BY <1>6, <1>7

LEMMA SmpStep == SmpAssumption /\ SmpInv /\ [SmpNext]_smpVars => SmpInv'
<1> SUFFICES ASSUME SmpAssumption, SmpInv, [SmpNext]_smpVars
             PROVE  SmpInv'
  OBVIOUS
<1>1. CASE UNCHANGED smpVars
  <2>1. SmpTyped /\ StopInv /\ StartInv
    BY DEF SmpInv
  <2>2. at' = at /\ UNCHANGED <<bringup, nextAp, online, apStarted, late, totalCount, haltedCount, inNmi, left>>
    BY <1>1 DEF smpVars, starting
  <2>3. StopInv' /\ Uncounted' = Uncounted
    BY <2>1, <2>2, StopSame, StartSame
  <2>4. SmpTyped' /\ StartInv'
    BY <2>1, <2>2, <2>3 DEF SmpTyped, StartInv
  <2> QED BY <2>3, <2>4 DEF SmpInv
<1>2. ASSUME NEW c \in SmpCpu, Halt(c)
      PROVE  SmpInv'
  BY <1>1, <1>2 DEF Halt
<1> QED BY <1>1, <1>2, BringUpStep, ApStep, StopperStep, AloneStep, NmiStep DEF SmpNext
------------------------------------------------------------------------------
(* The strengthened invariant of start and stop. *)
THEOREM SmpInductive == SmpAssumption => (SmpSpec => []SmpInv)
<1> SUFFICES ASSUME SmpAssumption
             PROVE  SmpSpec => []SmpInv
  OBVIOUS
<1>1. SmpStart => SmpInv
  BY SmpInit
<1>2. SmpInv /\ [SmpNext]_smpVars => SmpInv'
  BY SmpStep
<1> QED BY <1>1, <1>2, PTL DEF SmpSpec

(* Whatever the number of CPUs: StopOtherCpus, left by the count of all CPUs,  *)
(* leaves its CPU alone, and SmpInit without a time-out ends with every CPU    *)
(* online and counted (Smp.c, Fatal.c).                                        *)
THEOREM StopSoundAlways == SmpAssumption => (SmpSpec => []StopSound)
<1> SUFFICES ASSUME SmpAssumption
             PROVE  SmpSpec => []StopSound
  OBVIOUS
<1>1. SmpInv => StopSound
  <2> SUFFICES ASSUME SmpInv
               PROVE  StopSound
    OBVIOUS
  <2>1. SmpTyped /\ StopInv /\ StartInv
    BY DEF SmpInv
  <2>2. ASSUME bringup = "ready", ~late
        PROVE  online = SmpCpu /\ apStarted = N - 1
    <3>1. nextAp = N /\ apStarted >= N - 1
      BY <2>1, <2>2 DEF StartInv, Waited
    <3>2. online = SmpCpu
      <4>1. \A c \in SmpCpu : c < N
        <5> HIDE DEF N
        <5> QED BY CpusFinite
      <4> QED BY <2>1, <2>2, <3>1, <4>1 DEF StartInv, SmpTyped
    <3>3. Cardinality(Uncounted) \in Nat
      <4>1. Uncounted \subseteq SmpCpu
        BY DEF Uncounted, Aps
      <4> QED BY <4>1, PartFinite
    <3> QED BY <2>1, <3>1, <3>2, <3>3, CpusFinite DEF StartInv, SmpTyped
  <2> QED BY <2>1, <2>2 DEF StopSound, StopInv, AllBroughtUp
<1> QED BY <1>1, SmpInductive, PTL
------------------------------------------------------------------------------
(* The timer.  A value of Ticks past the second's end was stored by a handler  *)
(* that has not compared it yet, or is about to reset it.                      *)
TimerTyped ==
  /\ ticks \in Nat /\ seen \in [TickCpu -> Nat]
  /\ handler \in [TickCpu -> {"out", "loaded", "stored", "second", "list", "acquire", "calls"}]
  /\ subList \in Seq(Sub) /\ counter \in [Sub -> Nat] /\ active \in [Sub -> BOOLEAN]
  /\ caller \in [at : {"out", "locked", "done"}, cpu : TickCpu \cup {NoCpu}, sub : Sub, adds : BOOLEAN]

Overrun(c) == handler[c] = "second" \/ (handler[c] = "stored" /\ ticks = seen[c] + 1)
TicksHeld == ticks >= TickHz => \E c \in TickCpu : Overrun(c)

ListHeld ==
  /\ subCount = Len(subList) /\ Once(subList)
  /\ Listed = {s \in Sub : active[s]}
  /\ \A s \in Listed : counter[s] < Interval[s]

TimerInv == TimerTyped /\ TicksHeld /\ ListHeld

LEMMA TimerInit == ASSUME TimerAssumption, TimerStart PROVE TimerInv
<1> DEFINE none == <<>>
<1>1. none \in Seq(Sub) /\ Len(none) = 0 /\ subList = none
  BY DEF TimerStart
<1>2. Members(none) = {} /\ Once(none)
  BY DEF Members, Once
<1> HIDE DEF none
<1>3. (CHOOSE s \in Sub : TRUE) \in Sub
  BY DEF TimerAssumption
<1>4. TimerTyped
  BY <1>1, <1>3 DEF TimerStart, TimerTyped
<1>5. TicksHeld
  BY DEF TimerStart, TimerAssumption, TicksHeld
<1>6. Listed = {} /\ {s \in Sub : active[s]} = {}
  BY <1>1, <1>2 DEF Listed, TimerStart
<1>7. ListHeld
  BY <1>1, <1>2, <1>6 DEF ListHeld, TimerStart
<1> QED BY <1>4, <1>5, <1>7 DEF TimerInv

(* The steps that leave the list alone, and those that leave the clock alone.  *)
LEMMA ListSame ==
  ASSUME ListHeld, UNCHANGED list
  PROVE  ListHeld'
BY DEF ListHeld, list, Listed

LEMMA ClockSame ==
  ASSUME TicksHeld, UNCHANGED clock,
         \A c \in TickCpu : handler[c] \in {"stored", "second"} => handler'[c] = handler[c]
  PROVE  TicksHeld'
BY DEF TicksHeld, clock, Overrun

LEMMA HandlerGoes ==
  ASSUME TimerTyped, NEW c \in TickCpu, NEW place, Goes(c, place)
  PROVE  /\ handler'[c] = place /\ \A d \in TickCpu : d # c => handler'[d] = handler[d]
         /\ place \in {"out", "loaded", "stored", "second", "list", "acquire", "calls"} =>
              handler' \in [TickCpu -> {"out", "loaded", "stored", "second", "list", "acquire", "calls"}]
BY DEF TimerTyped, Goes

LEMMA ClockSteps ==
  ASSUME TimerAssumption, TimerInv, NEW c \in TickCpu,
         TickLoad(c) \/ TickStore(c) \/ TickCompare(c) \/ TickSecond(c)
  PROVE  TimerInv'
<1>1. TimerTyped /\ TicksHeld /\ ListHeld /\ TickHz \in Nat \ {0}
  BY DEF TimerInv, TimerAssumption
<1>2. ListHeld'
  BY <1>1, ListSame DEF TickLoad, TickStore, TickCompare, TickSecond
<1>3. CASE TickLoad(c)
  <2>1. /\ handler[c] = "out" /\ handler'[c] = "loaded" /\ \A d \in TickCpu : d # c => handler'[d] = handler[d]
        /\ handler' \in [TickCpu -> {"out", "loaded", "stored", "second", "list", "acquire", "calls"}]
    BY <1>1, <1>3, HandlerGoes DEF TickLoad
  <2>2. ticks' = ticks /\ seen' = [seen EXCEPT ![c] = ticks] /\ UNCHANGED <<list, caller>>
    BY <1>3 DEF TickLoad
  <2>3. TimerTyped'
    BY <1>1, <2>1, <2>2 DEF TimerTyped, list
  <2>4. TicksHeld'
    BY <1>1, <2>1, <2>2 DEF TicksHeld, Overrun, TimerTyped
  <2> QED BY <1>2, <2>3, <2>4 DEF TimerInv
<1>4. CASE TickStore(c)
  <2>1. /\ handler'[c] = "stored" /\ \A d \in TickCpu : d # c => handler'[d] = handler[d]
        /\ handler' \in [TickCpu -> {"out", "loaded", "stored", "second", "list", "acquire", "calls"}]
    BY <1>1, <1>4, HandlerGoes DEF TickStore
  <2>2. ticks' = seen[c] + 1 /\ seen' = seen /\ UNCHANGED <<list, caller>>
    BY <1>4 DEF TickStore
  <2>3. TimerTyped'
    BY <1>1, <2>1, <2>2 DEF TimerTyped, list
  <2>4. Overrun(c)'
    BY <2>1, <2>2 DEF Overrun
  <2>5. TicksHeld'
    BY <2>4 DEF TicksHeld
  <2> QED BY <1>2, <2>3, <2>5 DEF TimerInv
<1>5. CASE TickCompare(c)
  <2>1. PICK n \in {seen[c] + 1, ticks} : Goes(c, IF SecondOver(n) THEN "second" ELSE "list")
    BY <1>5 DEF TickCompare
  <2>2. /\ handler[c] = "stored" /\ handler'[c] = IF SecondOver(n) THEN "second" ELSE "list"
        /\ \A d \in TickCpu : d # c => handler'[d] = handler[d]
        /\ handler' \in [TickCpu -> {"out", "loaded", "stored", "second", "list", "acquire", "calls"}]
    BY <1>1, <1>5, <2>1, HandlerGoes DEF TickCompare
  <2>3. UNCHANGED <<ticks, seen, list, caller>>
    BY <1>5 DEF TickCompare, clock
  <2>4. TimerTyped'
    BY <1>1, <2>2, <2>3 DEF TimerTyped, list
  <2>5. ASSUME ticks' >= TickHz PROVE \E d \in TickCpu : Overrun(d)'
    <3>1. PICK d \in TickCpu : Overrun(d)
      BY <1>1, <2>3, <2>5 DEF TicksHeld
    <3>2. CASE d # c
      <4>1. Overrun(d)'
        BY <2>2, <2>3, <3>1, <3>2 DEF Overrun
      <4> QED BY <4>1
    <3>3. CASE d = c
      <4>1. n = ticks /\ SecondOver(n)
        BY <2>1, <2>2, <2>3, <2>5, <3>1, <3>3 DEF Overrun, SecondOver
      <4>2. Overrun(c)'
        BY <2>2, <4>1 DEF Overrun
      <4> QED BY <4>2
    <3> QED BY <3>2, <3>3
  <2>6. TicksHeld'
    BY <2>5 DEF TicksHeld
  <2> QED BY <1>2, <2>4, <2>6 DEF TimerInv
<1>6. CASE TickSecond(c)
  <2>1. /\ handler'[c] = "list" /\ \A d \in TickCpu : d # c => handler'[d] = handler[d]
        /\ handler' \in [TickCpu -> {"out", "loaded", "stored", "second", "list", "acquire", "calls"}]
    BY <1>1, <1>6, HandlerGoes DEF TickSecond
  <2>2. ticks' = 0 /\ seen' = seen /\ UNCHANGED <<list, caller>>
    BY <1>6 DEF TickSecond
  <2>3. TimerTyped'
    BY <1>1, <2>1, <2>2 DEF TimerTyped, list
  <2>4. TicksHeld'
    BY <1>1, <2>2 DEF TicksHeld
  <2> QED BY <1>2, <2>3, <2>4 DEF TimerInv
<1> QED BY <1>3, <1>4, <1>5, <1>6

(* A handler that leaves may take the caller off its CPU.                      *)
LEMMA CallerTyped ==
  ASSUME TimerTyped, NEW k \in TickCpu \cup {NoCpu}, NEW a \in {"out", "locked", "done"}
  PROVE  /\ [caller EXCEPT !.cpu = k] \in [at : {"out", "locked", "done"}, cpu : TickCpu \cup {NoCpu}, sub : Sub, adds : BOOLEAN]
         /\ [caller EXCEPT !.at = a] \in [at : {"out", "locked", "done"}, cpu : TickCpu \cup {NoCpu}, sub : Sub, adds : BOOLEAN]
         /\ [caller EXCEPT !.at = a, !.cpu = k] \in [at : {"out", "locked", "done"}, cpu : TickCpu \cup {NoCpu}, sub : Sub, adds : BOOLEAN]
BY DEF TimerTyped

LEMMA WalkSteps ==
  ASSUME TimerAssumption, TimerInv, NEW c \in TickCpu,
         TickLooks(c) \/ TickCalls(c) \/ CallerResumes(c) \/ CallerLeaves
           \/ \E s \in Sub, adds \in BOOLEAN : CallerEnters(c, s, adds)
  PROVE  TimerInv'
<1>1. TimerTyped /\ TicksHeld /\ ListHeld
  BY DEF TimerInv
<1>2. UNCHANGED <<ticks, seen>> /\ UNCHANGED list /\ UNCHANGED clock
  BY DEF TickLooks, TickCalls, CallerResumes, CallerLeaves, CallerEnters, clock
<1>3. ListHeld'
  BY <1>1, <1>2, ListSame
<1>4. \/ UNCHANGED handler
      \/ handler[c] \in {"list", "calls"} /\ (Goes(c, "out") \/ Goes(c, "acquire"))
  BY DEF TickLooks, TickCalls, CallerResumes, CallerLeaves, CallerEnters, Return
<1>5. /\ handler' \in [TickCpu -> {"out", "loaded", "stored", "second", "list", "acquire", "calls"}]
      /\ \A d \in TickCpu : handler[d] \in {"stored", "second"} => handler'[d] = handler[d]
  <2>1. CASE UNCHANGED handler
    BY <1>1, <2>1 DEF TimerTyped
  <2>2. CASE handler[c] \in {"list", "calls"} /\ (Goes(c, "out") \/ Goes(c, "acquire"))
    BY <1>1, <2>2, HandlerGoes
  <2> QED BY <1>4, <2>1, <2>2
<1>6. TicksHeld'
  BY <1>1, <1>2, <1>5, ClockSame
<1>7. caller' \in [at : {"out", "locked", "done"}, cpu : TickCpu \cup {NoCpu}, sub : Sub, adds : BOOLEAN]
  <2>1. CASE UNCHANGED caller
    BY <1>1, <2>1 DEF TimerTyped
  <2>2. CASE caller' = [caller EXCEPT !.cpu = NoCpu] \/ caller' = [caller EXCEPT !.cpu = c]
    BY <1>1, <2>2, CallerTyped
  <2>3. CASE caller' = [caller EXCEPT !.at = "out", !.cpu = NoCpu]
    BY <1>1, <2>3, CallerTyped
  <2>4. ASSUME NEW s \in Sub, NEW adds \in BOOLEAN,
               caller' = [at |-> "locked", cpu |-> c, sub |-> s, adds |-> adds]
        PROVE  caller' \in [at : {"out", "locked", "done"}, cpu : TickCpu \cup {NoCpu}, sub : Sub, adds : BOOLEAN]
    BY <2>4
  <2> QED BY <2>1, <2>2, <2>3, <2>4 DEF TickLooks, TickCalls, CallerResumes, CallerLeaves, CallerEnters, Return
<1>8. TimerTyped'
  BY <1>1, <1>2, <1>5, <1>7 DEF TimerTyped, list
<1> QED BY <1>3, <1>6, <1>8 DEF TimerInv

(* All that are listed are active, so nothing is unlinked, and each that is    *)
(* due starts to count anew.                                                   *)
LEMMA CollectStep ==
  ASSUME TimerAssumption, TimerInv, NEW c \in TickCpu, TickCollects(c)
  PROVE  TimerInv'
<1>1. TimerTyped /\ TicksHeld /\ ListHeld
  BY DEF TimerInv
<1>2. handler[c] = "acquire" /\ Goes(c, "calls") /\ UNCHANGED <<ticks, seen, active, caller>> /\ UNCHANGED clock
  BY DEF TickCollects, clock
<1>3. /\ handler' \in [TickCpu -> {"out", "loaded", "stored", "second", "list", "acquire", "calls"}]
      /\ \A d \in TickCpu : handler[d] \in {"stored", "second"} => handler'[d] = handler[d]
  BY <1>1, <1>2, HandlerGoes
<1>4. TicksHeld'
  BY <1>1, <1>2, <1>3, ClockSame
<1>5. subList \in Seq(Sub) /\ Members(subList) = {s \in Sub : active[s]}
  BY <1>1 DEF TimerTyped, ListHeld, Listed
<1>6. subList' = subList
  <2>1. subList' = Kept(subList, {s \in Sub : active[s]})
    BY DEF TickCollects
  <2> QED BY <1>5, <2>1, KeptAll
<1>7. subCount' = subCount
  <2>1. {i \in 1..Len(subList) : ~active[subList[i]]} = {}
    BY <1>5 DEF Members
  <2>2. subCount' = subCount - Cardinality({})
    BY <2>1 DEF TickCollects
  <2> QED BY <1>1, <1>5, <2>2, FS_EmptySet DEF ListHeld
<1>8. counter' = [s \in Sub |-> IF s \in Listed /\ active[s] THEN Counted(s) ELSE counter[s]]
  BY DEF TickCollects
<1>9. \A s \in Sub : Counted(s) \in Nat /\ Counted(s) < Interval[s]
  <2> TAKE s \in Sub
  <2>1. counter[s] \in Nat /\ Interval[s] \in Nat \ {0}
    BY <1>1 DEF TimerTyped, TimerAssumption
  <2>2. \A a \in Nat, b \in Nat \ {0} : (a + 1) % b \in Nat /\ (a + 1) % b < b
    OBVIOUS
  <2> QED BY <2>1, <2>2 DEF Counted
<1>10. counter' \in [Sub -> Nat]
  BY <1>1, <1>8, <1>9 DEF TimerTyped
<1>11. TimerTyped'
  BY <1>1, <1>2, <1>3, <1>6, <1>10 DEF TimerTyped
<1>12. \A s \in Listed : counter'[s] < Interval[s]
  BY <1>1, <1>5, <1>8, <1>9 DEF ListHeld
<1>13. ListHeld'
  BY <1>1, <1>2, <1>6, <1>7, <1>12 DEF ListHeld, Listed
<1> QED BY <1>4, <1>11, <1>13 DEF TimerInv

LEMMA CallerDone ==
  ASSUME TimerInv, UNCHANGED <<clock, handler>>, caller' = [caller EXCEPT !.at = "done"],
         subList' \in Seq(Sub), counter' \in [Sub -> Nat], active' \in [Sub -> BOOLEAN], ListHeld'
  PROVE  TimerInv'
<1>1. TimerTyped /\ TicksHeld
  BY DEF TimerInv
<1>2. TicksHeld'
  BY <1>1, ClockSame
<1>3. TimerTyped'
  <2>1. [caller EXCEPT !.at = "done"] \in [at : {"out", "locked", "done"}, cpu : TickCpu \cup {NoCpu}, sub : Sub, adds : BOOLEAN]
    BY <1>1 DEF TimerTyped
  <2> QED BY <1>1, <2>1 DEF TimerTyped, clock
<1> QED BY <1>2, <1>3 DEF TimerInv

LEMMA SubscribeStep == ASSUME TimerAssumption, TimerInv, TimerSubscribe PROVE TimerInv'
<1> DEFINE s == caller.sub
<1>1. /\ s \in Sub /\ LinkOnce(s) /\ caller' = [caller EXCEPT !.at = "done"] /\ UNCHANGED <<clock, handler>>
      /\ subList \in Seq(Sub) /\ counter \in [Sub -> Nat] /\ active \in [Sub -> BOOLEAN] /\ ListHeld
  BY DEF TimerSubscribe, TimerInv, TimerTyped
<1>2. CASE s \in Listed
  <2>1. UNCHANGED list
    BY <1>1, <1>2 DEF LinkOnce
  <2>2. subList' \in Seq(Sub) /\ counter' \in [Sub -> Nat] /\ active' \in [Sub -> BOOLEAN] /\ ListHeld'
    BY <1>1, <2>1, ListSame DEF list
  <2> QED BY <1>1, <2>2, CallerDone
<1>3. CASE s \notin Listed
  <2>1. /\ subList' = Append(subList, s) /\ subCount' = subCount + 1
        /\ counter' = [counter EXCEPT ![s] = 0] /\ active' = [active EXCEPT ![s] = TRUE]
    BY <1>1, <1>3 DEF LinkOnce, Link
  <2>2. /\ subCount = Len(subList) /\ Once(subList) /\ Members(subList) = {u \in Sub : active[u]}
        /\ \A u \in Members(subList) : counter[u] < Interval[u]
        /\ s \notin Members(subList)
    BY <1>1, <1>3 DEF ListHeld, Listed
  <2> HIDE DEF s
  <2>3. /\ Append(subList, s) \in Seq(Sub) /\ Len(Append(subList, s)) = Len(subList) + 1
        /\ Members(Append(subList, s)) = Members(subList) \cup {s} /\ Once(Append(subList, s))
    BY <1>1, <2>2, AppendMembers
  <2>4. counter' \in [Sub -> Nat] /\ active' \in [Sub -> BOOLEAN]
    BY <1>1, <2>1
  <2>5. \A u \in Sub : /\ active'[u] <=> (u = s \/ active[u])
                       /\ counter'[u] = IF u = s THEN 0 ELSE counter[u]
    BY <1>1, <2>1
  <2>6. Members(subList)' = {u \in Sub : active'[u]}
    BY <1>1, <2>1, <2>2, <2>3, <2>5
  <2>7. \A u \in Members(subList)' : counter'[u] < Interval[u]
    <3>1. 0 < Interval[s]
      BY <1>1 DEF TimerAssumption
    <3> QED BY <1>1, <2>1, <2>2, <2>3, <2>5, <3>1
  <2>8. ListHeld'
    BY <2>1, <2>2, <2>3, <2>6, <2>7 DEF ListHeld, Listed
  <2> QED BY <1>1, <2>1, <2>3, <2>4, <2>8, CallerDone
<1> QED BY <1>2, <1>3

LEMMA UnsubscribeStep == ASSUME TimerAssumption, TimerInv, TimerUnsubscribe PROVE TimerInv'
<1> DEFINE s == caller.sub
<1>1. /\ s \in Sub /\ caller' = [caller EXCEPT !.at = "done"] /\ UNCHANGED <<clock, handler>>
      /\ subList \in Seq(Sub) /\ counter \in [Sub -> Nat] /\ active \in [Sub -> BOOLEAN] /\ ListHeld
  BY DEF TimerUnsubscribe, TimerInv, TimerTyped
<1>2. CASE s \notin Listed
  <2>1. UNCHANGED list
    BY <1>2 DEF TimerUnsubscribe
  <2>2. subList' \in Seq(Sub) /\ counter' \in [Sub -> Nat] /\ active' \in [Sub -> BOOLEAN] /\ ListHeld'
    BY <1>1, <2>1, ListSame DEF list
  <2> QED BY <1>1, <2>2, CallerDone
<1>3. CASE s \in Listed
  <2> DEFINE kept == Kept(subList, Sub \ {s})
  <2>1. /\ subList' = kept /\ subCount' = subCount - 1
        /\ active' = [active EXCEPT ![s] = FALSE] /\ counter' = counter
    BY <1>3 DEF TimerUnsubscribe
  <2>2. /\ subCount = Len(subList) /\ Once(subList) /\ Members(subList) = {u \in Sub : active[u]}
        /\ \A u \in Members(subList) : counter[u] < Interval[u]
        /\ s \in Members(subList)
    BY <1>1, <1>3 DEF ListHeld, Listed
  <2>3. kept \in Seq(Sub) /\ Members(kept) = Members(subList) \cap (Sub \ {s}) /\ Once(kept)
    BY <1>1, <2>2, KeptMembers, KeptOnce
  <2> HIDE DEF s, kept
  <2>4. Members(kept) = Members(subList) \ {s}
    BY <1>1, <2>2, <2>3
  <2>5. Len(kept) = Len(subList) - 1
    <3>1. IsFiniteSet(Members(subList)) /\ Cardinality(Members(subList)) = Len(subList)
      BY <1>1, <2>2, OnceSize
    <3>2. Cardinality(Members(kept)) = Len(kept)
      BY <2>3, OnceSize
    <3>3. Cardinality(Members(subList) \ {s}) = Cardinality(Members(subList)) - 1
      BY <2>2, <3>1, FS_RemoveElement
    <3> QED BY <2>4, <3>1, <3>2, <3>3
  <2>6. active' \in [Sub -> BOOLEAN] /\ \A u \in Sub : active'[u] <=> (u # s /\ active[u])
    BY <1>1, <2>1
  <2>7. Members(kept) = {u \in Sub : active'[u]}
    BY <2>2, <2>4, <2>6
  <2>8. ListHeld'
    BY <2>1, <2>2, <2>3, <2>4, <2>5, <2>7 DEF ListHeld, Listed
  <2> QED BY <1>1, <2>1, <2>3, <2>6, <2>8, CallerDone
<1> QED BY <1>2, <1>3

LEMMA TimerInvSound == ASSUME TimerAssumption, TimerInv PROVE TimerSound
<1>1. TicksComeBack
  <2>1. ticks \in Nat /\ TickHz \in Nat /\ TicksHeld
    BY DEF TimerInv, TimerTyped, TimerAssumption
  <2> QED BY <2>1 DEF TicksComeBack, TicksHeld, Overrun
<1>2. ListSound
  <2>1. ListHeld /\ subList \in Seq(Sub)
    BY DEF TimerInv, TimerTyped
  <2>2. Cardinality(Listed) = Len(subList)
    BY <2>1, OnceSize DEF ListHeld, Listed
  <2> QED BY <2>1, <2>2 DEF ListSound, ListHeld
<1> QED BY <1>1, <1>2 DEF TimerSound

(* However many CPUs take the timer's interrupt and whatever subscribes:       *)
(* crossed increments never leave Ticks past the second's end with no handler  *)
(* about to reset it, and while nobody is in the list its count, its members   *)
(* and their flags agree and none is overdue.                                  *)
THEOREM TimerSoundAlways == TimerAssumption => (TimerSpec => []TimerSound)
<1> SUFFICES ASSUME TimerAssumption PROVE TimerSpec => []TimerSound
  OBVIOUS
<1>1. TimerStart => TimerInv
  BY TimerInit
<1>2. TimerInv /\ [TimerNext]_timerVars => TimerInv'
  <2> SUFFICES ASSUME TimerInv, [TimerNext]_timerVars PROVE TimerInv'
    OBVIOUS
  <2>1. CASE UNCHANGED timerVars
    BY <2>1 DEF timerVars, clock, list, TimerInv, TimerTyped, TicksHeld, Overrun, ListHeld, Listed
  <2>2. ASSUME NEW c \in TickCpu, TimerTick(c) PROVE TimerInv'
    <3>1. CASE TickSpins(c)
      BY <2>1, <3>1 DEF TickSpins
    <3> QED BY <2>2, <3>1, ClockSteps, WalkSteps, CollectStep DEF TimerTick
  <2>3. ASSUME NEW c \in TickCpu,
               CallerResumes(c) \/ \E s \in Sub, adds \in BOOLEAN : CallerEnters(c, s, adds)
        PROVE  TimerInv'
    BY <2>3, WalkSteps
  <2>4. CASE CallerLeaves
    <3>1. caller.cpu \in TickCpu
      BY <2>4 DEF CallerLeaves, CallerRuns, TimerInv, TimerTyped
    <3> QED BY <2>4, <3>1, WalkSteps
  <2>5. CASE TimerRests
    BY <2>1, <2>5 DEF TimerRests
  <2> QED BY <2>1, <2>2, <2>3, <2>4, <2>5, SubscribeStep, UnsubscribeStep DEF TimerNext
<1>3. TimerInv => TimerSound
  BY TimerInvSound
<1> QED BY <1>1, <1>2, <1>3, PTL DEF TimerSpec
==============================================================================
