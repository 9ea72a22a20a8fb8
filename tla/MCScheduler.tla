----------------------------- MODULE MCScheduler -----------------------------
(* Two CPUs, the first one the BSP, and two threads.  mode chooses what moves: *)
(*   sleep  Scheduler; t1 blocks, is woken and exits and t2 is not created     *)
(*   exit   Scheduler; both are created and exit, and none blocks              *)
(*   ring   Cfs; one CPU's ring, of two threads beside the write-back thread,  *)
(*          which is another CPU's                                             *)
(*   tick   Timer; both CPUs take interrupts while a thread changes the list   *)
(*   smp    Smp; three CPUs start, panic and shut down                         *)
EXTENDS Scheduler, Cfs, Timer, Smp, TLC

CONSTANTS idle0, idle1, t1, t2, wb
VARIABLE mode

MCCpu == {0, 1}
MCIdle == [c \in MCCpu |-> IF c = 0 THEN idle0 ELSE idle1]
MCCfsThread == {t1, t2, wb}
MCWeights == {1, 4}
MCSub == {"net", "other"}
MCInterval == [s \in MCSub |-> IF s = "net" THEN 2 ELSE 1]
MCSmpCpu == 0..2

ASSUME CfsAssumption
ASSUME SmpAssumption
ASSUME TimerAssumption

MCInit == /\ mode \in {"sleep", "exit", "ring", "tick", "smp"}
          /\ Init
          /\ CfsInit /\ (mode = "ring" \/ isBsp)
          /\ TimerStart /\ SmpStart

SchedulerStep == /\ mode \in {"sleep", "exit"} /\ Next
                 /\ IF mode = "sleep" THEN tstate'[t2] = "NEW" ELSE announced' = {}
                 /\ UNCHANGED <<cfsVars, timerVars, smpVars>>
RingStep == mode = "ring" /\ CfsNext /\ UNCHANGED <<vars, timerVars, smpVars>>
TickStep == mode = "tick" /\ TimerNext /\ UNCHANGED <<vars, cfsVars, smpVars>>
SmpStep == mode = "smp" /\ SmpNext /\ UNCHANGED <<vars, cfsVars, timerVars>>

MCNext == UNCHANGED mode /\ (SchedulerStep \/ RingStep \/ TickStep \/ SmpStep)
MCSpec == MCInit /\ [][MCNext]_<<mode, vars, cfsVars, timerVars, smpVars>>
=============================================================================
