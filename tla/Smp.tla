--------------------------------- MODULE Smp ---------------------------------
(* How the CPUs start (SmpInit and ApEntry, Source/Smp.c) and how one of them, *)
(* in a panic (Source/Fatal.c) or a shutdown (Source/Drivers/Acpi/Power.c),    *)
(* stops the others with an NMI.  A time-out may always come first.  A CPU     *)
(* that has not started takes no NMI: it is still the boot loader's.           *)
EXTENDS Integers, FiniteSets

CONSTANTS SmpCpu, \* an interval from 0; they start in this order
          BootCpu

VARIABLES at,       \* where each CPU is
          bringup,  \* where SmpInit is on the boot CPU
          nextAp,   \* the CPU it launches or waits for
          online,   \* PerCpu.Online
          apStarted, totalCount, haltedCount, \* GApStarted and GCpu...Count
          stopRequested, panicActive, shuttingDown, nmi,
          inNmi,    \* who took an NMI, and takes no other
          late,     \* has a wait of SmpInit timed out?
          left      \* how the stopper left its wait: "no", "count", "all", "timeout"

flags == <<stopRequested, panicActive, shuttingDown>>
starting == <<bringup, nextAp, online, apStarted, late>>
smpVars == <<at, starting, totalCount, haltedCount, flags, nmi, inNmi, left>>

N == Cardinality(SmpCpu)
Aps == SmpCpu \ {BootCpu}
SmpAssumption == N \in Nat /\ SmpCpu = 0..(N - 1) /\ BootCpu \in SmpCpu
Moves(c, from, to) == at[c] = from /\ at' = [at EXCEPT ![c] = to]

SmpStart ==
  /\ at = [c \in SmpCpu |-> IF c = BootCpu THEN "runs" ELSE "parked"]
  /\ bringup = "launch" /\ nextAp = 0 /\ online = {BootCpu} /\ apStarted = 0
  /\ totalCount = 1 /\ haltedCount = 0
  /\ stopRequested = FALSE /\ panicActive = FALSE /\ shuttingDown = FALSE
  /\ nmi = {} /\ inNmi = {} /\ late = FALSE /\ left = "no"
------------------------------------------------------------------------------
Boots(from, to) ==
  /\ at[BootCpu] = "runs" /\ bringup = from /\ bringup' = to
  /\ UNCHANGED <<at, online, apStarted, flags, nmi, inNmi, left>>

(* goto_address lets the CPU into ApEntry. *)
LaunchAp ==
  /\ nextAp \in SmpCpu
  /\ \/ nextAp = BootCpu /\ Boots("launch", "launch") /\ nextAp' = nextAp + 1
     \/ nextAp # BootCpu /\ Boots("launch", "launched") /\ UNCHANGED nextAp
  /\ UNCHANGED <<late, totalCount, haltedCount>>

AwaitOnline ==
  /\ Boots("launched", "launch") /\ nextAp' = nextAp + 1
  /\ \/ nextAp \in online /\ UNCHANGED late
     \/ nextAp \notin online /\ late' = TRUE
  /\ UNCHANGED <<totalCount, haltedCount>>

AwaitStarted ==
  /\ nextAp \notin SmpCpu /\ Boots("launch", "total")
  /\ \/ apStarted >= N - 1 /\ UNCHANGED late
     \/ apStarted < N - 1 /\ late' = TRUE
  /\ UNCHANGED <<nextAp, totalCount, haltedCount>>

SetTotal ==
  /\ Boots("total", "halted") /\ totalCount' = N /\ UNCHANGED <<nextAp, late, haltedCount>>

ClearHalted ==
  /\ Boots("halted", "stop") /\ haltedCount' = 0 /\ UNCHANGED <<nextAp, late, totalCount>>

ClearStop ==
  /\ bringup = "stop" /\ at[BootCpu] = "runs" /\ bringup' = "ready" /\ stopRequested' = FALSE
  /\ UNCHANGED <<at, nextAp, online, apStarted, late, totalCount, haltedCount, panicActive,
                 shuttingDown, nmi, inNmi, left>>

Launched(c) == c < nextAp \/ (c = nextAp /\ bringup = "launched")

Starts(c, from, to) ==
  /\ Moves(c, from, to)
  /\ UNCHANGED <<bringup, nextAp, late, totalCount, haltedCount, flags, nmi, inNmi, left>>

ApEntry(c) == Launched(c) /\ Starts(c, "parked", "enters") /\ UNCHANGED <<online, apStarted>>
ApOnline(c) == Starts(c, "enters", "counts") /\ online' = online \cup {c} /\ UNCHANGED apStarted
ApCounts(c) == Starts(c, "counts", "runs") /\ apStarted' = apStarted + 1 /\ UNCHANGED online
------------------------------------------------------------------------------
(* FatalImpl and FatalWithFrame: the second CPU to panic halts at once.        *)
PanicHaltCounted(c) == at' = [at EXCEPT ![c] = "dead"] /\ haltedCount' = haltedCount + 1
PanicHaltForever(c) == at' = [at EXCEPT ![c] = "dead"] /\ UNCHANGED haltedCount

Fatal(c) ==
  /\ panicActive' = TRUE
  /\ IF panicActive THEN PanicHaltForever(c)
     ELSE at' = [at EXCEPT ![c] = "panics"] /\ UNCHANGED haltedCount

Panics(c) ==
  /\ at[c] \in {"runs", "enters", "counts"} /\ Fatal(c)
  /\ UNCHANGED <<starting, totalCount, stopRequested, shuttingDown, nmi, inNmi, left>>

(* PowerShutdown and PowerReboot, from a thread: only the first goes on. *)
PowerShutdown(c) ==
  /\ bringup = "ready" /\ at[c] = "runs" /\ shuttingDown' = TRUE
  /\ at' = [at EXCEPT ![c] = IF shuttingDown THEN "dead" ELSE "shuts"]
  /\ UNCHANGED <<starting, totalCount, haltedCount, stopRequested, panicActive, nmi, inNmi, left>>

(* StopOtherCpus: who comes second waits for nobody and goes on to its screen  *)
(* or to the ACPI registers; where it ends is "dead" here too.                 *)
TakeStop(c) ==
  /\ at[c] \in {"panics", "shuts"} /\ stopRequested' = TRUE
  /\ at' = [at EXCEPT ![c] = IF stopRequested THEN "dead" ELSE "sends"]
  /\ UNCHANGED <<starting, totalCount, haltedCount, panicActive, shuttingDown, nmi, inNmi, left>>

SmpSendNmiToAllButSelf(c) ==
  /\ Moves(c, "sends", "waits")
  /\ nmi' = nmi \cup {d \in SmpCpu \ {c} : at[d] # "parked"}
  /\ UNCHANGED <<starting, totalCount, haltedCount, flags, inNmi, left>>

StopOtherCpus(c) ==
  /\ Moves(c, "waits", "alone")
  /\ left' = IF haltedCount < totalCount - 1 THEN "timeout"
             ELSE IF totalCount = N THEN "all" ELSE "count"
  /\ UNCHANGED <<starting, totalCount, haltedCount, flags, nmi, inNmi>>

NmiHandler(c) ==
  /\ c \in nmi \ inNmi /\ nmi' = nmi \ {c} /\ inNmi' = inNmi \cup {c}
  /\ IF stopRequested
     THEN /\ haltedCount' = haltedCount + 1 /\ at' = [at EXCEPT ![c] = "halted"]
          /\ UNCHANGED panicActive
     ELSE Fatal(c)
  /\ UNCHANGED <<starting, totalCount, stopRequested, shuttingDown, left>>

(* The loops at the end of it all. *)
Halt(c) == at[c] \in {"dead", "halted", "alone"} /\ UNCHANGED smpVars

SmpNext ==
  \/ LaunchAp \/ AwaitOnline \/ AwaitStarted \/ SetTotal \/ ClearHalted \/ ClearStop
  \/ \E c \in Aps : ApEntry(c) \/ ApOnline(c) \/ ApCounts(c)
  \/ \E c \in SmpCpu : \/ Panics(c) \/ PowerShutdown(c) \/ TakeStop(c)
                       \/ SmpSendNmiToAllButSelf(c) \/ StopOtherCpus(c) \/ NmiHandler(c) \/ Halt(c)

SmpSpec == SmpStart /\ [][SmpNext]_smpVars
------------------------------------------------------------------------------
(* A CPU that found every other one counted is alone: they took the NMI, and a *)
(* CPU that halted by itself before was not counted twice (Smp.c:66-79,        *)
(* Fatal.c:282-287).                                                           *)
AloneIsAlone ==
  left = "all" => \A c, d \in SmpCpu : at[c] = "alone" /\ d # c => at[d] = "halted"

(* When SmpInit ends and no wait of it timed out every CPU is online and has   *)
(* been counted (Smp.c:226-264).                                               *)
AllBroughtUp == bringup = "ready" /\ ~late => online = SmpCpu /\ apStarted = N - 1

StopSound == AloneIsAlone /\ AllBroughtUp
------------------------------------------------------------------------------
(* Not so: CountedIsAlone (before SmpInit ends the total is still 1, and a CPU *)
(* that panics waits for nobody, Smp.c:29 and 75), and OneStopper (SmpInit     *)
(* clears the request of a CPU that panicked meanwhile, 259).                  *)
CountedIsAlone ==
  left = "count" => \A c, d \in SmpCpu : at[c] = "alone" /\ d # c => at[d] \in {"halted", "dead", "parked"}
OneStopper == Cardinality({c \in SmpCpu : at[c] \in {"sends", "waits", "alone"}}) <= 1
=============================================================================
