-------------------------------- MODULE Timer --------------------------------
(* The timer's interrupt (TimerHandler, Source/Time/Timer.c), which every CPU  *)
(* takes, and the list it walks (Source/Time/TimerSubscriber.c), to which a    *)
(* thread subscribes with its interrupts on.                                   *)
EXTENDS Filters, Integers, Sequences, FiniteSets

CONSTANTS TickCpu,
          NoCpu,
          TickHz,    \* interrupts in a second
          Sub,       \* the subscribers there are
          Interval,  \* of each
          TsrMax,    \* functions one interrupt calls
          MaxTicks,  \* bound: interrupts
          MaxChanges \* bound: calls of TimerSubscribe and TimerUnsubscribe

(* What the constants are assumed to be. *)
TimerAssumption ==
  /\ TickHz \in Nat \ {0} /\ NoCpu \notin TickCpu
  /\ Sub # {} /\ Interval \in [Sub -> Nat \ {0}]

VARIABLES ticks,     \* GTimer.Ticks
          handler,   \* where each CPU's interrupt handler is; "out" of it
          seen,      \* the value of Ticks each handler has in a register
          due,       \* what each handler has still to call
          subList,   \* GSubscriberList
          subCount,  \* GSubscriberCount
          counter, active, \* of each subscriber
          caller,    \* the thread in the list: [at, cpu, sub, adds]; it holds the lock in it
          interrupts, changes

clock == <<ticks, seen, interrupts>>
list == <<subList, subCount, counter, active>>
timerVars == <<clock, handler, due, list, caller, changes>>

Listed == Members(subList)
Held == caller.at # "out"
Goes(c, place) == handler' = [handler EXCEPT ![c] = place]

TimerStart ==
  /\ ticks = 0 /\ handler = [c \in TickCpu |-> "out"] /\ seen = [c \in TickCpu |-> 0]
  /\ due = [c \in TickCpu |-> <<>>]
  /\ subList = <<>> /\ subCount = 0 /\ counter = [s \in Sub |-> 0]
  /\ active = [s \in Sub |-> FALSE]
  /\ caller = [at |-> "out", cpu |-> NoCpu, sub |-> CHOOSE s \in Sub : TRUE, adds |-> TRUE]
  /\ interrupts = 0 /\ changes = 0
------------------------------------------------------------------------------
(* GTimer.Ticks++ is a load and a store, and the comparison may use the stored *)
(* value or read Ticks again.                                                  *)
TickLoad(c) ==
  /\ handler[c] = "out" /\ interrupts < MaxTicks /\ interrupts' = interrupts + 1
  /\ seen' = [seen EXCEPT ![c] = ticks] /\ Goes(c, "loaded")
  /\ UNCHANGED <<ticks, due, list, caller, changes>>

TickStore(c) ==
  /\ handler[c] = "loaded" /\ ticks' = seen[c] + 1 /\ Goes(c, "stored")
  /\ UNCHANGED <<seen, interrupts, due, list, caller, changes>>

SecondIsNow(n) == n = TickHz
SecondOver(n) == n >= TickHz

TickCompare(c) ==
  /\ handler[c] = "stored"
  /\ \E n \in {seen[c] + 1, ticks} : Goes(c, IF SecondOver(n) THEN "second" ELSE "list")
  /\ UNCHANGED <<clock, due, list, caller, changes>>

TickSecond(c) ==
  /\ handler[c] = "second" /\ ticks' = 0 /\ Goes(c, "list")
  /\ UNCHANGED <<seen, interrupts, due, list, caller, changes>>
------------------------------------------------------------------------------
(* ScheduleFromIsr, which follows the handler, may take the thread off its CPU *)
(* with the lock in its hands.                                                 *)
Return(c) ==
  /\ Goes(c, "out")
  /\ \/ UNCHANGED caller
     \/ Held /\ caller.cpu = c /\ caller' = [caller EXCEPT !.cpu = NoCpu]

(* TimerSubscriberTick looks at the list before it takes the lock. *)
TickLooks(c) ==
  /\ handler[c] = "list"
  /\ IF subList = <<>> THEN Return(c) ELSE Goes(c, "acquire") /\ UNCHANGED caller
  /\ UNCHANGED <<clock, due, list, changes>>

Counted(s) == (counter[s] + 1) % Interval[s]
Due == Kept(subList, {s \in Sub : active[s] /\ counter[s] + 1 >= Interval[s]})

TickCollects(c) ==
  /\ handler[c] = "acquire" /\ ~Held
  /\ due' = [due EXCEPT ![c] = SubSeq(Due, 1, IF Len(Due) > TsrMax THEN TsrMax ELSE Len(Due))]
  /\ subList' = Kept(subList, {s \in Sub : active[s]})
  /\ subCount' = subCount - Cardinality({i \in 1..Len(subList) : ~active[subList[i]]})
  /\ counter' = [s \in Sub |-> IF s \in Listed /\ active[s] THEN Counted(s) ELSE counter[s]]
  /\ Goes(c, "calls")
  /\ UNCHANGED <<clock, active, caller, changes>>

TickCalls(c) ==
  /\ handler[c] = "calls"
  /\ IF due[c] = <<>> THEN Return(c) /\ UNCHANGED due
     ELSE due' = [due EXCEPT ![c] = Tail(@)] /\ UNCHANGED <<handler, caller>>
  /\ UNCHANGED <<clock, list, changes>>

(* A handler spins, with interrupts off, while the thread has the lock. *)
TickSpins(c) == handler[c] = "acquire" /\ Held /\ UNCHANGED timerVars
------------------------------------------------------------------------------
(* The thread takes the lock, changes the list and lets it go. *)
CallerRuns == caller.cpu # NoCpu /\ handler[caller.cpu] = "out"

CallerEnters(c, s, adds) ==
  /\ ~Held /\ handler[c] = "out" /\ changes < MaxChanges /\ changes' = changes + 1
  /\ caller' = [at |-> "locked", cpu |-> c, sub |-> s, adds |-> adds]
  /\ UNCHANGED <<clock, handler, due, list>>

Link(s) ==
  /\ subList' = Append(subList, s) /\ subCount' = subCount + 1
  /\ counter' = [counter EXCEPT ![s] = 0] /\ active' = [active EXCEPT ![s] = TRUE]

LinkOnce(s) == IF s \in Listed THEN UNCHANGED list ELSE Link(s)

TimerSubscribe ==
  /\ caller.at = "locked" /\ CallerRuns /\ caller.adds
  /\ LinkOnce(caller.sub) /\ caller' = [caller EXCEPT !.at = "done"]
  /\ UNCHANGED <<clock, handler, due, changes>>

TimerUnsubscribe ==
  /\ caller.at = "locked" /\ CallerRuns /\ ~caller.adds
  /\ IF caller.sub \in Listed
     THEN /\ subList' = Kept(subList, Sub \ {caller.sub})
          /\ active' = [active EXCEPT ![caller.sub] = FALSE] /\ subCount' = subCount - 1
          /\ UNCHANGED counter
     ELSE UNCHANGED list
  /\ caller' = [caller EXCEPT !.at = "done"]
  /\ UNCHANGED <<clock, handler, due, changes>>

CallerLeaves ==
  /\ caller.at = "done" /\ CallerRuns /\ caller' = [caller EXCEPT !.at = "out", !.cpu = NoCpu]
  /\ UNCHANGED <<clock, handler, due, list, changes>>

CallerResumes(c) ==
  /\ Held /\ caller.cpu = NoCpu /\ handler[c] = "out"
  /\ caller' = [caller EXCEPT !.cpu = c]
  /\ UNCHANGED <<clock, handler, due, list, changes>>
------------------------------------------------------------------------------
TimerTick(c) == \/ TickLoad(c) \/ TickStore(c) \/ TickCompare(c) \/ TickSecond(c)
           \/ TickLooks(c) \/ TickCollects(c) \/ TickCalls(c) \/ TickSpins(c)

(* The bounds reached, there is nothing more to do. *)
TimerRests ==
  /\ \A c \in TickCpu : handler[c] = "out"
  /\ ~Held /\ interrupts = MaxTicks /\ changes = MaxChanges /\ UNCHANGED timerVars

TimerNext == \/ \E c \in TickCpu : \/ TimerTick(c) \/ CallerResumes(c)
                              \/ \E s \in Sub, adds \in BOOLEAN : CallerEnters(c, s, adds)
        \/ TimerSubscribe \/ TimerUnsubscribe \/ CallerLeaves \/ TimerRests

TimerSpec == TimerStart /\ [][TimerNext]_timerVars
------------------------------------------------------------------------------
(* Increments of two CPUs that cross can carry Ticks past the second's end, by *)
(* any number; once no CPU is between its load and its comparison Ticks is     *)
(* within the second (Timer.c:351-354).                                        *)
TicksComeBack ==
  (\A c \in TickCpu : handler[c] \notin {"loaded", "stored", "second"}) => ticks < TickHz

(* With nobody in the list its count, its members and their flags agree, no    *)
(* subscriber is in it twice, and none is overdue (TimerSubscriber.c:22-115).  *)
ListSound ==
  ~Held => /\ subCount = Len(subList) /\ Cardinality(Listed) = Len(subList)
           /\ Listed = {s \in Sub : active[s]}
           /\ \A s \in Listed : counter[s] < Interval[s]

TimerSound == TicksComeBack /\ ListSound
------------------------------------------------------------------------------
(* Not so: NotStuck (the handler spins for a lock that the thread it has       *)
(* interrupted holds, TimerSubscriber.c:26 and 92), CalledIsListed (a function *)
(* still runs after TimerUnsubscribe, 118), and OneAtATime (two CPUs call the  *)
(* same function together).                                                    *)
NotStuck == \A c \in TickCpu : handler[c] = "acquire" /\ Held => caller.cpu # c
CalledIsListed == \A c \in TickCpu : \A i \in 1..Len(due[c]) : due[c][i] \in Listed
OneAtATime ==
  \A c, d \in TickCpu : c # d /\ due[c] # <<>> /\ due[d] # <<>> => Head(due[c]) # Head(due[d])
=============================================================================
