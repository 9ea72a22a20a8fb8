------------------------------- MODULE KeyQueue -------------------------------
(* The key queue of the console (Source/Basecon.c): the keyboard interrupt     *)
(* adds events to a ring, the thread kconsole takes them out and sleeps when   *)
(* there are none.  The interrupt comes in on the BSP; kconsole may run on     *)
(* another CPU, so between any two steps of one the other may act.  TaskBlock  *)
(* and TaskWakeup are one step each here: their effect on kconsole's state,    *)
(* which Scheduler.tla refines.                                                *)
EXTENDS Integers, Sequences

CONSTANTS BASECON_KEY_QUEUE_SIZE,
          MaxKeys, \* bound: how many key events the keyboard sends
          NoKey

(* Events are numbered in the order the keyboard sends them. *)
Key == 1..MaxKeys

(* One slot of the ring stays empty, so it has at least two. *)
KeyQueueAssumption == BASECON_KEY_QUEUE_SIZE \in Nat \ {0, 1} /\ MaxKeys \in Nat /\ NoKey \notin Key

VARIABLES events,   \* GKeyQueue.Events
          head,     \* GKeyQueue.Head: where the next event goes
          tail,     \* GKeyQueue.Tail: the oldest event
          blocked,  \* GKeyQueue.Blocked
          handler,  \* the interrupt handler: "idle", or about to "wake" kconsole
          at,       \* where kconsole is in its loop
          ev,       \* its local Ev
          asleep,   \* is kconsole's State TASK_BLOCKED?
          keys,     \* how many events the keyboard has sent
          taken,    \* the events that found room, in order
          processed \* the events BaseconProcessKey was called with, in order

keysVars == <<events, head, tail, blocked, handler, at, ev, asleep, keys, taken, processed>>
queueVars == <<events, head, tail, blocked>>

KeySlot == 0..(BASECON_KEY_QUEUE_SIZE - 1)
Succ(i) == (i + 1) % BASECON_KEY_QUEUE_SIZE

(* BaseconStartConsoleThread, before kconsole has run for the first time. *)
KeysStart ==
  /\ events = [i \in KeySlot |-> NoKey]
  /\ head = 0 /\ tail = 0 /\ blocked = FALSE
  /\ handler = "idle"
  /\ at = "take" /\ ev = NoKey /\ asleep = FALSE
  /\ keys = 0 /\ taken = <<>> /\ processed = <<>>
------------------------------------------------------------------------------
(* One slot stays empty: a full ring would look like an empty one. *)
FullWhenCaughtUp == head = tail /\ events[head] # NoKey
Full == Succ(head) = tail

(* The interrupt handler: an event that finds no room is dropped.  Setting and *)
(* clearing Blocked is under the lock, the wake-up after it.                   *)
BaseconQueueKey ==
  /\ handler = "idle"
  /\ keys < MaxKeys
  /\ keys' = keys + 1
  /\ IF Full
     THEN UNCHANGED <<queueVars, handler, taken>>
     ELSE /\ events' = [events EXCEPT ![head] = keys + 1]
          /\ head' = Succ(head)
          /\ taken' = Append(taken, keys + 1)
          /\ blocked' = FALSE
          /\ handler' = IF blocked THEN "wake" ELSE "idle"
          /\ UNCHANGED tail
  /\ UNCHANGED <<at, ev, asleep, processed>>

(* TaskWakeup does nothing to a task that is not blocked. *)
TaskWakeup ==
  /\ handler = "wake"
  /\ handler' = "idle"
  /\ asleep' = FALSE
  /\ UNCHANGED <<queueVars, at, ev, keys, taken, processed>>
------------------------------------------------------------------------------
(* kconsole takes the oldest event ... *)
TakeKey ==
  /\ at = "take" /\ ~asleep
  /\ IF head # tail
     THEN /\ ev' = events[tail]
          /\ tail' = Succ(tail)
          /\ at' = "process"
     ELSE /\ at' = "check"
          /\ UNCHANGED <<ev, tail>>
  /\ UNCHANGED <<events, head, blocked, handler, asleep, keys, taken, processed>>

(* ... handles it, and goes for the next ... *)
BaseconProcessKey ==
  /\ at = "process" /\ ~asleep
  /\ processed' = Append(processed, ev)
  /\ ev' = NoKey
  /\ at' = "take"
  /\ UNCHANGED <<queueVars, handler, asleep, keys, taken>>

(* ... until there is none: it checks again under the lock, says it will       *)
(* sleep ...                                                                   *)
NeedBlock == head = tail

AnnounceBlock ==
  /\ at = "check" /\ ~asleep
  /\ blocked' = (blocked \/ NeedBlock)
  /\ at' = IF NeedBlock THEN "block" ELSE "take"
  /\ UNCHANGED <<events, head, tail, handler, ev, asleep, keys, taken, processed>>

(* ... and, with the lock released, does. *)
TaskBlock ==
  /\ at = "block" /\ ~asleep
  /\ asleep' = TRUE
  /\ at' = "take"
  /\ UNCHANGED <<queueVars, handler, ev, keys, taken, processed>>

KConsole == TakeKey \/ BaseconProcessKey \/ AnnounceBlock \/ TaskBlock

KeysNext == BaseconQueueKey \/ TaskWakeup \/ KConsole

(* The handler runs to its end, and a thread that is not asleep gets a CPU. *)
KeysFairness == WF_keysVars(TaskWakeup) /\ WF_keysVars(KConsole)

KeysSpec == KeysStart /\ [][KeysNext]_keysVars
KeysFairSpec == KeysSpec /\ KeysFairness
------------------------------------------------------------------------------
(* The indices stay inside the ring and the flags keep their types. *)
KeysTypeOK ==
  /\ events \in [KeySlot -> Key \cup {NoKey}]
  /\ head \in KeySlot /\ tail \in KeySlot /\ blocked \in BOOLEAN
  /\ handler \in {"idle", "wake"}
  /\ at \in {"take", "process", "check", "block"}
  /\ ev \in Key \cup {NoKey} /\ asleep \in BOOLEAN
  /\ keys \in Nat /\ taken \in Seq(Key) /\ processed \in Seq(Key)

Pending == [i \in 1..((head - tail) % BASECON_KEY_QUEUE_SIZE) |->
              events[(tail + i - 1) % BASECON_KEY_QUEUE_SIZE]]
InHand == IF at = "process" THEN <<ev>> ELSE <<>>

(* Every event that found room is handled once and in order, however the ring  *)
(* wraps and fills: what was handled, is in hand and is in the ring is exactly *)
(* what was accepted.                                                          *)
KeysInOrder == processed \o InHand \o Pending = taken

(* kconsole never says it will sleep over a queued event: while Blocked is set *)
(* the ring is empty, so the event that clears Blocked is the oldest one.      *)
BlockedOnEmpty == blocked => head = tail

(* The ring as a queue. *)
KeysSound == KeysTypeOK /\ KeysInOrder /\ BlockedOnEmpty

(* The comment in BaseconStartConsoleThread says of kconsole: "Input thread:   *)
(* keyboard -> BaseconProcessKey".  A key that is queued is processed.         *)
KeyReachesConsole == \A k \in Key : (Len(taken) >= k) ~> (Len(processed) >= k)
=============================================================================
