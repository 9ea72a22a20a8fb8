---------------------------------- MODULE Ps2 ----------------------------------
(* The keyboard and the mouse at work (Drivers/Ps2/Ps2Keyboard.c, Ps2Mouse.c): *)
(* both put their bytes into one output buffer, either's interrupt empties it, *)
(* and each byte goes by its tag to a decoder that keeps its state from byte   *)
(* to byte.  Both interrupts go to the processor that set them up, so one      *)
(* handler runs at a time; new bytes arrive while it does.                     *)
EXTENDS Integers, Sequences, FiniteSets, SequencesExt, TLC

CONSTANTS QueueSize,    \* PS2_KEY_QUEUE_SIZE and PS2_MOUSE_QUEUE_SIZE
          Subscribers,  \* PS2_MAX_SUBSCRIBERS and PS2_MOUSE_MAX_SUBSCRIBERS
          SyncLimit,    \* the 5 of the test of OutOfSyncCount
          PacketSize,   \* GMouse.PacketSize, as Ps2MouseInit left it
          MaxFaults,    \* bound: bytes lost, added or odd
          MaxActs       \* bound: strokes, packets and faults together

VARIABLES strokes,  \* what the keys have done: [key, make, again]
          down,     \* the keys that are down
          packets,  \* how many packets the mouse has begun
          rest,     \* the bytes of its packet it has yet to send
          faults,   \* bytes lost, packets with odd bytes, the mouse replugged
          plugged,  \* does the mouse still send?
          out,      \* the output buffer
          irq,      \* the handler that runs: "none", "keyboard", "mouse"
          kbd,      \* GPs2: Modifiers, KeyStates, ExtendedPrefix
          mouse,    \* GMouse: State, Packet, OutOfSyncCount
          queue,    \* the events of each device in its ring
          slots,    \* the subscribers of each device
          got,      \* the events of each device subscribers were called with
          count     \* per device: events made, dropped, unheard

vars == <<strokes, down, packets, rest, faults, plugged, out, irq, kbd, mouse, queue, slots,
          got, count>>
keys == <<strokes, down>>
wire == <<packets, rest, faults, plugged>>
ends == <<slots, got>>

Device == {"keyboard", "mouse"}
Nobody == "nobody"
Zero == [made |-> 0, dropped |-> 0, unheard |-> 0]

CanAct == slots["mouse"][1] # Nobody /\ Len(strokes) + packets + faults < MaxActs
CanFail == faults < MaxFaults /\ CanAct

(* A mouse that has just been enabled: its acknowledgement may still come. *)
StrayAck == [dev |-> "mouse", packet |-> 0, i |-> 1, b3 |-> TRUE, v |-> "FA"]

Ps2Start ==
  /\ strokes = <<>> /\ down = {} /\ packets = 0 /\ rest = <<>> /\ plugged = TRUE
  /\ \/ faults = 0 /\ out = <<>>
     \/ faults = 1 /\ out = <<StrayAck>> /\ MaxFaults > 0
  /\ irq = "none"
  /\ kbd = [mods |-> {}, states |-> {}, ext |-> FALSE]
  /\ mouse = [state |-> "activated", packet |-> <<>>, bad |-> 0]
  /\ queue = [d \in Device |-> <<>>] /\ got = [d \in Device |-> <<>>]
  /\ slots = [d \in Device |-> [i \in 1..Subscribers |-> Nobody]]
  /\ count = [d \in Device |-> Zero]
------------------------------------------------------------------------------
(* The keyboard: a few keys stand for their kinds.  Home and the keypad's 7    *)
(* have one scan code, Home's with a prefix; Pause is a sequence of its own.   *)
Code == [a |-> 30, ctrl |-> 29, lshift |-> 42, rshift |-> 54, caps |-> 58, num |-> 69,
         pad7 |-> 71, home |-> 71]
PhysicalKey == DOMAIN Code
Extended == {"home"}
E0 == 224
E1 == 225

ScanByte(n, code, make) == [dev |-> "keyboard", n |-> n, code |-> code, make |-> make]
Bytes(n, key, make) ==
  (IF key \in Extended THEN <<ScanByte(n, E0, TRUE)>> ELSE <<>>)
  \o <<ScanByte(n, Code[key], make)>>

Stroke(key, make, again) ==
  /\ CanAct
  /\ strokes' = Append(strokes, [key |-> key, make |-> make, again |-> again])
  /\ UNCHANGED <<wire, irq, kbd, mouse, queue, ends, count>>

Press(key) ==
  /\ key \notin down
  /\ Stroke(key, TRUE, FALSE)
  /\ down' = down \cup {key}
  /\ out' = out \o Bytes(Len(strokes) + 1, key, TRUE)

(* A key that is held repeats. *)
Repeat(key) ==
  /\ strokes # <<>> /\ Last(strokes).key = key /\ Last(strokes).make /\ key # "pause"
  /\ Stroke(key, TRUE, TRUE)
  /\ out' = out \o Bytes(Len(strokes) + 1, key, TRUE)
  /\ UNCHANGED down

Release(key) ==
  /\ key \in down
  /\ Stroke(key, FALSE, FALSE)
  /\ down' = down \ {key}
  /\ out' = out \o Bytes(Len(strokes) + 1, key, FALSE)

Pause ==
  LET n == Len(strokes) + 1
  IN /\ Stroke("pause", TRUE, FALSE)
     /\ out' = out \o <<ScanByte(n, E1, TRUE), ScanByte(n, 29, TRUE), ScanByte(n, 69, TRUE),
                        ScanByte(n, E1, TRUE), ScanByte(n, 29, FALSE), ScanByte(n, 69, FALSE)>>
     /\ UNCHANGED down

KeyboardActs ==
  Pause \/ \E key \in PhysicalKey : Press(key) \/ Repeat(key) \/ Release(key)
------------------------------------------------------------------------------
(* The mouse: a packet's first byte has bit 3 set, and is rarely 0xAA; of the  *)
(* others bit 3 is what it happens to be.                                      *)
MouseByte(packet, i, b3, v) ==
  [dev |-> "mouse", packet |-> packet, i |-> i, b3 |-> b3, v |-> v]

MoveMouse ==
  /\ plugged /\ rest = <<>> /\ CanAct
  /\ packets' = packets + 1
  /\ \E b \in BOOLEAN, v \in {"other", "AA"} :
       /\ v = "AA" => CanFail
       /\ faults' = IF v = "AA" THEN faults + 1 ELSE faults
       /\ rest' = [i \in 1..PacketSize |->
                     MouseByte(packets + 1, i, i = 1 \/ b, IF i = 1 THEN v ELSE "other")]
  /\ UNCHANGED <<keys, plugged, out, irq, kbd, mouse, queue, ends, count>>

SendByte ==
  /\ rest # <<>>
  /\ rest' = Tail(rest)
  /\ \/ out' = Append(out, Head(rest)) /\ UNCHANGED faults
     \/ /\ CanFail
        /\ faults' = faults + 1
        /\ UNCHANGED out
  /\ UNCHANGED <<keys, packets, plugged, irq, kbd, mouse, queue, ends, count>>

(* Another mouse is plugged in: it says 0xAA 0x00, and waits to be enabled. *)
Replug ==
  /\ plugged /\ CanFail
  /\ faults' = faults + 1
  /\ plugged' = FALSE
  /\ rest' = <<>>
  /\ out' = out \o <<MouseByte(0, 1, TRUE, "AA"), MouseByte(0, 2, FALSE, "00")>>
  /\ UNCHANGED <<keys, packets, irq, kbd, mouse, queue, ends, count>>

MouseActs == MoveMouse \/ SendByte \/ Replug
------------------------------------------------------------------------------
(* An event goes into its device's ring, one slot of which stays empty. *)
Push(d, e) ==
  /\ LET full == Len(queue[d]) = QueueSize - 1
     IN /\ queue' = IF full THEN queue ELSE [queue EXCEPT ![d] = Append(@, e)]
        /\ count' = [count EXCEPT ![d] = [@ EXCEPT !.made = @ + 1,
                                                   !.dropped = IF full THEN @ + 1 ELSE @]]

(* UpdateModifiers.  A lock changes when its key goes down, not when it        *)
(* repeats; either shift key sets the one bit and clears it.                   *)
Set(S, x, on) == IF on THEN S \cup {x} ELSE S \ {x}
Toggle(S, x) == Set(S, x, x \notin S)

LockAnyPress(m, code, x, make) == IF make THEN Toggle(m, x) ELSE m
Lock(m, code, x, make) == IF make /\ code \notin kbd.states THEN Toggle(m, x) ELSE m

UpdateModifiers(m, code, make) ==
  CASE code \in {42, 54} -> Set(m, "shift", make)
    [] code = 29 -> Set(m, "ctrl", make)
    [] code = 58 -> Lock(m, code, "caps", make)
    [] code = 69 -> Lock(m, code, "num", make)
    [] OTHER -> m

KeyStates(code, make) ==
  IF code \in {29, 42, 54, 58, 69} THEN Set(kbd.states, code, make) ELSE kbd.states

(* ScanCodeToAscii: GSet1Lower and GSet1Upper, CapsLock turning the case and   *)
(* Ctrl making a control character; the keypad types with NumLock or a shift.  *)
NoChar == "none"
GSet1Lower == 30 :> "a" @@ 71 :> "7"
GSet1Upper == 30 :> "A" @@ 71 :> "7"
OtherCase == [a |-> "A", A |-> "a"]

Caps(ch, m) == IF "caps" \in m /\ ch \in DOMAIN OtherCase THEN OtherCase[ch] ELSE ch
Ctrl(ch, m) == IF "ctrl" \in m /\ ch \in DOMAIN OtherCase THEN "^A" ELSE ch

ScanCodeToAscii(code, make, m) ==
  LET table == IF "shift" \in m THEN GSet1Upper ELSE GSet1Lower
  IN IF ~make \/ code \notin DOMAIN table \/ (code = 71 /\ m \cap {"num", "shift"} = {})
     THEN NoChar
     ELSE Ctrl(Caps(table[code], m), m)

(* Ps2HandleScanByte: a prefix is remembered for the next byte. *)
ScanCode(b) ==
  LET m == UpdateModifiers(kbd.mods, b.code, b.make)
  IN /\ kbd' = [mods |-> m, states |-> KeyStates(b.code, b.make), ext |-> FALSE]
     /\ Push("keyboard", [n |-> b.n, code |-> b.code, pressed |-> b.make, ext |-> kbd.ext,
                          ascii |-> ScanCodeToAscii(b.code, b.make, m), mods |-> m])

Ps2HandleScanByte(b) ==
  IF b.code \in {E0, E1}
  THEN /\ kbd' = IF b.code = E0 THEN [kbd EXCEPT !.ext = TRUE] ELSE kbd
       /\ UNCHANGED <<queue, count>>
  ELSE ScanCode(b)
------------------------------------------------------------------------------
(* ProcessMousePacket, of a packet that is complete. *)
OutOfSync(state) ==
  [mouse EXCEPT !.packet = <<>>, !.bad = @ + 1,
                !.state = IF mouse.bad + 1 > SyncLimit THEN state ELSE @]

ProcessMousePacket(p) ==
  IF ~p[1].b3
  THEN mouse' = OutOfSync("ignore") /\ UNCHANGED <<queue, count>>
  ELSE /\ mouse' = [mouse EXCEPT !.packet = <<>>, !.bad = 0]
       /\ Push("mouse", p)

(* Ps2MouseHandleByte once the test for a new mouse is past, p being the bytes *)
(* of the packet so far.  A first byte without bit 3 is skipped.               *)
PacketByte(p, b) ==
  IF p = <<>> /\ ~b.b3
  THEN mouse' = OutOfSync("resyncing") /\ UNCHANGED <<queue, count>>
  ELSE IF Len(p) + 1 = PacketSize
       THEN ProcessMousePacket(Append(p, b))
       ELSE mouse' = [mouse EXCEPT !.packet = Append(p, b)] /\ UNCHANGED <<queue, count>>

(* 0xAA 0x00 at the beginning of a packet is a new mouse, which is ignored     *)
(* from then on; after 0xAA alone the next byte begins the packet.             *)
Ps2MouseHandleByte(b) ==
  LET p == mouse.packet
      aa == Len(p) = 1 /\ p[1].v = "AA"
  IN CASE mouse.state # "activated" -> UNCHANGED <<mouse, queue, count>>
       [] mouse.state = "activated" /\ p = <<>> /\ b.v = "AA" ->
            mouse' = [mouse EXCEPT !.packet = <<b>>] /\ UNCHANGED <<queue, count>>
       [] mouse.state = "activated" /\ aa /\ b.v = "00" ->
            mouse' = [mouse EXCEPT !.state = "ignore"] /\ UNCHANGED <<queue, count>>
       [] OTHER -> PacketByte(IF aa THEN <<>> ELSE p, b)
------------------------------------------------------------------------------
(* Either handler comes in on a byte of its device ... *)
Interrupt ==
  /\ irq = "none" /\ out # <<>>
  /\ irq' = Head(out).dev
  /\ UNCHANGED <<keys, wire, out, kbd, mouse, queue, ends, count>>

(* ... takes the bytes one by one, the other device's too ... *)
RouteByIrq(b) == irq
Route(b) == b.dev

HandleByte ==
  /\ irq # "none" /\ out # <<>>
  /\ out' = Tail(out)
  /\ IF Route(Head(out)) = "keyboard"
     THEN Ps2HandleScanByte(Head(out)) /\ UNCHANGED mouse
     ELSE Ps2MouseHandleByte(Head(out)) /\ UNCHANGED kbd
  /\ UNCHANGED <<keys, wire, irq, ends>>

(* ... and when there are none hands out the events, in the handler still. *)
HasSubscriber(d) == \E i \in 1..Subscribers : slots[d][i] # Nobody

DispatchEvents ==
  /\ irq # "none" /\ out = <<>>
  /\ irq' = "none"
  /\ queue' = [d \in Device |-> <<>>]
  /\ got' = [d \in Device |-> IF HasSubscriber(d) THEN got[d] \o queue[d] ELSE got[d]]
  /\ count' = [d \in Device |->
                 [count[d] EXCEPT !.unheard = IF HasSubscriber(d) THEN @ ELSE @ + Len(queue[d])]]
  /\ UNCHANGED <<keys, wire, out, kbd, mouse, slots>>

(* Ps2KeyboardSubscribe and Ps2MouseSubscribe take the first free slot, their  *)
(* opposites clear every slot of the callback.                                 *)
Free(d) == {i \in 1..Subscribers : slots[d][i] = Nobody}

Subscribe(d, cb) ==
  /\ Free(d) # {}
  /\ \E i \in Free(d) : /\ \A j \in Free(d) : i <= j
                        /\ slots' = [slots EXCEPT ![d][i] = cb]
  /\ UNCHANGED <<keys, wire, out, irq, kbd, mouse, queue, got, count>>

Unsubscribe(d, cb) ==
  /\ slots' = [slots EXCEPT ![d] = [i \in 1..Subscribers |-> IF @[i] = cb THEN Nobody ELSE @[i]]]
  /\ UNCHANGED <<keys, wire, out, irq, kbd, mouse, queue, got, count>>

(* The cursor subscribes to the mouse, then the console to the keys; it leaves *)
(* when it shuts down.  (Bound: the devices act once the cursor is there, and  *)
(* the console comes before they do.)                                          *)
Clients ==
  \/ slots["mouse"][1] = Nobody /\ Subscribe("mouse", "cursor")
  \/ /\ HasSubscriber("mouse") /\ Len(strokes) + packets = 0
     /\ \/ ~HasSubscriber("keyboard") /\ Subscribe("keyboard", "console")
        \/ HasSubscriber("keyboard") /\ Unsubscribe("keyboard", "console")

Ps2Next == KeyboardActs \/ MouseActs \/ Interrupt \/ HandleByte \/ DispatchEvents \/ Clients

Ps2Spec == Ps2Start /\ [][Ps2Next]_vars
------------------------------------------------------------------------------
(* The decoders' states keep their types; a packet is never overrun. *)
Ps2TypeOK ==
  /\ mouse.state \in {"activated", "resyncing", "ignore"}
  /\ Len(mouse.packet) < PacketSize
  /\ \A d \in Device : Len(queue[d]) < QueueSize
  /\ kbd.mods \subseteq {"shift", "ctrl", "caps", "num"}

(* What the strokes up to the nth mean. *)
Held(key, n) ==
  \E i \in 1..n : /\ strokes[i].key = key /\ strokes[i].make
                  /\ \A j \in (i + 1)..n : strokes[j].key = key => strokes[j].make
Locked(key, n) ==
  Cardinality({i \in 1..n : strokes[i] = [key |-> key, make |-> TRUE, again |-> FALSE]}) % 2 = 1
Shifted(n) == Held("lshift", n) \/ Held("rshift", n)
BothShifts(n) == \E i \in 1..n : Held("lshift", i) /\ Held("rshift", i)
Paused(n) == \E i \in 1..n : strokes[i].key = "pause"

Meant(n) ==
  CASE strokes[n].key = "a" /\ Held("ctrl", n) -> "^A"
    [] strokes[n].key = "a" /\ ~Held("ctrl", n) -> IF Shifted(n) # Locked("caps", n) THEN "A" ELSE "a"
    [] strokes[n].key = "pad7" -> IF Locked("num", n) \/ Shifted(n) THEN "7" ELSE NoChar
    [] OTHER -> NoChar

KeyEvents == got["keyboard"] \o queue["keyboard"]

(* A key event is what its stroke means after all the strokes before it:       *)
(* prefix, locks, modifiers and character are right whatever mouse bytes come  *)
(* in between and however a held key repeats.  (Not after Pause, and not once  *)
(* both shift keys were down.)                                                 *)
KeysMeant ==
  \A e \in ToSet(KeyEvents) :
    LET s == strokes[e.n]
    IN ~Paused(e.n) =>
         /\ e.code = Code[s.key] /\ e.pressed = s.make /\ e.ext = (s.key \in Extended)
         /\ ("caps" \in e.mods) = Locked("caps", e.n) /\ ("num" \in e.mods) = Locked("num", e.n)
         /\ ~BothShifts(e.n) => ("shift" \in e.mods) = Shifted(e.n)
         /\ (~BothShifts(e.n) /\ s.make /\ s.key # "home") => e.ascii = Meant(e.n)

(* Events come in the order of their strokes and packets, and every event      *)
(* made was delivered, is queued, was dropped by a full ring or found nobody.  *)
EventsCounted ==
  /\ \A i, j \in 1..Len(KeyEvents) : i < j => KeyEvents[i].n <= KeyEvents[j].n
  /\ \A d \in Device :
       count[d].made = Len(got[d]) + Len(queue[d]) + count[d].dropped + count[d].unheard

(* As long as no byte was lost, added or odd, a mouse event is one packet of   *)
(* the mouse, whole; and the driver gives the mouse up only after more than    *)
(* SyncLimit bad bytes without a good packet, or for a new one.                *)
PacketsWhole ==
  /\ faults = 0 =>
       /\ \A p \in ToSet(got["mouse"] \o queue["mouse"]) :
            \A i \in 1..PacketSize : p[i].i = i /\ p[i].packet = p[1].packet
       /\ mouse.state = "activated"
  /\ mouse.state = "activated" => mouse.bad <= SyncLimit

Ps2Sound == Ps2TypeOK /\ KeysMeant /\ EventsCounted /\ PacketsWhole
------------------------------------------------------------------------------
(* What does not hold: Pause does more than nothing; a shift that is still     *)
(* down counts; Home types nothing; the mouse stays alive after a fault.       *)
PauseIgnored ==
  \A e \in ToSet(KeyEvents) : ("num" \in e.mods) = Locked("num", e.n)
ShiftCounts ==
  \A e \in ToSet(KeyEvents) : ~Paused(e.n) => ("shift" \in e.mods) = Shifted(e.n)
HomeTypesNothing ==
  \A e \in ToSet(KeyEvents) : strokes[e.n].key = "home" => e.ascii = NoChar
MouseStaysAlive == mouse.state = "activated"
=============================================================================
