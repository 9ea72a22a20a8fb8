------------------------------- MODULE Ps2Setup -------------------------------
(* How the PS/2 keyboard and mouse are brought up (Drivers/Ps2/Ps2.c, Init and *)
(* command functions of Ps2Keyboard.c and Ps2Mouse.c).  The processor and the  *)
(* two devices talk through one output buffer: what is read next may be the    *)
(* answer waited for, a late answer to an earlier command, or a key.           *)
(*                                                                             *)
(* Every wait has a time limit; it is far longer than a device takes, so it    *)
(* ends only when nothing is on its way.                                       *)
EXTENDS Integers, Sequences

CONSTANTS MaxKeys, \* bound: keys pressed meanwhile
          MaxNaks  \* bound: bytes a device fails to understand

Port == {1, 2}  \* 1: keyboard, 2: mouse

(* Bytes by their hexadecimal digits.  None is the 0xFF of a read in vain.     *)
Ack == "FA"
Nak == "FE"
Bat == "AA"
BatError == "FC"
None == "none"
Key == "key"    \* a scan code

VARIABLES present, \* the ports with a device on them
          caps,    \* what the mouse can become: "03", "04"
          dev,     \* the devices: reporting, scan code set or identity, ...
          line,    \* bytes a device has yet to hand to the controller
          out,     \* the output buffer: bytes with the port they came in by
          conf,    \* the configuration byte: "trans", "int1", "int2"
          ctl,     \* GPs2Controller: "no", "failed", "up"
          port,    \* Port1.Type, Port2.Type
          kbd,     \* the keyboard driver: "no", "failed", "up"
          mouse,   \* GMouse: up, Type, PacketSize
          tree,    \* the entries made in the device tree, with their parents
          pc,      \* where the processor is: function, call, step of the call
          tries,   \* attempts made at this call
          id,      \* the local Id1, BaseId or Param[0]
          keys, naks, \* what has happened against the bounds
          mixed    \* did mouse set-up read a key, or an interrupt its answer?

vars == <<present, caps, dev, line, out, conf, ctl, port, kbd, mouse, tree, pc, tries, id,
          keys, naks, mixed>>
drivers == <<conf, ctl, port, kbd, mouse, tree>>
still == <<present, caps>>

At(fn, call, sub) == [fn |-> fn, call |-> call, sub |-> sub]

SetupStart ==
  /\ present \in SUBSET Port /\ caps \in SUBSET {"03", "04"}
  /\ (2 \in present \/ caps = {})
  /\ dev = [p \in Port |-> [on |-> FALSE, is |-> IF p = 1 THEN "02" ELSE "00", want |-> None,
                            rates |-> <<>>]]
  /\ line = [p \in Port |-> <<>>] /\ out = <<>> /\ conf = {"trans"}
  /\ ctl = "no" /\ port = [p \in Port |-> None] /\ kbd = "no"
  /\ mouse = [up |-> "no", type |-> "standard", size |-> 3]
  /\ tree = {} /\ pc = At("controller", 1, "cmd") /\ tries = 1 /\ id = None
  /\ keys = 0 /\ naks = 0 /\ mixed = FALSE
------------------------------------------------------------------------------
(* The devices.  What one says to a byte, and what becomes of it.  A mouse     *)
(* takes another identity when three rates in a row are the right ones.        *)
Becomes(rates, is) ==
  IF rates = <<"200", "100", "80">> /\ "03" \in caps THEN "03"
  ELSE IF rates = <<"200", "200", "80">> /\ "04" \in caps THEN "04" ELSE is

Latest(rates, r) == LET s == Append(rates, r) IN SubSeq(s, IF Len(s) > 3 THEN 2 ELSE 1, Len(s))

Argument(d, b) ==
  LET r == Latest(d.rates, b)
      e == [d EXCEPT !.want = None]
  IN CASE d.want = "F0" /\ b = "00" -> [dev |-> e, say |-> <<Ack, d.is>>]
       [] d.want = "F0" /\ b # "00" -> [dev |-> [e EXCEPT !.is = b], say |-> <<Ack>>]
       [] d.want = "F3" -> [dev |-> [e EXCEPT !.rates = r, !.is = Becomes(r, d.is)],
                            say |-> <<Ack>>]
       [] OTHER -> [dev |-> e, say |-> <<Ack>>]

Command(p, d, b) ==
  CASE b = "FF" -> [dev |-> [d EXCEPT !.on = (p = 1), !.is = IF p = 1 THEN "02" ELSE "00",
                                      !.rates = <<>>],
                    say |-> IF p = 1 THEN <<Ack, Bat>> ELSE <<Ack, Bat, "00">>]
    [] b = "F2" -> [dev |-> d, say |-> IF p = 1 THEN <<Ack, "AB", "83">> ELSE <<Ack, d.is>>]
    [] b = "F4" -> [dev |-> [d EXCEPT !.on = TRUE], say |-> <<Ack>>]
    [] b \in {"F5", "F6"} -> [dev |-> [d EXCEPT !.on = FALSE], say |-> <<Ack>>]
    [] b \in {"F0", "F3", "E8"} -> [dev |-> [d EXCEPT !.want = b], say |-> <<Ack>>]
    [] OTHER -> [dev |-> d, say |-> <<Ack>>]

React(p, b) == IF dev[p].want = None THEN Command(p, dev[p], b) ELSE Argument(dev[p], b)

(* The devices and lines once port p got byte b, the lines having held l. *)
Tell(p, b, l) ==
  IF p \notin present THEN line' = l /\ UNCHANGED <<dev, naks>>
  ELSE \/ /\ dev' = [dev EXCEPT ![p] = React(p, b).dev]
          /\ line' = [l EXCEPT ![p] = @ \o React(p, b).say]
          /\ UNCHANGED naks
       \/ /\ naks < MaxNaks
          /\ naks' = naks + 1
          /\ dev' = [dev EXCEPT ![p].want = None]
          /\ line' = [l EXCEPT ![p] = Append(@, Nak)]

Untold == UNCHANGED <<dev, line, naks>>

Deliver(p) ==
  /\ line[p] # <<>>
  /\ line' = [line EXCEPT ![p] = Tail(@)]
  /\ out' = Append(out, <<p, Head(line[p])>>)
  /\ UNCHANGED <<still, dev, drivers, pc, tries, id, keys, naks, mixed>>

PressKey ==
  /\ 1 \in present /\ dev[1].on /\ keys < MaxKeys /\ pc.fn # "done"
  /\ keys' = keys + 1
  /\ line' = [line EXCEPT ![1] = Append(@, Key)]
  /\ UNCHANGED <<still, dev, out, drivers, pc, tries, id, naks, mixed>>
------------------------------------------------------------------------------
(* Reading with a time limit: Heard is the byte, or None. *)
Silent == out = <<>> /\ \A p \in Port : line[p] = <<>>
CanHear == out # <<>> \/ Silent
Heard == IF out = <<>> THEN None ELSE Head(out)[2]
Rest == IF out = <<>> THEN <<>> ELSE Tail(out)

(* A flush after a pause finds all that was on its way, one without a pause    *)
(* only what has arrived.                                                      *)
Settled == [p \in Port |-> <<>>]
------------------------------------------------------------------------------
(* Ps2RegisterSysDevice and its like: an entry under the bus or the root. *)
AddBus(t) == IF ctl = "up" THEN t \cup {<<"PS2", "root">>} ELSE t
AddKeyboard(t) == t \cup {<<"KEYBOARD", IF <<"PS2", "root">> \in t THEN "PS2" ELSE "root">>}
AddMouse(t) == t \cup {<<"MOUSE", IF <<"PS2", "root">> \in t THEN "PS2" ELSE "root">>}

(* Ps2Init up to Ps2DetectDevice(1): the controller tests itself. *)
Ps2ControllerInit ==
  /\ pc.fn = "controller"
  /\ out' = <<>>
  /\ \/ /\ conf' = {"trans"}
        /\ tree' = AddBus(tree)
        /\ pc' = At("detect", 1, "reset")
        /\ UNCHANGED ctl
     \/ /\ ctl' = "failed"
        /\ pc' = At("done", 1, "cmd")
        /\ UNCHANGED <<conf, tree>>
  /\ UNCHANGED <<still, dev, line, port, kbd, mouse, tries, id, keys, naks, mixed>>

(* Ps2DetectDevice of port pc.call, one step per byte read. *)
Detect(sub) == pc.fn = "detect" /\ pc.sub = sub
Detecting(sub) == pc' = [pc EXCEPT !.sub = sub]

(* The end of a detection: port 2 is next, then Ps2Init ends. *)
Detected(type) ==
  /\ port' = [port EXCEPT ![pc.call] = type]
  /\ IF pc.call = 1
     THEN pc' = At("detect", 2, "reset") /\ UNCHANGED <<conf, ctl>>
     ELSE /\ conf' = conf \cup {"int1", "int2"}
          /\ ctl' = "up"
          /\ pc' = At("keyboard", 1, "start")

DetectReset ==
  /\ Detect("reset")
  /\ out' = <<>>
  /\ Tell(pc.call, "FF", Settled)
  /\ Detecting("ack")
  /\ UNCHANGED <<still, drivers, tries, id, keys, mixed>>

(* Anything but the acknowledgement is garbage, a request to resend too. *)
DetectAck ==
  /\ Detect("ack") /\ CanHear
  /\ out' = Rest
  /\ IF Heard = None THEN Detected(None)
     ELSE Detecting(IF Heard = Ack THEN "bat" ELSE "ack") /\ UNCHANGED <<conf, ctl, port>>
  /\ Untold /\ UNCHANGED <<still, kbd, mouse, tree, tries, id, keys, mixed>>

DetectBat ==
  /\ Detect("bat") /\ CanHear
  /\ out' = Rest
  /\ IF Heard \in {None, BatError} THEN Detected(None)
     ELSE Detecting(IF Heard = Bat THEN "identify" ELSE "bat") /\ UNCHANGED <<conf, ctl, port>>
  /\ Untold /\ UNCHANGED <<still, kbd, mouse, tree, tries, id, keys, mixed>>

DetectIdentify ==
  /\ Detect("identify")
  /\ out' = <<>>
  /\ Tell(pc.call, "F2", Settled)
  /\ Detecting("response")
  /\ UNCHANGED <<still, drivers, tries, id, keys, mixed>>

(* What is not an acknowledgement is taken for the identity; if nothing came,  *)
(* what was last read is, which was the result of the self-test.               *)
DetectResponse ==
  /\ Detect("response") /\ CanHear
  /\ out' = Rest
  /\ id' = IF Heard = None THEN Bat ELSE Heard
  /\ Detecting(IF Heard = Ack THEN "id" ELSE "enable")
  /\ Untold /\ UNCHANGED <<still, drivers, tries, keys, mixed>>

DetectId ==
  /\ Detect("id") /\ CanHear
  /\ out' = Rest
  /\ id' = Heard
  /\ IF Heard = None THEN Detected(None)
     ELSE Detecting("enable") /\ UNCHANGED <<conf, ctl, port>>
  /\ Untold /\ UNCHANGED <<still, kbd, mouse, tree, tries, keys, mixed>>

TypeOf(p, x) ==
  CASE x \in {"AB", "83"} -> "keyboard"
    [] x = "00" -> "mouse"
    [] x = "03" /\ p = 2 -> "wheel"
    [] x = "04" /\ p = 2 -> "5btn"
    [] OTHER -> None

(* A second byte is read and not looked at; the rest is flushed. *)
DetectType ==
  /\ Detect("enable")
  /\ out' = <<>>
  /\ IF TypeOf(pc.call, id) = None
     THEN Detected(None) /\ line' = Settled /\ UNCHANGED <<dev, naks>>
     ELSE /\ Tell(pc.call, "F4", Settled)
          /\ Detecting("enabled")
          /\ UNCHANGED <<conf, ctl, port>>
  /\ UNCHANGED <<still, kbd, mouse, tree, tries, id, keys, mixed>>

DetectEnabled ==
  /\ Detect("enabled") /\ CanHear
  /\ out' = <<>>
  /\ Detected(TypeOf(pc.call, id))
  /\ Untold /\ UNCHANGED <<still, kbd, mouse, tree, tries, id, keys, mixed>>

DetectStep == DetectReset \/ DetectAck \/ DetectBat \/ DetectIdentify \/ DetectResponse
              \/ DetectId \/ DetectType \/ DetectEnabled
------------------------------------------------------------------------------
(* Ps2KeyboardInit, a sequence of commands to the keyboard. *)
KeyboardCall == <<"F5", "FF", "F0", "F0", "F4">>
KeyboardArg == <<None, None, "02", "00", None>>

Keyboard(sub) == pc.fn = "keyboard" /\ pc.sub = sub
Keying(call, sub) == pc' = At("keyboard", call, sub)

Ps2IsMousePresent ==
  \/ port[1] = "mouse"
  \/ port[2] \in {"mouse", "wheel", "5btn"}

(* Ps2KeyboardInit returns, and Ps2MouseInit starts. *)
KeyboardEnds(result) ==
  /\ kbd' = result
  /\ tree' = IF result = "up" THEN AddKeyboard(tree) ELSE tree
  /\ pc' = IF Ps2IsMousePresent THEN At("mouse reset", 1, "cmd") ELSE At("done", 1, "cmd")

KeyboardFails == KeyboardEnds("failed") /\ UNCHANGED conf
KeyboardGoesOn == UNCHANGED <<kbd, tree>>

Ps2KeyboardInit ==
  /\ Keyboard("start")
  /\ IF port[1] = None
     THEN KeyboardFails
     ELSE /\ conf' = conf \ {"trans"}
          /\ Keying(1, "cmd")
          /\ KeyboardGoesOn
  /\ Untold /\ UNCHANGED <<still, out, ctl, port, mouse, tries, id, keys, mixed>>

(* Ps2KeyboardSendCommand: flush, send ... *)
KeyboardSend ==
  /\ Keyboard("cmd")
  /\ out' = <<>>
  /\ Tell(1, KeyboardCall[pc.call], Settled)
  /\ Keying(pc.call, "ack")
  /\ UNCHANGED <<still, drivers, tries, id, keys, mixed>>

(* ... and wait for the acknowledgement, sending again when asked to.  The     *)
(* first command may fail; with the last, set-up ends.                         *)
KeyboardAck ==
  /\ Keyboard("ack") /\ CanHear
  /\ out' = Rest
  /\ LET c == pc.call IN
     CASE Heard = Ack /\ c = 1 -> Keying(2, "cmd") /\ KeyboardGoesOn /\ Untold /\ UNCHANGED conf
       [] Heard = Ack /\ c = 2 -> Keying(2, "bat") /\ KeyboardGoesOn /\ Untold /\ UNCHANGED conf
       [] Heard = Ack /\ c \in {3, 4} ->
            Tell(1, KeyboardArg[c], line) /\ Keying(c, "arg") /\ KeyboardGoesOn /\ UNCHANGED conf
       [] Heard = Ack /\ c = 5 -> KeyboardEnds("up") /\ Untold /\ UNCHANGED conf
       [] Heard = Nak -> Tell(1, KeyboardCall[c], line) /\ KeyboardGoesOn /\ UNCHANGED <<pc, conf>>
       [] Heard = None /\ c = 1 -> Keying(2, "cmd") /\ KeyboardGoesOn /\ Untold /\ UNCHANGED conf
       [] Heard = None /\ c # 1 -> KeyboardFails /\ Untold
       [] OTHER -> KeyboardGoesOn /\ Untold /\ UNCHANGED <<pc, conf>>
  /\ UNCHANGED <<still, ctl, port, mouse, tries, id, keys, mixed>>

(* Ps2KeyboardReset waits for the result of the self-test. *)
KeyboardBat ==
  /\ Keyboard("bat") /\ CanHear
  /\ out' = IF Heard = Bat THEN <<>> ELSE Rest
  /\ IF Heard \in {None, BatError} THEN KeyboardFails
     ELSE /\ Keying(IF Heard = Bat THEN 3 ELSE 2, IF Heard = Bat THEN "cmd" ELSE "bat")
          /\ KeyboardGoesOn
          /\ UNCHANGED conf
  /\ Untold /\ UNCHANGED <<still, ctl, port, mouse, tries, id, keys, mixed>>

(* Ps2KeyboardSetScanCodeSet wants its argument acknowledged;                  *)
(* Ps2KeyboardQueryScanCodeSet reads two bytes, of which the second counts.    *)
KeyboardSet ==
  /\ Keyboard("arg") /\ pc.call = 3 /\ CanHear
  /\ out' = Rest
  /\ IF Heard = Ack THEN Keying(4, "cmd") /\ KeyboardGoesOn /\ UNCHANGED conf ELSE KeyboardFails
  /\ Untold /\ UNCHANGED <<still, ctl, port, mouse, tries, id, keys, mixed>>

KeyboardQuery ==
  /\ Keyboard("arg") /\ pc.call = 4 /\ CanHear
  /\ out' = Rest
  /\ IF Heard = None THEN KeyboardFails
     ELSE Keying(4, "set") /\ KeyboardGoesOn /\ UNCHANGED conf
  /\ Untold /\ UNCHANGED <<still, ctl, port, mouse, tries, id, keys, mixed>>

TranslationOn(c) == c \cup {"trans"}

KeyboardCheck ==
  /\ Keyboard("set") /\ CanHear
  /\ out' = Rest
  /\ IF Heard = "02"
     THEN conf' = TranslationOn(conf) /\ Keying(5, "cmd") /\ KeyboardGoesOn
     ELSE KeyboardFails
  /\ Untold /\ UNCHANGED <<still, ctl, port, mouse, tries, id, keys, mixed>>

KeyboardStep == Ps2KeyboardInit \/ KeyboardSend \/ KeyboardAck \/ KeyboardBat \/ KeyboardSet
                \/ KeyboardQuery \/ KeyboardCheck
------------------------------------------------------------------------------
(* Ps2MouseInit, first Ps2MouseReset: three bytes, the third whatever it is. *)
MouseReset(sub) == pc.fn = "mouse reset" /\ pc.sub = sub
MouseGoesOn == UNCHANGED <<still, conf, ctl, port, kbd, keys>>

(* Which of the bytes it reads belong to the keyboard? *)
Mixing == mixed' = (mixed \/ (out # <<>> /\ Head(out)[1] = 1))

MouseFails ==
  /\ mouse' = [mouse EXCEPT !.up = "failed"]
  /\ pc' = At("done", 1, "cmd")

MouseResetSend ==
  /\ MouseReset("cmd")
  /\ out' = <<>>
  /\ Tell(2, "FF", line)
  /\ pc' = [pc EXCEPT !.sub = "ack"]
  /\ MouseGoesOn /\ UNCHANGED <<mouse, tree, tries, id, mixed>>

MouseResetRead ==
  /\ pc.fn = "mouse reset" /\ pc.sub \in {"ack", "bat", "id"} /\ CanHear
  /\ out' = IF pc.sub = "id" THEN <<>> ELSE Rest
  /\ Mixing
  /\ CASE pc.sub = "ack" /\ Heard = Ack -> pc' = [pc EXCEPT !.sub = "bat"] /\ UNCHANGED mouse
       [] pc.sub = "bat" /\ Heard = Bat -> pc' = [pc EXCEPT !.sub = "id"] /\ UNCHANGED mouse
       [] pc.sub = "id" -> pc' = At("mouse", 1, "cmd") /\ UNCHANGED mouse
       [] OTHER -> MouseFails
  /\ Untold /\ MouseGoesOn /\ UNCHANGED <<tree, tries, id>>

(* Then a sequence of commands: bare, with an argument, or with an answer.     *)
(* 1-2 reset it to its defaults, 3-14 are Ps2MouseDetectType, 15-17 set        *)
(* resolution, scale and rate, 18 enables it.                                  *)
Bare(c) == [how |-> "bare", cmd |-> c, arg |-> None]
With(c, a) == [how |-> "with", cmd |-> c, arg |-> a]
GetId == [how |-> "read", cmd |-> "F2", arg |-> None]

IntelliMouse == <<With("F3", "200"), With("F3", "100"), With("F3", "80")>>
Explorer == <<With("F3", "200"), With("F3", "200"), With("F3", "80")>>
Horizontal == <<With("F3", "200"), With("F3", "80"), With("F3", "40")>>

MouseCall ==
  <<Bare("F6"), Bare("F6"), GetId>> \o IntelliMouse \o <<GetId>> \o Explorer \o <<GetId>>
  \o Horizontal \o <<With("E8", "02"), Bare("E6"), With("F3", "100"), Bare("F4")>>

(* Where Ps2MouseDetectType goes after call k, x being the identity it read,   *)
(* and what it returns if it does.                                             *)
After(k, x) ==
  CASE k = 3 /\ x \notin {"00", "03", "04", None} -> 15
    [] k = 7 /\ x = "03" -> 15
    [] k = 11 /\ x # "04" -> 15
    [] OTHER -> k + 1

Type(k, x) ==
  IF k = 7 /\ x = "03" THEN "intellimouse" ELSE IF k = 14 THEN "explorer" ELSE mouse.type

SizeOf(type) == IF type = "standard" THEN 3 ELSE 4

(* The call is over, whether it succeeded or not: nobody looks. *)
Called(x) ==
  LET k == pc.call
      t == Type(k, x)
  IN /\ id' = x
     /\ tries' = 1
     /\ mouse' = [mouse EXCEPT !.type = t, !.size = SizeOf(t)]
     /\ pc' = At("mouse", After(k, x), "cmd")

Mouse(sub) == pc.fn = "mouse" /\ pc.sub = sub
Here == MouseCall[pc.call]
Stays == UNCHANGED <<tree, mouse>>

(* Ps2MouseSimpleCommand reads no answer: after the first two and before the   *)
(* last there is a pause and a flush.                                          *)
MouseSend ==
  /\ Mouse("cmd") /\ pc.call # 18
  /\ out' = <<>>
  /\ Tell(2, Here.cmd, line)
  /\ IF Here.how = "bare" /\ pc.call = 16
     THEN Called(id) /\ UNCHANGED tree
     ELSE /\ pc' = [pc EXCEPT !.sub = IF Here.how = "bare" THEN "pause" ELSE "ack"]
          /\ Stays /\ UNCHANGED <<tries, id>>
  /\ MouseGoesOn /\ UNCHANGED mixed

(* Param of Ps2MouseDetectType has no value before the first answer. *)
MousePause ==
  /\ Mouse("pause")
  /\ out' = <<>>
  /\ line' = [line EXCEPT ![2] = <<>>]
  /\ \E x \in IF pc.call = 2 THEN {"00", "03", "04", None, "83"} ELSE {id} : Called(x)
  /\ MouseGoesOn /\ UNCHANGED <<dev, naks, tree, mixed>>

(* The command is tried three times while the device asks for it. *)
Again ==
  IF tries < 3
  THEN tries' = tries + 1 /\ pc' = [pc EXCEPT !.sub = "cmd"] /\ UNCHANGED <<mouse, id>>
  ELSE Called(id)

MouseAck ==
  /\ Mouse("ack") /\ CanHear
  /\ out' = Rest /\ Mixing
  /\ CASE Heard = Ack /\ Here.how = "with" ->
            /\ Tell(2, Here.arg, line)
            /\ pc' = [pc EXCEPT !.sub = "arg"]
            /\ UNCHANGED <<mouse, tries, id>>
       [] Heard = Ack /\ Here.how = "read" ->
            Untold /\ pc' = [pc EXCEPT !.sub = "id"] /\ UNCHANGED <<mouse, tries, id>>
       [] Heard = Nak -> Untold /\ Again
       [] OTHER -> Untold /\ Called(id)
  /\ MouseGoesOn /\ UNCHANGED tree

(* Ps2MouseCommandWithData, the answer to its argument. *)
MouseArg ==
  /\ Mouse("arg") /\ CanHear
  /\ out' = Rest /\ Mixing
  /\ IF Heard = Nak THEN Again ELSE Called(id)
  /\ Untold /\ MouseGoesOn /\ UNCHANGED tree

(* Ps2MouseCommandRead, the answer proper. *)
MouseId ==
  /\ Mouse("id") /\ CanHear
  /\ out' = Rest /\ Mixing
  /\ Called(Heard)
  /\ Untold /\ MouseGoesOn /\ UNCHANGED tree

(* The last flush, and the command that starts the stream of packets: its      *)
(* acknowledgement is not read.                                                *)
MouseEnable ==
  /\ Mouse("cmd") /\ pc.call = 18
  /\ out' = <<>>
  /\ Tell(2, "F4", [line EXCEPT ![2] = <<>>])
  /\ mouse' = [mouse EXCEPT !.up = "up"]
  /\ tree' = AddMouse(tree)
  /\ pc' = At("done", 1, "cmd")
  /\ MouseGoesOn /\ UNCHANGED <<tries, id, mixed>>

MouseStep == MouseResetSend \/ MouseResetRead \/ MouseSend \/ MousePause \/ MouseAck
             \/ MouseArg \/ MouseId \/ MouseEnable

(* Once the keyboard driver is up its interrupt comes in, and its handler      *)
(* takes every byte there is: the mouse's, which it throws away, too.          *)
Ps2KeyboardHandleIRQ ==
  /\ kbd = "up" /\ "int1" \in conf
  /\ \E i \in 1..Len(out) : out[i][1] = 1
  /\ out' = <<>>
  /\ mixed' = (mixed \/ \E i \in 1..Len(out) : out[i][1] = 2)
  /\ UNCHANGED <<still, dev, line, drivers, pc, tries, id, keys, naks>>

SetupNext ==
  \/ \E p \in Port : Deliver(p)
  \/ PressKey
  \/ Ps2ControllerInit \/ DetectStep \/ KeyboardStep \/ MouseStep
  \/ Ps2KeyboardHandleIRQ

SetupSpec == SetupStart /\ [][SetupNext]_vars
------------------------------------------------------------------------------
(* The drivers' states and the bytes on their way keep their types. *)
SetupTypeOK ==
  /\ kbd \in {"no", "failed", "up"} /\ mouse.up \in {"no", "failed", "up"}
  /\ mouse.type \in {"standard", "intellimouse", "explorer"} /\ mouse.size \in {3, 4}
  /\ conf \subseteq {"trans", "int1", "int2"} /\ tries \in 1..3
  /\ \A i \in 1..Len(out) : out[i][1] \in Port

(* A keyboard driver that came up has a keyboard that sends what the handler   *)
(* decodes: set 2, translated to set 1, reported, with the interrupt on;       *)
(* whatever was typed meanwhile and however often a byte was refused.          *)
KeyboardReady ==
  kbd = "up" => /\ dev[1].is = "02" /\ dev[1].on /\ {"trans", "int1"} \subseteq conf

(* The driver's packet size is the mouse's, even if the mouse had bytes sent   *)
(* again, unless a key or the keyboard's handler got between the answers.      *)
PacketSizeAgrees ==
  mouse.up = "up" /\ ~mixed => mouse.size = (IF dev[2].is = "00" THEN 3 ELSE 4)

(* With nobody typing and every byte understood, each device that is there     *)
(* gets its driver.                                                            *)
QuietSetupWorks ==
  pc.fn = "done" /\ ctl = "up" /\ keys = 0 /\ naks = 0 =>
    /\ (kbd = "up") = (1 \in present)
    /\ (mouse.up = "up") = (2 \in present)

SetupSound == SetupTypeOK /\ KeyboardReady /\ PacketSizeAgrees /\ QuietSetupWorks
------------------------------------------------------------------------------
(* What does not hold.  A key typed while the drivers start costs a device its *)
(* driver, as its scan code is taken for an answer; a key between a mouse's    *)
(* answers leaves driver and mouse with different packets; the bus is entered  *)
(* in the device tree before the controller is up, so it never is.             *)
TypingIsHarmless == pc.fn = "done" /\ ctl = "up" /\ naks = 0 => (kbd = "up") = (1 \in present)
PacketsAlwaysAgree == mouse.up = "up" => mouse.size = (IF dev[2].is = "00" THEN 3 ELSE 4)
KeyboardOnBus == kbd = "up" => <<"KEYBOARD", "PS2">> \in tree
=============================================================================
