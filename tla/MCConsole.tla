------------------------------- MODULE MCConsole ------------------------------
(* The console's sides on small instances, one at a time, as nothing of one    *)
(* depends on another: part says which one moves.                              *)
(*   channels  StdIo and KObj, what programs write and read                    *)
(*   setup     Ps2Setup, the keyboard and the mouse brought up                 *)
(*   devices   Ps2, their bytes decoded                                        *)
(*   keys      KeyQueue, the keys on their way to kconsole                     *)
(*   editor    LineEditor, what becomes of them and of what is printed         *)
(*   cursor    Cursor, the mouse's arrow on the screen                         *)
EXTENDS StdIo, KeyQueue, TLC

CONSTANTS u1, h1, h2

Users == {u1}
Handles == {h1, h2}
Paths == {"Root", "Basecon"}
Symmetry == Permutations(Handles)

VARIABLES
  part,
  present, caps, dev, line, out, conf, ctl, port, kbd, mouse, tree, place, tries, id, typed, naks, mixed,
  strokes, down, packets, rest, faults, plugged, arrived, irq, decoder, stream, queue, slots, got, count,
  main, enabled, fixed, mode, waiting, prompt, buffer, cursor, history, current, scroll, outLine, x, y,
  screen, kconsole, redraw, left, right, entered, added, printed, erased, acts,
  init, pos, hot, visible, colour, outline, firstMove, dirty, sleepy, prev, kcursor, snap, toggle,
  paper, layer, pixels, painter, woken, moves

setupV == <<present, caps, dev, line, out, conf, ctl, port, kbd, mouse, tree, place, tries, id, typed,
            naks, mixed>>
deviceV == <<strokes, down, packets, rest, faults, plugged, arrived, irq, decoder, stream, queue, slots,
             got, count>>
editorV == <<main, enabled, fixed, mode, waiting, prompt, buffer, cursor, history, current, scroll,
             outLine, x, y, screen, kconsole, redraw, left, right, entered, added, printed, erased, acts>>
cursorV == <<init, pos, hot, visible, colour, outline, firstMove, dirty, sleepy, prev, kcursor, snap,
             toggle, paper, layer, pixels, painter, woken, moves>>

S == INSTANCE Ps2Setup WITH MaxKeys <- 1, MaxNaks <- 1, pc <- place, keys <- typed
P == INSTANCE Ps2 WITH QueueSize <- 3, Subscribers <- 1, SyncLimit <- 1, PacketSize <- 3, MaxFaults <- 1,
       MaxActs <- 3, out <- arrived, kbd <- decoder, mouse <- stream
ASSUME KeyQueueAssumption

E == INSTANCE LineEditor WITH BASECON_INPUT_BUFFER_SIZE <- 4, BASECON_HISTORY_SIZE <- 2,
       BASECON_SCROLLBACK_SIZE <- 2, BASECON_SCROLLBACK_LINE_LEN <- 4,
       BASECON_OUTLINE_BUFFER_SIZE <- 4, Width <- 3, Height <- 3, Char <- {"x", "y"}, MaxActs <- 6
C == INSTANCE Cursor WITH Width <- 3, Height <- 2, CursorWidth <- 3, CursorHeight <- 2,
       CursorData <- {<<1, 0>>, <<0, 1>>, <<1, 1>>, <<2, 1>>}, Colours <- {0}, Papers <- {8, 9},
       MaxActs <- 3, blocked <- sleepy, screen <- pixels, acts <- moves

(* The devices of the machine matter to their set-up only. *)
MCInit ==
  /\ part \in {"channels", "setup", "devices", "keys", "editor", "cursor"}
  /\ IoInit /\ S!SetupStart /\ P!Ps2Start /\ KeysStart /\ E!EditorStart /\ C!CursorStart
  /\ (part = "setup" \/ (present = {1, 2} /\ caps = {}))
  /\ (part = "devices" \/ arrived = <<>>)
  /\ (part = "cursor" \/ paper = 8)

ChannelStep == part = "channels" /\ Next /\ UNCHANGED <<setupV, deviceV, keysVars, editorV, cursorV>>
SetupStep == part = "setup" /\ S!SetupNext /\ UNCHANGED <<vars, deviceV, keysVars, editorV, cursorV>>
DeviceStep == part = "devices" /\ P!Ps2Next /\ UNCHANGED <<vars, setupV, keysVars, editorV, cursorV>>
KeyStep == part = "keys" /\ KeysNext /\ UNCHANGED <<vars, setupV, deviceV, editorV, cursorV>>
EditorStep == part = "editor" /\ E!EditorNext /\ UNCHANGED <<vars, setupV, deviceV, keysVars, cursorV>>
CursorStep == part = "cursor" /\ C!CursorNext /\ UNCHANGED <<vars, setupV, deviceV, keysVars, editorV>>

MCNext == UNCHANGED part /\ (ChannelStep \/ SetupStep \/ DeviceStep \/ KeyStep \/ EditorStep
                             \/ CursorStep)
MCSpec == MCInit /\ [][MCNext]_<<part, vars, setupV, deviceV, keysVars, editorV, cursorV>>
------------------------------------------------------------------------------
(* Ps2Setup: SetupSound, a driver that came up agrees with its device.  Ps2:   *)
(* Ps2Sound, keys and packets are decoded to what was done, and every event is *)
(* accounted for.  LineEditor: EditorSound, the line, the history, the         *)
(* scrollback and the screen are what the keys and the characters printed make *)
(* them.  Cursor: CursorSound, the arrow is where it was moved to and nowhere  *)
(* else.                                                                       *)
ScreenSound == CASE part = "setup" -> S!SetupSound
                 [] part = "devices" -> P!Ps2Sound
                 [] part = "editor" -> E!EditorSound
                 [] part = "cursor" -> C!CursorSound
                 [] OTHER -> TRUE
=============================================================================
