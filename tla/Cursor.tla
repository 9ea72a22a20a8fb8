-------------------------------- MODULE Cursor --------------------------------
(* The mouse cursor (Source/Gui/Cursor.c) on its layer of the framebuffer      *)
(* (Source/Drivers/Framebuffer/Base.c).  The mouse's handler moves it and      *)
(* wakes kcursor, which draws it; the console paints layer 0 meanwhile.  What  *)
(* is done under GCursor.Lock, or under the framebuffer's, is a step.          *)
EXTENDS Integers

CONSTANTS Width, Height,             \* of the screen
          CursorWidth, CursorHeight, \* of the cursor
          CursorData,                \* the pixels of its shape
          Colours,                   \* 0, which is transparent, and others
          Papers,                    \* what layer 0 may show
          MaxActs \* bound: events, calls and redraws together

VARIABLES init,    \* MouseCursorInit: "start", "layer", "tasked", "ready", or "none"
          pos,     \* X, Y
          hot,     \* HotX, HotY
          visible, colour, outline, firstMove,
          dirty, blocked,
          prev,    \* the rectangle drawn last: [valid, at]
          kcursor, \* where the thread is; "none" before it is created
          snap,    \* its copies of the fields above
          toggle,  \* MouseCursorToggle between its two steps
          paper,   \* layer 0, all of one kind
          layer,   \* layer 1
          screen,
          painter, \* kconsoleout: "idle", or "painted" until it swaps
          woken,   \* has the handler cleared Blocked and not yet called TaskWakeup?
          acts

state == <<pos, hot, visible, colour, outline, firstMove, dirty, blocked>>
thread == <<prev, kcursor, snap>>
display == <<paper, layer, screen, painter>>
vars == <<init, state, thread, toggle, display, woken, acts>>

Acts == acts < MaxActs /\ acts' = acts + 1
Pixel == (0..(Width - 1)) \X (0..(Height - 1))
Blank == [p \in Pixel |-> 0]
Within(p) == p[1] \in 0..(CursorWidth - 1) /\ p[2] \in 0..(CursorHeight - 1)
Minus(p, q) == <<p[1] - q[1], p[2] - q[2]>>
Clamped(n, size) == IF n < 0 THEN 0 ELSE IF n >= size THEN size - 1 ELSE n

(* RenderCursorTo: a pixel with nothing above, or nothing below except in the  *)
(* last row, or nothing beside it is the outline.                              *)
IsBorder(p) ==
  \/ <<p[1], p[2] - 1>> \notin CursorData
  \/ p[2] < CursorHeight - 1 /\ <<p[1], p[2] + 1>> \notin CursorData
  \/ <<p[1] - 1, p[2]>> \notin CursorData
  \/ p[1] = CursorWidth - 1 \/ <<p[1] + 1, p[2]>> \notin CursorData

RenderCursorTo(p, c, o) ==
  IF ~Within(p) \/ p \notin CursorData THEN 0 ELSE IF IsBorder(p) THEN o ELSE c

(* What lies on top hides what is below where it is not transparent. *)
Over(top, bottom) == [p \in Pixel |-> IF top[p] = 0 THEN bottom[p] ELSE top[p]]
Image(at, c, o) == [p \in Pixel |-> RenderCursorTo(Minus(p, at), c, o)]
Cleared(old) == [p \in Pixel |-> IF prev.valid /\ Within(Minus(p, prev.at)) THEN 0 ELSE old[p]]
------------------------------------------------------------------------------
CursorStart ==
  /\ init = "start" /\ pos = <<Width - 1, 0>> /\ hot = <<0, 0>>
  /\ visible = FALSE /\ colour = 1 /\ outline = 2 /\ firstMove = TRUE
  /\ dirty = FALSE /\ blocked = FALSE
  /\ prev = [valid |-> FALSE, at |-> <<0, 0>>] /\ kcursor = "none"
  /\ snap = [visible |-> FALSE, at |-> <<0, 0>>, colour |-> 1, outline |-> 2]
  /\ toggle = "no" /\ paper \in Papers /\ layer = Blank
  /\ screen = [p \in Pixel |-> paper] /\ painter = "idle" /\ woken = FALSE /\ acts = 0

(* There may be no screen, no mouse, no memory for the layer. *)
FramebufferInitCursorLayer ==
  /\ init = "start" /\ init' \in {"none", "layer"}
  /\ UNCHANGED <<state, thread, toggle, display, woken, acts>>

(* With no memory for the buffer the layer stays; with none for the thread the *)
(* cursor is ready and is never drawn.                                         *)
MouseCursorInit ==
  /\ init = "layer" /\ pos' = <<Width \div 2, Height \div 2>>
  /\ \/ init' = "none" /\ UNCHANGED kcursor
     \/ init' = "tasked" /\ kcursor' \in {"loop", "none"}
  /\ UNCHANGED <<hot, visible, colour, outline, firstMove, dirty, blocked, prev, snap, toggle,
                 display, woken, acts>>

Ps2MouseSubscribe ==
  init = "tasked" /\ init' = "ready" /\ UNCHANGED <<state, thread, toggle, display, woken, acts>>
------------------------------------------------------------------------------
(* The interrupt handler runs to its end before the next event. *)
MouseCursorHandler ==
  /\ init = "ready" /\ ~woken /\ Acts
  /\ \E dx, dy \in -1..1 :
       pos' = <<Clamped(pos[1] + dx, Width), Clamped(pos[2] - dy, Height)>>
  /\ dirty' = TRUE /\ firstMove' = FALSE /\ visible' = (visible \/ firstMove)
  /\ woken' = blocked /\ blocked' = FALSE
  /\ UNCHANGED <<init, hot, colour, outline, thread, toggle, display>>

TaskWakeup ==
  /\ woken /\ woken' = FALSE
  /\ kcursor' = IF kcursor = "asleep" THEN "loop" ELSE kcursor
  /\ UNCHANGED <<init, state, prev, snap, toggle, display, acts>>
------------------------------------------------------------------------------
(* The calls of Gui/Cursor.h.  None wakes kcursor. *)
Call == init \in {"tasked", "ready"} /\ Acts /\ UNCHANGED <<init, thread, display, woken, blocked>>

MouseCursorSetPosition(p) ==
  /\ Call /\ pos' = p /\ dirty' = TRUE /\ firstMove' = FALSE /\ visible' = TRUE
  /\ UNCHANGED <<hot, colour, outline, toggle>>

MouseCursorSetHotSpot(p) ==
  /\ Call /\ Within(p) /\ hot' = p /\ dirty' = TRUE
  /\ UNCHANGED <<pos, visible, colour, outline, firstMove, toggle>>

Show == visible' = TRUE /\ dirty' = (dirty \/ ~visible) /\ firstMove' = FALSE
Hide == visible' = FALSE /\ dirty' = (dirty \/ visible) /\ UNCHANGED firstMove

MouseCursorShow == Call /\ Show /\ UNCHANGED <<pos, hot, colour, outline, toggle>>
MouseCursorHide == Call /\ Hide /\ UNCHANGED <<pos, hot, colour, outline, toggle>>

(* It looks, lets the lock go and then shows or hides. *)
MouseCursorToggle ==
  \/ /\ toggle = "no" /\ Call /\ toggle' = (IF visible THEN "hide" ELSE "show")
     /\ UNCHANGED <<pos, hot, visible, colour, outline, firstMove, dirty>>
  \/ /\ toggle = "hide" /\ Hide /\ toggle' = "no"
     /\ UNCHANGED <<init, pos, hot, colour, outline, blocked, thread, display, woken, acts>>
  \/ /\ toggle = "show" /\ Show /\ toggle' = "no"
     /\ UNCHANGED <<init, pos, hot, colour, outline, blocked, thread, display, woken, acts>>

MouseCursorSetColor(c) ==
  /\ Call /\ colour' = c /\ dirty' = TRUE
  /\ UNCHANGED <<pos, hot, visible, outline, firstMove, toggle>>

MouseCursorSetOutlineColor(c) ==
  /\ Call /\ outline' = c /\ dirty' = TRUE
  /\ UNCHANGED <<pos, hot, visible, colour, firstMove, toggle>>
------------------------------------------------------------------------------
(* UpdateCursor copies the fields and clears Dirty under the lock, draws       *)
(* without it, and takes it again to remember where.  A thread that comes to   *)
(* the test with Dirty set goes round again.                                   *)
Snapshot ==
  /\ kcursor = "loop"
  /\ IF ~dirty
     THEN kcursor' = "test" /\ UNCHANGED snap
     ELSE /\ snap' = [visible |-> visible, at |-> Minus(pos, hot), colour |-> colour,
                      outline |-> outline]
          /\ kcursor' = IF visible \/ prev.valid THEN "draw" ELSE "test"
  /\ dirty' = FALSE
  /\ UNCHANGED <<init, pos, hot, visible, colour, outline, firstMove, blocked, prev, toggle,
                 display, woken, acts>>

Drawn(old) ==
  IF snap.visible THEN Over(Image(snap.at, snap.colour, snap.outline), Cleared(old)) ELSE Cleared(old)

FramebufferDrawCursor ==
  /\ kcursor = "draw" /\ kcursor' = "swap" /\ layer' = Drawn(layer)
  /\ UNCHANGED <<init, state, prev, snap, toggle, paper, screen, painter, woken, acts>>

Swapped == screen' = Over(layer, [p \in Pixel |-> paper])

FramebufferSwapBuffers ==
  /\ kcursor = "swap" /\ kcursor' = "save" /\ Swapped
  /\ UNCHANGED <<init, state, prev, snap, toggle, paper, layer, painter, woken, acts>>

RememberAndClean ==
  /\ kcursor = "save" /\ kcursor' = "test"
  /\ prev' = [valid |-> snap.visible, at |-> IF snap.visible THEN snap.at ELSE prev.at]
  /\ dirty' = FALSE
  /\ UNCHANGED <<init, pos, hot, visible, colour, outline, firstMove, blocked, snap, toggle,
                 display, woken, acts>>

Remember ==
  /\ kcursor = "save" /\ kcursor' = "test"
  /\ prev' = [valid |-> snap.visible, at |-> IF snap.visible THEN snap.at ELSE prev.at]
  /\ UNCHANGED <<init, state, snap, toggle, display, woken, acts>>

Test ==
  /\ kcursor = "test" /\ kcursor' = IF dirty THEN "loop" ELSE "block"
  /\ blocked' = (blocked \/ ~dirty)
  /\ UNCHANGED <<init, pos, hot, visible, colour, outline, firstMove, dirty, prev, snap, toggle,
                 display, woken, acts>>

TaskBlock ==
  /\ kcursor = "block" /\ kcursor' = "asleep"
  /\ UNCHANGED <<init, state, prev, snap, toggle, display, woken, acts>>

(* kconsoleout paints and, with the framebuffer's lock taken anew, swaps. *)
BaseconRedraw ==
  \/ /\ painter = "idle" /\ Acts /\ painter' = "painted" /\ paper' \in Papers
     /\ UNCHANGED <<init, state, thread, toggle, layer, screen, woken>>
  \/ /\ painter = "painted" /\ painter' = "idle" /\ Swapped
     /\ UNCHANGED <<init, state, thread, toggle, paper, layer, woken, acts>>

CursorNext ==
  \/ FramebufferInitCursorLayer \/ MouseCursorInit \/ Ps2MouseSubscribe
  \/ MouseCursorHandler \/ TaskWakeup
  \/ MouseCursorShow \/ MouseCursorHide \/ MouseCursorToggle
  \/ \E p \in Pixel : MouseCursorSetPosition(p) \/ MouseCursorSetHotSpot(p)
  \/ \E c \in Colours : MouseCursorSetColor(c) \/ MouseCursorSetOutlineColor(c)
  \/ Snapshot \/ FramebufferDrawCursor \/ FramebufferSwapBuffers \/ Remember \/ Test \/ TaskBlock
  \/ BaseconRedraw

CursorSpec == CursorStart /\ [][CursorNext]_vars
------------------------------------------------------------------------------
(* Moves and calls may come between any two steps of kcursor.  Outside of its  *)
(* drawing, layer 1 holds no pixel outside the rectangle that it remembers and *)
(* will clear; when it finds nothing to do the layer shows the cursor as it is *)
(* set; and the screen is both layers, unless somebody is about to swap them.  *)
NoGhost == kcursor \notin {"swap", "save"} =>
  \A p \in Pixel : layer[p] # 0 => prev.valid /\ Within(Minus(p, prev.at))

ShownAsSet == kcursor \in {"loop", "test", "block", "asleep"} /\ ~dirty =>
  layer = IF visible THEN Image(Minus(pos, hot), colour, outline) ELSE Blank

ScreenIsLayers ==
  kcursor # "swap" /\ painter = "idle" => screen = Over(layer, [p \in Pixel |-> paper])

CursorSound == NoGhost /\ ShownAsSet /\ ScreenIsLayers
------------------------------------------------------------------------------
(* What does not hold: an event between the test and TaskBlock wakes nobody    *)
(* and leaves Blocked clear, so that no later event wakes kcursor either; a    *)
(* call of Gui/Cursor.h waits for the mouse to move.                           *)
WakesAgain == kcursor = "asleep" => blocked \/ woken
CallsAreShown == kcursor = "asleep" => ~dirty \/ woken
=============================================================================
