------------------------------ MODULE LineEditor ------------------------------
(* The console as a user sees it (Source/Basecon.c): kconsole edits the line   *)
(* at the prompt, keeps the history and hands finished lines to the shell;     *)
(* kconsoleout adds what programs print to the scrollback; each redraws the    *)
(* screen under GBasecon.Lock, which makes a step of what it does there.       *)
EXTENDS Integers, Sequences, SequencesExt

CONSTANTS BASECON_INPUT_BUFFER_SIZE, BASECON_HISTORY_SIZE, BASECON_SCROLLBACK_SIZE,
          BASECON_SCROLLBACK_LINE_LEN, BASECON_OUTLINE_BUFFER_SIZE,
          Width, Height,  \* of the screen, in characters
          Char,           \* the printable characters in use
          MaxActs \* bound: keys, characters printed and changes of prompt together

VARIABLES main,     \* where booting is: "enable", "fix", "clear", "start", "input", "done"
          enabled,  \* BaseconEnabled
          fixed,    \* PromptFixed
          mode,     \* InputMode
          waiting,  \* WaitingForProgram
          prompt,   \* Prompt
          buffer,   \* Input.Buffer, up to its Length
          cursor,   \* Input.CursorPos
          history,  \* History.Lines, up to Count
          current,  \* History.Current
          scroll,   \* Scrollback.Lines, up to Count: [by, text]
          outLine,  \* OutLineBuffer, up to OutLineLen
          x, y,     \* CursorX, CursorY
          screen,   \* what was drawn last
          kconsole, \* "keys", or in the shell's "callback", or in a "program"
          redraw,   \* has somebody set the prompt and not redrawn yet?
          left, right, \* the text before and behind the cursor, as an editor has it
          entered,  \* all lines entered
          added,    \* all lines added to the scrollback since it was cleared
          printed,  \* all characters printed since then
          erased,   \* was a Rubout or a Return among them?
          acts      \* counts them against the bound

line == <<buffer, cursor, left, right>>
past == <<history, current, entered>>
paper == <<scroll, outLine, added, printed, erased>>
boot == <<main, enabled, fixed, x, y>>
vars == <<boot, mode, waiting, prompt, line, past, paper, screen, kconsole, redraw,
          acts>>

Acts == acts < MaxActs /\ acts' = acts + 1

Newline == "newline"
Return == "return"
Rubout == "rubout"

LastOf(s, n) == SubSeq(s, IF Len(s) > n THEN Len(s) - n + 1 ELSE 1, Len(s))
------------------------------------------------------------------------------
(* BaseconRedrawFullLocked.  The prompt and the line take as many rows as they *)
(* need, at least one; the scrollback gets the others.                         *)
Rows(text) == IF text = <<>> THEN 1 ELSE (Len(text) + Width - 1) \div Width
AboveRows(text) == IF Rows(text) > Height THEN 0 ELSE Height - Rows(text)

Picture(p, m, b, c, s) ==
  LET text == IF m THEN p \o b ELSE p
  IN [above |-> LastOf(s, AboveRows(text)), text |-> text,
      cursor |-> IF m THEN Len(p) + c ELSE -1]

Blank == [above |-> <<>>, text |-> <<>>, cursor |-> -1]

Redrawn(m, b, c, s) == IF enabled /\ fixed THEN Picture(prompt, m, b, c, s) ELSE screen

(* BaseconAddToScrollbackLocked: the oldest line leaves when there is no room. *)
AddToScrollback(s, l) ==
  IF ~fixed \/ l.text = <<>> THEN s
  ELSE IF Len(s) < BASECON_SCROLLBACK_SIZE THEN Append(s, l) ELSE Append(Tail(s), l)
------------------------------------------------------------------------------
(* BaseconInit, and the prompt that is set before the console is enabled. *)
EditorStart ==
  /\ main = "enable" /\ enabled = FALSE /\ fixed = FALSE /\ mode = FALSE /\ waiting = FALSE
  /\ prompt = <<"$">> /\ buffer = <<>> /\ cursor = 0 /\ history = <<>> /\ current = 0
  /\ scroll = <<>> /\ outLine = <<>> /\ x = 0 /\ y = 0
  /\ screen = Blank /\ kconsole = "keys" /\ redraw = FALSE
  /\ left = <<>> /\ right = <<>> /\ entered = <<>> /\ added = <<>> /\ printed = <<>>
  /\ erased = FALSE /\ acts = 0

(* The end of Main turns the console on, while kconsoleout is at work. *)
BaseconSetEnabled ==
  /\ main = "enable"
  /\ enabled' = TRUE /\ main' = "fix"
  /\ UNCHANGED <<fixed, x, y, mode, waiting, prompt, line, past, paper, screen, kconsole,
                 redraw, acts>>

BaseconSetPromptFixed ==
  /\ main = "fix"
  /\ fixed' = TRUE /\ main' = "clear"
  /\ scroll' = <<>> /\ added' = <<>> /\ printed' = <<>>
  /\ waiting' = FALSE
  /\ screen' = IF enabled THEN Picture(prompt, mode, buffer, cursor, <<>>) ELSE screen
  /\ UNCHANGED <<enabled, x, y, mode, prompt, line, past, outLine, erased, kconsole, redraw,
                 acts>>

(* The line kconsoleout is in the middle of is not cleared. *)
BaseconClear ==
  /\ main = "clear"
  /\ main' = "start"
  /\ scroll' = <<>> /\ added' = <<>> /\ printed' = outLine
  /\ screen' = Redrawn(mode, buffer, cursor, <<>>)
  /\ UNCHANGED <<enabled, fixed, x, y, mode, waiting, prompt, line, past, outLine, erased,
                 kconsole, redraw, acts>>

InputStarts ==
  /\ mode' = TRUE
  /\ buffer' = <<>> /\ cursor' = 0 /\ left' = <<>> /\ right' = <<>>
  /\ screen' = Redrawn(TRUE, <<>>, 0, scroll)

(* It takes keys before it has set InputMode. *)
Ps2KeyboardSubscribe ==
  /\ main = "start"
  /\ main' = "input"
  /\ UNCHANGED <<enabled, fixed, x, y, mode, waiting, prompt, line, past, paper, screen, kconsole,
                 redraw, acts>>

BaseconInputStart ==
  /\ main = "input"
  /\ main' = "done"
  /\ InputStarts
  /\ UNCHANGED <<enabled, fixed, x, y, waiting, prompt, past, paper, kconsole, redraw,
                 acts>>
------------------------------------------------------------------------------
(* BaseconProcessKey, a key that edits: the new text and cursor, and the same  *)
(* done to the halves of the text.                                             *)
Reads == /\ kconsole = "keys" /\ main = "done" /\ mode /\ Acts

Edited(b, c, l, r) ==
  /\ buffer' = b /\ cursor' = c /\ left' = l /\ right' = r
  /\ screen' = Redrawn(mode, b, c, scroll)
  /\ UNCHANGED <<boot, mode, waiting, prompt, history, entered, paper, kconsole, redraw>>

(* A loop moves what is behind the cursor down, or up, by one. *)
WithoutNext(b, c) == [i \in 1..(Len(b) - 1) |-> IF i > c + 1 THEN b[i + 1] ELSE b[i]]
Without(b, c) == [i \in 1..(Len(b) - 1) |-> IF i > c THEN b[i + 1] ELSE b[i]]
WithAt(b, c, ch) ==
  [i \in 1..(Len(b) + 1) |-> IF i <= c THEN b[i] ELSE IF i = c + 1 THEN ch ELSE b[i - 1]]

Insert(ch) ==
  /\ Reads /\ Len(buffer) < BASECON_INPUT_BUFFER_SIZE - 1
  /\ Edited(WithAt(buffer, cursor, ch), cursor + 1, Append(left, ch), right)
  /\ UNCHANGED current

Backspace ==
  /\ Reads /\ cursor > 0
  /\ Edited(Without(buffer, cursor - 1), cursor - 1, Front(left), right)
  /\ UNCHANGED current

Delete ==
  /\ Reads /\ cursor < Len(buffer)
  /\ Edited(Without(buffer, cursor), cursor, left, Tail(right))
  /\ UNCHANGED current

Left ==
  /\ Reads /\ cursor > 0
  /\ Edited(buffer, cursor - 1, Front(left), <<Last(left)>> \o right)
  /\ UNCHANGED current

Right ==
  /\ Reads /\ cursor < Len(buffer)
  /\ Edited(buffer, cursor + 1, Append(left, Head(right)), Tail(right))
  /\ UNCHANGED current

Home == Reads /\ Edited(buffer, 0, <<>>, left \o right) /\ UNCHANGED current

End == Reads /\ Edited(buffer, Len(buffer), left \o right, <<>>) /\ UNCHANGED current

(* The history: the line that is left behind is not kept. *)
Recalled(b) == Edited(b, Len(b), b, <<>>)

Up ==
  /\ Reads /\ current > 0
  /\ current' = current - 1
  /\ Recalled(history[current])

Down ==
  /\ Reads /\ current < Len(history)
  /\ current' = current + 1
  /\ Recalled(IF current + 1 < Len(history) THEN history[current + 2] ELSE <<>>)

(* Enter: the line goes to the scrollback with its prompt and to the history,  *)
(* then to the shell, without the lock.                                        *)
Remember(h, l) ==
  IF Len(h) < BASECON_HISTORY_SIZE THEN Append(h, l) ELSE Append(Tail(h), l)

Enter ==
  /\ Reads
  /\ IF buffer = <<>>
     THEN UNCHANGED <<history, current, entered, scroll, added, screen>>
     ELSE LET l == [by |-> "user", text |-> prompt \o buffer]
          IN /\ scroll' = AddToScrollback(scroll, l)
             /\ added' = Append(added, l)
             /\ screen' = Redrawn(mode, buffer, cursor, AddToScrollback(scroll, l))
             /\ history' = Remember(history, buffer)
             /\ current' = Len(Remember(history, buffer))
             /\ entered' = Append(entered, buffer)
  /\ buffer' = <<>> /\ cursor' = 0 /\ left' = <<>> /\ right' = <<>>
  /\ mode' = FALSE
  /\ kconsole' = "callback"
  /\ UNCHANGED <<boot, waiting, prompt, outLine, printed, erased, redraw>>

Keys ==
  \/ \E ch \in Char : Insert(ch)
  \/ Backspace \/ Delete \/ Left \/ Right \/ Home \/ End \/ Up \/ Down \/ Enter
------------------------------------------------------------------------------
(* The shell may start a program and wait for it (CmdRunWait) ... *)
CmdRunWait ==
  /\ kconsole \in {"callback", "program"}
  /\ waiting' = ~waiting
  /\ kconsole' = IF waiting THEN "callback" ELSE "program"
  /\ UNCHANGED <<boot, mode, prompt, line, past, paper, screen, redraw, acts>>

(* ... and returns; whether to start again was decided before it was called,   *)
(* when no program was waited for.                                             *)
Restart ==
  /\ kconsole = "callback" /\ ~waiting
  /\ kconsole' = "keys"
  /\ InputStarts
  /\ UNCHANGED <<boot, waiting, prompt, past, paper, redraw, acts>>

(* A change of directory, by the shell or by a program on another CPU, sets    *)
(* the prompt and redraws, taking the lock twice.                              *)
BaseconSetPrompt ==
  /\ main = "done" /\ ~redraw /\ Len(prompt) = 1 /\ Acts
  /\ prompt' = Append(prompt, "$")
  /\ redraw' = TRUE
  /\ UNCHANGED <<boot, mode, waiting, line, past, paper, screen, kconsole>>

BaseconRedrawFull ==
  /\ redraw
  /\ redraw' = FALSE
  /\ screen' = Redrawn(mode, buffer, cursor, scroll)
  /\ UNCHANGED <<boot, mode, waiting, prompt, line, past, paper, kconsole, acts>>
------------------------------------------------------------------------------
(* ConsoleOutThread draws a character (BaseconPutCharLocked), and the screen   *)
(* again.  Lines are gathered until a newline or until they are as wide as the *)
(* screen.                                                                     *)
OutputLine(o) == [by |-> "program", text |-> o]

(* The lines in the scrollback, the line being gathered. *)
PutFixed(ch) ==
  CASE ch = Newline -> [scroll |-> AddToScrollback(scroll, OutputLine(outLine)), out |-> <<>>]
    [] ch = Return -> [scroll |-> scroll, out |-> <<>>]
    [] ch = Rubout -> [scroll |-> scroll, out |-> IF outLine = <<>> THEN <<>> ELSE Front(outLine)]
    [] ch \in Char /\ Len(outLine) < Width ->
         [scroll |-> scroll,
          out |-> IF Len(outLine) < BASECON_OUTLINE_BUFFER_SIZE - 1 THEN Append(outLine, ch)
                  ELSE outLine]
    [] OTHER -> [scroll |-> AddToScrollback(scroll, OutputLine(outLine)), out |-> <<ch>>]

(* Was a line added? *)
Flushes(ch) == outLine # <<>> /\ (ch = Newline \/ (ch \in Char /\ Len(outLine) >= Width))

(* Before the prompt is fixed the character is drawn at once, and the screen   *)
(* scrolls at its end.                                                         *)
PutFree(ch) ==
  LET newline == ch = Newline \/ (ch \in Char /\ x + 1 >= Width)
  IN /\ x' = IF newline THEN 0 ELSE IF ch \in Char THEN x + 1 ELSE x
     /\ y' = IF newline THEN (IF y + 1 >= Height THEN Height - 1 ELSE y + 1) ELSE y

BaseconPutChar(ch) ==
  /\ Acts
  /\ CASE ~enabled -> UNCHANGED <<x, y, paper>>
       [] enabled /\ ~fixed -> PutFree(ch) /\ UNCHANGED paper
       [] OTHER ->
            LET p == PutFixed(ch)
            IN /\ scroll' = p.scroll /\ outLine' = p.out
               /\ added' = IF Flushes(ch) THEN Append(added, OutputLine(outLine)) ELSE added
               /\ printed' = IF ch \in Char THEN Append(printed, ch) ELSE printed
               /\ erased' = (erased \/ ch \in {Rubout, Return})
               /\ UNCHANGED <<x, y>>
  /\ UNCHANGED <<main, enabled, fixed, mode, waiting, prompt, line, past, kconsole, redraw>>

ConsoleOut(ch) == BaseconPutChar(ch) /\ screen' = Redrawn(mode, buffer, cursor, scroll')

(* A key that comes too early is printed among what programs print. *)
EarlyKey(ch) ==
  /\ main = "input" /\ kconsole = "keys" /\ ~mode
  /\ BaseconPutChar(ch)
  /\ screen' = IF Flushes(ch) THEN Redrawn(mode, buffer, cursor, scroll') ELSE screen

EditorNext ==
  \/ BaseconSetEnabled \/ BaseconSetPromptFixed \/ BaseconClear \/ Ps2KeyboardSubscribe
  \/ BaseconInputStart
  \/ Keys \/ CmdRunWait \/ Restart \/ BaseconSetPrompt \/ BaseconRedrawFull
  \/ \E ch \in Char \cup {Newline, Return, Rubout} : ConsoleOut(ch)
  \/ \E ch \in Char : EarlyKey(ch)

EditorSpec == EditorStart /\ [][EditorNext]_vars
------------------------------------------------------------------------------
(* Lengths and positions stay inside their buffers and the screen. *)
EditorTypeOK ==
  /\ Len(buffer) < BASECON_INPUT_BUFFER_SIZE /\ cursor \in 0..Len(buffer)
  /\ Len(history) <= BASECON_HISTORY_SIZE /\ current \in 0..Len(history)
  /\ Len(scroll) <= BASECON_SCROLLBACK_SIZE
  /\ Len(outLine) < BASECON_OUTLINE_BUFFER_SIZE
  /\ x < Width /\ y < Height

(* However the line is edited and recalled, the buffer and the cursor are what *)
(* an editor with the text in two halves would have.                           *)
TextIsEdited == buffer = left \o right /\ cursor = Len(left)

(* The history is the last lines entered, the scrollback the last lines added  *)
(* since it was cleared, whoever added them; and what programs printed is in   *)
(* it and in the line being gathered, character by character.                  *)
HistoryIsLast == history = LastOf(entered, BASECON_HISTORY_SIZE)

Texts(s) == [i \in 1..Len(s) |-> IF s[i].by = "program" THEN s[i].text ELSE <<>>]

ScrollbackIsLast ==
  /\ scroll = LastOf(added, BASECON_SCROLLBACK_SIZE)
  /\ ~erased => FlattenSeq(Texts(added)) \o outLine = printed

(* While kconsole waits for keys the prompt is there, and the screen shows the *)
(* line, the cursor and the latest lines above, unless somebody is about to    *)
(* redraw it.                                                                  *)
ScreenIsCurrent ==
  main = "done" /\ kconsole = "keys" =>
    /\ mode /\ ~waiting
    /\ ~redraw => screen = Picture(prompt, TRUE, buffer, cursor, scroll)

EditorSound ==
  EditorTypeOK /\ TextIsEdited /\ HistoryIsLast /\ ScrollbackIsLast /\ ScreenIsCurrent
------------------------------------------------------------------------------
(* What does not hold.  A line of the user may be longer than a line of the    *)
(* scrollback, into which StrCpy copies it all the same; the cursor behind a   *)
(* full row is below the screen; the line is still drawn at the prompt while   *)
(* its program runs; characters come out by the old mode, which the code says  *)
(* nobody uses.                                                                *)
LinesFit == \A i \in 1..Len(scroll) : Len(scroll[i].text) < BASECON_SCROLLBACK_LINE_LEN
CursorOnScreen ==
  screen.cursor >= 0 => AboveRows(screen.text) + screen.cursor \div Width < Height
PromptEmptyWhileRunning == kconsole = "program" => screen.text = prompt
OldModeUnused == x = 0 /\ y = 0
=============================================================================
