------------------------------ MODULE Terminal ------------------------------
(***************************************************************************)
(* What the demos put on the serial terminal: printf and its integers      *)
(* (common/syscalls.c), pictures as half-block characters (g3d_present of  *)
(* g3d/g3d.c, GL_set2pixels* of common/GL_tty.h) and lines (GL_line).      *)
(*                                                                         *)
(* A character is its ASCII code.  A colour is <<r, q>>, with q for green  *)
(* and blue.  The terminal itself is not in the repository: it keeps a     *)
(* background and a foreground, a space shows the background, the half     *)
(* block shows the foreground in its lower half.                           *)
(***************************************************************************)
EXTENDS G3d

LOCAL INSTANCE SequencesExt

CONSTANTS INT_MAX,            \* the largest int of the guest
          GL_width, GL_height

VARIABLE tty    \* the state of the tool that was started, a record

INT_MIN == -INT_MAX - 1

Zero == 48
Minus == 45
Percent == 37
CharD == 100
CharS == 115

-----------------------------------------------------------------------------
(* Numbers.                                                                  *)

(* -n in an int: the smallest one has no opposite. *)
Negated(n) == IF n = INT_MIN THEN n ELSE -n

Remainder(a, b) == a - b * Quotient(a, b)

(* The characters of an integer: digits are collected in a buffer, lowest   *)
(* first, and sent from its end.                                             *)
uart_send_integer(n) ==
  LET m == IF n < 0 THEN Negated(n) ELSE n
      buffer[k \in INT_MIN .. INT_MAX] ==
        IF k = 0 THEN << >>
        ELSE <<Zero + Remainder(k, 10)>> \o buffer[Quotient(k, 10)]
  IN IF n = 0 THEN <<Zero>>
     ELSE (IF n < 0 THEN <<Minus>> ELSE << >>) \o Reverse(buffer[m])

(* The same for one byte, by subtraction. *)
g3d_put_u8(v) ==
  LET h == v \div 100
      t == (v - 100 * h) \div 10
      u == v - 100 * h - 10 * t
  IN (IF h > 0 THEN <<Zero + h>> ELSE << >>)
     \o (IF h > 0 \/ t > 0 THEN <<Zero + t>> ELSE << >>) \o <<Zero + u>>

(* One round of printf's loop: s.at is `format`, s.arg the next argument. *)
Printf(s) ==
  LET c == cmd.format[s.at]
      d == cmd.format[s.at + 1]
      put(text, at, arg) == [at |-> at, arg |-> arg, text |-> s.text \o text]
  IN IF c # Percent THEN put(<<c>>, s.at + 1, s.arg)
     ELSE CASE d = CharD -> put(uart_send_integer(cmd.args[s.arg]), s.at + 2, s.arg + 1)
            [] d = CharS -> put(cmd.strings[cmd.args[s.arg]], s.at + 2, s.arg + 1)
            [] OTHER -> put(<<d>>, s.at + 2, s.arg)

-----------------------------------------------------------------------------
(* Pictures.                                                                 *)

Black == <<0, 0>>

(* The character cell that shows a above b when both colours are sent. *)
SetTwo(s, a, b) ==
  IF a = b THEN [s EXCEPT !.bg = a, !.cells = Append(@, <<a, a>>)]
  ELSE [s EXCEPT !.bg = a, !.fg = b, !.cells = Append(@, <<a, b>>)]

(* g3d_present sends a colour only when it differs from the last one of its  *)
(* kind.  After a uniform cell it remembers the foreground as sent, though   *)
(* only the background was.                                                  *)
PresentCell(s, a, b) ==
  IF a = b
  THEN LET bg == IF a # s.last_bg \/ a # s.last_fg THEN a ELSE s.bg
           last(c) == IF a # s.last_bg \/ a # s.last_fg THEN a ELSE c
       IN [s EXCEPT !.bg = bg, !.last_bg = last(@), !.last_fg = last(@),
                    !.cells = Append(@, <<bg, bg>>)]
  ELSE LET bg == IF a # s.last_bg THEN a ELSE s.bg
           fg == IF b # s.last_fg THEN b ELSE s.fg
       IN [s EXCEPT !.bg = bg, !.fg = fg, !.last_bg = a, !.last_fg = b,
                    !.cells = Append(@, <<bg, fg>>)]

(* Faulty form of NewLine: the colours sent before count as sent. *)
NewLineKept(s) == [s EXCEPT !.bg = Black, !.fg = Black]

(* The end of a row blackens both colours; g3d_present then spoils what it   *)
(* remembers, so that the next cell sends its colour again.                  *)
NewLine(s) ==
  [s EXCEPT !.bg = Black, !.fg = Black, !.last_bg[1] = 1, !.last_fg[1] = 2]

Width == Len(cmd.frame[1])

(* The next cell of the frame, and the newline after the last of a row. *)
ShowCell(s) ==
  LET n == Len(s.cells)
      pair == cmd.frame[(n \div Width) + 1][(n % Width) + 1]
      t == IF cmd.tool = "g3d_present" THEN PresentCell(s, pair[1], pair[2])
           ELSE SetTwo(s, pair[1], pair[2])
  IN IF (n + 1) % Width = 0 THEN NewLine(t) ELSE t

-----------------------------------------------------------------------------
(* Lines: Cohen-Sutherland clipping, then Bresenham.                         *)

OutCode(p) == {c \in {"left", "right", "bottom", "top"} :
                 CASE c = "left" -> p[1] < 0
                   [] c = "right" -> p[1] > GL_width - 1
                   [] c = "bottom" -> p[2] < 0
                   [] c = "top" -> p[2] > GL_height - 1}

(* The point where the line through p and q meets the side it crosses. *)
Intersection(p, q, code) ==
  LET atY(y) == <<p[1] + Quotient((q[1] - p[1]) * (y - p[2]), q[2] - p[2]), y>>
      atX(x) == <<x, p[2] + Quotient((q[2] - p[2]) * (x - p[1]), q[1] - p[1])>>
  IN CASE "top" \in code -> atY(GL_height - 1)
       [] "bottom" \in code /\ "top" \notin code -> atY(0)
       [] "right" \in code /\ code \cap {"top", "bottom"} = {} -> atX(GL_width - 1)
       [] OTHER -> atX(0)

ClipRound(s) ==
  LET code1 == OutCode(s.p)
      code2 == OutCode(s.q)
  IN CASE code1 = {} /\ code2 = {} -> [s EXCEPT !.phase = "draw"]
       [] code1 \cap code2 # {} -> [s EXCEPT !.phase = "outside"]
       [] code1 # {} /\ code1 \cap code2 = {} ->
            [s EXCEPT !.p = Intersection(s.p, s.q, code1), !.rounds = @ + 1]
       [] OTHER -> [s EXCEPT !.q = Intersection(s.p, s.q, code2), !.rounds = @ + 1]

(* The pixels, in order; a step to the side plots the corner as well.        *)
GlPixels(p, q) ==
  LET a == IF q[1] < p[1] THEN q ELSE p
      b == IF q[1] < p[1] THEN p ELSE q
      dx == b[1] - a[1]
      dy == Magnitude(b[2] - a[2])
      sy == IF b[2] < a[2] THEN -1 ELSE 1
      steep == dy > dx
      long == IF steep THEN dy ELSE dx
      short == IF steep THEN dx ELSE dy
      on(x, y) == IF steep THEN <<x, y + sy>> ELSE <<x + 1, y>>
      aside(x, y) == IF steep THEN <<x + 1, y>> ELSE <<x, y + sy>>
      go[u \in 0 .. long] ==
        IF u = 0 THEN [at |-> a, e |-> 2 * short - long, pts |-> << >>]
        ELSE LET s == go[u - 1]
                 ahead == on(s.at[1], s.at[2])
                 corner == aside(ahead[1], ahead[2])
             IN IF s.e >= 0
                THEN [at |-> corner, e |-> s.e - 2 * long + 2 * short,
                      pts |-> s.pts \o <<s.at, corner>>]
                ELSE [at |-> ahead, e |-> s.e + 2 * short, pts |-> Append(s.pts, s.at)]
  IN go[long].pts

GlLine(s) == IF s.phase = "clip" THEN ClipRound(s)
             ELSE [s EXCEPT !.phase = "done", !.pts = GlPixels(s.p, s.q)]

-----------------------------------------------------------------------------
TextTools == {"printf", "g3d_put_u8"}
PictureTools == {"g3d_present", "GL_scan_RGB", "GL_set2pixelsIhere"}
LineTools == {"g3d_line", "GL_line"}
TerminalTools == TextTools \cup PictureTools \cup LineTools

TerminalInit ==
  tty = CASE cmd.tool \in TextTools -> [at |-> 1, arg |-> 1, text |-> << >>]
          [] cmd.tool \in PictureTools ->
               [bg |-> Black, fg |-> Black, last_bg |-> <<1, 23>>, last_fg |-> <<3, 21>>, cells |-> << >>]
          [] cmd.tool \in LineTools ->
               [p |-> cmd.from, q |-> cmd.to, phase |-> "clip", rounds |-> 0, pts |-> << >>]
          [] OTHER -> << >>

TerminalNext ==
  /\ UNCHANGED cmd
  /\ \/ /\ cmd.tool = "printf" /\ cmd.format[tty.at] # 0
        /\ tty' = Printf(tty)
     \/ /\ cmd.tool = "g3d_put_u8" /\ tty.text = << >>
        /\ tty' = [tty EXCEPT !.text = g3d_put_u8(cmd.n)]
     \/ /\ cmd.tool \in PictureTools /\ Len(tty.cells) < Width * Len(cmd.frame)
        /\ tty' = ShowCell(tty)
     \/ /\ cmd.tool = "GL_line" /\ tty.phase \in {"clip", "draw"}
        /\ tty' = GlLine(tty)
     \/ /\ cmd.tool = "g3d_line" /\ tty.phase = "clip"
        /\ tty' = [tty EXCEPT !.phase = "done",
                     !.pts = g3d_line(cmd.from[1], cmd.from[2], cmd.to[1], cmd.to[2])]

-----------------------------------------------------------------------------
(* Properties.                                                               *)

(* What a reader of the terminal makes of a decimal number. *)
Read(text) ==
  LET value[k \in 0 .. Len(text)] ==
        IF k = 0 THEN 0
        ELSE IF text[k] = Minus THEN 0 ELSE 10 * value[k - 1] + (text[k] - Zero)
  IN IF text[1] = Minus THEN -value[Len(text)] ELSE value[Len(text)]

Canonical(text) ==
  /\ \A k \in 1 .. Len(text) : text[k] \in Zero .. Zero + 9 \/ (k = 1 /\ text[k] = Minus)
  /\ text[1] = Zero => Len(text) = 1

(* printf("%d", n) sends the decimal of n, for every int but the smallest,   *)
(* and g3d_put_u8, which may not divide, sends the same for every byte.      *)
(* printf has then used up its arguments, one for each directive.            *)
DecimalsExact ==
  /\ cmd.tool = "printf" /\ cmd.format[tty.at] = 0 => tty.arg = Len(cmd.args) + 1
  /\ cmd.tool = "printf" /\ cmd.format = <<Percent, CharD, 0>> /\ tty.text # << >> =>
       Canonical(tty.text) /\ Read(tty.text) = cmd.args[1]
  /\ cmd.tool = "g3d_put_u8" /\ tty.text # << >> =>
       Canonical(tty.text) /\ Read(tty.text) = cmd.n

(* A picture sent through GL_tty appears as it is; of a picture sent by      *)
(* g3d_present, which caches colours, the upper half of every cell does, and *)
(* so do the cells of one colour, across the black of every line end.        *)
ScreenExact ==
  cmd.tool \in PictureTools =>
    \A n \in 1 .. Len(tty.cells) :
      LET pair == cmd.frame[((n - 1) \div Width) + 1][((n - 1) % Width) + 1]
      IN /\ tty.cells[n][1] = pair[1]
         /\ cmd.tool # "g3d_present" \/ pair[1] = pair[2] => tty.cells[n] = pair

(* GL_line never plots off the screen, the clipping ends after at most one   *)
(* move per side, and consecutive pixels touch.  g3d_line arrives at its end *)
(* after as many pixels as the longer side has, none of them more than half  *)
(* a pixel off the true line.                                                *)
LinesExact ==
  /\ cmd.tool = "GL_line" =>
       /\ tty.rounds <= 4
       /\ \A k \in 1 .. Len(tty.pts) :
            /\ OutCode(tty.pts[k]) = {}
            /\ k > 1 => \A c \in 1 .. 2 : Magnitude(tty.pts[k][c] - tty.pts[k - 1][c]) <= 1
  /\ cmd.tool = "g3d_line" /\ tty.phase = "done" =>
       LET n == Len(tty.pts)
           dx == cmd.to[1] - cmd.from[1]
           dy == cmd.to[2] - cmd.from[2]
           long == IF Magnitude(dx) > Magnitude(dy) THEN Magnitude(dx) ELSE Magnitude(dy)
       IN /\ n = long + 1 /\ tty.pts[n] = cmd.to
          /\ \A k \in 1 .. n :
               2 * Magnitude(dy * (tty.pts[k][1] - cmd.from[1]) - dx * (tty.pts[k][2] - cmd.from[2]))
                 <= long

(* What reaches the terminal is what was meant: numbers in decimal, pictures *)
(* cell by cell through the colour cache, lines clipped and connected.       *)
TerminalSound == DecimalsExact /\ ScreenExact /\ LinesExact
=============================================================================
