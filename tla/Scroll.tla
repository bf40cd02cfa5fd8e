------------------------------- MODULE Scroll -------------------------------
(***************************************************************************)
(* The scroll position of a terminal page as a pure computation            *)
(* (src/web/static/term.js): where the live row is pinned when the output  *)
(* settles, whether the page follows it after a scroll event, and how the  *)
(* browser's scroll bar stands for the lines of a history.  Lengths are     *)
(* pixels, rows are counted from 0.                                        *)
(***************************************************************************)
EXTENDS Integers

Larger(a, b) == IF a >= b THEN a ELSE b
Smaller(a, b) == IF a <= b THEN a ELSE b

\* The last row with content, but not above the cursor's row.
cmLastContentRow(filled, cy) ==
  IF filled = {} THEN cy
  ELSE Larger(cy, CHOOSE r \in filled : \A q \in filled : q <= r)

\* What the computation is given.
Geometry(s) ==
  /\ s.following \in BOOLEAN
  /\ s.cy \in Nat /\ s.pinRow \in Int
  /\ s.cellH \in Nat \ {0}
  /\ s.clientHeight \in Nat /\ s.scrollHeight \in Nat
  /\ s.scrollTop \in Nat

maxTop(s) == Larger(0, s.scrollHeight - s.clientHeight)
clamp(s, t) == Larger(0, Smaller(t, maxTop(s)))

cursorTop(s) == s.cy * s.cellH
cursorPx(s) == cursorTop(s) + s.cellH
pinPx(s) == Larger(s.pinRow, s.cy) * s.cellH + s.cellH

\* The end of the content at the lower edge, or the cursor's row if the
\* content below it would push it out of view.
pinTop(s) ==
  IF clamp(s, pinPx(s) - s.clientHeight) > cursorTop(s)
    THEN clamp(s, cursorPx(s) - s.clientHeight)
    ELSE clamp(s, pinPx(s) - s.clientHeight)

\* "settle", the output is still: pin, unless the user reads further up.
\* "userscroll", a scroll event: follow if at most the live row is hidden.
cmTrackScroll(mode, s) ==
  IF mode = "userscroll"
    THEN [scrollTop |-> s.scrollTop,
          following |-> s.scrollTop + s.clientHeight >= cursorPx(s) - s.cellH]
    ELSE [scrollTop |-> IF s.following THEN pinTop(s) ELSE s.scrollTop,
          following |-> s.following]

\* The grid holds the cursor's row and the host at least one row.
Fits(s) == cursorPx(s) <= s.scrollHeight /\ s.cellH <= s.clientHeight

\* The row of the input is in view as a whole.
InputInView(s, top) ==
  cursorTop(s) >= top /\ cursorPx(s) <= top + s.clientHeight

\* What may change while a scroll event is under way: the output and with it
\* the cursor, not the sizes.
Later(s, t) == t.cellH = s.cellH /\ t.clientHeight = s.clientHeight

-----------------------------------------------------------------------------
(* Wire v2: the page scrolls by the browser's own scroll bar.  The terminal  *)
(* stays in place above a spacer, and a position of the host stands for the  *)
(* first visible line of the scrollback.                                     *)

\* Math.round(a / b).
Round(a, b) == (2 * a + b) \div (2 * b)

\* A terminal: its rows and their height together, the lines of its buffer
\* (the rows and the scrollback), the height of the host.
Proxy(w) ==
  /\ w.rows \in Nat \ {0} /\ w.screenH \in Nat \ {0}
  /\ w.lines \in Nat /\ w.rows <= w.lines
  /\ w.clientHeight \in Nat

history(w) == w.lines - w.rows

\* The height of the spacer: the scrollback, and what the terminal leaves free
\* of the host.
spacerPx(w) ==
  Round(history(w) * w.screenH + Larger(0, w.clientHeight - w.screenH) * w.rows,
        w.rows)

\* The lowest position the browser allows.
hostMax(w) == Larger(0, w.screenH + spacerPx(w) - w.clientHeight)

\* The position of line y, and the line at a position.
termToHost(w, y) == Round(y * w.screenH, w.rows)
hostToTerm(w, top) == Round(top * w.rows, w.screenH)
=============================================================================
