------------------------------ MODULE MCViewer ------------------------------
(* Finite instances of Viewer for TLC: the .cfg gives every constant.  The *)
(* scroll computation of the same page has no state; it is evaluated here   *)
(* on a grid of small geometries.                                           *)
EXTENDS Viewer, Scroll

Grids ==
  {g \in [following : BOOLEAN, cy : 0..3, pinRow : 0..4, cellH : 1..2,
          clientHeight : 1..6, scrollHeight : 0..10, scrollTop : {0, 3}] : Fits(g)}

Settled(g) == cmTrackScroll("settle", g)

\* The scroll event of a pin is handled after more output came: the cursor is
\* at row cy now.
Event(g, cy) ==
  cmTrackScroll("userscroll", [g EXCEPT !.scrollTop = Settled(g).scrollTop, !.cy = cy])

\* The pinned position exists and shows the row of the input.
ASSUME \A g \in Grids : InputInView(g, pinTop(g)) /\ pinTop(g) \in 0..maxTop(g)

\* The page still follows if the cursor is at most a row further down ...
ASSUME \A g \in Grids, cy \in 0..3 :
         g.following /\ cy <= g.cy + 1 => Event(g, cy).following

\* ... and stops following when it is two rows further down, which the user
\* did not ask for (term.js 105-106 says that no guard is needed).
ASSUME \E g \in Grids, cy \in 0..3 :
         g.following /\ cy = g.cy + 2 /\ ~Event(g, cy).following

\* The last row with content is never above the cursor's.
ASSUME \A filled \in SUBSET (0..3), cy \in 0..3 :
         /\ cmLastContentRow(filled, cy) >= cy
         /\ \A r \in filled : cmLastContentRow(filled, cy) >= r

Proxies ==
  {w \in [rows : 1..3, screenH : 1..7, lines : 1..6, clientHeight : 0..9] : w.rows <= w.lines}

\* A line set by the page is the line read back, if rows are higher than a pixel ...
ASSUME \A w \in Proxies, y \in 0..6 :
         w.rows < w.screenH => hostToTerm(w, termToHost(w, y)) = y

\* ... and not in general if they are not.
ASSUME \E w \in Proxies, y \in 0..6 : hostToTerm(w, termToHost(w, y)) # y

\* The newest line is at the lower end of the scroll bar.
ASSUME \A w \in Proxies :
         w.screenH <= w.clientHeight => hostMax(w) = termToHost(w, history(w))
=============================================================================
