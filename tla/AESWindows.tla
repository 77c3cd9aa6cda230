------------------------------ MODULE AESWindows ------------------------------
(* The window manager of the AES (aes/gemwmlib.c): the tree of windows,    *)
(* kept with the object library's links (aes/gemoblib.c, gemobjop.c), the  *)
(* rectangle lists that say which part of the screen each window owns      *)
(* (aes/gemwrect.c), what draw_change draws or moves on the screen itself, *)
(* and the redraws it asks of the programs, which doq unites in the        *)
(* message pipe (aes/gemqueue.c).                                          *)
(*                                                                         *)
(* A call holds the window semaphore from begin to end and is one action.  *)
(* What it does to the windows and the screen is threaded through the      *)
(* operators below as a record s.  A cell of the screen shows a piece of   *)
(* the desktop, of the frame or the work area of a window, or a shadow.    *)
EXTENDS Integers, Sequences, FiniteSets, SequencesExt

CONSTANTS
  NUM_WIN, NUM_ORECT,
  gl_width, gl_height,   \* the screen
  gl_wbox, gl_hbox,      \* a character with its box; the menu bar has gl_hbox lines
  DROP_SIZE,             \* the shadow of a window
  Kinds,                 \* for each window the gadgets its program wants
  Places,                \* where its program puts each window
  Dialogs,               \* where dialogs appear
  Names, Lengths         \* what names windows get, positions of sliders

DESK == 0
NIL == -1
Windows == 0..NUM_WIN - 1
Apps == Windows \ {DESK}
WMAX(a, b) == IF a < b THEN b ELSE a
WMIN(a, b) == IF a < b THEN a ELSE b

Rect(x, y, w, h) == [x |-> x, y |-> y, w |-> w, h |-> h]
gl_rzero == Rect(0, 0, 0, 0)
gl_rscreen == Rect(0, 0, gl_width, gl_height)
gl_rfull == Rect(0, gl_hbox, gl_width, gl_height - gl_hbox)

ASSUME WindowAssumption ==
  /\ NUM_WIN \in Nat \ {0} /\ NUM_ORECT \in Nat
  /\ DROP_SIZE \in Nat /\ gl_wbox \in Nat \ {0} /\ gl_hbox \in Nat \ {0}
  /\ gl_width \in Nat /\ gl_height \in Nat /\ gl_height >= gl_hbox
  /\ Kinds \in [Apps -> SUBSET {"NAME", "INFO", "VSLIDE", "HSLIDE", "SIZER"}]
  \* not empty, and below the menu bar
  /\ \A p \in Dialogs \cup UNION {Places[w] : w \in Apps} :
       p \in [x : Int, y : Int, w : Nat \ {0}, h : Nat \ {0}] /\ p.y >= gl_hbox

VARIABLES
  inuse,              \* handles given out, VF_INUSE
  W_TREE,             \* next: of each window; head, tail: of the root
  curr, work,         \* WS_CURR, WS_WORK
  hidden,             \* w_rlist, and VF_BROKEN
  rul, low,           \* free ORECTs, and the fewest during the last call
  gl_wtop, gl_ctrl,   \* the active window; what ct_chgown was told
  looks,              \* the name and the vertical slider of each window
  screen,             \* what each cell shows
  pipe                \* the WM_REDRAW of each window, or NoRedraw

winvars == <<inuse, W_TREE, curr, work, hidden, rul, low, gl_wtop, gl_ctrl,
             looks, screen, pipe>>
NoRedraw == gl_rzero

Now == [tree |-> W_TREE, curr |-> curr, work |-> work,
        rlist |-> hidden.rlist, broken |-> hidden.broken, rul |-> rul, low |-> low,
        top |-> gl_wtop, ctrl |-> gl_ctrl, looks |-> looks, screen |-> screen,
        pipe |-> pipe]

-----------------------------------------------------------------------------
(* Rectangles *)

Cells(r) == (r.x..r.x + r.w - 1) \X (r.y..r.y + r.h - 1)
Screen == Cells(gl_rfull)
Empty(r) == r.w <= 0 \/ r.h <= 0
rc_intersect(p, q) ==
  LET x == WMAX(p.x, q.x)
      y == WMAX(p.y, q.y)
  IN  Rect(x, y, WMIN(p.x + p.w, q.x + q.w) - x, WMIN(p.y + p.h, q.y + q.h) - y)
rc_union(p, q) ==
  LET x == WMIN(p.x, q.x)
      y == WMIN(p.y, q.y)
  IN  Rect(x, y, WMAX(p.x + p.w, q.x + q.w) - x, WMAX(p.y + p.h, q.y + q.h) - y)
Dropped(r) == Rect(r.x, r.y, r.w + DROP_SIZE, r.h + DROP_SIZE)
\* WS_TRUE
True(r) == IF r.w # 0 /\ r.h # 0 THEN Dropped(r) ELSE r

\* wm_calc(WC_WORK)
wm_calc(kind, r) ==
  LET tb == 1 + Cardinality({"NAME", "INFO"} \cap kind) * (gl_hbox - 1)
      rb == IF {"VSLIDE", "SIZER"} \cap kind # {} THEN gl_wbox ELSE 1
      bb == IF {"HSLIDE", "SIZER"} \cap kind # {} THEN gl_hbox ELSE 1
  IN  Rect(r.x + 1, r.y + tb, r.w - 1 - rb, r.h - tb - bb)

-----------------------------------------------------------------------------
(* The tree of windows *)

\* the windows of the tree, from bottom to top, as everyobj meets them
Kids(t) ==
  LET walk[n \in 0..NUM_WIN] ==
        IF n = 0 THEN IF t.head = NIL THEN <<>> ELSE <<t.head>>
        ELSE LET k == walk[n - 1] IN
             IF k = <<>> THEN k
             ELSE IF t.next[Last(k)] = DESK \/ Last(k) = DESK THEN k
             ELSE Append(k, t.next[Last(k)])
  IN  walk[NUM_WIN]

w_obadd(t, wh) ==
  [next |-> IF t.tail = NIL THEN [t.next EXCEPT ![wh] = DESK]
            ELSE [t.next EXCEPT ![wh] = DESK, ![t.tail] = wh],
   head |-> IF t.tail = NIL THEN wh ELSE t.head,
   tail |-> wh]

get_prev(t, wh) == CHOOSE p \in ToSet(Kids(t)) : t.next[p] = wh
ob_delete(t, wh) ==
  IF t.head = wh
  THEN IF t.tail = wh THEN [t EXCEPT !.head = NIL, !.tail = NIL]
       ELSE [t EXCEPT !.head = t.next[wh]]
  ELSE LET p == get_prev(t, wh) IN
       [t EXCEPT !.next[p] = t.next[wh], !.tail = IF t.tail = wh THEN p ELSE @]

\* ob_order(wh, NIL): wh becomes the last child, unless it is the only one,
\* when wm_set does not call it
ob_order(t, wh) ==
  LET d == ob_delete(t, wh) IN
  [d EXCEPT !.next = [@ EXCEPT ![wh] = d.next[d.tail], ![d.tail] = wh],
            !.tail = wh]

-----------------------------------------------------------------------------
(* Rectangle lists *)

\* brkrct: what new leaves of r; mkpiece makes top, left, right and bottom
Overlap(new, r) == ~Empty(rc_intersect(new, r))
\* mutant of brkrct: no piece to the left
brkrct_noleft(new, r) ==
  LET y == WMAX(r.y, new.y)
      h == WMIN(r.y + r.h, new.y + new.h) - y
      piece(have, p) == IF have THEN <<p>> ELSE <<>>
  IN  piece(new.y > r.y, Rect(r.x, r.y, r.w, new.y - r.y)) \o
      piece(new.x + new.w < r.x + r.w,
            Rect(new.x + new.w, y, r.x + r.w - (new.x + new.w), h)) \o
      piece(new.y + new.h < r.y + r.h,
            Rect(r.x, new.y + new.h, r.w, r.y + r.h - (new.y + new.h)))

brkrct(new, r) ==
  LET y == WMAX(r.y, new.y)
      h == WMIN(r.y + r.h, new.y + new.h) - y
      piece(have, p) == IF have THEN <<p>> ELSE <<>>
  IN  piece(new.y > r.y, Rect(r.x, r.y, r.w, new.y - r.y)) \o
      piece(new.x > r.x, Rect(r.x, y, new.x - r.x, h)) \o
      piece(new.x + new.w < r.x + r.w,
            Rect(new.x + new.w, y, r.x + r.w - (new.x + new.w), h)) \o
      piece(new.y + new.h < r.y + r.h,
            Rect(r.x, new.y + new.h, r.w, r.y + r.h - (new.y + new.h)))

\* mkrect: the list of window wh, broken by new; pieces are taken from rul
\* before the rectangle they come from goes back
Untouched(a, r) == [a EXCEPT !.done = Append(@, r)]
Split(a, wh, pieces) ==
  [a EXCEPT !.done = @ \o pieces, !.rul = @ - Len(pieces) + 1,
            !.low = WMIN(@, a.rul - Len(pieces)), !.broken = @ \cup {wh}]
WithList(s, wh, all) ==
  [s EXCEPT !.rlist[wh] = all.done, !.rul = all.rul, !.low = all.low,
            !.broken = all.broken]
mkrect(s, wh, new) ==
  WithList(s, wh,
    FoldLeft(LAMBDA a, r : IF Overlap(new, r) THEN Split(a, wh, brkrct(new, r))
                           ELSE Untouched(a, r),
             [done |-> <<>>, rul |-> s.rul, low |-> s.low, broken |-> s.broken],
             s.rlist[wh]))

\* newrect: wh gets its whole area r, and those below it what is left
NoList(s, wh) ==
  [s EXCEPT !.rul = @ + Len(s.rlist[wh]), !.rlist[wh] = <<>>, !.broken = @ \ {wh}]
Whole(s, wh, r) ==
  [s EXCEPT !.rlist[wh] = <<r>>, !.rul = @ - 1, !.low = WMIN(@, s.rul - 1)]
NewList(s, wh, r, below) ==
  IF r.w = 0 \/ r.h = 0 THEN s
  ELSE Whole(FoldLeft(LAMBDA v, w : mkrect(v, w, r), s, below), wh, r)
newrect(s, wh, below) == NewList(NoList(s, wh), wh, True(s.curr[wh]), below)

Lists(s, all) ==
  FoldLeft(LAMBDA t, k : newrect(t, all[k], SubSeq(all, 1, k - 1)), s, [k \in DOMAIN all |-> k])
newrects(s) == Lists(s, <<DESK>> \o Kids(s.tree))

-----------------------------------------------------------------------------
(* Drawing *)

\* w_bldactive: where the gadgets leave room for the work area
W_WORK(kind, r) ==
  LET title == IF "NAME" \in kind THEN gl_hbox - 1 ELSE 0
      info == IF "INFO" \in kind THEN gl_hbox - 1 ELSE 0
      vbar == IF {"VSLIDE", "SIZER"} \cap kind # {} THEN gl_wbox - 1 ELSE 0
      hbar == IF {"HSLIDE", "SIZER"} \cap kind # {} THEN gl_hbox - 1 ELSE 0
  IN  Rect(r.x + 1, r.y + title + info + 1, r.w - 2 - vbar,
           r.h - title - info - 2 - hbar)

\* The frame is what w_bldactive builds but for the work area; of the shadow
\* two corners are not drawn.
Frame(r) == Cells(r) \ Cells(Rect(r.x + 1, r.y + 1, r.w - 2, r.h - 2))
Corners(r) ==
  Cells(Rect(r.x + r.w, r.y, DROP_SIZE, 1)) \cup Cells(Rect(r.x, r.y + r.h, 1, DROP_SIZE))
Shadow(r) == IF Empty(r) THEN {} ELSE Cells(True(r)) \ (Cells(r) \cup Corners(r))

\* what is drawn of window wh for object obj of W_ACTIVE
Object(s, wh, obj) ==
  LET r == s.curr[wh]
      kind == Kinds[wh]
      k == W_WORK(kind, r)
  IN  CASE obj = "W_BOX" -> (Cells(r) \ Cells(k)) \cup Shadow(r)
        [] obj = "box alone" -> Frame(r) \cup Shadow(r)
        [] obj = "W_NAME" -> IF "NAME" \in kind THEN Cells(Rect(r.x, r.y, r.w, gl_hbox)) ELSE {}
        [] obj = "W_VSLIDE" ->
             IF "VSLIDE" \in kind /\ s.top = wh
             THEN Cells(Rect(k.x + k.w, k.y - 1, gl_wbox, k.h + 2)) ELSE {}

\* what a cell of window wh looks like: a slider is shown by the active window
Picture(s, wh, c) ==
  LET r == s.curr[wh]
      k == s.work[wh]
  IN  IF wh = DESK THEN <<"desk", c>>
      ELSE IF c \in Cells(k) THEN <<"work", wh, c[1] - k.x, c[2] - k.y>>
      ELSE IF c \in Cells(r)
      THEN <<"frame", wh, c[1] - r.x, c[2] - r.y, r.w, r.h, s.top = wh,
             IF "NAME" \in Kinds[wh] /\ c[2] < r.y + gl_hbox THEN s.looks[wh].name ELSE NIL,
             IF c \in Object(s, wh, "W_VSLIDE")
             THEN s.looks[wh].vslide ELSE NIL>>
      ELSE <<"shadow">>

Draw(s, wh, S) ==
  [s EXCEPT !.screen = [c \in Screen |-> IF c \in S THEN Picture(s, wh, c) ELSE @[c]]]

\* do_walk: the part of an object the window owns, within clip; the active
\* window is drawn as a whole
Owned(s, wh, clip) ==
  LET own == {r \in ToSet(s.rlist[wh]) : ~Empty(rc_intersect(clip, r))} IN
  IF wh # DESK /\ wh = s.top
  THEN IF own = {} THEN {} ELSE Cells(True(s.curr[wh]))
  ELSE UNION {Cells(rc_intersect(clip, r)) : r \in own}
do_walk(s, wh, obj, clip) ==
  Draw(s, wh, Owned(s, wh, rc_intersect(gl_rfull, clip)) \cap Object(s, wh, obj))

\* mutant of w_drawdesk: without the shadow, as before its BUGFIX comment
w_drawdesk_before(s, dirty) == Draw(s, DESK, Owned(s, DESK, rc_intersect(gl_rfull, dirty)))

\* w_drawdesk enlarges the rectangle it is given
w_drawdesk(s, dirty) == Draw(s, DESK, Owned(s, DESK, rc_intersect(gl_rfull, Dropped(dirty))))

\* w_cpwalk, with the true size of the window as its clip
w_cpwalk(s, wh, obj) == do_walk(s, wh, obj, True(s.curr[wh]))

\* doq unites a redraw with one that is waiting
doq(s, wh, r) ==
  [s EXCEPT !.pipe[wh] = IF @ = NoRedraw THEN r ELSE rc_union(r, @)]

Ask(s, wh, r) == IF Empty(r) THEN s ELSE doq(s, wh, r)
w_redraw(s, wh, dirty) ==
  IF Empty(rc_intersect(dirty, s.work[wh])) \/ s.rlist[wh] = <<>> THEN s
  ELSE Ask(s, wh, rc_intersect(FoldLeft(rc_union, Head(s.rlist[wh]), Tail(s.rlist[wh])),
                               rc_intersect(dirty, s.work[wh])))

\* w_update: windows from top down to bottom; frames are drawn, the insides
\* asked for
Between(kids, bottom, top) ==
  LET at(w) == CHOOSE k \in DOMAIN kids : kids[k] = w
  IN  SubSeq(kids, IF bottom = DESK THEN 1 ELSE at(bottom),
                   IF top = DESK THEN Len(kids) ELSE at(top))
Frames(s, walk, clip, moved) ==
  FoldLeft(LAMBDA t, w : IF moved /\ w = s.top THEN t
                         ELSE w_redraw(do_walk(t, w, "W_BOX", Dropped(clip)), w, clip),
           s, walk)
w_update(s, bottom, dirty, top, moved) ==
  IF Kids(s.tree) = <<>> THEN s
  ELSE Frames(s, Reverse(Between(Kids(s.tree), bottom, top)),
              rc_intersect(gl_rfull, dirty), moved)

-----------------------------------------------------------------------------
(* draw_change *)

\* bb_screen: what fits of w * h cells from (sx, sy) on goes to (dx, dy)
bb_screen(s, from, to) ==
  LET dest == Cells(Rect(to.x, to.y, from.w, from.h)) \cap Screen
  IN  [s EXCEPT !.screen = [c \in Screen |->
         IF c \in dest THEN @[<<c[1] - to.x + from.x, c[2] - to.y + from.y>>] ELSE @[c]]]

\* w_mvfix(ps, pd): what pd becomes when ps sticks out by one to the left
Left1(ps, pd) == IF ps.x = -1 THEN Rect(pd.x + 1, pd.y, pd.w - 1, pd.h) ELSE pd

\* w_move: the active window is moved on the screen, unless that would
\* uncover some of it that is off the screen.  The result: what is to be
\* cleaned up, and whether it was moved.
Uncovers(from, to) ==
  (from.x + from.w > gl_width /\ to.x < from.x)
  \/ (from.y + from.h > gl_height /\ to.y < from.y)
\* the blit from s1 to dest; pd is dest before it was clipped to the screen
Blit(s, ps, pd, s1, dest) ==
  [s |-> IF ps.x = -1 /\ pd.x # -1
         THEN do_walk(bb_screen(s, s1, dest), s.top, "box alone",
                      Dropped(Rect(dest.x - 1, dest.y, 1, dest.h)))
         ELSE bb_screen(s, s1, dest),
   moved |-> TRUE,
   pc |-> IF pd.x = -1 /\ ps.x # -1 THEN [s1 EXCEPT !.x = @ - 1] ELSE s1]
MoveTo(s, ps, pd) ==
  Blit(s, ps, pd, Left1(pd, rc_intersect(gl_rfull, ps)), rc_intersect(gl_rfull, pd))
FromTo(s, ps, pd) ==
  IF Uncovers(ps, pd)
  THEN [s |-> s, moved |-> FALSE, pc |-> rc_intersect(gl_rfull, Left1(ps, rc_union(ps, pd)))]
  ELSE MoveTo(s, ps, Left1(ps, pd))
w_move(s, wh, prev) == FromTo(s, Dropped(prev), True(s.curr[wh]))

\* what is left to be drawn: windows from start up to stop, within pc
Plan(s, start, stop, pc, moved) ==
  [s |-> s, start |-> start, stop |-> stop, pc |-> pc, moved |-> moved]

Resized(s, wh, pt, pc) ==
  LET within == pt.w <= pc.w /\ pt.h <= pc.h
      shrinks == pt.w < pc.w \/ pt.h < pc.h
  IN  Plan(IF within THEN w_cpwalk(s, s.top, "W_BOX") ELSE s,
           IF shrinks THEN DESK ELSE wh, IF within THEN wh ELSE DESK,
           [pc EXCEPT !.w = WMAX(pt.w, pc.w) + DROP_SIZE, !.h = WMAX(pt.h, pc.h) + DROP_SIZE],
           within)

Grows(pt, pc) ==
  \/ pc.w = 0 \/ pc.h = 0
  \/ /\ pt.x <= pc.x /\ pt.y <= pc.y
     /\ pt.x + pt.w >= pc.x + pc.w /\ pt.y + pt.h >= pc.y + pc.h
Behind(m, wh) == Plan(m.s, DESK, IF m.moved THEN wh ELSE DESK, m.pc, m.moved)
Both(s, wh, pt, both) == Plan(s, IF both = pt THEN wh ELSE DESK, DESK, both, FALSE)
Moved(s, wh, pt, pc) ==
  IF Grows(pt, pc) THEN Plan(s, wh, DESK, pt, FALSE)
  ELSE IF pt.w = pc.w /\ pt.h = pc.h /\ s.top = wh THEN Behind(w_move(s, wh, pc), wh)
  ELSE IF pt.w = 0 \/ pt.h = 0 THEN Plan(s, DESK, DESK, pc, FALSE)
  ELSE Both(s, wh, pt, rc_union(pt, pc))

Update(p, pc) ==
  IF p.start = DESK
  THEN w_update(w_drawdesk(p.s, pc), DESK, Dropped(pc), p.stop, p.moved)
  ELSE w_update(p.s, p.start, pc, p.stop, p.moved)
\* with another active window than before, the old one is drawn without slider
Finish(p, wh, oldtop) ==
  IF oldtop # p.s.tree.tail /\ p.s.top # NIL
  THEN Update([p EXCEPT !.s = IF oldtop # NIL /\ oldtop # wh
                              THEN w_cpwalk(@, oldtop, "W_BOX") ELSE @],
              rc_union(p.s.curr[p.s.top], p.pc))
  ELSE Update(p, p.pc)

\* w_setactive
Active(s) ==
  LET top == s.tree.tail
      wh == IF top = NIL THEN DESK ELSE top
  IN  [s EXCEPT !.top = top, !.ctrl = [owner |-> wh, rect |-> s.work[wh]]]

Resize(s, wh, pt) ==
  [s EXCEPT !.curr[wh] = pt, !.work[wh] = wm_calc(Kinds[wh], pt), !.low = s.rul]
Covered(s, oldtop) == IF oldtop = NIL THEN s ELSE w_cpwalk(s, oldtop, "W_BOX")

\* the window has stayed where it is
Topped(s, wh, pc, oldtop, wasclr) ==
  IF wh # s.tree.tail \/ wh = oldtop THEN s
  ELSE IF wasclr /\ (oldtop = NIL \/ oldtop \notin s.broken)
  THEN w_cpwalk(Covered(s, oldtop), s.top, "W_BOX")
  ELSE Finish(Plan(Covered(s, oldtop), wh, DESK, pc, FALSE), wh, oldtop)

Changed(s, wh, pt, pc, oldtop, wasclr) ==
  IF pt = pc THEN Topped(s, wh, pc, oldtop, wasclr)
  ELSE Finish(IF pt.x = pc.x /\ pt.y = pc.y THEN Resized(s, wh, pt, pc)
              ELSE Moved(s, wh, pt, pc), wh, oldtop)

\* wasclr: whether nothing lay over a window that is now made the active one
draw_change(s, wh, pt, wasclr) ==
  Changed(Active(newrects(Resize(s, wh, pt))), wh, pt, s.curr[wh], s.top, wasclr)

-----------------------------------------------------------------------------
(* The screen after a call *)

\* the window that owns a cell: the topmost one there, its shadow included
Owners(s) ==
  LET kids == Reverse(Kids(s.tree))
      area == [k \in DOMAIN kids |-> Cells(True(s.curr[kids[k]]))] \o <<Screen>>
      all == kids \o <<DESK>>
  IN  [c \in Screen |-> all[CHOOSE k \in DOMAIN all :
         c \in area[k] /\ \A j \in 1..k - 1 : c \notin area[j]]]

\* cells whose contents nothing depends on: those a program is about to
\* redraw, and two corners of a shadow that are never drawn
Loose(s) ==
  [w \in Windows |-> IF w = DESK THEN {}
     ELSE Corners(s.curr[w]) \cup Cells(rc_intersect(s.pipe[w], s.work[w]))]
NotShown(loose, owners) == {c \in Screen : c \in loose[owners[c]]}
Undrawn(s) == NotShown(Loose(s), Owners(s))

Becomes(s) ==
  /\ W_TREE' = s.tree /\ curr' = s.curr /\ work' = s.work
  /\ hidden' = [rlist |-> s.rlist, broken |-> s.broken] /\ rul' = s.rul
  /\ low' = s.low /\ gl_wtop' = s.top /\ gl_ctrl' = s.ctrl /\ looks' = s.looks
  /\ \E free \in {Undrawn(s)} :
       screen' = [c \in Screen |-> IF c \in free THEN <<"undrawn">> ELSE s.screen[c]]
  /\ pipe' = s.pipe

-----------------------------------------------------------------------------
(* The calls.  Programs keep to their protocol: they open a window they have *)
(* created and not opened, close and change open ones, and delete closed     *)
(* ones.                                                                     *)

Open == ToSet(Kids(W_TREE))

wm_create ==
  /\ \E wh \in Windows \ inuse :
       /\ \A i \in Windows : i < wh => i \in inuse
       /\ inuse' = inuse \cup {wh}
       /\ curr' = [curr EXCEPT ![wh] = gl_rzero]
       /\ looks' = [looks EXCEPT ![wh].vslide = 0]
  /\ UNCHANGED <<W_TREE, work, hidden, rul, low, gl_wtop, gl_ctrl, screen, pipe>>

wm_delete(wh) ==
  /\ wh \in inuse \ Open
  /\ inuse' = inuse \ {wh}
  /\ UNCHANGED <<W_TREE, curr, work, hidden, rul, low, gl_wtop, gl_ctrl, looks,
                 screen, pipe>>

wm_open(wh, pt) ==
  /\ wh \in inuse \ Open
  /\ Becomes(draw_change([Now EXCEPT !.tree = w_obadd(@, wh)], wh, pt, FALSE))
  /\ UNCHANGED inuse
wm_close(wh) ==
  /\ wh \in Open
  /\ Becomes(draw_change([Now EXCEPT !.tree = ob_delete(@, wh)], wh, gl_rzero, FALSE))
  /\ UNCHANGED inuse

\* wm_set: WF_TOP, WF_CURRXYWH, WF_NAME, WF_VSLIDE.  A program does the redraws
\* it has been sent before it moves a window.
SetTop(wh) ==
  /\ wh \in Open /\ wh # gl_wtop
  /\ Becomes(draw_change([Now EXCEPT !.tree = ob_order(@, wh)], wh, curr[wh],
                         wh \notin hidden.broken))
  /\ UNCHANGED inuse
SetCurr(wh, pt) ==
  /\ wh \in Open /\ pipe[wh] = NoRedraw
  /\ Becomes(draw_change(Now, wh, pt, FALSE))
  /\ UNCHANGED inuse
SetName(wh, name) ==
  /\ wh \in Open /\ "NAME" \in Kinds[wh]
  /\ Becomes(w_cpwalk([Now EXCEPT !.looks[wh].name = name], wh, "W_NAME"))
  /\ UNCHANGED inuse
SetSlide(wh, n) ==
  /\ wh \in Open /\ "VSLIDE" \in Kinds[wh]
  /\ LET s == [Now EXCEPT !.looks[wh].vslide = n]
     IN  Becomes(IF wh = gl_wtop THEN w_cpwalk(s, wh, "W_VSLIDE") ELSE s)
  /\ UNCHANGED inuse

\* the program takes a WM_REDRAW and draws within the rectangles wm_get lists
\* (WF_FIRSTXYWH, WF_NEXTXYWH)
w_owns(s, wh, r) ==
  {c \in Cells(r) : \E o \in ToSet(s.rlist[wh]) : c \in Cells(rc_intersect(s.work[wh], o))}
Redraw(wh) ==
  /\ pipe[wh] # NoRedraw
  /\ Becomes([Draw(Now, wh, w_owns(Now, wh, pipe[wh])) EXCEPT !.pipe[wh] = NoRedraw])
  /\ UNCHANGED inuse

\* mutant of wm_find: the search starts at the head
wm_find_head(c) ==
  LET kids == Kids(W_TREE)
      there == {k \in DOMAIN kids : c \in Cells(curr[kids[k]])}
  IN  IF there = {} THEN DESK ELSE kids[Min(there)]

\* wm_find, by ob_find: the topmost window, without shadows
wm_find(c) ==
  LET kids == Kids(W_TREE)
      there == {k \in DOMAIN kids : c \in Cells(curr[kids[k]])}
  IN  IF there = {} THEN DESK ELSE kids[Max(there)]

\* a dialog is drawn over everything; form_dial(FMD_FINISH) brings back what
\* was below it
fm_dial(pt) ==
  /\ LET s == [Now EXCEPT !.screen = [c \in Screen |->
                 IF c \in Cells(pt) THEN <<"dialog">> ELSE @[c]]]
     IN  Becomes(w_update(w_drawdesk(s, pt), DESK, Dropped(pt), DESK, FALSE))
  /\ UNCHANGED inuse

\* wm_start
WinInit ==
  /\ inuse = {DESK}
  /\ W_TREE = [next |-> [w \in Windows |-> NIL], head |-> NIL, tail |-> NIL]
  /\ curr = [w \in Windows |-> IF w = DESK THEN gl_rscreen ELSE gl_rzero]
  /\ work = [w \in Windows |-> IF w = DESK THEN gl_rfull ELSE gl_rzero]
  /\ hidden = [rlist |-> [w \in Windows |-> IF w = DESK THEN <<gl_rfull>> ELSE <<>>],
               broken |-> {}]
  /\ rul = NUM_ORECT - 1 /\ low = rul
  /\ gl_wtop = NIL /\ gl_ctrl = [owner |-> DESK, rect |-> gl_rfull]
  /\ looks = [w \in Apps |-> [name |-> "", vslide |-> 0]]
  /\ screen = [c \in Screen |-> <<"desk", c>>]
  /\ pipe = [w \in Windows |-> NoRedraw]

WinNext ==
  \/ wm_create
  \/ \E wh \in Apps :
       \/ wm_delete(wh) \/ wm_close(wh) \/ SetTop(wh) \/ Redraw(wh)
       \/ \E pt \in Places[wh] : wm_open(wh, pt) \/ SetCurr(wh, pt)
       \/ \E name \in Names : SetName(wh, name)
       \/ \E n \in Lengths : SetSlide(wh, n)
  \/ \E pt \in Dialogs : fm_dial(pt)

WinSpec == WinInit /\ [][WinNext]_winvars

-----------------------------------------------------------------------------

\* The rectangle lists divide the screen: a cell is in exactly one rectangle, of
\* the topmost window there (newrect and brkrct, gemwrect.c).
RectsDivide ==
  LET owners == Owners(Now) IN \A w \in Open \cup {DESK} :
    LET list == hidden.rlist[w] IN
    /\ \A k \in DOMAIN list : \A c \in Cells(list[k]) \cap Screen : owners[c] = w
    /\ \A c \in Screen : owners[c] = w =>
         \E k \in DOMAIN list : c \in Cells(list[k])
    /\ \A j, k \in DOMAIN list : j # k => ~Overlap(list[j], list[k])

\* Whatever was opened, closed, moved, sized, topped or covered: each cell
\* shows what is topmost there, a title and a slider as they are now, or its
\* program has been asked to redraw it (draw_change, gemwmlib.c:1075-1280); and
\* the ORECTs are enough for the lists all along (gemlib.h:226).
ScreenShows ==
  /\ LET owners == Owners(Now)
         free == Undrawn(Now)
     IN  \A c \in Screen : screen[c] = Picture(Now, owners[c], c) \/ c \in free
  /\ low >= 0

\* The links of the tree lead from head to tail and back to the root, and the
\* active window, the one mouse and keyboard belong to, is the last.
TreeOK ==
  LET kids == Kids(W_TREE) IN
  /\ IsInjective(kids) /\ ToSet(kids) \subseteq inuse \ {DESK}
  /\ kids = <<>> => W_TREE.tail = NIL
  /\ kids # <<>> => W_TREE.tail = Last(kids) /\ W_TREE.next[Last(kids)] = DESK
  /\ gl_wtop = W_TREE.tail
  /\ LET wh == IF gl_wtop = NIL THEN DESK ELSE gl_wtop
     IN  gl_ctrl = [owner |-> wh, rect |-> work[wh]]

\* A click reaches the window the user sees: the one wm_find names shows at
\* that place, unless a shadow lies over it; and the tree it searches is sound.
FindsShown == TreeOK /\ \A c \in Screen \ Undrawn(Now) :
  \/ screen[c] = <<"shadow">>
  \/ IF wm_find(c) = DESK THEN screen[c] = <<"desk", c>>
     ELSE screen[c][1] \in {"frame", "work"} /\ screen[c][2] = wm_find(c)
=============================================================================
