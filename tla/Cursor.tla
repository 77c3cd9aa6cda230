------------------------------- MODULE Cursor -------------------------------
(* The mouse cursor: the interrupts that move and draw it and the calls of *)
(* the VDI that hide it, show it and change its form (vdi/mouse.S,         *)
(* monobj.c), and the calls of the AES above them: graf_mouse, drawing,    *)
(* and ctlmouse, by which menus and alerts borrow the mouse (gemgsxif.S,   *)
(* gemctrl.c).  The vertical blank interrupts a program between any two    *)
(* steps, and the mouse interrupts both.  A call of the AES is the list of *)
(* the calls of the VDI it makes.                                          *)
EXTENDS Naturals, Sequences

CONSTANTS
  Places,       \* on the screen, as large as the cursor
  arrow, Forms, \* of the mouse; a form has a head and a picture
  none,
  MaxOff,       \* bounds how often a program hides the mouse
  Boot          \* what HIDE_CNT starts with

CursorAssumption ==
  /\ arrow \in Forms /\ {MaxOff, Boot} \subseteq Nat /\ Boot > 0
  \* a form is not taken for another call of the VDI
  /\ (Forms \cup {none}) \cap {"hide", "show", "force", "draw", "getmouse", "putmouse"} = {}
  /\ none \notin Forms

VARIABLES
  HIDE_CNT, mouse_flag,   \* the cursor is hidden; its form is being changed
  GCURXY,                 \* where the mouse is
  xydraw, draw_flag,      \* where vb_draw is to draw the cursor, and if
  mouse_cdb,              \* the form
  save_block,             \* what is behind the cursor: [ready, at, cell]
  screen,                 \* each place: what was drawn, and the cursor on it
  canvas,                 \* what was drawn, without cursor (history)
  vbl,                    \* where vb_draw is, or "idle"
  vdistep, xy,            \* where the call of the VDI is; its registers
  gl,                     \* the variables of the AES, see Start
  mform,                  \* the form ctlmouse is to restore
  offs, wish              \* what the program has asked for (history)

vblvars == <<GCURXY, xydraw, draw_flag, vbl>>
shown == <<save_block, screen, canvas>>
asked == <<offs, wish>>
cursorvars == <<HIDE_CNT, mouse_flag, mouse_cdb, vblvars, shown, vdistep, xy, gl, mform, asked>>

-----------------------------------------------------------------------------
(* What calls of the AES do to its variables, and the calls of the VDI they *)
(* make (ops).                                                              *)

Do(g, op) == [g EXCEPT !.ops = Append(@, op)]

gsx_moff(g) ==
  LET h == IF g.moff = 0 THEN Do([g EXCEPT !.mouse = FALSE], "hide") ELSE g
  IN  [h EXCEPT !.moff = @ + 1]
gsx_mon(g) ==
  LET h == [g EXCEPT !.moff = @ - 1]
  IN  IF h.moff = 0 THEN Do([h EXCEPT !.mouse = TRUE], "show") ELSE h

gsx_mfset(g, form) == gsx_mon(Do(gsx_moff(g), form))
ob_draw(g) == gsx_mon(Do(gsx_moff(g), "draw"))
ratinit(g) == [Do(g, "force") EXCEPT !.moff = 0]

\* mutant of ctlmouseOn: the mouse is shown, and gl_moff not put to zero
ctlmouseOn_counted(g) ==
  LET saved == [Do(g, "getmouse") EXCEPT !.maddr = TRUE, !.tmpmon = g.mouse, !.tmpmoff = g.moff]
      set == gsx_mfset(saved, arrow)
  IN  IF set.mouse THEN set ELSE Do([set EXCEPT !.mouse = TRUE], "force")
\* ctlmouse(TRUE): whatever the program has done with it, the mouse is an
\* arrow now, and shown
ctlmouseOn(g) ==
  LET saved == [Do(g, "getmouse") EXCEPT !.maddr = TRUE, !.tmpmon = g.mouse, !.tmpmoff = g.moff]
      set == gsx_mfset(saved, arrow)
      visible == IF set.mouse THEN set ELSE Do([set EXCEPT !.mouse = TRUE], "force")
  IN  [visible EXCEPT !.moff = 0]

\* ctlmouse(FALSE): it is as it was.  The last call takes the first entry of
\* intin as it finds it, zero or not.  What was saved is not used again.
ctlmouseOff(g, show) ==
  LET back == Do(Do(g, "hide"), "putmouse")
      again == IF g.tmpmon THEN Do(back, show) ELSE back
  IN  [again EXCEPT !.mouse = g.tmpmon, !.moff = g.tmpmoff, !.maddr = FALSE,
                    !.tmpmon = FALSE, !.tmpmoff = 0]

Start == [moff |-> 0, mouse |-> FALSE, tmpmon |-> FALSE, tmpmoff |-> 0,
          maddr |-> FALSE,   \* ctlmouse has the mouse
          mntree |-> FALSE,  \* there is a menu bar
          ops |-> <<>>]      \* calls of the VDI still to be made

\* sh_tographic comes before everything else
CursorInit ==
  /\ HIDE_CNT = Boot /\ mouse_flag = 0 /\ draw_flag = TRUE
  /\ GCURXY \in Places /\ xydraw = GCURXY /\ xy = GCURXY
  /\ mouse_cdb = <<arrow, arrow>> /\ mform = <<arrow, arrow>> /\ wish = arrow
  /\ canvas = [q \in Places |-> 0]
  /\ screen = [q \in Places |-> [bg |-> 0, cur |-> none]]
  /\ save_block = [ready |-> FALSE, at |-> GCURXY, cell |-> screen[GCURXY]]
  /\ vbl = "idle" /\ vdistep = "call" /\ offs = 0
  /\ gl = ratinit(gsx_mfset(Start, arrow))

-----------------------------------------------------------------------------
(* Interrupts *)

\* vb_draw is to draw the cursor at q
MOV_CUR(q) == xydraw' = q /\ draw_flag' = TRUE

\* the mouse has moved
mouse_rel(q) ==
  /\ q # GCURXY /\ GCURXY' = q /\ MOV_CUR(q)
  /\ UNCHANGED <<HIDE_CNT, mouse_flag, mouse_cdb, vbl, shown, vdistep, xy, gl, mform, asked>>

Replaced == IF save_block.ready THEN [screen EXCEPT ![save_block.at] = save_block.cell] ELSE screen

vb_draw ==
  /\ vbl = "idle" /\ HIDE_CNT = 0 /\ mouse_flag = 0 /\ draw_flag
  /\ draw_flag' = FALSE /\ vbl' = "read"
  /\ UNCHANGED <<HIDE_CNT, mouse_flag, mouse_cdb, GCURXY, xydraw, shown, vdistep, xy, gl, mform, asked>>

\* the cursor is moved to where it is to be now
vb_redraw ==
  /\ vbl = "read" /\ vbl' = "idle"
  /\ save_block' = [ready |-> TRUE, at |-> xydraw, cell |-> Replaced[xydraw]]
  /\ screen' = [Replaced EXCEPT ![xydraw].cur = mouse_cdb]
  /\ UNCHANGED <<HIDE_CNT, mouse_flag, mouse_cdb, GCURXY, xydraw, draw_flag, canvas, vdistep, xy,
                 gl, mform, asked>>

-----------------------------------------------------------------------------
(* Calls of the VDI, in process context *)

Op == IF gl.ops = <<>> THEN none ELSE Head(gl.ops)
Go(from, to) == vbl = "idle" /\ vdistep = from /\ vdistep' = to /\ UNCHANGED <<gl, asked>>
Done(from) ==
  vbl = "idle" /\ vdistep = from /\ vdistep' = "call" /\ gl' = [gl EXCEPT !.ops = Tail(@)]
  /\ UNCHANGED asked

\* _HIDE_CUR
hide ==
  /\ vdistep = "call" /\ Op = "hide"
  /\ HIDE_CNT' = HIDE_CNT + 1
  /\ IF HIDE_CNT' = 1 THEN Go("call", "replace") ELSE Done("call")
  /\ UNCHANGED <<mouse_flag, mouse_cdb, vblvars, shown, xy, mform>>
cur_replace ==
  /\ IF save_block.ready THEN Go("replace", "restore") ELSE Done("replace")
  /\ save_block' = [save_block EXCEPT !.ready = FALSE]
  /\ UNCHANGED <<HIDE_CNT, mouse_flag, mouse_cdb, vblvars, screen, canvas, xy, mform>>
restore ==
  /\ Done("restore")
  /\ screen' = [screen EXCEPT ![save_block.at] = save_block.cell]
  /\ UNCHANGED <<HIDE_CNT, mouse_flag, mouse_cdb, vblvars, save_block, canvas, xy, mform>>

\* v_show_c: intin[0] tells whether the count matters
v_show_c ==
  /\ Op \in {"show", "force"} /\ Go("call", "dis")
  /\ HIDE_CNT' = IF Op = "force" /\ HIDE_CNT # 0 THEN 1 ELSE HIDE_CNT
  /\ UNCHANGED <<mouse_flag, mouse_cdb, vblvars, shown, xy, mform>>
\* _DIS_CUR
dis_cur ==
  /\ IF HIDE_CNT = 1 THEN Go("dis", "retrieve") /\ UNCHANGED HIDE_CNT
     ELSE Done("dis") /\ HIDE_CNT' = IF HIDE_CNT = 0 THEN 0 ELSE HIDE_CNT - 1
  /\ UNCHANGED <<mouse_flag, mouse_cdb, vblvars, shown, xy, mform>>
retrieve ==
  /\ Go("retrieve", "mark")
  /\ xy' = GCURXY /\ draw_flag' = FALSE
  /\ UNCHANGED <<HIDE_CNT, mouse_flag, mouse_cdb, GCURXY, xydraw, vbl, shown, mform>>
cur_display ==
  /\ Go("mark", "paint")
  /\ save_block' = [save_block EXCEPT !.ready = TRUE, !.at = xy]
  /\ UNCHANGED <<HIDE_CNT, mouse_flag, mouse_cdb, vblvars, screen, canvas, xy, mform>>
paint ==
  /\ Go("paint", "dec")
  /\ save_block' = [save_block EXCEPT !.cell = screen[xy]]
  /\ screen' = [screen EXCEPT ![xy].cur = mouse_cdb]
  /\ UNCHANGED <<HIDE_CNT, mouse_flag, mouse_cdb, vblvars, canvas, xy, mform>>
dec_hide_cnt ==
  /\ Done("dec") /\ HIDE_CNT' = HIDE_CNT - 1
  /\ UNCHANGED <<mouse_flag, mouse_cdb, vblvars, shown, xy, mform>>

\* vsc_form copies the form, its head and then its picture, and has it drawn.
vsc_form ==
  /\ Op \in Forms /\ Go("call", "head")
  /\ mouse_flag' = mouse_flag + 1
  /\ UNCHANGED <<HIDE_CNT, mouse_cdb, vblvars, shown, xy, mform>>
form_head ==
  /\ Go("head", "picture") /\ mouse_cdb' = [mouse_cdb EXCEPT ![1] = Op]
  /\ UNCHANGED <<HIDE_CNT, mouse_flag, vblvars, shown, xy, mform>>
form_picture ==
  /\ Go("picture", "packet") /\ mouse_cdb' = [mouse_cdb EXCEPT ![2] = Op]
  /\ UNCHANGED <<HIDE_CNT, mouse_flag, vblvars, shown, xy, mform>>
packet ==
  /\ Go("packet", "unlock") /\ MOV_CUR(GCURXY)
  /\ UNCHANGED <<HIDE_CNT, mouse_flag, mouse_cdb, GCURXY, vbl, shown, xy, mform>>
unlock ==
  /\ Done("unlock") /\ mouse_flag' = mouse_flag - 1
  /\ UNCHANGED <<HIDE_CNT, mouse_cdb, vblvars, shown, xy, mform>>

\* getmouse and putmouse copy the form behind the back of the VDI.
getmouse ==
  /\ Op = "getmouse" /\ Done("call") /\ mform' = mouse_cdb
  /\ UNCHANGED <<HIDE_CNT, mouse_flag, mouse_cdb, vblvars, shown, xy>>
putmouse ==
  /\ Op = "putmouse" /\ Go("call", "putdata")
  /\ mouse_cdb' = [mouse_cdb EXCEPT ![1] = mform[1]]
  /\ UNCHANGED <<HIDE_CNT, mouse_flag, vblvars, shown, xy, mform>>
putdata ==
  /\ Done("putdata") /\ mouse_cdb' = [mouse_cdb EXCEPT ![2] = mform[2]]
  /\ mform' = <<arrow, arrow>>
  /\ UNCHANGED <<HIDE_CNT, mouse_flag, vblvars, shown, xy>>

\* something is drawn somewhere
draw(q) ==
  /\ Op = "draw" /\ Done("call")
  /\ canvas' = [canvas EXCEPT ![q] = 1 - @]
  /\ screen' = [screen EXCEPT ![q] = [bg |-> 1 - canvas[q], cur |-> none]]
  /\ UNCHANGED <<HIDE_CNT, mouse_flag, mouse_cdb, vblvars, save_block, xy, mform>>

Vdi ==
  \/ hide \/ cur_replace \/ restore
  \/ v_show_c \/ dis_cur \/ retrieve \/ cur_display \/ paint \/ dec_hide_cnt
  \/ vsc_form \/ form_head \/ form_picture \/ packet \/ unlock
  \/ getmouse \/ putmouse \/ putdata \/ \E q \in Places : draw(q)

-----------------------------------------------------------------------------
(* Calls of the AES *)

Call(new) ==
  /\ vbl = "idle" /\ gl.ops = <<>> /\ gl' = new
  /\ UNCHANGED <<HIDE_CNT, mouse_flag, mouse_cdb, vblvars, shown, vdistep, xy, mform>>

\* While a menu or an alert has the mouse, graf_mouse takes it back for a moment.
TakenBack ==
  IF gl.maddr THEN {ctlmouseOff(gl, show) : show \in {"show", "force"}} ELSE {gl}
Returned(g) == IF gl.maddr THEN ctlmouseOn(g) ELSE g

M_OFF ==
  /\ offs < MaxOff /\ offs' = offs + 1 /\ UNCHANGED wish
  /\ \E g \in TakenBack : Call(Returned(gsx_moff(g)))
M_ON ==
  /\ offs > 0 /\ offs' = offs - 1 /\ UNCHANGED wish
  /\ \E g \in TakenBack : Call(Returned(gsx_mon(g)))
graf_mouse(form) ==
  /\ wish' = form /\ UNCHANGED offs
  /\ \E g \in TakenBack : Call(Returned(gsx_mfset(g, form)))

\* by a call of the VDI, which the AES is not told of
SetForm(form) ==
  /\ ~gl.maddr /\ wish' = form /\ UNCHANGED offs /\ Call(Do(gl, form))

\* a program draws, with the mouse off and the screen its own
Draw == offs > 0 /\ ~gl.maddr /\ Call(Do(gl, "draw")) /\ UNCHANGED asked
\* the AES draws, the menu bar for one
menu_bar(showit) ==
  /\ Call(IF showit THEN [ob_draw(gl) EXCEPT !.mntree = TRUE] ELSE [gl EXCEPT !.mntree = FALSE])
  /\ UNCHANGED asked

\* a menu is pulled down, or an alert drawn
mn_do == ~gl.maddr /\ gl.mntree /\ Call(ctlmouseOn(gl)) /\ UNCHANGED asked
fm_alert == ~gl.maddr /\ Call(ctlmouseOn(ob_draw(gl))) /\ UNCHANGED asked
\* and is done with
Leave ==
  /\ gl.maddr /\ UNCHANGED asked
  /\ \E show \in {"show", "force"} : Call(ctlmouseOff(gl, show))

\* the program ends, and the shell starts the next one: wm_start, ratinit
NextProgram ==
  /\ ~gl.maddr
  /\ Call(ratinit(ob_draw([gl EXCEPT !.mntree = FALSE])))
  /\ offs' = 0 /\ UNCHANGED wish

CursorNext ==
  \/ \E q \in Places : mouse_rel(q)
  \/ vb_draw \/ vb_redraw
  \/ Vdi
  \/ M_OFF \/ M_ON \/ (\E form \in Forms : graf_mouse(form) \/ SetForm(form))
  \/ Draw \/ (\E showit \in BOOLEAN : menu_bar(showit)) \/ mn_do \/ fm_alert \/ Leave \/ NextProgram

CursorSpec == CursorInit /\ [][CursorNext]_cursorvars
-----------------------------------------------------------------------------
\* the cursor leaves no traces
NoTraces == \A q \in Places :
  LET Clean(cell) == cell = [bg |-> canvas[q], cur |-> none]
  IN  \/ Clean(screen[q])
      \/ save_block.at = q /\ (save_block.ready \/ vdistep = "restore") /\ Clean(save_block.cell)

\* and is never drawn from half a form
Whole == \A q \in Places : screen[q].cur \in {none} \cup {<<f, f>> : f \in Forms}

Quiet == gl.ops = <<>> /\ vbl = "idle" /\ ~draw_flag
Visible == save_block.ready /\ screen[save_block.at].cur = mouse_cdb

\* The picture behind the cursor is put back wherever the cursor has been, and
\* the cursor is drawn whole; when there is nothing left to do, it is where the
\* mouse is, or nowhere; a menu or an alert shows the arrow, and otherwise the
\* program has the form it set, hidden exactly when it has hidden it more often
\* than shown, whatever menus and alerts did in between.
CursorRight ==
  /\ NoTraces /\ Whole
  /\ Quiet => IF HIDE_CNT = 0 THEN Visible /\ save_block.at = GCURXY ELSE ~save_block.ready
  /\ gl.ops = <<>> =>
       IF gl.maddr THEN mouse_cdb = <<arrow, arrow>> /\ HIDE_CNT = 0
       ELSE mouse_cdb = <<wish, wish>> /\ (HIDE_CNT = 0 <=> offs = 0)
=============================================================================
