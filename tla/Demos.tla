------------------------------- MODULE Demos -------------------------------
(***************************************************************************)
(* The multi-threaded guest programs of workloads/demos: mt-cube, mt-solid *)
(* and mt-fire.  Every hart runs thread_entry(), a sequence of sections    *)
(* separated by barrier().  Statements gives the statements a hart executes in *)
(* a section, one item per statement that touches shared memory; Do        *)
(* executes one.  The geometry comes with the command: cmd.obj, cmd.edges  *)
(* or cmd.tris; mt-fire's frame is cmd.w by cmd.h.                         *)
(***************************************************************************)
EXTENDS Barrier, G3d

CONSTANTS Ember, Spark   \* mt-fire: 16 and 128 .. 255

VARIABLES
  sec, ip,        \* per hart: its section and its next item
  local,          \* per hart: the angles it has read, a loaded cell
  shared,         \* the static variables of the program, a record
  frame,          \* mt-fire: frames begun, bounded by cmd.frames
  first           \* ghost: mt-fire's buffer when the frame began

(* A scene has vertices and edges or faces; line_blur reads two cells of a   *)
(* line before it has looked at the line's length.                           *)
ASSUME DemoCommands ==
  \A c \in Commands :
    /\ c.tool = "mt-cube" => Len(c.obj) \in Nat /\ Len(c.edges) \in Nat
    /\ c.tool = "mt-solid" => Len(c.obj) \in Nat /\ Len(c.tris) \in Nat
    /\ c.tool = "mt-fire" => c.w \in Nat /\ c.h \in Nat /\ c.w > 1 /\ c.h > 1

demoVars == <<barrierVars, sec, ip, local, shared, frame, first>>

Scenes == {"mt-cube", "mt-solid"}
DemoTools == Scenes \cup {"mt-fire"}

(* Faulty form of Slice: both ends are rounded outwards. *)
SliceRounded(h, n) ==
  [lo |-> (h * n) \div NUM_HARTS, hi |-> ((h + 1) * n + NUM_HARTS - 1) \div NUM_HARTS]

(* Hart h's part of n things, lo up to hi - 1. *)
Slice(h, n) == [lo |-> (h * n) \div NUM_HARTS, hi |-> ((h + 1) * n) \div NUM_HARTS]

(* mt-fire's parts: equal, the last hart takes the rest. *)
FireSlice(h, n) ==
  LET part == n \div NUM_HARTS
  IN [lo |-> h * part, hi |-> IF h = NUM_HARTS - 1 THEN n ELSE h * part + part]

(* for (i = lo; i < hi; i += step), one item per iteration. *)
ForLoop(op, lo, hi, step) ==
  [k \in 1 .. (hi - lo + step - 1) \div step |-> <<op, lo + (k - 1) * step>>]

All(op, n) == ForLoop(op, 0, n, 1)
Mine(op, part) == ForLoop(op, part.lo, part.hi, 1)
Striding(op, h, n) == ForLoop(op, h, n, NUM_HARTS)

Start(h) == IF h = 0 THEN << <<"angles", 0>>, <<"go", 0>> >> ELSE << <<"gate", 0>> >>

CubeScript(h, s) ==
  CASE s = 0 -> Start(h)
    [] s = 1 -> << <<"ry", 0>> >> \o Mine("vertex", Slice(h, Len(cmd.obj)))
    [] s = 2 -> IF h # 0 THEN << >>
                ELSE << <<"blank", 0>> >> \o All("edge", Len(cmd.edges))
                     \o << <<"present", 0>>, <<"turny", 3>> >>

SolidScript(h, s) ==
  CASE s = 0 -> Start(h)
    [] s = 1 -> << <<"rx", 0>>, <<"ry", 0>> >> \o Striding("vertex", h, Len(cmd.obj))
                \o Striding("normal", h, Len(cmd.tris))
    [] s = 2 -> Mine("clear", Slice(h, G3D_H)) \o All("face", Len(cmd.tris))
    [] s = 3 -> IF h # 0 THEN << >>
                ELSE << <<"present", 0>>, <<"turny", 3>>, <<"turnx", 1>> >>

(* Cooling loads a cell and stores it; so does heating the bottom row, which *)
(* hart 0 does while the last hart may still cool it.                        *)
LoadStore(op, part) ==
  [k \in 1 .. 2 * (part.hi - part.lo) |->
     <<IF k % 2 = 1 THEN "load" ELSE op, part.lo + (k - 1) \div 2>>]

Cooling(h) ==
  LET size == cmd.w * cmd.h
  IN LoadStore("cool", FireSlice(h, size))
     \o IF h = 0 THEN LoadStore("heat", [lo |-> size - cmd.w, hi |-> size]) ELSE << >>

(* Hart 0 shows the frame while the others already scroll. *)
Scrolling(h) ==
  LET rows == FireSlice(h, cmd.h - 1)
  IN (IF h = 0 THEN ForLoop("show", 0, cmd.h, 2) ELSE << >>)
     \o ForLoop("scroll", rows.lo + 1, rows.hi + 1, 1)

FireScript(h, s) ==
  CASE s = 0 -> << >>
    [] s = 1 -> Mine("blurrow", FireSlice(h, cmd.h))
    [] s = 2 -> Mine("blurcol", FireSlice(h, cmd.w))
    [] s = 3 -> Cooling(h)
    [] s = 4 -> Scrolling(h)

Statements(h, s) == CASE cmd.tool = "mt-cube" -> CubeScript(h, s)
                  [] cmd.tool = "mt-solid" -> SolidScript(h, s)
                  [] cmd.tool = "mt-fire" -> FireScript(h, s)

(* The section after section s; the loop skips the start. *)
Following(s) == CASE cmd.tool = "mt-cube" -> IF s = 2 THEN 1 ELSE s + 1
                  [] cmd.tool = "mt-solid" -> IF s = 3 THEN 1 ELSE s + 1
                  [] cmd.tool = "mt-fire" -> IF s = 4 THEN 1 ELSE s + 1

-----------------------------------------------------------------------------
(* What one statement does.                                                  *)

(* The matrices of all angles; mt-cube's angle_x is 0, which turns nothing. *)
Rot == [x, y \in 0 .. Turn - 1 |-> g3d_mul_mat(g3d_rotate_y(y), g3d_rotate_x(x))]

World == [x, y \in 0 .. Turn - 1 |->
            g3d_mul_mat(g3d_translate(0, 0, g3d_from_int(4)), Rot[x, y])]

Vertex(a, i, old) ==
  g3d_project(old, g3d_transform(World[a.x, a.y], cmd.obj[i + 1]),
              G3D_W \div 2, G3D_H \div 2, g3d_from_int(cmd.focal))

Line == 220          \* the wireframe's colour
Background == 8
Far == 65535

(* g3d_line draws without a z-buffer. *)
DrawEdge(p, v, e) ==
  LET a == v[e[1]]
      b == v[e[2]]
      on == {g3d_line(a.x, a.y, b.x, b.y)[n] : n \in 1 .. Len(g3d_line(a.x, a.y, b.x, b.y))}
  IN [p EXCEPT !.fb = [q \in Pixels |-> IF q \in on THEN Line ELSE @[q]]]

(* Clockwise is the front: y grows downwards. *)
DrawFace(p, v, n, i, y_lo, y_hi) ==
  LET t == cmd.tris[i + 1]
      a == v[t[1]]  b == v[t[2]]  c == v[t[3]]
  IN IF g3d_facing(a, b, c) THEN p
     ELSE g3d_plot(p, g3d_triangle(a, b, c, y_lo, y_hi),
                   g3d_shade(cmd.cols[i + 1], n, cmd.light))

(* Faulty form of ClearRows: the z-buffer keeps the last frame. *)
ClearColour(p, rows, c) ==
  [p EXCEPT !.fb = [q \in Pixels |-> IF q[2] \in rows THEN c ELSE p.fb[q]]]

ClearRows(p, rows, c) ==
  [fb |-> [q \in Pixels |-> IF q[2] \in rows THEN c ELSE p.fb[q]],
   z  |-> [q \in Pixels |-> IF q[2] \in rows THEN Far ELSE p.z[q]]]

(* line_blur: a window of three values kept in a ring.  beg is one byte. *)
line_blur(f, offset, step, nsteps) ==
  LET start == [f |-> f, beg |-> 1,
                circ |-> [k \in 0 .. 2 |-> CASE k = 0 -> 0
                                             [] k = 1 -> f[offset]
                                             [] k = 2 -> f[offset + step]]]
      go[i \in 0 .. nsteps] ==
        IF i = 0 THEN start
        ELSE LET s == go[i - 1]
                 p == offset + (i - 1) * step
                 g == [s.f EXCEPT ![p] = (s.circ[0] + s.circ[1] + s.circ[2]) \div 3]
             IN [f |-> g, beg |-> (s.beg + 1) % 256,
                 circ |-> [s.circ EXCEPT ![(s.beg + 2) % 3] =
                             IF i + 1 < nsteps THEN g[p + 2 * step] ELSE 0]]
  IN go[nsteps].f

(* What a statement loads into the hart's own variables. *)
Loaded(h, op, i) ==
  CASE op = "rx" -> [local[h] EXCEPT !.x = shared.angle.x]
    [] op = "ry" -> [local[h] EXCEPT !.y = shared.angle.y]
    [] op = "load" -> [local[h] EXCEPT !.v = shared.fire[i]]
    [] OTHER -> local[h]

(* What it may store: the possible next values of the shared variables. *)
SceneStore(h, op, i) ==
  LET m == shared
      draw(p) == [m EXCEPT !.pic = p]
  IN CASE op = "angles" -> [m EXCEPT !.angle = IF cmd.tool = "mt-cube" THEN [x |-> 0, y |-> 20 % Turn]
                                               ELSE [x |-> 18 % Turn, y |-> 30 % Turn]]
       [] op = "go" -> [m EXCEPT !.video_go = TRUE]
       [] op = "vertex" -> [m EXCEPT !.projected[i] = Vertex(local[h], i, @)]
       [] op = "normal" -> [m EXCEPT !.nrot[i] = Turned(Rot[local[h].x, local[h].y], cmd.normals[i + 1])]
       [] op = "blank" -> draw(ClearRows(m.pic, 0 .. G3D_H - 1, 0))
       [] op = "clear" -> draw(ClearRows(m.pic, {i}, Background))
       [] op = "edge" -> draw(DrawEdge(m.pic, m.projected, cmd.edges[i + 1]))
       [] op = "face" -> draw(DrawFace(m.pic, m.projected, m.nrot[i], i,
                           Slice(h, G3D_H).lo, Slice(h, G3D_H).hi))
       [] op = "turny" -> [m EXCEPT !.angle.y = (@ + i) % Turn]
       [] op = "turnx" -> [m EXCEPT !.angle.x = (@ + i) % Turn]
       [] OTHER -> m

(* myrand() decides whether a cell cools, never below zero, and whether the  *)
(* bed gets a spark.                                                          *)
FireStore(h, op, i) ==
  LET f == shared.fire
      v == local[h].v
      cells == CASE op = "blurrow" -> {line_blur(f, i * cmd.w, 1, cmd.w)}
                 [] op = "blurcol" -> {line_blur(f, i, cmd.w, cmd.h)}
                 [] op = "cool" -> {f, IF v > 0 THEN [f EXCEPT ![i] = v - 1] ELSE f}
                 [] op = "heat" -> {[f EXCEPT ![i] = Spark],
                                    [f EXCEPT ![i] = IF v < Ember THEN Ember ELSE v]}
                 [] op = "scroll" -> {[p \in DOMAIN f |-> IF p \div cmd.w = i - 1
                                                          THEN f[p + cmd.w] ELSE f[p]]}
                 [] OTHER -> {f}
  IN {[shared EXCEPT !.fire = g] : g \in cells}

-----------------------------------------------------------------------------
DemoInit ==
  /\ BarrierInit
  /\ sec = [h \in Harts |-> 0]
  /\ ip = [h \in Harts |-> 1]
  /\ local = [h \in Harts |-> [x |-> 0, y |-> 0, v |-> 0]]
  /\ LET n == IF cmd.tool \in Scenes THEN Len(cmd.obj) ELSE 0
         f == IF cmd.tool = "mt-solid" THEN Len(cmd.tris) ELSE 0
         c == IF cmd.tool = "mt-fire" THEN cmd.w * cmd.h ELSE 0
     IN shared = [angle |-> [x |-> 0, y |-> 0], video_go |-> FALSE,
                  projected |-> [i \in 0 .. n - 1 |-> [x |-> 0, y |-> 0, z |-> 0]],
                  nrot |-> [i \in 0 .. f - 1 |-> <<0, 0, 0>>],
                  pic |-> [fb |-> [p \in IF n = 0 THEN {} ELSE Pixels |-> 0],
                           z |-> [p \in IF n = 0 THEN {} ELSE Pixels |-> 0]],
                  fire |-> [p \in 0 .. c - 1 |-> 0]]
  /\ frame = 0 /\ first = shared.fire

Item(h) == Statements(h, sec[h])[ip[h]]
Working(h) == stage[h] = "out" /\ ip[h] <= Len(Statements(h, sec[h]))

Work(h) ==
  /\ Working(h)
  /\ ~(cmd.tool = "mt-fire" /\ sec[h] = 3 /\ frame = cmd.frames)
  /\ LET op == Item(h)[1]
         i == Item(h)[2]
     IN /\ op = "gate" => shared.video_go
        /\ local' = [local EXCEPT ![h] = Loaded(h, op, i)]
        /\ shared' \in IF cmd.tool = "mt-fire" THEN FireStore(h, op, i) ELSE {SceneStore(h, op, i)}
  /\ ip' = [ip EXCEPT ![h] = @ + 1]
  /\ UNCHANGED <<barrierVars, sec, frame, first>>

(* The end of a section: the next statement is barrier(). *)
EnterBarrier(h) ==
  /\ ip[h] > Len(Statements(h, sec[h]))
  /\ Arrive(h)
  /\ sec' = [sec EXCEPT ![h] = Following(@)]
  /\ ip' = [ip EXCEPT ![h] = 1]
  /\ UNCHANGED <<local, shared, frame, first>>

(* The release that begins a frame of mt-fire counts it. *)
LeaveBarrier(h) ==
  /\ InBarrier(h)
  /\ LET begins == cmd.tool = "mt-fire" /\ sec[h] = 1 /\ stage[h] = "release"
     IN /\ first' = IF begins THEN shared.fire ELSE first
        /\ frame' = IF begins THEN frame + 1 ELSE frame
  /\ UNCHANGED <<sec, ip, local, shared>>

DemoStep(h) ==
  /\ cmd.tool \in DemoTools
  /\ Work(h) \/ EnterBarrier(h) \/ LeaveBarrier(h)
  /\ UNCHANGED cmd

DemoNext == \E h \in Harts : DemoStep(h)

DemoSpec == cmd \in Commands /\ DemoInit /\ [][DemoNext]_<<cmd, demoVars>>

-----------------------------------------------------------------------------
(* Properties.                                                               *)

(* The shared locations the next item of hart h loads and stores: whole rows *)
(* of the frame buffer, single cells of the fire, whole lines of a blur.     *)
Accesses(h) ==
  LET op == Item(h)[1]
      i == Item(h)[2]
      at(name, S) == {<<name, k>> : k \in S}
      rows == 0 .. G3D_H - 1
      corners(t) == at("projected", {t[k] : k \in 1 .. Len(t)})
      both(S) == [r |-> S, w |-> S]
  IN CASE op = "angles" -> [r |-> {}, w |-> at("angle", {1, 2})]
       [] op = "rx" -> [r |-> at("angle", {1}), w |-> {}]
       [] op = "ry" -> [r |-> at("angle", {2}), w |-> {}]
       [] op = "turnx" -> both(at("angle", {1}))
       [] op = "turny" -> both(at("angle", {2}))
       [] op = "vertex" -> [r |-> {}, w |-> at("projected", {i})]
       [] op = "normal" -> [r |-> {}, w |-> at("nrot", {i})]
       [] op = "blank" -> [r |-> {}, w |-> at("fb", rows)]
       [] op = "clear" -> [r |-> {}, w |-> at("fb", {i})]
       [] op = "edge" -> [r |-> corners(cmd.edges[i + 1]), w |-> at("fb", rows)]
       [] op = "face" -> [r |-> corners(cmd.tris[i + 1]) \cup at("nrot", {i}), w |-> at("fb", Slice(h, G3D_H).lo .. Slice(h, G3D_H).hi - 1)]
       [] op = "present" -> [r |-> at("fb", rows), w |-> {}]
       [] op = "blurrow" -> both(at("fire", {i * cmd.w + k : k \in 0 .. cmd.w - 1}))
       [] op = "blurcol" -> both(at("fire", {i + k * cmd.w : k \in 0 .. cmd.h - 1}))
       [] OTHER -> [r |-> {}, w |-> {}]

(* Between two barriers no hart touches what another one is about to store:  *)
(* "the z-buffer stays race-free" (mt-solid), the vertex slices of both      *)
(* scenes, and line_blur, "a thread safe function", when mt-fire gives every *)
(* hart its own rows and then its own columns.  Hence a frame does not       *)
(* depend on the order of the harts.  Not counted: cooling beside heating,   *)
(* and scrolling beside the display, where harts of mt-fire do race          *)
(* (mt-fire.c 122-168); the picture only flickers.                           *)
RaceFree ==
  cmd.tool \in DemoTools =>
    \A g, h \in Harts : g # h /\ Working(g) /\ Working(h) =>
      LET a == Accesses(g)
          b == Accesses(h)
      IN a.w \cap (b.r \cup b.w) = {}

(* The harts of a demo are kept apart by the barrier: no round opens before  *)
(* everyone has come or closes before everyone has left, and between two     *)
(* rounds nobody's stores meet another's accesses (util.h 44-58, mt-solid.c  *)
(* 112-135, mt-fire.c).                                                      *)
HartsApart == RoundExact /\ RaceFree

(* The picture of one pair of angles, drawn by one hart. *)
Reference(a) ==
  LET v == [i \in DOMAIN shared.projected |-> Vertex(a, i, [x |-> 0, y |-> 0, z |-> 0])]
      blank == [fb |-> [p \in Pixels |-> IF cmd.tool = "mt-cube" THEN 0 ELSE Background],
                z |-> [p \in Pixels |-> Far]]
      n == Len(IF cmd.tool = "mt-cube" THEN cmd.edges ELSE cmd.tris)
      draw[i \in 0 .. n] ==
        IF i = 0 THEN blank
        ELSE IF cmd.tool = "mt-cube" THEN DrawEdge(draw[i - 1], v, cmd.edges[i])
        ELSE DrawFace(draw[i - 1], v, Turned(Rot[a.x, a.y], cmd.normals[i]), i - 1, 0, G3D_H)
  IN draw[n].fb

Presenting == cmd.tool \in Scenes /\ Working(0) /\ Item(0) = <<"present", 0>>

(* Whatever the interleaving, the frame hart 0 presents is the picture one   *)
(* hart alone would draw for the current angles: no vertex of an earlier     *)
(* frame, no row left over, no row band drawn differently.                   *)
FrameExact ==
  Presenting => shared.pic.fb = Reference(shared.angle)

(* The three-tap average, zero outside the frame. *)
Average(f, p, step, k, n) ==
  (f[p] + (IF k > 0 THEN f[p - step] ELSE 0) + (IF k < n - 1 THEN f[p + step] ELSE 0)) \div 3

(* When the cooling begins, the buffer is the frame's first contents blurred *)
(* along the rows and then along the columns: the ring in line_blur never    *)
(* mixes new values into its window, and no hart starts on the columns       *)
(* before all rows are done.                                                 *)
BlurExact ==
  cmd.tool = "mt-fire" /\ (\A h \in Harts : sec[h] = 3 /\ ip[h] = 1) =>
    LET across == [p \in DOMAIN first |-> Average(first, p, 1, p % cmd.w, cmd.w)]
    IN shared.fire = [p \in DOMAIN first |-> Average(across, p, cmd.w, p \div cmd.w, cmd.h)]

(* The harts of a scene never wait for each other for ever: frame after      *)
(* frame is presented.                                                       *)
FramesGoOn == []<>(cmd.tool \notin Scenes \/ Presenting)

(* The picture of every demo is the one a single hart would draw: frames are *)
(* exact and the blur reads only old values.                                 *)
DemoSound == FrameExact /\ BlurExact
=============================================================================
