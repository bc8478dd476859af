-------------------------------- MODULE G3d --------------------------------
(***************************************************************************)
(* The fixed-point 3D library of the demos, workloads/demos/g3d: its       *)
(* arithmetic, transforms, line and triangle rasterisers, as operators.    *)
(* A colour is one number (the three channels are treated alike), a frame  *)
(* buffer a function from pixels <<x, y>>.  Values stay far below 2^31 on  *)
(* the sizes checked, so no width is kept except where the code narrows.   *)
(***************************************************************************)
EXTENDS Host

CONSTANTS G3D_W, G3D_H,   \* the frame buffer: 64 x 48
          G3D_SHIFT,      \* fraction bits: 16
          Sintab          \* one turn of sines, a sequence; 256 entries

ASSUME G3dAssumption ==
  /\ {G3D_W, G3D_H} \subseteq Nat \ {0}
  /\ G3D_SHIFT \in Nat \ {0}
  /\ Len(Sintab) % 4 = 0

G3D_ONE == 2 ^ G3D_SHIFT
Turn == Len(Sintab)
Pixels == (0 .. G3D_W - 1) \X (0 .. G3D_H - 1)

(* C's division truncates, its >> on signed values floors. *)
Magnitude(n) == IF n < 0 THEN -n ELSE n
Quotient(a, b) == IF (a < 0) = (b < 0) THEN Magnitude(a) \div Magnitude(b)
                  ELSE -(Magnitude(a) \div Magnitude(b))

g3d_mul(a, b) == (a * b) \div G3D_ONE
g3d_div(a, b) == IF b = 0 THEN 0 ELSE Quotient(a * G3D_ONE, b)
g3d_from_int(v) == v * G3D_ONE
g3d_to_int(v) == v \div G3D_ONE

g3d_sin(a) == Sintab[(a % Turn) + 1]
g3d_cos(a) == Sintab[((a + Turn \div 4) % Turn) + 1]

-----------------------------------------------------------------------------
(* 4 x 4 matrices as tuples of rows; a vector is <<x, y, z>>.                *)

g3d_ident == [r \in 1 .. 4 |-> [c \in 1 .. 4 |-> IF r = c THEN G3D_ONE ELSE 0]]

g3d_mul_mat(a, b) ==
  LET entry(r, c) == (a[r][1] * b[1][c] + a[r][2] * b[2][c] + a[r][3] * b[3][c]
                      + a[r][4] * b[4][c]) \div G3D_ONE
      row(r) == <<entry(r, 1), entry(r, 2), entry(r, 3), entry(r, 4)>>
  IN <<row(1), row(2), row(3), row(4)>>

g3d_translate(x, y, z) ==
  [g3d_ident EXCEPT ![1][4] = x, ![2][4] = y, ![3][4] = z]

(* Turns the plane of the axes i and j. *)
g3d_rotate(i, j, a) ==
  [g3d_ident EXCEPT ![i][i] = g3d_cos(a), ![i][j] = -g3d_sin(a),
                    ![j][i] = g3d_sin(a), ![j][j] = g3d_cos(a)]

g3d_rotate_x(a) == g3d_rotate(2, 3, a)
g3d_rotate_y(a) == g3d_rotate(3, 1, a)
g3d_rotate_z(a) == g3d_rotate(1, 2, a)

g3d_dot(a, b) == g3d_mul(a[1], b[1]) + g3d_mul(a[2], b[2]) + g3d_mul(a[3], b[3])

(* The 3 x 3 part of a matrix applied to a vector. *)
Turned(m, v) == <<g3d_dot(m[1], v), g3d_dot(m[2], v), g3d_dot(m[3], v)>>

g3d_transform(m, v) ==
  LET t == Turned(m, v) IN <<t[1] + m[1][4], t[2] + m[2][4], t[3] + m[3][4]>>

(* The vertex is left as it was when it lies behind the near plane. *)
g3d_project(old, eye, cx, cy, focal) ==
  IF eye[3] <= G3D_ONE \div 8 THEN old
  ELSE [x |-> cx + g3d_to_int(g3d_div(g3d_mul(eye[1], focal), eye[3])),
        y |-> cy + g3d_to_int(g3d_div(g3d_mul(eye[2], focal), eye[3])),
        z |-> eye[3]]

g3d_facing(a, b, c) == (b.x - a.x) * (c.y - a.y) - (b.y - a.y) * (c.x - a.x) > 0

Ambient == 48

g3d_shade(base, n, light) ==
  LET ndotl == IF g3d_dot(n, light) < 0 THEN 0 ELSE g3d_dot(n, light)
      k == (ndotl * 207) \div G3D_ONE
      o == (Ambient + (base * k) \div 256) % 256
  IN IF o < Ambient THEN Ambient ELSE o

-----------------------------------------------------------------------------
(* Raster.                                                                   *)

z_encode(zi) == LET v == zi \div 2 ^ (G3D_SHIFT \div 2)
                IN IF v < 0 THEN 0 ELSE IF v > 65535 THEN 65535 ELSE v

(* Plots points, a function from pixel positions to depths, in colour c:     *)
(* those off the frame are dropped, the others have to be nearer.            *)
g3d_plot(pic, points, c) ==
  LET drawn == {p \in DOMAIN points \cap Pixels : z_encode(points[p]) < pic.z[p]}
  IN [fb |-> [p \in Pixels |-> IF p \in drawn THEN c ELSE pic.fb[p]],
      z  |-> [p \in Pixels |-> IF p \in drawn THEN z_encode(points[p]) ELSE pic.z[p]]]

(* The line from one point to another: the pixels in the order of the loop,  *)
(* which every round leaves one pixel nearer to the end in x, in y or both.  *)
g3d_line(x0, y0, x1, y1) ==
  LET dx == Magnitude(x1 - x0)
      dy == Magnitude(y1 - y0)
      sx == IF x1 >= x0 THEN 1 ELSE -1
      sy == IF y1 >= y0 THEN 1 ELSE -1
      move(s) == LET inX == 2 * s.err > -dy
                     inY == 2 * s.err < dx
                 IN [x |-> IF inX THEN s.x + sx ELSE s.x,
                     y |-> IF inY THEN s.y + sy ELSE s.y,
                     err |-> s.err - (IF inX THEN dy ELSE 0) + (IF inY THEN dx ELSE 0)]
      atEnd(s) == s.x = x1 /\ s.y = y1
      at[n \in 0 .. dx + dy] ==
        IF n = 0 THEN [x |-> x0, y |-> y0, err |-> dx - dy]
        ELSE LET s == at[n - 1] IN IF atEnd(s) THEN s ELSE move(s)
      rounds == {n \in 0 .. dx + dy : n = 0 \/ ~atEnd(at[n - 1])}
  IN [n \in 1 .. Cardinality(rounds) |-> <<at[n - 1].x, at[n - 1].y>>]

lerp(a, b, num, den) == IF den = 0 THEN a ELSE a + Quotient((b - a) * num, den)

(* The corners in order of y; equal ones keep their order. *)
ByHeight(a, b, c) ==
  LET p == IF a.y > b.y THEN <<b, a>> ELSE <<a, b>>
      q == IF p[2].y > c.y THEN <<p[1], c, p[2]>> ELSE <<p[1], p[2], c>>
  IN IF q[1].y > q[2].y THEN <<q[2], q[1], q[3]>> ELSE q

(* The scan lines of a triangle inside [y_lo, y_hi), as depths of pixels. *)
g3d_triangle(va, vb, vc, y_lo, y_hi) ==
  LET v == ByHeight(va, vb, vc)
      a == v[1]  b == v[2]  c == v[3]
      rows == {y \in (IF y_lo < 0 THEN 0 ELSE y_lo) .. (IF y_hi > G3D_H THEN G3D_H ELSE y_hi) - 1 :
                 /\ c.y # a.y /\ y \in a.y .. c.y
                 /\ y < b.y \/ c.y # b.y}
      long(f(_), y) == lerp(f(a), f(c), y - a.y, c.y - a.y)
      short(f(_), y) == IF y < b.y THEN lerp(f(a), f(b), y - a.y, b.y - a.y)
                        ELSE lerp(f(b), f(c), y - b.y, c.y - b.y)
      px(p) == p.x
      pz(p) == p.z
      ends(y) == LET l == [x |-> long(px, y), z |-> long(pz, y)]
                     r == [x |-> short(px, y), z |-> short(pz, y)]
                 IN IF l.x > r.x THEN <<r, l>> ELSE <<l, r>>
      span == [y \in rows |-> ends(y)]
  IN [p \in UNION {{<<x, y>> : x \in span[y][1].x .. span[y][2].x} : y \in rows} |->
        LET l == span[p[2]][1]  r == span[p[2]][2]
        IN lerp(l.z, r.z, p[1] - l.x, r.x - l.x)]
=============================================================================
