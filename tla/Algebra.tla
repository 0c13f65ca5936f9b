------------------------------ MODULE Algebra -------------------------------
(***************************************************************************)
(* The vectors, quaternions and 4x4 matrices of math/, with the vector     *)
(* instructions of templates/simd_float.h.  Numbers are integers, so that  *)
(* nothing is rounded; what the code divides is kept next to its divisor.  *)
(*                                                                         *)
(* A vector is a sequence of 4 or 8 lanes, which the code numbers from 0,  *)
(* and a matrix the sequence of its rows.                                  *)
(***************************************************************************)
EXTENDS Integers, Sequences

CONSTANTS
  Probe,       \* vectors of 3 lanes
  Turn,        \* quaternions
  MaxSquares   \* bound: the sum of the squares of the entries of a matrix

ASSUME AlgebraAssumption ==
  Probe \subseteq Int \X Int \X Int /\ Turn \subseteq Int \X Int \X Int \X Int

VARIABLE matrices    \* what a program has: no matrix yet, or one

Add(v, w) == [i \in DOMAIN v |-> v[i] + w[i]]
Sub(v, w) == [i \in DOMAIN v |-> v[i] - w[i]]
Mul(v, w) == [i \in DOMAIN v |-> v[i] * w[i]]

\* load(s) and Mul, of a scalar and a vector.
Scaled(s, v) == [i \in DOMAIN v |-> s * v[i]]

Hadd(v, w) == <<v[1] + v[2], v[3] + v[4], w[1] + w[2], w[3] + w[4]>>

\* shuffle of one vector, and of two, which give two lanes each.
Shuffle(v, lanes) == [i \in DOMAIN lanes |-> v[lanes[i] + 1]]
Shuffle2(v, w, lanes) == Shuffle(v, SubSeq(lanes, 1, 2)) \o Shuffle(w, SubSeq(lanes, 3, 4))

Unpacklo(v, w) == <<v[1], w[1], v[2], w[2]>>
Unpackhi(v, w) == <<v[3], w[3], v[4], w[4]>>

----------------------------------------------------------------------------
Diag(a, b, c, d) == <<<<a, 0, 0, 0>>, <<0, b, 0, 0>>, <<0, 0, c, 0>>, <<0, 0, 0, d>>>>
Eye == Diag(1, 1, 1, 1)
Scaling(s) == Diag(s[1], s[2], s[3], 1)
Translation(t) == <<<<1, 0, 0, t[1]>>, <<0, 1, 0, t[2]>>, <<0, 0, 1, t[3]>>, <<0, 0, 0, 1>>>>

\* getTranspose and transpose.
Transpose(m) ==
  LET a0 == Unpacklo(m[1], m[2])
      a1 == Unpackhi(m[1], m[2])
      a2 == Unpacklo(m[3], m[4])
      a3 == Unpackhi(m[3], m[4])
  IN  <<Shuffle2(a0, a2, <<0, 1, 0, 1>>), Shuffle2(a0, a2, <<2, 3, 2, 3>>),
        Shuffle2(a1, a3, <<0, 1, 0, 1>>), Shuffle2(a1, a3, <<2, 3, 2, 3>>)>>

\* operator*(Vec4): a vector times each row, whose lanes are then summed up.
Apply(m, v) ==
  Hadd(Hadd(Mul(m[1], v), Mul(m[2], v)), Hadd(Mul(m[3], v), Mul(m[4], v)))

MultiplyTransposed(m, n) ==
  [i \in 1..4 |-> Hadd(Hadd(Mul(m[i], n[1]), Mul(m[i], n[2])),
                       Hadd(Mul(m[i], n[3]), Mul(m[i], n[4])))]

\* operator*(Mat4).
Times(m, n) == MultiplyTransposed(m, Transpose(n))

\* Faulty variant: signs as in a row that begins with an even one, twice.
ComplementsEven(a, b) ==
  LET a0 == Shuffle(a, <<5, 4, 4, 4, 1, 0, 0, 0>>)
      a1 == Shuffle(a, <<6, 6, 5, 5, 2, 2, 1, 1>>)
      a2 == Shuffle(a, <<7, 7, 7, 6, 3, 3, 3, 2>>)
      b0 == Shuffle(b, <<2, 2, 1, 1, 2, 2, 1, 1>>)
      b1 == Shuffle(b, <<7, 7, 7, 6, 7, 7, 7, 6>>)
      b2 == Shuffle(b, <<3, 3, 3, 2, 3, 3, 3, 2>>)
      b3 == Shuffle(b, <<6, 6, 5, 5, 6, 6, 5, 5>>)
      b4 == Shuffle(b, <<1, 0, 0, 0, 1, 0, 0, 0>>)
      b5 == Shuffle(b, <<5, 4, 4, 4, 5, 4, 4, 4>>)
  IN  Mul(<<1, -1, 1, -1, 1, -1, 1, -1>>,
          Add(Sub(Mul(a0, Sub(Mul(b0, b1), Mul(b2, b3))), Mul(a1, Sub(Mul(b4, b1), Mul(b2, b5)))),
              Mul(a2, Sub(Mul(b4, b3), Mul(b0, b5)))))

\* getUpperAlgebraicComplements for the two rows in a, getLower... for the others.
Complements(a, b) ==
  LET a0 == Shuffle(a, <<5, 4, 4, 4, 1, 0, 0, 0>>)
      a1 == Shuffle(a, <<6, 6, 5, 5, 2, 2, 1, 1>>)
      a2 == Shuffle(a, <<7, 7, 7, 6, 3, 3, 3, 2>>)
      b0 == Shuffle(b, <<2, 2, 1, 1, 2, 2, 1, 1>>)
      b1 == Shuffle(b, <<7, 7, 7, 6, 7, 7, 7, 6>>)
      b2 == Shuffle(b, <<3, 3, 3, 2, 3, 3, 3, 2>>)
      b3 == Shuffle(b, <<6, 6, 5, 5, 6, 6, 5, 5>>)
      b4 == Shuffle(b, <<1, 0, 0, 0, 1, 0, 0, 0>>)
      b5 == Shuffle(b, <<5, 4, 4, 4, 5, 4, 4, 4>>)
  IN  Mul(<<1, -1, 1, -1, -1, 1, -1, 1>>,
          Add(Sub(Mul(a0, Sub(Mul(b0, b1), Mul(b2, b3))), Mul(a1, Sub(Mul(b4, b1), Mul(b2, b5)))),
              Mul(a2, Sub(Mul(b4, b3), Mul(b0, b5)))))

ComplementsMatrix(m) ==
  LET upper == m[1] \o m[2]
      lower == m[3] \o m[4]
      c == Complements(upper, lower) \o Complements(lower, upper)
  IN  [i \in 1..4 |-> SubSeq(c, 4 * i - 3, 4 * i)]

Determinant(m) ==
  LET c == ComplementsMatrix(m)[1]
  IN  m[1][1] * c[1] + m[1][2] * c[2] + m[1][3] * c[3] + m[1][4] * c[4]

\* operator! and invert, of a matrix with a determinant, by which the code divides.
InverseTimesDet(m) == Transpose(ComplementsMatrix(m))

\* getInverseTransform: its rows, and what they are divided by.
InverseTransform(m) ==
  LET mt == Transpose(m)
      zero == <<0, 0, 0, 0>>
      products(n) == Hadd(Hadd(Mul(mt[1], mt[n[1]]), Mul(mt[2], mt[n[2]])),
                          Hadd(Mul(mt[3], mt[n[3]]), zero))
      s0 == products(<<1, 2, 3>>)
      t0 == products(<<4, 4, 4>>)
  IN  [rows |-> <<Add(mt[1], Shuffle(t0, <<3, 3, 3, 0>>)), Add(mt[2], Shuffle(t0, <<3, 3, 3, 1>>)),
                  Add(mt[3], Shuffle(t0, <<3, 3, 3, 2>>)), <<0, 0, 0, 1>>>>,
       by |-> <<s0[1], s0[2], s0[3], 1>>]

----------------------------------------------------------------------------
\* operator^ of Vec3, with vector instructions. Lane 4 is not used.
Cross(v, w) ==
  Sub(Mul(Shuffle(v, <<1, 2, 0>>), Shuffle(w, <<2, 0, 1>>)),
      Mul(Shuffle(v, <<2, 0, 1>>), Shuffle(w, <<1, 2, 0>>)))

\* operator* of Quat<T, false>, and operator! of Quat<T, true>.
QuatTimes(p, q) ==
  <<p[4] * q[1] + p[1] * q[4] + p[2] * q[3] - p[3] * q[2],
    p[4] * q[2] - p[1] * q[3] + p[2] * q[4] + p[3] * q[1],
    p[4] * q[3] + p[1] * q[2] - p[2] * q[1] + p[3] * q[4],
    p[4] * q[4] - p[1] * q[1] - p[2] * q[2] - p[3] * q[3]>>

Conjugate(q) == <<-q[1], -q[2], -q[3], q[4]>>

\* operator*(Vec3), of Quat<T, true>, and of Quat<T, false>, which has one sign
\* the other way.
Rotated(q, v, sign) ==
  LET axis == SubSeq(q, 1, 3)
      t == Scaled(2, Cross(axis, v))
  IN  Add(Add(v, Scaled(sign * q[4], t)), Cross(axis, t))

Rotation(q) ==
  LET x == q[1]
      y == q[2]
      z == q[3]
      w == q[4]
  IN  MultiplyTransposed(
        <<<<w, -z, y, x>>, <<z, w, -x, y>>, <<-y, x, w, z>>, <<-x, -y, -z, w>>>>,
        <<<<w, z, -y, x>>, <<-z, w, x, y>>, <<y, -x, w, z>>, <<-x, -y, -z, w>>>>)

\* transform: lane 4 of the translation is whatever is there.
Transform(t, q, s, stray) ==
  LET x == q[1]
      y == q[2]
      z == q[3]
      w == q[4]
      r == MultiplyTransposed(
             <<<<w, z, -y, x>>, <<-z, w, x, y>>, <<y, -x, w, z>>, <<-x, -y, -z, w>>>>,
             <<<<w, -z, y, x>>, <<z, w, -x, y>>, <<-y, x, w, z>>, <<-x, -y, -z, w>>>>)
      out == Transpose(<<Scaled(s[1], r[1]), Scaled(s[2], r[2]), Scaled(s[3], r[3]),
                         Append(t, stray)>>)
  IN  [out EXCEPT ![4][4] = 1]

----------------------------------------------------------------------------
\* Programs that begin with the unit matrix and go on with products.
AlgebraInit == matrices = {}

Small(m) ==
  LET squares(v) == v[1] * v[1] + v[2] * v[2] + v[3] * v[3] + v[4] * v[4]
  IN  squares(m[1]) + squares(m[2]) + squares(m[3]) + squares(m[4]) <= MaxSquares

Compute(m) == Small(m) /\ matrices' = {m}

AlgebraNext ==
  \/ Compute(Eye)
  \/ \E m \in matrices :
       \/ Compute(Transpose(m))
       \/ Compute(InverseTimesDet(m))
       \/ \E v \in Probe : Compute(Times(m, Translation(v))) \/ Compute(Times(m, Scaling(v)))
       \/ \E q \in Turn : Compute(Times(m, Rotation(q)))

AlgebraSpec == AlgebraInit /\ [][AlgebraNext]_matrices

----------------------------------------------------------------------------
(***************************************************************************)
(* The text book.                                                          *)
(***************************************************************************)
Dot(v, w) == v[1] * w[1] + v[2] * w[2] + v[3] * w[3] + v[4] * w[4]

Column(m, j) == <<m[1][j], m[2][j], m[3][j], m[4][j]>>

Product(m, n) == [i \in 1..4 |-> [j \in 1..4 |-> Dot(m[i], Column(n, j))]]

Point(v) == Append(v, 1)

Imaginary(v) == Append(v, 0)

\* The product of quaternions: w v' + w' v + v x v' is its vector, w w' - v v' the rest.
Hamilton(p, q) ==
  LET vector(i, j, k) == p[4] * q[i] + q[4] * p[i] + (p[j] * q[k] - p[k] * q[j])
  IN  <<vector(1, 2, 3), vector(2, 3, 1), vector(3, 1, 2),
        p[4] * q[4] - (p[1] * q[1] + p[2] * q[2] + p[3] * q[3])>>

Star(q) == [i \in 1..4 |-> IF i = 4 THEN q[i] ELSE -q[i]]

\* q v q*.
Sandwich(q, v) == SubSeq(Hamilton(Hamilton(q, Imaginary(v)), Star(q)), 1, 3)

Affine(m) == m[4] = <<0, 0, 0, 1>>

\* Columns 1 to 3 are orthogonal, and none is zero.
Orthogonal(m) ==
  \A i, j \in 1..3 : (Dot(Column(m, i), Column(m, j)) = 0) <=> i # j

\* Products are the text book's, and the matrix of complements, transposed, times the
\* matrix is its determinant.
ProductsRight(m) ==
  /\ Times(m, m) = Product(m, m)
  /\ \A v \in Probe : Apply(m, Point(v)) = [i \in 1..4 |-> Dot(m[i], Point(v))]
  /\ LET d == Determinant(m)
     IN  Product(m, InverseTimesDet(m)) = Diag(d, d, d, d)

\* The plain product of quaternions is Hamilton's, and a rotation is by q v q*.
RotationsRight ==
  \A q \in Turn, v \in Probe :
    /\ \A p \in Turn : QuatTimes(p, q) = Hamilton(p, q)
    /\ QuatTimes(q, Conjugate(q)) = <<0, 0, 0, Dot(q, q)>>
    /\ Apply(Rotation(q), Point(v)) = Append(Sandwich(q, v), Dot(q, q))
    /\ Dot(q, q) = 1 =>
         /\ Rotated(q, v, 1) = Sandwich(q, v)
         /\ Rotated(q, v, -1) = Sandwich(Star(q), v)
         /\ \A t \in Probe, stray \in {0, 2} :
              Apply(Transform(t, q, v, stray), Point(t)) =
                Point(Add(Sandwich(q, Mul(v, t)), t))

\* getInverseTransform inverts the linear part of a transform, and moves by the
\* opposite of what its inverse moves by.
InverseOpposite(m) ==
  LET inverse == InverseTransform(m)
      product == Product([inverse.rows EXCEPT ![1][4] = -@, ![2][4] = -@, ![3][4] = -@], m)
  IN  Affine(m) /\ Orthogonal(m) => product = Diag(inverse.by[1], inverse.by[2], inverse.by[3], 1)

\* What the code computes is what the text books say, for every matrix that products
\* of translations, scalings and rotations, and inverses of them, lead to (mat4_simd.h,
\* quat.h).
AlgebraRight ==
  RotationsRight /\ \A m \in matrices : ProductsRight(m) /\ InverseOpposite(m)
=============================================================================
