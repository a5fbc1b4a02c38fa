------------------------------ MODULE Linpack ------------------------------
(***************************************************************************)
(* The load the experiments of multiproc put on a CPU: LINPACK             *)
(* (linpackc.new.c), which fills a matrix, factors it and solves a linear  *)
(* system, once with rolled loops and once with unrolled ones.             *)
(*                                                                         *)
(* The code computes in double precision.  Here a number is an element of  *)
(* the integers modulo a prime P, a field too, in which every sum, product *)
(* and quotient is exact: what is checked is the order of the computation, *)
(* its indices and its bounds, not its rounding.                           *)
(***************************************************************************)
EXTENDS Integers, Sequences, SequencesExt

CONSTANTS P,         \* the prime, which is odd
          MaxOrder,  \* the largest matrix that matgen fills
          AnyOrder   \* the order of which every matrix is tried

Field == 0 .. P - 1

\* All but 0 has an inverse, and so has the 16384 of matgen.
LinpackAssumption ==
  /\ P \in Nat \ {0, 1}
  /\ \A x \in Field \ {0} : \E y \in Field : (x * y) % P = 1
  /\ 16384 % P # 0
  /\ MaxOrder \in Nat \ {0} /\ AnyOrder \in Nat \ {0}

VARIABLES
  n,       \* the order of the matrix
  matrix,  \* what matgen fills in, column by column: matrix[j][i]
  a, b,    \* the matrix and the right hand side, which are overwritten
  ipvt, info,
  roll,    \* rolled loops first, then unrolled ones
  k,       \* the column dgefa or dgesl works on
  pc

vars == <<n, matrix, a, b, ipvt, info, roll, k, pc>>

----------------------------------------------------------------------------
(***************************************************************************)
(* Vectors.  The vectors of a call begin at index `from' of their columns. *)
(***************************************************************************)

Neg(x) == (P - x) % P
Inverse1(x) == CHOOSE y \in Field : (x * y) % P = 1
Abs(x) == IF x <= P - x THEN x ELSE P - x

\* The indices of a vector of m elements in the order the loops visit them:
\* one by one, or what exceeds a multiple of the width first, then in blocks.
Rolled(m) == [i \in 1 .. m |-> i - 1]
Blocks(from, m, width) ==
  LET blocks[i \in Nat] ==
        IF i >= m THEN <<>> ELSE [j \in 1 .. width |-> i + j - 1] \o blocks[i + width]
  IN blocks[from]
\* Mutant: the rest is left out if there is a block.
UnrolledNoRest(m, width) ==
  LET rest == m % width IN IF m < width THEN Rolled(rest) ELSE Blocks(rest, m, width)

Unrolled(m, width) ==
  LET rest == m % width
  IN Rolled(rest) \o (IF m < width THEN <<>> ELSE Blocks(rest, m, width))

Axpy(indices, da, dx, dy, from) ==
  LET add(y, i) == [y EXCEPT ![from + i] = (@ + da * dx[from + i]) % P]
  IN IF da = 0 THEN dy ELSE FoldLeft(add, dy, indices)
daxpy_r(m, da, dx, dy, from) == Axpy(Rolled(m), da, dx, dy, from)
daxpy_ur(m, da, dx, dy, from) == Axpy(Unrolled(m, 4), da, dx, dy, from)
daxpy(m, da, dx, dy, from) ==
  IF roll THEN daxpy_r(m, da, dx, dy, from) ELSE daxpy_ur(m, da, dx, dy, from)

Scal(indices, da, dx, from) ==
  LET scale(x, i) == [x EXCEPT ![from + i] = (da * @) % P]
  IN FoldLeft(scale, dx, indices)
dscal_r(m, da, dx, from) == Scal(Rolled(m), da, dx, from)
dscal_ur(m, da, dx, from) == Scal(Unrolled(m, 5), da, dx, from)
dscal(m, da, dx, from) ==
  IF roll THEN dscal_r(m, da, dx, from) ELSE dscal_ur(m, da, dx, from)

\* The first of the largest elements from `from' on.
idamax(dx, from) ==
  CHOOSE i \in from .. n - 1 :
    \A j \in from .. n - 1 : Abs(dx[j]) < Abs(dx[i]) \/ (Abs(dx[j]) = Abs(dx[i]) /\ i <= j)

Swap(x, i, j) == [x EXCEPT ![i] = x[j], ![j] = x[i]]

----------------------------------------------------------------------------
(***************************************************************************)
(* The benchmark.                                                          *)
(***************************************************************************)

Matrices(order) == [0 .. order - 1 -> [0 .. order - 1 -> Field]]

\* init = 3125 * init % 65536, for the matrix one column after the other.
Random(size) ==
  LET init[i \in 0 .. size] == IF i = 0 THEN 1325 ELSE (3125 * init[i - 1]) % 65536 IN init
Generated(order) ==
  LET init == Random(order * order)
  IN [j \in 0 .. order - 1 |-> [i \in 0 .. order - 1 |->
        ((init[j * order + i + 1] - 32768) * Inverse1(16384 % P)) % P]]

\* The right hand side is the sum of the columns.
Sum(f, m) ==
  LET s[j \in 0 .. m] == IF j = 0 THEN 0 ELSE (s[j - 1] + f[j - 1]) % P IN s[m]
RowSum(i) == Sum([j \in 0 .. n - 1 |-> matrix[j][i]], n)
RowSums == [i \in 0 .. n - 1 |-> RowSum(i)]

matgen == a' = matrix /\ b' = RowSums

Init ==
  /\ \/ n \in 1 .. MaxOrder /\ matrix = Generated(n)
     \/ n = AnyOrder /\ matrix \in Matrices(AnyOrder)
  /\ a = matrix /\ b = RowSums
  /\ ipvt = [i \in 0 .. n - 1 |-> 0]
  /\ info = 0 /\ roll = TRUE /\ k = 0 /\ pc = "dgefa"

\* One column of the elimination: the pivot goes up, the column becomes
\* multipliers, and the columns to the right are reduced.
Eliminate(l) ==
  LET t == Neg(Inverse1(a[k][l]))
      pivot == dscal(n - (k + 1), t, Swap(a[k], l, k), k + 1)
      reduce(column) ==
        daxpy(n - (k + 1), column[l], pivot, Swap(column, l, k), k + 1)
  IN [j \in 0 .. n - 1 |-> CASE j < k -> a[j] [] j = k -> pivot [] j > k -> reduce(a[j])]

dgefa ==
  /\ pc = "dgefa" /\ k < n - 1
  /\ LET l == idamax(a[k], k)
     IN /\ ipvt' = [ipvt EXCEPT ![k] = l]
        /\ IF a[k][l] # 0 THEN a' = Eliminate(l) /\ info' = info
           ELSE a' = a /\ info' = k
  /\ k' = k + 1
  /\ UNCHANGED <<n, matrix, b, roll, pc>>

dgefaEnd ==
  /\ pc = "dgefa" /\ k = n - 1
  /\ ipvt' = [ipvt EXCEPT ![n - 1] = n - 1]
  /\ info' = IF a[n - 1][n - 1] = 0 THEN n - 1 ELSE info
  /\ k' = 0 /\ pc' = "forward"
  /\ UNCHANGED <<n, matrix, a, b, roll>>

\* dgesl with job = 0: first l * y = b, then u * x = y.
Forward ==
  /\ pc = "forward" /\ k < n - 1
  /\ LET l == ipvt[k]
     IN b' = daxpy(n - (k + 1), b[l], a[k], Swap(b, l, k), k + 1)
  /\ k' = k + 1
  /\ UNCHANGED <<n, matrix, a, ipvt, info, roll, pc>>

ForwardEnd ==
  /\ pc = "forward" /\ k = n - 1
  /\ pc' = "backward"
  /\ UNCHANGED <<n, matrix, a, b, ipvt, info, roll, k>>

Backward ==
  /\ pc = "backward"
  /\ IF a[k][k] = 0 THEN UNCHANGED b   \* not a number from here on
     ELSE LET x == (b[k] * Inverse1(a[k][k])) % P
          IN b' = daxpy(k, Neg(x), a[k], [b EXCEPT ![k] = x], 0)
  /\ k' = IF k > 0 THEN k - 1 ELSE k
  /\ pc' = CASE a[k][k] = 0 -> "not a number"
             [] a[k][k] # 0 /\ k > 0 -> "backward"
             [] OTHER -> "solved"
  /\ UNCHANGED <<n, matrix, a, ipvt, info, roll>>

\* linpack: again, with unrolled loops.
Again ==
  /\ pc \in {"solved", "not a number"} /\ roll
  /\ matgen
  /\ roll' = FALSE /\ info' = 0 /\ k' = 0 /\ pc' = "dgefa"
  /\ UNCHANGED <<n, matrix, ipvt>>

Next == dgefa \/ dgefaEnd \/ Forward \/ ForwardEnd \/ Backward \/ Again

Spec == Init /\ [][Next]_vars

----------------------------------------------------------------------------
(***************************************************************************)
(* Properties.                                                             *)
(***************************************************************************)

\* A matrix is singular when a combination of its columns is zero.
Singular ==
  \E x \in [0 .. n - 1 -> Field] :
    /\ \E j \in 0 .. n - 1 : x[j] # 0
    /\ \A i \in 0 .. n - 1 : Sum([j \in 0 .. n - 1 |-> x[j] * matrix[j][i]], n) = 0

\* With rolled loops and with unrolled ones, dgefa and dgesl solve the system:
\* the right hand side is the sum of the columns, so every unknown is 1.  They
\* divide by zero only if the matrix is singular.
Solves ==
  /\ pc = "solved" => b = [i \in 0 .. n - 1 |-> 1]
  /\ (pc = "not a number" /\ n = AnyOrder) => Singular
============================================================================
