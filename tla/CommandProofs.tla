---------------------------- MODULE CommandProofs ----------------------------
(***************************************************************************)
(* Proofs about Command: that the array of a command keeps room for its     *)
(* NULL, and that the line shown for a command can be read back.            *)
(***************************************************************************)
EXTENDS CommandProperties, SequenceTheorems, WellFoundedInduction, TLAPS

\* Induction, for a set of numbers.
LEMMA Induction ==
  ASSUME NEW S \in SUBSET Nat, 0 \in S, \A n \in S : n + 1 \in S
  PROVE  S = Nat
<1> DEFINE Rest == Nat \ S
<1> SUFFICES ASSUME Rest # {} PROVE FALSE
  OBVIOUS
<1>1. PICK x \in Rest : \A y \in Rest : ~(<<y, x>> \in OpToRel(<, Nat))
  <2>1. Rest \in SUBSET Nat
    OBVIOUS
  <2> QED BY <2>1, NatLessThanWellFounded, WFMin
<1>2. x \in Nat /\ x # 0 /\ x - 1 \in Nat
  OBVIOUS
<1>3. <<x - 1, x>> \in OpToRel(<, Nat)
  BY <1>2 DEF OpToRel
<1>4. x - 1 \in S
  BY <1>1, <1>2, <1>3
<1> QED BY <1>2, <1>4

\* Induction up to a number.
LEMMA CountUp ==
  ASSUME NEW n \in Nat, NEW S, 0 \in S, \A i \in 0 .. n - 1 : i \in S => i + 1 \in S
  PROVE  n \in S
<1> DEFINE T == {i \in Nat : i <= n => i \in S}
<1>1. 0 \in T
  OBVIOUS
<1>2. ASSUME NEW i \in T PROVE i + 1 \in T
  OBVIOUS
<1> HIDE DEF T
<1>3. T = Nat
  <2>1. T \in SUBSET Nat
    BY DEF T
  <2> QED BY <1>1, <1>2, <2>1, Induction
<1> QED BY <1>3 DEF T

Steps(X, x0, F) ==
  \E f \in [Nat -> X] : f[0] = x0 /\ \A n \in Nat : f[n + 1] = F[n][f[n]]

\* A first value and a way to go on define a value for each number.
LEMMA Recursion ==
  ASSUME NEW X, NEW x0 \in X, NEW F \in [Nat -> [X -> X]]
  PROVE  Steps(X, x0, F)
<1> DEFINE Upto(n) == {f \in [0 .. n -> X] :
                         f[0] = x0 /\ \A i \in 0 .. n - 1 : f[i + 1] = F[i][f[i]]}
<1>1. ASSUME NEW m \in Nat, NEW n \in Nat, NEW f \in Upto(m), NEW g \in Upto(n)
      PROVE  \A i \in Nat : i <= m /\ i <= n => f[i] = g[i]
  <2> DEFINE S == {i \in Nat : i <= m /\ i <= n => f[i] = g[i]}
  <2>1. 0 \in S
    OBVIOUS
  <2>2. ASSUME NEW i \in S PROVE i + 1 \in S
    <3>1. CASE i + 1 <= m /\ i + 1 <= n
      <4>1. i \in 0 .. m - 1 /\ i \in 0 .. n - 1 /\ f[i] = g[i]
        BY <3>1
      <4> QED BY <4>1
    <3>2. CASE ~(i + 1 <= m /\ i + 1 <= n)
      BY <3>2
    <3> QED BY <3>1, <3>2
  <2> HIDE DEF S
  <2>3. S = Nat
    <3>1. S \in SUBSET Nat
      BY DEF S
    <3> QED BY <2>1, <2>2, <3>1, Induction
  <2> QED BY <2>3 DEF S
<1>2. \A n \in Nat : Upto(n) # {}
  <2> DEFINE S == {n \in Nat : Upto(n) # {}}
  <2>1. 0 \in S
    <3>1. [i \in 0 .. 0 |-> x0] \in Upto(0)
      OBVIOUS
    <3> QED BY <3>1
  <2>2. ASSUME NEW n \in S PROVE n + 1 \in S
    <3>1. PICK f : f \in Upto(n)
      OBVIOUS
    <3> DEFINE g == [i \in 0 .. n + 1 |-> IF i = n + 1 THEN F[n][f[n]] ELSE f[i]]
    <3>2. f \in [0 .. n -> X] /\ f[0] = x0 /\ \A i \in 0 .. n - 1 : f[i + 1] = F[i][f[i]]
      BY <3>1
    <3>3. F[n][f[n]] \in X
      BY <3>2
    <3>4. g \in [0 .. n + 1 -> X] /\ g[0] = x0
      BY <3>2, <3>3
    <3>5. \A i \in 0 .. n : g[i + 1] = F[i][g[i]]
      BY <3>2
    <3>6. n + 1 - 1 = n
      OBVIOUS
    <3>7. g \in Upto(n + 1)
      <4> HIDE DEF g
      <4> QED BY <3>4, <3>5, <3>6
    <3>8. n + 1 \in Nat
      OBVIOUS
    <3> HIDE DEF Upto
    <3> QED BY <3>7, <3>8
  <2> HIDE DEF S
  <2>3. S = Nat
    <3>1. S \in SUBSET Nat
      BY DEF S
    <3> QED BY <2>1, <2>2, <3>1, Induction
  <2> QED BY <2>3 DEF S
<1> DEFINE pick == [n \in Nat |-> CHOOSE f \in Upto(n) : TRUE]
           run == [n \in Nat |-> pick[n][n]]
<1>3. \A n \in Nat : pick[n] \in Upto(n)
  BY <1>2
<1>4. run \in [Nat -> X]
  <2>1. \A n \in Nat : pick[n][n] \in X
    <3> SUFFICES ASSUME NEW n \in Nat PROVE pick[n][n] \in X
      OBVIOUS
    <3>1. pick[n] \in [0 .. n -> X]
      BY <1>3
    <3> QED BY <3>1
  <2> QED BY <2>1
<1>5. run[0] = x0
  BY <1>3
<1>6. ASSUME NEW n \in Nat PROVE run[n + 1] = F[n][run[n]]
  <2> HIDE DEF pick
  <2>1. pick[n + 1] \in Upto(n + 1) /\ pick[n] \in Upto(n)
    BY <1>3
  <2>2. pick[n + 1][n] = pick[n][n]
    <3> HIDE DEF Upto
    <3> QED BY <1>1, <2>1
  <2>3. pick[n + 1][n + 1] = F[n][pick[n + 1][n]]
    BY <2>1
  <2> QED BY <2>2, <2>3
<1> HIDE DEF run
<1> QED BY <1>4, <1>5, <1>6 DEF Steps

-----------------------------------------------------------------------------
(* The array of a command.                                                 *)

Bit(a, b) == IF a % 2 = 1 \/ b % 2 = 1 THEN 1 ELSE 0

\* There is a function with the equation that defines Or: as many steps as a
\* are enough for a.
LEMMA OrExists ==
  \E f : f = [a \in Nat |-> [b \in Nat |->
               IF a = 0 THEN b ELSE 2 * f[a \div 2][b \div 2] + Bit(a, b)]]
<1> DEFINE X == [Nat -> [Nat -> Nat]]
           Step(g) == [a \in Nat |-> [b \in Nat |->
                        IF a = 0 THEN b ELSE 2 * g[a \div 2][b \div 2] + Bit(a, b)]]
           F == [n \in Nat |-> [g \in X |-> Step(g)]]
           x0 == [a \in Nat |-> [b \in Nat |-> b]]
<1>1. x0 \in X
  OBVIOUS
<1>2. ASSUME NEW g \in X PROVE Step(g) \in X
  <2>1. ASSUME NEW a \in Nat, NEW b \in Nat
        PROVE (IF a = 0 THEN b ELSE 2 * g[a \div 2][b \div 2] + Bit(a, b)) \in Nat
    <3>1. a \div 2 \in Nat /\ b \div 2 \in Nat
      OBVIOUS
    <3>2. g[a \div 2][b \div 2] \in Nat
      BY <3>1
    <3>3. Bit(a, b) \in Nat
      BY DEF Bit
    <3> HIDE DEF X
    <3> QED BY <3>2, <3>3
  <2> QED BY <2>1
<1>3. F \in [Nat -> [X -> X]]
  <2> HIDE DEF Step, X
  <2> QED BY <1>2
<1>4. PICK f \in [Nat -> X] : f[0] = x0 /\ \A n \in Nat : f[n + 1] = F[n][f[n]]
  <2> HIDE DEF F, X, x0
  <2>1. Steps(X, x0, F)
    BY <1>1, <1>3, Recursion
  <2> QED BY <2>1 DEF Steps
<1>5. ASSUME NEW n \in Nat, NEW a \in Nat, NEW b \in Nat
      PROVE  f[n + 1][a][b] = IF a = 0 THEN b ELSE 2 * f[n][a \div 2][b \div 2] + Bit(a, b)
  <2>1. f[n + 1] = Step(f[n])
    <3> HIDE DEF Step, X
    <3> QED BY <1>4
  <2> QED BY <2>1
<1>6. \A b \in Nat : f[0][0][b] = b
  BY <1>4
<1> HIDE DEF F, x0, X, Step
<1>7. \A n \in Nat : \A a \in 0 .. n : \A b \in Nat : f[n][a][b] = f[n + 1][a][b]
  <2> DEFINE Same(n) == \A a \in 0 .. n : \A b \in Nat : f[n][a][b] = f[n + 1][a][b]
             S == {n \in Nat : Same(n)}
  <2>1. 0 \in S
    BY <1>5, <1>6
  <2>2. ASSUME NEW n \in S PROVE n + 1 \in S
    <3> SUFFICES ASSUME NEW a \in 0 .. n + 1, NEW b \in Nat
                 PROVE  f[n + 1][a][b] = f[n + 1 + 1][a][b]
      OBVIOUS
    <3>1. CASE a = 0
      BY <3>1, <1>5
    <3>2. CASE a # 0
      <4>1. a \div 2 \in 0 .. n /\ b \div 2 \in Nat
        BY <3>2
      <4>2. f[n][a \div 2][b \div 2] = f[n + 1][a \div 2][b \div 2]
        BY <4>1
      <4>3. n \in Nat /\ n + 1 \in Nat /\ a \in Nat
        OBVIOUS
      <4> HIDE DEF S
      <4>4. \A m \in Nat :
              f[m + 1][a][b] = IF a = 0 THEN b ELSE 2 * f[m][a \div 2][b \div 2] + Bit(a, b)
        BY <4>3, <1>5
      <4>5. /\ f[n + 1][a][b] = 2 * f[n][a \div 2][b \div 2] + Bit(a, b)
            /\ f[n + 1 + 1][a][b] = 2 * f[n + 1][a \div 2][b \div 2] + Bit(a, b)
        BY <3>2, <4>3, <4>4
      <4> QED BY <4>2, <4>5
    <3> QED BY <3>1, <3>2
  <2> HIDE DEF S
  <2>3. S = Nat
    <3>1. S \in SUBSET Nat
      BY DEF S
    <3> QED BY <2>1, <2>2, <3>1, Induction
  <2> QED BY <2>3 DEF S
<1>8. \A n \in Nat : \A a \in 0 .. n : \A b \in Nat : f[n][a][b] = f[a][a][b]
  <2> DEFINE Same(n) == \A a \in 0 .. n : \A b \in Nat : f[n][a][b] = f[a][a][b]
             S == {n \in Nat : Same(n)}
  <2>1. 0 \in S
    OBVIOUS
  <2>2. ASSUME NEW n \in S PROVE n + 1 \in S
    <3> SUFFICES ASSUME NEW a \in 0 .. n + 1, NEW b \in Nat
                 PROVE  f[n + 1][a][b] = f[a][a][b]
      OBVIOUS
    <3>1. CASE a = n + 1
      BY <3>1
    <3>2. CASE a \in 0 .. n
      BY <3>2, <1>7
    <3> QED BY <3>1, <3>2
  <2> HIDE DEF S
  <2>3. S = Nat
    <3>1. S \in SUBSET Nat
      BY DEF S
    <3> QED BY <2>1, <2>2, <3>1, Induction
  <2> QED BY <2>3 DEF S
<1> DEFINE or == [a \in Nat |-> [b \in Nat |-> f[a][a][b]]]
           body == [a \in Nat |-> [b \in Nat |->
                     IF a = 0 THEN b ELSE 2 * or[a \div 2][b \div 2] + Bit(a, b)]]
<1>9. ASSUME NEW a \in Nat, NEW b \in Nat PROVE or[a][b] = body[a][b]
  <2>1. CASE a = 0
    BY <2>1, <1>6
  <2>2. CASE a # 0
    <3>1. a - 1 \in Nat /\ a - 1 + 1 = a /\ a \div 2 \in 0 .. a - 1 /\ b \div 2 \in Nat
          /\ a \div 2 \in Nat
      BY <2>2
    <3>2. f[a][a][b] = 2 * f[a - 1][a \div 2][b \div 2] + Bit(a, b)
      <4>1. PICK n \in Nat : n = a - 1 /\ n + 1 = a
        BY <3>1
      <4>2. f[n + 1][a][b] = 2 * f[n][a \div 2][b \div 2] + Bit(a, b)
        BY <1>5, <2>2
      <4> QED BY <4>1, <4>2
    <3>3. f[a - 1][a \div 2][b \div 2] = f[a \div 2][a \div 2][b \div 2]
      BY <1>8, <3>1
    <3> QED BY <2>2, <3>1, <3>2, <3>3
  <2> QED BY <2>1, <2>2
<1>10. or = body
  <2>1. \A a \in Nat : or[a] = body[a]
    BY <1>9
  <2> QED BY <2>1
<1> QED BY <1>10

LEMMA OrEquation ==
  ASSUME NEW a \in Nat, NEW b \in Nat
  PROVE  Or[a][b] = IF a = 0 THEN b ELSE 2 * Or[a \div 2][b \div 2] + Bit(a, b)
<1>1. Or = [n \in Nat |-> [m \in Nat |->
             IF n = 0 THEN m ELSE 2 * Or[n \div 2][m \div 2] + Bit(n, m)]]
  BY OrExists, Zenon DEF Or, Bit
<1> QED BY <1>1

LEMMA Halves ==
  ASSUME NEW n \in Nat PROVE n % 2 = n - 2 * (n \div 2) /\ n % 2 \in {0, 1}
OBVIOUS

\* Or sets no bit that neither number has, and clears none.
LEMMA OrBounds ==
  \A a, b \in Nat : Or[a][b] \in Nat /\ a <= Or[a][b] /\ Or[a][b] <= a + b
<1> DEFINE Bounded(a) == \A b \in Nat : Or[a][b] \in Nat /\ a <= Or[a][b] /\ Or[a][b] <= a + b
           S == {n \in Nat : \A a \in 0 .. n : Bounded(a)}
<1>1. Bounded(0)
  BY OrEquation
<1>2. ASSUME NEW n \in Nat, \A a \in 0 .. n : Bounded(a) PROVE Bounded(n + 1)
  <2> SUFFICES ASSUME NEW b \in Nat
               PROVE  /\ Or[n + 1][b] \in Nat
                      /\ n + 1 <= Or[n + 1][b] /\ Or[n + 1][b] <= n + 1 + b
    OBVIOUS
  <2> DEFINE p == (n + 1) \div 2
             q == b \div 2
             low == Or[p][q]
             r == (n + 1) % 2
             t == b % 2
  <2>1. p \in 0 .. n /\ q \in Nat
    OBVIOUS
  <2>2. low \in Nat /\ p <= low /\ low <= p + q
    BY <1>2, <2>1
  <2>3. Or[n + 1][b] = 2 * low + Bit(n + 1, b)
    BY OrEquation
  <2>4. n + 1 \in Nat
    OBVIOUS
  <2>5. r = n + 1 - 2 * p /\ t = b - 2 * q /\ r \in {0, 1} /\ t \in {0, 1}
    BY <2>4, Halves
  <2>6. Or[n + 1][b] = 2 * low + (IF r = 1 \/ t = 1 THEN 1 ELSE 0)
    BY <2>3 DEF Bit
  <2> HIDE DEF p, q, low, r, t
  <2>7. CASE r = 1 \/ t = 1
    <3>1. Or[n + 1][b] = 2 * low + 1
      BY <2>6, <2>7
    <3> QED BY <2>1, <2>2, <2>5, <2>7, <3>1
  <2>8. CASE ~(r = 1 \/ t = 1)
    <3>1. Or[n + 1][b] = 2 * low
      BY <2>2, <2>6, <2>8
    <3> QED BY <2>1, <2>2, <2>5, <2>8, <3>1
  <2> QED BY <2>7, <2>8
<1> HIDE DEF Bounded
<1>3. 0 \in S
  BY <1>1
<1>4. ASSUME NEW n \in S PROVE n + 1 \in S
  <2>1. \A a \in 0 .. n + 1 : a = n + 1 \/ a \in 0 .. n
    OBVIOUS
  <2>2. \A a \in 0 .. n + 1 : Bounded(a)
    BY <1>2, <2>1
  <2> QED BY <2>2
<1> HIDE DEF S
<1>5. S = Nat
  <2>1. S \in SUBSET Nat
    BY DEF S
  <2> QED BY <1>3, <1>4, <2>1, Induction
<1>6. \A a \in Nat : Bounded(a)
  BY <1>5 DEF S
<1> QED BY <1>6 DEF Bounded

LEMMA SpreadBounds ==
  ASSUME NEW n \in Nat, NEW i \in {1, 2, 4}
  PROVE  Spread(n, i) \in Nat /\ n <= Spread(n, i) /\ Spread(n, i) <= 2 * n
<1> DEFINE part == n \div 2 ^ i
<1>1. part \in Nat /\ part <= n
  <2>1. /\ n \div 2 \in Nat /\ n \div 2 <= n /\ n \div 4 \in Nat /\ n \div 4 <= n
        /\ n \div 16 \in Nat /\ n \div 16 <= n
    OBVIOUS
  <2>2. 2 ^ 1 = 2 /\ 2 ^ 2 = 4 /\ 2 ^ 4 = 16
    OBVIOUS
  <2>3. part \in {n \div 2, n \div 4, n \div 16}
    BY <2>2
  <2> QED BY <2>1, <2>3
<1>2. Spread(n, i) = IF i < SizeofSize THEN Or[n][part] ELSE n
  BY DEF Spread
<1> HIDE DEF part
<1>3. Or[n][part] \in Nat /\ n <= Or[n][part] /\ Or[n][part] <= n + part
  BY <1>1, OrBounds
<1> QED BY <1>1, <1>2, <1>3

\* A size that is large enough.
LEMMA NextPower ==
  ASSUME CommandAssumption, NEW n \in 0 .. MaxArgs
  PROVE  LET p == _next_powerof2(n) IN p \in Nat /\ n <= p /\ p + 2 <= SizeMax
<1> DEFINE s == Spread(Spread(Spread(Wrap(n - 1), 1), 2), 4)
<1>1. SizeMax \in Nat /\ MaxArgs \in Nat /\ 8 * MaxArgs + 2 <= SizeMax
  BY DEF CommandAssumption
<1>2. CASE n # 0 /\ And[n][n - 1] = 0
  BY <1>1, <1>2 DEF _next_powerof2
<1>3. CASE n # 0 /\ And[n][n - 1] # 0
  <2>1. Wrap(n - 1) = n - 1
    BY <1>1, <1>3 DEF Wrap
  <2>2. s \in Nat /\ n - 1 <= s /\ s <= 8 * (n - 1)
    <3> DEFINE t == Spread(n - 1, 1)
               u == Spread(t, 2)
    <3>1. t \in Nat /\ n - 1 <= t /\ t <= 2 * (n - 1)
      BY <1>3, SpreadBounds
    <3>2. u \in Nat /\ t <= u /\ u <= 2 * t
      BY <3>1, SpreadBounds
    <3>3. Spread(u, 4) \in Nat /\ u <= Spread(u, 4) /\ Spread(u, 4) <= 2 * u
      BY <3>2, SpreadBounds
    <3>4. s = Spread(u, 4)
      BY <2>1
    <3> HIDE DEF t, u, s
    <3> QED BY <3>1, <3>2, <3>3, <3>4
  <2>3. s + 1 <= SizeMax - 2 /\ n <= s + 1
    BY <1>1, <1>3, <2>2
  <2>4. _next_powerof2(n) = Wrap(s + 1)
    BY <1>3 DEF _next_powerof2
  <2> HIDE DEF s
  <2>5. Wrap(s + 1) = s + 1
    BY <1>1, <2>2, <2>3 DEF Wrap
  <2> QED BY <1>1, <2>2, <2>3, <2>4, <2>5
<1>4. CASE n = 0
  <2>1. Wrap(n - 1) = SizeMax
    BY <1>1, <1>4 DEF Wrap
  <2>2. \A i \in {1, 2, 4} : Spread(SizeMax, i) = SizeMax
    <3>1. 2 ^ 1 = 2 /\ 2 ^ 2 = 4 /\ 2 ^ 4 = 16
      OBVIOUS
    <3>2. \A p \in {2, 4, 16} : Or[SizeMax][SizeMax \div p] = SizeMax
      BY DEF CommandAssumption
    <3> QED BY <3>1, <3>2 DEF Spread
  <2>3. s = SizeMax
    BY <2>1, <2>2
  <2>4. _next_powerof2(n) = Wrap(SizeMax + 1)
    BY <1>4, <2>3 DEF _next_powerof2
  <2>5. Wrap(SizeMax + 1) = 0
    BY <1>1 DEF Wrap
  <2>6. 2 <= SizeMax
    BY <1>1
  <2> QED BY <1>1, <1>4, <2>4, <2>5, <2>6
<1> QED BY <1>1, <1>2, <1>3, <1>4

\* The array has been allocated with room for what is in it, or not at all.
ArrayInv ==
  /\ cmd \in [_len : 0 .. MaxArgs, _cap : 0 .. SizeMax]
  /\ cmd._len < cmd._cap \/ cmd = [_len |-> 0, _cap |-> 0]

\* cmdaddv and cmdclr leave room for the NULL that execvp looks for, however often and
\* with however many arguments they are called.
THEOREM RoomIsKept == Spec_cmd => []ArgvRoom
<1>0. MaxArgs \in Nat /\ SizeMax \in Nat /\ Additions \subseteq Nat
  BY CommandAssumption DEF CommandAssumption
<1>1. Init_cmd => ArrayInv
  BY <1>0 DEF Init_cmd, ArrayInv
<1>2. ArrayInv /\ [Next_cmd]_vars_cmd => ArrayInv'
  <2> SUFFICES ASSUME ArrayInv, [Next_cmd]_vars_cmd PROVE ArrayInv'
    OBVIOUS
  <2>1. ASSUME NEW n \in Additions, cmdaddv(n) PROVE ArrayInv'
    <3> DEFINE p == _next_powerof2(cmd._len + n)
    <3>1. n \in Nat /\ MaxArgs \in Nat /\ SizeMax \in Nat /\ cmd._len + n \in 0 .. MaxArgs
      BY <1>0, <2>1 DEF ArrayInv, cmdaddv
    <3>2. p \in Nat /\ cmd._len + n <= p /\ p + 2 <= SizeMax
      BY <3>1, NextPower, CommandAssumption
    <3> HIDE DEF p
    <3>3. Wrap(p + 2) = p + 2
      BY <3>1, <3>2 DEF Wrap
    <3>4. CASE cmd._len + n >= cmd._cap
      <4>1. cmd' = [_len |-> cmd._len + n, _cap |-> p + 2]
        BY <2>1, <3>3, <3>4 DEF cmdaddv, p
      <4> QED BY <3>1, <3>2, <4>1 DEF ArrayInv
    <3>5. CASE ~(cmd._len + n >= cmd._cap)
      <4>1. cmd' = [cmd EXCEPT !._len = @ + n]
        BY <2>1, <3>5 DEF cmdaddv
      <4> QED BY <3>1, <3>5, <4>1 DEF ArrayInv
    <3> QED BY <3>4, <3>5
  <2>2. ASSUME cmdclr PROVE ArrayInv'
    BY <1>0, <2>2 DEF cmdclr, ArrayInv
  <2>3. ASSUME UNCHANGED cmd PROVE ArrayInv'
    BY <2>3 DEF ArrayInv
  <2>4. ASSUME NEW words \in Commands, cmdput(words) PROVE ArrayInv'
    BY <2>3, <2>4 DEF cmdput
  <2> QED BY <2>1, <2>2, <2>3, <2>4 DEF Next_cmd, vars_cmd
<1>3. ArrayInv => ArgvRoom
  BY DEF ArrayInv, ArgvRoom
<1> QED BY <1>1, <1>2, <1>3, PTL DEF Spec_cmd

-----------------------------------------------------------------------------
(* The line that is shown for a command.                                   *)

\* What FlattenSeq returns is put together part by part.
LEMMA FlattenSteps ==
  ASSUME NEW C, NEW parts \in Seq(Seq(C))
  PROVE  \E f \in [0 .. Len(parts) -> Seq(C)] :
           /\ f[0] = <<>> /\ f[Len(parts)] = FlattenSeq(parts)
           /\ \A i \in 1 .. Len(parts) : f[i] = f[i - 1] \o parts[i]
<1> DEFINE n == Len(parts)
           X == Seq(C)
           F == [k \in Nat |-> [s \in X |-> IF k < n THEN s \o parts[k + 1] ELSE s]]
<1>1. n \in Nat /\ \A i \in 1 .. n : parts[i] \in X
  OBVIOUS
<1>2. F \in [Nat -> [X -> X]]
  <2>1. \A k \in Nat, s \in X : (IF k < n THEN s \o parts[k + 1] ELSE s) \in X
    BY <1>1
  <2> HIDE DEF X, n
  <2> QED BY <2>1
<1>3. <<>> \in X
  OBVIOUS
<1>4. PICK f \in [Nat -> X] : f[0] = <<>> /\ \A k \in Nat : f[k + 1] = F[k][f[k]]
  <2> DEFINE e == <<>>
  <2> HIDE DEF F, X, n, e
  <2>1. e \in X
    BY <1>3 DEF e
  <2>2. Steps(X, e, F)
    BY <1>2, <2>1, Recursion
  <2> QED BY <2>2 DEF e, Steps
<1>5. ASSUME NEW i \in 1 .. n PROVE f[i] = f[i - 1] \o parts[i]
  <2> HIDE DEF X, n, F
  <2>1. i - 1 \in Nat /\ i - 1 < n /\ i - 1 + 1 = i
    BY <1>1
  <2>2. f[i] = F[i - 1][f[i - 1]] /\ f[i - 1] \in X
    BY <1>4, <2>1
  <2>3. F[i - 1][f[i - 1]] = f[i - 1] \o parts[i]
    BY <2>1, <2>2 DEF F
  <2> QED BY <2>2, <2>3
<1> DEFINE g == [i \in 0 .. n |-> f[i]]
<1>6. /\ g \in [0 .. n -> X] /\ g[0] = <<>> /\ g[n] = f[n]
      /\ \A i \in 1 .. n : g[i] = g[i - 1] \o parts[i]
  <2> HIDE DEF X, n
  <2>1. g \in [0 .. n -> X] /\ g[0] = <<>> /\ g[n] = f[n]
    BY <1>1, <1>4
  <2>2. ASSUME NEW i \in 1 .. n PROVE g[i] = g[i - 1] \o parts[i]
    <3>1. i \in 0 .. n /\ i - 1 \in 0 .. n
      BY <1>1
    <3> QED BY <1>5, <3>1
  <2> HIDE DEF g
  <2> QED BY <2>1, <2>2
<1>7. f[n] = FlattenSeq(parts)
  <2>1. CASE n = 0
    BY <1>4, <2>1 DEF FlattenSeq
  <2>2. CASE n # 0
    <3> DEFINE Whole(h) == h = [i \in 1 .. n |->
                 IF i = 1 THEN parts[i] ELSE h[i - 1] \o parts[i]]
               flat == CHOOSE h : Whole(h)
               all == [i \in 1 .. n |-> f[i]]
    <3>1. Whole(all)
      <4>1. ASSUME NEW i \in 1 .. n
            PROVE  all[i] = IF i = 1 THEN parts[i] ELSE all[i - 1] \o parts[i]
        <5>1. CASE i = 1
          <6>1. f[1] = f[0] \o parts[1]
            <7>1. 1 \in 1 .. n /\ 1 - 1 = 0
              BY <1>1, <2>2
            <7> QED BY <1>5, <7>1
          <6>2. <<>> \o parts[1] = parts[1]
            BY <1>1, <5>1, ConcatEmptySeq
          <6> QED BY <1>4, <5>1, <6>1, <6>2
        <5>2. CASE i # 1
          <6>1. i - 1 \in 1 .. n
            BY <1>1, <5>2
          <6> QED BY <1>5, <5>2, <6>1
        <5> QED BY <5>1, <5>2
      <4> HIDE DEF n
      <4> QED BY <4>1
    <3>2. Whole(flat)
      <4> HIDE DEF Whole, all
      <4> QED BY <3>1
    <3>3. \A i \in 1 .. n : flat[i] = IF i = 1 THEN parts[i] ELSE flat[i - 1] \o parts[i]
      <4> HIDE DEF flat, n
      <4> QED BY <3>2
    <3>4. FlattenSeq(parts) = flat[n]
      BY <2>2 DEF FlattenSeq
    <3> HIDE DEF flat
    <3> HIDE DEF n
    <3> DEFINE S == {i \in Nat : i \in 1 .. n => flat[i] = f[i]}
    <3>5. 0 \in S
      OBVIOUS
    <3>6. ASSUME NEW i \in S, i + 1 \in 1 .. n PROVE flat[i + 1] = f[i + 1]
      <4> DEFINE j == i + 1
      <4>1. j \in 1 .. n /\ j - 1 = i /\ i \in Nat
        BY <1>1, <3>6
      <4>2. i # 0 => i \in 1 .. n /\ flat[i] = f[i]
        BY <1>1, <3>6
      <4>3. i = 0 <=> j = 1
        BY <4>1
      <4> HIDE DEF j
      <4>4. f[j] = f[i] \o parts[j]
        BY <1>5, <4>1
      <4>5. CASE i = 0
        <5>1. flat[j] = parts[j]
          BY <3>3, <4>1, <4>3, <4>5
        <5>2. <<>> \o parts[j] = parts[j]
          BY <1>1, <4>1, ConcatEmptySeq
        <5> QED BY <1>4, <4>4, <4>5, <5>1, <5>2 DEF j
      <4>6. CASE i # 0
        <5>1. flat[j] = flat[i] \o parts[j]
          BY <3>3, <4>1, <4>3, <4>6
        <5> QED BY <4>2, <4>4, <4>6, <5>1 DEF j
      <4> QED BY <4>5, <4>6
    <3>7. \A i \in S : i + 1 \in S
      BY <3>6
    <3> HIDE DEF S
    <3>8. S = Nat
      <4>1. S \in SUBSET Nat
        BY DEF S
      <4> QED BY <3>5, <3>7, <4>1, Induction
    <3>9. flat[n] = f[n]
      <4>1. n \in 1 .. n /\ n \in S
        BY <1>1, <2>2, <3>8
      <4> QED BY <4>1 DEF S
    <3> QED BY <3>4, <3>9
  <2> QED BY <2>1, <2>2
<1> HIDE DEF g
<1> QED BY <1>6, <1>7

Quotes == {"", "'", "\""}
ReaderStates == [quote : Quotes, word : Seq(Chars), words : Seq(Seq(Chars))]
In(q, w, ws) == [quote |-> q, word |-> w, words |-> ws]
Fresh == In("", <<>>, <<>>)

\* A reader that is in state r before the text is in state s after it.
Run(f, text) ==
  /\ f \in [0 .. Len(text) -> ReaderStates]
  /\ \A i \in 1 .. Len(text) : f[i] = ReadChar(f[i - 1], text[i])

Reads(r, text, s) == \E f : Run(f, text) /\ f[0] = r /\ f[Len(text)] = s

LEMMA InStates ==
  ASSUME NEW q \in Quotes, NEW w \in Seq(Chars), NEW ws \in Seq(Seq(Chars))
  PROVE  In(q, w, ws) \in ReaderStates
BY DEF In, ReaderStates

\* What ReadChar does, by the quote that the reader is in.
LEMMA CharRead ==
  ASSUME NEW w, NEW ws
  PROVE  /\ ReadChar(In("'", w, ws), "'") = In("", w, ws)
         /\ ReadChar(In("\"", w, ws), "\"") = In("", w, ws)
         /\ ReadChar(In("\"", w, ws), "'") = In("\"", Append(w, "'"), ws)
         /\ ReadChar(In("", w, ws), "'") = In("'", w, ws)
         /\ ReadChar(In("", w, ws), "\"") = In("\"", w, ws)
BY DEF ReadChar, In

LEMMA KeptInQuotes ==
  ASSUME NEW w, NEW ws, NEW ch, ch # "'"
  PROVE  ReadChar(In("'", w, ws), ch) = In("'", Append(w, ch), ws)
BY DEF ReadChar, In

LEMMA KeptOutside ==
  ASSUME NEW w, NEW ws, NEW ch, ch \notin {"'", "\"", " ", "\n"}
  PROVE  ReadChar(In("", w, ws), ch) = In("", Append(w, ch), ws)
BY DEF ReadChar, In

LEMMA WordEnds ==
  ASSUME NEW w, NEW ws, NEW ch \in {" ", "\n"}
  PROVE  ReadChar(In("", w, ws), ch) =
           In("", <<>>, IF w = <<>> THEN ws ELSE Append(ws, w))
BY DEF ReadChar, In

LEMMA ReadsNothing ==
  ASSUME NEW r \in ReaderStates PROVE Reads(r, <<>>, r)
<1> DEFINE f == [i \in 0 .. 0 |-> r]
<1>1. Run(f, <<>>) /\ f[0] = r /\ Len(<<>>) = 0
  BY DEF Run
<1> HIDE DEF f
<1> QED BY <1>1 DEF Reads

LEMMA ReadsOne ==
  ASSUME NEW r \in ReaderStates, NEW s \in ReaderStates, NEW ch \in Chars, s = ReadChar(r, ch)
  PROVE  Reads(r, <<ch>>, s)
<1> DEFINE f == [i \in 0 .. 1 |-> IF i = 0 THEN r ELSE s]
<1>1. Len(<<ch>>) = 1 /\ <<ch>>[1] = ch
  OBVIOUS
<1>2. f \in [0 .. 1 -> ReaderStates] /\ f[0] = r /\ f[1] = s
  OBVIOUS
<1> HIDE DEF f
<1>3. Run(f, <<ch>>)
  BY <1>1, <1>2 DEF Run
<1> QED BY <1>1, <1>2, <1>3 DEF Reads

LEMMA ReadsBoth ==
  ASSUME NEW r, NEW s, NEW t, NEW u \in Seq(Chars), NEW v \in Seq(Chars),
         Reads(r, u, s), Reads(s, v, t)
  PROVE  Reads(r, u \o v, t)
<1>1. PICK f : Run(f, u) /\ f[0] = r /\ f[Len(u)] = s
  BY DEF Reads
<1>2. PICK g : Run(g, v) /\ g[0] = s /\ g[Len(v)] = t
  BY DEF Reads
<1> DEFINE m == Len(u)
           n == Len(v)
           h == [i \in 0 .. m + n |-> IF i <= m THEN f[i] ELSE g[i - m]]
<1>3. m \in Nat /\ n \in Nat
  OBVIOUS
<1>4. /\ Len(u \o v) = m + n
      /\ \A i \in 1 .. m + n : (u \o v)[i] = IF i <= m THEN u[i] ELSE v[i - m]
  BY ConcatProperties
<1>5. /\ f \in [0 .. m -> ReaderStates] /\ \A i \in 1 .. m : f[i] = ReadChar(f[i - 1], u[i])
      /\ g \in [0 .. n -> ReaderStates] /\ \A i \in 1 .. n : g[i] = ReadChar(g[i - 1], v[i])
      /\ f[m] = g[0]
  BY <1>1, <1>2 DEF Run
<1> HIDE DEF m, n
<1>6. h \in [0 .. m + n -> ReaderStates]
  <2>1. ASSUME NEW i \in 0 .. m + n PROVE (IF i <= m THEN f[i] ELSE g[i - m]) \in ReaderStates
    <3>1. CASE i <= m
      BY <1>3, <1>5, <3>1
    <3>2. CASE ~(i <= m)
      <4>1. i - m \in 0 .. n
        BY <1>3, <3>2
      <4> QED BY <1>5, <3>2, <4>1
    <3> QED BY <3>1, <3>2
  <2> QED BY <2>1
<1>7. ASSUME NEW i \in 1 .. m + n PROVE h[i] = ReadChar(h[i - 1], (u \o v)[i])
  <2>1. i \in 0 .. m + n /\ i - 1 \in 0 .. m + n
    BY <1>3
  <2>2. CASE i <= m
    <3>1. i \in 1 .. m /\ i - 1 <= m
      BY <1>3, <2>2
    <3> QED BY <1>4, <1>5, <2>1, <2>2, <3>1
  <2>3. CASE i = m + 1
    <3>1. 1 \in 1 .. n /\ i - m = 1 /\ i - 1 = m /\ ~(i <= m) /\ m <= m /\ i - 1 <= m
      BY <1>3, <2>3
    <3>2. h[i] = g[1] /\ h[i - 1] = g[0] /\ (u \o v)[i] = v[1]
      BY <1>4, <1>5, <2>1, <3>1
    <3>3. g[1] = ReadChar(g[0], v[1])
      BY <1>5, <3>1
    <3> QED BY <3>2, <3>3
  <2>4. CASE i > m + 1
    <3> DEFINE j == i - m
    <3>1. j \in 1 .. n /\ i - 1 - m = j - 1 /\ ~(i <= m) /\ ~(i - 1 <= m)
      BY <1>3, <2>4
    <3>2. h[i] = g[j] /\ h[i - 1] = g[j - 1] /\ (u \o v)[i] = v[j]
      BY <1>4, <2>1, <3>1
    <3> HIDE DEF j
    <3>3. g[j] = ReadChar(g[j - 1], v[j])
      BY <1>5, <3>1
    <3> QED BY <3>2, <3>3
  <2>5. i <= m \/ i = m + 1 \/ i > m + 1
    BY <1>3
  <2> HIDE DEF h
  <2> QED BY <2>2, <2>3, <2>4, <2>5
<1>8. h[0] = f[0] /\ h[m + n] = g[n]
  <2>1. 0 \in 0 .. m + n /\ m + n \in 0 .. m + n /\ 0 <= m
    BY <1>3
  <2>2. CASE n = 0
    BY <1>3, <1>5, <2>1, <2>2
  <2>3. CASE n # 0
    <3> DEFINE k == m + n
    <3>1. ~(k <= m) /\ k - m = n /\ k \in 0 .. m + n
      BY <1>3, <2>3
    <3>2. h[0] = f[0]
      BY <2>1
    <3> HIDE DEF k
    <3>3. h[k] = g[n]
      BY <3>1
    <3> QED BY <3>2, <3>3 DEF k
  <2> QED BY <2>2, <2>3
<1> HIDE DEF h
<1>9. Run(h, u \o v)
  BY <1>4, <1>6, <1>7 DEF Run
<1> QED BY <1>1, <1>2, <1>4, <1>8, <1>9 DEF Reads, m, n

\* A text is read part by part.
LEMMA ReadsParts ==
  ASSUME NEW parts \in Seq(Seq(Chars)), NEW g \in [0 .. Len(parts) -> ReaderStates],
         \A i \in 1 .. Len(parts) : Reads(g[i - 1], parts[i], g[i])
  PROVE  /\ FlattenSeq(parts) \in Seq(Chars)
         /\ Reads(g[0], FlattenSeq(parts), g[Len(parts)])
<1> DEFINE n == Len(parts)
<1>1. n \in Nat /\ \A i \in 1 .. n : parts[i] \in Seq(Chars)
  OBVIOUS
<1>2. PICK f \in [0 .. n -> Seq(Chars)] :
        /\ f[0] = <<>> /\ f[n] = FlattenSeq(parts)
        /\ \A i \in 1 .. n : f[i] = f[i - 1] \o parts[i]
  BY FlattenSteps
<1>3. g \in [0 .. n -> ReaderStates] /\ \A i \in 1 .. n : Reads(g[i - 1], parts[i], g[i])
  OBVIOUS
<1> HIDE DEF n
<1> DEFINE S == {i \in 0 .. n : Reads(g[0], f[i], g[i])}
<1>4. 0 \in S
  <2>1. g[0] \in ReaderStates /\ 0 \in 0 .. n
    BY <1>1, <1>3
  <2>2. Reads(g[0], f[0], g[0])
    BY <1>2, <2>1, ReadsNothing
  <2> QED BY <2>1, <2>2
<1>5. ASSUME NEW i \in 0 .. n - 1, i \in S PROVE i + 1 \in S
  <2> DEFINE j == i + 1
  <2>1. j \in 1 .. n /\ j - 1 = i /\ i \in 0 .. n /\ j \in 0 .. n
    BY <1>1
  <2>2. Reads(g[0], f[i], g[i])
    BY <1>5
  <2> HIDE DEF j
  <2>3. f[i] \in Seq(Chars) /\ parts[j] \in Seq(Chars) /\ f[j] = f[i] \o parts[j]
    BY <1>1, <1>2, <2>1
  <2>4. Reads(g[i], parts[j], g[j])
    BY <1>3, <2>1
  <2>5. Reads(g[0], f[i] \o parts[j], g[j])
    BY <2>2, <2>3, <2>4, ReadsBoth
  <2>6. Reads(g[0], f[j], g[j])
    BY <2>3, <2>5
  <2>7. j \in S
    BY <2>1, <2>6
  <2> QED BY <2>7 DEF j
<1>6. n \in S
  <2> HIDE DEF S
  <2> QED BY <1>1, <1>4, <1>5, CountUp
<1>8. Reads(g[0], f[n], g[n])
  BY <1>6
<1>9. f[n] \in Seq(Chars)
  BY <1>1, <1>2
<1> QED BY <1>2, <1>8, <1>9 DEF n

\* ShellWords returns what any run of the reader has read.
LEMMA ShellReads ==
  ASSUME NEW text \in Seq(Chars), NEW s, Reads(Fresh, text, s)
  PROVE  ShellWords(text) = s.words
<1> DEFINE n == Len(text)
           Whole(h) == h = [i \in 0 .. n |-> IF i = 0 THEN Fresh ELSE ReadChar(h[i - 1], text[i])]
           read == CHOOSE h : Whole(h)
<1>1. n \in Nat
  OBVIOUS
<1>2. PICK f : Run(f, text) /\ f[0] = Fresh /\ f[n] = s
  BY DEF Reads
<1>3. f \in [0 .. n -> ReaderStates] /\ \A i \in 1 .. n : f[i] = ReadChar(f[i - 1], text[i])
  BY <1>2 DEF Run
<1>4. ShellWords(text) = read[n].words
  BY DEF ShellWords, Fresh, In
<1> HIDE DEF n
<1>5. Whole(f)
  <2>1. ASSUME NEW i \in 0 .. n
        PROVE  f[i] = IF i = 0 THEN Fresh ELSE ReadChar(f[i - 1], text[i])
    <3>1. i # 0 => i \in 1 .. n
      BY <1>1
    <3> QED BY <1>2, <1>3, <3>1
  <2> QED BY <1>3, <2>1
<1>6. Whole(read)
  <2> HIDE DEF Whole
  <2> QED BY <1>5
<1> HIDE DEF read
<1>7. \A i \in 0 .. n : read[i] = IF i = 0 THEN Fresh ELSE ReadChar(read[i - 1], text[i])
  BY <1>6
<1> DEFINE S == {i \in 0 .. n : read[i] = f[i]}
<1>8. 0 \in S
  <2>1. 0 \in 0 .. n
    BY <1>1
  <2> QED BY <1>2, <1>7, <2>1
<1>9. ASSUME NEW i \in 0 .. n - 1, i \in S PROVE i + 1 \in S
  <2> DEFINE j == i + 1
  <2>1. j \in 1 .. n /\ j \in 0 .. n /\ j # 0 /\ j - 1 = i
    BY <1>1
  <2>2. read[i] = f[i]
    BY <1>9
  <2> HIDE DEF j
  <2>3. read[j] = ReadChar(read[i], text[j]) /\ f[j] = ReadChar(f[i], text[j])
    BY <1>3, <1>7, <2>1
  <2>4. j \in S
    BY <2>1, <2>2, <2>3
  <2> QED BY <2>4 DEF j
<1>10. n \in S
  <2> HIDE DEF S
  <2> QED BY <1>1, <1>8, <1>9, CountUp
<1>12. read[n] = f[n]
  BY <1>10
<1> QED BY <1>2, <1>4, <1>12

\* The first i characters of a word, one after the other.
GrowsTo(f, w) ==
  /\ f[0] = <<>> /\ f[Len(w)] = w
  /\ \A i \in 1 .. Len(w) : f[i] = Append(f[i - 1], w[i])

LEMMA PrefixSteps ==
  ASSUME NEW D, NEW w \in Seq(D)
  PROVE  \E f \in [0 .. Len(w) -> Seq(D)] : GrowsTo(f, w)
<1> DEFINE n == Len(w)
           pre == [i \in 0 .. n |-> SubSeq(w, 1, i)]
<1>1. n \in Nat /\ \A i \in 1 .. n : w[i] \in D
  OBVIOUS
<1>2. ASSUME NEW i \in 0 .. n PROVE SubSeq(w, 1, i) \in Seq(D)
  <2>1. \A j \in 1 .. i : w[j] \in D
    BY <1>1
  <2> HIDE DEF n
  <2> QED BY <1>1, <2>1, SubSeqProperties
<1>3. SubSeq(w, 1, 0) = <<>> /\ SubSeq(w, 1, n) = w
  BY SubSeqEmpty, SubSeqFull
<1>4. ASSUME NEW i \in 1 .. n PROVE SubSeq(w, 1, i) = Append(SubSeq(w, 1, i - 1), w[i])
  <2>1. 1 \in 1 .. n /\ i \in 1 .. n /\ i - 1 \in 0 .. n
    BY <1>1
  <2>2. SubSeq(w, 1, i) = SubSeq(w, 1, i - 1) \o <<w[i]>>
    BY <2>1, SubSeqRecursiveSecond
  <2>3. SubSeq(w, 1, i - 1) \in Seq(D)
    BY <1>2, <2>1
  <2> QED BY <1>1, <2>2, <2>3, AppendIsConcat
<1> HIDE DEF n
<1>5. pre \in [0 .. n -> Seq(D)] /\ pre[0] = <<>> /\ pre[n] = w
  BY <1>1, <1>2, <1>3
<1>6. ASSUME NEW i \in 1 .. n PROVE pre[i] = Append(pre[i - 1], w[i])
  <2>1. i \in 0 .. n /\ i - 1 \in 0 .. n
    BY <1>1
  <2> QED BY <1>4, <2>1
<1> HIDE DEF pre
<1>7. /\ pre \in [0 .. n -> Seq(D)] /\ pre[0] = <<>> /\ pre[n] = w
      /\ \A i \in 1 .. n : pre[i] = Append(pre[i - 1], w[i])
  BY <1>5, <1>6
<1> QED BY <1>7 DEF n, GrowsTo

LEMMA Special ==
  /\ "'" \in Chars /\ "\"" \in Chars /\ " " \in Chars /\ "\n" \in Chars
  /\ "" \in Quotes /\ "'" \in Quotes /\ "\"" \in Quotes /\ <<>> \in Seq(Chars)
<1>1. {"'", "\"", " ", "\n"} \subseteq Chars
  BY CommandAssumption, Zenon DEF CommandAssumption
<1>2. "'" \in Chars /\ "\"" \in Chars /\ " " \in Chars /\ "\n" \in Chars
  BY <1>1
<1>3. "" \in Quotes /\ "'" \in Quotes /\ "\"" \in Quotes
  BY DEF Quotes
<1>4. <<>> \in Seq(Chars)
  OBVIOUS
<1> QED BY <1>2, <1>3, <1>4, Zenon

LEMMA Tuples ==
  ASSUME NEW S, NEW a \in S, NEW b \in S
  PROVE  /\ <<a>> \in Seq(S)
         /\ <<a, b, a, b, a>> \in Seq(S) /\ Len(<<a, b, a, b, a>>) = 5
         /\ \A i \in 1 .. 5 : <<a, b, a, b, a>>[i] = IF i \in {1, 3, 5} THEN a ELSE b
OBVIOUS

LEMMA EscapedIs ==
  /\ Escaped \in Seq(Chars) /\ Len(Escaped) = 5
  /\ Escaped[1] = "'" /\ Escaped[2] = "\"" /\ Escaped[3] = "'" /\ Escaped[4] = "\""
  /\ Escaped[5] = "'"
<1> DEFINE a == "'"
           b == "\""
<1>1. a \in Chars /\ b \in Chars
  BY Special
<1>2. Escaped = <<a, b, a, b, a>>
  BY DEF Escaped
<1> HIDE DEF a, b
<1>3. /\ Escaped \in Seq(Chars) /\ Len(Escaped) = 5
      /\ Escaped[1] = a /\ Escaped[2] = b /\ Escaped[3] = a /\ Escaped[4] = b
      /\ Escaped[5] = a
  BY <1>1, <1>2, Tuples
<1> QED BY <1>3 DEF a, b

\* Within single quotes, what Quoted puts there for a character stands for it.
LEMMA QuotedChar ==
  ASSUME NEW w \in Seq(Chars), NEW ws \in Seq(Seq(Chars)), NEW ch \in Chars, ch # "'"
  PROVE  Reads(In("'", w, ws), <<ch>>, In("'", Append(w, ch), ws))
<1>1. Append(w, ch) \in Seq(Chars)
  BY AppendProperties
<1>2. ReadChar(In("'", w, ws), ch) = In("'", Append(w, ch), ws)
  BY KeptInQuotes
<1>3. In("'", w, ws) \in ReaderStates /\ In("'", Append(w, ch), ws) \in ReaderStates
  BY <1>1, Special, InStates
<1> QED BY <1>2, <1>3, ReadsOne

LEMMA QuotedQuote ==
  ASSUME NEW w \in Seq(Chars), NEW ws \in Seq(Seq(Chars))
  PROVE  Reads(In("'", w, ws), Escaped, In("'", Append(w, "'"), ws))
<1> DEFINE v == Append(w, "'")
<1>1. v \in Seq(Chars)
  BY Special, AppendProperties
<1>2. /\ ReadChar(In("'", w, ws), "'") = In("", w, ws)
      /\ ReadChar(In("", w, ws), "\"") = In("\"", w, ws)
      /\ ReadChar(In("\"", w, ws), "'") = In("\"", v, ws)
  BY CharRead
<1> HIDE DEF v
<1>3. /\ ReadChar(In("\"", v, ws), "\"") = In("", v, ws)
      /\ ReadChar(In("", v, ws), "'") = In("'", v, ws)
  BY CharRead
<1> DEFINE a == In("'", w, ws)
           b == In("", w, ws)
           c == In("\"", w, ws)
           d == In("\"", v, ws)
           e == In("", v, ws)
           z == In("'", v, ws)
           f == [i \in 0 .. 5 |-> IF i = 0 THEN a ELSE IF i = 1 THEN b ELSE IF i = 2 THEN c
                                  ELSE IF i = 3 THEN d ELSE IF i = 4 THEN e ELSE z]
           p == "'"
           q == "\""
<1>4. /\ a \in ReaderStates /\ b \in ReaderStates /\ c \in ReaderStates
      /\ d \in ReaderStates /\ e \in ReaderStates /\ z \in ReaderStates
  BY <1>1, Special, InStates
<1>5. /\ b = ReadChar(a, p) /\ c = ReadChar(b, q) /\ d = ReadChar(c, p)
      /\ e = ReadChar(d, q) /\ z = ReadChar(e, p)
  BY <1>2, <1>3
<1>6. /\ Len(Escaped) = 5 /\ Escaped[1] = p /\ Escaped[2] = q /\ Escaped[3] = p
      /\ Escaped[4] = q /\ Escaped[5] = p
  BY EscapedIs
<1> HIDE DEF a, b, c, d, e, z, p, q
<1>7. f \in [0 .. 5 -> ReaderStates] /\ f[0] = a /\ f[5] = z
  BY <1>4
<1>8. \A i \in 1 .. 5 : f[i] = ReadChar(f[i - 1], Escaped[i])
  <2>1. \A i \in 1 .. 5 : i = 1 \/ i = 2 \/ i = 3 \/ i = 4 \/ i = 5
    OBVIOUS
  <2>2. f[1] = b /\ f[2] = c /\ f[3] = d /\ f[4] = e
    OBVIOUS
  <2> HIDE DEF f
  <2> QED BY <1>5, <1>6, <1>7, <2>1, <2>2
<1> HIDE DEF f
<1>9. Run(f, Escaped)
  BY <1>6, <1>7, <1>8 DEF Run
<1>10. Reads(a, Escaped, z)
  BY <1>6, <1>7, <1>9 DEF Reads
<1> QED BY <1>10 DEF a, z, v

LEMMA QuotedWord ==
  ASSUME NEW w \in Seq(Chars), NEW ws \in Seq(Seq(Chars))
  PROVE  Quoted(w) \in Seq(Chars) /\ Reads(In("", <<>>, ws), Quoted(w), In("", w, ws))
<1> DEFINE n == Len(w)
           parts == [i \in 1 .. n |->
                      IF w[i] = "'" THEN Escaped ELSE <<w[i]>>]
<1>1. n \in Nat /\ \A i \in 1 .. n : w[i] \in Chars
  OBVIOUS
<1> PICK pre \in [0 .. Len(w) -> Seq(Chars)] : GrowsTo(pre, w)
  BY PrefixSteps, Zenon
<1>2. /\ pre \in [0 .. n -> Seq(Chars)] /\ pre[0] = <<>> /\ pre[n] = w
      /\ \A i \in 1 .. n : pre[i] = Append(pre[i - 1], w[i])
  BY Zenon DEF GrowsTo
<1>3. Quoted(w) = (<<"'">> \o FlattenSeq(parts)) \o <<"'">>
  BY DEF Quoted
<1> HIDE DEF n
<1> DEFINE g == [i \in 0 .. n |-> In("'", pre[i], ws)]
<1>5. /\ g \in [0 .. n -> ReaderStates]
      /\ g[0] = In("'", <<>>, ws) /\ g[n] = In("'", w, ws)
  <2>1. \A i \in 0 .. n : In("'", pre[i], ws) \in ReaderStates
    BY <1>2, Special, InStates
  <2> QED BY <1>1, <1>2, <2>1
<1>6. ASSUME NEW i \in 1 .. n
      PROVE  parts[i] \in Seq(Chars) /\ Reads(g[i - 1], parts[i], g[i])
  <2>1. i \in 0 .. n /\ i - 1 \in 0 .. n /\ pre[i - 1] \in Seq(Chars)
    BY <1>1, <1>2
  <2>2. g[i - 1] = In("'", pre[i - 1], ws) /\ g[i] = In("'", Append(pre[i - 1], w[i]), ws)
    BY <1>2, <2>1
  <2>3. parts[i] = IF w[i] = "'" THEN Escaped ELSE <<w[i]>>
    OBVIOUS
  <2> HIDE DEF g, parts
  <2>4. w[i] \in Chars
    BY <1>1
  <2>5. CASE w[i] = "'"
    <3>1. Reads(In("'", pre[i - 1], ws), Escaped, In("'", Append(pre[i - 1], "'"), ws))
      BY <2>1, QuotedQuote
    <3>2. parts[i] = Escaped
      BY <2>3, <2>5
    <3> QED BY <2>2, <2>5, <3>1, <3>2, EscapedIs
  <2>6. CASE w[i] # "'"
    <3>1. Reads(In("'", pre[i - 1], ws), <<w[i]>>, In("'", Append(pre[i - 1], w[i]), ws))
      BY <2>1, <2>4, <2>6, QuotedChar
    <3>2. parts[i] = <<w[i]>> /\ <<w[i]>> \in Seq(Chars)
      BY <2>3, <2>4, <2>6
    <3> QED BY <2>2, <3>1, <3>2
  <2> QED BY <2>5, <2>6
<1>7. parts \in Seq(Seq(Chars)) /\ Len(parts) = n
  <2> DEFINE T == Seq(Chars)
  <2>1. parts \in [1 .. n -> T]
    BY <1>6
  <2> HIDE DEF T, parts
  <2>2. parts \in Seq(T) /\ Len(parts) = n
    BY <1>1, <2>1
  <2> QED BY <2>2 DEF T
<1> HIDE DEF g, parts
<1>8. FlattenSeq(parts) \in Seq(Chars) /\ Reads(g[0], FlattenSeq(parts), g[n])
  BY <1>5, <1>6, <1>7, ReadsParts
<1> DEFINE inner == FlattenSeq(parts)
           q == <<"'">>
<1>9. /\ In("", <<>>, ws) \in ReaderStates /\ In("'", <<>>, ws) \in ReaderStates
      /\ In("'", w, ws) \in ReaderStates /\ In("", w, ws) \in ReaderStates
  BY Special, InStates
<1>10. Reads(In("", <<>>, ws), q, In("'", <<>>, ws))
  <2>1. ReadChar(In("", <<>>, ws), "'") = In("'", <<>>, ws)
    BY CharRead
  <2> QED BY <1>9, <2>1, Special, ReadsOne
<1>11. Reads(In("'", w, ws), q, In("", w, ws))
  <2>1. ReadChar(In("'", w, ws), "'") = In("", w, ws)
    BY CharRead
  <2> QED BY <1>9, <2>1, Special, ReadsOne
<1>12. q \in Seq(Chars)
  BY Special, Tuples
<1> DEFINE r == In("", <<>>, ws)
           s == In("'", <<>>, ws)
           t == In("'", w, ws)
           u == In("", w, ws)
<1>13. Reads(r, q, s) /\ Reads(s, inner, t) /\ Reads(t, q, u) /\ inner \in Seq(Chars)
  BY <1>5, <1>8, <1>10, <1>11
<1> HIDE DEF r, s, t, u, inner, q
<1>14. Reads(r, q \o inner, t) /\ q \o inner \in Seq(Chars)
  BY <1>12, <1>13, ReadsBoth
<1>15. Reads(r, (q \o inner) \o q, u) /\ (q \o inner) \o q \in Seq(Chars)
  <2> DEFINE front == q \o inner
  <2>1. Reads(r, front, t) /\ front \in Seq(Chars)
    BY <1>14
  <2> HIDE DEF front
  <2>2. Reads(r, front \o q, u)
    BY <1>12, <1>13, <2>1, ReadsBoth
  <2>3. front \o q \in Seq(Chars)
    BY <1>12, <2>1
  <2> QED BY <2>2, <2>3 DEF front
<1> QED BY <1>3, <1>15 DEF inner, q, r, u

\* A word that is in SHELL_SAFE has no character that a shell treats specially.
LEMMA PlainChars ==
  ASSUME NEW w \in Seq(Chars), Range(w) \subseteq ShellSafe
  PROVE  \A i \in 1 .. Len(w) : w[i] \notin {"'", "\"", " ", "\n"}
<1>1. \A i \in 1 .. Len(w) : w[i] \in Range(w)
  BY DEF Range
<1>2. {"'", "\"", " ", "\n"} \subseteq Chars \ ShellSafe
  BY CommandAssumption, Zenon DEF CommandAssumption
<1> DEFINE D == {"'", "\"", " ", "\n"}
<1> HIDE DEF D
<1>3. \A i \in 1 .. Len(w) : w[i] \notin D
  <2>1. D \subseteq Chars \ ShellSafe
    BY <1>2 DEF D
  <2> QED BY <1>1, <2>1
<1> QED BY <1>3 DEF D

LEMMA PlainWord ==
  ASSUME NEW w \in Seq(Chars), NEW ws \in Seq(Seq(Chars))
  PROVE  Range(w) \subseteq ShellSafe => Reads(In("", <<>>, ws), w, In("", w, ws))
<1> DEFINE n == Len(w)
<1>1. n \in Nat /\ \A i \in 1 .. n : w[i] \in Chars
  OBVIOUS
<1> PICK pre \in [0 .. Len(w) -> Seq(Chars)] : GrowsTo(pre, w)
  BY PrefixSteps, Zenon
<1>2. /\ pre \in [0 .. n -> Seq(Chars)] /\ pre[0] = <<>> /\ pre[n] = w
      /\ \A i \in 1 .. n : pre[i] = Append(pre[i - 1], w[i])
  BY Zenon DEF GrowsTo
<1>3. Range(w) \subseteq ShellSafe => \A i \in 1 .. n : w[i] \notin {"'", "\"", " ", "\n"}
  BY PlainChars
<1> HIDE DEF n
<1> DEFINE f == [i \in 0 .. n |-> In("", pre[i], ws)]
<1>4. /\ f \in [0 .. n -> ReaderStates]
      /\ f[0] = In("", <<>>, ws) /\ f[n] = In("", w, ws)
  <2>1. \A i \in 0 .. n : In("", pre[i], ws) \in ReaderStates
    BY <1>2, Special, InStates
  <2>2. f \in [0 .. n -> ReaderStates]
    BY <2>1
  <2>3. 0 \in 0 .. n /\ n \in 0 .. n
    BY <1>1
  <2>4. f[0] = In("", pre[0], ws) /\ f[n] = In("", pre[n], ws)
    BY <2>3
  <2> QED BY <1>2, <2>2, <2>4, Zenon
<1>5. ASSUME NEW i \in 1 .. n, Range(w) \subseteq ShellSafe
      PROVE  f[i] = ReadChar(f[i - 1], w[i])
  <2>1. i \in 0 .. n /\ i - 1 \in 0 .. n
    BY <1>1
  <2>2. f[i - 1] = In("", pre[i - 1], ws) /\ f[i] = In("", Append(pre[i - 1], w[i]), ws)
    BY <1>2, <2>1
  <2>3. w[i] \notin {"'", "\"", " ", "\n"}
    BY <1>3, <1>5, Zenon
  <2>4. ReadChar(In("", pre[i - 1], ws), w[i]) = In("", Append(pre[i - 1], w[i]), ws)
    BY <2>3, KeptOutside, Zenon
  <2> HIDE DEF f
  <2> QED BY <2>2, <2>4, Zenon
<1> HIDE DEF f
<1> QED
  <2> SUFFICES ASSUME Range(w) \subseteq ShellSafe
               PROVE  Reads(In("", <<>>, ws), w, In("", w, ws))
    OBVIOUS
  <2>1. \A i \in 1 .. n : f[i] = ReadChar(f[i - 1], w[i])
    BY <1>5, Zenon
  <2>2. Run(f, w)
    BY <1>4, <2>1, Zenon DEF Run, n
  <2> QED BY <1>4, <2>2, Zenon DEF Reads, n

Blanks == {" ", "\n"}

\* What cmdputf prints for a word and the blank behind it.
Printed(w, blank) == (IF Range(w) \subseteq ShellSafe THEN w ELSE Quoted(w)) \o <<blank>>

LEMMA PrintedWord ==
  ASSUME NEW w \in Seq(Chars), NEW ws \in Seq(Seq(Chars)), NEW blank \in Blanks
  PROVE  /\ Printed(w, blank) \in Seq(Chars)
         /\ Reads(In("", <<>>, ws), Printed(w, blank),
                  In("", <<>>, IF w = <<>> THEN ws ELSE Append(ws, w)))
<1> DEFINE text == IF Range(w) \subseteq ShellSafe THEN w ELSE Quoted(w)
           more == IF w = <<>> THEN ws ELSE Append(ws, w)
           end == <<blank>>
           r == In("", <<>>, ws)
           s == In("", w, ws)
           t == In("", <<>>, more)
<1>1. text \in Seq(Chars) /\ Reads(r, text, s)
  BY PlainWord, QuotedWord
<1>2. blank \in Chars
  BY Special DEF Blanks
<1>3. end \in Seq(Chars)
  BY <1>2, Tuples
<1>4. more \in Seq(Seq(Chars))
  BY AppendProperties
<1>5. t = ReadChar(s, blank)
  BY WordEnds DEF Blanks
<1>6. Printed(w, blank) = text \o end
  BY DEF Printed
<1> HIDE DEF text, more
<1>7. s \in ReaderStates /\ t \in ReaderStates
  BY <1>4, Special, InStates
<1> HIDE DEF r, s, t
<1>8. Reads(s, end, t)
  BY <1>2, <1>5, <1>7, ReadsOne
<1> HIDE DEF end
<1>9. Reads(r, text \o end, t) /\ text \o end \in Seq(Chars)
  BY <1>1, <1>3, <1>8, ReadsBoth
<1> QED BY <1>6, <1>9 DEF r, t, more

\* The line for a command is read as the command without its empty words.
LEMMA LineRead ==
  ASSUME NEW words \in Seq(Seq(Chars))
  PROVE  ShellWords(cmdputf(words)) = NotEmpty(words)
<1> DEFINE C == Seq(Chars)
           n == Len(words)
           blank(i) == IF i = n THEN "\n" ELSE " "
           parts == [i \in 1 .. n |-> Printed(words[i], blank(i))]
           kept == [i \in 1 .. n |-> IF words[i] = <<>> THEN <<>> ELSE <<words[i]>>]
<1>1. n \in Nat /\ \A i \in 1 .. n : words[i] \in C
  OBVIOUS
<1>2. cmdputf(words) = FlattenSeq(parts)
  BY DEF cmdputf, Printed
<1>3. NotEmpty(words) = FlattenSeq(kept)
  BY DEF NotEmpty
<1>4. kept \in Seq(Seq(C)) /\ Len(kept) = n
  <2> HIDE DEF C, n
  <2>1. \A i \in 1 .. n : kept[i] \in Seq(C)
    <3>1. \A i \in 1 .. n : <<>> \in Seq(C) /\ <<words[i]>> \in Seq(C)
      BY <1>1
    <3> QED BY <3>1
  <2> DEFINE T == Seq(C)
  <2>2. kept \in [1 .. n -> T]
    BY <2>1
  <2> HIDE DEF T, kept
  <2>3. kept \in Seq(T) /\ Len(kept) = n
    BY <1>1, <2>2
  <2> QED BY <2>3 DEF T
<1>5. PICK h \in [0 .. n -> Seq(C)] :
        h[0] = <<>> /\ h[n] = FlattenSeq(kept) /\ \A i \in 1 .. n : h[i] = h[i - 1] \o kept[i]
  <2> HIDE DEF C, n, kept
  <2>1. \E f \in [0 .. Len(kept) -> Seq(C)] :
           /\ f[0] = <<>> /\ f[Len(kept)] = FlattenSeq(kept)
           /\ \A i \in 1 .. Len(kept) : f[i] = f[i - 1] \o kept[i]
    BY <1>4, FlattenSteps
  <2> QED BY <1>4, <2>1
<1> DEFINE g == [i \in 0 .. n |-> In("", <<>>, h[i])]
<1> HIDE DEF n
<1>6. /\ g \in [0 .. n -> ReaderStates]
      /\ g[0] = Fresh /\ g[n] = In("", <<>>, h[n])
  <2>1. \A i \in 0 .. n : In("", <<>>, h[i]) \in ReaderStates
    BY <1>5, Special, InStates
  <2>2. g \in [0 .. n -> ReaderStates]
    BY <2>1
  <2>3. 0 \in 0 .. n /\ n \in 0 .. n
    BY <1>1
  <2> QED BY <1>5, <2>2, <2>3 DEF Fresh
<1>7. ASSUME NEW i \in 1 .. n
      PROVE  parts[i] \in C /\ Reads(g[i - 1], parts[i], g[i])
  <2> DEFINE w == words[i]
             ws == h[i - 1]
             b == blank(i)
  <2>1. i \in 0 .. n /\ i - 1 \in 0 .. n
    BY <1>1
  <2>2. w \in Seq(Chars) /\ ws \in Seq(Seq(Chars)) /\ b \in Blanks
    BY <1>1, <1>5, <2>1 DEF Blanks
  <2>3. kept[i] = IF w = <<>> THEN <<>> ELSE <<w>>
    OBVIOUS
  <2>4. h[i] = ws \o kept[i]
    BY <1>5
  <2>5. g[i - 1] = In("", <<>>, ws) /\ g[i] = In("", <<>>, h[i]) /\ parts[i] = Printed(w, b)
    BY <2>1
  <2> HIDE DEF w, ws, b, g, parts, kept
  <2>6. h[i] = IF w = <<>> THEN ws ELSE Append(ws, w)
    <3>1. CASE w = <<>>
      BY <2>2, <2>3, <2>4, <3>1, ConcatEmptySeq
    <3>2. CASE w # <<>>
      BY <2>2, <2>3, <2>4, <3>2, AppendIsConcat
    <3> QED BY <3>1, <3>2
  <2>7. /\ Printed(w, b) \in Seq(Chars)
        /\ Reads(In("", <<>>, ws), Printed(w, b),
                 In("", <<>>, IF w = <<>> THEN ws ELSE Append(ws, w)))
    BY <2>2, PrintedWord
  <2> QED BY <2>5, <2>6, <2>7
<1>8. parts \in Seq(Seq(Chars)) /\ Len(parts) = n
  <2>1. parts \in [1 .. n -> C]
    BY <1>7
  <2> HIDE DEF parts, C
  <2>2. parts \in Seq(C) /\ Len(parts) = n
    BY <1>1, <2>1
  <2> QED BY <2>2 DEF C
<1> HIDE DEF parts, g, kept
<1>9. FlattenSeq(parts) \in Seq(Chars) /\ Reads(g[0], FlattenSeq(parts), g[n])
  BY <1>6, <1>7, <1>8, ReadsParts
<1>10. ShellWords(FlattenSeq(parts)) = g[n].words
  BY <1>6, <1>9, ShellReads
<1>11. g[n].words = h[n]
  <2>1. In("", <<>>, h[n]).words = h[n]
    BY DEF In
  <2> QED BY <1>6, <2>1, Zenon
<1> QED BY <1>2, <1>3, <1>5, <1>10, <1>11

\* Whatever command cmdput shows, of whatever words, a shell reads from the line the
\* words that are executed, but for the empty ones.
THEOREM EchoIsReadable == Spec_cmd => []EchoReadable
<1> DEFINE Inv == argv \in Seq(Seq(Chars)) /\ shown = cmdputf(argv)
<1>1. Init_cmd => Inv
  <2>1. cmdputf(<<>>) = <<>>
    BY DEF cmdputf, FlattenSeq
  <2> QED BY <2>1 DEF Init_cmd
<1>2. Inv /\ [Next_cmd]_vars_cmd => Inv'
  <2> SUFFICES ASSUME Inv, [Next_cmd]_vars_cmd PROVE Inv'
    OBVIOUS
  <2>1. CASE UNCHANGED <<argv, shown>>
    BY <2>1
  <2>2. ASSUME NEW words \in Commands, cmdput(words) PROVE Inv'
    <3>1. words \in Seq(Seq(Chars))
      BY CommandAssumption DEF CommandAssumption
    <3> QED BY <2>2, <3>1 DEF cmdput
  <2> QED BY <2>1, <2>2 DEF Next_cmd, vars_cmd, cmdaddv, cmdclr
<1>3. Inv => EchoReadable
  BY LineRead DEF EchoReadable
<1> QED BY <1>1, <1>2, <1>3, PTL DEF Spec_cmd
=============================================================================
