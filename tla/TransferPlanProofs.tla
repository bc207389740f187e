-------------------------- MODULE TransferPlanProofs --------------------------
(***************************************************************************)
(* A transfer from the server's numbers to the client's verdict, for every *)
(* payload, chunk size and checksum width below the limits of the          *)
(* conversions.  What the text of LARGE_DATA_START says is understood:     *)
(* for that, recursion over numbers and over finite sets is shown to       *)
(* define what it should, from the least element of a well-founded set,    *)
(* and then the digits written are followed to the number read.            *)
(***************************************************************************)
EXTENDS TransferPlan, WellFoundedInduction, SequenceTheorems, FiniteSetTheorems,
        TLAPS

(***************************************************************************)
(* Induction and recursion.                                                *)
(***************************************************************************)
\* Induction over the numbers: a set that has 0 and, with a number, the next has
\* them all.  From the library's least element of a well-founded set.
LEMMA Induction ==
  ASSUME NEW S, 0 \in S, \A n \in Nat : n \in S => n + 1 \in S
  PROVE  \A n \in Nat : n \in S
<1> DEFINE missing == {n \in Nat : n \notin S}
           less    == OpToRel(<, Nat)
<1>1. SUFFICES ASSUME missing # {}
               PROVE  FALSE
  OBVIOUS
<1>2. IsWellFoundedOn(less, Nat) /\ missing \subseteq Nat
  BY NatLessThanWellFounded
<1>3. \A x, y \in Nat : x < y => <<x, y>> \in less
  BY DEF OpToRel
<1> HIDE DEF less
<1>4. PICK n \in missing : \A m \in missing : <<m, n>> \notin less
  BY <1>1, <1>2, WFMin
<1>5. n \in Nat /\ n \notin S /\ n # 0
  BY <1>4
<1>6. n - 1 \in Nat /\ n - 1 < n /\ (n - 1) + 1 = n
  BY <1>5
<1>7. n - 1 \in S
  BY <1>3, <1>4, <1>5, <1>6
<1> QED
  BY <1>5, <1>6, <1>7

\* The first n + 1 values of an iteration.
Runs(S, first, step, n) ==
  {g \in [0 .. n -> S] :
     g[0] = first /\ \A i \in 0 .. n - 1 : g[i + 1] = step[i][g[i]]}

\* The sequence of all values of an iteration.
Iterates(f, S, first, step) ==
  /\ f \in [Nat -> S]
  /\ f[0] = first
  /\ \A n \in Nat : f[n + 1] = step[n][f[n]]

\* A step can be iterated for ever.
LEMMA Iteration ==
  ASSUME NEW S, NEW first \in S, NEW step \in [Nat -> [S -> S]]
  PROVE  \E f : Iterates(f, S, first, step)
<1> DEFINE R(n) == Runs(S, first, step, n)
<1>1. \A n \in Nat : R(n) # {}
  <2> DEFINE good == {n \in Nat : R(n) # {}}
  <2>1. 0 \in good
    <3>1. [i \in 0 .. 0 |-> first] \in R(0)
      BY DEF Runs
    <3> QED
      BY <3>1
  <2>2. ASSUME NEW n \in Nat, n \in good
        PROVE  n + 1 \in good
    <3>1. PICK g \in R(n) : TRUE
      BY <2>2
    <3> DEFINE h == [i \in 0 .. n + 1 |-> IF i <= n THEN g[i] ELSE step[n][g[n]]]
    <3>2. g \in [0 .. n -> S] /\ g[0] = first
          /\ \A i \in 0 .. n - 1 : g[i + 1] = step[i][g[i]]
      BY <3>1 DEF Runs
    <3>3. g[n] \in S /\ step[n][g[n]] \in S
      BY <3>2
    <3>4. h \in [0 .. n + 1 -> S] /\ h[0] = first
      BY <3>2, <3>3
    <3>5. \A i \in 0 .. (n + 1) - 1 : h[i + 1] = step[i][h[i]]
      BY <3>2
    <3>6. h \in R(n + 1)
      BY <3>4, <3>5 DEF Runs
    <3> QED
      BY <3>6
  <2> HIDE DEF good
  <2>3. \A n \in Nat : n \in good
    BY <2>1, <2>2, Induction
  <2> QED
    BY <2>3 DEF good
<1>2. \A n \in Nat : \A g \in R(n), h \in R(n + 1) : g[n] = h[n]
  <2> SUFFICES ASSUME NEW n \in Nat, NEW g \in R(n), NEW h \in R(n + 1)
               PROVE  g[n] = h[n]
    OBVIOUS
  <2> DEFINE same == {i \in Nat : i <= n => g[i] = h[i]}
  <2>1. /\ g[0] = first /\ \A i \in 0 .. n - 1 : g[i + 1] = step[i][g[i]]
        /\ h[0] = first /\ \A i \in 0 .. n : h[i + 1] = step[i][h[i]]
    BY DEF Runs
  <2>2. 0 \in same
    BY <2>1
  <2>3. \A i \in Nat : i \in same => i + 1 \in same
    BY <2>1
  <2> HIDE DEF same
  <2>4. \A i \in Nat : i \in same
    BY <2>2, <2>3, Induction
  <2> QED
    BY <2>4 DEF same
<1> DEFINE run == [n \in Nat |-> CHOOSE g \in R(n) : TRUE]
           f   == [n \in Nat |-> run[n][n]]
<1>3. \A n \in Nat : run[n] \in R(n)
  BY <1>1
<1> HIDE DEF run
<1>4. f \in [Nat -> S] /\ f[0] = first
  BY <1>3 DEF Runs
<1>5. ASSUME NEW n \in Nat
      PROVE  f[n + 1] = step[n][f[n]]
  <2>1. run[n + 1][n + 1] = step[n][run[n + 1][n]]
    BY <1>3 DEF Runs
  <2>2. run[n][n] = run[n + 1][n]
    BY <1>2, <1>3
  <2> QED
    BY <2>1, <2>2
<1> HIDE DEF f
<1>6. Iterates(f, S, first, step)
  BY <1>4, <1>5 DEF Iterates
<1> QED
  BY <1>6

\* F defines each value of a function from values at smaller arguments only.
WellFounded(F, D, V, size) ==
  /\ F \in [[D -> V] -> [D -> V]]
  /\ size \in [D -> Nat]
  /\ \A x \in D : \A g, h \in [D -> V] :
       (\A y \in D : size[y] < size[x] => g[y] = h[y]) => F[g][x] = F[h][x]

\* Such a recursion has a solution: iterating F settles every argument after as
\* many rounds as its size.
LEMMA Recursion ==
  ASSUME NEW D, NEW V, V # {}, NEW F, NEW size, WellFounded(F, D, V, size)
  PROVE  \E f : f \in [D -> V] /\ f = F[f]
<1>a. /\ F \in [[D -> V] -> [D -> V]]
      /\ size \in [D -> Nat]
      /\ \A x \in D : \A g, h \in [D -> V] :
           (\A y \in D : size[y] < size[x] => g[y] = h[y]) => F[g][x] = F[h][x]
  BY DEF WellFounded
<1> DEFINE first == [x \in D |-> CHOOSE v \in V : TRUE]
           step  == [n \in Nat |-> F]
<1>1. first \in [D -> V]
  OBVIOUS
<1>2. \A n \in Nat : step[n] = F
  OBVIOUS
<1>3. step \in [Nat -> [[D -> V] -> [D -> V]]]
  BY <1>a
<1> HIDE DEF first, step
<1>4. PICK round \in [Nat -> [D -> V]] :
        round[0] = first /\ \A n \in Nat : round[n + 1] = step[n][round[n]]
  <2> DEFINE W == [D -> V]
  <2>1. first \in W /\ step \in [Nat -> [W -> W]]
    BY <1>1, <1>3
  <2> HIDE DEF W
  <2>2. PICK f : Iterates(f, W, first, step)
    BY <2>1, Iteration
  <2> QED
    BY <2>2 DEF W, Iterates
<1>5. \A n \in Nat : round[n] \in [D -> V] /\ round[n + 1] = F[round[n]]
  BY <1>a, <1>2, <1>4
<1>6. \A n \in Nat : \A x \in D : size[x] < n => round[n + 1][x] = round[n][x]
  <2> DEFINE settled == {n \in Nat : \A x \in D : size[x] < n => round[n + 1][x] = round[n][x]}
  <2>1. 0 \in settled
    BY <1>a
  <2>2. ASSUME NEW n \in Nat, n \in settled
        PROVE  n + 1 \in settled
    <3> SUFFICES ASSUME NEW x \in D, size[x] < n + 1
                 PROVE  round[(n + 1) + 1][x] = round[n + 1][x]
      OBVIOUS
    <3>1. \A y \in D : size[y] < size[x] => round[n + 1][y] = round[n][y]
      BY <1>a, <2>2
    <3>2. n + 1 \in Nat /\ round[n + 1] \in [D -> V] /\ round[n] \in [D -> V]
      BY <1>5
    <3>3. F[round[n + 1]][x] = F[round[n]][x]
      BY <1>a, <3>1, <3>2, Zenon
    <3>4. round[(n + 1) + 1] = F[round[n + 1]] /\ round[n + 1] = F[round[n]]
      BY <1>5, <3>2
    <3> QED
      BY <3>3, <3>4
  <2> HIDE DEF settled
  <2>3. \A n \in Nat : n \in settled
    BY <2>1, <2>2, Induction
  <2> QED
    BY <2>3 DEF settled
<1>7. \A n \in Nat : \A x \in D : size[x] < n => round[n][x] = round[size[x] + 1][x]
  <2> DEFINE kept == {n \in Nat : \A x \in D : size[x] < n => round[n][x] = round[size[x] + 1][x]}
  <2>1. 0 \in kept
    BY <1>a
  <2>2. ASSUME NEW n \in Nat, n \in kept
        PROVE  n + 1 \in kept
    <3> SUFFICES ASSUME NEW x \in D, size[x] < n + 1
                 PROVE  round[n + 1][x] = round[size[x] + 1][x]
      OBVIOUS
    <3>1. CASE size[x] < n
      BY <1>a, <1>6, <2>2, <3>1
    <3>2. CASE size[x] = n
      BY <1>a, <3>2
    <3> QED
      BY <1>a, <3>1, <3>2
  <2> HIDE DEF kept
  <2>3. \A n \in Nat : n \in kept
    BY <2>1, <2>2, Induction
  <2> QED
    BY <2>3 DEF kept
<1> DEFINE f == [x \in D |-> round[size[x] + 1][x]]
<1>8. \A x \in D : size[x] + 1 \in Nat /\ round[size[x] + 1] \in [D -> V]
  BY <1>a, <1>5
<1>9. f \in [D -> V]
  BY <1>8
<1>10. ASSUME NEW x \in D
       PROVE  f[x] = F[f][x]
  <2>1. \A y \in D : size[y] < size[x] => round[size[x]][y] = f[y]
    BY <1>a, <1>7
  <2>2. f[x] = F[round[size[x]]][x]
    BY <1>a, <1>5
  <2> HIDE DEF f
  <2>3. F[round[size[x]]][x] = F[f][x]
    BY <1>a, <1>5, <1>9, <2>1
  <2> QED
    BY <2>2, <2>3
<1> HIDE DEF f
<1>11. F[f] \in [D -> V]
  BY <1>a, <1>9
<1>12. f = F[f]
  BY <1>9, <1>10, <1>11
<1> QED
  BY <1>9, <1>12

(***************************************************************************)
(* Digits, fields and the numbers in them.                                 *)
(***************************************************************************)
DigitTokens == {Digit(d) : d \in 0 .. 9}

\* The last digit is split off by a division, which leaves a smaller number.
LEMMA LastDigit ==
  ASSUME NEW n \in Nat
  PROVE  /\ n \div 10 \in Nat /\ n % 10 \in 0 .. 9
         /\ n = 10 * (n \div 10) + (n % 10)
         /\ n >= 10 => n \div 10 < n
  OBVIOUS

\* The recursion of digitsOf defines it.
LEMMA DigitsDefined ==
  \A n \in Nat :
    digitsOf[n] = IF n < 10 THEN <<Digit(n)>> ELSE Append(digitsOf[n \div 10], Digit(n % 10))
<1> DEFINE V == Seq(DigitTokens)
           F == [g \in [Nat -> V] |-> [n \in Nat |->
                  IF n < 10 THEN <<Digit(n)>> ELSE Append(g[n \div 10], Digit(n % 10))]]
           size == [n \in Nat |-> n]
<1>1. V # {}
  BY EmptySeq
<1>2. F \in [[Nat -> V] -> [Nat -> V]]
  <2> SUFFICES ASSUME NEW g \in [Nat -> V], NEW n \in Nat
               PROVE  (IF n < 10 THEN <<Digit(n)>> ELSE Append(g[n \div 10], Digit(n % 10))) \in V
    BY Zenon
  <2>1. n < 10 => Digit(n) \in DigitTokens
    BY DEF DigitTokens
  <2>2. Digit(n % 10) \in DigitTokens
    BY LastDigit DEF DigitTokens
  <2>3. g[n \div 10] \in V
    BY LastDigit
  <2> QED
    BY <2>1, <2>2, <2>3
<1>3. size \in [Nat -> Nat] /\ \A n \in Nat : size[n] = n
  OBVIOUS
<1>4. ASSUME NEW n \in Nat, NEW g \in [Nat -> V], NEW h \in [Nat -> V],
             \A m \in Nat : size[m] < size[n] => g[m] = h[m]
      PROVE  F[g][n] = F[h][n]
  <2>1. n >= 10 => g[n \div 10] = h[n \div 10]
    BY <1>4, LastDigit
  <2> QED
    BY <2>1
<1>5. \A f : f = F[f] /\ f \in [Nat -> V] => f = [n \in Nat |->
                  IF n < 10 THEN <<Digit(n)>> ELSE Append(f[n \div 10], Digit(n % 10))]
  OBVIOUS
<1> HIDE DEF F, V, size
<1>4a. WellFounded(F, Nat, V, size)
  BY <1>2, <1>3, <1>4, Zenon DEF WellFounded
<1>6. \E f : f \in [Nat -> V] /\ f = F[f]
  BY <1>1, <1>4a, Recursion
<1>7. \E f : f = [n \in Nat |->
                  IF n < 10 THEN <<Digit(n)>> ELSE Append(f[n \div 10], Digit(n % 10))]
  BY <1>5, <1>6
<1>8. digitsOf = [n \in Nat |->
                  IF n < 10 THEN <<Digit(n)>> ELSE Append(digitsOf[n \div 10], Digit(n % 10))]
  BY <1>7 DEF digitsOf
<1> QED
  BY <1>8, Zenon

\* Every number has digits.
LEMMA DigitsType == \A n \in Nat : digitsOf[n] \in Seq(DigitTokens) /\ digitsOf[n] # <<>>
<1> DEFINE good == {n \in Nat : \A m \in 0 .. n : digitsOf[m] \in Seq(DigitTokens) /\ digitsOf[m] # <<>>}
<1>1. ASSUME NEW n \in Nat, n < 10
      PROVE  digitsOf[n] \in Seq(DigitTokens) /\ digitsOf[n] # <<>>
  <2>1. Digit(n) \in DigitTokens
    BY <1>1 DEF DigitTokens
  <2>2. digitsOf[n] = <<Digit(n)>>
    BY <1>1, DigitsDefined, Zenon
  <2> QED
    BY <2>1, <2>2
<1>2. 0 \in good
  <2>1. 0 \in Nat /\ 0 < 10 /\ \A m \in 0 .. 0 : m = 0
    OBVIOUS
  <2>2. digitsOf[0] \in Seq(DigitTokens) /\ digitsOf[0] # <<>>
    BY <1>1, <2>1
  <2> QED
    BY <2>1, <2>2, Zenon
<1>3. ASSUME NEW n \in Nat, n \in good
      PROVE  n + 1 \in good
  <2>a. \A m \in 0 .. n + 1 : m \in 0 .. n \/ m = n + 1
    OBVIOUS
  <2>1. CASE n + 1 < 10
    <3>1. digitsOf[n + 1] \in Seq(DigitTokens) /\ digitsOf[n + 1] # <<>>
      BY <1>1, <2>1
    <3> QED
      BY <1>3, <2>a, <3>1
  <2>2. CASE n + 1 >= 10
    <3> DEFINE m == n + 1
    <3>1. /\ m \in Nat /\ ~(m < 10) /\ m \div 10 \in 0 .. n
          /\ Digit(m % 10) \in DigitTokens
      BY <2>2, LastDigit DEF DigitTokens
    <3> HIDE DEF m
    <3>2. digitsOf[m] = Append(digitsOf[m \div 10], Digit(m % 10))
      BY <3>1, DigitsDefined, Zenon
    <3>3. digitsOf[m] \in Seq(DigitTokens) /\ digitsOf[m] # <<>>
      BY <1>3, <3>1, <3>2, AppendProperties
    <3> QED
      BY <1>3, <2>a, <3>3 DEF m
  <2> QED
    BY <2>1, <2>2
<1> HIDE DEF good
<1>4. \A n \in Nat : n \in good
  BY <1>2, <1>3, Induction
<1>5. \A n \in Nat : n \in 0 .. n
  OBVIOUS
<1> QED
  BY <1>4, <1>5, Zenon DEF good

\* A set of numbers up to n has a largest one.
LEMMA Largest ==
  ASSUME NEW n \in Nat, NEW T \in SUBSET (0 .. n), T # {}
  PROVE  Max(T) \in T /\ \A m \in T : Max(T) >= m
<1> DEFINE slack == {k \in Nat : ~ \E m \in T : n - m <= k}
<1>1. SUFFICES \E x \in T : \A m \in T : x >= m
  BY DEF Max
<1>2. SUFFICES ASSUME \A x \in T : \E m \in T : ~(x >= m)
               PROVE  FALSE
  OBVIOUS
<1>3. 0 \in slack
  <2> SUFFICES ASSUME NEW x \in T, n - x <= 0
               PROVE  FALSE
    OBVIOUS
  <2>1. x \in 0 .. n /\ \A m \in T : m \in 0 .. n
    OBVIOUS
  <2> QED
    BY <1>2, <2>1
<1>4. ASSUME NEW k \in Nat, k \in slack
      PROVE  k + 1 \in slack
  <2> SUFFICES ASSUME NEW x \in T, n - x <= k + 1
               PROVE  FALSE
    OBVIOUS
  <2>1. PICK m \in T : ~(x >= m)
    BY <1>2
  <2>2. x \in 0 .. n /\ m \in 0 .. n /\ n - m <= k
    BY <2>1
  <2> QED
    BY <1>4, <2>2
<1> HIDE DEF slack
<1>5. n \in slack
  BY <1>3, <1>4, Induction
<1>6. PICK m \in T : TRUE
  OBVIOUS
<1>7. n - m <= n
  BY <1>6
<1> QED
  BY <1>5, <1>7 DEF slack

\* f holds the numbers that the first digits denote.
Folds(f, digits) ==
  /\ f[{}] = 0
  /\ \A k \in 0 .. Len(digits) - 1 :
       f[1 .. k + 1] = 10 * f[1 .. k] + digits[k + 1].digit
  /\ numberOf(digits) = f[1 .. Len(digits)]

\* The fold of numberOf takes one digit after the other.
LEMMA FoldDefined ==
  ASSUME NEW digits \in Seq(DigitTokens)
  PROVE  \E f : Folds(f, digits)
<1> DEFINE n == Len(digits)
           D == SUBSET (1 .. n)
           top(T) == Max(T)
           F == [g \in [D -> Int] |-> [T \in D |->
                  IF T = {} THEN 0 ELSE 10 * g[T \ {top(T)}] + digits[top(T)].digit]]
           size == [T \in D |-> Cardinality(T)]
           f == CHOOSE f : f = [T \in D |->
                  IF T = {} THEN 0 ELSE 10 * f[T \ {top(T)}] + digits[top(T)].digit]
<1>1. n \in Nat /\ DOMAIN digits = 1 .. n
  OBVIOUS
<1>2. numberOf(digits) = f[1 .. n]
  BY <1>1 DEF numberOf, FoldLeft, MapThenFoldSet
<1>3. \A i \in 1 .. n : digits[i].digit \in Int
  BY DEF DigitTokens, Digit
<1>a. IsFiniteSet(1 .. n)
  BY <1>1, FS_Interval
<1>b. \A T \in D : IsFiniteSet(T) /\ Cardinality(T) \in Nat
  BY <1>a, FS_Subset, FS_CardinalityType
<1>4. ASSUME NEW T \in D, T # {}
      PROVE  /\ top(T) \in 1 .. n /\ top(T) \in T
             /\ T \ {top(T)} \in D
             /\ size[T \ {top(T)}] < size[T]
  <2>1. T \subseteq 0 .. n /\ T \subseteq 1 .. n
    BY <1>1
  <2>2. top(T) \in T
    BY <1>1, <1>4, <2>1, Largest
  <2> HIDE DEF top
  <2>3. T \ {top(T)} \in D /\ top(T) \in 1 .. n
    BY <2>1, <2>2
  <2>4. /\ Cardinality(T \ {top(T)}) = Cardinality(T) - 1
        /\ Cardinality(T) \in Nat
    BY <1>b, <2>2, FS_RemoveElement
  <2>5. size[T \ {top(T)}] = Cardinality(T) - 1 /\ size[T] = Cardinality(T)
    BY <2>3, <2>4
  <2> QED
    BY <2>2, <2>3, <2>4, <2>5
<1>6. size \in [D -> Nat]
  BY <1>b
<1> HIDE DEF top, size, D, n
<1>7. F \in [[D -> Int] -> [D -> Int]]
  BY <1>3, <1>4
<1>8. ASSUME NEW T \in D, NEW g \in [D -> Int], NEW h \in [D -> Int],
             \A U \in D : size[U] < size[T] => g[U] = h[U]
      PROVE  F[g][T] = F[h][T]
  BY <1>4, <1>8
<1>9. \A g : g \in [D -> Int] /\ g = F[g] => g = [T \in D |->
                  IF T = {} THEN 0 ELSE 10 * g[T \ {top(T)}] + digits[top(T)].digit]
  OBVIOUS
<1> HIDE DEF F
<1>10. WellFounded(F, D, Int, size)
  BY <1>6, <1>7, <1>8, Zenon DEF WellFounded
<1>11. \E g : g \in [D -> Int] /\ g = F[g]
  BY <1>10, Recursion
<1>12. f = [T \in D |->
                  IF T = {} THEN 0 ELSE 10 * f[T \ {top(T)}] + digits[top(T)].digit]
  BY <1>9, <1>11, Zenon
<1> HIDE DEF f
<1>13. {} \in D /\ f[{}] = 0
  BY <1>12 DEF D
<1>14. ASSUME NEW k \in 0 .. n - 1
       PROVE  f[1 .. k + 1] = 10 * f[1 .. k] + digits[k + 1].digit
  <2>1. 1 .. k + 1 \in D /\ k + 1 \in 1 .. k + 1
    BY <1>1 DEF D
  <2>2. top(1 .. k + 1) = k + 1
    BY DEF top, Max
  <2>3. (1 .. k + 1) \ {k + 1} = 1 .. k
    OBVIOUS
  <2> QED
    BY <1>12, <2>1, <2>2, <2>3
<1> QED
  BY <1>2, <1>13, <1>14 DEF n, Folds

\* The number a text denotes when one more digit is written behind it.
LEMMA NumberAppended ==
  ASSUME NEW digits \in Seq(DigitTokens), NEW token \in DigitTokens
  PROVE  /\ numberOf(digits) \in Nat
         /\ numberOf(Append(digits, token)) = 10 * numberOf(digits) + token.digit
<1> DEFINE n == Len(digits)
           longer == Append(digits, token)
<1>1. /\ n \in Nat
      /\ longer \in Seq(DigitTokens) /\ Len(longer) = n + 1
      /\ \A k \in 1 .. n : longer[k] = digits[k] /\ digits[k].digit \in Nat
      /\ longer[n + 1] = token /\ token.digit \in Nat
  <2>1. \A t \in DigitTokens : t.digit \in Nat
    BY DEF DigitTokens, Digit
  <2> QED
    BY <2>1, AppendProperties
<1>2. PICK f : /\ f[{}] = 0
               /\ \A k \in 0 .. n - 1 : f[1 .. k + 1] = 10 * f[1 .. k] + digits[k + 1].digit
               /\ numberOf(digits) = f[1 .. n]
  BY FoldDefined DEF Folds
<1>3. PICK g : /\ g[{}] = 0
               /\ \A k \in 0 .. n : g[1 .. k + 1] = 10 * g[1 .. k] + longer[k + 1].digit
               /\ numberOf(longer) = g[1 .. n + 1]
  <2> HIDE DEF longer
  <2>1. PICK g : Folds(g, longer)
    BY <1>1, FoldDefined
  <2>2. Len(longer) = n + 1 /\ (n + 1) - 1 = n
    BY <1>1
  <2> QED
    BY <2>1, <2>2 DEF Folds
<1> HIDE DEF n, longer
<1> DEFINE same == {k \in Nat : k <= n => f[1 .. k] \in Nat /\ g[1 .. k] = f[1 .. k]}
<1>4. 0 \in same
  <2>1. 1 .. 0 = {}
    OBVIOUS
  <2> QED
    BY <1>2, <1>3, <2>1
<1>5. ASSUME NEW k \in Nat, k \in same
      PROVE  k + 1 \in same
  <2> SUFFICES ASSUME k + 1 <= n
               PROVE  f[1 .. k + 1] \in Nat /\ g[1 .. k + 1] = f[1 .. k + 1]
    OBVIOUS
  <2>1. k \in 0 .. n - 1 /\ k \in 0 .. n /\ k + 1 \in 1 .. n
    BY <1>1
  <2>2. f[1 .. k] \in Nat /\ g[1 .. k] = f[1 .. k]
    BY <1>1, <1>5
  <2>3. /\ f[1 .. k + 1] = 10 * f[1 .. k] + digits[k + 1].digit
        /\ g[1 .. k + 1] = 10 * g[1 .. k] + longer[k + 1].digit
        /\ longer[k + 1] = digits[k + 1] /\ digits[k + 1].digit \in Nat
    BY <1>1, <1>2, <1>3, <2>1
  <2> QED
    BY <2>2, <2>3
<1> HIDE DEF same
<1>6. n \in same
  BY <1>1, <1>4, <1>5, Induction
<1>7. f[1 .. n] \in Nat /\ g[1 .. n] = f[1 .. n]
  BY <1>1, <1>6 DEF same
<1>8. g[1 .. n + 1] = 10 * g[1 .. n] + token.digit
  BY <1>1, <1>3
<1> QED
  BY <1>2, <1>3, <1>7, <1>8 DEF longer

\* No digits denote no number, 0 in the fold.
LEMMA NoDigits == numberOf(<<>>) = 0
<1>1. PICK f : Folds(f, <<>>)
  BY EmptySeq, FoldDefined
<1>2. 1 .. Len(<<>>) = {}
  OBVIOUS
<1> QED
  BY <1>1, <1>2 DEF Folds

\* What std::to_string writes, stoul and stoull read back.
LEMMA DigitsRead == \A n \in Nat : numberOf(digitsOf[n]) = n
<1> DEFINE good == {n \in Nat : \A m \in 0 .. n : numberOf(digitsOf[m]) = m}
<1>1. ASSUME NEW n \in Nat, n < 10
      PROVE  numberOf(digitsOf[n]) = n
  <2>1. digitsOf[n] = <<Digit(n)>>
    BY <1>1, DigitsDefined, Zenon
  <2>2. <<Digit(n)>> = Append(<<>>, Digit(n))
    OBVIOUS
  <2>3. Digit(n) \in DigitTokens /\ Digit(n).digit = n
    BY <1>1 DEF DigitTokens, Digit
  <2>4. numberOf(Append(<<>>, Digit(n))) = 10 * numberOf(<<>>) + Digit(n).digit
    BY <2>3, NumberAppended, EmptySeq
  <2> QED
    BY <2>1, <2>2, <2>3, <2>4, NoDigits
<1>2. 0 \in good
  <2>1. 0 \in Nat /\ 0 < 10 /\ \A m \in 0 .. 0 : m = 0
    OBVIOUS
  <2>2. numberOf(digitsOf[0]) = 0
    BY <1>1, <2>1
  <2> QED
    BY <2>1, <2>2, Zenon
<1>3. ASSUME NEW n \in Nat, n \in good
      PROVE  n + 1 \in good
  <2> DEFINE m == n + 1
  <2>1. m \in Nat /\ \A k \in 0 .. m : k \in 0 .. n \/ k = m
    OBVIOUS
  <2>2. m >= 10 => m \div 10 \in 0 .. n
    BY LastDigit
  <2> HIDE DEF m
  <2>3. CASE m < 10
    BY <1>1, <1>3, <2>1, <2>3 DEF m
  <2>4. CASE ~(m < 10)
    <3>1. digitsOf[m] = Append(digitsOf[m \div 10], Digit(m % 10))
      BY <2>1, <2>4, DigitsDefined, Zenon
    <3>2. /\ m \div 10 \in Nat /\ m % 10 \in 0 .. 9
          /\ m = 10 * (m \div 10) + (m % 10)
      BY <2>1, LastDigit
    <3>3. Digit(m % 10) \in DigitTokens /\ Digit(m % 10).digit = m % 10
      BY <3>2 DEF DigitTokens, Digit
    <3>4. numberOf(digitsOf[m \div 10]) = m \div 10
      BY <1>3, <2>1, <2>2, <2>4
    <3>5. numberOf(digitsOf[m]) = m
      BY <3>1, <3>2, <3>3, <3>4, DigitsType, NumberAppended
    <3> QED
      BY <1>3, <2>1, <3>5 DEF m
  <2> QED
    BY <2>3, <2>4
<1> HIDE DEF good
<1>4. \A n \in Nat : n \in good
  BY <1>2, <1>3, Induction
<1>5. \A n \in Nat : n \in 0 .. n
  OBVIOUS
<1> QED
  BY <1>4, <1>5, Zenon DEF good

\* Min is the least element.
LEMMA LeastIs ==
  ASSUME NEW T \in SUBSET Int, NEW m \in T, \A p \in T : m <= p
  PROVE  Min(T) = m
<1>1. Min(T) \in T /\ \A p \in T : Min(T) <= p
  BY Zenon DEF Min
<1>2. Min(T) \in Int /\ m \in Int /\ m <= Min(T) /\ Min(T) <= m
  BY <1>1
<1> QED
  BY <1>2

Kinds == {"filename=", "other", "semicolon", "size=", "chunks=", "checksum=", "digit"}

Tokens == [kind: Kinds, digit: Nat]

\* In a text of length l, digits of length n stand behind the first key, which
\* is at s, and nothing or a semicolon stands behind them.
FieldAt(text, key, digits, s, n, l) ==
  /\ n \in Nat /\ n = Len(digits)
  /\ l \in Nat /\ l = Len(text)
  /\ s \in 1 .. l /\ s + n <= l
  /\ text[s].kind = key
  /\ \A p \in 1 .. s - 1 : text[p].kind # key
  /\ \A k \in 1 .. n : text[s + k] = digits[k]
  /\ s + n = l \/ text[s + n + 1].kind = "semicolon"

\* extractField finds what stands behind the first key, up to the semicolon.
LEMMA FieldFound ==
  ASSUME NEW text \in Seq(Tokens), NEW key, NEW digits \in Seq(DigitTokens),
         NEW s, NEW n, NEW l, FieldAt(text, key, digits, s, n, l)
  PROVE  extractField(text, key) = digits
<1>a. /\ n \in Nat /\ n = Len(digits)
      /\ l \in Nat /\ l = Len(text)
      /\ s \in 1 .. l /\ s + n <= l
      /\ text[s].kind = key
      /\ \A p \in 1 .. s - 1 : text[p].kind # key
      /\ \A k \in 1 .. n : text[s + k] = digits[k]
      /\ s + n = l \/ text[s + n + 1].kind = "semicolon"
  BY DEF FieldAt
<1> USE <1>a
<1> DEFINE places == {p \in DOMAIN text : text[p].kind = key}
           ends == {p \in s + 1 .. l : text[p].kind = "semicolon"}
<1>1. /\ DOMAIN text = 1 .. l /\ DOMAIN digits = 1 .. n
      /\ \A k \in 1 .. n : digits[k].kind = "digit"
  <2>1. \A t \in DigitTokens : t.kind = "digit"
    BY DEF DigitTokens, Digit
  <2> QED
    BY <2>1
<1>2. s \in places /\ \A p \in places : s <= p
  BY <1>1
<1>3. Min(places) = s
  <2>1. places \in SUBSET Int
    BY <1>1
  <2> HIDE DEF places
  <2> QED
    BY <1>2, <2>1, LeastIs
<1>4. SubSeq(text, s + 1, s + n) = digits
  <2>1. SubSeq(text, s + 1, s + n) = [k \in 1 .. n |-> text[s + k]]
    OBVIOUS
  <2>2. digits = [k \in 1 .. n |-> digits[k]]
    BY <1>1
  <2> QED
    BY <2>1, <2>2
<1>5. \A p \in s + 1 .. s + n : p \notin ends
  <2> SUFFICES ASSUME NEW p \in s + 1 .. s + n
               PROVE  text[p].kind # "semicolon"
    OBVIOUS
  <2>1. PICK k \in 1 .. n : p = s + k
    <3>1. p - s \in 1 .. n /\ p = s + (p - s)
      OBVIOUS
    <3> QED
      BY <3>1
  <2> QED
    BY <1>1, <2>1
<1>6. CASE s + n = l
  <2>1. ends = {}
    BY <1>5, <1>6
  <2>2. extractField(text, key) = SubSeq(text, s + 1, l)
    BY <1>2, <1>3, <2>1 DEF extractField
  <2> QED
    BY <1>4, <1>6, <2>2
<1>7. CASE s + n # l
  <2>1. s + n + 1 \in s + 1 .. l
    BY <1>7
  <2>2. s + n + 1 \in ends
    BY <1>7, <2>1
  <2>3. ASSUME NEW p \in ends
        PROVE  s + n + 1 <= p /\ p \in Int
    BY <1>5
  <2> HIDE DEF ends
  <2>4. Min(ends) = s + n + 1
    BY <2>2, <2>3 DEF Min
  <2>5. extractField(text, key) = SubSeq(text, s + 1, Min(ends) - 1)
    <3>1. ends # {}
      BY <2>2
    <3> QED
      BY <1>2, <1>3, <3>1 DEF extractField, ends
  <2>6. Min(ends) - 1 = s + n
    BY <2>4
  <2> QED
    BY <1>4, <2>5, <2>6
<1> QED
  BY <1>6, <1>7

\* The conversions take a text of digits to its end.
LEMMA AllDigitsRead ==
  ASSUME NEW digits \in Seq(DigitTokens)
  PROVE  leadingDigits(digits) = digits
<1> DEFINE n == Len(digits)
           heads == {k \in 0 .. n : \A p \in 1 .. k : digits[p].kind = "digit"}
<1>1. n \in Nat /\ \A k \in 1 .. n : digits[k].kind = "digit"
  <2>1. \A t \in DigitTokens : t.kind = "digit"
    BY DEF DigitTokens, Digit
  <2> QED
    BY <2>1
<1>2. n \in heads /\ \A k \in heads : n >= k
  BY <1>1
<1>3. Max(heads) = n
  BY <1>1, <1>2 DEF Max
<1>4. SubSeq(digits, 1, n) = digits
  BY <1>1
<1> QED
  BY <1>3, <1>4 DEF leadingDigits

\* A number below the limit comes back from the field it was written to.
LEMMA NumberConverted ==
  ASSUME NEW n \in Nat, NEW limit \in Nat, n < limit
  PROVE  conversions(digitsOf[n], limit) = {n}
<1>1. /\ digitsOf[n] # <<>> /\ leadingDigits(digitsOf[n]) = digitsOf[n]
      /\ numberOf(digitsOf[n]) = n
  BY DigitsType, AllDigitsRead, DigitsRead
<1> QED
  BY <1>1 DEF conversions

(***************************************************************************)
(* The text of LARGE_DATA_START.                                           *)
(***************************************************************************)
\* Digits are tokens.
LEMMA DigitsAreTokens ==
  ASSUME NEW digits \in Seq(DigitTokens)
  PROVE  digits \in Seq(Tokens)
<1>1. DigitTokens \subseteq Tokens
  BY DEF DigitTokens, Digit, Tokens, Kinds
<1>2. /\ Len(digits) \in Nat
      /\ digits \in [1 .. Len(digits) -> Tokens]
  BY <1>1
<1> QED
  BY <1>2

\* u is s, of length n, followed by t, of length m.
Joined(u, s, t, n, m) ==
  /\ u \in Seq(Tokens) /\ Len(u) = n + m
  /\ \A k \in 1 .. n : u[k] = s[k]
  /\ \A k \in 1 .. m : u[n + k] = t[k]

LEMMA Join ==
  ASSUME NEW s \in Seq(Tokens), NEW t \in Seq(Tokens), NEW n \in Nat, NEW m \in Nat,
         Len(s) = n, Len(t) = m
  PROVE  Joined(s \o t, s, t, n, m)
<1> DEFINE u == s \o t
<1>1. /\ u \in Seq(Tokens) /\ Len(u) = n + m
      /\ \A i \in 1 .. n + m : u[i] = IF i <= n THEN s[i] ELSE t[i - n]
  BY ConcatProperties
<1> HIDE DEF u
<1>2. ASSUME NEW k \in 1 .. n
      PROVE  u[k] = s[k]
  BY <1>1
<1>3. ASSUME NEW k \in 1 .. m
      PROVE  u[n + k] = t[k]
  <2>1. n + k \in 1 .. n + m /\ ~(n + k <= n) /\ (n + k) - n = k
    OBVIOUS
  <2> QED
    BY <1>1, <2>1
<1>4. Joined(u, s, t, n, m)
  BY <1>1, <1>2, <1>3 DEF Joined
<1> QED
  BY <1>4 DEF u

\* Where the fields of LARGE_DATA_START are when they have a, b and c digits.
Layout(text, size, chunks, checksum, a, b, c) ==
  /\ text \in Seq(Tokens) /\ Len(text) = 8 + a + b + c
  /\ text[1] = Token("filename=") /\ text[2] = Token("other")
  /\ text[3] = Token("semicolon") /\ text[4] = Token("size=")
  /\ \A k \in 1 .. a : text[4 + k] = size[k]
  /\ text[5 + a] = Token("semicolon") /\ text[6 + a] = Token("chunks=")
  /\ \A k \in 1 .. b : text[6 + a + k] = chunks[k]
  /\ text[7 + a + b] = Token("semicolon") /\ text[8 + a + b] = Token("checksum=")
  /\ \A k \in 1 .. c : text[8 + a + b + k] = checksum[k]

LEMMA TextLayout ==
  ASSUME NEW size \in Seq(DigitTokens), NEW chunks \in Seq(DigitTokens),
         NEW checksum \in Seq(DigitTokens),
         NEW a \in Nat, NEW b \in Nat, NEW c \in Nat,
         a = Len(size), b = Len(chunks), c = Len(checksum)
  PROVE  Layout(<<Token("filename=")>> \o fileName
                  \o <<Token("semicolon"), Token("size=")>> \o size
                  \o <<Token("semicolon"), Token("chunks=")>> \o chunks
                  \o <<Token("semicolon"), Token("checksum=")>> \o checksum,
                size, chunks, checksum, a, b, c)
<1> DEFINE t1 == <<Token("filename=")>> \o fileName \o <<Token("semicolon"), Token("size=")>>
           t2 == t1 \o size
           t3 == t2 \o <<Token("semicolon"), Token("chunks=")>>
           t4 == t3 \o chunks
           t5 == t4 \o <<Token("semicolon"), Token("checksum=")>>
           t6 == t5 \o checksum
<1>1. \A kind \in Kinds : Token(kind) \in Tokens
  BY DEF Token, Tokens
<1>2. /\ t1 \in Seq(Tokens) /\ Len(t1) = 4
      /\ t1[1] = Token("filename=") /\ t1[2] = Token("other")
      /\ t1[3] = Token("semicolon") /\ t1[4] = Token("size=")
  BY <1>1 DEF fileName, Kinds
<1> HIDE DEF t1
<1>d. size \in Seq(Tokens) /\ chunks \in Seq(Tokens) /\ checksum \in Seq(Tokens)
  BY DigitsAreTokens
<1>k. /\ \A key \in Kinds : LET s == <<Token("semicolon"), Token(key)>>
                             IN  /\ s \in Seq(Tokens) /\ Len(s) = 2
                                 /\ s[1] = Token("semicolon") /\ s[2] = Token(key)
      /\ "chunks=" \in Kinds /\ "checksum=" \in Kinds
  BY <1>1 DEF Kinds
<1>s. /\ 4 + a \in Nat /\ 6 + a \in Nat /\ (4 + a) + 2 = 6 + a /\ (4 + a) + 1 = 5 + a
      /\ 6 + a + b \in Nat /\ 8 + a + b \in Nat
      /\ (6 + a + b) + 2 = 8 + a + b /\ (6 + a + b) + 1 = 7 + a + b
      /\ 1 \in 1 .. 2 /\ 2 \in 1 .. 2
  OBVIOUS
<1>3. Joined(t2, t1, size, 4, a)
  BY <1>2, <1>d, Join
<1> HIDE DEF t2
<1>4. /\ t3 \in Seq(Tokens) /\ Len(t3) = 6 + a
      /\ \A k \in 1 .. 4 + a : t3[k] = t2[k]
      /\ t3[5 + a] = Token("semicolon") /\ t3[6 + a] = Token("chunks=")
  <2>1. Joined(t3, t2, <<Token("semicolon"), Token("chunks=")>>, 4 + a, 2)
    <3>1. t2 \in Seq(Tokens) /\ Len(t2) = 4 + a
      BY <1>3 DEF Joined
    <3> QED
      BY <1>k, <1>s, <3>1, Join
  <2> HIDE DEF t3
  <2> QED
    BY <1>k, <1>s, <2>1 DEF Joined
<1> HIDE DEF t3
<1>5. Joined(t4, t3, chunks, 6 + a, b)
  BY <1>4, <1>d, <1>s, Join
<1> HIDE DEF t4
<1>6. /\ t5 \in Seq(Tokens) /\ Len(t5) = 8 + a + b
      /\ \A k \in 1 .. 6 + a + b : t5[k] = t4[k]
      /\ t5[7 + a + b] = Token("semicolon") /\ t5[8 + a + b] = Token("checksum=")
  <2>1. Joined(t5, t4, <<Token("semicolon"), Token("checksum=")>>, 6 + a + b, 2)
    <3>1. t4 \in Seq(Tokens) /\ Len(t4) = 6 + a + b
      BY <1>5 DEF Joined
    <3> QED
      BY <1>k, <1>s, <3>1, Join
  <2> HIDE DEF t5
  <2> QED
    BY <1>k, <1>s, <2>1 DEF Joined
<1> HIDE DEF t5
<1>7. Joined(t6, t5, checksum, 8 + a + b, c)
  BY <1>6, <1>d, <1>s, Join
<1> HIDE DEF t6
<1>8. /\ \A k \in 1 .. 4 : t6[k] = t1[k]
      /\ \A k \in 1 .. a : t6[4 + k] = size[k]
  <2>1. \A k \in 1 .. 4 + a : k \in 1 .. 6 + a /\ k \in 1 .. 6 + a + b /\ k \in 1 .. 8 + a + b
    OBVIOUS
  <2>2. \A k \in 1 .. 4 + a : t6[k] = t2[k]
    BY <1>4, <1>5, <1>6, <1>7, <2>1 DEF Joined
  <2>3. /\ \A k \in 1 .. 4 : k \in 1 .. 4 + a
        /\ \A k \in 1 .. a : 4 + k \in 1 .. 4 + a
    OBVIOUS
  <2> QED
    BY <1>3, <2>2, <2>3 DEF Joined
<1>9. /\ t6[5 + a] = Token("semicolon") /\ t6[6 + a] = Token("chunks=")
      /\ \A k \in 1 .. b : t6[6 + a + k] = chunks[k]
  <2>1. \A k \in 1 .. 6 + a + b : k \in 1 .. 8 + a + b
    OBVIOUS
  <2>2. \A k \in 1 .. 6 + a + b : t6[k] = t4[k]
    BY <1>6, <1>7, <2>1 DEF Joined
  <2>3. /\ 5 + a \in 1 .. 6 + a /\ 6 + a \in 1 .. 6 + a
        /\ 5 + a \in 1 .. 6 + a + b /\ 6 + a \in 1 .. 6 + a + b
        /\ \A k \in 1 .. b : 6 + a + k \in 1 .. 6 + a + b
    OBVIOUS
  <2> QED
    BY <1>4, <1>5, <2>2, <2>3 DEF Joined
<1>10. t6[7 + a + b] = Token("semicolon") /\ t6[8 + a + b] = Token("checksum=")
  BY <1>6, <1>7 DEF Joined
<1>11. /\ t6[1] = Token("filename=") /\ t6[2] = Token("other")
       /\ t6[3] = Token("semicolon") /\ t6[4] = Token("size=")
  BY <1>2, <1>8
<1>12. t6 \in Seq(Tokens) /\ Len(t6) = 8 + a + b + c
         /\ \A k \in 1 .. c : t6[8 + a + b + k] = checksum[k]
  BY <1>7 DEF Joined
<1>13. Layout(t6, size, chunks, checksum, a, b, c)
  BY <1>8, <1>9, <1>10, <1>11, <1>12 DEF Layout
<1> QED
  BY <1>13 DEF t1, t2, t3, t4, t5, t6

\* parseTransferMetadata understands what buildTransferStartText writes: the same
\* three numbers come back, provided each is below the limit of its conversion.
THEOREM StartTextUnderstood ==
  ASSUME NEW totalSize \in Nat, NEW totalChunks \in Nat, NEW checksum \in Nat,
         totalSize < SizeLimit, totalChunks < UlongLimit, checksum < UlongLimit
  PROVE  parseTransferMetadata(buildTransferStartText(totalSize, totalChunks, checksum))
           = {[size |-> totalSize, chunks |-> totalChunks, checksum |-> checksum]}
<1> DEFINE text == buildTransferStartText(totalSize, totalChunks, checksum)
           S == digitsOf[totalSize]
           C == digitsOf[totalChunks]
           K == digitsOf[checksum]
           a == Len(S)
           b == Len(C)
           c == Len(K)
           l == 8 + a + b + c
<1>1. S \in Seq(DigitTokens) /\ C \in Seq(DigitTokens) /\ K \in Seq(DigitTokens)
  BY DigitsType
<1>2. a \in Nat /\ b \in Nat /\ c \in Nat
  BY <1>1
<1>3. /\ text \in Seq(Tokens) /\ Len(text) = l
      /\ text[1] = Token("filename=") /\ text[2] = Token("other")
      /\ text[3] = Token("semicolon") /\ text[4] = Token("size=")
      /\ \A k \in 1 .. a : text[4 + k] = S[k]
      /\ text[5 + a] = Token("semicolon") /\ text[6 + a] = Token("chunks=")
      /\ \A k \in 1 .. b : text[6 + a + k] = C[k]
      /\ text[7 + a + b] = Token("semicolon") /\ text[8 + a + b] = Token("checksum=")
      /\ \A k \in 1 .. c : text[8 + a + b + k] = K[k]
  <2> HIDE DEF S, C, K
  <2>1. text = <<Token("filename=")>> \o fileName
                       \o <<Token("semicolon"), Token("size=")>> \o S
                       \o <<Token("semicolon"), Token("chunks=")>> \o C
                       \o <<Token("semicolon"), Token("checksum=")>> \o K
    BY DEF buildTransferStartText, S, C, K
  <2> HIDE DEF text
  <2> QED
    <3>1. Layout(text, S, C, K, a, b, c)
      BY <1>1, <1>2, <2>1, TextLayout DEF a, b, c
    <3> HIDE DEF a, b, c
    <3> QED
      BY <3>1 DEF Layout
<1> HIDE DEF text, S, C, K, a, b, c
<1>4. /\ \A kind \in Kinds : Token(kind).kind = kind
      /\ \A k \in 1 .. a : S[k].kind = "digit"
      /\ \A k \in 1 .. b : C[k].kind = "digit"
  <2>1. \A t \in DigitTokens : t.kind = "digit"
    BY DEF DigitTokens, Digit
  <2> QED
    BY <1>1, <2>1 DEF a, b, Token
<1>5. l \in Nat /\ {"filename=", "other", "semicolon", "size=", "chunks=", "checksum="} \subseteq Kinds
  BY <1>2 DEF Kinds
<1>6. extractField(text, "size=") = S
  <2>1. \A p \in 1 .. 4 - 1 : p = 1 \/ p = 2 \/ p = 3
    OBVIOUS
  <2>2. \A p \in 1 .. 4 - 1 : text[p].kind # "size="
    BY <1>3, <1>4, <1>5, <2>1
  <2>3. /\ text[4].kind = "size="
        /\ 4 \in 1 .. l /\ 4 + a <= l /\ 4 + a + 1 = 5 + a
        /\ text[4 + a + 1].kind = "semicolon"
    BY <1>2, <1>3, <1>4, <1>5
  <2> QED
    <3>1. FieldAt(text, "size=", S, 4, a, l)
      BY <1>2, <1>3, <1>5, <2>2, <2>3 DEF FieldAt, a
    <3> QED
      BY <1>1, <1>3, <3>1, FieldFound
<1>7. extractField(text, "chunks=") = C
  <2>1. \A p \in 1 .. (6 + a) - 1 : p \in 1 .. 4 \/ p = 5 + a \/ \E k \in 1 .. a : p = 4 + k
    <3> TAKE p \in 1 .. (6 + a) - 1
    <3>1. CASE p \in 5 .. 4 + a
      <4>1. p - 4 \in 1 .. a /\ p = 4 + (p - 4)
        BY <1>2, <3>1
      <4> QED
        BY <4>1
    <3>2. CASE p \notin 5 .. 4 + a
      BY <1>2, <3>2
    <3> QED
      BY <3>1, <3>2
  <2>2. \A p \in 1 .. (6 + a) - 1 : text[p].kind # "chunks="
    <3>1. \A p \in 1 .. 4 : text[p].kind # "chunks="
      <4>1. \A p \in 1 .. 4 : p = 1 \/ p = 2 \/ p = 3 \/ p = 4
        OBVIOUS
      <4> QED
        BY <1>3, <1>4, <1>5, <4>1
    <3> QED
      BY <1>3, <1>4, <1>5, <2>1, <3>1
  <2>3. /\ text[6 + a].kind = "chunks="
        /\ 6 + a \in 1 .. l /\ (6 + a) + b <= l /\ (6 + a) + b + 1 = 7 + a + b
        /\ text[(6 + a) + b + 1].kind = "semicolon"
        /\ \A k \in 1 .. b : (6 + a) + k = 6 + a + k
    BY <1>2, <1>3, <1>4, <1>5
  <2>4. \A k \in 1 .. b : text[(6 + a) + k] = C[k]
    BY <1>3
  <2> QED
    <3>1. FieldAt(text, "chunks=", C, 6 + a, b, l)
      BY <1>2, <1>3, <1>5, <2>2, <2>3, <2>4 DEF FieldAt, b
    <3> QED
      BY <1>1, <1>3, <3>1, FieldFound
<1>8. extractField(text, "checksum=") = K
  <2>1. \A p \in 1 .. (8 + a + b) - 1 :
          \/ p \in 1 .. 4 \/ p = 5 + a \/ p = 6 + a \/ p = 7 + a + b
          \/ \E k \in 1 .. a : p = 4 + k
          \/ \E k \in 1 .. b : p = 6 + a + k
    <3> TAKE p \in 1 .. (8 + a + b) - 1
    <3>1. CASE p \in 5 .. 4 + a
      <4>1. p - 4 \in 1 .. a /\ p = 4 + (p - 4)
        BY <1>2, <3>1
      <4> QED
        BY <4>1
    <3>2. CASE p \in 7 + a .. 6 + a + b
      <4>1. p - (6 + a) \in 1 .. b /\ p = 6 + a + (p - (6 + a))
        BY <1>2, <3>2
      <4> QED
        BY <4>1
    <3>3. CASE p \notin 5 .. 4 + a /\ p \notin 7 + a .. 6 + a + b
      BY <1>2, <3>3
    <3> QED
      BY <3>1, <3>2, <3>3
  <2>2. \A p \in 1 .. (8 + a + b) - 1 : text[p].kind # "checksum="
    <3> TAKE p \in 1 .. (8 + a + b) - 1
    <3>1. CASE p \in 1 .. 4
      <4>1. p = 1 \/ p = 2 \/ p = 3 \/ p = 4
        BY <3>1
      <4> QED
        BY <1>3, <1>4, <1>5, <4>1
    <3>2. CASE p = 5 + a \/ p = 6 + a \/ p = 7 + a + b
      BY <1>3, <1>4, <1>5, <3>2
    <3>3. CASE \E k \in 1 .. a : p = 4 + k
      BY <1>3, <1>4, <3>3
    <3>4. CASE \E k \in 1 .. b : p = 6 + a + k
      BY <1>3, <1>4, <3>4
    <3> QED
      BY <2>1, <3>1, <3>2, <3>3, <3>4
  <2>3. /\ text[8 + a + b].kind = "checksum="
        /\ 8 + a + b \in 1 .. l /\ (8 + a + b) + c = l
    BY <1>2, <1>3, <1>4, <1>5
  <2>4. \A k \in 1 .. c : text[(8 + a + b) + k] = K[k]
    BY <1>3
  <2> QED
    <3>1. FieldAt(text, "checksum=", K, 8 + a + b, c, l)
      BY <1>2, <1>3, <1>5, <2>2, <2>3, <2>4 DEF FieldAt, c
    <3> QED
      BY <1>1, <1>3, <3>1, FieldFound
<1>9. /\ conversions(S, SizeLimit) = {totalSize}
      /\ conversions(C, UlongLimit) = {totalChunks}
      /\ conversions(K, UlongLimit) = {checksum}
  BY NumberConverted, WidthAssumption DEF S, C, K
<1>10. parseTransferMetadata(text) = [size: {totalSize}, chunks: {totalChunks}, checksum: {checksum}]
  BY <1>6, <1>7, <1>8, <1>9 DEF parseTransferMetadata
<1>11. [size: {totalSize}, chunks: {totalChunks}, checksum: {checksum}]
         = {[size |-> totalSize, chunks |-> totalChunks, checksum |-> checksum]}
  <2> DEFINE plans == [size: {totalSize}, chunks: {totalChunks}, checksum: {checksum}]
             plan  == [size |-> totalSize, chunks |-> totalChunks, checksum |-> checksum]
  <2>1. plan \in plans
    OBVIOUS
  <2>2. \A r \in plans : r = plan
    OBVIOUS
  <2> HIDE DEF plans, plan
  <2>3. plans = {plan}
    BY <2>1, <2>2
  <2> QED
    BY <2>3 DEF plans, plan
<1> QED
  BY <1>10, <1>11, Zenon DEF text

(***************************************************************************)
(* Sums and the checksum.                                                  *)
(***************************************************************************)
\* computeTotalChunks and computeChecksum of the payload, with the sizes as
\* parameters.
chunksOf(size, chunk) == IF chunk = 0 THEN 0 ELSE (size + chunk - 1) \div chunk

chunkSum(i, size, chunk) ==
  LET startOffset == i * chunk
      endOffset   == IF startOffset + chunk > size THEN size ELSE startOffset + chunk
  IN  MapThenSumSet(LAMBDA n : n % 251, startOffset .. endOffset - 1)

checksumOf(size, chunk) ==
  LET buffer == [k \in 1 .. chunksOf(size, chunk) |-> k - 1]
  IN  MapThenSumSet(LAMBDA k : chunkSum(buffer[k], size, chunk), DOMAIN buffer) % Modulus
\* f adds up, over the subsets of S, the weights of their elements.
Sums(f, S, w) ==
  f = [T \in SUBSET S |->
         IF T = {} THEN 0 ELSE w[CHOOSE x \in T : TRUE] + f[T \ {CHOOSE x \in T : TRUE}]]

\* An element taken off a finite set leaves a smaller one.
LEMMA OneLess ==
  ASSUME NEW S, IsFiniteSet(S), NEW T \in SUBSET S, T # {}
  PROVE  LET x == CHOOSE x \in T : TRUE
         IN  /\ x \in S /\ T \ {x} \in SUBSET S
             /\ Cardinality(T) \in Nat /\ Cardinality(T \ {x}) = Cardinality(T) - 1
             /\ Cardinality(T \ {x}) \in Nat
<1>1. IsFiniteSet(T) /\ (CHOOSE x \in T : TRUE) \in T
  BY FS_Subset
<1> DEFINE x == CHOOSE x \in T : TRUE
<1> HIDE DEF x
<1>2. x \in T /\ IsFiniteSet(T \ {x})
  BY <1>1, FS_Subset DEF x
<1>3. Cardinality(T) \in Nat /\ Cardinality(T \ {x}) = Cardinality(T) - 1
      /\ Cardinality(T \ {x}) \in Nat
  BY <1>1, <1>2, FS_RemoveElement, FS_CardinalityType
<1> QED
  BY <1>2, <1>3 DEF x

\* A finite set has such a sum, and whatever is one is a whole number.
LEMMA SumDefined ==
  ASSUME NEW S, IsFiniteSet(S), NEW w \in [S -> Int]
  PROVE  /\ \E f : Sums(f, S, w)
         /\ \A f : Sums(f, S, w) => f[S] \in Int
<1> DEFINE D == SUBSET S
           pick(T) == CHOOSE x \in T : TRUE
           F == [g \in [D -> Int] |-> [T \in D |->
                  IF T = {} THEN 0 ELSE w[pick(T)] + g[T \ {pick(T)}]]]
           size == [T \in D |-> Cardinality(T)]
<1>1. ASSUME NEW T \in D, T # {}
      PROVE  /\ pick(T) \in S /\ T \ {pick(T)} \in D
             /\ size[T] \in Nat /\ size[T \ {pick(T)}] = size[T] - 1
  BY <1>1, OneLess
<1>2. size \in [D -> Nat] /\ \A T \in D : size[T] = Cardinality(T)
  BY FS_Subset, FS_CardinalityType
<1>3. \A f : Sums(f, S, w) <=> f = [T \in D |->
                  IF T = {} THEN 0 ELSE w[pick(T)] + f[T \ {pick(T)}]]
  BY DEF Sums
<1> HIDE DEF pick, size
<1>4. S \in D /\ {} \in D
  OBVIOUS
<1> HIDE DEF D
<1>5. \E f : Sums(f, S, w)
  <2>1. F \in [[D -> Int] -> [D -> Int]]
    BY <1>1
  <2>2. ASSUME NEW T \in D, NEW g \in [D -> Int], NEW h \in [D -> Int],
               \A U \in D : size[U] < size[T] => g[U] = h[U]
        PROVE  F[g][T] = F[h][T]
    BY <1>1, <2>2
  <2>3. \A g : g \in [D -> Int] /\ g = F[g] => g = [T \in D |->
                  IF T = {} THEN 0 ELSE w[pick(T)] + g[T \ {pick(T)}]]
    OBVIOUS
  <2> HIDE DEF F
  <2>4. WellFounded(F, D, Int, size)
    BY <1>2, <2>1, <2>2, Zenon DEF WellFounded
  <2>5. \E g : g \in [D -> Int] /\ g = F[g]
    BY <2>4, Recursion
  <2> QED
    BY <1>3, <2>3, <2>5
<1>6. ASSUME NEW f, Sums(f, S, w)
      PROVE  f[S] \in Int
  <2>1. \A T \in D : f[T] = IF T = {} THEN 0 ELSE w[pick(T)] + f[T \ {pick(T)}]
    BY <1>3, <1>6
  <2> DEFINE good == {n \in Nat : \A T \in D : size[T] = n => f[T] \in Int}
  <2>2. 0 \in good
    <3> SUFFICES ASSUME NEW T \in D, size[T] = 0
                 PROVE  f[T] \in Int
      OBVIOUS
    <3>1. CASE T = {}
      BY <2>1, <3>1
    <3>2. CASE T # {}
      <4>1. T \ {pick(T)} \in D /\ size[T \ {pick(T)}] = size[T] - 1
        BY <1>1, <3>2
      <4>2. size[T \ {pick(T)}] \in Nat
        BY <1>2, <4>1
      <4> QED
        BY <4>1, <4>2
    <3> QED
      BY <3>1, <3>2
  <2>3. ASSUME NEW n \in Nat, n \in good
        PROVE  n + 1 \in good
    <3> SUFFICES ASSUME NEW T \in D, size[T] = n + 1
                 PROVE  f[T] \in Int
      OBVIOUS
    <3>1. CASE T = {}
      BY <2>1, <3>1
    <3>2. CASE T # {}
      <4>1. f[T \ {pick(T)}] \in Int /\ w[pick(T)] \in Int
        BY <1>1, <2>3, <3>2
      <4> QED
        BY <2>1, <3>2, <4>1
    <3> QED
      BY <3>1, <3>2
  <2> HIDE DEF good
  <2>4. \A n \in Nat : n \in good
    BY <2>2, <2>3, Induction
  <2>5. size[S] \in good
    BY <1>2, <1>4, <2>4
  <2> QED
    BY <1>4, <2>5 DEF good
<1> QED
  BY <1>5, <1>6

\* The bytes of a chunk add up to a whole number.
LEMMA ChunkSum ==
  ASSUME NEW i \in Int, NEW size \in Nat, NEW chunk \in Nat
  PROVE  chunkSum(i, size, chunk) \in Int
<1> DEFINE first == i * chunk
           last  == (IF first + chunk > size THEN size ELSE first + chunk) - 1
           S == first .. last
           w == [n \in S |-> n % 251]
           IsSum(f) == f = [T \in SUBSET S |->
             IF T = {} THEN 0
             ELSE ((CHOOSE x \in T : TRUE) % 251) + f[T \ {CHOOSE x \in T : TRUE}]]
           f == CHOOSE f : IsSum(f)
<1>1. chunkSum(i, size, chunk) = f[S]
  BY DEF chunkSum, MapThenSumSet, MapThenFoldSet
<1>2. first \in Int /\ last \in Int
  OBVIOUS
<1> HIDE DEF first, last
<1>3. IsFiniteSet(S) /\ w \in [S -> Int] /\ \A n \in S : w[n] = n % 251
  BY <1>2, FS_Interval
<1> HIDE DEF S, w
<1>4. \A T \in SUBSET S : T # {} =>
        w[CHOOSE x \in T : TRUE] = (CHOOSE x \in T : TRUE) % 251
  BY <1>3
<1>5. \A g : Sums(g, S, w) <=> IsSum(g)
  BY <1>4 DEF Sums
<1> HIDE DEF IsSum
<1>6. Sums(f, S, w)
  <2>1. \E g : IsSum(g)
    BY <1>3, <1>5, SumDefined
  <2> QED
    BY <1>5, <2>1
<1> HIDE DEF f
<1> QED
  BY <1>1, <1>3, <1>6, SumDefined

\* A checksum is below the modulus.
LEMMA ChecksumRange ==
  ASSUME NEW size \in Nat, NEW chunk \in Nat
  PROVE  checksumOf(size, chunk) \in 0 .. Modulus - 1
<1> DEFINE buffer == [k \in 1 .. chunksOf(size, chunk) |-> k - 1]
           S == DOMAIN buffer
           w == [k \in S |-> chunkSum(buffer[k], size, chunk)]
           IsSum(f) == f = [T \in SUBSET S |->
             IF T = {} THEN 0
             ELSE chunkSum(buffer[CHOOSE x \in T : TRUE], size, chunk)
                    + f[T \ {CHOOSE x \in T : TRUE}]]
           f == CHOOSE f : IsSum(f)
<1>1. checksumOf(size, chunk) = f[S] % Modulus
  BY DEF checksumOf, MapThenSumSet, MapThenFoldSet
<1>2. chunksOf(size, chunk) \in Int
  BY DEF chunksOf
<1>3. S = 1 .. chunksOf(size, chunk) /\ \A k \in S : buffer[k] \in Int
  BY <1>2
<1> HIDE DEF buffer, S
<1>4. /\ IsFiniteSet(S) /\ w \in [S -> Int]
      /\ \A k \in S : w[k] = chunkSum(buffer[k], size, chunk)
  <2>1. \A k \in S : chunkSum(buffer[k], size, chunk) \in Int
    BY <1>3, ChunkSum
  <2>2. IsFiniteSet(S)
    BY <1>2, <1>3, FS_Interval
  <2> QED
    BY <2>1, <2>2
<1> HIDE DEF w
<1>5. \A T \in SUBSET S : T # {} =>
        w[CHOOSE x \in T : TRUE] = chunkSum(buffer[CHOOSE x \in T : TRUE], size, chunk)
  BY <1>4
<1>6. \A g : Sums(g, S, w) <=> IsSum(g)
  BY <1>5 DEF Sums
<1> HIDE DEF IsSum
<1>7. Sums(f, S, w)
  <2>1. \E g : IsSum(g)
    BY <1>4, <1>6, SumDefined
  <2> QED
    BY <1>6, <2>1
<1> HIDE DEF f
<1>8. f[S] \in Int
  BY <1>4, <1>7, SumDefined
<1> QED
  BY <1>1, <1>8, PlanAssumption

(***************************************************************************)
(* The transfer.                                                           *)
(***************************************************************************)
Facts == INSTANCE PayloadProofs WITH FileSize <- fileSize, ChunkSize <- chunkSize

PlanInv ==
  /\ fileSize \in 1 .. MaxFileSize /\ chunkSize \in 1 .. MaxChunkSize
  /\ chunkCount \in 0 .. Payload!TotalChunks
  /\ startText # <<>> =>
       startText = buildTransferStartText(fileSize, Payload!TotalChunks, checksumOfBlob)
  /\ announced \in {{}, {[size     |-> fileSize,
                          chunks   |-> Payload!TotalChunks,
                          checksum |-> checksumOfBlob]}}
  /\ announced = {} => chunkCount = 0 /\ verdict = "none"
  /\ verdict \in {"none", "accepted"}

\* The count and the checksum depend on the two sizes only.
LEMMA NumbersBySizes ==
  /\ Payload!TotalChunks = chunksOf(fileSize, chunkSize)
  /\ checksumOfBlob = checksumOf(fileSize, chunkSize)
  BY DEF checksumOfBlob, blob, Payload!computeChecksum, Payload!Blob, Payload!TotalChunks,
         Payload!computeTotalChunks, Payload!chunkOffsets, Payload!blobByte,
         Payload!MapThenSumSet, Payload!MapThenFoldSet, MapThenSumSet, MapThenFoldSet,
         checksumOf, chunkSum, chunksOf

\* So a step that leaves the sizes alone leaves them alone.
LEMMA NumbersKept ==
  ASSUME UNCHANGED <<fileSize, chunkSize>>
  PROVE  Payload!TotalChunks' = Payload!TotalChunks /\ checksumOfBlob' = checksumOfBlob
<1>1. /\ Payload!TotalChunks' = chunksOf(fileSize', chunkSize')
      /\ checksumOfBlob' = checksumOf(fileSize', chunkSize')
  BY DEF checksumOfBlob, blob, Payload!computeChecksum, Payload!Blob, Payload!TotalChunks,
         Payload!computeTotalChunks, Payload!chunkOffsets, Payload!blobByte,
         Payload!MapThenSumSet, Payload!MapThenFoldSet, MapThenSumSet, MapThenFoldSet,
         checksumOf, chunkSum, chunksOf
<1> QED
  BY <1>1, NumbersBySizes

\* The numbers of a transfer are below the limits of their conversions.
LEMMA NumbersFit ==
  ASSUME fileSize \in 1 .. MaxFileSize, chunkSize \in 1 .. MaxChunkSize
  PROVE  /\ fileSize \in Nat /\ fileSize < SizeLimit
         /\ Payload!TotalChunks \in Nat /\ Payload!TotalChunks < UlongLimit
         /\ checksumOfBlob \in Nat /\ checksumOfBlob < UlongLimit
<1>1. fileSize \in Nat \ {0} /\ chunkSize \in Nat \ {0} /\ Modulus \in Nat \ {0}
  BY PlanAssumption
<1>2. Facts!TotalChunks \in Nat /\ Facts!TotalChunks <= fileSize
  BY <1>1, Facts!TotalChunksNat, Facts!NoMoreChunksThanBytes
<1>3. Facts!TotalChunks = Payload!TotalChunks
  BY DEF Facts!TotalChunks, Facts!computeTotalChunks,
         Payload!TotalChunks, Payload!computeTotalChunks
<1>4. checksumOfBlob \in 0 .. Modulus - 1
  BY <1>1, ChecksumRange, NumbersBySizes
<1> QED
  BY <1>1, <1>2, <1>3, <1>4, PlanAssumption, WidthAssumption

\* What the client has put together has the size announced when it is whole,
\* and only then; and whole it is the payload.
LEMMA OnlyWhole ==
  ASSUME fileSize \in 1 .. MaxFileSize, chunkSize \in 1 .. MaxChunkSize,
         chunkCount \in 0 .. Payload!TotalChunks
  PROVE  /\ Len(blob) = Payload!TotalChunks
         /\ Payload!bufferSize(received) = fileSize <=> chunkCount = Payload!TotalChunks
         /\ chunkCount = Payload!TotalChunks => received = blob
<1>1. fileSize \in Nat \ {0} /\ chunkSize \in Nat \ {0} /\ Modulus \in Nat \ {0}
  BY PlanAssumption
<1>2. Payload!TotalChunks \in Nat
  BY NumbersFit
<1>3. Facts!TotalChunks = Payload!TotalChunks
  BY DEF Facts!TotalChunks, Facts!computeTotalChunks,
         Payload!TotalChunks, Payload!computeTotalChunks
<1>4. Facts!bufferSize(SubSeq(Facts!Blob, 1, chunkCount)) = fileSize
        <=> chunkCount = Facts!TotalChunks
  BY <1>1, <1>3, Facts!OnlyAllChunksBringTheSize
<1>5. Facts!Blob = blob
  BY <1>3 DEF blob, Facts!Blob, Payload!Blob
<1>6. Facts!bufferSize(received) = Payload!bufferSize(received)
  BY DEF Facts!bufferSize, Payload!bufferSize, Facts!chunkOffsets, Payload!chunkOffsets,
         Facts!Cardinality, Payload!Cardinality
<1>7. Len(blob) = Payload!TotalChunks /\ SubSeq(blob, 1, Payload!TotalChunks) = blob
  BY <1>2 DEF blob, Payload!Blob
<1> QED
  BY <1>3, <1>4, <1>5, <1>6, <1>7 DEF received

\* The invariant holds at first.
LEMMA PlanInvInit == PlanInit => PlanInv
<1> SUFFICES ASSUME PlanInit
             PROVE  PlanInv
  OBVIOUS
<1>1. Payload!TotalChunks \in Nat
  BY NumbersFit DEF PlanInit
<1> QED
  BY <1>1 DEF PlanInit, PlanInv

\* The server's numbers come out of the text as they went in.
LEMMA UnderstandStep ==
  ASSUME PlanInv, Understand
  PROVE  announced' = {[size     |-> fileSize,
                        chunks   |-> Payload!TotalChunks,
                        checksum |-> checksumOfBlob]}
<1>1. startText = buildTransferStartText(fileSize, Payload!TotalChunks, checksumOfBlob)
  BY DEF PlanInv, Understand
<1> QED
  BY <1>1, NumbersFit, StartTextUnderstood DEF PlanInv, Understand

\* Every step keeps the invariant.
LEMMA PlanInvStep == PlanInv /\ [PlanNext]_planVars => PlanInv'
<1> SUFFICES ASSUME PlanInv, [PlanNext]_planVars
             PROVE  PlanInv'
  OBVIOUS
<1>1. UNCHANGED <<fileSize, chunkSize>>
  BY DEF PlanNext, Announce, Understand, TakeChunk, Verify, planVars
<1>2. Payload!TotalChunks' = Payload!TotalChunks /\ checksumOfBlob' = checksumOfBlob
  BY <1>1, NumbersKept
<1>3. Payload!TotalChunks \in Nat
  BY NumbersFit DEF PlanInv
<1>4. CASE Announce
  BY <1>1, <1>2, <1>4 DEF PlanInv, Announce
<1>5. CASE Understand
  <2>1. announced' # {}
    BY <1>5, UnderstandStep
  <2> QED
    BY <1>1, <1>2, <1>5, <2>1, UnderstandStep DEF PlanInv, Understand
<1>6. CASE TakeChunk
  BY <1>1, <1>2, <1>3, <1>6 DEF PlanInv, TakeChunk
<1>7. CASE Verify
  <2>1. PICK plan \in announced :
          /\ chunkCount = plan.chunks
          /\ verdict' = IF /\ Payload!bufferSize(received) = plan.size
                           /\ Payload!computeChecksum(received) = plan.checksum
                        THEN "accepted" ELSE "refused"
    BY <1>7 DEF Verify
  <2>2. /\ plan.size = fileSize /\ plan.chunks = Payload!TotalChunks
        /\ plan.checksum = checksumOfBlob
    BY DEF PlanInv
  <2>3. /\ Payload!bufferSize(received) = fileSize
        /\ Payload!computeChecksum(received) = checksumOfBlob
    BY <2>1, <2>2, OnlyWhole DEF PlanInv, checksumOfBlob
  <2>4. verdict' = "accepted"
    BY <2>1, <2>2, <2>3
  <2> QED
    BY <1>1, <1>2, <1>7, <2>4 DEF PlanInv, Verify
<1>8. CASE UNCHANGED planVars
  BY <1>2, <1>8 DEF PlanInv, planVars
<1> QED
  BY <1>4, <1>5, <1>6, <1>7, <1>8 DEF PlanNext

LEMMA PlanInvariant == PlanSpec => []PlanInv
  BY PlanInvInit, PlanInvStep, PTL DEF PlanSpec

\* The client reads the numbers the server wrote, whatever they are below the
\* limits of the conversions.
THEOREM PlanUnderstood == PlanSpec => []AnnouncementUnderstood
<1>1. PlanInv => AnnouncementUnderstood
  BY DEF PlanInv, AnnouncementUnderstood
<1> QED
  BY <1>1, PlanInvariant, PTL

\* The chunks of every transfer are not empty, fit a chunk, do not overlap and
\* leave no byte out.
THEOREM PlanPartitioned == PlanSpec => []ChunksPartitionPayload
<1>1. ASSUME PlanInv
      PROVE  ChunksPartitionPayload
  <2>1. fileSize \in Nat \ {0} /\ chunkSize \in Nat \ {0} /\ Modulus \in Nat \ {0}
    BY <1>1, PlanAssumption DEF PlanInv
  <2>2. Facts!ChunksPartition
    BY <2>1, Facts!ChunksPartitionEveryPayload
  <2> QED
    BY <2>2 DEF ChunksPartitionPayload, Facts!ChunksPartition, Payload!ChunksPartition,
                Facts!TotalChunks, Payload!TotalChunks, Facts!computeTotalChunks,
                Payload!computeTotalChunks, Facts!chunkOffsets, Payload!chunkOffsets,
                Facts!Cardinality, Payload!Cardinality
<1> QED
  BY <1>1, PlanInvariant, PTL

\* The client refuses no transfer, and with fewer chunks than all of them it has
\* less than the size announced.
THEOREM PlanAccepted == PlanSpec => []AcceptedExactlyWhenWhole
<1>1. PlanInv => AcceptedExactlyWhenWhole
  BY OnlyWhole DEF PlanInv, AcceptedExactlyWhenWhole
<1> QED
  BY <1>1, PlanInvariant, PTL
=============================================================================
