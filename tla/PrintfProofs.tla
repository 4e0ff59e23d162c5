---------------------------- MODULE PrintfProofs ----------------------------
(***************************************************************************)
(* Theorems about StringLib, for every memory and every alphabet, and      *)
(* about Printf, for every format, argument and width of the types: the    *)
(* string functions do what C says, and a call of console_printf prints    *)
(* its items in order, each from its own argument.                         *)
(*                                                                         *)
(* A loop of the code is a recursive function of the model.  That it is    *)
(* defined comes from a function by recursion on the naturals, which the   *)
(* first lemmas construct; what it computes from induction on its passes,  *)
(* by the least pass at which the claim would fail.  For console_printf    *)
(* the invariant is that after some number of items what they print is     *)
(* out, and that the format and the arguments left are the other items'    *)
(* own: then one pass of the loop reads the next item back from its        *)
(* spelling, flags, width and all, and takes just its characters.          *)
(***************************************************************************)
EXTENDS Printf, SequenceTheorems, FiniteSetTheorems, TLAPS

----------------------------------------------------------------------------
(* Induction, on sets of naturals, and functions defined by recursion.     *)

(* A nonempty set of naturals has a least element.                         *)
LEMMA Least ==
  ASSUME NEW S, S \subseteq Nat, S # {}
  PROVE  \E m \in S : \A n \in S : m <= n
<1> DEFINE Upto(n) == 0 .. n
           T == {Upto(n) : n \in S}
<1>1. T \subseteq FiniteSubsetsOf(Nat) /\ T # {}
  <2>1. ASSUME NEW n \in S PROVE Upto(n) \subseteq Nat /\ IsFiniteSet(Upto(n))
    <3>1. 0 \in Int /\ n \in Int
      OBVIOUS
    <3>2. IsFiniteSet(0 .. n)
      BY <3>1, FS_Interval
    <3> QED BY <3>2
  <2> HIDE DEF Upto
  <2> QED BY <2>1 DEF FiniteSubsetsOf
<1>2. PICK x \in T : \A y \in T : ~(<<y, x>> \in StrictSubsetOrdering(Nat))
  <2> HIDE DEF T
  <2> QED BY <1>1, FS_StrictSubsetOrderingWellFounded, WFMin
<1>3. PICK m \in S : x = Upto(m)
  OBVIOUS
<1>4. ASSUME NEW n \in S, n < m PROVE FALSE
  <2>1. Upto(n) \subseteq Upto(m) /\ Upto(n) # Upto(m)
    BY <1>4
  <2>2. <<Upto(n), Upto(m)>> \in StrictSubsetOrdering(Nat)
    BY <2>1 DEF StrictSubsetOrdering
  <2> QED BY <1>2, <1>3, <2>2
<1> QED BY <1>4

LEMMA Induction ==
  ASSUME NEW S, 0 \in S, \A n \in Nat : n \in S => n + 1 \in S
  PROVE  Nat \subseteq S
<1> DEFINE Rest == Nat \ S
<1>1. SUFFICES ASSUME Rest # {} PROVE FALSE
  OBVIOUS
<1>2. PICK m \in Rest : \A n \in Rest : m <= n
  <2>1. Rest \subseteq Nat
    OBVIOUS
  <2> HIDE DEF Rest
  <2> QED BY <1>1, <2>1, Least
<1>3. m - 1 \in Nat /\ (m - 1) + 1 = m /\ ~(m <= m - 1)
  BY <1>2
<1>4. m - 1 \in S
  BY <1>2, <1>3
<1>5. m \in S
  BY <1>3, <1>4
<1> QED BY <1>2, <1>5

LEMMA MinIs ==
  ASSUME NEW S, S \subseteq Int, NEW m \in S, \A y \in S : m <= y
  PROVE  Min(S) = m
<1>1. \A y \in S : y <= m => y = m
  OBVIOUS
<1> QED BY <1>1 DEF Min

Search(f, Stop, v) == \A k \in Nat : f[k] = IF k \in Stop THEN v[k] ELSE f[k + 1]

(* A function by recursion upwards, that stops in the set Stop, exists,    *)
(* and has at 0 the value of the first stop.                               *)
LEMMA SearchExists ==
  ASSUME NEW Stop, NEW X, NEW v \in [Nat -> X]
  PROVE  \E f \in [Nat -> X] : Search(f, Stop, v)
<1> DEFINE Stops(k) == {i \in Nat : i >= k /\ i \in Stop}
           g == [k \in Nat |-> IF Stops(k) = {} THEN v[0] ELSE v[Min(Stops(k))]]
<1>1. ASSUME NEW k \in Nat PROVE g[k] = IF k \in Stop THEN v[k] ELSE g[k + 1]
  <2>1. CASE k \in Stop
    <3>1. k \in Stops(k) /\ \A i \in Stops(k) : k <= i
      BY <2>1
    <3>2. \A i \in Stops(k) : i <= k => i = k
      OBVIOUS
    <3> HIDE DEF Stops
    <3>3. Min(Stops(k)) = k
      BY <3>1, <3>2 DEF Min
    <3> QED BY <2>1, <3>1, <3>3
  <2>2. CASE k \notin Stop
    <3>1. Stops(k) = Stops(k + 1)
      BY <2>2
    <3> HIDE DEF Stops
    <3> QED BY <2>2, <3>1
  <2> QED BY <2>1, <2>2
<1>2. g \in [Nat -> X]
  <2>1. ASSUME NEW k \in Nat, Stops(k) # {} PROVE v[Min(Stops(k))] \in X
    <3>1. Stops(k) \subseteq Nat /\ Stops(k) \subseteq Int
      OBVIOUS
    <3> HIDE DEF Stops
    <3>2. PICK m \in Stops(k) : \A n \in Stops(k) : m <= n
      BY <2>1, <3>1, Least
    <3>3. Min(Stops(k)) = m
      BY <3>1, <3>2, MinIs
    <3> QED BY <3>1, <3>2, <3>3
  <2> HIDE DEF Stops
  <2> QED BY <2>1
<1> HIDE DEF g
<1> QED BY <1>1, <1>2 DEF Search

LEMMA SearchFinds ==
  ASSUME NEW Stop, NEW v, NEW f,
         Search(f, Stop, v),
         NEW e \in Nat, e \in Stop, \A j \in 0 .. (e - 1) : j \notin Stop
  PROVE  f[0] = v[e]
<1> DEFINE S == {i \in Nat : i <= e => f[e - i] = v[e]}
<1> USE DEF Search
<1>1. 0 \in S
  OBVIOUS
<1>2. ASSUME NEW n \in Nat, n \in S PROVE n + 1 \in S
  <2>1. SUFFICES ASSUME n + 1 <= e PROVE f[e - (n + 1)] = v[e]
    OBVIOUS
  <2>2. e - (n + 1) \in 0 .. (e - 1) /\ (e - (n + 1)) + 1 = e - n /\ n <= e
    BY <2>1
  <2>3. f[e - (n + 1)] = f[e - n]
    BY <2>2
  <2> QED BY <1>2, <2>2, <2>3
<1>3. e \in S
  <2> HIDE DEF S
  <2> QED BY <1>1, <1>2, Induction
<1> QED BY <1>3

Recursion(f, x, step) == f[0] = x /\ \A n \in Nat : f[n + 1] = step[n][f[n]]

(* A function by recursion downwards exists.                               *)
LEMMA RecursionExists ==
  ASSUME NEW X, NEW x \in X, NEW step \in [Nat -> [X -> X]]
  PROVE  \E f \in [Nat -> X] : Recursion(f, x, step)
<1> DEFINE Upto(f, n) == /\ f \in [0 .. n -> X] /\ f[0] = x
                         /\ \A k \in 0 .. (n - 1) : f[k + 1] = step[k][f[k]]
           S == {n \in Nat : \E f : Upto(f, n)}
<1>1. 0 \in S
  <2>1. Upto([k \in 0 .. 0 |-> x], 0)
    OBVIOUS
  <2> QED BY <2>1
<1>2. ASSUME NEW n \in Nat, n \in S PROVE n + 1 \in S
  <2>1. PICK f : Upto(f, n)
    BY <1>2
  <2> DEFINE g == [k \in 0 .. (n + 1) |-> IF k = n + 1 THEN step[n][f[n]] ELSE f[k]]
  <2>2. f[n] \in X /\ step[n][f[n]] \in X
    BY <2>1
  <2>3. g \in [0 .. (n + 1) -> X]
    BY <2>1, <2>2
  <2>4. g[0] = x
    BY <2>1
  <2>5. ASSUME NEW k \in 0 .. ((n + 1) - 1) PROVE g[k + 1] = step[k][g[k]]
    <3>1. g[k] = f[k] /\ k + 1 \in 0 .. (n + 1)
      BY <2>5
    <3>2. CASE k = n
      BY <3>1, <3>2
    <3>3. CASE k # n
      <4>1. k \in 0 .. (n - 1) /\ k + 1 # n + 1
        BY <2>5, <3>3
      <4>2. g[k + 1] = f[k + 1]
        BY <3>1, <4>1
      <4> QED BY <2>1, <3>1, <4>1, <4>2
    <3> QED BY <3>2, <3>3
  <2> HIDE DEF g
  <2>6. Upto(g, n + 1)
    BY <2>3, <2>4, <2>5
  <2> QED BY <2>6
<1>3. Nat \subseteq S
  <2> HIDE DEF S
  <2> QED BY <1>1, <1>2, Induction
<1>4. ASSUME NEW n \in Nat, NEW m \in Nat, n <= m, NEW f, Upto(f, n), NEW g, Upto(g, m),
             NEW i \in 0 .. n
      PROVE  f[i] = g[i]
  <2> DEFINE T == {k \in Nat : k <= n => f[k] = g[k]}
  <2>1. 0 \in T
    BY <1>4
  <2>2. ASSUME NEW k \in Nat, k \in T PROVE k + 1 \in T
    <3>1. SUFFICES ASSUME k + 1 <= n PROVE f[k + 1] = g[k + 1]
      OBVIOUS
    <3>2. k \in 0 .. (n - 1) /\ k \in 0 .. (m - 1) /\ k <= n
      BY <1>4, <3>1
    <3> QED BY <1>4, <2>2, <3>2
  <2>3. i \in T
    <3> HIDE DEF T
    <3> QED BY <2>1, <2>2, Induction
  <2> QED BY <2>3
<1> DEFINE F(n) == CHOOSE f : Upto(f, n)
           h == [n \in Nat |-> F(n)[n]]
<1>5. \A n \in Nat : Upto(F(n), n)
  <2> HIDE DEF Upto
  <2>1. ASSUME NEW n \in Nat PROVE \E f : Upto(f, n)
    BY <1>3
  <2> QED BY <2>1
<1>6. \A n \in Nat : F(n)[n] \in X
  <2> HIDE DEF F
  <2> QED BY <1>5
<1>7. F(0)[0] = x
  <2> HIDE DEF F
  <2> QED BY <1>5
<1>8. ASSUME NEW n \in Nat PROVE F(n + 1)[n + 1] = step[n][F(n)[n]]
  <2> HIDE DEF F
  <2>1. Upto(F(n), n) /\ Upto(F(n + 1), n + 1)
    BY <1>5
  <2>2. F(n)[n] = F(n + 1)[n]
    <3> HIDE DEF Upto
    <3> QED BY <1>4, <2>1
  <2>3. F(n + 1)[n + 1] = step[n][F(n + 1)[n]]
    BY <2>1
  <2> QED BY <2>2, <2>3
<1> HIDE DEF F
<1>9. h \in [Nat -> X] /\ h[0] = x /\ \A n \in Nat : h[n + 1] = step[n][h[n]]
  BY <1>6, <1>7, <1>8
<1> QED BY <1>9 DEF Recursion

(* Two functions that start alike and go on alike end alike.               *)
LEMMA SameEnd ==
  ASSUME NEW n \in Nat, NEW f, NEW g, f[0] = g[0],
         \A k \in 1 .. n : f[k - 1] = g[k - 1] => f[k] = g[k]
  PROVE  f[n] = g[n]
<1> DEFINE S == {k \in Nat : k <= n => f[k] = g[k]}
<1>1. 0 \in S
  OBVIOUS
<1>2. ASSUME NEW k \in Nat, k \in S PROVE k + 1 \in S
  <2>1. SUFFICES ASSUME k + 1 <= n PROVE f[k + 1] = g[k + 1]
    OBVIOUS
  <2>2. k + 1 \in 1 .. n /\ (k + 1) - 1 = k /\ f[k] = g[k]
    BY <1>2, <2>1
  <2> QED BY <2>2
<1>3. n \in S
  <2> HIDE DEF S
  <2> QED BY <1>1, <1>2, Induction
<1> QED BY <1>3

LEMMA MinOfTwo ==
  ASSUME NEW a \in Int, NEW b \in Int
  PROVE  Min({a, b}) = IF a <= b THEN a ELSE b
<1>1. CASE a <= b
  <2>1. Min({a, b}) = a
    BY <1>1, MinIs
  <2> QED BY <1>1, <2>1
<1>2. CASE ~(a <= b)
  <2>1. b <= a
    BY <1>2
  <2>2. Min({a, b}) = b
    BY <2>1, MinIs
  <2> QED BY <1>2, <2>2
<1> QED BY <1>1, <1>2

----------------------------------------------------------------------------
(* Characters and strings. *)

LEMMA NulCode == NUL \in Char /\ Code[NUL] = 0 /\ SIZE \in Nat
<1>1. 0 \in 0 .. (BYTE - 1)
  BY CodeAssumption
<1>2. PICK c \in Char : Code[c] = 0
  BY <1>1, CodeAssumption
<1> QED BY <1>2, CodeAssumption DEF NUL

LEMMA ByteIsChar ==
  ASSUME NEW v \in Int
  PROVE  Byte(v) \in Char
<1>1. v % BYTE \in 0 .. (BYTE - 1)
  BY CodeAssumption
<1>2. PICK c \in Char : Code[c] = v % BYTE
  BY <1>1, CodeAssumption
<1> QED BY <1>2 DEF Byte

LEMMA ByteZero == Byte(0) = NUL
<1>1. 0 % BYTE = 0
  BY CodeAssumption
<1> QED BY <1>1 DEF Byte, NUL

MemoryOk == memory \in [Pointer -> Char]

LEMMA MemoryIsSeq ==
  ASSUME MemoryOk
  PROVE  memory \in Seq(Char) /\ Len(memory) = SIZE
BY NulCode DEF MemoryOk, Pointer

(* Where a string ends.                                                    *)
LEMMA StringEnds ==
  ASSUME MemoryOk, NEW p, IsString(p)
  PROVE  \E e \in Nat :
           /\ p \in Pointer /\ p + e \in Pointer /\ memory[p + e] = NUL
           /\ \A j \in 0 .. (e - 1) : memory[p + j] # NUL
           /\ StringAt(p) \in Seq(Char) /\ Len(StringAt(p)) = e + 1
           /\ \A i \in 1 .. (e + 1) : StringAt(p)[i] = memory[p + i - 1]
<1> DEFINE S == {i \in p .. SIZE : memory[i] = NUL}
<1>1. p \in Nat /\ p >= 1 /\ p <= SIZE /\ SIZE \in Nat /\ S # {} /\ S \subseteq Nat /\ S \subseteq Int
  BY NulCode DEF IsString, Pointer
<1>2. PICK z \in S : \A y \in S : z <= y
  <2> HIDE DEF S
  <2> QED BY <1>1, Least
<1>3. Min(S) = z
  <2> HIDE DEF S
  <2> QED BY <1>1, <1>2, MinIs
<1>4. StringAt(p) = SubSeq(memory, p, z)
  BY <1>3 DEF StringAt
<1>5. z \in p .. SIZE /\ memory[z] = NUL
  OBVIOUS
<1>6. ASSUME NEW j \in 0 .. ((z - p) - 1) PROVE memory[p + j] # NUL
  <2>1. p + j \in p .. SIZE /\ ~(z <= p + j)
    BY <1>1, <1>5
  <2> QED BY <1>2, <2>1
<1>7. /\ SubSeq(memory, p, z) \in Seq(Char)
      /\ Len(SubSeq(memory, p, z)) = (z - p) + 1
      /\ \A i \in 1 .. ((z - p) + 1) : SubSeq(memory, p, z)[i] = memory[p + i - 1]
  <2>1. p \in 1 .. (Len(memory) + 1) /\ z \in (p - 1) .. Len(memory)
    BY <1>1, <1>5, MemoryIsSeq
  <2> HIDE DEF S
  <2>2. /\ Len(SubSeq(memory, p, z)) = z - p + 1
        /\ \A i \in 1 .. (z - p + 1) : SubSeq(memory, p, z)[i] = memory[p + i - 1]
        /\ SubSeq(memory, p, z) \in Seq(Char)
    BY <2>1, <1>1, MemoryIsSeq, SubSeqProperties
  <2> QED BY <2>2
<1>8. z - p \in Nat /\ p + (z - p) = z
  BY <1>1, <1>5
<1>9. z \in Pointer /\ p \in Pointer
  BY <1>1, <1>5 DEF Pointer
<1> HIDE DEF S
<1> QED BY <1>4, <1>5, <1>6, <1>7, <1>8, <1>9

LEMMA StrlenExact ==
  ASSUME MemoryOk, NEW p, NEW e \in Nat, memory[p + e] = NUL,
         \A j \in 0 .. (e - 1) : memory[p + j] # NUL
  PROVE  strlen(memory, p) = e
<1> DEFINE Stop == {k \in Nat : memory[p + k] = NUL}
           v == [k \in Nat |-> k]
           Q(f) == [len \in Nat |-> IF memory[p + len] = NUL THEN len ELSE f[len + 1]]
           Count == CHOOSE f : f = Q(f)
<1>1. \E f : f = Q(f)
  <2>1. PICK f \in [Nat -> Nat] : Search(f, Stop, v)
    <3>1. v \in [Nat -> Nat]
      OBVIOUS
    <3> HIDE DEF Stop, v
    <3> QED BY <3>1, SearchExists
  <2>2. \A k \in Nat : f[k] = IF memory[p + k] = NUL THEN k ELSE f[k + 1]
    BY <2>1 DEF Search
  <2>3. f = Q(f)
    BY <2>1, <2>2
  <2> QED BY <2>3
<1>2. Count = Q(Count)
  <2> HIDE DEF Q
  <2> QED BY <1>1
<1>3. Search(Count, Stop, v)
  <2> HIDE DEF Count
  <2> QED BY <1>2 DEF Search
<1>4. e \in Stop /\ \A j \in 0 .. (e - 1) : j \notin Stop
  OBVIOUS
<1>5. Count[0] = v[e]
  <2> HIDE DEF Stop, v, Count
  <2> QED BY <1>3, <1>4, SearchFinds
<1>6. strlen(memory, p) = Count[0]
  BY DEF strlen
<1> QED BY <1>5, <1>6

LEMMA MinOfSome ==
  ASSUME NEW S, S \subseteq Nat, S # {}
  PROVE  Min(S) \in S /\ \A y \in S : Min(S) <= y
<1>1. PICK m \in S : \A y \in S : m <= y
  BY Least
<1>2. S \subseteq Int
  OBVIOUS
<1>3. Min(S) = m
  BY <1>1, <1>2, MinIs
<1> QED BY <1>1, <1>3

(* The loop of strncmp ends at the first pass that does not go on.         *)
LEMMA StrncmpStops ==
  ASSUME NEW p, NEW q, NEW n \in Nat, NEW e \in 0 .. n,
         e = n \/ memory[p + e] = NUL \/ memory[p + e] # memory[q + e],
         \A j \in 0 .. (e - 1) : memory[p + j] # NUL /\ memory[p + j] = memory[q + j]
  PROVE  strncmp(memory, p, q, n) =
           IF e = n THEN 0 ELSE Code[memory[p + e]] - Code[memory[q + e]]
<1> DEFINE Stop == {k \in Nat : k = n \/ memory[p + k] = NUL \/ memory[p + k] # memory[q + k]}
           v == [k \in Nat |-> IF k = n THEN 0 ELSE Code[memory[p + k]] - Code[memory[q + k]]]
           X == {v[k] : k \in Nat}
           Q(f) == [k \in Nat |->
                      IF k = n THEN 0
                      ELSE IF memory[p + k] # NUL /\ memory[p + k] = memory[q + k] THEN f[k + 1]
                      ELSE Code[memory[p + k]] - Code[memory[q + k]]]
           From == CHOOSE f : f = Q(f)
<1>1. \E f : f = Q(f)
  <2>1. PICK f \in [Nat -> X] : Search(f, Stop, v)
    <3>1. v \in [Nat -> X]
      OBVIOUS
    <3> HIDE DEF Stop, v, X
    <3> QED BY <3>1, SearchExists
  <2>2. \A k \in Nat : f[k] = IF k = n THEN 0
                              ELSE IF memory[p + k] # NUL /\ memory[p + k] = memory[q + k]
                              THEN f[k + 1]
                              ELSE Code[memory[p + k]] - Code[memory[q + k]]
    <3> HIDE DEF X
    <3> QED BY <2>1 DEF Search
  <2>3. f = Q(f)
    <3> HIDE DEF X
    <3> QED BY <2>1, <2>2
  <2> QED BY <2>3
<1>2. From = Q(From)
  <2> HIDE DEF Q
  <2> QED BY <1>1
<1>3. Search(From, Stop, v)
  <2> HIDE DEF From
  <2> QED BY <1>2 DEF Search
<1>4. e \in Stop /\ e \in Nat /\ \A j \in 0 .. (e - 1) : j \notin Stop
  OBVIOUS
<1>5. From[0] = v[e]
  <2> HIDE DEF Stop, v, From
  <2> QED BY <1>3, <1>4, SearchFinds
<1>6. strncmp(memory, p, q, n) = From[0]
  BY DEF strncmp
<1> HIDE DEF From
<1> QED BY <1>5, <1>6

(* And that of memcmp.                                                     *)
LEMMA MemcmpStops ==
  ASSUME NEW p, NEW q, NEW n \in Nat, NEW e \in 0 .. n,
         e = n \/ memory[p + e] # memory[q + e],
         \A j \in 0 .. (e - 1) : memory[p + j] = memory[q + j]
  PROVE  memcmp(memory, p, q, n) =
           IF e = n THEN 0 ELSE Code[memory[p + e]] - Code[memory[q + e]]
<1> DEFINE Stop == {k \in Nat : k = n \/ memory[p + k] # memory[q + k]}
           v == [k \in Nat |-> IF k = n THEN 0 ELSE Code[memory[p + k]] - Code[memory[q + k]]]
           X == {v[k] : k \in Nat}
           Q(f) == [k \in Nat |->
                      IF k = n THEN 0
                      ELSE IF memory[p + k] = memory[q + k] THEN f[k + 1]
                      ELSE Code[memory[p + k]] - Code[memory[q + k]]]
           From == CHOOSE f : f = Q(f)
<1>1. \E f : f = Q(f)
  <2>1. PICK f \in [Nat -> X] : Search(f, Stop, v)
    <3>1. v \in [Nat -> X]
      OBVIOUS
    <3> HIDE DEF Stop, v, X
    <3> QED BY <3>1, SearchExists
  <2>2. \A k \in Nat : f[k] = IF k = n THEN 0
                              ELSE IF memory[p + k] = memory[q + k] THEN f[k + 1]
                              ELSE Code[memory[p + k]] - Code[memory[q + k]]
    <3> HIDE DEF X
    <3> QED BY <2>1 DEF Search
  <2>3. f = Q(f)
    <3> HIDE DEF X
    <3> QED BY <2>1, <2>2
  <2> QED BY <2>3
<1>2. From = Q(From)
  <2> HIDE DEF Q
  <2> QED BY <1>1
<1>3. Search(From, Stop, v)
  <2> HIDE DEF From
  <2> QED BY <1>2 DEF Search
<1>4. e \in Stop /\ e \in Nat /\ \A j \in 0 .. (e - 1) : j \notin Stop
  OBVIOUS
<1>5. From[0] = v[e]
  <2> HIDE DEF Stop, v, From
  <2> QED BY <1>3, <1>4, SearchFinds
<1>6. memcmp(memory, p, q, n) = From[0]
  BY DEF memcmp
<1> HIDE DEF From
<1> QED BY <1>5, <1>6

LEMMA SameNoDifference ==
  ASSUME NEW s, NEW t, Len(s) \in Nat, Len(t) \in Nat,
         \A i \in 1 .. Len(s) : i <= Len(t) => s[i] = t[i]
  PROVE  Difference(s, t) = 0
<1> DEFINE differ == {i \in 1 .. Min({Len(s), Len(t)}) : s[i] # t[i]}
<1>1. Min({Len(s), Len(t)}) = IF Len(s) <= Len(t) THEN Len(s) ELSE Len(t)
  BY MinOfTwo
<1>2. differ = {}
  BY <1>1
<1> QED BY <1>2 DEF Difference

LEMMA FirstDifference ==
  ASSUME NEW s, NEW t, Len(s) \in Nat, Len(t) \in Nat, NEW i \in 1 .. Len(s), i <= Len(t),
         s[i] # t[i], \A j \in 1 .. (i - 1) : s[j] = t[j]
  PROVE  Difference(s, t) = Code[s[i]] - Code[t[i]]
<1> DEFINE differ == {j \in 1 .. Min({Len(s), Len(t)}) : s[j] # t[j]}
<1>1. Min({Len(s), Len(t)}) = IF Len(s) <= Len(t) THEN Len(s) ELSE Len(t)
  BY MinOfTwo
<1>2. i \in differ /\ differ \subseteq Int
  BY <1>1
<1>3. ASSUME NEW j \in differ PROVE i <= j
  BY <1>1
<1>4. Min(differ) = i
  <2> HIDE DEF differ
  <2> QED BY <1>2, <1>3, MinIs
<1>5. Difference(s, t) = IF differ = {} THEN 0 ELSE Code[s[Min(differ)]] - Code[t[Min(differ)]]
  BY DEF Difference
<1> HIDE DEF differ
<1> QED BY <1>2, <1>4, <1>5

LEMMA FirstOf ==
  ASSUME NEW s, s \in Seq(Char), NEW n \in Nat
  PROVE  /\ Len(First(s, n)) = IF n <= Len(s) THEN n ELSE Len(s)
         /\ \A i \in 1 .. Len(s) : i <= n => First(s, n)[i] = s[i]
         /\ First(s, n) \in Seq(Char)
         /\ Len(s) <= n => First(s, n) = s
<1> DEFINE l == IF n <= Len(s) THEN n ELSE Len(s)
<1>1. Len(s) \in Nat
  BY LenProperties
<1>2. Min({n, Len(s)}) = l
  BY <1>1, MinOfTwo
<1>3. l \in Nat /\ 1 \in 1 .. (Len(s) + 1) /\ l \in (1 - 1) .. Len(s) /\ (l - 1) + 1 = l
  BY <1>1
<1>4. First(s, n) = SubSeq(s, 1, l)
  BY <1>2 DEF First
<1>5. /\ SubSeq(s, 1, l) \in Seq(Char)
      /\ Len(SubSeq(s, 1, l)) = l
      /\ \A i \in 1 .. l : SubSeq(s, 1, l)[i] = s[i]
  <2> HIDE DEF l
  <2>1. /\ SubSeq(s, 1, l) \in Seq(Char)
        /\ Len(SubSeq(s, 1, l)) = l - 1 + 1
        /\ \A i \in 1 .. (l - 1 + 1) : SubSeq(s, 1, l)[i] = s[1 + i - 1]
    BY <1>3, SubSeqProperties
  <2>2. \A i \in 1 .. l : i \in 1 .. (l - 1 + 1) /\ 1 + i - 1 = i
    BY <1>3
  <2> QED BY <1>3, <2>1, <2>2
<1>6. \A i \in 1 .. Len(s) : i <= n => i \in 1 .. l
  BY <1>1
<1>7. Len(s) <= n => l = Len(s)
  BY <1>1
<1> HIDE DEF l
<1>8. ASSUME Len(s) <= n PROVE SubSeq(s, 1, l) = s
  BY <1>5, <1>7, <1>8, SeqEqual
<1> QED BY <1>2, <1>4, <1>5, <1>6, <1>7, <1>8 DEF l

(* strncmp returns the difference of the first n bytes of the strings.     *)
LEMMA StrncmpExact ==
  ASSUME MemoryOk, NEW p, NEW q, IsString(p), IsString(q), NEW n \in Nat
  PROVE  strncmp(memory, p, q, n) = Difference(First(StringAt(p), n), First(StringAt(q), n))
<1>1. PICK a \in Nat :
        /\ p \in Pointer /\ p + a \in Pointer /\ memory[p + a] = NUL
        /\ \A j \in 0 .. (a - 1) : memory[p + j] # NUL
        /\ StringAt(p) \in Seq(Char) /\ Len(StringAt(p)) = a + 1
        /\ \A i \in 1 .. (a + 1) : StringAt(p)[i] = memory[p + i - 1]
  BY StringEnds
<1>2. PICK b \in Nat :
        /\ q \in Pointer /\ q + b \in Pointer /\ memory[q + b] = NUL
        /\ \A j \in 0 .. (b - 1) : memory[q + j] # NUL
        /\ StringAt(q) \in Seq(Char) /\ Len(StringAt(q)) = b + 1
        /\ \A i \in 1 .. (b + 1) : StringAt(q)[i] = memory[q + i - 1]
  BY StringEnds
<1> DEFINE s == First(StringAt(p), n)
           t == First(StringAt(q), n)
           Stops == {k \in Nat : k = n \/ memory[p + k] = NUL \/ memory[p + k] # memory[q + k]}
<1>3. PICK e \in Stops : \A k \in Stops : e <= k
  <2>1. n \in Stops /\ Stops \subseteq Nat
    OBVIOUS
  <2> HIDE DEF Stops
  <2> QED BY <2>1, Least
<1>4. e \in 0 .. n
  BY <1>3
<1>5. ASSUME NEW j \in 0 .. (e - 1) PROVE memory[p + j] # NUL /\ memory[p + j] = memory[q + j]
  <2>1. j \in Nat /\ ~(e <= j) /\ j # n
    BY <1>4
  <2>2. j \notin Stops
    BY <1>3, <2>1
  <2> QED BY <2>1, <2>2
<1>6. e = n \/ memory[p + e] = NUL \/ memory[p + e] # memory[q + e]
  BY <1>3
<1>7. strncmp(memory, p, q, n) = IF e = n THEN 0 ELSE Code[memory[p + e]] - Code[memory[q + e]]
  BY <1>4, <1>5, <1>6, StrncmpStops
<1> HIDE DEF Stops
<1>8. e <= a /\ e <= b
  <2>1. a \in 0 .. (e - 1) => FALSE
    BY <1>1, <1>5
  <2>2. b \in 0 .. (e - 1) => FALSE
    BY <1>2, <1>5
  <2> QED BY <1>4, <2>1, <2>2
<1>9. /\ Len(s) = IF n <= a + 1 THEN n ELSE a + 1
      /\ \A i \in 1 .. (a + 1) : i <= n => s[i] = memory[p + i - 1]
  <2> DEFINE w == StringAt(p)
  <2>1. /\ w \in Seq(Char) /\ Len(w) = a + 1
        /\ \A i \in 1 .. (a + 1) : w[i] = memory[p + i - 1]
    BY <1>1
  <2> HIDE DEF w
  <2>2. /\ Len(First(w, n)) = IF n <= Len(w) THEN n ELSE Len(w)
        /\ \A i \in 1 .. Len(w) : i <= n => First(w, n)[i] = w[i]
        /\ First(w, n) \in Seq(Char)
    BY <2>1, FirstOf
  <2> QED BY <2>1, <2>2 DEF s, w
<1>10. /\ Len(t) = IF n <= b + 1 THEN n ELSE b + 1
       /\ \A i \in 1 .. (b + 1) : i <= n => t[i] = memory[q + i - 1]
  <2> DEFINE w == StringAt(q)
  <2>1. /\ w \in Seq(Char) /\ Len(w) = b + 1
        /\ \A i \in 1 .. (b + 1) : w[i] = memory[q + i - 1]
    BY <1>2
  <2> HIDE DEF w
  <2>2. /\ Len(First(w, n)) = IF n <= Len(w) THEN n ELSE Len(w)
        /\ \A i \in 1 .. Len(w) : i <= n => First(w, n)[i] = w[i]
        /\ First(w, n) \in Seq(Char)
    BY <2>1, FirstOf
  <2> QED BY <2>1, <2>2 DEF t, w
<1> HIDE DEF s, t
<1>11. ASSUME NEW i \in 1 .. e PROVE s[i] = t[i]
  <2>1. i - 1 \in 0 .. (e - 1) /\ i \in 1 .. (a + 1) /\ i \in 1 .. (b + 1) /\ i <= n
    BY <1>4, <1>8
  <2>2. p + i - 1 = p + (i - 1) /\ q + i - 1 = q + (i - 1)
    BY <1>1, <1>2 DEF Pointer
  <2> QED BY <1>5, <1>9, <1>10, <2>1, <2>2
<1>12. Len(s) \in Nat /\ Len(t) \in Nat
  BY <1>9, <1>10
<1>13. CASE e = n
  <2>1. \A i \in 1 .. Len(s) : i \in 1 .. e
    BY <1>8, <1>9, <1>13
  <2>2. Difference(s, t) = 0
    BY <1>11, <1>12, <2>1, SameNoDifference
  <2> QED BY <1>7, <1>13, <2>2 DEF s, t
<1>14. CASE e # n
  <2>1. e + 1 \in 1 .. Len(s) /\ e + 1 \in 1 .. Len(t) /\ e + 1 <= n
    BY <1>4, <1>8, <1>9, <1>10, <1>14
  <2>2. s[e + 1] = memory[p + e] /\ t[e + 1] = memory[q + e]
    <3>1. e + 1 \in 1 .. (a + 1) /\ e + 1 \in 1 .. (b + 1)
      BY <1>4, <1>8
    <3>2. p + (e + 1) - 1 = p + e /\ q + (e + 1) - 1 = q + e
      BY <1>1, <1>2, <1>4 DEF Pointer
    <3> QED BY <1>9, <1>10, <2>1, <3>1, <3>2
  <2>3. CASE memory[p + e] # memory[q + e]
    <3>1. \A j \in 1 .. ((e + 1) - 1) : s[j] = t[j]
      BY <1>4, <1>11
    <3>2. Difference(s, t) = Code[s[e + 1]] - Code[t[e + 1]]
      BY <1>12, <2>1, <2>2, <2>3, <3>1, FirstDifference
    <3> QED BY <1>7, <1>14, <2>2, <3>2 DEF s, t
  <2>4. CASE memory[p + e] = memory[q + e]
    <3>1. memory[p + e] = NUL /\ memory[q + e] = NUL
      BY <1>6, <1>14, <2>4
    <3>2. e = a
      <4>1. e \in 0 .. (a - 1) => FALSE
        BY <1>1, <3>1
      <4> QED BY <1>4, <1>8, <4>1
    <3>3. Len(s) = e + 1
      BY <1>4, <1>9, <1>14, <3>2
    <3>4. ASSUME NEW i \in 1 .. Len(s) PROVE s[i] = t[i]
      <4>1. i \in 1 .. e \/ i = e + 1
        BY <1>4, <3>3
      <4> QED BY <1>11, <2>2, <2>4, <4>1
    <3>5. Difference(s, t) = 0
      BY <1>12, <3>4, SameNoDifference
    <3>6. Code[NUL] - Code[NUL] = 0
      BY NulCode
    <3> QED BY <1>7, <1>14, <3>1, <3>5, <3>6 DEF s, t
  <2> QED BY <2>3, <2>4
<1> QED BY <1>13, <1>14

LEMMA StrcmpExact ==
  ASSUME MemoryOk, NEW p, NEW q, IsString(p), IsString(q)
  PROVE  strcmp(memory, p, q) = Difference(StringAt(p), StringAt(q))
<1>1. ASSUME NEW r, IsString(r) PROVE First(StringAt(r), SIZE) = StringAt(r)
  <2>1. PICK e \in Nat :
          /\ r \in Pointer /\ r + e \in Pointer
          /\ StringAt(r) \in Seq(Char) /\ Len(StringAt(r)) = e + 1
    BY <1>1, StringEnds
  <2>2. e + 1 <= SIZE /\ SIZE \in Nat
    BY <2>1, NulCode DEF Pointer
  <2> QED BY <2>1, <2>2, FirstOf
<1>2. strncmp(memory, p, q, SIZE) = Difference(First(StringAt(p), SIZE), First(StringAt(q), SIZE))
  BY NulCode, StrncmpExact
<1> QED BY <1>1, <1>2 DEF strcmp

LEMMA BytesOf ==
  ASSUME MemoryOk, NEW p \in Pointer, NEW n \in Nat, p + n - 1 <= SIZE
  PROVE  /\ Bytes(p, n) \in Seq(Char) /\ Len(Bytes(p, n)) = n
         /\ \A i \in 1 .. n : Bytes(p, n)[i] = memory[p + i - 1]
<1> DEFINE z == p + n - 1
<1>1. p \in 1 .. (Len(memory) + 1) /\ z \in (p - 1) .. Len(memory) /\ z - p + 1 = n
  BY MemoryIsSeq, NulCode DEF Pointer
<1>2. /\ Len(SubSeq(memory, p, z)) = z - p + 1
      /\ \A i \in 1 .. (z - p + 1) : SubSeq(memory, p, z)[i] = memory[p + i - 1]
      /\ SubSeq(memory, p, z) \in Seq(Char)
  <2> HIDE DEF z
  <2> QED BY <1>1, MemoryIsSeq, SubSeqProperties
<1> QED BY <1>1, <1>2 DEF Bytes

LEMMA MemcmpExact ==
  ASSUME MemoryOk, NEW p \in Pointer, NEW q \in Pointer, NEW n \in Nat,
         p + n - 1 <= SIZE, q + n - 1 <= SIZE
  PROVE  memcmp(memory, p, q, n) = Difference(Bytes(p, n), Bytes(q, n))
<1> DEFINE s == Bytes(p, n)
           t == Bytes(q, n)
           Stops == {k \in Nat : k = n \/ memory[p + k] # memory[q + k]}
<1>1. /\ Len(s) = n /\ Len(t) = n
      /\ \A i \in 1 .. n : s[i] = memory[p + i - 1] /\ t[i] = memory[q + i - 1]
  BY BytesOf
<1>2. PICK e \in Stops : \A k \in Stops : e <= k
  <2>1. n \in Stops /\ Stops \subseteq Nat
    OBVIOUS
  <2> HIDE DEF Stops
  <2> QED BY <2>1, Least
<1>3. e \in 0 .. n
  BY <1>2
<1>4. ASSUME NEW j \in 0 .. (e - 1) PROVE memory[p + j] = memory[q + j]
  <2>1. j \in Nat /\ ~(e <= j) /\ j # n
    BY <1>3
  <2>2. j \notin Stops
    BY <1>2, <2>1
  <2> QED BY <2>1, <2>2
<1>5. e = n \/ memory[p + e] # memory[q + e]
  BY <1>2
<1>6. memcmp(memory, p, q, n) = IF e = n THEN 0 ELSE Code[memory[p + e]] - Code[memory[q + e]]
  BY <1>3, <1>4, <1>5, MemcmpStops
<1> HIDE DEF Stops, s, t
<1>7. ASSUME NEW i \in 1 .. e PROVE s[i] = t[i]
  <2>1. i - 1 \in 0 .. (e - 1) /\ i \in 1 .. n
    BY <1>3
  <2>2. p + i - 1 = p + (i - 1) /\ q + i - 1 = q + (i - 1)
    BY DEF Pointer
  <2> QED BY <1>1, <1>4, <2>1, <2>2
<1>8. CASE e = n
  <2>1. Difference(s, t) = 0
    BY <1>1, <1>7, <1>8, SameNoDifference
  <2> QED BY <1>6, <1>8, <2>1 DEF s, t
<1>9. CASE e # n
  <2>1. e + 1 \in 1 .. n
    BY <1>3, <1>9
  <2>2. p + (e + 1) - 1 = p + e /\ q + (e + 1) - 1 = q + e
    BY <1>3 DEF Pointer
  <2>3. s[e + 1] = memory[p + e] /\ t[e + 1] = memory[q + e]
    BY <1>1, <2>1, <2>2
  <2>4. \A j \in 1 .. ((e + 1) - 1) : s[j] = t[j]
    BY <1>3, <1>7
  <2>5. e + 1 \in 1 .. Len(s) /\ e + 1 <= Len(t) /\ s[e + 1] # t[e + 1]
    BY <1>1, <1>5, <1>9, <2>1, <2>3
  <2>6. Len(s) \in Nat /\ Len(t) \in Nat
    BY <1>1
  <2>7. Difference(s, t) = Code[s[e + 1]] - Code[t[e + 1]]
    BY <2>4, <2>5, <2>6, FirstDifference
  <2> QED BY <1>6, <1>9, <2>3, <2>7 DEF s, t
<1> QED BY <1>8, <1>9

----------------------------------------------------------------------------
(* The copies. *)

Content == [Pointer -> Char]

LEMMA MemsetExact ==
  ASSUME NEW m \in Content, NEW d \in Pointer, NEW value \in Int, NEW n \in Nat,
         d + n - 1 <= SIZE
  PROVE  memset(m, d, value, n) =
           [i \in Pointer |-> IF i \in d .. (d + n - 1) THEN Byte(value) ELSE m[i]]
<1> DEFINE Q(f) == [k \in 0 .. n |->
                      IF k = 0 THEN m ELSE [f[k - 1] EXCEPT ![d + k - 1] = Byte(value)]]
           G(k) == [i \in Pointer |-> IF i \in d .. (d + k - 1) THEN Byte(value) ELSE m[i]]
           g == [k \in 0 .. n |-> G(k)]
           After == CHOOSE f : f = Q(f)
<1>1. G(0) = m
  BY DEF Content, Pointer
<1>2. ASSUME NEW k \in 1 .. n PROVE [G(k - 1) EXCEPT ![d + k - 1] = Byte(value)] = G(k)
  <2>1. \A i \in Pointer : i \in d .. (d + k - 1) <=> i \in d .. (d + (k - 1) - 1) \/ i = d + k - 1
    BY DEF Pointer
  <2>2. d + k - 1 \in Pointer
    BY NulCode DEF Pointer
  <2> QED BY <2>1, <2>2
<1>3. g = Q(g)
  <2>1. ASSUME NEW k \in 0 .. n
        PROVE  g[k] = IF k = 0 THEN m ELSE [g[k - 1] EXCEPT ![d + k - 1] = Byte(value)]
    <3>1. CASE k = 0
      <4>1. g[k] = G(0)
        BY <3>1
      <4> HIDE DEF g, G
      <4> QED BY <1>1, <3>1, <4>1
    <3>2. CASE k # 0
      <4>1. k \in 1 .. n /\ k - 1 \in 0 .. n
        BY <3>2
      <4>2. g[k] = G(k) /\ g[k - 1] = G(k - 1)
        BY <4>1
      <4> HIDE DEF g, G
      <4> QED BY <1>2, <3>2, <4>1, <4>2
    <3> QED BY <3>1, <3>2
  <2> HIDE DEF G
  <2>2. g = [k \in 0 .. n |-> g[k]]
    OBVIOUS
  <2> HIDE DEF g
  <2> QED BY <2>1, <2>2
<1>4. After = Q(After)
  <2> HIDE DEF Q, g
  <2> QED BY <1>3
<1> HIDE DEF After
<1>5. After[0] = g[0]
  <2>1. After[0] = m
    BY <1>4
  <2>2. g[0] = G(0)
    OBVIOUS
  <2> HIDE DEF g, G, Q
  <2> QED BY <1>1, <2>1, <2>2
<1>6. ASSUME NEW k \in 1 .. n, After[k - 1] = g[k - 1] PROVE After[k] = g[k]
  <2>1. k \in 0 .. n /\ k # 0 /\ k - 1 \in 0 .. n
    OBVIOUS
  <2>2. After[k] = [After[k - 1] EXCEPT ![d + k - 1] = Byte(value)]
    <3> HIDE DEF g, G
    <3> QED BY <1>4, <2>1
  <2>3. g[k] = G(k) /\ g[k - 1] = G(k - 1)
    BY <2>1
  <2> HIDE DEF g, G, Q
  <2> QED BY <1>2, <1>6, <2>2, <2>3
<1>7. After[n] = g[n]
  <2> HIDE DEF g, G
  <2> QED BY <1>5, <1>6, SameEnd
<1>8. memset(m, d, value, n) = After[n]
  BY DEF memset, After
<1> QED BY <1>7, <1>8

LEMMA MemcpyExact ==
  ASSUME NEW m \in Content, NEW d \in Pointer, NEW s \in Pointer, NEW n \in Nat,
         MemcpyLegal(d, s, n)
  PROVE  memcpy(m, d, s, n) =
           [i \in Pointer |-> IF i \in d .. (d + n - 1) THEN m[s + (i - d)] ELSE m[i]]
<1> DEFINE Q(f) == [k \in 0 .. n |->
                      IF k = 0 THEN m
                      ELSE [f[k - 1] EXCEPT ![d + k - 1] = f[k - 1][s + k - 1]]]
           G(k) == [i \in Pointer |-> IF i \in d .. (d + k - 1) THEN m[s + (i - d)] ELSE m[i]]
           g == [k \in 0 .. n |-> G(k)]
           After == CHOOSE f : f = Q(f)
<1>0. d + n - 1 <= SIZE /\ s + n - 1 <= SIZE /\ (d + n <= s \/ s + n <= d)
  BY DEF MemcpyLegal, Clear
<1>n. d \in Nat /\ s \in Nat
  BY DEF Pointer
<1>1. G(0) = m
  BY DEF Content, Pointer
<1>2. ASSUME NEW k \in 1 .. n
      PROVE  [G(k - 1) EXCEPT ![d + k - 1] = G(k - 1)[s + k - 1]] = G(k)
  <2>1. \A i \in Pointer : i \in d .. (d + k - 1) <=> i \in d .. (d + (k - 1) - 1) \/ i = d + k - 1
    BY DEF Pointer
  <2>2. d + k - 1 \in Pointer /\ s + k - 1 \in Pointer /\ s + k - 1 = s + (d + k - 1 - d)
    BY <1>0, NulCode DEF Pointer
  <2>3. s + k - 1 \notin d .. (d + (k - 1) - 1)
    BY <1>0 DEF Pointer
  <2>4. G(k - 1)[s + k - 1] = m[s + k - 1]
    BY <2>2, <2>3
  <2>5. \A i \in Pointer : G(k)[i] = IF i = d + k - 1 THEN m[s + k - 1] ELSE G(k - 1)[i]
    BY <1>n, <2>1, <2>2
  <2>6. \A j \in 0 .. n : G(j) = [i \in Pointer |-> G(j)[i]]
    OBVIOUS
  <2>7. k \in 0 .. n /\ k - 1 \in 0 .. n
    OBVIOUS
  <2> HIDE DEF G
  <2> QED BY <2>2, <2>4, <2>5, <2>6, <2>7
<1>3. g = Q(g)
  <2>1. ASSUME NEW k \in 0 .. n
        PROVE  g[k] = IF k = 0 THEN m ELSE [g[k - 1] EXCEPT ![d + k - 1] = g[k - 1][s + k - 1]]
    <3>1. CASE k = 0
      <4>1. g[k] = G(0)
        BY <3>1
      <4> HIDE DEF g, G
      <4> QED BY <1>1, <3>1, <4>1
    <3>2. CASE k # 0
      <4>1. k \in 1 .. n /\ k - 1 \in 0 .. n
        BY <3>2
      <4>2. g[k] = G(k) /\ g[k - 1] = G(k - 1)
        BY <4>1
      <4> HIDE DEF g, G
      <4> QED BY <1>2, <3>2, <4>1, <4>2
    <3> QED BY <3>1, <3>2
  <2> HIDE DEF G
  <2>2. g = [k \in 0 .. n |-> g[k]]
    OBVIOUS
  <2> HIDE DEF g
  <2> QED BY <2>1, <2>2
<1>4. After = Q(After)
  <2> HIDE DEF Q, g
  <2> QED BY <1>3
<1> HIDE DEF After
<1>5. After[0] = g[0]
  <2>1. After[0] = m
    BY <1>4
  <2>2. g[0] = G(0)
    OBVIOUS
  <2> HIDE DEF g, G, Q
  <2> QED BY <1>1, <2>1, <2>2
<1>6. ASSUME NEW k \in 1 .. n, After[k - 1] = g[k - 1] PROVE After[k] = g[k]
  <2>1. k \in 0 .. n /\ k # 0 /\ k - 1 \in 0 .. n
    OBVIOUS
  <2>2. After[k] = [After[k - 1] EXCEPT ![d + k - 1] = After[k - 1][s + k - 1]]
    <3> HIDE DEF g, G
    <3> QED BY <1>4, <2>1
  <2>3. g[k] = G(k) /\ g[k - 1] = G(k - 1)
    BY <2>1
  <2> HIDE DEF g, G, Q
  <2> QED BY <1>2, <1>6, <2>2, <2>3
<1>7. After[n] = g[n]
  <2> HIDE DEF g, G
  <2> QED BY <1>5, <1>6, SameEnd
<1>8. memcpy(m, d, s, n) = After[n]
  BY DEF memcpy, After
<1> QED BY <1>7, <1>8

(* m with its l bytes at s copied to d.                                    *)
Copied(m, d, s, l) ==
  [i \in Pointer |-> IF i \in d .. (d + l - 1) THEN m[s + (i - d)] ELSE m[i]]

(* n passes of the copying loop copy the bytes up to the NUL, l of them.   *)
LEMMA CopyStringExact ==
  ASSUME NEW m \in Content, NEW d \in Pointer, NEW s \in Pointer, NEW n \in Nat,
         NEW l \in 0 .. n, Clear(d, l, s, l), s + l - 1 <= SIZE,
         \A j \in 0 .. (l - 2) : m[s + j] # NUL,
         l = n \/ (l > 0 /\ m[s + l - 1] = NUL)
  PROVE  CopyString(m, d, s, n) = Copied(m, d, s, l)
<1> DEFINE Ended(before, k) == \E j \in 1 .. (k - 1) : before[d + j - 1] = NUL
           Q(f) == [k \in 0 .. n |->
                      IF k = 0 THEN m
                      ELSE IF Ended(f[k - 1], k) THEN f[k - 1]
                      ELSE [f[k - 1] EXCEPT ![d + k - 1] = f[k - 1][s + k - 1]]]
           Done(k) == IF k <= l THEN k ELSE l
           G(k) == [i \in Pointer |->
                      IF i \in d .. (d + Done(k) - 1) THEN m[s + (i - d)] ELSE m[i]]
           g == [k \in 0 .. n |-> G(k)]
           After == CHOOSE f : f = Q(f)
<1>0. d + l - 1 <= SIZE /\ s + l - 1 <= SIZE /\ (d + l <= s \/ s + l <= d)
  BY DEF Clear
<1>n. d \in Nat /\ s \in Nat
  BY DEF Pointer
<1>1. G(0) = m
  BY DEF Content, Pointer
<1>2. ASSUME NEW k \in 1 .. n
      PROVE  G(k) = IF Ended(G(k - 1), k) THEN G(k - 1)
                    ELSE [G(k - 1) EXCEPT ![d + k - 1] = G(k - 1)[s + k - 1]]
  <2>1. CASE k <= l
    <3>1. ASSUME NEW j \in 1 .. (k - 1) PROVE G(k - 1)[d + j - 1] # NUL
      <4>1. d + j - 1 \in Pointer
        BY <1>0, <2>1, NulCode DEF Pointer
      <4>2. Done(k - 1) = k - 1
        BY <2>1
      <4>3. d + j - 1 \in d .. (d + (k - 1) - 1) /\ s + (d + j - 1 - d) = s + (j - 1)
        BY DEF Pointer
      <4>4. G(k - 1)[d + j - 1] = m[s + (j - 1)]
        <5> HIDE DEF Done
        <5> QED BY <1>n, <4>1, <4>2, <4>3
      <4>5. j - 1 \in 0 .. (l - 2)
        BY <2>1
      <4> HIDE DEF G
      <4> QED BY <4>4, <4>5
    <3>2. \A i \in Pointer :
            i \in d .. (d + k - 1) <=> i \in d .. (d + (k - 1) - 1) \/ i = d + k - 1
      BY DEF Pointer
    <3>3. d + k - 1 \in Pointer /\ s + k - 1 \in Pointer /\ s + k - 1 = s + (d + k - 1 - d)
      BY <1>0, <2>1, NulCode DEF Pointer
    <3>4. s + k - 1 \notin d .. (d + (k - 1) - 1)
      BY <1>0, <2>1 DEF Pointer
    <3>5. Done(k) = k /\ Done(k - 1) = k - 1
      BY <2>1
    <3>6. G(k - 1)[s + k - 1] = m[s + k - 1]
      BY <3>3, <3>4, <3>5
    <3>7. \A i \in Pointer : G(k)[i] = IF i = d + k - 1 THEN m[s + k - 1] ELSE G(k - 1)[i]
      <4> HIDE DEF Done
      <4> QED BY <1>n, <3>2, <3>3, <3>5
    <3>8. \A j \in 0 .. n : G(j) = [i \in Pointer |-> G(j)[i]]
      OBVIOUS
    <3>9. k \in 0 .. n /\ k - 1 \in 0 .. n
      OBVIOUS
    <3> HIDE DEF G
    <3>10. [G(k - 1) EXCEPT ![d + k - 1] = G(k - 1)[s + k - 1]] = G(k)
      BY <3>3, <3>6, <3>7, <3>8, <3>9
    <3> QED BY <3>1, <3>10
  <2>2. CASE ~(k <= l)
    <3>1. Done(k) = l /\ Done(k - 1) = l /\ l \in 1 .. (k - 1) /\ m[s + l - 1] = NUL
      BY <2>2
    <3>2. /\ d + l - 1 \in Pointer /\ d + l - 1 \in d .. (d + l - 1)
          /\ s + (d + l - 1 - d) = s + l - 1
      BY <1>0, <3>1, NulCode DEF Pointer
    <3>3. G(k - 1)[d + l - 1] = NUL
      <4> HIDE DEF Done
      <4>1. G(k - 1)[d + l - 1] = m[s + (d + l - 1 - d)]
        BY <1>n, <3>1, <3>2
      <4> HIDE DEF G
      <4> QED BY <3>1, <3>2, <4>1
    <3>4. G(k - 1) = G(k)
      BY <3>1
    <3> HIDE DEF G
    <3> QED BY <3>1, <3>3, <3>4
  <2> QED BY <2>1, <2>2
<1> HIDE DEF Ended
<1>3. g = Q(g)
  <2>1. ASSUME NEW k \in 0 .. n
        PROVE  g[k] = IF k = 0 THEN m
                      ELSE IF Ended(g[k - 1], k) THEN g[k - 1]
                      ELSE [g[k - 1] EXCEPT ![d + k - 1] = g[k - 1][s + k - 1]]
    <3>1. CASE k = 0
      <4>1. g[k] = G(0)
        BY <3>1
      <4> HIDE DEF g, G
      <4> QED BY <1>1, <3>1, <4>1
    <3>2. CASE k # 0
      <4>1. k \in 1 .. n /\ k - 1 \in 0 .. n
        BY <3>2
      <4>2. g[k] = G(k) /\ g[k - 1] = G(k - 1)
        BY <4>1
      <4> HIDE DEF g, G
      <4> QED BY <1>2, <3>2, <4>1, <4>2
    <3> QED BY <3>1, <3>2
  <2> HIDE DEF G
  <2>2. g = [k \in 0 .. n |-> g[k]]
    OBVIOUS
  <2> HIDE DEF g
  <2> QED BY <2>1, <2>2
<1>4. After = Q(After)
  <2> HIDE DEF Q, g
  <2> QED BY <1>3
<1> HIDE DEF After
<1>5. After[0] = g[0]
  <2>1. After[0] = m
    BY <1>4
  <2>2. g[0] = G(0)
    OBVIOUS
  <2> HIDE DEF g, G, Q
  <2> QED BY <1>1, <2>1, <2>2
<1>6. ASSUME NEW k \in 1 .. n, After[k - 1] = g[k - 1] PROVE After[k] = g[k]
  <2>1. k \in 0 .. n /\ k # 0 /\ k - 1 \in 0 .. n
    OBVIOUS
  <2>2. After[k] = IF Ended(After[k - 1], k) THEN After[k - 1]
                   ELSE [After[k - 1] EXCEPT ![d + k - 1] = After[k - 1][s + k - 1]]
    <3> HIDE DEF g, G
    <3> QED BY <1>4, <2>1
  <2>3. g[k] = G(k) /\ g[k - 1] = G(k - 1)
    BY <2>1
  <2> HIDE DEF g, G, Q
  <2> QED BY <1>2, <1>6, <2>2, <2>3
<1>7. After[n] = g[n]
  <2> HIDE DEF g, G
  <2> QED BY <1>5, <1>6, SameEnd
<1>8. CopyString(m, d, s, n) = After[n]
  BY DEF CopyString, After, Ended
<1>9. g[n] = Copied(m, d, s, l)
  <2>1. Done(n) = l
    OBVIOUS
  <2>2. g[n] = G(n)
    OBVIOUS
  <2> QED BY <2>1, <2>2 DEF Copied
<1> QED BY <1>7, <1>8, <1>9

(* The string at q as strcpy, on from any place d, copies it.              *)
LEMMA StrcpyCopies ==
  ASSUME MemoryOk, NEW q, IsString(q), NEW d \in Pointer,
         Clear(d, Len(StringAt(q)), q, Len(StringAt(q)))
  PROVE  strcpy(memory, d, q) =
           [i \in Pointer |-> IF i \in d .. (d + Len(StringAt(q)) - 1)
                              THEN StringAt(q)[i - d + 1] ELSE memory[i]]
<1>1. PICK e \in Nat :
        /\ q \in Pointer /\ q + e \in Pointer /\ memory[q + e] = NUL
        /\ \A j \in 0 .. (e - 1) : memory[q + j] # NUL
        /\ StringAt(q) \in Seq(Char) /\ Len(StringAt(q)) = e + 1
        /\ \A i \in 1 .. (e + 1) : StringAt(q)[i] = memory[q + i - 1]
  BY StringEnds
<1> DEFINE l == e + 1
<1>2. q \in Nat /\ d \in Nat /\ SIZE \in Nat
  BY <1>1, NulCode DEF Pointer
<1>3. l \in 0 .. SIZE /\ q + l - 1 <= SIZE /\ q + l - 1 = q + e /\ l > 0
  BY <1>1, <1>2 DEF Pointer
<1>4. \A j \in 0 .. (l - 2) : memory[q + j] # NUL
  BY <1>1
<1>5. Clear(d, l, q, l) /\ memory[q + l - 1] = NUL
  BY <1>1, <1>3
<1>6. CopyString(memory, d, q, SIZE) = Copied(memory, d, q, l)
  <2>1. memory \in Content
    BY DEF MemoryOk, Content
  <2>2. l = SIZE \/ (l > 0 /\ memory[q + l - 1] = NUL)
    BY <1>3, <1>5
  <2> HIDE DEF l
  <2> QED BY <1>1, <1>2, <1>3, <1>4, <1>5, <2>1, <2>2, CopyStringExact
<1>7. ASSUME NEW i \in d .. (d + l - 1) PROVE memory[q + (i - d)] = StringAt(q)[i - d + 1]
  <2>1. i - d + 1 \in 1 .. (e + 1) /\ q + (i - d + 1) - 1 = q + (i - d)
    BY <1>2
  <2> QED BY <1>1, <2>1
<1>8. Len(StringAt(q)) = l
  BY <1>1
<1> HIDE DEF l
<1> QED BY <1>6, <1>7, <1>8 DEF strcpy, Copied

LEMMA StrcpyExact ==
  ASSUME MemoryOk, NEW d \in Pointer, NEW q \in Pointer, StrcpyLegal(d, q)
  PROVE  strcpy(memory, d, q) = With(d, StringAt(q))
BY StrcpyCopies DEF StrcpyLegal, With

LEMMA StrcatExact ==
  ASSUME MemoryOk, NEW p \in Pointer, NEW q \in Pointer, StrcatLegal(p, q)
  PROVE  strcat(memory, p, q) =
           With(p, First(StringAt(p), Len(StringAt(p)) - 1) \o StringAt(q))
<1>1. PICK a \in Nat :
        /\ p \in Pointer /\ p + a \in Pointer /\ memory[p + a] = NUL
        /\ \A j \in 0 .. (a - 1) : memory[p + j] # NUL
        /\ StringAt(p) \in Seq(Char) /\ Len(StringAt(p)) = a + 1
        /\ \A i \in 1 .. (a + 1) : StringAt(p)[i] = memory[p + i - 1]
  BY StringEnds DEF StrcatLegal
<1> DEFINE t == StringAt(q)
           u == First(StringAt(p), a)
           b == Len(t)
<1>2. t \in Seq(Char) /\ b \in Nat /\ b > 0 /\ IsString(q)
  <2>1. PICK e \in Nat : StringAt(q) \in Seq(Char) /\ Len(StringAt(q)) = e + 1
    BY StringEnds DEF StrcatLegal
  <2> QED BY <2>1 DEF StrcatLegal
<1>3. p \in Nat /\ q \in Nat /\ SIZE \in Nat
  BY NulCode DEF Pointer
<1>4. (a + 1) - 1 = a
  OBVIOUS
<1>5. u \in Seq(Char) /\ Len(u) = a /\ \A i \in 1 .. a : u[i] = memory[p + i - 1]
  <2> DEFINE w == StringAt(p)
  <2>1. /\ w \in Seq(Char) /\ Len(w) = a + 1
        /\ \A i \in 1 .. (a + 1) : w[i] = memory[p + i - 1]
    BY <1>1
  <2> HIDE DEF w
  <2>2. /\ Len(First(w, a)) = IF a <= Len(w) THEN a ELSE Len(w)
        /\ \A i \in 1 .. Len(w) : i <= a => First(w, a)[i] = w[i]
        /\ First(w, a) \in Seq(Char)
    BY <2>1, FirstOf
  <2>3. First(w, a) \in Seq(Char) /\ Len(First(w, a)) = a
    BY <2>1, <2>2
  <2>4. ASSUME NEW i \in 1 .. a PROVE First(w, a)[i] = memory[p + i - 1]
    <3>1. i \in 1 .. (a + 1) /\ i \in 1 .. Len(w) /\ i <= a
      BY <2>1
    <3> QED BY <2>1, <2>2, <3>1
  <2> QED BY <2>3, <2>4 DEF u, w
<1> HIDE DEF t, u
<1>6. /\ u \o t \in Seq(Char) /\ Len(u \o t) = a + b
      /\ \A i \in 1 .. (a + b) : (u \o t)[i] = IF i <= a THEN u[i] ELSE t[i - a]
  BY <1>2, <1>5, ConcatProperties
<1>7. Clear(p, (a + 1) + b - 1, q, b)
  BY <1>1 DEF StrcatLegal, t, b
<1>8. p + (a + b) - 1 <= SIZE /\ (p + (a + b) <= q \/ q + b <= p)
  BY <1>2, <1>3, <1>7 DEF Clear
<1>9. Clear(p + a, b, q, b)
  BY <1>2, <1>3, <1>8 DEF Clear
<1>10. strlen(memory, p) = a
  BY <1>1, StrlenExact
<1>11. strcpy(memory, p + a, q) =
         [i \in Pointer |-> IF i \in (p + a) .. (p + a + b - 1)
                            THEN t[i - (p + a) + 1] ELSE memory[i]]
  BY <1>1, <1>2, <1>9, StrcpyCopies DEF t, b
<1>12. ASSUME NEW i \in Pointer
       PROVE  (IF i \in (p + a) .. (p + a + b - 1) THEN t[i - (p + a) + 1] ELSE memory[i])
              = IF i \in p .. (p + (a + b) - 1) THEN (u \o t)[i - p + 1] ELSE memory[i]
  <2>1. i \in Nat
    BY DEF Pointer
  <2>2. CASE i \in (p + a) .. (p + a + b - 1)
    <3>1. /\ i \in p .. (p + (a + b) - 1) /\ i - p + 1 \in 1 .. (a + b)
          /\ ~(i - p + 1 <= a) /\ i - p + 1 - a = i - (p + a) + 1
      BY <1>2, <1>3, <2>1, <2>2
    <3>2. (u \o t)[i - p + 1] = t[i - p + 1 - a]
      BY <1>6, <3>1
    <3> QED BY <2>2, <3>1, <3>2
  <2>3. CASE i \in p .. (p + a - 1)
    <3>1. /\ i \in p .. (p + (a + b) - 1) /\ i - p + 1 \in 1 .. (a + b) /\ i - p + 1 \in 1 .. a
          /\ i - p + 1 <= a /\ p + (i - p + 1) - 1 = i /\ i \notin (p + a) .. (p + a + b - 1)
      BY <1>2, <1>3, <2>1, <2>3
    <3>2. (u \o t)[i - p + 1] = u[i - p + 1]
      BY <1>6, <3>1
    <3> QED BY <1>5, <3>1, <3>2
  <2>4. CASE i \notin p .. (p + (a + b) - 1)
    <3>1. i \notin (p + a) .. (p + a + b - 1)
      BY <1>2, <1>3, <2>1, <2>4
    <3> QED BY <2>4, <3>1
  <2>5. i \in (p + a) .. (p + a + b - 1) \/ i \in p .. (p + a - 1) \/ i \notin p .. (p + (a + b) - 1)
    BY <1>2, <1>3, <2>1
  <2> QED BY <2>2, <2>3, <2>4, <2>5
<1>13. strcat(memory, p, q) = With(p, u \o t)
  BY <1>6, <1>10, <1>11, <1>12 DEF strcat, With
<1> QED BY <1>1, <1>4, <1>13 DEF t, u

LEMMA StrncpyExact ==
  ASSUME MemoryOk, NEW d \in Pointer, NEW q \in Pointer, NEW n \in 0 .. SIZE,
         StrncpyLegal(d, q, n)
  PROVE  strncpy(memory, d, q, n) =
           With(d, IF Len(StringAt(q)) <= n THEN Padded(StringAt(q), n + 1)
                   ELSE First(StringAt(q), n))
<1>1. PICK e \in Nat :
        /\ q \in Pointer /\ q + e \in Pointer /\ memory[q + e] = NUL
        /\ \A j \in 0 .. (e - 1) : memory[q + j] # NUL
        /\ StringAt(q) \in Seq(Char) /\ Len(StringAt(q)) = e + 1
        /\ \A i \in 1 .. (e + 1) : StringAt(q)[i] = memory[q + i - 1]
  BY StringEnds DEF StrncpyLegal
<1> DEFINE t == StringAt(q)
           l == IF e + 1 <= n THEN e + 1 ELSE n
           copied == Copied(memory, d, q, l)
           ends == {k \in 1 .. n : copied[d + k - 1] = NUL}
<1>2. q \in Nat /\ d \in Nat /\ SIZE \in Nat /\ n \in Nat /\ e \in Nat /\ d >= 1
  BY <1>1, NulCode DEF Pointer
<1>3. /\ l \in 0 .. n /\ Min({e + 1, n}) = l /\ q + l - 1 <= SIZE
      /\ e + 1 <= n => l = e + 1
  BY <1>1, <1>2, MinOfTwo DEF Pointer
<1>4. Clear(d, IF e + 1 <= n THEN n + 1 ELSE n, q, l)
  BY <1>1, <1>3 DEF StrncpyLegal
<1>5. /\ d + n - 1 <= SIZE /\ (e + 1 <= n => d + n <= SIZE)
      /\ d + l <= q \/ q + l <= d
  BY <1>2, <1>3, <1>4 DEF Clear
<1>6. Clear(d, l, q, l)
  BY <1>2, <1>3, <1>5 DEF Clear
<1>7. \A j \in 0 .. (l - 2) : memory[q + j] # NUL
  BY <1>1
<1>8. l = n \/ (l > 0 /\ memory[q + l - 1] = NUL)
  <2>1. CASE e + 1 <= n
    <3>1. l = e + 1 /\ q + l - 1 = q + e /\ l > 0
      BY <1>2, <2>1
    <3> QED BY <1>1, <3>1
  <2> QED BY <2>1
<1>9. CopyString(memory, d, q, n) = copied
  <2>1. memory \in Content
    BY DEF MemoryOk, Content
  <2> HIDE DEF l
  <2> QED BY <1>2, <1>3, <1>6, <1>7, <1>8, <2>1, CopyStringExact
<1>10. copied \in Content
  <2>1. ASSUME NEW i \in Pointer, i \in d .. (d + l - 1) PROVE memory[q + (i - d)] \in Char
    <3> HIDE DEF l
    <3>1. q + (i - d) \in Pointer
      BY <1>2, <1>3, <2>1 DEF Pointer
    <3> QED BY <3>1 DEF MemoryOk
  <2> HIDE DEF l
  <2> QED BY <2>1 DEF MemoryOk, Content, Copied
<1>11. strncpy(memory, d, q, n) =
         IF ends = {} THEN copied ELSE memset(copied, d + Min(ends), 0, n - Min(ends) + 1)
  BY <1>9 DEF strncpy
<1>12. ASSUME NEW k \in 1 .. n, k <= l PROVE copied[d + k - 1] = memory[q + (k - 1)]
  <2> HIDE DEF l
  <2>1. d + k - 1 \in Pointer /\ d + k - 1 \in d .. (d + l - 1) /\ (d + k - 1) - d = k - 1
    BY <1>2, <1>3, <1>5, <1>12 DEF Pointer
  <2> QED BY <2>1 DEF Copied
<1>13. CASE ~(e + 1 <= n)
  <2>1. l = n
    BY <1>13
  <2>2. ASSUME NEW k \in 1 .. n PROVE copied[d + k - 1] # NUL
    <3>1. k <= l /\ k - 1 \in 0 .. (e - 1)
      BY <1>2, <1>13, <2>1
    <3> HIDE DEF copied
    <3> QED BY <1>1, <1>12, <3>1
  <2>3. ends = {}
    <3> HIDE DEF copied
    <3> QED BY <2>2
  <2>4. Len(First(t, n)) = n /\ \A i \in 1 .. n : First(t, n)[i] = t[i]
    <3>1. ~(Len(t) <= n) /\ \A i \in 1 .. n : i \in 1 .. Len(t)
      BY <1>1, <1>2, <1>13
    <3>2. n <= Len(t)
      BY <1>1, <1>2, <1>13
    <3>3. t \in Seq(Char)
      BY <1>1
    <3> HIDE DEF t
    <3>4. /\ Len(First(t, n)) = IF n <= Len(t) THEN n ELSE Len(t)
          /\ \A i \in 1 .. Len(t) : i <= n => First(t, n)[i] = t[i]
      BY <1>2, <3>3, FirstOf
    <3> QED BY <1>2, <3>1, <3>2, <3>4
  <2>5. ASSUME NEW i \in Pointer
        PROVE  copied[i] = IF i \in d .. (d + n - 1) THEN First(t, n)[i - d + 1] ELSE memory[i]
    <3>1. CASE i \in d .. (d + n - 1)
      <4>1. i - d + 1 \in 1 .. n /\ i - d + 1 \in 1 .. (e + 1) /\ q + (i - d + 1) - 1 = q + (i - d)
        BY <1>2, <1>13, <3>1
      <4>2. First(t, n)[i - d + 1] = memory[q + (i - d)]
        BY <1>1, <2>4, <4>1
      <4> HIDE DEF l
      <4> QED BY <2>1, <3>1, <4>2 DEF Copied
    <3>2. CASE i \notin d .. (d + n - 1)
      <4> HIDE DEF l
      <4> QED BY <2>1, <3>2 DEF Copied
    <3> QED BY <3>1, <3>2
  <2>6. copied = [i \in Pointer |-> copied[i]]
    BY DEF Copied
  <2> HIDE DEF copied, ends, t
  <2>7. copied = With(d, First(t, n))
    BY <2>4, <2>5, <2>6 DEF With
  <2> QED BY <1>1, <1>11, <1>13, <2>3, <2>7 DEF t
<1>14. CASE e + 1 <= n
  <2>1. l = e + 1
    BY <1>14
  <2>2. copied[d + (e + 1) - 1] = NUL
    <3>1. e + 1 \in 1 .. n /\ e + 1 <= l /\ (e + 1) - 1 = e
      BY <1>2, <1>14, <2>1
    <3> HIDE DEF copied, l
    <3> QED BY <1>1, <1>12, <3>1
  <2>3. e + 1 \in ends
    <3> HIDE DEF copied
    <3> QED BY <1>2, <1>14, <2>2
  <2>4. ASSUME NEW k \in ends PROVE e + 1 <= k
    <3>1. SUFFICES ASSUME k <= e PROVE FALSE
      BY <1>2
    <3>2. k \in 1 .. n /\ k <= l /\ k - 1 \in 0 .. (e - 1) /\ copied[d + k - 1] = NUL
      BY <1>2, <2>1, <3>1
    <3> HIDE DEF copied, l, ends
    <3> QED BY <1>1, <1>12, <3>2
  <2>5. Min(ends) = e + 1
    <3>1. ends \subseteq Int
      OBVIOUS
    <3> HIDE DEF ends
    <3> QED BY <2>3, <2>4, <3>1, MinIs
  <2> DEFINE z == d + (e + 1)
             r == n - (e + 1) + 1
  <2>6. strncpy(memory, d, q, n) = memset(copied, z, 0, r)
    <3> HIDE DEF copied, ends
    <3> QED BY <1>11, <2>3, <2>5
  <2>7. z \in Pointer /\ r \in Nat /\ z + r - 1 <= SIZE /\ z + r - 1 = d + n
    BY <1>2, <1>5, <1>14 DEF Pointer
  <2>8. memset(copied, z, 0, r) =
          [i \in Pointer |-> IF i \in z .. (z + r - 1) THEN Byte(0) ELSE copied[i]]
    <3> HIDE DEF copied, z, r
    <3> QED BY <1>10, <2>7, MemsetExact
  <2>9. Len(Padded(t, n + 1)) = n + 1
    BY <1>2 DEF Padded
  <2>10. ASSUME NEW i \in Pointer
         PROVE  (IF i \in z .. (z + r - 1) THEN Byte(0) ELSE copied[i])
                = IF i \in d .. (d + (n + 1) - 1) THEN Padded(t, n + 1)[i - d + 1] ELSE memory[i]
    <3>1. i \in Nat
      BY DEF Pointer
    <3>2. CASE i \in z .. (z + r - 1)
      <4>1. i \in d .. (d + (n + 1) - 1) /\ i - d + 1 \in 1 .. (n + 1) /\ ~(i - d + 1 <= e + 1)
        BY <1>2, <1>14, <2>7, <3>1, <3>2
      <4>2. Padded(t, n + 1)[i - d + 1] = NUL
        BY <1>1, <4>1 DEF Padded
      <4> HIDE DEF copied, z, r
      <4> QED BY <3>2, <4>1, <4>2, ByteZero
    <3>3. CASE i \in d .. (d + (e + 1) - 1)
      <4>1. /\ i \in d .. (d + (n + 1) - 1) /\ i - d + 1 \in 1 .. (n + 1) /\ i - d + 1 <= e + 1
            /\ i - d + 1 \in 1 .. (e + 1) /\ q + (i - d + 1) - 1 = q + (i - d)
            /\ i \notin z .. (z + r - 1)
        BY <1>2, <1>14, <3>1, <3>3
      <4>2. Padded(t, n + 1)[i - d + 1] = memory[q + (i - d)]
        <5>1. Padded(t, n + 1)[i - d + 1] = t[i - d + 1]
          BY <1>1, <4>1 DEF Padded
        <5> QED BY <1>1, <4>1, <5>1
      <4>3. copied[i] = memory[q + (i - d)]
        <5> HIDE DEF l
        <5> QED BY <2>1, <3>3 DEF Copied
      <4> HIDE DEF copied, z, r
      <4> QED BY <4>1, <4>2, <4>3
    <3>4. CASE i \notin d .. (d + (n + 1) - 1)
      <4>1. i \notin z .. (z + r - 1) /\ i \notin d .. (d + (e + 1) - 1)
        BY <1>2, <1>14, <2>7, <3>1, <3>4
      <4>2. copied[i] = memory[i]
        <5> HIDE DEF l
        <5> QED BY <2>1, <4>1 DEF Copied
      <4> HIDE DEF copied, z, r
      <4> QED BY <3>4, <4>1, <4>2
    <3>5. i \in z .. (z + r - 1) \/ i \in d .. (d + (e + 1) - 1) \/ i \notin d .. (d + (n + 1) - 1)
      BY <1>2, <1>14, <2>7, <3>1
    <3> QED BY <3>2, <3>3, <3>4, <3>5
  <2>11. memset(copied, z, 0, r) = With(d, Padded(t, n + 1))
    <3> HIDE DEF copied, z, r, t
    <3> QED BY <2>8, <2>9, <2>10 DEF With
  <2> QED BY <1>1, <1>14, <2>6, <2>11
<1> QED BY <1>13, <1>14

LEMMA CopiedBytes ==
  ASSUME MemoryOk, NEW p \in Pointer, NEW q \in Pointer, NEW n \in Nat, MemcpyLegal(p, q, n)
  PROVE  memcpy(memory, p, q, n) = With(p, Bytes(q, n))
<1>1. p \in Nat /\ q \in Nat
  BY DEF Pointer
<1>2. q + n - 1 <= SIZE
  BY DEF MemcpyLegal
<1>3. Len(Bytes(q, n)) = n /\ \A i \in 1 .. n : Bytes(q, n)[i] = memory[q + i - 1]
  BY <1>2, BytesOf
<1>4. memcpy(memory, p, q, n) =
        [i \in Pointer |-> IF i \in p .. (p + n - 1) THEN memory[q + (i - p)] ELSE memory[i]]
  <2>1. memory \in Content
    BY DEF MemoryOk, Content
  <2> QED BY <2>1, MemcpyExact
<1>5. ASSUME NEW i \in p .. (p + n - 1) PROVE memory[q + (i - p)] = Bytes(q, n)[i - p + 1]
  <2>1. i - p + 1 \in 1 .. n /\ q + (i - p + 1) - 1 = q + (i - p)
    BY <1>1
  <2> QED BY <1>3, <2>1
<1> QED BY <1>3, <1>4, <1>5 DEF With

(* In whatever memory, legal calls do what they should.                    *)
LEMMA CallsExact ==
  ASSUME MemoryOk
  PROVE  StringCallsExact
<1> SUFFICES ASSUME NEW p \in Pointer, NEW q \in Pointer
             PROVE
    /\ IsString(p) => strlen(memory, p) = Len(StringAt(p)) - 1
    /\ IsString(p) /\ IsString(q) =>
         /\ strcmp(memory, p, q) = Difference(StringAt(p), StringAt(q))
         /\ \A n \in 0 .. SIZE :
              strncmp(memory, p, q, n) = Difference(First(StringAt(p), n), First(StringAt(q), n))
    /\ StrcpyLegal(p, q) => strcpy(memory, p, q) = With(p, StringAt(q))
    /\ StrcatLegal(p, q) =>
         strcat(memory, p, q) = With(p, First(StringAt(p), Len(StringAt(p)) - 1) \o StringAt(q))
    /\ \A n \in 0 .. SIZE :
         /\ p + n - 1 <= SIZE /\ q + n - 1 <= SIZE =>
              memcmp(memory, p, q, n) = Difference(Bytes(p, n), Bytes(q, n))
         /\ MemcpyLegal(p, q, n) => memcpy(memory, p, q, n) = With(p, Bytes(q, n))
         /\ StrncpyLegal(p, q, n) =>
              strncpy(memory, p, q, n) =
                With(p, IF Len(StringAt(q)) <= n THEN Padded(StringAt(q), n + 1)
                        ELSE First(StringAt(q), n))
  BY DEF StringCallsExact
<1>0. \A n \in 0 .. SIZE : n \in Nat
  BY NulCode
<1>1. ASSUME IsString(p) PROVE strlen(memory, p) = Len(StringAt(p)) - 1
  <2>1. PICK e \in Nat :
          /\ memory[p + e] = NUL /\ \A j \in 0 .. (e - 1) : memory[p + j] # NUL
          /\ Len(StringAt(p)) = e + 1
    BY <1>1, StringEnds
  <2>2. strlen(memory, p) = e
    BY <2>1, StrlenExact
  <2> QED BY <2>1, <2>2
<1>2. ASSUME IsString(p), IsString(q)
      PROVE  /\ strcmp(memory, p, q) = Difference(StringAt(p), StringAt(q))
             /\ \A n \in 0 .. SIZE :
                  strncmp(memory, p, q, n) = Difference(First(StringAt(p), n), First(StringAt(q), n))
  BY <1>0, <1>2, StrcmpExact, StrncmpExact
<1>3. StrcpyLegal(p, q) => strcpy(memory, p, q) = With(p, StringAt(q))
  BY StrcpyExact
<1>4. StrcatLegal(p, q) =>
        strcat(memory, p, q) = With(p, First(StringAt(p), Len(StringAt(p)) - 1) \o StringAt(q))
  BY StrcatExact
<1>5. ASSUME NEW n \in 0 .. SIZE
      PROVE  p + n - 1 <= SIZE /\ q + n - 1 <= SIZE =>
               memcmp(memory, p, q, n) = Difference(Bytes(p, n), Bytes(q, n))
  BY <1>0, MemcmpExact
<1>6. ASSUME NEW n \in 0 .. SIZE
      PROVE  MemcpyLegal(p, q, n) => memcpy(memory, p, q, n) = With(p, Bytes(q, n))
  BY <1>0, CopiedBytes
<1>7. ASSUME NEW n \in 0 .. SIZE
      PROVE  StrncpyLegal(p, q, n) =>
               strncpy(memory, p, q, n) =
                 With(p, IF Len(StringAt(q)) <= n THEN Padded(StringAt(q), n + 1)
                         ELSE First(StringAt(q), n))
  BY StrncpyExact
<1> QED BY <1>1, <1>2, <1>3, <1>4, <1>5, <1>6, <1>7

LEMMA WithIsMemory ==
  ASSUME MemoryOk, NEW d \in Pointer, NEW bytes \in Seq(Char)
  PROVE  With(d, bytes) \in Content
<1>1. ASSUME NEW i \in Pointer, i \in d .. (d + Len(bytes) - 1) PROVE bytes[i - d + 1] \in Char
  <2>1. i - d + 1 \in 1 .. Len(bytes)
    BY <1>1, LenProperties DEF Pointer
  <2> QED BY <2>1, ElementOfSeq
<1> QED BY <1>1 DEF With, Content, MemoryOk

LEMMA StringSteps ==
  ASSUME MemoryOk, Copy \/ Fill
  PROVE  MemoryOk'
<1> SUFFICES memory' \in Content
  BY DEF MemoryOk, Content, Pointer, Char
<1>0. \A r : IsString(r) => StringAt(r) \in Seq(Char) /\ Len(StringAt(r)) \in Nat \ {0}
  <2>1. ASSUME NEW r, IsString(r)
        PROVE  StringAt(r) \in Seq(Char) /\ Len(StringAt(r)) \in Nat \ {0}
    <3>1. PICK e \in Nat : StringAt(r) \in Seq(Char) /\ Len(StringAt(r)) = e + 1
      BY <2>1, StringEnds
    <3> QED BY <3>1
  <2> QED BY <2>1
<1>1. CASE Copy
  <2>1. PICK d \in Pointer, s \in Pointer :
          \/ StrcpyLegal(d, s) /\ memory' = strcpy(memory, d, s)
          \/ StrcatLegal(d, s) /\ memory' = strcat(memory, d, s)
          \/ \E n \in 0 .. SIZE :
               \/ StrncpyLegal(d, s, n) /\ memory' = strncpy(memory, d, s, n)
               \/ MemcpyLegal(d, s, n) /\ memory' = memcpy(memory, d, s, n)
    BY <1>1 DEF Copy
  <2>2. ASSUME StrcpyLegal(d, s), memory' = strcpy(memory, d, s) PROVE memory' \in Content
    <3>1. StringAt(s) \in Seq(Char)
      BY <1>0, <2>2 DEF StrcpyLegal
    <3> QED BY <2>2, <3>1, StrcpyExact, WithIsMemory
  <2>3. ASSUME StrcatLegal(d, s), memory' = strcat(memory, d, s) PROVE memory' \in Content
    <3>1. /\ StringAt(s) \in Seq(Char) /\ StringAt(d) \in Seq(Char)
          /\ Len(StringAt(d)) - 1 \in Nat
      BY <1>0, <2>3 DEF StrcatLegal
    <3>2. First(StringAt(d), Len(StringAt(d)) - 1) \in Seq(Char)
      BY <3>1, FirstOf
    <3>3. First(StringAt(d), Len(StringAt(d)) - 1) \o StringAt(s) \in Seq(Char)
      BY <3>1, <3>2, ConcatProperties
    <3> QED BY <2>3, <3>3, StrcatExact, WithIsMemory
  <2>4. ASSUME NEW n \in 0 .. SIZE, StrncpyLegal(d, s, n), memory' = strncpy(memory, d, s, n)
        PROVE  memory' \in Content
    <3>1. StringAt(s) \in Seq(Char) /\ n \in Nat
      BY <1>0, <2>4, NulCode DEF StrncpyLegal
    <3>2. First(StringAt(s), n) \in Seq(Char)
      BY <3>1, FirstOf
    <3>3. Padded(StringAt(s), n + 1) \in Seq(Char)
      <4>1. \A i \in 1 .. (n + 1) : i <= Len(StringAt(s)) => StringAt(s)[i] \in Char
        BY <3>1, LenProperties, ElementOfSeq
      <4>2. \A i \in 1 .. (n + 1) : Padded(StringAt(s), n + 1)[i] \in Char
        BY <4>1, NulCode DEF Padded
      <4>3. Padded(StringAt(s), n + 1) \in [1 .. (n + 1) -> Char]
        BY <4>2 DEF Padded
      <4>4. n + 1 \in Nat
        BY <3>1
      <4> QED BY <4>3, <4>4
    <3> QED BY <2>4, <3>2, <3>3, StrncpyExact, WithIsMemory
  <2>5. ASSUME NEW n \in 0 .. SIZE, MemcpyLegal(d, s, n), memory' = memcpy(memory, d, s, n)
        PROVE  memory' \in Content
    <3>1. n \in Nat /\ s + n - 1 <= SIZE
      BY <2>5, NulCode DEF MemcpyLegal
    <3>2. Bytes(s, n) \in Seq(Char)
      BY <3>1, BytesOf
    <3> QED BY <2>5, <3>1, <3>2, CopiedBytes, WithIsMemory
  <2> QED BY <2>1, <2>2, <2>3, <2>4, <2>5
<1>2. CASE Fill
  <2>0. PICK d \in Pointer, c \in Char :
          \E n \in 0 .. (SIZE - d + 1) : memory' = memset(memory, d, Code[c], n)
    BY <1>2 DEF Fill
  <2>1. PICK n \in 0 .. (SIZE - d + 1) : memory' = memset(memory, d, Code[c], n)
    BY <2>0
  <2>2. n \in Nat /\ d + n - 1 <= SIZE /\ Code[c] \in Int
    BY NulCode, CodeAssumption DEF Pointer
  <2>3. memory \in Content
    BY DEF MemoryOk, Content
  <2>4. memory' = [i \in Pointer |-> IF i \in d .. (d + n - 1) THEN Byte(Code[c]) ELSE memory[i]]
    BY <2>1, <2>2, <2>3, MemsetExact
  <2>5. Byte(Code[c]) \in Char
    BY <2>2, ByteIsChar
  <2> QED BY <2>3, <2>4, <2>5 DEF Content
<1> QED BY <1>1, <1>2

(* The memory is one of characters after every step, of a string function  *)
(* or of console_printf.                                                   *)
THEOREM MemoryInvariance == Spec => []MemoryOk
<1>1. Init => MemoryOk
  BY NulCode DEF Init, LibInit, MemoryOk
<1>2. MemoryOk /\ [Next]_printfVars => MemoryOk'
  <2> SUFFICES ASSUME MemoryOk, [Next]_printfVars PROVE MemoryOk'
    OBVIOUS
  <2>1. CASE UNCHANGED memory
    BY <2>1 DEF MemoryOk, Pointer, Char
  <2>2. CASE StringCall
    BY <2>2, StringSteps DEF StringCall
  <2>3. UNCHANGED memory \/ StringCall
    BY DEF Next, printfVars, console_printf, Plain, PrintNumber, Number, PrintPointer,
           PrintString, PrintChar, PrintPercent, PrintUnknown, Puts, Return
  <2> QED BY <2>1, <2>2, <2>3
<1> QED BY <1>1, <1>2, PTL DEF Spec

(* Whatever is in the memory, every legal call of a string function leaves *)
(* what C says where C says it, and returns it (string.c:1).               *)
THEOREM StringsExact == Spec => []StringCallsExact
<1>1. MemoryOk => StringCallsExact
  BY CallsExact
<1> QED BY <1>1, MemoryInvariance, PTL

----------------------------------------------------------------------------
(* FlattenSeq, by the prefixes of the sequence it joins. *)

Flattens(f, s) == f[1] = s[1] /\ \A i \in 2 .. Len(s) : f[i] = f[i - 1] \o s[i]

LEMMA FlattenIs ==
  ASSUME NEW X, NEW s \in Seq(Seq(X)), Len(s) > 0
  PROVE  \E f \in [1 .. Len(s) -> Seq(X)] : Flattens(f, s) /\ FlattenSeq(s) = f[Len(s)]
<1> DEFINE n == Len(s)
           Y == Seq(X)
           More(k, v) == IF k + 2 \in 1 .. n THEN v \o s[k + 2] ELSE v
           step == [k \in Nat |-> [v \in Y |-> More(k, v)]]
           Q(f) == [i \in 1 .. n |-> IF i = 1 THEN s[i] ELSE f[i - 1] \o s[i]]
           flatten == CHOOSE f : f = Q(f)
<1>1. n \in Nat /\ \A i \in 1 .. n : s[i] \in Y
  BY LenProperties, ElementOfSeq
<1>2. step \in [Nat -> [Y -> Y]]
  <2>1. ASSUME NEW k \in Nat, NEW v \in Y PROVE More(k, v) \in Y
    <3>1. CASE k + 2 \in 1 .. n
      <4>1. v \o s[k + 2] \in Seq(X)
        BY <1>1, <3>1, ConcatProperties
      <4> QED BY <3>1, <4>1
    <3>2. CASE k + 2 \notin 1 .. n
      BY <3>2
    <3> QED BY <3>1, <3>2
  <2> HIDE DEF More, Y
  <2> QED BY <2>1
<1>3. PICK h \in [Nat -> Y] : Recursion(h, s[1], step)
  <2>1. s[1] \in Y
    BY <1>1
  <2> HIDE DEF step, Y
  <2> QED BY <1>2, <2>1, RecursionExists
<1> DEFINE g == [i \in 1 .. n |-> h[i - 1]]
<1>4. g = Q(g)
  <2>1. ASSUME NEW i \in 1 .. n PROVE g[i] = IF i = 1 THEN s[i] ELSE g[i - 1] \o s[i]
    <3>1. CASE i = 1
      BY <1>3, <3>1 DEF Recursion
    <3>2. CASE i # 1
      <4>1. i - 2 \in Nat /\ (i - 2) + 1 = i - 1 /\ (i - 2) + 2 = i /\ i - 1 \in 1 .. n /\ i - 1 - 1 = i - 2
        BY <1>1, <3>2
      <4>2. h[i - 1] = step[i - 2][h[i - 2]]
        <5> HIDE DEF step
        <5> QED BY <1>3, <4>1 DEF Recursion
      <4>3. step[i - 2][h[i - 2]] = h[i - 2] \o s[i]
        <5>1. h[i - 2] \in Y
          BY <1>3, <4>1
        <5> HIDE DEF Y
        <5> QED BY <4>1, <5>1
      <4> HIDE DEF step
      <4> QED BY <3>2, <4>1, <4>2, <4>3
    <3> QED BY <3>1, <3>2
  <2>2. g = [i \in 1 .. n |-> g[i]]
    OBVIOUS
  <2> HIDE DEF g
  <2> QED BY <2>1, <2>2
<1>5. flatten = Q(flatten)
  <2> HIDE DEF Q, g
  <2> QED BY <1>4
<1> HIDE DEF flatten
<1>6. \A i \in 1 .. n : flatten[i] = IF i = 1 THEN s[i] ELSE flatten[i - 1] \o s[i]
  BY <1>5
<1> DEFINE S == {k \in Nat : k \in 1 .. n => flatten[k] \in Y}
<1>7. 0 \in S
  OBVIOUS
<1>8. ASSUME NEW k \in Nat, k \in S PROVE k + 1 \in S
  <2>1. SUFFICES ASSUME k + 1 \in 1 .. n PROVE flatten[k + 1] \in Y
    OBVIOUS
  <2>2. s[k + 1] \in Y
    BY <1>1, <2>1
  <2>3. CASE k = 0
    <3>1. k + 1 = 1
      BY <2>3
    <3>2. flatten[k + 1] = s[k + 1]
      BY <1>6, <2>1, <3>1
    <3> QED BY <2>2, <3>2
  <2>4. CASE k # 0
    <3>1. k \in 1 .. n /\ k + 1 # 1 /\ (k + 1) - 1 = k
      BY <2>1, <2>4
    <3>2. flatten[k] \in Y
      BY <1>8, <3>1
    <3>3. flatten[k + 1] = flatten[k] \o s[k + 1]
      BY <1>6, <2>1, <3>1
    <3>4. flatten[k] \o s[k + 1] \in Seq(X)
      BY <2>2, <3>2, ConcatProperties
    <3> QED BY <3>3, <3>4
  <2> QED BY <2>3, <2>4
<1>9. ASSUME NEW i \in 1 .. n PROVE flatten[i] \in Y
  <2>1. i \in Nat
    OBVIOUS
  <2>2. i \in S
    <3> HIDE DEF S
    <3> QED BY <1>7, <1>8, <2>1, Induction
  <2> QED BY <2>2
<1>10. flatten \in [1 .. n -> Y]
  <2> HIDE DEF Y
  <2> QED BY <1>5, <1>9
<1>11. Flattens(flatten, s)
  <2>1. 1 \in 1 .. n
    BY <1>1
  <2>2. \A i \in 2 .. n : i \in 1 .. n /\ i # 1
    BY <1>1
  <2> QED BY <1>6, <2>1, <2>2 DEF Flattens
<1>12. FlattenSeq(s) = flatten[n]
  BY <1>1 DEF FlattenSeq, flatten
<1> QED BY <1>10, <1>11, <1>12

(* The first k sequences of s, joined.                                     *)
Joined(s, k) == FlattenSeq(SubSeq(s, 1, k))

LEMMA Prefix ==
  ASSUME NEW Y, NEW s \in Seq(Y), NEW k \in 0 .. Len(s)
  PROVE  /\ SubSeq(s, 1, k) \in Seq(Y) /\ Len(SubSeq(s, 1, k)) = k
         /\ \A i \in 1 .. k : SubSeq(s, 1, k)[i] = s[i]
<1>1. Len(s) \in Nat
  BY LenProperties
<1>2. 1 \in 1 .. (Len(s) + 1) /\ k \in (1 - 1) .. Len(s) /\ k - 1 + 1 = k
  BY <1>1
<1>3. /\ SubSeq(s, 1, k) \in Seq(Y) /\ Len(SubSeq(s, 1, k)) = k - 1 + 1
      /\ \A i \in 1 .. (k - 1 + 1) : SubSeq(s, 1, k)[i] = s[1 + i - 1]
  BY <1>2, SubSeqProperties
<1>4. \A i \in 1 .. k : i \in 1 .. (k - 1 + 1) /\ 1 + i - 1 = i
  BY <1>1
<1> QED BY <1>2, <1>3, <1>4

LEMMA JoinedNone ==
  ASSUME NEW Y, NEW s \in Seq(Y)
  PROVE  Joined(s, 0) = <<>>
<1>1. Len(s) \in Nat
  BY LenProperties
<1>2. SubSeq(s, 1, 0) \in Seq(Y) /\ Len(SubSeq(s, 1, 0)) = 0
  BY <1>1, Prefix
<1>3. SubSeq(s, 1, 0) = <<>>
  BY <1>2, EmptySeq
<1> QED BY <1>2, <1>3 DEF Joined, FlattenSeq

LEMMA JoinedStep ==
  ASSUME NEW X, NEW s \in Seq(Seq(X)), NEW k \in 0 .. (Len(s) - 1)
  PROVE  /\ Joined(s, k + 1) = Joined(s, k) \o s[k + 1]
         /\ Joined(s, k) \in Seq(X)
<1>1. Len(s) \in Nat /\ k \in 0 .. Len(s) /\ k + 1 \in 0 .. Len(s) /\ k \in Nat
  BY LenProperties
<1> DEFINE t == SubSeq(s, 1, k)
           u == SubSeq(s, 1, k + 1)
<1>2. /\ t \in Seq(Seq(X)) /\ Len(t) = k /\ \A i \in 1 .. k : t[i] = s[i]
      /\ u \in Seq(Seq(X)) /\ Len(u) = k + 1 /\ \A i \in 1 .. (k + 1) : u[i] = s[i]
  BY <1>1, Prefix
<1> HIDE DEF t, u
<1>3. PICK g \in [1 .. (k + 1) -> Seq(X)] : Flattens(g, u) /\ FlattenSeq(u) = g[k + 1]
  <2>1. Len(u) > 0
    BY <1>1, <1>2
  <2>2. \E g \in [1 .. Len(u) -> Seq(X)] : Flattens(g, u) /\ FlattenSeq(u) = g[Len(u)]
    BY <1>2, <2>1, FlattenIs
  <2> QED BY <1>2, <2>2
<1>4. CASE k = 0
  <2>1. Joined(s, k) = <<>>
    BY <1>4, JoinedNone
  <2>2. g[1] = s[1] /\ s[1] \in Seq(X)
    <3>1. 1 \in 1 .. (k + 1)
      BY <1>4
    <3> QED BY <1>2, <1>3, <3>1 DEF Flattens
  <2>3. <<>> \o s[1] = s[1] /\ <<>> \in Seq(X)
    BY <2>2, ConcatEmptySeq, EmptySeq
  <2>4. k + 1 = 1
    BY <1>4
  <2>5. Joined(s, k + 1) = s[1]
    BY <1>3, <2>2, <2>4 DEF Joined, u
  <2> QED BY <2>1, <2>3, <2>4, <2>5
<1>5. CASE k # 0
  <2>1. PICK f \in [1 .. k -> Seq(X)] : Flattens(f, t) /\ FlattenSeq(t) = f[k]
    <3>1. Len(t) > 0
      BY <1>1, <1>2, <1>5
    <3>2. \E f \in [1 .. Len(t) -> Seq(X)] : Flattens(f, t) /\ FlattenSeq(t) = f[Len(t)]
      BY <1>2, <3>1, FlattenIs
    <3> QED BY <1>2, <3>2
  <2> DEFINE S == {i \in Nat : i \in 1 .. k => f[i] = g[i]}
  <2>2. 0 \in S
    OBVIOUS
  <2>3. ASSUME NEW i \in Nat, i \in S PROVE i + 1 \in S
    <3>1. SUFFICES ASSUME i + 1 \in 1 .. k PROVE f[i + 1] = g[i + 1]
      OBVIOUS
    <3>2. t[i + 1] = u[i + 1]
      <4>1. i + 1 \in 1 .. (k + 1)
        BY <1>1, <3>1
      <4>2. t[i + 1] = s[i + 1]
        BY <1>2, <3>1
      <4>3. u[i + 1] = s[i + 1]
        BY <1>2, <4>1
      <4> QED BY <4>2, <4>3
    <3>3. CASE i = 0
      <4>1. i + 1 = 1
        BY <3>3
      <4>2. f[1] = t[1] /\ g[1] = u[1]
        BY <1>3, <2>1 DEF Flattens
      <4> QED BY <3>2, <4>1, <4>2
    <3>4. CASE i # 0
      <4>1. i + 1 \in 2 .. k /\ i + 1 \in 2 .. (k + 1) /\ (i + 1) - 1 = i /\ i \in 1 .. k
        BY <1>1, <3>1, <3>4
      <4>2. f[i + 1] = f[(i + 1) - 1] \o t[i + 1]
        BY <1>2, <2>1, <4>1 DEF Flattens
      <4>3. g[i + 1] = g[(i + 1) - 1] \o u[i + 1]
        BY <1>2, <1>3, <4>1 DEF Flattens
      <4>4. f[i] = g[i]
        BY <2>3, <4>1
      <4> QED BY <3>2, <4>1, <4>2, <4>3, <4>4
    <3> QED BY <3>3, <3>4
  <2>4. f[k] = g[k]
    <3>1. k \in 1 .. k
      BY <1>1, <1>5
    <3>2. k \in S
      <4> HIDE DEF S
      <4> QED BY <1>1, <2>2, <2>3, Induction
    <3> QED BY <3>1, <3>2
  <2>5. g[k + 1] = g[k] \o s[k + 1]
    <3>1. k + 1 \in 2 .. (k + 1) /\ (k + 1) - 1 = k /\ k + 1 \in 1 .. (k + 1)
      BY <1>1, <1>5
    <3> QED BY <1>2, <1>3, <3>1 DEF Flattens
  <2>6. f[k] \in Seq(X)
    BY <1>1, <1>5, <2>1
  <2> QED BY <1>3, <2>1, <2>4, <2>5, <2>6 DEF Joined, t, u
<1> QED BY <1>4, <1>5

LEMMA JoinedAll ==
  ASSUME NEW X, NEW s \in Seq(Seq(X))
  PROVE  FlattenSeq(s) = Joined(s, Len(s)) /\ \A k \in 0 .. Len(s) : Joined(s, k) \in Seq(X)
<1>1. Len(s) \in Nat
  BY LenProperties
<1>2. SubSeq(s, 1, Len(s)) = s
  <2>1. Len(s) \in 0 .. Len(s)
    BY <1>1
  <2>2. /\ SubSeq(s, 1, Len(s)) \in Seq(Seq(X)) /\ Len(SubSeq(s, 1, Len(s))) = Len(s)
        /\ \A i \in 1 .. Len(s) : SubSeq(s, 1, Len(s))[i] = s[i]
    BY <2>1, Prefix
  <2> QED BY <2>2, SeqEqual
<1>3. ASSUME NEW k \in 0 .. Len(s) PROVE Joined(s, k) \in Seq(X)
  <2>1. CASE k # Len(s)
    <3>1. k \in 0 .. (Len(s) - 1)
      BY <1>1, <2>1
    <3>2. Joined(s, k + 1) = Joined(s, k) \o s[k + 1] /\ Joined(s, k) \in Seq(X)
      BY <3>1, JoinedStep
    <3> QED BY <3>2
  <2>2. CASE k = 0
    BY <2>2, JoinedNone, EmptySeq
  <2>3. CASE k = Len(s) /\ k # 0
    <3> DEFINE j == k - 1
    <3>1. j \in 0 .. (Len(s) - 1) /\ j + 1 = k /\ k \in 1 .. Len(s)
      BY <1>1, <2>3
    <3> HIDE DEF j
    <3>2. Joined(s, j + 1) = Joined(s, j) \o s[j + 1] /\ Joined(s, j) \in Seq(X)
      BY <3>1, JoinedStep
    <3>3. s[k] \in Seq(X)
      BY <3>1, ElementOfSeq
    <3>4. Joined(s, k) = Joined(s, j) \o s[k]
      BY <3>1, <3>2
    <3>5. Joined(s, j) \o s[k] \in Seq(X)
      BY <3>2, <3>3, ConcatProperties
    <3> QED BY <3>4, <3>5
  <2> QED BY <2>1, <2>2, <2>3
<1> QED BY <1>2, <1>3 DEF Joined

LEMMA JoinedGrows ==
  ASSUME NEW X, NEW s \in Seq(Seq(X)), NEW k \in 0 .. (Len(s) - 1)
  PROVE  /\ s[k + 1] \in Seq(X)
         /\ Len(Joined(s, k)) \in Nat /\ Len(s[k + 1]) \in Nat
         /\ Len(Joined(s, k + 1)) = Len(Joined(s, k)) + Len(s[k + 1])
         /\ \A i \in 1 .. Len(Joined(s, k)) : Joined(s, k + 1)[i] = Joined(s, k)[i]
         /\ \A i \in 1 .. Len(s[k + 1]) :
              Joined(s, k + 1)[Len(Joined(s, k)) + i] = s[k + 1][i]
<1> DEFINE a == Joined(s, k)
           b == s[k + 1]
<1>1. k + 1 \in 1 .. Len(s)
  BY LenProperties
<1>2. a \in Seq(X) /\ b \in Seq(X) /\ Joined(s, k + 1) = a \o b
  BY <1>1, JoinedStep, ElementOfSeq
<1> HIDE DEF a, b
<1>3. Len(a) \in Nat /\ Len(b) \in Nat
  BY <1>2, LenProperties
<1>4. /\ Len(a \o b) = Len(a) + Len(b)
      /\ \A i \in 1 .. (Len(a) + Len(b)) : (a \o b)[i] = IF i <= Len(a) THEN a[i] ELSE b[i - Len(a)]
  BY <1>2, ConcatProperties
<1>5. \A i \in 1 .. Len(a) : (a \o b)[i] = a[i]
  <2>1. \A i \in 1 .. Len(a) : i \in 1 .. (Len(a) + Len(b)) /\ i <= Len(a)
    BY <1>3
  <2> QED BY <1>4, <2>1
<1>6. \A i \in 1 .. Len(b) : (a \o b)[Len(a) + i] = b[i]
  <2>1. \A i \in 1 .. Len(b) :
          /\ Len(a) + i \in 1 .. (Len(a) + Len(b)) /\ ~(Len(a) + i <= Len(a))
          /\ (Len(a) + i) - Len(a) = i
    BY <1>3
  <2> QED BY <1>4, <2>1
<1> QED BY <1>2, <1>3, <1>4, <1>5, <1>6 DEF a, b

(* What is joined of s starts what all of it is joined to.                 *)
LEMMA JoinedStarts ==
  ASSUME NEW X, NEW s \in Seq(Seq(X)), NEW k \in 0 .. Len(s)
  PROVE  /\ Len(Joined(s, k)) <= Len(FlattenSeq(s))
         /\ \A i \in 1 .. Len(Joined(s, k)) : FlattenSeq(s)[i] = Joined(s, k)[i]
<1> DEFINE Starts(m) == /\ Len(Joined(s, k)) <= Len(Joined(s, m))
                        /\ \A i \in 1 .. Len(Joined(s, k)) : Joined(s, m)[i] = Joined(s, k)[i]
           S == {n \in Nat : k + n <= Len(s) => Starts(k + n)}
<1>1. k \in Nat /\ Len(s) \in Nat
  BY LenProperties
<1>2. \A m \in 0 .. Len(s) : Len(Joined(s, m)) \in Nat
  BY JoinedAll, LenProperties
<1>3. 0 \in S
  BY <1>1, <1>2
<1>4. ASSUME NEW n \in Nat, n \in S PROVE n + 1 \in S
  <2>1. SUFFICES ASSUME k + (n + 1) <= Len(s) PROVE Starts(k + (n + 1))
    OBVIOUS
  <2> DEFINE j == k + n
  <2>2. j \in 0 .. (Len(s) - 1) /\ j + 1 = k + (n + 1) /\ j <= Len(s)
    BY <1>1, <2>1
  <2>4. Starts(j)
    BY <1>4, <2>2
  <2> HIDE DEF j
  <2>3. /\ Len(Joined(s, j)) \in Nat /\ Len(s[j + 1]) \in Nat
        /\ Len(Joined(s, j + 1)) = Len(Joined(s, j)) + Len(s[j + 1])
        /\ \A i \in 1 .. Len(Joined(s, j)) : Joined(s, j + 1)[i] = Joined(s, j)[i]
    BY <2>2, JoinedGrows
  <2>5. Len(Joined(s, k)) \in Nat
    BY <1>2
  <2>6. \A i \in 1 .. Len(Joined(s, k)) : i \in 1 .. Len(Joined(s, j))
    BY <2>3, <2>4, <2>5
  <2>7. Starts(j + 1)
    <3>1. Len(Joined(s, k)) <= Len(Joined(s, j + 1))
      BY <2>3, <2>4, <2>5
    <3>2. \A i \in 1 .. Len(Joined(s, k)) : Joined(s, j + 1)[i] = Joined(s, k)[i]
      BY <2>3, <2>4, <2>6
    <3> QED BY <3>1, <3>2
  <2> HIDE DEF Starts
  <2> QED BY <2>2, <2>7
<1>5. Starts(Len(s))
  <2>1. Len(s) - k \in Nat /\ k + (Len(s) - k) = Len(s)
    BY <1>1
  <2>2. Len(s) - k \in S
    <3> HIDE DEF S
    <3> QED BY <1>3, <1>4, <2>1, Induction
  <2>3. Starts(k + (Len(s) - k))
    <3> HIDE DEF Starts
    <3> QED BY <1>1, <2>1, <2>2
  <2> HIDE DEF Starts
  <2> QED BY <2>1, <2>3
<1> QED BY <1>5, JoinedAll

Drop(w, n) == SubSeq(w, n + 1, Len(w))

LEMMA DropIs ==
  ASSUME NEW X, NEW w \in Seq(X), NEW n \in 0 .. Len(w)
  PROVE  /\ Drop(w, n) \in Seq(X) /\ Len(Drop(w, n)) = Len(w) - n
         /\ \A i \in 1 .. (Len(w) - n) : Drop(w, n)[i] = w[n + i]
<1>1. Len(w) \in Nat
  BY LenProperties
<1> DEFINE m == n + 1
           l == Len(w)
<1>2. m \in 1 .. (Len(w) + 1) /\ l \in (m - 1) .. Len(w) /\ l - m + 1 = l - n
  BY <1>1
<1>3. \A i \in 1 .. (l - n) : m + i - 1 = n + i
  BY <1>1
<1>4. Drop(w, n) = SubSeq(w, m, l)
  BY DEF Drop
<1> HIDE DEF m, l
<1>5. /\ SubSeq(w, m, l) \in Seq(X) /\ Len(SubSeq(w, m, l)) = l - m + 1
      /\ \A i \in 1 .. (l - m + 1) : SubSeq(w, m, l)[i] = w[m + i - 1]
  BY <1>2, SubSeqProperties
<1> QED BY <1>2, <1>3, <1>4, <1>5 DEF l

LEMMA DropTwice ==
  ASSUME NEW X, NEW w \in Seq(X), NEW n \in Nat, NEW m \in Nat, n + m <= Len(w)
  PROVE  Drop(Drop(w, n), m) = Drop(w, n + m)
<1>1. Len(w) \in Nat /\ n \in 0 .. Len(w) /\ n + m \in 0 .. Len(w)
  BY LenProperties
<1>2. /\ Drop(w, n) \in Seq(X) /\ Len(Drop(w, n)) = Len(w) - n
      /\ \A i \in 1 .. (Len(w) - n) : Drop(w, n)[i] = w[n + i]
  BY <1>1, DropIs
<1>3. /\ Drop(w, n + m) \in Seq(X) /\ Len(Drop(w, n + m)) = Len(w) - (n + m)
      /\ \A i \in 1 .. (Len(w) - (n + m)) : Drop(w, n + m)[i] = w[(n + m) + i]
  BY <1>1, DropIs
<1> DEFINE d == Drop(w, n)
<1> HIDE DEF d
<1>4. m \in 0 .. Len(d)
  BY <1>1, <1>2 DEF d
<1>5. /\ Drop(d, m) \in Seq(X) /\ Len(Drop(d, m)) = Len(d) - m
      /\ \A i \in 1 .. (Len(d) - m) : Drop(d, m)[i] = d[m + i]
  BY <1>2, <1>4, DropIs DEF d
<1>6. Len(Drop(d, m)) = Len(w) - (n + m)
  BY <1>1, <1>2, <1>5 DEF d
<1>7. ASSUME NEW i \in 1 .. (Len(w) - (n + m)) PROVE Drop(d, m)[i] = w[(n + m) + i]
  <2>1. /\ i \in 1 .. (Len(d) - m) /\ m + i \in 1 .. (Len(w) - n) /\ n + (m + i) = (n + m) + i
    BY <1>1, <1>2 DEF d
  <2>2. d[m + i] = w[n + (m + i)]
    BY <1>2, <2>1 DEF d
  <2> QED BY <1>5, <2>1, <2>2
<1>8. Drop(d, m) = Drop(w, n + m)
  BY <1>3, <1>5, <1>6, <1>7, SeqEqual
<1> QED BY <1>8 DEF d

(* What is left of all of s, with tail behind it, after k of its sequences.*)
Left(s, tail, k) == Drop(FlattenSeq(s) \o tail, Len(Joined(s, k)))

LEMMA LeftAll ==
  ASSUME NEW X, NEW s \in Seq(Seq(X)), NEW tail \in Seq(X)
  PROVE  Left(s, tail, 0) = FlattenSeq(s) \o tail /\ Left(s, tail, Len(s)) = tail
<1> DEFINE w == FlattenSeq(s) \o tail
<1>1. FlattenSeq(s) \in Seq(X) /\ FlattenSeq(s) = Joined(s, Len(s))
  <2>1. Len(s) \in 0 .. Len(s)
    BY LenProperties
  <2> QED BY <2>1, JoinedAll
<1>2. /\ w \in Seq(X) /\ Len(w) = Len(FlattenSeq(s)) + Len(tail)
      /\ \A i \in 1 .. (Len(FlattenSeq(s)) + Len(tail)) :
           w[i] = IF i <= Len(FlattenSeq(s)) THEN FlattenSeq(s)[i] ELSE tail[i - Len(FlattenSeq(s))]
  BY <1>1, ConcatProperties
<1>3. Len(FlattenSeq(s)) \in Nat /\ Len(tail) \in Nat /\ Len(w) \in Nat
  BY <1>1, <1>2, LenProperties
<1> HIDE DEF w
<1>4. Len(Joined(s, 0)) = 0
  BY JoinedNone, EmptySeq
<1>5. Drop(w, 0) = w
  <2>1. 0 \in 0 .. Len(w) /\ Len(w) - 0 = Len(w) /\ \A i \in 1 .. Len(w) : 0 + i = i
    BY <1>3
  <2>2. /\ Drop(w, 0) \in Seq(X) /\ Len(Drop(w, 0)) = Len(w) - 0
        /\ \A i \in 1 .. (Len(w) - 0) : Drop(w, 0)[i] = w[0 + i]
    BY <1>2, <2>1, DropIs
  <2>3. Len(Drop(w, 0)) = Len(w) /\ \A i \in 1 .. Len(w) : Drop(w, 0)[i] = w[i]
    BY <2>1, <2>2
  <2> QED BY <1>2, <2>2, <2>3, SeqEqual
<1>6. Drop(w, Len(FlattenSeq(s))) = tail
  <2> DEFINE n == Len(FlattenSeq(s))
  <2>1. n \in 0 .. Len(w) /\ Len(w) - n = Len(tail)
    BY <1>2, <1>3
  <2>2. ASSUME NEW i \in 1 .. Len(tail) PROVE w[n + i] = tail[i]
    <3>1. n + i \in 1 .. (n + Len(tail)) /\ ~(n + i <= n) /\ n + i - n = i
      BY <1>3
    <3> QED BY <1>2, <3>1
  <2> HIDE DEF n
  <2>3. /\ Drop(w, n) \in Seq(X) /\ Len(Drop(w, n)) = Len(tail)
        /\ \A i \in 1 .. Len(tail) : Drop(w, n)[i] = w[n + i]
    BY <1>2, <2>1, DropIs
  <2>4. Drop(w, n) = tail
    BY <2>2, <2>3, SeqEqual
  <2> QED BY <2>4 DEF n
<1> QED BY <1>1, <1>4, <1>5, <1>6 DEF Left, w

(* w begins with h, and rest stands behind it, n elements of it at least.   *)
Heads(X, w, h, rest, n) ==
  /\ w \in Seq(X) /\ Len(h) \in Nat /\ Len(w) \in Nat /\ Len(w) >= Len(h) + n
  /\ \A i \in 1 .. Len(h) : w[i] = h[i]
  /\ Drop(w, Len(h)) = rest

LEMMA LeftHead ==
  ASSUME NEW X, NEW s \in Seq(Seq(X)), NEW tail \in Seq(X), NEW k \in 0 .. (Len(s) - 1)
  PROVE  Heads(X, Left(s, tail, k), s[k + 1], Left(s, tail, k + 1), Len(tail))
<1> DEFINE f == FlattenSeq(s)
           w == f \o tail
           a == Len(Joined(s, k))
           b == Len(s[k + 1])
           c == Len(Joined(s, k + 1))
<1>0. Len(s) \in Nat /\ k + 1 \in 0 .. Len(s)
  BY LenProperties
<1>1. f \in Seq(X)
  <2>1. Len(s) \in 0 .. Len(s)
    BY LenProperties
  <2> QED BY <2>1, JoinedAll
<1>2. /\ w \in Seq(X) /\ Len(w) = Len(f) + Len(tail)
      /\ \A i \in 1 .. (Len(f) + Len(tail)) : w[i] = IF i <= Len(f) THEN f[i] ELSE tail[i - Len(f)]
  <2> HIDE DEF f
  <2> QED BY <1>1, ConcatProperties
<1>3. Len(f) \in Nat /\ Len(tail) \in Nat
  BY <1>1, LenProperties
<1>4. /\ a \in Nat /\ b \in Nat /\ c = a + b
      /\ \A i \in 1 .. b : Joined(s, k + 1)[a + i] = s[k + 1][i]
  BY JoinedGrows
<1>5. c <= Len(f) /\ \A i \in 1 .. c : f[i] = Joined(s, k + 1)[i]
  BY <1>0, JoinedStarts
<1> HIDE DEF f, w, a, b, c
<1>6. a \in 0 .. Len(w)
  BY <1>2, <1>3, <1>4, <1>5
<1>7. /\ Drop(w, a) \in Seq(X) /\ Len(Drop(w, a)) = Len(w) - a
      /\ \A i \in 1 .. (Len(w) - a) : Drop(w, a)[i] = w[a + i]
  BY <1>2, <1>6, DropIs
<1>8. ASSUME NEW i \in 1 .. b PROVE Drop(w, a)[i] = s[k + 1][i]
  <2>1. /\ i \in 1 .. (Len(w) - a) /\ a + i \in 1 .. (Len(f) + Len(tail)) /\ a + i <= Len(f)
        /\ a + i \in 1 .. c
    BY <1>2, <1>3, <1>4, <1>5
  <2>2. w[a + i] = f[a + i]
    BY <1>2, <2>1
  <2> QED BY <1>4, <1>5, <1>7, <2>1, <2>2
<1>9. Drop(Drop(w, a), b) = Drop(w, c)
  <2>1. a + b <= Len(w)
    BY <1>2, <1>3, <1>4, <1>5
  <2> QED BY <1>2, <1>4, <2>1, DropTwice
<1>10. Len(w) - a \in Nat /\ Len(w) - a >= b + Len(tail)
  BY <1>2, <1>3, <1>4, <1>5
<1>11. Heads(X, Drop(w, a), s[k + 1], Drop(w, c), Len(tail))
  <2>1. b = Len(s[k + 1])
    BY DEF b
  <2> QED BY <2>1, <1>4, <1>7, <1>8, <1>9, <1>10 DEF Heads
<1> QED BY <1>11 DEF Left, w, f, a, b, c

----------------------------------------------------------------------------
(* Powers and numerals. *)

LEMMA PowerSteps ==
  ASSUME NEW base \in Nat, base >= 2
  PROVE  /\ Power(base, 0) = 1
         /\ \A n \in Nat : Power(base, n) \in Nat /\ Power(base, n + 1) = base * Power(base, n)
<1> DEFINE Q(f) == [k \in Nat |-> IF k = 0 THEN 1 ELSE base * f[k - 1]]
           To == CHOOSE f : f = Q(f)
           step == [k \in Nat |-> [v \in Nat |-> base * v]]
<1>1. PICK h \in [Nat -> Nat] : Recursion(h, 1, step)
  <2>1. step \in [Nat -> [Nat -> Nat]]
    <3>1. \A v \in Nat : base * v \in Nat
      OBVIOUS
    <3> QED BY <3>1
  <2> HIDE DEF step
  <2> QED BY <2>1, RecursionExists
<1>2. h = Q(h)
  <2>1. ASSUME NEW k \in Nat PROVE h[k] = IF k = 0 THEN 1 ELSE base * h[k - 1]
    <3>1. CASE k = 0
      BY <1>1, <3>1 DEF Recursion
    <3>2. CASE k # 0
      <4>1. k - 1 \in Nat /\ (k - 1) + 1 = k
        BY <3>2
      <4>2. h[(k - 1) + 1] = step[k - 1][h[k - 1]] /\ h[k - 1] \in Nat
        <5> HIDE DEF step
        <5> QED BY <1>1, <4>1 DEF Recursion
      <4>3. step[k - 1][h[k - 1]] = base * h[k - 1]
        BY <4>1, <4>2
      <4> HIDE DEF step
      <4> QED BY <3>2, <4>1, <4>2, <4>3
    <3> QED BY <3>1, <3>2
  <2> HIDE DEF step
  <2> QED BY <2>1
<1>3. To = Q(To)
  <2> HIDE DEF Q
  <2> QED BY <1>2
<1>4. \A n : Power(base, n) = To[n]
  BY DEF Power
<1> HIDE DEF To
<1>5. \A k \in Nat : To[k] = IF k = 0 THEN 1 ELSE base * To[k - 1]
  BY <1>3
<1>6. ASSUME NEW n \in Nat PROVE To[n + 1] = base * To[n]
  <2>1. n + 1 \in Nat /\ n + 1 # 0 /\ (n + 1) - 1 = n
    OBVIOUS
  <2> QED BY <1>5, <2>1
<1> DEFINE S == {n \in Nat : To[n] \in Nat}
<1>7. 0 \in S
  BY <1>5
<1>8. ASSUME NEW n \in Nat, n \in S PROVE n + 1 \in S
  <2>1. To[n] \in Nat
    BY <1>8
  <2>2. base * To[n] \in Nat
    BY <2>1
  <2> QED BY <1>6, <2>2
<1>9. \A n \in Nat : To[n] \in Nat
  <2>1. Nat \subseteq S
    <3> HIDE DEF S
    <3> QED BY <1>7, <1>8, Induction
  <2> QED BY <2>1
<1>10. To[0] = 1
  BY <1>5
<1> QED BY <1>4, <1>6, <1>9, <1>10

LEMMA PowerExceeds ==
  ASSUME NEW base \in Nat, base >= 2, NEW n \in Nat
  PROVE  n < Power(base, n) /\ Power(base, n) \in Nat \ {0}
<1> DEFINE S == {k \in Nat : k < Power(base, k)}
<1>1. 0 \in S
  BY PowerSteps
<1>2. ASSUME NEW k \in Nat, k \in S PROVE k + 1 \in S
  <2>1. Power(base, k) \in Nat /\ Power(base, k + 1) = base * Power(base, k) /\ k < Power(base, k)
    BY <1>2, PowerSteps
  <2>2. \A x \in Nat : k < x => k + 1 < base * x
    <3>1. \A x \in Nat : 2 * x <= base * x
      OBVIOUS
    <3> QED BY <3>1
  <2> QED BY <2>1, <2>2
<1>3. n \in S
  <2> HIDE DEF S
  <2> QED BY <1>1, <1>2, Induction
<1> QED BY <1>3, PowerSteps

LEMMA PowerGrows ==
  ASSUME NEW base \in Nat, base >= 2, NEW n \in Nat, NEW m \in Nat, n <= m
  PROVE  Power(base, n) <= Power(base, m)
<1> DEFINE S == {k \in Nat : Power(base, n) <= Power(base, n + k)}
<1>1. 0 \in S
  <2>1. n + 0 = n /\ Power(base, n) \in Nat
    BY PowerSteps
  <2> QED BY <2>1
<1>2. ASSUME NEW k \in Nat, k \in S PROVE k + 1 \in S
  <2> DEFINE j == n + k
  <2>1. j \in Nat /\ j + 1 = n + (k + 1)
    OBVIOUS
  <2>2. Power(base, n) <= Power(base, j)
    BY <1>2
  <2> HIDE DEF j
  <2>3. /\ Power(base, j) \in Nat /\ Power(base, j + 1) = base * Power(base, j)
        /\ Power(base, n) \in Nat
    BY <2>1, PowerSteps
  <2>4. \A x \in Nat : x <= base * x
    OBVIOUS
  <2>5. base * Power(base, j) \in Nat
    BY <2>3
  <2>6. Power(base, n) <= Power(base, j + 1)
    BY <2>2, <2>3, <2>4, <2>5
  <2> QED BY <2>1, <2>6
<1>3. m - n \in Nat /\ n + (m - n) = m
  OBVIOUS
<1>4. m - n \in S
  <2> HIDE DEF S
  <2> QED BY <1>1, <1>2, <1>3, Induction
<1>5. Power(base, n) <= Power(base, n + (m - n))
  BY <1>4
<1> QED BY <1>3, <1>5

Length(v, base) ==
  CHOOSE n \in 1 .. (v + 1) : v < Power(base, n) /\ (n = 1 \/ v >= Power(base, n - 1))

LEMMA LengthIs ==
  ASSUME NEW v \in Nat, NEW base \in Nat, base >= 2
  PROVE  /\ Length(v, base) \in 1 .. (v + 1)
         /\ v < Power(base, Length(v, base))
         /\ Length(v, base) = 1 \/ v >= Power(base, Length(v, base) - 1)
<1> DEFINE S == {n \in Nat : n >= 1 /\ v < Power(base, n)}
<1>1. v + 1 \in S
  BY PowerExceeds
<1>2. PICK n \in S : \A k \in S : n <= k
  <2>1. S \subseteq Nat /\ S # {}
    BY <1>1
  <2> HIDE DEF S
  <2> QED BY <2>1, Least
<1>3. n \in 1 .. (v + 1) /\ v < Power(base, n)
  BY <1>1, <1>2
<1>4. n = 1 \/ v >= Power(base, n - 1)
  <2>1. SUFFICES ASSUME n # 1, v < Power(base, n - 1) PROVE FALSE
    <3>1. n # 1 => Power(base, n - 1) \in Nat
      <4>1. n # 1 => n - 1 \in Nat
        BY <1>3
      <4> QED BY <4>1, PowerSteps
    <3> HIDE DEF S
    <3> QED BY <3>1
  <2>2. n - 1 \in S /\ ~(n <= n - 1)
    BY <1>3, <2>1
  <2> QED BY <1>2, <2>2
<1> QED BY <1>3, <1>4 DEF Length

(* The length is the only one, for what is not 0.                          *)
LEMMA LengthUnique ==
  ASSUME NEW v \in Nat, NEW base \in Nat, base >= 2, NEW n \in Nat,
         v < Power(base, n + 1), v >= Power(base, n)
  PROVE  Length(v, base) = n + 1
<1> DEFINE l == Length(v, base)
<1>1. /\ l \in 1 .. (v + 1) /\ v < Power(base, l)
      /\ l = 1 \/ v >= Power(base, l - 1)
  BY LengthIs
<1> HIDE DEF l
<1>2. l \in Nat /\ l - 1 \in Nat
  BY <1>1
<1>3. \A k \in Nat : Power(base, k) \in Nat
  BY PowerSteps
<1>4. ~(l <= n)
  <2>1. l <= n => Power(base, l) <= Power(base, n)
    BY <1>2, PowerGrows
  <2>2. Power(base, l) \in Nat /\ Power(base, n) \in Nat
    BY <1>2, <1>3
  <2> QED BY <1>1, <2>1, <2>2
<1>5. ~(n + 2 <= l)
  <2>1. n + 2 <= l => Power(base, n + 1) <= Power(base, l - 1)
    <3>1. n + 2 <= l => n + 1 <= l - 1
      BY <1>2
    <3> QED BY <1>2, <3>1, PowerGrows
  <2>2. Power(base, l - 1) \in Nat /\ Power(base, n + 1) \in Nat
    BY <1>2, <1>3
  <2>3. n + 2 <= l => l # 1
    BY <1>2
  <2> QED BY <1>1, <2>1, <2>2, <2>3
<1>6. l = n + 1
  BY <1>2, <1>4, <1>5
<1> QED BY <1>6 DEF l

LEMMA LengthStep ==
  ASSUME NEW v \in Nat, NEW base \in Nat, base >= 2
  PROVE  /\ v < base => Length(v, base) = 1
         /\ v >= base => v \div base \in Nat /\ Length(v, base) = Length(v \div base, base) + 1
<1>0. Power(base, 0) = 1 /\ Power(base, 1) = base
  <2>1. Power(base, 0 + 1) = base * Power(base, 0) /\ Power(base, 0) = 1
    BY PowerSteps
  <2> QED BY <2>1
<1>1. ASSUME v < base PROVE Length(v, base) = 1
  <2>1. CASE v = 0
    <3>1. Length(v, base) \in 1 .. (v + 1)
      BY LengthIs
    <3> QED BY <2>1, <3>1
  <2>2. CASE v # 0
    <3>1. v < Power(base, 0 + 1) /\ v >= Power(base, 0)
      BY <1>0, <1>1, <2>2
    <3>2. Length(v, base) = 0 + 1
      BY <3>1, LengthUnique
    <3> QED BY <3>2
  <2> QED BY <2>1, <2>2
<1>2. ASSUME v >= base
      PROVE  v \div base \in Nat /\ Length(v, base) = Length(v \div base, base) + 1
  <2> DEFINE q == v \div base
             n == Length(q, base)
  <2>1. /\ q \in Nat /\ q >= 1 /\ v >= base * q
        /\ \A m \in Nat : q < m => v < base * m
    <3>1. q \in Nat /\ (v % base) \in 0 .. (base - 1) /\ v = base * q + (v % base)
      OBVIOUS
    <3> DEFINE r == v % base
    <3> HIDE DEF q, r
    <3>2. \A m \in Nat : q < m => base * q + base <= base * m
      <4>1. ASSUME NEW m \in Nat, q < m PROVE base * q + base <= base * m
        <5>1. base * m = base * q + base * (m - q) /\ m - q \in Nat /\ m - q >= 1
          BY <3>1, <4>1
        <5>2. base * (m - q) >= base
          BY <5>1
        <5>3. base * q \in Nat /\ base * m \in Nat
          BY <3>1
        <5> QED BY <5>1, <5>2, <5>3
      <4> QED BY <4>1
    <3>3. base * q \in Nat /\ \A m \in Nat : base * m \in Nat
      BY <3>1
    <3>4. v >= base * q /\ \A m \in Nat : q < m => v < base * m
      BY <3>1, <3>2, <3>3 DEF r
    <3>5. q >= 1
      <4>1. q = 0 => base * q = 0
        OBVIOUS
      <4> QED BY <1>2, <3>1, <4>1 DEF r
    <3> QED BY <3>1, <3>4, <3>5
  <2> HIDE DEF q
  <2>2. n \in 1 .. (q + 1) /\ q < Power(base, n) /\ (n = 1 \/ q >= Power(base, n - 1))
    BY <2>1, LengthIs
  <2> HIDE DEF n
  <2>3. n \in Nat /\ Power(base, n) \in Nat /\ Power(base, n + 1) = base * Power(base, n)
    BY <2>2, PowerSteps
  <2>4. v < Power(base, n + 1)
    BY <2>1, <2>2, <2>3
  <2>5. v >= Power(base, n)
    <3>1. CASE n = 1
      BY <1>0, <1>2, <3>1
    <3>2. CASE n # 1
      <4> DEFINE j == n - 1
      <4>1. j \in Nat /\ j + 1 = n
        BY <2>2
      <4>2. q >= Power(base, j)
        BY <2>2, <3>2
      <4> HIDE DEF j
      <4>3. Power(base, j) \in Nat /\ Power(base, n) = base * Power(base, j)
        <5>1. Power(base, j) \in Nat /\ Power(base, j + 1) = base * Power(base, j)
          BY <4>1, PowerSteps
        <5> QED BY <4>1, <5>1
      <4>4. \A x \in Nat : q >= x => base * q >= base * x
        BY <2>1
      <4>5. base * q >= Power(base, n)
        BY <4>2, <4>3, <4>4
      <4>6. base * q \in Nat
        BY <2>1
      <4> QED BY <2>1, <2>3, <4>5, <4>6
    <3> QED BY <3>1, <3>2
  <2>6. Length(v, base) = n + 1
    BY <2>3, <2>4, <2>5, LengthUnique
  <2> QED BY <2>1, <2>6 DEF n, q
<1> QED BY <1>1, <1>2

Digits == {Digit[k] : k \in DOMAIN Digit}

LEMMA DigitIs ==
  /\ \A k \in 0 .. 15 : Digit[k + 1] \in Digits
  /\ \A k \in 0 .. 9 : Digit[k + 1] \in Decimal /\ DigitValue(Digit[k + 1]) = k
  /\ \A k \in 1 .. 9 : Digit[k + 1] # "0"
  /\ Digit[1] = "0"
<1>1. DOMAIN Digit = 1 .. 16
  BY DEF Digit
<1>2. \A k \in 0 .. 15 : Digit[k + 1] \in Digits
  <2>1. \A k \in 0 .. 15 : k + 1 \in 1 .. 16
    OBVIOUS
  <2> QED BY <1>1, <2>1 DEF Digits
<1>3. \A k \in 0 .. 9 : Digit[k + 1] \in Decimal
  <2>1. \A k \in 0 .. 9 : k + 1 \in 1 .. 10
    OBVIOUS
  <2> QED BY <2>1 DEF Decimal
<1>4. \A k, j \in 0 .. 9 : Digit[k + 1] = Digit[j + 1] => k = j
  BY DEF Digit
<1>5. \A k \in 0 .. 9 : DigitValue(Digit[k + 1]) = k
  <2> TAKE k \in 0 .. 9
  <2>1. \A v \in 0 .. 9 : Digit[v + 1] = Digit[k + 1] => v = k
    BY <1>4
  <2> HIDE DEF Digit
  <2> QED BY <2>1 DEF DigitValue
<1>6. Digit[1] = "0"
  BY DEF Digit
<1>7. \A k \in 1 .. 9 : Digit[k + 1] # "0"
  <2>1. \A k \in 1 .. 9 : k \in 0 .. 9 /\ 0 \in 0 .. 9 /\ Digit[0 + 1] = "0" /\ k # 0
    BY <1>6
  <2> QED BY <1>4, <2>1
<1> QED BY <1>2, <1>3, <1>5, <1>6, <1>7

LEMMA NumeralIs ==
  ASSUME NEW v \in Nat, NEW base \in 2 .. 16
  PROVE  /\ Numeral(v, base) \in Seq(Digits)
         /\ Len(Numeral(v, base)) = Length(v, base)
         /\ \A i \in 1 .. Length(v, base) :
              Numeral(v, base)[i] = Digit[((v \div Power(base, Length(v, base) - i)) % base) + 1]
<1> DEFINE l == Length(v, base)
<1>1. l \in Nat
  BY LengthIs
<1>2. Numeral(v, base) = [i \in 1 .. l |-> Digit[((v \div Power(base, l - i)) % base) + 1]]
  BY DEF Numeral, Length
<1> HIDE DEF l
<1>3. ASSUME NEW i \in 1 .. l
      PROVE  Digit[((v \div Power(base, l - i)) % base) + 1] \in Digits
  <2>1. l - i \in Nat
    BY <1>1
  <2>2. Power(base, l - i) \in Nat \ {0}
    BY <2>1, PowerExceeds
  <2> DEFINE x == v \div Power(base, l - i)
  <2>3. x \in Nat
    BY <2>2
  <2> HIDE DEF x
  <2>4. (x % base) \in 0 .. 15
    BY <2>3
  <2> QED BY <2>4, DigitIs DEF x
<1>4. Numeral(v, base) \in [1 .. l -> Digits]
  BY <1>2, <1>3
<1>5. Numeral(v, base) \in Seq(Digits)
  BY <1>1, <1>4
<1>6. Len(Numeral(v, base)) = l
  BY <1>1, <1>2
<1> QED BY <1>2, <1>5, <1>6 DEF l

(* A numeral is that of the quotient by the base, and a last digit.        *)
LEMMA NumeralStep ==
  ASSUME NEW v \in Nat, NEW base \in 2 .. 16
  PROVE  /\ v < base => Numeral(v, base) = <<Digit[(v % base) + 1]>>
         /\ v >= base =>
              Numeral(v, base) = Numeral(v \div base, base) \o <<Digit[(v % base) + 1]>>
<1> DEFINE d == Digit[(v % base) + 1]
<1>0. d \in Digits /\ <<d>> \in Seq(Digits) /\ Len(<<d>>) = 1 /\ <<d>>[1] = d
  <2>1. (v % base) \in 0 .. 15
    OBVIOUS
  <2>2. d \in Digits
    BY <2>1, DigitIs
  <2> HIDE DEF d
  <2> QED BY <2>2
<1>b. base \in Nat /\ base >= 2
  OBVIOUS
<1>1. Power(base, 0) = 1 /\ v \div 1 = v
  BY <1>b, PowerSteps
<1>2. /\ Numeral(v, base) \in Seq(Digits)
      /\ Len(Numeral(v, base)) = Length(v, base)
      /\ \A i \in 1 .. Length(v, base) :
           Numeral(v, base)[i] = Digit[((v \div Power(base, Length(v, base) - i)) % base) + 1]
  BY NumeralIs
<1>3. ASSUME v < base PROVE Numeral(v, base) = <<d>>
  <2>1. Length(v, base) = 1
    BY <1>3, LengthStep
  <2>2. 1 \in 1 .. Length(v, base) /\ Length(v, base) - 1 = 0
    BY <2>1
  <2>3. Numeral(v, base)[1] = d
    BY <1>1, <1>2, <2>2
  <2> HIDE DEF d
  <2>4. \A i \in 1 .. 1 : Numeral(v, base)[i] = <<d>>[i]
    BY <1>0, <2>3
  <2> QED BY <1>0, <1>2, <2>1, <2>4, SeqEqual
<1>4. ASSUME v >= base PROVE Numeral(v, base) = Numeral(v \div base, base) \o <<d>>
  <2> DEFINE q == v \div base
             n == Length(q, base)
  <2>1. q \in Nat /\ Length(v, base) = n + 1
    BY <1>4, LengthStep
  <2>2. /\ Numeral(q, base) \in Seq(Digits) /\ Len(Numeral(q, base)) = n /\ n \in Nat
        /\ \A i \in 1 .. n : Numeral(q, base)[i] = Digit[((q \div Power(base, n - i)) % base) + 1]
    <3> HIDE DEF q
    <3>1. n \in Nat
      <4>1. n \in 1 .. (q + 1)
        BY <1>b, <2>1, LengthIs
      <4> QED BY <4>1
    <3> QED BY <2>1, <3>1, NumeralIs
  <2> DEFINE c == Numeral(q, base) \o <<d>>
  <2>3. /\ c \in Seq(Digits) /\ Len(c) = n + 1
        /\ \A i \in 1 .. (n + 1) : c[i] = IF i <= n THEN Numeral(q, base)[i] ELSE <<d>>[i - n]
    <3> HIDE DEF q, n, d
    <3> QED BY <1>0, <2>2, ConcatProperties
  <2>4. ASSUME NEW i \in 1 .. (n + 1) PROVE Numeral(v, base)[i] = c[i]
    <3>1. Numeral(v, base)[i] = Digit[((v \div Power(base, (n + 1) - i)) % base) + 1]
      BY <1>2, <2>1
    <3>2. CASE i = n + 1
      <4>1. (n + 1) - i = 0 /\ i - n = 1 /\ ~(i <= n)
        BY <2>2, <3>2
      <4>2. c[i] = d
        <5> HIDE DEF c, d, q, n
        <5> QED BY <1>0, <2>3, <4>1
      <4> HIDE DEF q, n, c
      <4> QED BY <1>1, <3>1, <4>1, <4>2
    <3>3. CASE i # n + 1
      <4> DEFINE k == n - i
                 m == Power(base, k)
      <4>1. i \in 1 .. n /\ k \in Nat /\ (n + 1) - i = k + 1 /\ i <= n
        BY <2>2, <3>3
      <4> HIDE DEF n, k, q, c
      <4>2. m \in Nat \ {0} /\ Power(base, k + 1) = base * m
        BY <1>b, <4>1, PowerSteps, PowerExceeds
      <4> HIDE DEF m
      <4>3. v \div (base * m) = (v \div base) \div m
        BY <4>2
      <4>4. c[i] = Digit[((q \div m) % base) + 1]
        BY <2>2, <2>3, <4>1 DEF m, k
      <4> QED BY <3>1, <4>1, <4>2, <4>3, <4>4 DEF q
    <3> QED BY <3>2, <3>3
  <2> HIDE DEF q, n, c, d
  <2>5. Numeral(v, base) = c
    BY <1>2, <2>1, <2>3, <2>4, SeqEqual
  <2> QED BY <2>5 DEF c, q
<1> QED BY <1>3, <1>4 DEF d

LEMMA ReverseIs ==
  ASSUME NEW X, NEW s \in Seq(X)
  PROVE  /\ Reverse(s) \in Seq(X) /\ Len(Reverse(s)) = Len(s)
         /\ \A i \in 1 .. Len(s) : Reverse(s)[i] = s[Len(s) - i + 1]
         /\ Reverse(Reverse(s)) = s
<1>0. Len(s) \in Nat
  BY LenProperties
<1>1. ASSUME NEW t \in Seq(X), Len(t) = Len(s)
      PROVE  /\ Reverse(t) \in Seq(X) /\ Len(Reverse(t)) = Len(t)
             /\ \A i \in 1 .. Len(t) : Reverse(t)[i] = t[Len(t) - i + 1]
  <2>1. Len(t) \in Nat
    BY <1>0, <1>1
  <2>2. \A i \in 1 .. Len(t) : t[Len(t) - i + 1] \in X
    <3>1. \A i \in 1 .. Len(t) : Len(t) - i + 1 \in 1 .. Len(t)
      BY <2>1
    <3> QED BY <3>1, ElementOfSeq
  <2>3. Reverse(t) \in [1 .. Len(t) -> X]
    BY <2>2 DEF Reverse
  <2>4. Reverse(t) \in Seq(X)
    BY <2>1, <2>3
  <2>5. Len(Reverse(t)) = Len(t)
    BY <2>1 DEF Reverse
  <2> QED BY <2>4, <2>5 DEF Reverse
<1>2. /\ Reverse(s) \in Seq(X) /\ Len(Reverse(s)) = Len(s)
      /\ \A i \in 1 .. Len(s) : Reverse(s)[i] = s[Len(s) - i + 1]
  BY <1>1
<1> DEFINE r == Reverse(s)
<1> HIDE DEF r
<1>3. /\ Reverse(r) \in Seq(X) /\ Len(Reverse(r)) = Len(r)
      /\ \A i \in 1 .. Len(r) : Reverse(r)[i] = r[Len(r) - i + 1]
  BY <1>1, <1>2 DEF r
<1>4. ASSUME NEW i \in 1 .. Len(s) PROVE Reverse(r)[i] = s[i]
  <2> DEFINE j == Len(s) - i + 1
  <2>1. j \in 1 .. Len(s) /\ Len(s) - j + 1 = i
    BY <1>0
  <2>2. Reverse(r)[i] = r[j]
    BY <1>2, <1>3 DEF r
  <2> HIDE DEF j
  <2>3. r[j] = s[Len(s) - j + 1]
    BY <1>2, <2>1 DEF r
  <2> QED BY <2>1, <2>2, <2>3
<1>5. Reverse(r) = s
  BY <1>2, <1>3, <1>4, SeqEqual DEF r
<1> QED BY <1>2, <1>5 DEF r

(* Reversed, a sequence begins with its last.                              *)
LEMMA ReverseLast ==
  ASSUME NEW X, NEW s \in Seq(X), NEW x \in X
  PROVE  Reverse(s \o <<x>>) = <<x>> \o Reverse(s)
<1> DEFINE t == <<x>>
           u == s \o t
           n == Len(s)
<1>0. t \in Seq(X) /\ Len(t) = 1 /\ t[1] = x /\ n \in Nat
  BY LenProperties
<1> HIDE DEF t
<1>1. /\ u \in Seq(X) /\ Len(u) = n + 1
      /\ \A i \in 1 .. (n + 1) : u[i] = IF i <= n THEN s[i] ELSE t[i - n]
  <2> HIDE DEF n
  <2>1. /\ u \in Seq(X) /\ Len(u) = Len(s) + Len(t)
        /\ \A i \in 1 .. (Len(s) + Len(t)) : u[i] = IF i <= Len(s) THEN s[i] ELSE t[i - Len(s)]
    BY <1>0, ConcatProperties
  <2> QED BY <1>0, <2>1 DEF n
<1> HIDE DEF u, n
<1>2. /\ Reverse(u) \in Seq(X) /\ Len(Reverse(u)) = n + 1
      /\ \A i \in 1 .. (n + 1) : Reverse(u)[i] = u[(n + 1) - i + 1]
  BY <1>1, ReverseIs
<1>3. /\ Reverse(s) \in Seq(X) /\ Len(Reverse(s)) = n
      /\ \A i \in 1 .. n : Reverse(s)[i] = s[n - i + 1]
  BY ReverseIs DEF n
<1> DEFINE v == t \o Reverse(s)
<1>4. /\ v \in Seq(X) /\ Len(v) = 1 + n
      /\ \A i \in 1 .. (1 + n) : v[i] = IF i <= 1 THEN t[i] ELSE Reverse(s)[i - 1]
  <2>1. /\ v \in Seq(X) /\ Len(v) = Len(t) + Len(Reverse(s))
        /\ \A i \in 1 .. (Len(t) + Len(Reverse(s))) :
             v[i] = IF i <= Len(t) THEN t[i] ELSE Reverse(s)[i - Len(t)]
    <3> DEFINE r == Reverse(s)
    <3>1. t \in Seq(X) /\ r \in Seq(X)
      BY <1>0, <1>3
    <3> HIDE DEF r
    <3>2. /\ t \o r \in Seq(X) /\ Len(t \o r) = Len(t) + Len(r)
          /\ \A i \in 1 .. (Len(t) + Len(r)) :
               (t \o r)[i] = IF i <= Len(t) THEN t[i] ELSE r[i - Len(t)]
      BY <3>1, ConcatProperties
    <3> QED BY <3>2 DEF r
  <2> HIDE DEF v
  <2> QED BY <1>0, <1>3, <2>1
<1> HIDE DEF v
<1>5. ASSUME NEW i \in 1 .. (n + 1) PROVE Reverse(u)[i] = v[i]
  <2>1. CASE i = 1
    <3>1. /\ (n + 1) - i + 1 = n + 1 /\ n + 1 \in 1 .. (n + 1) /\ ~(n + 1 <= n) /\ (n + 1) - n = 1
          /\ i \in 1 .. (1 + n) /\ i <= 1
      BY <1>0, <2>1
    <3>2. Reverse(u)[i] = u[n + 1]
      BY <1>2, <3>1
    <3>3. u[n + 1] = t[1]
      BY <1>1, <3>1
    <3> QED BY <1>4, <2>1, <3>1, <3>2, <3>3
  <2>2. CASE i # 1
    <3> DEFINE j == (n + 1) - i + 1
    <3>1. /\ j \in 1 .. (n + 1) /\ j <= n /\ i \in 1 .. (1 + n) /\ ~(i <= 1)
          /\ i - 1 \in 1 .. n /\ n - (i - 1) + 1 = j
      BY <1>0, <2>2
    <3>2. Reverse(u)[i] = u[j]
      BY <1>2
    <3> HIDE DEF j
    <3>3. u[j] = s[j]
      BY <1>1, <3>1
    <3>4. v[i] = Reverse(s)[i - 1]
      BY <1>4, <3>1
    <3>5. Reverse(s)[i - 1] = s[j]
      BY <1>3, <3>1
    <3> QED BY <3>2, <3>3, <3>4, <3>5
  <2> QED BY <2>1, <2>2
<1>6. Len(v) = n + 1
  BY <1>0, <1>4
<1>7. Reverse(u) = v
  BY <1>2, <1>4, <1>5, <1>6, SeqEqual
<1> QED BY <1>7 DEF u, v, t

(* The buffer, reversed, is the numeral.                                   *)
LEMMA BufferIs ==
  ASSUME NEW v \in Nat, v > 0, NEW base \in 2 .. 16
  PROVE  Buffer(v, base) = Reverse(Numeral(v, base))
<1> DEFINE Final(n) == Digit[(n % base) + 1]
           Q(f) == [n \in Nat |-> IF n = 0 THEN <<>> ELSE <<Final(n)>> \o f[n \div base]]
           G(n) == IF n = 0 THEN <<>> ELSE Reverse(Numeral(n, base))
           g == [n \in Nat |-> G(n)]
           From == CHOOSE f : f = Q(f)
<1>1. ASSUME NEW n \in Nat PROVE G(n) = IF n = 0 THEN <<>> ELSE <<Final(n)>> \o G(n \div base)
  <2>1. CASE n = 0
    BY <2>1
  <2>2. CASE n # 0 /\ n < base
    <3>1. n \div base = 0
      BY <2>2
    <3>2. Numeral(n, base) = <<Final(n)>>
      BY <2>2, NumeralStep
    <3>3. Final(n) \in Digits
      <4>1. (n % base) \in 0 .. 15
        OBVIOUS
      <4> QED BY <4>1, DigitIs
    <3>4. G(n) = Reverse(<<Final(n)>>) /\ G(n \div base) = <<>>
      BY <2>2, <3>1, <3>2
    <3> HIDE DEF Final, G
    <3>5. <<Final(n)>> \in Seq(Digits)
      BY <3>3
    <3>6. Reverse(<<Final(n)>>) = <<Final(n)>>
      BY DEF Reverse
    <3>7. <<Final(n)>> \o <<>> = <<Final(n)>>
      BY <3>5, ConcatEmptySeq
    <3> QED BY <2>2, <3>4, <3>6, <3>7
  <2>3. CASE n # 0 /\ n >= base
    <3>1. n \div base \in Nat /\ n \div base # 0
      BY <2>3
    <3>2. Numeral(n, base) = Numeral(n \div base, base) \o <<Final(n)>>
      BY <2>3, NumeralStep
    <3>3. Final(n) \in Digits
      <4>1. (n % base) \in 0 .. 15
        OBVIOUS
      <4> QED BY <4>1, DigitIs
    <3>4. G(n) = Reverse(Numeral(n \div base, base) \o <<Final(n)>>)
      BY <2>3, <3>2
    <3>5. G(n \div base) = Reverse(Numeral(n \div base, base))
      BY <3>1
    <3> DEFINE q == n \div base
    <3> HIDE DEF Final, G, q
    <3>6. Numeral(q, base) \in Seq(Digits)
      BY <3>1, NumeralIs DEF q
    <3>7. Reverse(Numeral(q, base) \o <<Final(n)>>) = <<Final(n)>> \o Reverse(Numeral(q, base))
      BY <3>3, <3>6, ReverseLast
    <3> QED BY <2>3, <3>4, <3>5, <3>7 DEF q
  <2> QED BY <2>1, <2>2, <2>3
<1> HIDE DEF Final
<1>2. \A n \in Nat : n \div base \in Nat
  OBVIOUS
<1>3. g = Q(g)
  <2>1. \A n \in Nat : g[n] = G(n) /\ g[n \div base] = G(n \div base)
    <3> HIDE DEF G
    <3> QED BY <1>2
  <2> HIDE DEF g, G
  <2>2. \A n \in Nat : g[n] = IF n = 0 THEN <<>> ELSE <<Final(n)>> \o g[n \div base]
    BY <1>1, <2>1
  <2>3. g = [n \in Nat |-> g[n]]
    BY DEF g
  <2> QED BY <2>2, <2>3
<1>4. From = Q(From)
  <2> HIDE DEF Q, g
  <2> QED BY <1>3
<1> HIDE DEF From, G
<1>5. \A n \in Nat : From[n] = IF n = 0 THEN <<>> ELSE <<Final(n)>> \o From[n \div base]
  BY <1>4
<1> DEFINE S == {n \in Nat : \A m \in 0 .. n : From[m] = G(m)}
<1>6. 0 \in S
  <2>1. From[0] = <<>> /\ G(0) = <<>>
    BY <1>1, <1>5
  <2> QED BY <2>1
<1>7. ASSUME NEW n \in Nat, n \in S PROVE n + 1 \in S
  <2>1. (n + 1) \div base \in 0 .. n
    OBVIOUS
  <2>2. From[(n + 1) \div base] = G((n + 1) \div base)
    BY <1>7, <2>1
  <2>3. From[n + 1] = G(n + 1)
    <3>1. n + 1 \in Nat /\ n + 1 # 0
      OBVIOUS
    <3> QED BY <1>1, <1>5, <2>2, <3>1
  <2>4. ASSUME NEW m \in 0 .. (n + 1) PROVE From[m] = G(m)
    <3>1. m = n + 1 \/ m \in 0 .. n
      OBVIOUS
    <3> QED BY <1>7, <2>3, <3>1
  <2> QED BY <2>4
<1>8. From[v] = G(v)
  <2>1. v \in S
    <3> HIDE DEF S
    <3> QED BY <1>6, <1>7, Induction
  <2> QED BY <2>1
<1>9. Buffer(v, base) = From[v]
  BY DEF Buffer, From, Final
<1> QED BY <1>8, <1>9 DEF G

----------------------------------------------------------------------------
(* Numbers. *)

LEMMA Glyphs ==
  /\ Digits \subseteq Glyph /\ Char \subseteq Glyph /\ Known \subseteq Glyph
  /\ {"0", "l", "n", "(", ")", "-", " ", "u", "x", "%"} \subseteq Glyph
  /\ NUL \in Glyph /\ NUL # "%"
<1>1. Digits \subseteq Glyph /\ Char \subseteq Glyph /\ Known \subseteq Glyph
  BY CallAssumption DEF Digits
<1>2. "u" \in Known /\ "x" \in Known /\ "%" \in Known
  BY DEF Known, Numeric
<1>3. "0" \in Digits
  <2>1. 0 \in 0 .. 15 /\ 0 + 1 = 1
    OBVIOUS
  <2> QED BY <2>1, DigitIs
<1>4. {"l", "n", "(", ")", "-", " "} \subseteq Glyph /\ NUL \notin Known
  BY CallAssumption
<1> QED BY <1>1, <1>2, <1>3, <1>4, NulCode

LEMMA Limits ==
  INT_LIM \in Nat \ {0} /\ LONG_LIM \in Nat \ {0} /\ INT_LIM <= LONG_LIM
<1>1. INT_LIM \in Nat \ {0} /\ LONG_LIM \in Nat /\ INT_LIM <= LONG_LIM
  BY CallAssumption
<1> QED BY <1>1

LEMMA PaddingIs ==
  ASSUME NEW n \in Int, NEW c \in Glyph
  PROVE  Padding(n, c) \in Seq(Glyph) /\ (n <= 0 => Padding(n, c) = <<>>)
<1> DEFINE m == IF n >= 0 THEN n ELSE 0
<1>1. m \in Nat /\ 1 .. n = 1 .. m /\ (n <= 0 => m = 0)
  OBVIOUS
<1>2. Padding(n, c) \in [1 .. m -> Glyph]
  BY <1>1 DEF Padding
<1> HIDE DEF m
<1>3. Padding(n, c) \in Seq(Glyph)
  BY <1>1, <1>2
<1>4. ASSUME n <= 0 PROVE Padding(n, c) = <<>>
  <2>1. Padding(n, c) \in [1 .. 0 -> Glyph]
    BY <1>1, <1>2, <1>4
  <2>2. Len(Padding(n, c)) = 0
    BY <1>3, <2>1, LenProperties
  <2> QED BY <1>3, <2>2, EmptySeq
<1> QED BY <1>3, <1>4

LEMMA SeqWider ==
  ASSUME NEW X, NEW Y, X \subseteq Y, NEW s \in Seq(X)
  PROVE  s \in Seq(Y)
<1>1. Len(s) \in Nat /\ s \in [1 .. Len(s) -> X]
  BY LenProperties
<1>2. s \in [1 .. Len(s) -> Y]
  BY <1>1
<1> QED BY <1>1, <1>2

LEMMA NumeralGlyphs ==
  ASSUME NEW v \in Nat, NEW base \in 2 .. 16
  PROVE  Numeral(v, base) \in Seq(Glyph) /\ Len(Numeral(v, base)) \in Nat
<1>1. Numeral(v, base) \in Seq(Digits)
  BY NumeralIs
<1>2. Numeral(v, base) \in Seq(Glyph)
  BY <1>1, Glyphs, SeqWider
<1> QED BY <1>2, LenProperties

Magnitude(num, is_signed) == IF is_signed /\ num >= LONG_LIM THEN 2 * LONG_LIM - num ELSE num

Text(num, base, is_signed) ==
  IF is_signed /\ num >= LONG_LIM THEN <<"-">> \o Numeral(Magnitude(num, is_signed), base)
  ELSE Numeral(Magnitude(num, is_signed), base)

(* print_int prints the numeral of the number, its sign in front, behind   *)
(* as many padding characters as are missing to the width.                 *)
LEMMA PrintIntIs ==
  ASSUME NEW num \in Word, NEW base \in 2 .. 16, NEW is_signed \in BOOLEAN,
         NEW width \in Nat, NEW c \in Glyph
  PROVE  print_int(num, base, is_signed, width, c) =
           Padding(width - Len(Text(num, base, is_signed)), c) \o Text(num, base, is_signed)
<1> DEFINE neg == is_signed /\ num >= LONG_LIM
           v == Magnitude(num, is_signed)
           text == Text(num, base, is_signed)
           n == Numeral(v, base)
<1>a. /\ v = IF neg THEN 2 * LONG_LIM - num ELSE num
      /\ text = IF neg THEN <<"-">> \o n ELSE n
  BY DEF Magnitude, Text
<1>b. v \in Nat
  BY <1>a, Limits DEF Word
<1> SUFFICES print_int(num, base, is_signed, width, c) = Padding(width - Len(text), c) \o text
  OBVIOUS
<1> HIDE DEF v, text
<1>1. n \in Seq(Glyph) /\ Len(n) \in Nat
  BY <1>b, NumeralGlyphs
<1>2. num \in Nat /\ num < 2 * LONG_LIM
  BY Limits DEF Word
<1>3. CASE num = 0
  <2>1. ~neg /\ v = 0 /\ v < base /\ (v % base) + 1 = 1
    BY <1>3, <1>a, Limits
  <2>2. n = <<Digit[(v % base) + 1]>>
    <3> HIDE DEF neg
    <3> QED BY <1>b, <2>1, NumeralStep
  <2>3. n = <<"0">>
    <3> HIDE DEF n, neg
    <3> QED BY <2>1, <2>2, DigitIs
  <2>4. text = <<"0">> /\ Len(text) = 1
    <3> HIDE DEF n
    <3>1. text = n
      BY <1>a, <2>1
    <3> QED BY <2>3, <3>1
  <2>5. print_int(num, base, is_signed, width, c) = Padding(width - 1, c) \o <<"0">>
    BY <1>3 DEF print_int
  <2> QED BY <2>4, <2>5
<1>4. CASE num # 0 /\ neg
  <2>1. v = 2 * LONG_LIM - num /\ v > 0
    BY <1>2, <1>4, <1>a, Limits
  <2>2. Buffer(v, base) = Reverse(n)
    BY <1>b, <2>1, BufferIs
  <2>3. Len(Reverse(n)) = Len(n) /\ Reverse(Reverse(n)) = n
    <3> HIDE DEF n
    <3> QED BY <1>1, ReverseIs
  <2>4. print_int(num, base, is_signed, width, c) =
          Padding(width - Len(n) - 1, c) \o <<"-">> \o n
    <3> HIDE DEF n
    <3> QED BY <1>4, <2>1, <2>2, <2>3 DEF print_int
  <2>5. text = <<"-">> \o n
    BY <1>4, <1>a
  <2> HIDE DEF n, neg
  <2>6. <<"-">> \in Seq(Glyph) /\ Len(<<"-">>) = 1
    <3>1. "-" \in Glyph
      BY Glyphs
    <3> QED BY <3>1
  <2>7. Len(text) = 1 + Len(n)
    <3> DEFINE t == <<"-">>
    <3> HIDE DEF t
    <3>1. Len(t \o n) = Len(t) + Len(n)
      BY <1>1, <2>6, ConcatProperties DEF t
    <3> QED BY <2>5, <2>6, <3>1 DEF t
  <2>8. width - Len(n) - 1 = width - Len(text) /\ width - Len(text) \in Int
    BY <1>1, <2>7
  <2>9. Padding(width - Len(text), c) \in Seq(Glyph)
    BY <2>8, PaddingIs
  <2>10. (Padding(width - Len(text), c) \o <<"-">>) \o n = Padding(width - Len(text), c) \o text
    <3> DEFINE t == <<"-">>
               p == Padding(width - Len(text), c)
    <3> HIDE DEF t, p
    <3>1. (p \o t) \o n = p \o (t \o n)
      BY <1>1, <2>6, <2>9, ConcatAssociative DEF t, p
    <3> QED BY <2>5, <3>1 DEF t, p
  <2> QED BY <2>4, <2>8, <2>10
<1>5. CASE num # 0 /\ ~neg
  <2>1. v = num /\ v > 0
    BY <1>2, <1>5, <1>a
  <2>2. Buffer(v, base) = Reverse(n)
    BY <1>b, <2>1, BufferIs
  <2>3. Len(Reverse(n)) = Len(n) /\ Reverse(Reverse(n)) = n
    <3> HIDE DEF n
    <3> QED BY <1>1, ReverseIs
  <2>4. print_int(num, base, is_signed, width, c) =
          Padding(width - Len(n) - 0, c) \o <<>> \o n
    <3> HIDE DEF n
    <3> QED BY <1>5, <2>1, <2>2, <2>3 DEF print_int
  <2>5. text = n
    BY <1>5, <1>a
  <2> HIDE DEF n, neg
  <2>6. width - Len(n) - 0 = width - Len(text) /\ width - Len(text) \in Int
    BY <1>1, <2>5
  <2>7. Padding(width - Len(text), c) \in Seq(Glyph)
    BY <2>6, PaddingIs
  <2>8. Padding(width - Len(text), c) \o <<>> = Padding(width - Len(text), c)
    BY <2>7, ConcatEmptySeq
  <2> QED BY <2>4, <2>5, <2>6, <2>8
<1> QED BY <1>3, <1>4, <1>5

LEMMA NumberPrints ==
  ASSUME NEW item, IsItem(item)
  PROVE  /\ print_int(Widened(item.arg, item.is_long_long, TRUE), 10, TRUE, item.width, item.char) =
              Justified(IF Signed(item) < 0 THEN <<"-">> \o Numeral(-Signed(item), 10)
                        ELSE Numeral(Signed(item), 10), item)
         /\ \A base \in {10, 16} :
              print_int(Widened(item.arg, item.is_long_long, FALSE), base, FALSE,
                        item.width, item.char) =
                Justified(Numeral(Unsigned(item), base), item)
         /\ print_int(item.arg, 16, FALSE, 0, " ") = Numeral(item.arg, 16)
<1> DEFINE ll == item.is_long_long
           a == item.arg
           lim == IF ll THEN LONG_LIM ELSE INT_LIM
           low == a % (2 * INT_LIM)
<1>1. /\ a \in Nat /\ a < 2 * LONG_LIM /\ ll \in BOOLEAN /\ item.width \in Nat
      /\ item.char \in Glyph /\ a \in Word
  <2>1. item \in [conv : Glyph \cup {"literal"}, char : Glyph, width : 0 .. (INT_LIM - 1),
                  is_long_long : BOOLEAN, arg : Word]
    BY DEF IsItem
  <2>2. a \in Word /\ ll \in BOOLEAN /\ item.width \in 0 .. (INT_LIM - 1) /\ item.char \in Glyph
    BY <2>1
  <2> HIDE DEF a, ll
  <2> QED BY <2>2, Limits DEF Word
<1>2. lim \in Nat \ {0} /\ lim <= LONG_LIM
  BY Limits
<1>3. Unsigned(item) = a % (2 * lim)
  BY DEF Unsigned
<1>4. /\ low \in Nat /\ low < 2 * INT_LIM
      /\ a % (2 * lim) = IF ll THEN a ELSE low
  BY <1>1, Limits
<1> HIDE DEF lim
<1>5. Signed(item) = IF Unsigned(item) < lim THEN Unsigned(item) ELSE Unsigned(item) - 2 * lim
  BY DEF Signed, lim
<1>6. Widened(a, ll, TRUE) = IF ll THEN a
                             ELSE IF low >= INT_LIM THEN low + 2 * LONG_LIM - 2 * INT_LIM ELSE low
  BY DEF Widened
<1>7. Widened(a, ll, FALSE) = IF ll THEN a ELSE low
  BY DEF Widened
<1> HIDE DEF low
<1>8. print_int(Widened(a, ll, TRUE), 10, TRUE, item.width, item.char) =
        Justified(IF Signed(item) < 0 THEN <<"-">> \o Numeral(-Signed(item), 10)
                  ELSE Numeral(Signed(item), 10), item)
  <2> DEFINE num == Widened(a, ll, TRUE)
             sg == Signed(item)
             text == IF sg < 0 THEN <<"-">> \o Numeral(-sg, 10) ELSE Numeral(sg, 10)
  <2>1. /\ num \in Nat /\ num < 2 * LONG_LIM /\ sg \in Int
        /\ num >= LONG_LIM <=> sg < 0
        /\ num >= LONG_LIM => 2 * LONG_LIM - num = -sg
        /\ ~(num >= LONG_LIM) => num = sg
    <3>1. CASE ll
      <4>1. lim = LONG_LIM /\ num = a /\ Unsigned(item) = a
        BY <1>3, <1>4, <1>6, <3>1 DEF lim
      <4>2. sg = IF a < LONG_LIM THEN a ELSE a - 2 * LONG_LIM
        BY <1>5, <4>1
      <4> HIDE DEF num, sg
      <4> QED BY <1>1, <4>1, <4>2, Limits
    <3>2. CASE ~ll
      <4>1. /\ lim = INT_LIM /\ Unsigned(item) = low
            /\ num = IF low >= INT_LIM THEN low + 2 * LONG_LIM - 2 * INT_LIM ELSE low
        BY <1>3, <1>4, <1>6, <3>2 DEF lim
      <4>2. sg = IF low < INT_LIM THEN low ELSE low - 2 * INT_LIM
        BY <1>5, <4>1
      <4> HIDE DEF num, sg
      <4> QED BY <1>4, <4>1, <4>2, Limits
    <3> QED BY <3>1, <3>2
  <2> HIDE DEF num, sg
  <2> DEFINE yes == TRUE
             base == 10
  <2>2. num \in Word
    BY <2>1, Limits DEF Word
  <2>3. text = Text(num, base, yes)
    BY <2>1 DEF Text, Magnitude
  <2>4. base \in 2 .. 16 /\ yes \in BOOLEAN
    OBVIOUS
  <2> HIDE DEF text, yes, base
  <2>5. print_int(num, base, yes, item.width, item.char) =
          Padding(item.width - Len(text), item.char) \o text
    BY <1>1, <2>2, <2>3, <2>4, PrintIntIs
  <2> QED BY <2>5 DEF Justified, num, sg, text, yes, base
<1>9. ASSUME NEW base \in {10, 16}
      PROVE  print_int(Widened(a, ll, FALSE), base, FALSE, item.width, item.char) =
               Justified(Numeral(Unsigned(item), base), item)
  <2> DEFINE num == Widened(a, ll, FALSE)
             text == Numeral(num, base)
  <2>1. num = Unsigned(item) /\ num \in Nat /\ num < 2 * LONG_LIM
    <3>1. CASE ll
      BY <1>1, <1>3, <1>4, <1>7, <3>1
    <3>2. CASE ~ll
      <4>1. num = low /\ Unsigned(item) = low
        BY <1>3, <1>4, <1>7, <3>2
      <4> HIDE DEF num
      <4> QED BY <1>4, <4>1, Limits
    <3> QED BY <3>1, <3>2
  <2> DEFINE no == FALSE
  <2> HIDE DEF num
  <2>2. num \in Word /\ base \in 2 .. 16 /\ no \in BOOLEAN
    BY <2>1, Limits DEF Word
  <2>3. text = Text(num, base, no)
    BY DEF Text, Magnitude
  <2> HIDE DEF text, no
  <2>4. print_int(num, base, no, item.width, item.char) =
          Padding(item.width - Len(text), item.char) \o text
    BY <1>1, <2>2, <2>3, PrintIntIs
  <2> QED BY <2>1, <2>4 DEF Justified, num, text, no
<1>10. print_int(a, 16, FALSE, 0, " ") = Numeral(a, 16)
  <2> DEFINE text == Numeral(a, 16)
             no == FALSE
             base == 16
             zero == 0
             c == " "
  <2>1. base \in 2 .. 16 /\ no \in BOOLEAN /\ zero \in Nat
    OBVIOUS
  <2>2. text = Text(a, base, no)
    BY DEF Text, Magnitude
  <2>3. c \in Glyph
    BY Glyphs
  <2>4. text \in Seq(Glyph) /\ Len(text) \in Nat
    BY <1>1, <2>1, NumeralGlyphs
  <2> HIDE DEF text, no, base, zero, c, a
  <2>5. print_int(a, base, no, zero, c) = Padding(zero - Len(text), c) \o text
    BY <1>1, <2>1, <2>2, <2>3, PrintIntIs
  <2>6. zero - Len(text) \in Int /\ zero - Len(text) <= 0
    BY <2>4 DEF zero
  <2>7. Padding(zero - Len(text), c) = <<>>
    BY <2>3, <2>6, PaddingIs
  <2>8. <<>> \o text = text
    BY <2>4, ConcatEmptySeq
  <2> QED BY <2>5, <2>7, <2>8 DEF text, no, base, zero, c
<1> QED BY <1>8, <1>9, <1>10

----------------------------------------------------------------------------
(* A conversion as it is spelled, and what the flags' parser makes of it.  *)

LEMMA Concat ==
  ASSUME NEW X, NEW s \in Seq(X), NEW t \in Seq(X)
  PROVE  /\ s \o t \in Seq(X) /\ Len(s \o t) = Len(s) + Len(t)
         /\ \A i \in 1 .. Len(s) : (s \o t)[i] = s[i]
         /\ \A i \in 1 .. Len(t) : (s \o t)[Len(s) + i] = t[i]
<1>1. Len(s) \in Nat /\ Len(t) \in Nat
  BY LenProperties
<1>2. /\ s \o t \in Seq(X) /\ Len(s \o t) = Len(s) + Len(t)
      /\ \A i \in 1 .. (Len(s) + Len(t)) : (s \o t)[i] = IF i <= Len(s) THEN s[i] ELSE t[i - Len(s)]
  BY ConcatProperties
<1>3. \A i \in 1 .. Len(s) : i \in 1 .. (Len(s) + Len(t)) /\ i <= Len(s)
  BY <1>1
<1>4. \A i \in 1 .. Len(t) : /\ Len(s) + i \in 1 .. (Len(s) + Len(t)) /\ ~(Len(s) + i <= Len(s))
                             /\ (Len(s) + i) - Len(s) = i
  BY <1>1
<1> QED BY <1>2, <1>3, <1>4

Zeros(item) == IF item.char = "0" THEN 1 ELSE 0
WidthDigits(item) == IF item.width = 0 THEN 0 ELSE Length(item.width, 10)
Ells(item) == IF item.is_long_long THEN 2 ELSE 0

LEMMA ItemParts ==
  ASSUME NEW item, IsItem(item)
  PROVE  /\ item.conv \in Glyph \cup {"literal"} /\ item.char \in Glyph /\ item.width \in Nat
         /\ item.is_long_long \in BOOLEAN /\ item.arg \in Word
         /\ item.conv = "literal" => item.char \notin {"%", NUL}
         /\ item.conv # "literal" => item.conv \in Glyph /\ item.char \in {"0", " "}
         /\ item.conv \notin Known => item.width = 0
         /\ item.conv \notin Known \cup {"literal"} =>
              item.char = " " /\ item.conv \notin Decimal \cup {"l", NUL}
<1>1. item \in [conv : Glyph \cup {"literal"}, char : Glyph, width : 0 .. (INT_LIM - 1),
                is_long_long : BOOLEAN, arg : Word]
  BY DEF IsItem
<1>2. /\ item.conv \in Glyph \cup {"literal"} /\ item.char \in Glyph
      /\ item.width \in 0 .. (INT_LIM - 1) /\ item.is_long_long \in BOOLEAN /\ item.arg \in Word
  BY <1>1
<1>3. item.width \in Nat
  BY <1>2, Limits
<1> QED BY <1>2, <1>3 DEF IsItem

(* s spells item: with z zeros, d digits of the width and e ells.          *)
Spells(s, z, d, e, item) ==
  /\ z \in 0 .. 1 /\ d \in Nat /\ e \in Nat
  /\ s \in Seq(Glyph) /\ Len(s) = 2 + z + d + e
  /\ s[1] = "%" /\ s[2 + z + d + e] = item.conv
  /\ z = 1 => s[2] = "0"
  /\ \A i \in 1 .. d : s[1 + z + i] = Numeral(item.width, 10)[i]
  /\ e = 2 => s[2 + z + d] = "l" /\ s[3 + z + d] = "l"

LEMMA SpelledIs ==
  ASSUME NEW item, IsItem(item), item.conv # "literal"
  PROVE  Spells(Spelled(item), Zeros(item), WidthDigits(item), Ells(item), item)
<1> DEFINE z == Zeros(item)
           d == WidthDigits(item)
           e == Ells(item)
           s == Spelled(item)
<1>0. item.conv \in Glyph /\ item.width \in Nat
  BY ItemParts
<1> DEFINE A == IF item.char = "0" THEN <<"0">> ELSE <<>>
           B == IF item.width = 0 THEN <<>> ELSE Numeral(item.width, 10)
           C == IF item.is_long_long THEN <<"l", "l">> ELSE <<>>
           D == <<item.conv>>
           P == <<"%">>
<1>1. s = (((P \o A) \o B) \o C) \o D
  BY DEF Spelled
<1>2. P \in Seq(Glyph) /\ Len(P) = 1 /\ P[1] = "%"
  <2>1. "%" \in Glyph
    BY Glyphs
  <2> QED BY <2>1
<1>3. A \in Seq(Glyph) /\ Len(A) = z /\ z \in 0 .. 1 /\ (z = 1 => A[1] = "0")
  <2>1. "0" \in Glyph
    BY Glyphs
  <2> QED BY <2>1 DEF Zeros
<1>4. /\ B \in Seq(Glyph) /\ Len(B) = d /\ d \in Nat
      /\ \A i \in 1 .. d : B[i] = Numeral(item.width, 10)[i]
  <2>1. CASE item.width = 0
    <3>1. d = 0 /\ B = <<>>
      BY <2>1 DEF WidthDigits
    <3>2. <<>> \in Seq(Glyph) /\ Len(<<>>) = 0
      BY EmptySeq
    <3> HIDE DEF d, B
    <3> QED BY <3>1, <3>2
  <2>2. CASE item.width # 0
    <3>1. d = Length(item.width, 10) /\ B = Numeral(item.width, 10)
      BY <2>2 DEF WidthDigits
    <3>2. 10 \in 2 .. 16
      OBVIOUS
    <3>3. Numeral(item.width, 10) \in Seq(Glyph) /\ Len(Numeral(item.width, 10)) \in Nat
      BY <1>0, <3>2, NumeralGlyphs
    <3>4. Len(Numeral(item.width, 10)) = Length(item.width, 10)
      BY <1>0, <3>2, NumeralIs
    <3> HIDE DEF d, B
    <3>5. B \in Seq(Glyph) /\ Len(B) = d
      BY <3>1, <3>3, <3>4
    <3>6. d \in Nat
      BY <3>1, <3>3, <3>4
    <3> QED BY <3>1, <3>5, <3>6
  <2> QED BY <2>1, <2>2
<1>5. C \in Seq(Glyph) /\ Len(C) = e /\ e \in 0 .. 2 /\ (e = 2 => C[1] = "l" /\ C[2] = "l")
  <2>1. "l" \in Glyph
    BY Glyphs
  <2> QED BY <2>1 DEF Ells
<1>6. D \in Seq(Glyph) /\ Len(D) = 1 /\ D[1] = item.conv
  BY <1>0
<1> HIDE DEF A, B, C, D, P, z, d, e, s
<1>s. P \in Seq(Glyph) /\ A \in Seq(Glyph) /\ B \in Seq(Glyph) /\ C \in Seq(Glyph)
      /\ D \in Seq(Glyph)
  BY <1>2, <1>3, <1>4, <1>5, <1>6
<1>l. /\ Len(P) = 1 /\ Len(A) = z /\ Len(B) = d /\ Len(C) = e /\ Len(D) = 1
      /\ z \in Nat /\ d \in Nat /\ e \in Nat
  BY <1>2, <1>3, <1>4, <1>5, <1>6
<1> DEFINE p == P \o A
           q == p \o B
           r == q \o C
<1>7. /\ p \in Seq(Glyph) /\ Len(p) = Len(P) + Len(A)
      /\ \A i \in 1 .. Len(P) : p[i] = P[i]
      /\ \A i \in 1 .. Len(A) : p[Len(P) + i] = A[i]
  BY <1>s, Concat
<1> HIDE DEF p
<1>8. /\ q \in Seq(Glyph) /\ Len(q) = Len(p) + Len(B)
      /\ \A i \in 1 .. Len(p) : q[i] = p[i]
      /\ \A i \in 1 .. Len(B) : q[Len(p) + i] = B[i]
  <2>1. p \in Seq(Glyph)
    BY <1>7
  <2> QED BY <1>s, <2>1, Concat
<1> HIDE DEF q
<1>9. /\ r \in Seq(Glyph) /\ Len(r) = Len(q) + Len(C)
      /\ \A i \in 1 .. Len(q) : r[i] = q[i]
      /\ \A i \in 1 .. Len(C) : r[Len(q) + i] = C[i]
  <2>1. q \in Seq(Glyph)
    BY <1>8
  <2> QED BY <1>s, <2>1, Concat
<1> HIDE DEF r
<1>10. /\ r \o D \in Seq(Glyph) /\ Len(r \o D) = Len(r) + Len(D)
       /\ \A i \in 1 .. Len(r) : (r \o D)[i] = r[i]
       /\ \A i \in 1 .. Len(D) : (r \o D)[Len(r) + i] = D[i]
  <2>1. r \in Seq(Glyph)
    BY <1>9
  <2> QED BY <1>s, <2>1, Concat
<1>11. s = r \o D
  BY <1>1 DEF p, q, r
<1>12. Len(p) = 1 + z /\ Len(q) = 1 + z + d /\ Len(r) = 1 + z + d + e /\ Len(s) = 2 + z + d + e
  <2>1. Len(p) = 1 + z
    BY <1>l, <1>7
  <2>2. Len(q) = 1 + z + d
    BY <1>l, <1>8, <2>1
  <2>3. Len(r) = 1 + z + d + e
    BY <1>l, <1>9, <2>2
  <2>4. Len(s) = 2 + z + d + e
    BY <1>l, <1>10, <1>11, <2>3
  <2> QED BY <2>1, <2>2, <2>3, <2>4
<1>13. \A i \in 1 .. (1 + z + d) : s[i] = q[i]
  <2>1. \A i \in 1 .. (1 + z + d) : i \in 1 .. Len(r) /\ i \in 1 .. Len(q)
    BY <1>l, <1>12
  <2> QED BY <1>9, <1>10, <1>11, <2>1
<1>14. \A i \in 1 .. (1 + z) : s[i] = p[i]
  <2>1. \A i \in 1 .. (1 + z) : i \in 1 .. (1 + z + d) /\ i \in 1 .. Len(p)
    BY <1>l, <1>12
  <2> QED BY <1>8, <1>13, <2>1
<1>15. s[1] = "%"
  <2>1. 1 \in 1 .. (1 + z) /\ 1 \in 1 .. Len(P)
    BY <1>l
  <2> QED BY <1>2, <1>7, <1>14, <2>1
<1>16. s[2 + z + d + e] = item.conv
  <2>1. 1 \in 1 .. Len(D) /\ Len(r) + 1 = 2 + z + d + e
    BY <1>l, <1>12
  <2>2. s[Len(r) + 1] = D[1]
    BY <1>10, <1>11, <2>1
  <2> QED BY <1>6, <2>1, <2>2
<1>17. ASSUME z = 1 PROVE s[2] = "0"
  <2>1. 2 \in 1 .. (1 + z) /\ 1 \in 1 .. Len(A) /\ Len(P) + 1 = 2
    BY <1>l, <1>17
  <2>2. p[Len(P) + 1] = A[1]
    BY <1>7, <2>1
  <2> QED BY <1>3, <1>14, <1>17, <2>1, <2>2
<1>18. ASSUME NEW i \in 1 .. d PROVE s[1 + z + i] = Numeral(item.width, 10)[i]
  <2>1. 1 + z + i \in 1 .. (1 + z + d) /\ i \in 1 .. Len(B) /\ Len(p) + i = 1 + z + i
    BY <1>l, <1>12
  <2>2. q[Len(p) + i] = B[i]
    BY <1>8, <2>1
  <2>3. s[1 + z + i] = q[1 + z + i]
    BY <1>13, <2>1
  <2> QED BY <1>4, <2>1, <2>2, <2>3
<1>19. ASSUME e = 2 PROVE s[2 + z + d] = "l" /\ s[3 + z + d] = "l"
  <2>1. /\ 1 \in 1 .. Len(C) /\ 2 \in 1 .. Len(C) /\ Len(q) + 1 = 2 + z + d /\ Len(q) + 2 = 3 + z + d
        /\ Len(q) + 1 \in 1 .. Len(r) /\ Len(q) + 2 \in 1 .. Len(r)
    BY <1>l, <1>12, <1>19
  <2>2. r[Len(q) + 1] = "l" /\ r[Len(q) + 2] = "l"
    BY <1>5, <1>9, <1>19, <2>1
  <2>3. s[Len(q) + 1] = r[Len(q) + 1] /\ s[Len(q) + 2] = r[Len(q) + 2]
    BY <1>10, <1>11, <2>1
  <2> QED BY <2>1, <2>2, <2>3
<1>20. s \in Seq(Glyph) /\ e \in Nat
  BY <1>5, <1>10, <1>11
<1>21. Spells(s, z, d, e, item)
  BY <1>3, <1>l, <1>12, <1>15, <1>16, <1>17, <1>18, <1>19, <1>20 DEF Spells
<1> QED BY <1>21 DEF z, d, e, s

LEMMA NotDecimal ==
  /\ \A c \in Known \cup {"l"} : c \notin Decimal
  /\ "0" \in Decimal /\ "l" \notin Known
<1>1. Decimal = {"0", "1", "2", "3", "4", "5", "6", "7", "8", "9"}
  <2>1. \A c : c \in Decimal <=> \E k \in 1 .. 10 : c = Digit[k]
    BY DEF Decimal
  <2>2. \A k \in 1 .. 10 : Digit[k] \in {"0", "1", "2", "3", "4", "5", "6", "7", "8", "9"}
    BY DEF Digit
  <2>3. \A c \in {"0", "1", "2", "3", "4", "5", "6", "7", "8", "9"} :
          \E k \in 1 .. 10 : c = Digit[k]
    <3>1. /\ Digit[1] = "0" /\ Digit[2] = "1" /\ Digit[3] = "2" /\ Digit[4] = "3"
          /\ Digit[5] = "4" /\ Digit[6] = "5" /\ Digit[7] = "6" /\ Digit[8] = "7"
          /\ Digit[9] = "8" /\ Digit[10] = "9"
      BY DEF Digit
    <3>2. \A k \in {1, 2, 3, 4, 5, 6, 7, 8, 9, 10} : k \in 1 .. 10
      OBVIOUS
    <3> QED BY <3>1, <3>2
  <2> QED BY <2>1, <2>2, <2>3
<1>2. Known = {"d", "i", "u", "x", "p", "s", "c", "%"}
  BY DEF Known, Numeric
<1> QED BY <1>1, <1>2

LEMMA WidthDigit ==
  ASSUME NEW w \in Nat, NEW d \in Nat, NEW i \in 1 .. d, d = Length(w, 10)
  PROVE  /\ Numeral(w, 10)[i] \in Decimal
         /\ (w \div Power(10, d - i)) \in Nat
         /\ w \div Power(10, d - i) =
              (w \div Power(10, d - (i - 1))) * 10 + DigitValue(Numeral(w, 10)[i])
<1> DEFINE n == d - i
           m == Power(10, n)
           x == w \div m
<1>1. n \in Nat /\ n + 1 = d - (i - 1)
  OBVIOUS
<1>2. Numeral(w, 10)[i] = Digit[(x % 10) + 1]
  <2>1. 10 \in 2 .. 16
    OBVIOUS
  <2>2. \A j \in 1 .. Length(w, 10) :
          Numeral(w, 10)[j] = Digit[((w \div Power(10, Length(w, 10) - j)) % 10) + 1]
    BY <2>1, NumeralIs
  <2> QED BY <2>2
<1> HIDE DEF n
<1>3. m \in Nat \ {0} /\ Power(10, n + 1) = 10 * m
  <2>1. 10 \in Nat /\ 10 >= 2
    OBVIOUS
  <2> QED BY <1>1, <2>1, PowerSteps, PowerExceeds
<1> HIDE DEF m
<1>4. x \in Nat /\ w \div (10 * m) = x \div 10
  <2>1. w \div (10 * m) = (w \div m) \div 10
    BY <1>3
  <2> QED BY <1>3, <2>1
<1> HIDE DEF x
<1>5. (x % 10) \in 0 .. 9 /\ x = (x \div 10) * 10 + (x % 10)
  BY <1>4
<1>6. Digit[(x % 10) + 1] \in Decimal /\ DigitValue(Digit[(x % 10) + 1]) = x % 10
  BY <1>5, DigitIs
<1> QED BY <1>1, <1>2, <1>3, <1>4, <1>5, <1>6 DEF x, m, n

LEMMA FirstDigit ==
  ASSUME NEW w \in Nat, w # 0
  PROVE  Numeral(w, 10)[1] # "0" /\ Length(w, 10) \in Nat \ {0}
<1> DEFINE d == Length(w, 10)
<1>0. 10 \in Nat /\ 10 >= 2 /\ 10 \in 2 .. 16
  OBVIOUS
<1>1. /\ d \in 1 .. (w + 1) /\ w < Power(10, d) /\ (d = 1 \/ w >= Power(10, d - 1))
  BY <1>0, LengthIs
<1>2. Numeral(w, 10)[1] = Digit[((w \div Power(10, d - 1)) % 10) + 1]
  <2>1. 1 \in 1 .. d
    BY <1>1
  <2> QED BY <1>0, <2>1, NumeralIs
<1> HIDE DEF d
<1> DEFINE n == d - 1
           m == Power(10, n)
           x == w \div m
<1>3. n \in Nat /\ n + 1 = d
  BY <1>1
<1> HIDE DEF n
<1>4. m \in Nat \ {0} /\ Power(10, n + 1) = 10 * m
  BY <1>0, <1>3, PowerSteps, PowerExceeds
<1>5. w >= m
  <2>1. CASE d = 1
    <3>1. Power(10, 0) = 1
      BY <1>0, PowerSteps
    <3>2. n = 0
      BY <2>1 DEF n
    <3> QED BY <3>1, <3>2
  <2>2. CASE d # 1
    BY <1>1, <2>2 DEF n
  <2> QED BY <2>1, <2>2
<1>6. w < 10 * m
  BY <1>1, <1>3, <1>4
<1> HIDE DEF m
<1>7. x \in 1 .. 9 /\ x % 10 = x
  <2>1. x \in Nat /\ x < 10
    BY <1>4, <1>6
  <2>2. x >= 1
    BY <1>4, <1>5
  <2> HIDE DEF x
  <2> QED BY <2>1, <2>2
<1>8. Digit[x + 1] # "0"
  BY <1>7, DigitIs
<1>9. Length(w, 10) \in Nat \ {0}
  BY <1>1 DEF d
<1> QED BY <1>2, <1>7, <1>8, <1>9 DEF x, m, n

(* The flags' loop over the digits of the width, from s up to e.            *)
WidthAt(f, s, e) ==
  LET Width[k \in s .. e] == IF k = s THEN 0 ELSE Width[k - 1] * 10 + DigitValue(f[k - 1])
  IN  Width[e]

(* V is what the d digits of f from s on give, read from left to right.    *)
ReadsWidth(f, s, d, V) ==
  /\ V[0] = 0
  /\ \A i \in 1 .. d : V[i] = V[i - 1] * 10 + DigitValue(f[s + (i - 1)])

LEMMA WidthRead ==
  ASSUME NEW f, NEW s \in Nat, NEW d \in Nat, NEW V, ReadsWidth(f, s, d, V)
  PROVE  WidthAt(f, s, s + d) = V[d]
<1>0. V[0] = 0 /\ \A i \in 1 .. d : V[i] = V[i - 1] * 10 + DigitValue(f[s + (i - 1)])
  BY DEF ReadsWidth
<1> DEFINE e == s + d
           Q(h) == [k \in s .. e |-> IF k = s THEN 0 ELSE h[k - 1] * 10 + DigitValue(f[k - 1])]
           g == [k \in s .. e |-> V[k - s]]
           W == CHOOSE h : h = Q(h)
<1>1. g = Q(g)
  <2>1. ASSUME NEW k \in s .. e
        PROVE  g[k] = IF k = s THEN 0 ELSE g[k - 1] * 10 + DigitValue(f[k - 1])
    <3>1. g[k] = V[k - s]
      OBVIOUS
    <3>2. CASE k = s
      <4>1. k - s = 0
        BY <3>2
      <4> HIDE DEF g
      <4> QED BY <1>0, <3>1, <3>2, <4>1
    <3>3. CASE k # s
      <4> DEFINE i == k - s
      <4>1. i \in 1 .. d /\ k - 1 \in s .. e /\ (k - 1) - s = i - 1 /\ s + (i - 1) = k - 1
        BY <3>3
      <4>2. g[k - 1] = V[(k - 1) - s]
        BY <4>1
      <4> HIDE DEF g
      <4>3. V[i] = V[i - 1] * 10 + DigitValue(f[s + (i - 1)])
        BY <1>0, <4>1
      <4>4. g[k] = V[i] /\ g[k - 1] = V[i - 1]
        BY <3>1, <4>1, <4>2
      <4> HIDE DEF i
      <4>5. V[i] = g[k - 1] * 10 + DigitValue(f[k - 1])
        BY <4>1, <4>3, <4>4
      <4> QED BY <3>3, <4>4, <4>5
    <3> QED BY <3>2, <3>3
  <2>2. g = [k \in s .. e |-> g[k]]
    OBVIOUS
  <2> HIDE DEF g, e
  <2> QED BY <2>1, <2>2
<1>2. W = Q(W)
  <2> HIDE DEF Q, g
  <2> QED BY <1>1
<1> HIDE DEF W, g
<1> DEFINE F == [i \in 0 .. d |-> W[s + i]]
<1>3. F[0] = V[0]
  <2>1. F[0] = W[s] /\ s \in s .. e
    OBVIOUS
  <2>2. W[s] = 0
    BY <1>2, <2>1
  <2> HIDE DEF F
  <2> QED BY <1>0, <2>1, <2>2
<1>4. ASSUME NEW i \in 1 .. d, F[i - 1] = V[i - 1] PROVE F[i] = V[i]
  <2> DEFINE k == s + i
             j == i - 1
  <2>1. /\ k \in s .. e /\ k # s /\ k - 1 = s + j /\ j \in 0 .. d /\ i \in 0 .. d
    OBVIOUS
  <2>2. F[i] = W[k] /\ F[j] = W[s + j]
    BY <2>1
  <2> HIDE DEF F, k, e
  <2>3. W[k] = W[k - 1] * 10 + DigitValue(f[k - 1])
    BY <1>2, <2>1
  <2>4. V[i] = V[j] * 10 + DigitValue(f[s + j]) /\ F[j] = V[j]
    BY <1>0, <1>4
  <2> HIDE DEF j
  <2> QED BY <2>1, <2>2, <2>3, <2>4
<1>5. F[d] = V[d]
  <2> HIDE DEF F
  <2> QED BY <1>3, <1>4, SameEnd
<1>6. F[d] = W[e]
  OBVIOUS
<1>7. WidthAt(f, s, e) = W[e]
  BY DEF WidthAt, W
<1> QED BY <1>5, <1>6, <1>7

LEMMA WidthIs ==
  ASSUME NEW w \in Nat, NEW d \in Nat, (w = 0 /\ d = 0) \/ (w # 0 /\ d = Length(w, 10)),
         NEW f, NEW s \in Nat, \A i \in 1 .. d : f[s + (i - 1)] = Numeral(w, 10)[i]
  PROVE  /\ WidthAt(f, s, s + d) = w
         /\ \A i \in 1 .. d : f[s + (i - 1)] \in Decimal
<1> DEFINE V == [i \in 0 .. d |-> w \div Power(10, d - i)]
<1>0. 10 \in Nat /\ 10 >= 2
  OBVIOUS
<1>1. w < Power(10, d) /\ Power(10, d) \in Nat \ {0} /\ Power(10, 0) = 1
  <2>1. CASE w = 0 /\ d = 0
    BY <1>0, <2>1, PowerExceeds, PowerSteps
  <2>2. CASE w # 0 /\ d = Length(w, 10)
    BY <1>0, <2>2, PowerExceeds, PowerSteps, LengthIs
  <2> QED BY <2>1, <2>2
<1>2. V[0] = 0
  <2>1. V[0] = w \div Power(10, d)
    OBVIOUS
  <2> HIDE DEF V
  <2> QED BY <1>1, <2>1
<1>3. V[d] = w
  <2>1. V[d] = w \div Power(10, 0)
    BY DEF V
  <2> HIDE DEF V
  <2> QED BY <1>1, <2>1
<1>4. ASSUME NEW i \in 1 .. d
      PROVE  /\ V[i] = V[i - 1] * 10 + DigitValue(f[s + (i - 1)])
             /\ f[s + (i - 1)] \in Decimal
  <2>1. d = Length(w, 10)
    OBVIOUS
  <2>2. /\ Numeral(w, 10)[i] \in Decimal
        /\ w \div Power(10, d - i) =
             (w \div Power(10, d - (i - 1))) * 10 + DigitValue(Numeral(w, 10)[i])
    BY <2>1, WidthDigit
  <2>3. f[s + (i - 1)] = Numeral(w, 10)[i]
    OBVIOUS
  <2>4. V[i] = w \div Power(10, d - i) /\ V[i - 1] = w \div Power(10, d - (i - 1))
    OBVIOUS
  <2> HIDE DEF V
  <2> QED BY <2>2, <2>3, <2>4
<1> HIDE DEF V
<1>5. WidthAt(f, s, s + d) = V[d]
  <2>1. ReadsWidth(f, s, d, V)
    BY <1>2, <1>4 DEF ReadsWidth
  <2> QED BY <2>1, WidthRead
<1> QED BY <1>3, <1>4, <1>5

(* What is left of the format begins with the item.                        *)
Begins(item) ==
  /\ fmt \in Seq(Glyph) /\ Len(Spelled(item)) \in Nat /\ Len(fmt) >= Len(Spelled(item))
  /\ \A i \in 1 .. Len(Spelled(item)) : fmt[i] = Spelled(item)[i]

LEMMA FlagsIs ==
  ASSUME NEW item, IsItem(item), item.conv # "literal", Begins(item)
  PROVE  /\ Flags = [pad_char |-> item.char, width |-> item.width,
                     is_long_long |-> item.is_long_long, at |-> Len(Spelled(item))]
         /\ fmt[1] = "%" /\ fmt[Len(Spelled(item))] = item.conv
<1> DEFINE z == Zeros(item)
           d == WidthDigits(item)
           e == Ells(item)
           w == item.width
           s == Spelled(item)
<1>1. Spells(s, z, d, e, item)
  BY SpelledIs
<1>2. /\ item.width \in Nat /\ item.is_long_long \in BOOLEAN /\ item.char \in {"0", " "}
      /\ item.conv \notin Known => item.width = 0 /\ item.conv \notin Decimal \cup {"l"}
  BY ItemParts
<1>3. /\ z = IF item.char = "0" THEN 1 ELSE 0
      /\ e = IF item.is_long_long THEN 2 ELSE 0
      /\ (w = 0 /\ d = 0) \/ (w # 0 /\ d = Length(w, 10))
  BY DEF Zeros, WidthDigits, Ells
<1>4. item.conv \notin Decimal /\ item.conv # "l"
  BY <1>2, NotDecimal
<1>5. /\ fmt \in Seq(Glyph) /\ Len(fmt) \in Nat /\ Len(s) \in Nat /\ Len(fmt) >= Len(s)
      /\ \A i \in 1 .. Len(s) : fmt[i] = s[i]
  BY LenProperties DEF Begins
<1> HIDE DEF z, d, e, w, s
<1>6. z \in 0 .. 1 /\ d \in Nat /\ e \in {0, 2} /\ Len(s) = 2 + z + d + e /\ w \in Nat
  BY <1>1, <1>2, <1>3 DEF Spells, w
<1> DEFINE start == 2 + z
           stop == start + d
           at == Len(s)
<1>7. fmt[1] = "%" /\ fmt[at] = item.conv
  <2>1. s[1] = "%" /\ s[at] = item.conv
    BY <1>1, <1>6 DEF Spells
  <2>2. 1 \in 1 .. at /\ at \in 1 .. at
    BY <1>6
  <2> HIDE DEF at
  <2> QED BY <1>5, <2>1, <2>2 DEF at
<1>8. z = 1 => fmt[2] = "0"
  <2>1. z = 1 => s[2] = "0" /\ 2 \in 1 .. Len(s)
    BY <1>1, <1>6 DEF Spells
  <2> QED BY <1>5, <2>1
<1>9. ASSUME NEW i \in 1 .. d PROVE fmt[start + (i - 1)] = Numeral(w, 10)[i]
  <2>1. s[1 + z + i] = Numeral(w, 10)[i]
    BY <1>1 DEF Spells, w
  <2>2. 1 + z + i \in 1 .. Len(s) /\ start + (i - 1) = 1 + z + i
    BY <1>6
  <2> QED BY <1>5, <2>1, <2>2
<1>10. e = 2 => fmt[stop] = "l" /\ fmt[stop + 1] = "l"
  <2>1. e = 2 => s[2 + z + d] = "l" /\ s[3 + z + d] = "l"
    BY <1>1 DEF Spells
  <2>2. e = 2 => 2 + z + d \in 1 .. Len(s) /\ 3 + z + d \in 1 .. Len(s) /\ stop + 1 = 3 + z + d
    BY <1>6
  <2> QED BY <1>5, <2>1, <2>2
<1>11. e = 0 => fmt[stop] = item.conv /\ stop = at
  BY <1>6, <1>7
<1>12. fmt[stop] \notin Decimal
  BY <1>4, <1>6, <1>10, <1>11, NotDecimal
<1>13. start \in Nat /\ stop \in Nat /\ stop \in start .. Len(fmt) /\ at \in Nat
  BY <1>5, <1>6
<1>14. WidthAt(fmt, start, stop) = w /\ \A i \in 1 .. d : fmt[start + (i - 1)] \in Decimal
  <2> HIDE DEF start
  <2> QED BY <1>3, <1>6, <1>9, <1>13, WidthIs
<1>15. z = 0 => fmt[2] # "0"
  <2>1. SUFFICES ASSUME z = 0 PROVE fmt[2] # "0"
    OBVIOUS
  <2>2. CASE d = 0
    <3>1. stop = 2
      BY <2>1, <2>2
    <3> QED BY <1>12, <3>1, NotDecimal
  <2>3. CASE d # 0
    <3>1. w # 0 /\ 1 \in 1 .. d /\ start + (1 - 1) = 2
      BY <1>3, <1>6, <2>1, <2>3
    <3>2. fmt[2] = Numeral(w, 10)[1]
      BY <1>9, <3>1
    <3> QED BY <1>6, <3>1, <3>2, FirstDigit
  <2> QED BY <2>2, <2>3
<1>16. Min({k \in start .. Len(fmt) : fmt[k] \notin Decimal}) = stop
  <2> DEFINE S == {k \in start .. Len(fmt) : fmt[k] \notin Decimal}
  <2>1. S \subseteq Int /\ stop \in S
    BY <1>5, <1>12, <1>13
  <2>2. ASSUME NEW k \in S PROVE stop <= k
    <3>1. k \in Nat /\ k >= start /\ fmt[k] \notin Decimal
      BY <1>5, <1>13
    <3>2. SUFFICES ASSUME k < stop PROVE FALSE
      BY <1>13, <3>1
    <3> DEFINE i == k - start + 1
    <3>3. i \in 1 .. d /\ start + (i - 1) = k
      BY <1>6, <3>1, <3>2
    <3> HIDE DEF start, stop, i
    <3> QED BY <1>14, <3>1, <3>3
  <2> HIDE DEF S
  <2>3. Min(S) = stop
    BY <2>1, <2>2, MinIs
  <2> QED BY <2>3 DEF S
<1>17. (fmt[stop] = "l" /\ fmt[stop + 1] = "l") <=> item.is_long_long
  BY <1>2, <1>3, <1>4, <1>6, <1>10, <1>11
<1>18. at = IF item.is_long_long THEN stop + 2 ELSE stop
  <2>1. at = stop + e
    BY <1>6
  <2> HIDE DEF at, stop
  <2> QED BY <1>3, <1>13, <2>1
<1>19. start = IF fmt[2] = "0" THEN 3 ELSE 2
  BY <1>6, <1>8, <1>15
<1>20. item.char = IF fmt[2] = "0" THEN "0" ELSE " "
  BY <1>2, <1>3, <1>6, <1>8, <1>15
<1> HIDE DEF start, stop, at
<1> DEFINE zero == fmt[2] = "0"
           end == Min({k \in (IF zero THEN 3 ELSE 2) .. Len(fmt) : fmt[k] \notin Decimal})
           ll == fmt[end] = "l" /\ fmt[end + 1] = "l"
<1>21. Flags = [pad_char |-> IF zero THEN "0" ELSE " ",
                width |-> WidthAt(fmt, IF zero THEN 3 ELSE 2, end),
                is_long_long |-> ll, at |-> IF ll THEN end + 2 ELSE end]
  BY DEF Flags, WidthAt
<1>22. end = stop
  BY <1>16, <1>19
<1>23. ll = item.is_long_long
  BY <1>2, <1>17, <1>22
<1> HIDE DEF end, ll
<1>24. Flags = [pad_char |-> item.char, width |-> w, is_long_long |-> item.is_long_long, at |-> at]
  <2>1. WidthAt(fmt, IF zero THEN 3 ELSE 2, end) = w
    BY <1>14, <1>19, <1>22
  <2>2. (IF ll THEN end + 2 ELSE end) = at
    BY <1>18, <1>22, <1>23
  <2> QED BY <1>20, <1>21, <1>23, <2>1, <2>2
<1> QED BY <1>7, <1>24 DEF w, at, s

LEMMA WhatIsRendered ==
  ASSUME NEW item, IsItem(item)
  PROVE  /\ item.conv \in {"d", "i"} =>
              Rendered(item) = Justified(IF Signed(item) < 0
                                         THEN <<"-">> \o Numeral(-Signed(item), 10)
                                         ELSE Numeral(Signed(item), 10), item)
         /\ item.conv = "u" => Rendered(item) = Justified(Numeral(Unsigned(item), 10), item)
         /\ item.conv = "x" => Rendered(item) = Justified(Numeral(Unsigned(item), 16), item)
         /\ item.conv = "p" => Rendered(item) = <<"0", "x">> \o Numeral(item.arg, 16)
         /\ item.conv = "s" => Rendered(item) = IF item.arg = 0
                                                THEN <<"(", "n", "u", "l", "l", ")">>
                                                ELSE Front(StringAt(item.arg))
         /\ item.conv = "c" => Rendered(item) = <<Byte(item.arg)>>
         /\ item.conv = "%" => Rendered(item) = <<"%">>
         /\ item.conv = "literal" => Rendered(item) = <<item.char>>
         /\ item.conv \notin Known \cup {"literal"} => Rendered(item) = Spelled(item)
<1>1. CASE item.conv \in {"d", "i"}
  BY <1>1 DEF Rendered, Known, Numeric
<1>2. CASE item.conv = "u"
  BY <1>2 DEF Rendered, Known, Numeric
<1>3. CASE item.conv = "x"
  BY <1>3 DEF Rendered, Known, Numeric
<1>4. CASE item.conv = "p"
  BY <1>4 DEF Rendered, Known, Numeric
<1>5. CASE item.conv = "s"
  BY <1>5 DEF Rendered, Known, Numeric
<1>6. CASE item.conv = "c"
  BY <1>6 DEF Rendered, Known, Numeric
<1>7. CASE item.conv = "%"
  BY <1>7 DEF Rendered, Known, Numeric
<1>8. CASE item.conv = "literal"
  <2>1. "literal" \notin Known
    BY CallAssumption
  <2> QED BY <1>8, <2>1 DEF Rendered, Known, Numeric
<1>9. CASE item.conv \notin Known \cup {"literal"}
  BY <1>9 DEF Rendered, Known, Numeric
<1> QED BY <1>1, <1>2, <1>3, <1>4, <1>5, <1>6, <1>7, <1>8, <1>9 DEF Known, Numeric

LEMMA SignedIs ==
  ASSUME NEW item, IsItem(item)
  PROVE  /\ Unsigned(item) \in Nat /\ Signed(item) \in Int
         /\ Signed(item) < 0 => -Signed(item) \in Nat
         /\ ~(Signed(item) < 0) => Signed(item) \in Nat
<1> DEFINE limit == IF item.is_long_long THEN LONG_LIM ELSE INT_LIM
<1>1. limit \in Nat \ {0} /\ item.arg \in Nat
  <2>1. item.arg \in Word /\ item.is_long_long \in BOOLEAN
    BY ItemParts
  <2>2. limit \in Nat \ {0}
    BY Limits
  <2>3. item.arg \in 0 .. (2 * LONG_LIM - 1)
    BY <2>1 DEF Word
  <2> HIDE DEF limit
  <2> QED BY <2>2, <2>3, Limits
<1>2. Unsigned(item) = item.arg % (2 * limit)
  BY DEF Unsigned
<1>3. Signed(item) = IF Unsigned(item) < limit THEN Unsigned(item) ELSE Unsigned(item) - 2 * limit
  BY DEF Signed
<1> HIDE DEF limit
<1>4. 2 * limit \in Nat \ {0}
  BY <1>1
<1>5. Unsigned(item) \in Nat
  BY <1>1, <1>2, <1>4
<1> QED BY <1>1, <1>3, <1>5

LEMMA StringIs ==
  ASSUME MemoryOk, NEW p, IsString(p)
  PROVE  /\ Front(StringAt(p)) \in Seq(Glyph)
         /\ console_write(p) = Front(StringAt(p))
<1> DEFINE s == StringAt(p)
<1>1. PICK e \in Nat :
           /\ p \in Pointer /\ p + e \in Pointer /\ memory[p + e] = NUL
           /\ \A j \in 0 .. (e - 1) : memory[p + j] # NUL
           /\ s \in Seq(Char) /\ Len(s) = e + 1
           /\ \A i \in 1 .. (e + 1) : s[i] = memory[p + i - 1]
  <2> HIDE DEF s
  <2> QED BY StringEnds DEF s
<1> HIDE DEF s
<1>2. p \in Nat /\ p >= 1 /\ SIZE \in Nat /\ p + e <= SIZE
  BY <1>1, NulCode DEF Pointer
<1>3. console_write(p) = SubSeq(memory, p, p + e - 1)
  BY <1>1, StrlenExact DEF console_write
<1>4. Front(s) = SubSeq(s, 1, e)
  BY <1>1 DEF Front
<1>5. /\ SubSeq(s, 1, e) \in Seq(Char) /\ Len(SubSeq(s, 1, e)) = e
      /\ \A i \in 1 .. e : SubSeq(s, 1, e)[i] = s[i]
  <2>1. 1 \in 1 .. (Len(s) + 1) /\ e \in (1 - 1) .. Len(s)
    BY <1>1
  <2>2. /\ Len(SubSeq(s, 1, e)) = e - 1 + 1 /\ SubSeq(s, 1, e) \in Seq(Char)
        /\ \A i \in 1 .. (e - 1 + 1) : SubSeq(s, 1, e)[i] = s[1 + i - 1]
    BY <1>1, <2>1, SubSeqProperties
  <2>3. e - 1 + 1 = e /\ \A i \in 1 .. e : 1 + i - 1 = i
    OBVIOUS
  <2> QED BY <2>2, <2>3
<1> DEFINE n == p + e - 1
<1>6. /\ SubSeq(memory, p, n) \in Seq(Char) /\ Len(SubSeq(memory, p, n)) = e
      /\ \A i \in 1 .. e : SubSeq(memory, p, n)[i] = memory[p + i - 1]
  <2>1. memory \in Seq(Char) /\ Len(memory) = SIZE
    BY MemoryIsSeq
  <2>2. p \in 1 .. (Len(memory) + 1) /\ n \in (p - 1) .. Len(memory) /\ n - p + 1 = e
    BY <1>2, <2>1
  <2> HIDE DEF n
  <2>3. /\ Len(SubSeq(memory, p, n)) = n - p + 1 /\ SubSeq(memory, p, n) \in Seq(Char)
        /\ \A i \in 1 .. (n - p + 1) : SubSeq(memory, p, n)[i] = memory[p + i - 1]
    BY <2>1, <2>2, SubSeqProperties
  <2> QED BY <2>2, <2>3
<1>7. SubSeq(memory, p, n) = SubSeq(s, 1, e)
  <2>1. ASSUME NEW i \in 1 .. e PROVE SubSeq(memory, p, n)[i] = SubSeq(s, 1, e)[i]
    <3>1. i \in 1 .. (e + 1)
      OBVIOUS
    <3>2. s[i] = memory[p + i - 1]
      BY <1>1, <3>1
    <3> HIDE DEF n
    <3> QED BY <1>5, <1>6, <3>2
  <2> QED BY <1>5, <1>6, <2>1, SeqEqual
<1>8. SubSeq(s, 1, e) \in Seq(Glyph)
  BY <1>5, Glyphs, SeqWider
<1> QED BY <1>3, <1>4, <1>7, <1>8 DEF s, n

LEMMA JustifiedGlyphs ==
  ASSUME NEW item, IsItem(item), NEW text \in Seq(Glyph)
  PROVE  Justified(text, item) \in Seq(Glyph)
<1> DEFINE n == item.width - Len(text)
<1>1. n \in Int /\ item.char \in Glyph
  <2>1. item.width \in Nat /\ item.char \in Glyph
    BY ItemParts
  <2>2. Len(text) \in Nat
    BY LenProperties
  <2> QED BY <2>1, <2>2
<1> HIDE DEF n
<1>2. Padding(n, item.char) \in Seq(Glyph)
  BY <1>1, PaddingIs
<1>3. Padding(n, item.char) \o text \in Seq(Glyph)
  BY <1>2, Concat
<1> QED BY <1>3 DEF Justified, n

LEMMA ItemTypes ==
  ASSUME NEW item, IsItem(item)
  PROVE  /\ Spelled(item) \in Seq(Glyph) /\ Len(Spelled(item)) \in Nat \ {0}
         /\ Takes(item) \in Seq(Word)
         /\ item.conv \in Known \ {"%"} => Len(Takes(item)) = 1 /\ Takes(item)[1] = item.arg
         /\ item.conv \notin Known \ {"%"} => Len(Takes(item)) = 0
         /\ item.conv = "literal" => Spelled(item) = <<item.char>>
<1>1. item.arg \in Word /\ item.char \in Glyph
  BY ItemParts
<1>2. CASE item.conv = "literal"
  <2>1. Spelled(item) = <<item.char>>
    BY <1>2 DEF Spelled
  <2> QED BY <1>1, <1>2, <2>1 DEF Takes
<1>3. CASE item.conv # "literal"
  <2>1. /\ Spelled(item) \in Seq(Glyph)
        /\ Len(Spelled(item)) = 2 + Zeros(item) + WidthDigits(item) + Ells(item)
        /\ Zeros(item) \in 0 .. 1 /\ WidthDigits(item) \in Nat /\ Ells(item) \in Nat
    BY <1>3, SpelledIs DEF Spells
  <2> QED BY <1>1, <1>3, <2>1 DEF Takes
<1> QED BY <1>2, <1>3

LEMMA TextGlyphs ==
  ASSUME NEW item, IsItem(item)
  PROVE  /\ Numeral(Unsigned(item), 10) \in Seq(Glyph)
         /\ Numeral(Unsigned(item), 16) \in Seq(Glyph)
         /\ Numeral(item.arg, 16) \in Seq(Glyph)
         /\ (IF Signed(item) < 0 THEN <<"-">> \o Numeral(-Signed(item), 10)
             ELSE Numeral(Signed(item), 10)) \in Seq(Glyph)
<1>1. 10 \in 2 .. 16 /\ 16 \in 2 .. 16
  OBVIOUS
<1>2. item.arg \in Nat
  <2>1. item.arg \in 0 .. (2 * LONG_LIM - 1)
    BY ItemParts DEF Word
  <2> QED BY <2>1, Limits
<1>3. Unsigned(item) \in Nat
  BY SignedIs
<1>4. CASE Signed(item) < 0
  <2> DEFINE n == -Signed(item)
  <2>1. n \in Nat
    BY <1>4, SignedIs
  <2> HIDE DEF n
  <2>2. Numeral(n, 10) \in Seq(Glyph)
    BY <1>1, <2>1, NumeralGlyphs
  <2>3. <<"-">> \in Seq(Glyph)
    <3>1. "-" \in Glyph
      BY Glyphs
    <3> QED BY <3>1
  <2>4. <<"-">> \o Numeral(n, 10) \in Seq(Glyph)
    BY <2>2, <2>3, Concat
  <2> QED BY <1>1, <1>2, <1>3, <1>4, <2>4, NumeralGlyphs DEF n
<1>5. CASE ~(Signed(item) < 0)
  <2>1. Signed(item) \in Nat
    BY <1>5, SignedIs
  <2> QED BY <1>1, <1>2, <1>3, <1>5, <2>1, NumeralGlyphs
<1> QED BY <1>4, <1>5

LEMMA RenderedGlyphs ==
  ASSUME MemoryOk, NEW item, IsItem(item),
         item.conv = "s" /\ item.arg # 0 => IsString(item.arg)
  PROVE  Rendered(item) \in Seq(Glyph)
<1>1. CASE item.conv \in {"d", "i", "u", "x"}
  <2> DEFINE A == IF Signed(item) < 0 THEN <<"-">> \o Numeral(-Signed(item), 10)
                  ELSE Numeral(Signed(item), 10)
             B == Numeral(Unsigned(item), 10)
             C == Numeral(Unsigned(item), 16)
  <2>1. /\ A \in Seq(Glyph) /\ B \in Seq(Glyph) /\ C \in Seq(Glyph)
        /\ item.conv \in {"d", "i"} => Rendered(item) = Justified(A, item)
        /\ item.conv = "u" => Rendered(item) = Justified(B, item)
        /\ item.conv = "x" => Rendered(item) = Justified(C, item)
    BY TextGlyphs, WhatIsRendered
  <2> HIDE DEF A, B, C
  <2>2. /\ Justified(A, item) \in Seq(Glyph) /\ Justified(B, item) \in Seq(Glyph)
        /\ Justified(C, item) \in Seq(Glyph)
    BY <2>1, JustifiedGlyphs
  <2> QED BY <1>1, <2>1, <2>2
<1>2. CASE item.conv = "p"
  <2> DEFINE A == <<"0", "x">>
             B == Numeral(item.arg, 16)
  <2>1. A \in Seq(Glyph)
    <3>1. "0" \in Glyph /\ "x" \in Glyph
      BY Glyphs
    <3> QED BY <3>1
  <2>2. B \in Seq(Glyph) /\ Rendered(item) = A \o B
    BY <1>2, TextGlyphs, WhatIsRendered
  <2> HIDE DEF A, B
  <2> QED BY <2>1, <2>2, Concat
<1>3. CASE item.conv = "s"
  <2>1. CASE item.arg = 0
    <3>1. Rendered(item) = <<"(", "n", "u", "l", "l", ")">>
      BY <1>3, <2>1, WhatIsRendered
    <3>2. "(" \in Glyph /\ "n" \in Glyph /\ "u" \in Glyph /\ "l" \in Glyph /\ ")" \in Glyph
      BY Glyphs
    <3> QED BY <3>1, <3>2
  <2>2. CASE item.arg # 0
    <3>1. Rendered(item) = Front(StringAt(item.arg))
      BY <1>3, <2>2, WhatIsRendered
    <3> QED BY <1>3, <2>2, <3>1, StringIs
  <2> QED BY <2>1, <2>2
<1>4. CASE item.conv = "c"
  <2>1. Rendered(item) = <<Byte(item.arg)>>
    BY <1>4, WhatIsRendered
  <2>2. item.arg \in Int
    <3>1. item.arg \in 0 .. (2 * LONG_LIM - 1)
      BY ItemParts DEF Word
    <3> QED BY <3>1, Limits
  <2>3. Byte(item.arg) \in Glyph
    BY <2>2, ByteIsChar, Glyphs
  <2> QED BY <2>1, <2>3
<1>5. CASE item.conv = "%"
  <2>1. Rendered(item) = <<"%">> /\ "%" \in Glyph
    BY <1>5, WhatIsRendered, Glyphs
  <2> QED BY <2>1
<1>6. CASE item.conv = "literal"
  <2>1. Rendered(item) = <<item.char>> /\ item.char \in Glyph
    BY <1>6, WhatIsRendered, ItemParts
  <2> QED BY <2>1
<1>7. CASE item.conv \notin Known \cup {"literal"}
  BY <1>7, WhatIsRendered, ItemTypes
<1> QED BY <1>1, <1>2, <1>3, <1>4, <1>5, <1>6, <1>7 DEF Known, Numeric

LEMMA UnknownSpelled ==
  ASSUME NEW item, IsItem(item), item.conv \notin Known \cup {"literal"}
  PROVE  Spelled(item) =
           <<"%">> \o (IF item.is_long_long THEN <<"l", "l">> ELSE <<>>) \o <<item.conv>>
<1>1. item.char = " " /\ item.width = 0
  BY ItemParts
<1>2. (IF item.char = "0" THEN <<"0">> ELSE <<>>) = <<>>
  BY <1>1
<1>3. (IF item.width = 0 THEN <<>> ELSE Numeral(item.width, 10)) = <<>>
  BY <1>1
<1>4. <<"%">> \o <<>> = <<"%">>
  <2>1. <<"%">> \in Seq({"%"})
    OBVIOUS
  <2> QED BY <2>1, ConcatEmptySeq
<1>5. Spelled(item) =
        (((<<"%">> \o (IF item.char = "0" THEN <<"0">> ELSE <<>>))
        \o (IF item.width = 0 THEN <<>> ELSE Numeral(item.width, 10)))
        \o (IF item.is_long_long THEN <<"l", "l">> ELSE <<>>)) \o <<item.conv>>
  BY DEF Spelled
<1> QED BY <1>2, <1>3, <1>4, <1>5

(* One pass of the loop prints the item at the head of the format, and     *)
(* takes its characters and its argument.                                  *)
LEMMA Prints ==
  ASSUME MemoryOk, NEW item, IsItem(item), Begins(item),
         item.conv = "s" /\ item.arg # 0 => IsString(item.arg),
         item.conv \in Known \ {"%"} => args[1] = item.arg,
         Plain \/ PrintNumber \/ PrintPointer \/ PrintString \/ PrintChar
           \/ PrintPercent \/ PrintUnknown
  PROVE  Puts(Rendered(item), Len(Spelled(item)), Len(Takes(item)))
<1> DEFINE used == Len(Spelled(item))
           taken == Len(Takes(item))
<1>1. /\ Spelled(item) \in Seq(Glyph) /\ used \in Nat \ {0}
      /\ item.conv \in Known \ {"%"} => taken = 1
      /\ item.conv \notin Known \ {"%"} => taken = 0
      /\ item.conv = "literal" => Spelled(item) = <<item.char>>
  BY ItemTypes
<1>2. CASE item.conv = "literal"
  <2>1. "literal" \notin Known
    BY CallAssumption
  <2>2. fmt[1] = item.char /\ used = 1 /\ taken = 0
    <3>1. used = 1 /\ Spelled(item)[1] = item.char
      BY <1>1, <1>2
    <3>2. fmt[1] = Spelled(item)[1]
      BY <3>1 DEF Begins
    <3> QED BY <1>1, <1>2, <2>1, <3>1, <3>2
  <2>3. fmt[1] # "%"
    BY <1>2, <2>2, ItemParts
  <2>4. Plain
    BY <2>3 DEF PrintNumber, Number, PrintPointer, PrintString, PrintChar, PrintPercent,
                PrintUnknown, Conversion
  <2>5. Rendered(item) = <<fmt[1]>>
    BY <1>2, <2>2, WhatIsRendered
  <2> QED BY <2>2, <2>4, <2>5 DEF Plain
<1>3. CASE item.conv # "literal"
  <2>1. /\ Flags = [pad_char |-> item.char, width |-> item.width,
                    is_long_long |-> item.is_long_long, at |-> used]
        /\ fmt[1] = "%" /\ fmt[used] = item.conv
    BY <1>3, FlagsIs
  <2> DEFINE F == Flags
  <2>2. /\ F.pad_char = item.char /\ F.width = item.width
        /\ F.is_long_long = item.is_long_long /\ F.at = used
    BY <2>1
  <2>3. fmt[Flags.at] = item.conv
    BY <2>1, <2>2
  <2>4. ASSUME NEW c, Conversion(c) PROVE item.conv = c
    BY <2>3, <2>4 DEF Conversion
  <2>5. ASSUME item.conv \in Known \ {"%"} PROVE args[1] = item.arg /\ taken = 1
    BY <1>1, <2>5
  <2> HIDE DEF F, used, taken
  <2>a. CASE Plain
    BY <2>1, <2>a DEF Plain
  <2>b. CASE PrintNumber
    <3>1. CASE \E c \in {"d", "i"} : Number(c, 10, TRUE)
      <4>1. PICK c \in {"d", "i"} : Number(c, 10, TRUE)
        BY <3>1
      <4>2. item.conv = c
        BY <2>4, <4>1 DEF Number
      <4>3. args[1] = item.arg /\ taken = 1
        BY <2>5, <4>1, <4>2 DEF Known, Numeric
      <4>4. Puts(print_int(Widened(item.arg, item.is_long_long, TRUE), 10, TRUE,
                           item.width, item.char), used, taken)
        BY <2>2, <4>1, <4>3 DEF Number, F
      <4>5. Rendered(item) = print_int(Widened(item.arg, item.is_long_long, TRUE), 10, TRUE,
                                       item.width, item.char)
        BY <4>1, <4>2, WhatIsRendered, NumberPrints
      <4> QED BY <4>4, <4>5 DEF used, taken
    <3>2. CASE Number("u", 10, FALSE)
      <4>2. item.conv = "u"
        BY <2>4, <3>2 DEF Number
      <4>3. args[1] = item.arg /\ taken = 1
        BY <2>5, <4>2 DEF Known, Numeric
      <4>4. Puts(print_int(Widened(item.arg, item.is_long_long, FALSE), 10, FALSE,
                           item.width, item.char), used, taken)
        BY <2>2, <3>2, <4>3 DEF Number, F
      <4>5. Rendered(item) = print_int(Widened(item.arg, item.is_long_long, FALSE), 10, FALSE,
                                       item.width, item.char)
        BY <4>2, WhatIsRendered, NumberPrints
      <4> QED BY <4>4, <4>5 DEF used, taken
    <3>3. CASE Number("x", 16, FALSE)
      <4>2. item.conv = "x"
        BY <2>4, <3>3 DEF Number
      <4>3. args[1] = item.arg /\ taken = 1
        BY <2>5, <4>2 DEF Known, Numeric
      <4>4. Puts(print_int(Widened(item.arg, item.is_long_long, FALSE), 16, FALSE,
                           item.width, item.char), used, taken)
        BY <2>2, <3>3, <4>3 DEF Number, F
      <4>5. Rendered(item) = print_int(Widened(item.arg, item.is_long_long, FALSE), 16, FALSE,
                                       item.width, item.char)
        BY <4>2, WhatIsRendered, NumberPrints
      <4> QED BY <4>4, <4>5 DEF used, taken
    <3> QED BY <2>b, <3>1, <3>2, <3>3 DEF PrintNumber
  <2>c. CASE PrintPointer
    <3>1. item.conv = "p"
      BY <2>4, <2>c DEF PrintPointer
    <3>2. args[1] = item.arg /\ taken = 1
      BY <2>5, <3>1 DEF Known, Numeric
    <3>3. Puts(<<"0", "x">> \o print_int(item.arg, 16, FALSE, 0, " "), used, taken)
      BY <2>2, <2>c, <3>2 DEF PrintPointer, F
    <3>4. Rendered(item) = <<"0", "x">> \o print_int(item.arg, 16, FALSE, 0, " ")
      BY <3>1, WhatIsRendered, NumberPrints
    <3> QED BY <3>3, <3>4 DEF used, taken
  <2>d. CASE PrintString
    <3>1. item.conv = "s"
      BY <2>4, <2>d DEF PrintString
    <3>2. args[1] = item.arg /\ taken = 1
      BY <2>5, <3>1 DEF Known, Numeric
    <3>3. CASE item.arg = 0
      <4>1. Puts(<<"(", "n", "u", "l", "l", ")">>, used, taken)
        BY <2>2, <2>d, <3>2, <3>3 DEF PrintString, F
      <4>2. Rendered(item) = <<"(", "n", "u", "l", "l", ")">>
        BY <3>1, <3>3, WhatIsRendered
      <4> QED BY <4>1, <4>2 DEF used, taken
    <3>4. CASE item.arg # 0
      <4>1. Puts(console_write(item.arg), used, taken)
        BY <2>2, <2>d, <3>2, <3>4 DEF PrintString, F
      <4>2. Rendered(item) = Front(StringAt(item.arg))
        BY <3>1, <3>4, WhatIsRendered
      <4>3. console_write(item.arg) = Front(StringAt(item.arg))
        BY <3>1, <3>4, StringIs
      <4> QED BY <4>1, <4>2, <4>3 DEF used, taken
    <3> QED BY <3>3, <3>4
  <2>e. CASE PrintChar
    <3>1. item.conv = "c"
      BY <2>4, <2>e DEF PrintChar
    <3>2. args[1] = item.arg /\ taken = 1
      BY <2>5, <3>1 DEF Known, Numeric
    <3>3. Puts(<<Byte(item.arg)>>, used, taken)
      BY <2>2, <2>e, <3>2 DEF PrintChar, F
    <3> QED BY <3>1, <3>3, WhatIsRendered DEF used, taken
  <2>f. CASE PrintPercent
    <3>1. item.conv = "%"
      BY <2>4, <2>f DEF PrintPercent
    <3>2. taken = 0
      BY <1>1, <3>1 DEF taken
    <3>3. Puts(<<"%">>, used, taken)
      BY <2>2, <2>f, <3>2 DEF PrintPercent, F
    <3> QED BY <3>1, <3>3, WhatIsRendered DEF used, taken
  <2>g. CASE PrintUnknown
    <3>1. item.conv \notin Known \cup {"literal"}
      BY <1>3, <2>3, <2>g DEF PrintUnknown
    <3>2. taken = 0
      BY <1>1, <3>1 DEF taken
    <3>3. Puts(<<"%">> \o (IF item.is_long_long THEN <<"l", "l">> ELSE <<>>) \o <<item.conv>>,
               used, taken)
      BY <2>2, <2>3, <2>g, <3>2 DEF PrintUnknown, F
    <3>4. Rendered(item) =
            <<"%">> \o (IF item.is_long_long THEN <<"l", "l">> ELSE <<>>) \o <<item.conv>>
      BY <3>1, WhatIsRendered, UnknownSpelled
    <3> QED BY <3>3, <3>4 DEF used, taken
  <2> QED BY <2>a, <2>b, <2>c, <2>d, <2>e, <2>f, <2>g
<1> QED BY <1>2, <1>3

----------------------------------------------------------------------------
(* A call, item by item. *)

Spellings(format) == [k \in DOMAIN format |-> Spelled(format[k])]
Takings(format) == [k \in DOMAIN format |-> Takes(format[k])]
Renderings(format) == [k \in DOMAIN format |-> Rendered(format[k])]

StringsPassed(format) ==
  \A k \in DOMAIN format : format[k].conv = "s" /\ format[k].arg # 0 => IsString(format[k].arg)

LEMMA CallItems ==
  ASSUME NEW f \in Calls
  PROVE  /\ Len(f) \in Nat /\ DOMAIN f = 1 .. Len(f)
         /\ \A k \in 1 .. Len(f) : IsItem(f[k])
         /\ Spellings(f) \in Seq(Seq(Glyph)) /\ Len(Spellings(f)) = Len(f)
         /\ \A k \in 1 .. Len(f) : Spellings(f)[k] = Spelled(f[k])
         /\ Takings(f) \in Seq(Seq(Word)) /\ Len(Takings(f)) = Len(f)
         /\ \A k \in 1 .. Len(f) : Takings(f)[k] = Takes(f[k])
<1> DEFINE X == {f[k] : k \in DOMAIN f}
<1>1. f \in Seq(X) /\ \A k \in DOMAIN f : IsItem(f[k])
  BY CallAssumption
<1> HIDE DEF X
<1>2. Len(f) \in Nat /\ DOMAIN f = 1 .. Len(f)
  BY <1>1, LenProperties
<1>3. \A k \in 1 .. Len(f) : Spelled(f[k]) \in Seq(Glyph) /\ Takes(f[k]) \in Seq(Word)
  BY <1>1, <1>2, ItemTypes
<1>4. Spellings(f) \in [1 .. Len(f) -> Seq(Glyph)] /\ Takings(f) \in [1 .. Len(f) -> Seq(Word)]
  BY <1>2, <1>3 DEF Spellings, Takings
<1>5. Spellings(f) \in Seq(Seq(Glyph)) /\ Takings(f) \in Seq(Seq(Word))
  BY <1>2, <1>4
<1>6. Len(Spellings(f)) = Len(f) /\ Len(Takings(f)) = Len(f)
  BY <1>2, <1>4, <1>5, LenProperties
<1>7. \A k \in 1 .. Len(f) : Spellings(f)[k] = Spelled(f[k]) /\ Takings(f)[k] = Takes(f[k])
  BY <1>2 DEF Spellings, Takings
<1> QED BY <1>1, <1>2, <1>5, <1>6, <1>7

LEMMA RenderedItems ==
  ASSUME MemoryOk, NEW f \in Calls, StringsPassed(f)
  PROVE  /\ Renderings(f) \in Seq(Seq(Glyph)) /\ Len(Renderings(f)) = Len(f)
         /\ \A k \in 1 .. Len(f) : Renderings(f)[k] = Rendered(f[k])
<1>1. Len(f) \in Nat /\ DOMAIN f = 1 .. Len(f) /\ \A k \in 1 .. Len(f) : IsItem(f[k])
  BY CallItems
<1>2. \A k \in 1 .. Len(f) : Rendered(f[k]) \in Seq(Glyph)
  BY <1>1, RenderedGlyphs DEF StringsPassed
<1>3. Renderings(f) \in [1 .. Len(f) -> Seq(Glyph)]
  BY <1>1, <1>2 DEF Renderings
<1>4. Renderings(f) \in Seq(Seq(Glyph))
  BY <1>1, <1>3
<1>5. Len(Renderings(f)) = Len(f)
  BY <1>1, <1>3, <1>4, LenProperties
<1> QED BY <1>1, <1>4, <1>5 DEF Renderings

(* The call is behind its first k items: what they print is out, and what  *)
(* is left of the format and of the arguments is the other items'.         *)
Behind(k) ==
  /\ fmt = Left(Spellings(items), <<NUL>>, k)
  /\ args = Left(Takings(items), <<>>, k)
  /\ out = Joined(Renderings(items), k)

PrintInv ==
  /\ items = <<>> => out = <<>>
  /\ items # <<>> => /\ items \in Calls /\ StringsPassed(items)
                     /\ \E k \in 0 .. Len(items) : Behind(k)

LEMMA SameRenderings ==
  ASSUME memory' = memory, items' = items
  PROVE  /\ Renderings(items)' = Renderings(items) /\ Spellings(items)' = Spellings(items)
         /\ Takings(items)' = Takings(items)
         /\ StringsPassed(items)' = StringsPassed(items)
         /\ NUL' = NUL
<1>1. \A item : Rendered(item)' = Rendered(item)
  BY DEF Rendered, StringAt
<1>2. \A p : IsString(p)' = IsString(p)
  BY DEF IsString
<1> QED BY <1>1, <1>2 DEF Renderings, Spellings, Takings, StringsPassed

(* At the end of the format all items are printed.                         *)
LEMMA AtEnd ==
  ASSUME MemoryOk, items # <<>>, PrintInv, fmt = <<NUL>>
  PROVE  /\ out = FlattenSeq(Renderings(items))
         /\ args = <<>>
<1>1. items \in Calls /\ StringsPassed(items)
  BY DEF PrintInv
<1>2. PICK k \in 0 .. Len(items) : Behind(k)
  BY DEF PrintInv
<1> DEFINE S == Spellings(items)
           T == Takings(items)
           R == Renderings(items)
           n == Len(items)
           tail == <<NUL>>
<1>3. /\ n \in Nat /\ S \in Seq(Seq(Glyph)) /\ Len(S) = n /\ T \in Seq(Seq(Word)) /\ Len(T) = n
      /\ \A j \in 1 .. n : S[j] = Spelled(items[j]) /\ IsItem(items[j])
  BY <1>1, CallItems
<1>4. R \in Seq(Seq(Glyph)) /\ Len(R) = n
  BY <1>1, RenderedItems
<1>5. tail \in Seq(Glyph) /\ Len(tail) = 1 /\ <<>> \in Seq(Word)
  <2>1. NUL \in Glyph
    BY Glyphs
  <2> QED BY <2>1
<1>6. fmt = Left(S, tail, k) /\ args = Left(T, <<>>, k) /\ out = Joined(R, k)
  BY <1>2 DEF Behind
<1>7. Len(fmt) = 1
  BY <1>5
<1> HIDE DEF S, T, R, n, tail
<1>8. k = n
  <2>1. SUFFICES ASSUME k # n PROVE FALSE
    OBVIOUS
  <2>2. k \in 0 .. (Len(S) - 1) /\ k + 1 \in 1 .. n
    BY <1>3, <2>1 DEF n
  <2>3. /\ Len(S[k + 1]) \in Nat
        /\ Len(Left(S, tail, k)) >= Len(S[k + 1]) + Len(tail)
    <3>1. Heads(Glyph, Left(S, tail, k), S[k + 1], Left(S, tail, k + 1), Len(tail))
      BY <1>3, <1>5, <2>2, LeftHead
    <3> QED BY <3>1 DEF Heads
  <2>4. Len(S[k + 1]) \in Nat \ {0}
    BY <1>3, <2>2, ItemTypes
  <2> QED BY <1>5, <1>6, <1>7, <2>3, <2>4
<1>9. out = FlattenSeq(R)
  BY <1>4, <1>6, <1>8, JoinedAll
<1>10. args = <<>>
  <2> DEFINE none == <<>>
  <2>1. none \in Seq(Word) /\ args = Left(T, none, k)
    BY <1>5, <1>6
  <2> HIDE DEF none
  <2>2. Left(T, none, Len(T)) = none
    BY <1>3, <2>1, LeftAll
  <2> QED BY <1>3, <1>8, <2>1, <2>2 DEF none
<1> QED BY <1>9, <1>10 DEF R

(* What stands at the head of the format, with items left to print.        *)
LEMMA NextItem ==
  ASSUME NEW f \in Calls, f = items, NEW k \in 0 .. (Len(f) - 1), Behind(k)
  PROVE  /\ IsItem(f[k + 1]) /\ Begins(f[k + 1]) /\ fmt[1] # NUL
         /\ f[k + 1].conv \in Known \ {"%"} => args[1] = f[k + 1].arg
         /\ Drop(fmt, Len(Spelled(f[k + 1]))) = Left(Spellings(f), <<NUL>>, k + 1)
         /\ Drop(args, Len(Takes(f[k + 1]))) = Left(Takings(f), <<>>, k + 1)
<1> DEFINE S == Spellings(f)
           T == Takings(f)
           item == f[k + 1]
           tail == <<NUL>>
           none == <<>>
<1>1. /\ Len(f) \in Nat /\ S \in Seq(Seq(Glyph)) /\ Len(S) = Len(f)
      /\ T \in Seq(Seq(Word)) /\ Len(T) = Len(f)
  BY CallItems
<1>2. k + 1 \in 1 .. Len(f) /\ k \in 0 .. (Len(S) - 1) /\ k \in 0 .. (Len(T) - 1)
  BY <1>1
<1>3. S[k + 1] = Spelled(item) /\ T[k + 1] = Takes(item) /\ IsItem(item)
  BY <1>2, CallItems
<1>4. tail \in Seq(Glyph) /\ Len(tail) = 1 /\ none \in Seq(Word) /\ Len(none) = 0
  <2>1. NUL \in Glyph
    BY Glyphs
  <2> QED BY <2>1
<1>5. fmt = Left(S, tail, k) /\ args = Left(T, none, k)
  BY DEF Behind
<1> HIDE DEF S, T, item, tail, none
<1>6. /\ fmt \in Seq(Glyph) /\ Len(fmt) \in Nat /\ Len(fmt) >= Len(Spelled(item)) + 1
      /\ \A i \in 1 .. Len(Spelled(item)) : fmt[i] = Spelled(item)[i]
      /\ Drop(fmt, Len(Spelled(item))) = Left(S, tail, k + 1)
  <2>1. Heads(Glyph, Left(S, tail, k), S[k + 1], Left(S, tail, k + 1), Len(tail))
    BY <1>1, <1>2, <1>4, LeftHead
  <2> QED BY <1>3, <1>4, <1>5, <2>1 DEF Heads
<1>7. /\ \A i \in 1 .. Len(Takes(item)) : args[i] = Takes(item)[i]
      /\ Drop(args, Len(Takes(item))) = Left(T, none, k + 1)
  <2>1. Heads(Word, Left(T, none, k), T[k + 1], Left(T, none, k + 1), Len(none))
    BY <1>1, <1>2, <1>4, LeftHead
  <2> QED BY <1>3, <1>5, <2>1 DEF Heads
<1>8. Len(Spelled(item)) \in Nat \ {0}
  BY <1>3, ItemTypes
<1>9. Begins(item)
  BY <1>6, <1>8 DEF Begins
<1>10. item.conv \in Known \ {"%"} => args[1] = item.arg
  <2>1. SUFFICES ASSUME item.conv \in Known \ {"%"} PROVE args[1] = item.arg
    OBVIOUS
  <2>2. Len(Takes(item)) = 1 /\ Takes(item)[1] = item.arg
    BY <1>3, <2>1, ItemTypes
  <2> QED BY <1>7, <2>2
<1>11. fmt[1] # NUL
  <2>1. CASE item.conv = "literal"
    <3>1. Spelled(item) = <<item.char>> /\ item.char # NUL
      BY <1>3, <2>1, ItemTypes, ItemParts
    <3>2. fmt[1] = Spelled(item)[1]
      BY <1>6, <1>8
    <3> QED BY <3>1, <3>2
  <2>2. CASE item.conv # "literal"
    <3>1. fmt[1] = "%"
      BY <1>3, <1>9, <2>2, FlagsIs
    <3> QED BY <3>1, Glyphs
  <2> QED BY <2>1, <2>2
<1> QED BY <1>3, <1>6, <1>7, <1>9, <1>10, <1>11 DEF S, T, item, tail, none

(* One pass of the loop over the format.                                   *)
Pass ==
  \/ Plain \/ PrintNumber \/ PrintPointer \/ PrintString \/ PrintChar
  \/ PrintPercent \/ PrintUnknown

LEMMA PassKeeps ==
  ASSUME MemoryOk, PrintInv, Pass
  PROVE  PrintInv'
<1>1. items # <<>> /\ UNCHANGED <<memory, items>> /\ fmt[1] # NUL
  BY Glyphs DEF Pass, Plain, PrintNumber, Number, PrintPointer, PrintString, PrintChar,
                PrintPercent, PrintUnknown, Conversion, Puts
<1>2. items \in Calls /\ StringsPassed(items)
  BY <1>1 DEF PrintInv
<1>3. PICK k \in 0 .. Len(items) : Behind(k)
  BY <1>1 DEF PrintInv
<1> DEFINE S == Spellings(items)
           T == Takings(items)
           R == Renderings(items)
           n == Len(items)
           item == items[k + 1]
<1>4. /\ n \in Nat /\ S \in Seq(Seq(Glyph)) /\ Len(S) = n
      /\ R \in Seq(Seq(Glyph)) /\ Len(R) = n
      /\ DOMAIN items = 1 .. n
  BY <1>2, CallItems, RenderedItems
<1>5. k # n
  <2>1. SUFFICES ASSUME k = n PROVE FALSE
    OBVIOUS
  <2> DEFINE tail == <<NUL>>
  <2>2. tail \in Seq(Glyph) /\ tail[1] = NUL
    <3>1. NUL \in Glyph
      BY Glyphs
    <3> QED BY <3>1
  <2>3. fmt = Left(S, tail, k)
    BY <1>3 DEF Behind
  <2> HIDE DEF S, n, tail
  <2>4. fmt = tail
    BY <1>4, <2>1, <2>2, <2>3, LeftAll
  <2> QED BY <1>1, <2>2, <2>4
<1>6. k \in 0 .. (n - 1) /\ k + 1 \in 1 .. n /\ k + 1 \in 0 .. n
  BY <1>4, <1>5
<1>7. /\ IsItem(item) /\ Begins(item)
      /\ item.conv \in Known \ {"%"} => args[1] = item.arg
      /\ Drop(fmt, Len(Spelled(item))) = Left(S, <<NUL>>, k + 1)
      /\ Drop(args, Len(Takes(item))) = Left(T, <<>>, k + 1)
  BY <1>2, <1>3, <1>6, NextItem
<1>8. item.conv = "s" /\ item.arg # 0 => IsString(item.arg)
  BY <1>2, <1>4, <1>6 DEF StringsPassed
<1>9. Puts(Rendered(item), Len(Spelled(item)), Len(Takes(item)))
  <2> HIDE DEF item
  <2> QED BY <1>7, <1>8, Prints DEF Pass
<1>10. R[k + 1] = Rendered(item)
  BY <1>2, <1>6, RenderedItems
<1>11. out' = Joined(R, k + 1)
  <2>1. out = Joined(R, k)
    BY <1>3 DEF Behind
  <2>2. Joined(R, k + 1) = Joined(R, k) \o R[k + 1]
    <3> HIDE DEF R, n
    <3> QED BY <1>4, <1>6, JoinedStep
  <2>3. out' = out \o Rendered(item)
    BY <1>9 DEF Puts
  <2> QED BY <1>10, <2>1, <2>2, <2>3
<1>12. fmt' = Left(S, <<NUL>>, k + 1) /\ args' = Left(T, <<>>, k + 1)
  BY <1>7, <1>9 DEF Puts, Drop
<1>13. /\ Renderings(items)' = R /\ Spellings(items)' = S /\ Takings(items)' = T
       /\ StringsPassed(items)' = StringsPassed(items)
  BY <1>1, SameRenderings
<1>14. Behind(k + 1)'
  <2> DEFINE j == k + 1
  <2>1. fmt' = Left(S, <<NUL>>, j) /\ args' = Left(T, <<>>, j) /\ out' = Joined(R, j)
    BY <1>11, <1>12
  <2> HIDE DEF j
  <2>2. Behind(j)'
    BY <1>13, <2>1 DEF Behind
  <2> QED BY <2>2 DEF j
<1>15. \E j \in 0 .. Len(items) : Behind(j)'
  BY <1>6, <1>14
<1> QED BY <1>1, <1>2, <1>13, <1>15 DEF PrintInv

LEMMA CallStarts ==
  ASSUME PrintInv, NEW format \in Calls, console_printf(format)
  PROVE  PrintInv'
<1>1. /\ items = <<>> /\ items' = format /\ memory' = memory /\ out' = <<>>
      /\ fmt' = FlattenSeq(Spellings(format)) \o <<NUL>>
      /\ args' = FlattenSeq(Takings(format))
      /\ StringsPassed(format)
  BY DEF console_printf, PrintInv, Spellings, Takings, StringsPassed
<1> DEFINE S == Spellings(format)
           T == Takings(format)
           tail == <<NUL>>
           none == <<>>
<1>2. /\ Len(format) \in Nat /\ S \in Seq(Seq(Glyph)) /\ T \in Seq(Seq(Word))
  BY CallItems
<1>3. tail \in Seq(Glyph) /\ none \in Seq(Word)
  <2>1. NUL \in Glyph
    BY Glyphs
  <2> QED BY <2>1
<1>4. fmt' = Left(S, tail, 0)
  <2>1. fmt' = FlattenSeq(S) \o tail
    BY <1>1
  <2> HIDE DEF S, tail
  <2> QED BY <1>2, <1>3, <2>1, LeftAll
<1>5. args' = Left(T, none, 0)
  <2>1. args' = FlattenSeq(T)
    BY <1>1
  <2> HIDE DEF T
  <2>2. FlattenSeq(T) \in Seq(Word)
    <3>1. Len(T) \in Nat /\ Len(T) \in 0 .. Len(T)
      BY <1>2, LenProperties
    <3> QED BY <1>2, <3>1, JoinedAll
  <2>3. FlattenSeq(T) \o none = FlattenSeq(T)
    BY <2>2, ConcatEmptySeq
  <2> HIDE DEF none
  <2>4. Left(T, none, 0) = FlattenSeq(T) \o none
    BY <1>2, <1>3, LeftAll
  <2> QED BY <2>1, <2>3, <2>4
<1>6. StringsPassed(items)' /\ Spellings(items)' = S /\ Takings(items)' = T
  <2>1. StringsPassed(format)'
    BY <1>1 DEF StringsPassed, IsString
  <2> QED BY <1>1, <2>1 DEF StringsPassed, Spellings, Takings
<1>7. out' = Joined(Renderings(items)', 0)
  <2> DEFINE R == Renderings(items)'
  <2>1. R = [k \in DOMAIN format |-> Rendered(format[k])']
    BY <1>1 DEF Renderings
  <2> DEFINE Y == {R[k] : k \in DOMAIN R}
  <2>2. DOMAIN R = 1 .. Len(format)
    BY <2>1, CallItems
  <2> HIDE DEF R
  <2>3. R \in [1 .. Len(format) -> Y]
    BY <2>1, <2>2
  <2> HIDE DEF Y
  <2>4. R \in Seq(Y)
    <3> DEFINE m == Len(format)
    <3>1. m \in Nat /\ R \in [1 .. m -> Y]
      BY <1>2, <2>3
    <3> HIDE DEF m
    <3> QED BY <3>1
  <2>5. Joined(R, 0) = <<>>
    BY <2>4, JoinedNone
  <2> QED BY <1>1, <2>5 DEF R
<1>8. Behind(0)'
  <2> DEFINE zero == 0
  <2>1. fmt' = Left(S, tail, zero) /\ args' = Left(T, none, zero)
        /\ out' = Joined(Renderings(items)', zero)
    BY <1>4, <1>5, <1>7
  <2> HIDE DEF zero
  <2>2. Behind(zero)'
    BY <1>6, <2>1 DEF Behind
  <2> QED BY <2>2 DEF zero
<1>9. \E k \in 0 .. Len(items') : Behind(k)'
  <2>1. 0 \in 0 .. Len(items')
    BY <1>1, <1>2
  <2> QED BY <1>8, <2>1
<1> QED BY <1>1, <1>6, <1>9 DEF PrintInv

LEMMA PrintSteps ==
  ASSUME MemoryOk, PrintInv, [Next]_printfVars
  PROVE  PrintInv'
<1>1. CASE Next
  <2>1. CASE \E format \in Calls : console_printf(format)
    BY <2>1, CallStarts
  <2>2. CASE Pass
    BY <2>2, PassKeeps
  <2>3. CASE Return
    BY <2>3 DEF Return, PrintInv
  <2>4. CASE StringCall
    BY <2>4 DEF StringCall, PrintInv
  <2> QED BY <1>1, <2>1, <2>2, <2>3, <2>4 DEF Next, Pass
<1>2. CASE UNCHANGED printfVars
  <2>1. UNCHANGED <<memory, items, fmt, args, out>>
    BY <1>2 DEF printfVars
  <2>2. ASSUME NEW k, Behind(k) PROVE Behind(k)'
    BY <2>1, <2>2, SameRenderings DEF Behind
  <2>3. StringsPassed(items)' = StringsPassed(items)
    BY <2>1, SameRenderings
  <2> QED BY <2>1, <2>2, <2>3 DEF PrintInv
<1> QED BY <1>1, <1>2

(* What a call has printed when it reaches the end of its format is what   *)
(* its items ask for, and it has taken just their arguments: for every     *)
(* format, every argument and every size of the types.                     *)
THEOREM PrintfPrintsAsAsked == Spec => []PrintsAsAsked
<1>1. Init => PrintInv
  BY DEF Init, PrintInv
<1>2. MemoryOk /\ PrintInv /\ [Next]_printfVars => PrintInv'
  BY PrintSteps
<1>3. MemoryOk /\ PrintInv => PrintsAsAsked
  BY AtEnd DEF PrintsAsAsked, Renderings
<1> QED BY <1>1, <1>2, <1>3, MemoryInvariance, PTL DEF Spec
=============================================================================
