------------------------- MODULE LdapFraming_proofs -------------------------
(***************************************************************************)
(* Theorems about LdapFraming, for any routes, any stream of bytes, any    *)
(* size of the buffer and any way in which the stream comes.               *)
(*                                                                         *)
(* The provers cannot instantiate the library's induction theorems, which  *)
(* take an operator; its theorem that a well-founded relation has minimal  *)
(* elements takes sets.  The first section gets from it the least number,  *)
(* induction and recursion for sets, which the rest uses.                  *)
(***************************************************************************)
EXTENDS LdapFraming, SequenceTheorems, WellFoundedInduction, TLAPS

\* Every set of natural numbers has a least element, from the library's theorem
\* on well-founded relations.
LEMMA LeastNatural ==
  ASSUME NEW T, T \subseteq Nat, T # {}
  PROVE  \E n \in T : \A m \in T : n <= m
<1>1. PICK R : R = OpToRel(<, Nat) /\ IsWellFoundedOn(R, Nat)
  BY NatLessThanWellFounded
<1>2. \A x, y \in Nat : x < y => <<x, y>> \in R
  BY <1>1 DEF OpToRel
<1>3. IsWellFoundedOn(R, Nat)
  BY <1>1
<1>4. PICK x \in T : \A y \in T : ~ (<<y, x>> \in R)
  BY <1>3, WFMin
<1>5. ASSUME NEW y \in T PROVE x <= y
  <2>1. x \in Nat /\ y \in Nat
    OBVIOUS
  <2>2. ~ (y < x)
    BY <1>2, <1>4, <2>1
  <2> QED BY <2>1, <2>2
<1> QED BY <1>5

\* Induction, for sets instead of predicates.
LEMMA InductiveSet ==
  ASSUME NEW S, 0 \in S, \A n \in Nat : n \in S => n + 1 \in S
  PROVE  Nat \subseteq S
<1> SUFFICES ASSUME Nat \ S # {} PROVE FALSE
  OBVIOUS
<1>1. PICK n \in Nat \ S : \A m \in Nat \ S : n <= m
  BY LeastNatural
<1>2. n # 0
  OBVIOUS
<1>3. n - 1 \in Nat /\ ~ (n <= n - 1)
  BY <1>2
<1>4. n - 1 \in S
  BY <1>1, <1>3
<1> QED BY <1>3, <1>4

\* f begins with a, and g takes it from each value to the next.
Goes(f, S, a, g) ==
  f \in [Nat -> S] /\ f[0] = a /\ \A n \in Nat : f[n + 1] = g[n][f[n]]
StepsOn(S) == [Nat -> [S -> S]]

\* A function on Nat may be defined from each value to the next.
LEMMA RecursiveFunction ==
  ASSUME NEW S, NEW a \in S, NEW g \in StepsOn(S)
  PROVE  \E f : Goes(f, S, a, g)
<1> USE DEF StepsOn
<1> DEFINE From(n) == {f \in [0 .. n -> S] :
                         f[0] = a /\ \A i \in 0 .. n - 1 : f[i + 1] = g[i][f[i]]}
<1>1. \A n \in Nat : From(n) # {}
  <2> DEFINE T == {n \in Nat : From(n) # {}}
  <2>1. 0 \in T
    <3>1. [i \in 0 .. 0 |-> a] \in From(0)
      OBVIOUS
    <3> QED BY <3>1
  <2>2. ASSUME NEW n \in Nat, n \in T PROVE n + 1 \in T
    <3>1. PICK f : f \in From(n)
      BY <2>2
    <3> DEFINE h == [i \in 0 .. n + 1 |-> IF i = n + 1 THEN g[n][f[n]] ELSE f[i]]
    <3>2. f \in [0 .. n -> S] /\ f[0] = a /\ \A i \in 0 .. n - 1 : f[i + 1] = g[i][f[i]]
      BY <3>1
    <3>3. h \in [0 .. n + 1 -> S] /\ h[0] = a
      BY <3>2
    <3>4. ASSUME NEW i \in 0 .. n PROVE h[i + 1] = g[i][h[i]]
      <4>1. h[i] = f[i] /\ i \in 0 .. n + 1 /\ i + 1 \in 0 .. n + 1
        OBVIOUS
      <4>2. CASE i = n
        BY <4>1, <4>2
      <4>3. CASE i # n
        <5>1. i \in 0 .. n - 1 /\ i + 1 # n + 1
          BY <4>3
        <5> QED BY <5>1, <4>1, <3>2
      <4> QED BY <4>2, <4>3
    <3>5. \A i \in 0 .. (n + 1) - 1 : h[i + 1] = g[i][h[i]]
      <4>1. (n + 1) - 1 = n
        OBVIOUS
      <4> QED BY <3>4, <4>1
    <3> HIDE DEF h
    <3>6. h \in From(n + 1)
      BY <3>3, <3>5
    <3> QED BY <3>6
  <2> HIDE DEF T
  <2>3. Nat \subseteq T
    BY <2>1, <2>2, InductiveSet
  <2> QED BY <2>3 DEF T
<1>2. \A i \in Nat : \A n, m \in Nat : \A f \in From(n), h \in From(m) :
        i <= n /\ i <= m => f[i] = h[i]
  <2>1. \A n \in Nat : \A f \in From(n) :
          f[0] = a /\ \A i \in 0 .. n - 1 : f[i + 1] = g[i][f[i]]
    OBVIOUS
  <2> HIDE DEF From
  <2> DEFINE T == {i \in Nat : \A n, m \in Nat : \A f \in From(n), h \in From(m) :
                     i <= n /\ i <= m => f[i] = h[i]}
  <2>2. 0 \in T
    BY <2>1
  <2>3. ASSUME NEW i \in Nat, i \in T PROVE i + 1 \in T
    <3>1. SUFFICES ASSUME NEW n \in Nat, NEW m \in Nat, NEW f \in From(n), NEW h \in From(m),
                          i + 1 <= n, i + 1 <= m
                   PROVE  f[i + 1] = h[i + 1]
      OBVIOUS
    <3>2. i \in 0 .. n - 1 /\ i \in 0 .. m - 1 /\ i <= n /\ i <= m
      BY <3>1
    <3>3. f[i] = h[i]
      BY <2>3, <3>2
    <3> QED BY <2>1, <3>2, <3>3
  <2> HIDE DEF T
  <2>4. Nat \subseteq T
    BY <2>2, <2>3, InductiveSet
  <2> QED BY <2>4 DEF T
<1> DEFINE c == [n \in Nat |-> CHOOSE f : f \in From(n)]
           F == [n \in Nat |-> c[n][n]]
<1>3. \A n \in Nat : c[n] \in From(n)
  BY <1>1
<1> HIDE DEF c
<1>4. \A n \in Nat : c[n][n] \in S
  BY <1>3
<1>5. F[0] = a
  BY <1>3
<1>6. ASSUME NEW n \in Nat PROVE F[n + 1] = g[n][F[n]]
  <2>1. c[n + 1] \in From(n + 1) /\ c[n] \in From(n) /\ n \in 0 .. (n + 1) - 1
    BY <1>3
  <2>2. c[n + 1][n + 1] = g[n][c[n + 1][n]]
    BY <2>1
  <2>3. c[n + 1][n] = c[n][n]
    <3> HIDE DEF From
    <3>1. n + 1 \in Nat /\ n <= n + 1 /\ n <= n
      OBVIOUS
    <3> QED BY <2>1, <3>1, <1>2
  <2> QED BY <2>2, <2>3
<1>7. F \in [Nat -> S]
  BY <1>4
<1> HIDE DEF F
<1> QED BY <1>5, <1>6, <1>7 DEF Goes

-----------------------------------------------------------------------------
(* What the reference definitions are made of *)

LEMMA IsByte ==
  ASSUME NEW s \in Seq(0 .. 255), NEW i \in Nat, i # 0, i <= Len(s)
  PROVE  s[i] \in 0 .. 255
<1>1. Len(s) \in Nat
  OBVIOUS
<1>2. i \in 1 .. Len(s)
  BY <1>1
<1> QED BY <1>2, ElementOfSeq

LEMMA DigitType ==
  ASSUME NEW ds \in Seq(0 .. 255), NEW k \in Nat
  PROVE  Digit(ds, k) \in 0 .. 255
<1>1. Len(ds) \in Nat
  OBVIOUS
<1>2. CASE k < Len(ds)
  <2>1. Len(ds) - k \in Nat /\ Len(ds) - k # 0 /\ Len(ds) - k <= Len(ds)
    BY <1>1, <1>2
  <2> QED BY <1>2, <2>1, IsByte DEF Digit
<1>3. CASE ~ (k < Len(ds))
  BY <1>3 DEF Digit
<1> QED BY <1>2, <1>3

LEMMA ValueType ==
  ASSUME NEW ds \in Seq(0 .. 255)
  PROVE  Value(ds) \in Nat
<1>1. PICK a \in 0 .. 255, b \in 0 .. 255, c \in 0 .. 255, d \in 0 .. 255 :
        a = Digit(ds, 0) /\ b = Digit(ds, 1) /\ c = Digit(ds, 2) /\ d = Digit(ds, 3)
  BY DigitType
<1>2. Value(ds) = a + 256 * b + 65536 * c + 16777216 * d
  BY <1>1 DEF Value
<1>3. a + 256 * b + 65536 * c + 16777216 * d \in Nat
  OBVIOUS
<1> QED BY <1>2, <1>3

LEMMA HeaderType ==
  ASSUME NEW s \in Seq(0 .. 255), NEW p \in Nat, p + 2 <= Len(s), s[p + 2] # 128
  PROVE  Header(s, p) \in 2 .. 129
<1>1. PICK b \in 0 .. 255 : b = s[p + 2]
  <2>1. p + 2 \in Nat /\ p + 2 # 0
    OBVIOUS
  <2> QED BY <2>1, IsByte
<1>2. Header(s, p) = IF b < 128 THEN 2 ELSE b - 126
  BY <1>1 DEF Header
<1>3. b # 128
  BY <1>1
<1> QED BY <1>2, <1>3

\* A part of a stream that lies within it.
LEMMA PartType ==
  ASSUME NEW s \in Seq(0 .. 255), NEW m \in Nat, NEW n \in Nat,
         m # 0, m <= n + 1, n <= Len(s)
  PROVE  /\ SubSeq(s, m, n) \in Seq(0 .. 255) /\ Len(SubSeq(s, m, n)) = n - m + 1
         /\ \A i \in 1 .. n - m + 1 : SubSeq(s, m, n)[i] = s[m + i - 1]
<1>1. Len(s) \in Nat
  OBVIOUS
<1>2. ASSUME NEW i \in m .. n PROVE s[i] \in 0 .. 255
  <2>1. i \in Nat /\ i # 0 /\ i <= Len(s)
    BY <1>1
  <2> QED BY <2>1, IsByte
<1>3. /\ SubSeq(s, m, n) \in Seq(0 .. 255)
      /\ Len(SubSeq(s, m, n)) = IF m <= n THEN n - m + 1 ELSE 0
      /\ \A i \in 1 .. n - m + 1 : SubSeq(s, m, n)[i] = s[m + i - 1]
  BY <1>2, SubSeqProperties
<1>4. (IF m <= n THEN n - m + 1 ELSE 0) = n - m + 1
  OBVIOUS
<1> QED BY <1>3, <1>4

LEMMA BodyType ==
  ASSUME NEW s \in Seq(0 .. 255), NEW p \in Nat, HasLength(s, p)
  PROVE  Body(s, p) \in Nat
<1>1. p + 2 <= Len(s) /\ s[p + 2] # 128 /\ p + Header(s, p) <= Len(s)
  BY DEF HasLength
<1>2. Header(s, p) \in 2 .. 129
  BY <1>1, HeaderType
<1>4. s[p + 2] \in 0 .. 255
  <2>1. p + 2 \in Nat /\ p + 2 # 0
    OBVIOUS
  <2> QED BY <1>1, <2>1, IsByte
<1>3. Digits(s, p) \in Seq(0 .. 255)
  <2>1. PICK h \in 2 .. 129 : h = Header(s, p)
    BY <1>2
  <2>4. p + h <= Len(s)
    BY <1>1, <2>1
  <2>2. p + 3 \in Nat /\ p + 3 # 0 /\ p + h \in Nat /\ p + 3 <= p + h + 1
    OBVIOUS
  <2>3. SubSeq(s, p + 3, p + h) \in Seq(0 .. 255)
    BY <2>2, <2>4, PartType
  <2> QED BY <2>1, <2>3 DEF Digits
<1>5. s[p + 2] \in Nat
  <2>1. 0 .. 255 \subseteq Nat
    OBVIOUS
  <2> QED BY <1>4, <2>1
<1> QED BY <1>5, <1>3, ValueType DEF Body

\* Ends is defined on itself; it is indeed that function.
LEMMA EndsRecursive ==
  ASSUME NEW s \in Seq(0 .. 255)
  PROVE  /\ Ends(s) \in [Nat -> Nat] /\ Ends(s)[0] = 0
         /\ \A n \in Nat : LET p == Ends(s)[n] IN
              Ends(s)[n + 1] = IF IsMessage(s, p) THEN p + Header(s, p) + Body(s, p) ELSE p
<1> DEFINE Next1(p) == IF IsMessage(s, p) THEN p + Header(s, p) + Body(s, p) ELSE p
           E(f) == f = [n \in Nat |-> IF n = 0 THEN 0 ELSE Next1(f[n - 1])]
<1>1. \A p \in Nat : Next1(p) \in Nat
  <2> SUFFICES ASSUME NEW p \in Nat, IsMessage(s, p)
               PROVE  p + Header(s, p) + Body(s, p) \in Nat
    OBVIOUS
  <2>1. HasLength(s, p) /\ p + 2 <= Len(s) /\ s[p + 2] # 128
    BY DEF IsMessage, HasLength
  <2>2. Header(s, p) \in 2 .. 129
    BY <2>1, HeaderType
  <2>3. Body(s, p) \in Nat
    BY <2>1, BodyType
  <2>4. PICK h \in 2 .. 129, b \in Nat : h = Header(s, p) /\ b = Body(s, p)
    BY <2>2, <2>3
  <2>5. p + h + b \in Nat
    OBVIOUS
  <2> QED BY <2>4, <2>5
<1>2. Ends(s) = CHOOSE f : E(f)
  BY DEF Ends
<1> HIDE DEF Next1
<1>3. PICK f \in [Nat -> Nat] : f[0] = 0 /\ \A n \in Nat : f[n + 1] = Next1(f[n])
  <2>1. PICK g \in [Nat -> [Nat -> Nat]] : g = [n \in Nat |-> [p \in Nat |-> Next1(p)]]
    BY <1>1
  <2>2. g \in StepsOn(Nat) /\ 0 \in Nat
    BY <2>1 DEF StepsOn
  <2>3. PICK f : Goes(f, Nat, 0, g)
    BY <2>2, RecursiveFunction
  <2> QED BY <2>1, <2>3 DEF Goes
<1>4. E(f)
  <2>1. ASSUME NEW n \in Nat PROVE f[n] = IF n = 0 THEN 0 ELSE Next1(f[n - 1])
    <3>1. CASE n # 0
      <4>1. n - 1 \in Nat /\ (n - 1) + 1 = n
        BY <3>1
      <4> QED BY <4>1, <3>1, <1>3
    <3> QED BY <3>1, <1>3
  <2> QED BY <2>1
<1>5. E(Ends(s))
  BY <1>2, <1>4
<1>6. Ends(s)[0] = 0 /\ \A n \in Nat : Ends(s)[n + 1] = Next1(Ends(s)[n])
  <2>1. \A n \in Nat : n + 1 # 0 /\ (n + 1) - 1 = n
    OBVIOUS
  <2>2. \A n \in Nat : Ends(s)[n] = IF n = 0 THEN 0 ELSE Next1(Ends(s)[n - 1])
    BY <1>5
  <2> QED BY <2>1, <2>2
<1>7. \A n \in Nat : Ends(s)[n] \in Nat
  <2> DEFINE T == {n \in Nat : Ends(s)[n] \in Nat}
  <2>1. 0 \in T
    BY <1>6
  <2>3. ASSUME NEW n \in Nat, n \in T PROVE n + 1 \in T
    <3>1. Ends(s)[n] \in Nat /\ n + 1 \in Nat
      BY <2>3
    <3>2. Next1(Ends(s)[n]) \in Nat
      BY <1>1, <3>1
    <3> QED BY <1>6, <3>1, <3>2
  <2> HIDE DEF T
  <2>2. Nat \subseteq T
    BY <2>1, <2>3, InductiveSet
  <2> QED BY <2>2 DEF T
<1>8. Ends(s) \in [Nat -> Nat]
  <2>1. Ends(s) = [n \in Nat |-> Ends(s)[n]]
    BY <1>5
  <2> QED BY <1>7, <2>1
<1> QED BY <1>6, <1>8 DEF Next1

Steps == {"tag", "length", "digits", "body", "decode", "closed", "refused", "panic"}

\* Hidden where it does not matter: the largest int of 32 bits.
MaxInt == 2147483647

LEMMA MaxIntIs == MaxInt \in Nat /\ 255 <= MaxInt
BY SMT DEF MaxInt

\* In a length of more bytes than one, some are still to come.
ReaderInv ==
  /\ stream \in Seq(0 .. 255)
  /\ start \in Nat /\ pos \in Nat /\ filled \in Nat /\ arrived \in Nat
  /\ start <= pos /\ pos <= filled /\ filled <= arrived /\ arrived <= Len(stream)
  /\ len \in Nat /\ len <= MaxInt
  /\ more \in 0 .. 127 /\ (step = "digits" => more # 0)
  /\ step \in Steps

LEMMA SomeSession == FramingInit => ReaderInv
<1> SUFFICES ASSUME FramingInit PROVE ReaderInv
  OBVIOUS
<1>1. PICK s \in Sessions : stream = s.stream
  BY DEF FramingInit
<1>2. s.stream \in Seq(0 .. 255)
  BY FramingAssumption
<1> QED BY <1>1, <1>2, MaxIntIs DEF FramingInit, ReaderInv, Steps

-----------------------------------------------------------------------------
(* A read of n bytes *)

LEMMA Filling ==
  ASSUME NEW f \in Nat, NEW a \in Nat, NEW n \in Nat, f <= a
  PROVE  LET g == f + Least(a - f, n) IN g \in Nat /\ f <= g /\ g <= a
BY DEF Least

LEMMA Taking ==
  ASSUME NEW p \in Nat, NEW f \in Nat, NEW n \in Nat, p <= f
  PROVE  LET q == p + Least(n, f - p) IN q \in Nat /\ p <= q /\ q <= f
BY DEF Least

LEMMA ReadKeeps ==
  ASSUME ReaderInv, NEW n \in Nat, Read(n), UNCHANGED wireVars
  PROVE  /\ pos' \in Nat /\ filled' \in Nat
         /\ pos <= pos' /\ pos' <= filled' /\ filled' <= arrived'
         /\ arrived' \in Nat /\ arrived' <= Len(stream') /\ stream' \in Seq(0 .. 255)
<1>1. filled' \in Nat /\ filled <= filled' /\ filled' <= arrived
  <2>1. CASE filled' = filled
    BY <2>1 DEF ReaderInv
  <2>2. CASE filled' # filled
    <3>1. PICK w \in Nat : filled' = filled + Least(arrived - filled, w)
      BY <2>2, FramingAssumption DEF Read
    <3> QED BY <3>1, Filling DEF ReaderInv
  <2> QED BY <2>1, <2>2
<1>2. pos' = pos + Least(n, filled' - pos)
  BY DEF Read
<1>3. pos <= filled'
  BY <1>1 DEF ReaderInv
<1>4. pos' \in Nat /\ pos <= pos' /\ pos' <= filled'
  BY <1>1, <1>2, <1>3, Taking DEF ReaderInv
<1>5. arrived' = arrived /\ stream' = stream
  BY DEF wireVars
<1> QED BY <1>1, <1>4, <1>5 DEF ReaderInv

\* One byte was read, and is there.
LEMMA ByteRead ==
  ASSUME ReaderInv, Read(1), UNCHANGED wireVars, ~Failed
  PROVE  stream[pos'] \in 0 .. 255
<1>1. PICK p \in Nat, q \in Nat : p = pos /\ q = pos'
  BY ReadKeeps DEF ReaderInv
<1>2. p <= q /\ p # q
  BY <1>1, ReadKeeps DEF Failed
<1>3. q <= Len(stream) /\ stream \in Seq(0 .. 255)
  <2>1. PICK f \in Nat, a \in Nat : f = filled' /\ a = arrived'
    BY ReadKeeps
  <2>2. stream' = stream /\ stream \in Seq(0 .. 255)
    BY DEF wireVars, ReaderInv
  <2>3. q <= f /\ f <= a /\ a <= Len(stream)
    BY <1>1, <2>1, <2>2, ReadKeeps
  <2>4. Len(stream) \in Nat
    BY <2>2
  <2> QED BY <2>2, <2>3, <2>4
<1> QED BY <1>1, <1>2, <1>3, IsByte

\* The shift does not overflow where TooLarge lets it happen.
LEMMA ShiftFits ==
  ASSUME len \in Nat, ~TooLarge, NEW b \in 0 .. 255
  PROVE  Shifted(len) + b \in Nat /\ Shifted(len) + b <= MaxInt
<1>1. PICK n \in Nat : n = len
  OBVIOUS
<1>2. n < 8388608
  BY SMT, <1>1 DEF TooLarge
<1>3. n % 16777216 = n
  BY SMT, <1>2
<1>4. Shifted(n) = n * 256
  BY SMT, <1>2, <1>3 DEF Shifted
<1>5. Shifted(n) + b \in Nat /\ Shifted(n) + b <= MaxInt
  BY SMT, <1>2, <1>4 DEF MaxInt
<1> QED BY <1>1, <1>5

-----------------------------------------------------------------------------
LEMMA ReaderStep ==
  ASSUME ReaderInv, [FramingNext]_framingVars
  PROVE  ReaderInv'
<1>1. ASSUME NEW n \in 1 .. Len(stream), Arrive(n) PROVE ReaderInv'
  BY <1>1 DEF Arrive, ReaderInv, readVars
<1>2. CASE ReadTag
  <2>1. step' \in {"closed", "length", "panic"} /\ start' = pos /\ len' = len /\ more' = more
    BY <1>2 DEF ReadTag
  <2>2. Read(1) /\ UNCHANGED wireVars
    BY <1>2 DEF ReadTag
  <2> QED BY <2>1, <2>2, ReadKeeps, MaxIntIs DEF ReaderInv, Steps
<1>3. CASE ReadLength
  <2>1. Read(1) /\ UNCHANGED wireVars /\ start' = start
    BY <1>3 DEF ReadLength
  <2>5. ~Failed => LastByte \in 0 .. 255
    BY <2>1, ByteRead DEF LastByte
  <2>2. CASE Failed \/ LastByte = 128
    <3>1. len' = len /\ more' = more /\ step' \in {"closed", "refused"}
      BY <1>3, <2>2 DEF ReadLength
    <3> QED BY <2>1, <3>1, ReadKeeps, MaxIntIs DEF ReaderInv, Steps
  <2>3. CASE ~Failed /\ LastByte < 128
    <3>1. len' = LastByte /\ more' = more /\ step' = "body"
      BY <1>3, <2>3, <2>5 DEF ReadLength
    <3>2. len' \in Nat /\ len' <= 255
      BY <2>1, <2>3, <2>5, <3>1
    <3> QED BY <2>1, <3>1, <3>2, ReadKeeps, MaxIntIs DEF ReaderInv, Steps
  <2>4. CASE ~Failed /\ LastByte > 128
    <3>1. len' = 0 /\ more' = LastByte - 128 /\ step' = "digits"
      BY <1>3, <2>4, <2>5 DEF ReadLength, DigitsAfter
    <3>3. more' \in 0 .. 127 /\ more' # 0
      BY <2>4, <2>5, <3>1
    <3> QED BY <2>1, <3>1, <3>3, ReadKeeps, MaxIntIs DEF ReaderInv, Steps
  <2> QED BY <2>2, <2>3, <2>4, <2>5
<1>4. CASE ReadDigit
  <2>1. Read(1) /\ UNCHANGED wireVars /\ start' = start /\ step = "digits"
    BY <1>4 DEF ReadDigit
  <2>2. CASE Failed \/ TooLarge
    <3>1. len' = len /\ more' = more /\ step' \in {"closed", "refused"}
      BY <1>4, <2>2 DEF ReadDigit
    <3> QED BY <2>1, <3>1, ReadKeeps, MaxIntIs DEF ReaderInv, Steps
  <2>3. CASE ~Failed /\ ~TooLarge
    <3>1. /\ len' = Shifted(len) + LastByte /\ more' = more - 1
          /\ step' = IF more = 1 THEN "body" ELSE "digits"
      BY <1>4, <2>3 DEF ReadDigit
    <3>2. LastByte \in 0 .. 255
      BY <2>1, <2>3, ByteRead DEF LastByte
    <3>3. len' \in Nat /\ len' <= MaxInt
      BY <2>3, <3>1, <3>2, ShiftFits DEF ReaderInv
    <3>4. more' \in 0 .. 127 /\ (step' = "digits" => more' # 0) /\ step' \in Steps
      BY <2>1, <3>1 DEF ReaderInv, Steps
    <3> QED BY <2>1, <3>3, <3>4, ReadKeeps, MaxIntIs DEF ReaderInv
  <2> QED BY <2>2, <2>3
<1>5. CASE ReadBody
  <2>1. /\ Read(len) /\ UNCHANGED wireVars
        /\ start' = start /\ len' = len /\ more' = more /\ step' = "decode"
    BY <1>5 DEF ReadBody
  <2>2. len \in Nat
    BY MaxIntIs DEF ReaderInv
  <2> QED BY <2>1, <2>2, ReadKeeps, MaxIntIs DEF ReaderInv, Steps
<1>6. CASE /\ UNCHANGED <<wireVars, readVars, len, more>>
           /\ step' = step \/ step' = "tag"
  BY <1>6 DEF ReaderInv, wireVars, readVars, Steps
<1>7. CASE NotDecoded
  BY <1>6, <1>7 DEF NotDecoded
<1>8. ASSUME NEW m \in Requests, ServeLDAP(m) PROVE ReaderInv'
  BY <1>6, <1>8 DEF ServeLDAP
<1>9. CASE UNCHANGED framingVars
  BY <1>6, <1>9 DEF framingVars
<1> QED BY <1>1, <1>2, <1>3, <1>4, <1>5, <1>7, <1>8, <1>9 DEF FramingNext

\* packet.go 113, 138: whatever a peer sends and however it is split, the
\* length that make is called with fits an int of 32 bits and is not negative.
THEOREM ReaderBounded == FramingSpec => []ReaderInBounds
<1>1. ReaderInv /\ [FramingNext]_framingVars => ReaderInv'
  BY ReaderStep
<1>2. ReaderInv => ReaderInBounds
  BY SMT DEF ReaderInv, ReaderInBounds, MaxInt
<1> QED BY SomeSession, <1>1, <1>2, PTL DEF FramingSpec

-----------------------------------------------------------------------------
(* The routes *)

\* What chains of calls make: the values of a route are in the case that
\* Match compares with.
Written == {r \in Route : \A f \in Criteria : r.want[f] # Unasked => Folded(f, r.want[f]) = r.want[f]}

LEMMA FoldedTwice ==
  ASSUME NEW f, NEW v \in Values
  PROVE  Folded(f, v) \in Values /\ Folded(f, Folded(f, v)) = Folded(f, v)
BY RouteAssumption DEF Folded

LEMMA NewIsWritten ==
  ASSUME NEW op \in Operations
  PROVE  NewRoute(op) \in Written
<1> DEFINE w == [f \in Criteria |-> IF f = "name" THEN "" ELSE Unasked]
<1>1. "" \in Values /\ Folded("name", "") = ""
  BY RouteAssumption DEF Folded
<1>2. w \in [Criteria -> Values \cup {Unasked}]
  BY <1>1
<1>3. \A f \in Criteria : w[f] # Unasked => Folded(f, w[f]) = w[f]
  BY <1>1
<1>4. NewRoute(op) = [op |-> op, want |-> w]
  BY DEF NewRoute
<1> HIDE DEF w
<1> QED BY <1>2, <1>3, <1>4 DEF Written, Route

LEMMA RefinedIsWritten ==
  ASSUME NEW r \in Written, NEW f \in Criteria, NEW v \in Values
  PROVE  Refined(r, f, v) \in Written
<1> DEFINE w == [r.want EXCEPT ![f] = Folded(f, v)]
<1>1. r \in Route /\ r.want \in [Criteria -> Values \cup {Unasked}] /\ r.op \in Operations
  BY DEF Written, Route
<1>2. Refined(r, f, v) = [op |-> r.op, want |-> w]
  BY <1>1 DEF Refined, Route
<1>3. Folded(f, v) \in Values /\ Folded(f, Folded(f, v)) = Folded(f, v)
  BY FoldedTwice
<1>4. w \in [Criteria -> Values \cup {Unasked}]
  BY <1>1, <1>3
<1>5. ASSUME NEW e \in Criteria, w[e] # Unasked PROVE Folded(e, w[e]) = w[e]
  <2>1. CASE e = f
    BY <1>1, <1>3, <2>1
  <2>2. CASE e # f
    <3>1. w[e] = r.want[e]
      BY <1>1, <2>2
    <3> QED BY <1>5, <3>1 DEF Written
  <2> QED BY <2>1, <2>2
<1> HIDE DEF w
<1> QED BY <1>1, <1>2, <1>4, <1>5 DEF Written, Route

LEMMA BuiltIsWritten ==
  ASSUME NEW chain \in Chain
  PROVE  Built(chain) \in Written
<1> DEFINE calls == chain.calls
           Call(n, r) == Refined(r, calls[n][1], calls[n][2])
           B(f) == f = [n \in 0 .. Len(calls) |->
                          IF n = 0 THEN NewRoute(chain.op) ELSE Call(n, f[n - 1])]
<1>1. calls \in Seq(Criteria \X Values) /\ chain.op \in Operations /\ Len(calls) \in Nat
  BY DEF Chain
<1>2. \A n \in 1 .. Len(calls) : \A r \in Written : Call(n, r) \in Written
  <2> SUFFICES ASSUME NEW n \in 1 .. Len(calls), NEW r \in Written
               PROVE  Call(n, r) \in Written
    OBVIOUS
  <2>1. calls[n] \in Criteria \X Values
    BY <1>1, ElementOfSeq
  <2>2. calls[n][1] \in Criteria /\ calls[n][2] \in Values
    BY <2>1
  <2> QED BY <2>2, RefinedIsWritten
<1>3. Built(chain) = (CHOOSE f : B(f))[Len(calls)]
  BY DEF Built
<1> HIDE DEF Call, calls
<1>4. PICK h : Goes(h, Written, NewRoute(chain.op),
                    [n \in Nat |-> [r \in Written |->
                       IF n < Len(calls) THEN Call(n + 1, r) ELSE r]])
  <2> DEFINE g == [n \in Nat |-> [r \in Written |-> IF n < Len(calls) THEN Call(n + 1, r) ELSE r]]
  <2>1. ASSUME NEW n \in Nat, NEW r \in Written
        PROVE  (IF n < Len(calls) THEN Call(n + 1, r) ELSE r) \in Written
    <3>1. n < Len(calls) => n + 1 \in 1 .. Len(calls)
      BY <1>1
    <3> QED BY <1>2, <3>1
  <2>2. g \in StepsOn(Written)
    BY <2>1 DEF StepsOn
  <2>3. NewRoute(chain.op) \in Written
    BY <1>1, NewIsWritten
  <2> HIDE DEF g
  <2>4. \E h : Goes(h, Written, NewRoute(chain.op), g)
    BY <2>2, <2>3, RecursiveFunction
  <2> QED BY <2>4 DEF g
<1>5. /\ h \in [Nat -> Written] /\ h[0] = NewRoute(chain.op)
      /\ \A n \in Nat : n < Len(calls) => h[n + 1] = Call(n + 1, h[n])
  BY <1>4 DEF Goes
<1> DEFINE b == [n \in 0 .. Len(calls) |-> h[n]]
<1>6. B(b)
  <2>1. ASSUME NEW n \in 0 .. Len(calls)
        PROVE  h[n] = IF n = 0 THEN NewRoute(chain.op) ELSE Call(n, b[n - 1])
    <3>1. CASE n # 0
      <4>1. n - 1 \in Nat /\ n - 1 < Len(calls) /\ (n - 1) + 1 = n /\ n - 1 \in 0 .. Len(calls)
        BY <1>1, <3>1
      <4>2. b[n - 1] = h[n - 1]
        BY <4>1
      <4> QED BY <4>1, <4>2, <3>1, <1>5
    <3> QED BY <3>1, <1>5
  <2> QED BY <2>1
<1> DEFINE c == CHOOSE f : B(f)
<1>7. B(c)
  BY <1>6
<1>8. Built(chain) = c[Len(calls)]
  BY <1>3
<1> HIDE DEF c
<1>9. \A n \in Nat : n <= Len(calls) => c[n] \in Written
  <2> DEFINE T == {n \in Nat : n <= Len(calls) => c[n] \in Written}
  <2>1. c[0] = NewRoute(chain.op) /\ 0 \in 0 .. Len(calls)
    BY <1>1, <1>7
  <2>2. 0 \in T
    BY <1>1, <2>1, NewIsWritten
  <2>3. ASSUME NEW n \in Nat, n \in T PROVE n + 1 \in T
    <3> SUFFICES ASSUME n + 1 <= Len(calls) PROVE c[n + 1] \in Written
      OBVIOUS
    <3>1. n + 1 \in 1 .. Len(calls) /\ n + 1 \in 0 .. Len(calls) /\ n + 1 # 0 /\ (n + 1) - 1 = n /\ n <= Len(calls)
      BY <1>1
    <3>2. c[n + 1] = Call(n + 1, c[n])
      BY <1>7, <3>1
    <3> QED BY <1>2, <2>3, <3>1, <3>2
  <2> HIDE DEF T
  <2>4. Nat \subseteq T
    BY <2>2, <2>3, InductiveSet
  <2> QED BY <2>4 DEF T
<1> QED BY <1>1, <1>8, <1>9

\* For what chains of calls make, to match is to fit.
LEMMA MatchIsFit ==
  ASSUME NEW r \in Written, NEW m
  PROVE  Match(r, m) <=> Fits(r, m)
<1>1. Looks(m.op) \subseteq Criteria
  BY DEF Looks, Criteria
<1>2. ASSUME NEW f \in Looks(m.op)
      PROVE  r.want[f] \in {Unasked, Folded(f, m.has[f])}
             <=> r.want[f] = Unasked \/ Folded(f, r.want[f]) = Folded(f, m.has[f])
  BY <1>1 DEF Written
<1> QED BY <1>2 DEF Match, Fits

LEMMA ChosenFirst ==
  ASSUME NEW table \in Seq(Written), NEW m
  PROVE  LET fits == {i \in DOMAIN table : Fits(table[i], m)} IN
           /\ fits = {} => Chosen(table, m) = 0
           /\ fits # {} => Chosen(table, m) \in fits /\ \A i \in fits : Chosen(table, m) <= i
<1> DEFINE fits == {i \in DOMAIN table : Match(table[i], m)}
<1>1. fits = {i \in DOMAIN table : Fits(table[i], m)}
  <2>1. \A i \in DOMAIN table : table[i] \in Written
    BY ElementOfSeq
  <2> QED BY <2>1, MatchIsFit
<1>2. fits \subseteq Nat
  OBVIOUS
<1>3. Chosen(table, m) = IF fits = {} THEN 0 ELSE CHOOSE i \in fits : \A j \in fits : i <= j
  BY DEF Chosen
<1> HIDE DEF fits
<1>4. ASSUME fits # {}
      PROVE  Chosen(table, m) \in fits /\ \A i \in fits : Chosen(table, m) <= i
  <2>1. \E i \in fits : \A j \in fits : i <= j
    BY <1>2, <1>4, LeastNatural
  <2> QED BY <1>3, <1>4, <2>1
<1> QED BY <1>1, <1>3, <1>4

\* routes and stream are those of a session, and what was served was routed.
RoutedInv ==
  /\ \E s \in Sessions : routes = Registered(s.chains) /\ stream = s.stream
  /\ last # None => /\ last.req \in Requests
                    /\ last = [req |-> last.req, route |-> Chosen(routes, last.req)]

LEMMA RoutedStep ==
  ASSUME RoutedInv, [FramingNext]_framingVars
  PROVE  RoutedInv'
<1>1. UNCHANGED <<routes, stream>>
  BY DEF FramingNext, framingVars, wireVars, Arrive, ReadTag, ReadLength, ReadDigit, ReadBody,
         NotDecoded, ServeLDAP
<1>2. CASE UNCHANGED last \/ last' = None
  BY <1>1, <1>2 DEF RoutedInv
<1>3. ASSUME NEW m \in Requests, ServeLDAP(m) PROVE RoutedInv'
  BY <1>1, <1>3 DEF ServeLDAP, RoutedInv
<1> QED BY <1>2, <1>3 DEF FramingNext, framingVars, Arrive, ReadTag, ReadLength, ReadDigit, ReadBody,
         NotDecoded

LEMMA RoutesWritten ==
  ASSUME RoutedInv
  PROVE  routes \in Seq(Written)
<1>1. PICK s \in Sessions : routes = Registered(s.chains)
  BY DEF RoutedInv
<1>2. s.chains \in Seq(Chain)
  BY FramingAssumption
<1>3. PICK n \in Nat : n = Len(s.chains) /\ DOMAIN s.chains = 1 .. n
  BY <1>2
<1>4. \A i \in 1 .. n : Built(s.chains[i]) \in Written
  BY <1>2, <1>3, ElementOfSeq, BuiltIsWritten
<1>5. routes = [i \in 1 .. n |-> Built(s.chains[i])]
  BY <1>1, <1>3 DEF Registered
<1>6. routes \in [1 .. n -> Written]
  BY <1>4, <1>5
<1> QED BY <1>6, SeqDef

LEMMA NotCloserToItself == ASSUME NEW r PROVE ~Closer(r, r)
BY DEF Closer

LEMMA RoutedIsClosest ==
  ASSUME RoutedInv
  PROVE  ClosestRoute
<1> SUFFICES ASSUME last # None PROVE ClosestRoute
  BY DEF ClosestRoute
<1> DEFINE fits == {i \in DOMAIN routes : Fits(routes[i], last.req)}
<1>1. routes \in Seq(Written)
  BY RoutesWritten
<1>2. last.route = Chosen(routes, last.req)
  BY DEF RoutedInv
<1>3. /\ fits = {} => last.route = 0
      /\ fits # {} => last.route \in fits /\ \A i \in fits : last.route <= i
  BY <1>1, <1>2, ChosenFirst
<1>4. fits \subseteq DOMAIN routes /\ DOMAIN routes \subseteq Nat \ {0}
  BY <1>1
<1> HIDE DEF fits
<1>5. last.route = 0 <=> fits = {}
  BY <1>3, <1>4
<1>6. ASSUME \A i, j \in DOMAIN routes : i < j => ~Closer(routes[j], routes[i]), NEW i \in fits
      PROVE  ~Closer(routes[i], routes[last.route])
  <2>1. last.route \in fits /\ last.route <= i
    BY <1>3, <1>6
  <2>2. CASE last.route = i
    BY <2>2, NotCloserToItself
  <2>3. CASE last.route # i
    <3>1. last.route < i
      BY <1>4, <2>1, <2>3
    <3> QED BY <1>4, <1>6, <2>1, <3>1
  <2> QED BY <2>2, <2>3
<1> QED BY <1>5, <1>6 DEF ClosestRoute, fits

\* route.go 138-139: whatever routes are registered and whatever is asked for,
\* a request takes the closest route if closer routes were registered first, and
\* falls through only if it fits none.
THEOREM RoutesClosest == FramingSpec => []ClosestRoute
<1>1. FramingInit => RoutedInv
  BY DEF FramingInit, RoutedInv
<1> QED BY <1>1, RoutedStep, RoutedIsClosest, PTL DEF FramingSpec

-----------------------------------------------------------------------------
(* Digits of a length *)

LEMMA DigitAppended ==
  ASSUME NEW ds \in Seq(0 .. 255), NEW b \in 0 .. 255, NEW k \in Nat
  PROVE  Digit(Append(ds, b), 0) = b /\ Digit(Append(ds, b), k + 1) = Digit(ds, k)
<1>1. PICK n \in Nat : n = Len(ds) /\ Len(Append(ds, b)) = n + 1
  OBVIOUS
<1>2. Append(ds, b)[n + 1] = b /\ \A i \in 1 .. n : Append(ds, b)[i] = ds[i]
  BY <1>1
<1>3. Digit(Append(ds, b), 0) = b
  <2>1. 0 < n + 1 /\ (n + 1) - 0 = n + 1
    OBVIOUS
  <2> QED BY <1>1, <1>2, <2>1 DEF Digit
<1>4. CASE k < n
  <2>1. k + 1 < n + 1 /\ (n + 1) - (k + 1) = n - k /\ n - k \in 1 .. n
    BY <1>4
  <2>2. Digit(Append(ds, b), k + 1) = Append(ds, b)[n - k]
    BY <1>1, <2>1 DEF Digit
  <2>3. Digit(ds, k) = ds[n - k]
    BY <1>1, <1>4 DEF Digit
  <2> QED BY <1>2, <1>3, <2>1, <2>2, <2>3
<1>5. CASE ~ (k < n)
  <2>1. ~ (k + 1 < n + 1)
    BY <1>5
  <2> QED BY <1>1, <1>3, <1>5, <2>1 DEF Digit
<1> QED BY <1>4, <1>5

\* TooLarge, of a number.
Full(n) == n >= 8388608

\* The bound of packet.go 113 is the right one.
LEMMA DigitShifted ==
  ASSUME NEW ds \in Seq(0 .. 255), NEW b \in 0 .. 255, Representable(ds)
  PROVE  IF Full(Value(ds)) THEN ~Representable(Append(ds, b))
         ELSE Representable(Append(ds, b)) /\ Value(Append(ds, b)) = 256 * Value(ds) + b
<1> DEFINE es == Append(ds, b)
<1>1. PICK d0 \in 0 .. 255, d1 \in 0 .. 255, d2 \in 0 .. 255, d3 \in 0 .. 255 :
        d0 = Digit(ds, 0) /\ d1 = Digit(ds, 1) /\ d2 = Digit(ds, 2) /\ d3 = Digit(ds, 3)
  BY DigitType
<1>2. Value(ds) = d0 + 256 * d1 + 65536 * d2 + 16777216 * d3
  BY <1>1 DEF Value
<1>3. Digit(es, 0) = b /\ \A k \in Nat : Digit(es, k + 1) = Digit(ds, k)
  BY DigitAppended
<1>4. Digit(es, 1) = d0 /\ Digit(es, 2) = d1 /\ Digit(es, 3) = d2 /\ Digit(es, 4) = d3
  <2>1. 0 + 1 = 1 /\ 1 + 1 = 2 /\ 2 + 1 = 3 /\ 3 + 1 = 4
    OBVIOUS
  <2> QED BY <1>1, <1>3, <2>1
<1>5. PICK n \in Nat : n = Len(ds) /\ Len(es) = n + 1
  OBVIOUS
<1> HIDE DEF es
<1>6. ASSUME Value(ds) < 8388608
      PROVE  Representable(es) /\ Value(es) = 256 * Value(ds) + b
  <2>1. d3 = 0 /\ d2 < 128
    BY <1>2, <1>6
  <2>2. Value(es) = b + 256 * d0 + 65536 * d1 + 16777216 * d2
    <3>1. Digit(es, 0) = b
      BY <1>3
    <3> QED BY <1>4, <3>1 DEF Value
  <2>3. b + 256 * d0 + 65536 * d1 + 16777216 * d2
          = 256 * (d0 + 256 * d1 + 65536 * d2 + 16777216 * d3) + b
    BY <2>1
  <2>4. ASSUME NEW k \in 3 .. n + 1 PROVE Digit(es, k) < IF k = 3 THEN 128 ELSE 1
    <3>1. CASE k = 3
      BY <1>4, <2>1, <3>1
    <3>2. CASE k = 4
      BY <1>4, <2>1, <3>2
    <3>3. CASE k > 4
      <4>1. k - 1 \in 3 .. n /\ k - 1 # 3 /\ k - 1 \in Nat /\ (k - 1) + 1 = k
        BY <3>3
      <4>2. Digit(ds, k - 1) < 1
        BY <1>5, <4>1 DEF Representable
      <4>3. Digit(es, k) = Digit(ds, k - 1)
        BY <1>3, <4>1
      <4> QED BY <3>3, <4>2, <4>3
    <3> QED BY <3>1, <3>2, <3>3
  <2> QED BY <1>2, <1>5, <2>2, <2>3, <2>4 DEF Representable
<1>7. ASSUME Value(ds) >= 8388608, Representable(es) PROVE FALSE
  <2>1. n >= 3 \/ d2 = 0
    <3>1. n < 3 => Digit(ds, 2) = 0 \/ n > 2
      BY <1>5 DEF Digit
    <3> QED BY <1>1, <3>1
  <2>2. n + 1 >= 3 => d2 < 128
    <3>1. 3 \in 3 .. n + 1 => Digit(es, 3) < 128
      BY <1>5, <1>7 DEF Representable
    <3> QED BY <1>4, <3>1
  <2>3. n + 1 >= 4 => d3 < 1
    <3>1. 4 \in 3 .. n + 1 => Digit(es, 4) < 1
      BY <1>5, <1>7 DEF Representable
    <3> QED BY <1>4, <3>1
  <2>4. n < 4 => d3 = 0
    BY <1>1, <1>5 DEF Digit
  <2> QED BY <1>2, <1>7, <2>1, <2>2, <2>3, <2>4
<1>8. PICK v \in Nat : v = Value(ds)
  BY ValueType
<1>9. ~Full(Value(ds)) => Value(ds) < 8388608
  BY SMT, <1>8 DEF Full
<1>10. Full(Value(ds)) => Value(ds) >= 8388608
  BY SMT, <1>8 DEF Full
<1> QED BY SMT, <1>6, <1>7, <1>9, <1>10 DEF es

LEMMA NoDigits == Representable(<<>>) /\ Value(<<>>) = 0
BY DEF Representable, Value, Digit

LEMMA PartAppended ==
  ASSUME NEW s \in Seq(0 .. 255), NEW m \in Nat, NEW n \in Nat, m # 0, m <= n + 1, n + 1 <= Len(s)
  PROVE  SubSeq(s, m, n + 1) = Append(SubSeq(s, m, n), s[n + 1])
<1> DEFINE a == SubSeq(s, m, n)
           b == SubSeq(s, m, n + 1)
<1>1. n <= Len(s) /\ n + 1 \in Nat /\ m <= (n + 1) + 1
  OBVIOUS
<1>2. /\ a \in Seq(0 .. 255) /\ Len(a) = n - m + 1
      /\ \A i \in 1 .. n - m + 1 : a[i] = s[m + i - 1]
  BY <1>1, PartType
<1>3. /\ b \in Seq(0 .. 255) /\ Len(b) = (n + 1) - m + 1
      /\ \A i \in 1 .. (n + 1) - m + 1 : b[i] = s[m + i - 1]
  BY <1>1, PartType
<1> HIDE DEF a, b
<1>4. PICK k \in Nat : k = n - m + 1
  OBVIOUS
<1>5. s[n + 1] \in 0 .. 255 /\ Len(b) = k + 1 /\ Len(a) = k /\ m + (k + 1) - 1 = n + 1 /\ k + 1 \in 1 .. k + 1
  <2>1. n + 1 # 0
    OBVIOUS
  <2>2. s[n + 1] \in 0 .. 255
    BY <1>1, <2>1, IsByte
  <2> QED BY <1>2, <1>3, <1>4, <2>2
<1>6. (n + 1) - m + 1 = k + 1 /\ n - m + 1 = k
  BY <1>4
<1>7. b[k + 1] = s[n + 1]
  BY <1>3, <1>5, <1>6
<1>8. \A i \in 1 .. k : b[i] = a[i]
  <2>1. \A i \in 1 .. k : i \in 1 .. k + 1
    OBVIOUS
  <2> QED BY <1>2, <1>3, <1>6, <2>1
<1>9. b = Append(a, s[n + 1])
  BY <1>2, <1>3, <1>5, <1>7, <1>8
<1> QED BY <1>9 DEF a, b

\* The beginning of a representable length is representable.
LEMMA PartRepresentable ==
  ASSUME NEW s \in Seq(0 .. 255), NEW m \in Nat, NEW n \in Nat, NEW q \in Nat,
         m # 0, m <= n + 1, n <= q, q <= Len(s), Representable(SubSeq(s, m, q))
  PROVE  Representable(SubSeq(s, m, n))
<1> DEFINE a == SubSeq(s, m, n)
           b == SubSeq(s, m, q)
<1>1. PICK l \in Nat, d \in Nat : l = n - m + 1 /\ d = q - n
  OBVIOUS
<1>2. n <= Len(s) /\ m <= q + 1 /\ n - m + 1 = l /\ q - m + 1 = l + d
  <2>1. Len(s) \in Nat
    OBVIOUS
  <2> QED BY <1>1, <2>1
<1>3. a \in Seq(0 .. 255) /\ Len(a) = l /\ \A i \in 1 .. l : a[i] = s[m + i - 1]
  <2>1. /\ a \in Seq(0 .. 255) /\ Len(a) = n - m + 1
        /\ \A i \in 1 .. n - m + 1 : a[i] = s[m + i - 1]
    BY <1>2, PartType
  <2> QED BY <1>2, <2>1
<1>4. b \in Seq(0 .. 255) /\ Len(b) = l + d /\ \A i \in 1 .. l + d : b[i] = s[m + i - 1]
  <2>1. /\ b \in Seq(0 .. 255) /\ Len(b) = q - m + 1
        /\ \A i \in 1 .. q - m + 1 : b[i] = s[m + i - 1]
    BY <1>2, PartType
  <2> QED BY <1>2, <2>1
<1> HIDE DEF a, b
<1> SUFFICES ASSUME NEW k \in 3 .. l
             PROVE  Digit(a, k) < IF k = 3 THEN 128 ELSE 1
  BY <1>3 DEF Representable, a
<1>5. CASE k = l
  BY <1>3, <1>5 DEF Digit
<1>6. CASE k < l
  <2>1. l - k \in 1 .. l /\ l - k \in 1 .. l + d /\ k + d < l + d /\ (l + d) - (k + d) = l - k
    BY <1>6
  <2>2. Digit(a, k) = a[l - k] /\ Digit(b, k + d) = b[l - k]
    BY <1>3, <1>4, <1>6, <2>1 DEF Digit
  <2>3. Digit(a, k) = Digit(b, k + d)
    BY <1>3, <1>4, <2>1, <2>2
  <2>4. k + d \in 3 .. l + d
    OBVIOUS
  <2>5. Digit(b, k + d) < IF k + d = 3 THEN 128 ELSE 1
    BY <1>4, <2>4 DEF Representable, b
  <2>6. Digit(a, k) \in 0 .. 255
    <3>1. k \in Nat
      OBVIOUS
    <3> QED BY <1>3, <3>1, DigitType
  <2>7. PICK e \in 0 .. 255 : e = Digit(a, k) /\ e < IF k + d = 3 THEN 128 ELSE 1
    BY <2>3, <2>5, <2>6
  <2> QED BY <2>7
<1> QED BY <1>5, <1>6

-----------------------------------------------------------------------------
(* The length of the message in hand *)

\* What has been read of it, and that it is refused only if it has no length.
LengthInv ==
  /\ step = "length" => pos = start + 1 /\ stream[start + 1] = 48
  /\ step = "digits" =>
       /\ start + 2 <= pos /\ stream[start + 1] = 48 /\ stream[start + 2] > 128
       /\ pos + more = start + Header(stream, start)
       /\ Representable(SubSeq(stream, start + 3, pos))
       /\ len = Value(SubSeq(stream, start + 3, pos))
  /\ step = "body" =>
       /\ HasLength(stream, start) /\ pos = start + Header(stream, start)
       /\ len = Body(stream, start)
  /\ step = "refused" =>
       /\ ~HasLength(stream, start)
       /\ stream[start + 2] > 128 => ~Representable(SubSeq(stream, start + 3, pos))
  /\ step = "panic" => ~HasLength(stream, start)

\* A read of one byte that brings it.
LEMMA OneByte ==
  ASSUME ReaderInv, Read(1), UNCHANGED wireVars, ~Failed
  PROVE  /\ pos' = pos + 1 /\ pos + 1 <= Len(stream)
         /\ LastByte = stream[pos + 1] /\ stream[pos + 1] \in 0 .. 255
         /\ stream \in Seq(0 .. 255) /\ pos \in Nat /\ start \in Nat /\ start <= pos
<1>1. PICK p \in Nat, q \in Nat, f \in Nat : p = pos /\ q = pos' /\ f = filled'
  BY ReadKeeps DEF ReaderInv
<1>2. p <= q /\ p # q /\ q <= f
  BY <1>1, ReadKeeps DEF Failed
<1>3. q = p + Least(1, f - p)
  BY <1>1 DEF Read
<1>4. q = p + 1
  BY <1>2, <1>3 DEF Least
<1>5. stream[pos'] \in 0 .. 255
  BY ByteRead
<1>6. q <= Len(stream) /\ stream \in Seq(0 .. 255)
  <2>1. PICK a \in Nat : a = arrived'
    BY ReadKeeps
  <2>2. stream' = stream /\ stream \in Seq(0 .. 255)
    BY DEF wireVars, ReaderInv
  <2>3. f <= a /\ a <= Len(stream)
    BY <1>1, <2>1, <2>2, ReadKeeps
  <2>4. Len(stream) \in Nat
    BY <2>2
  <2> QED BY <1>2, <2>2, <2>3, <2>4
<1> QED BY <1>1, <1>4, <1>5, <1>6 DEF LastByte, ReaderInv

LEMMA TagStep ==
  ASSUME ReaderInv, LengthInv, ReadTag
  PROVE  LengthInv'
<1>1. Read(1) /\ UNCHANGED wireVars /\ start' = pos /\ stream' = stream
  BY DEF ReadTag, wireVars
<1>2. CASE Failed
  <2>1. step' = "closed"
    BY <1>2 DEF ReadTag
  <2> QED BY <2>1 DEF LengthInv
<1>3. CASE ~Failed
  <2>1. pos' = pos + 1 /\ LastByte = stream[pos + 1]
    BY <1>1, <1>3, OneByte
  <2>2. CASE LastByte = 48
    <3>1. step' = "length"
      BY <1>3, <2>2 DEF ReadTag
    <3> QED BY <1>1, <2>1, <2>2, <3>1 DEF LengthInv
  <2>3. CASE LastByte # 48
    <3>1. step' = "panic"
      BY <1>3, <2>3 DEF ReadTag
    <3>2. ~HasLength(stream', start')
      BY <1>1, <2>1, <2>3 DEF HasLength
    <3> QED BY <3>1, <3>2 DEF LengthInv
  <2> QED BY <2>2, <2>3
<1> QED BY <1>2, <1>3

LEMMA LengthStep ==
  ASSUME ReaderInv, LengthInv, ReadLength
  PROVE  LengthInv'
<1>1. Read(1) /\ UNCHANGED wireVars /\ start' = start /\ stream' = stream
  BY DEF ReadLength, wireVars
<1>2. pos = start + 1 /\ stream[start + 1] = 48
  BY DEF ReadLength, LengthInv
<1>3. CASE Failed
  <2>1. step' = "closed"
    BY <1>3 DEF ReadLength
  <2> QED BY <2>1 DEF LengthInv
<1>4. CASE ~Failed
  <2>1. PICK p \in Nat : p = start
    BY DEF ReaderInv
  <2>2. pos + 1 = p + 2
    BY <1>2, <2>1
  <2>3. /\ pos' = p + 2 /\ p + 2 <= Len(stream) /\ stream \in Seq(0 .. 255)
        /\ LastByte = stream[p + 2] /\ stream[p + 2] \in 0 .. 255
    BY <1>1, <1>4, <2>2, OneByte
  <2>4. PICK b \in 0 .. 255 : b = stream[p + 2] /\ b = LastByte
    BY <2>3
  <2>5. SubSeq(stream, p + 3, p + 2) = <<>>
    <3>1. p + 3 \in Int /\ p + 2 \in Int /\ p + 2 < p + 3
      OBVIOUS
    <3> QED BY <3>1, SubSeqEmpty
  <2>6. CASE b = 128
    <3>1. step' = "refused"
      BY <1>4, <2>4, <2>6 DEF ReadLength
    <3>2. ~HasLength(stream, p)
      BY <2>4, <2>6 DEF HasLength
    <3>3. ~ (stream[p + 2] > 128)
      BY <2>4, <2>6
    <3> QED BY <1>1, <2>1, <3>1, <3>2, <3>3 DEF LengthInv
  <2>7. CASE b < 128
    <3>1. step' = "body" /\ len' = b
      BY <1>4, <2>4, <2>7 DEF ReadLength
    <3>2. Header(stream, p) = 2 /\ Body(stream, p) = b
      BY <2>4, <2>7 DEF Header, Body
    <3>3. HasLength(stream, p)
      <4>1. Representable(Digits(stream, p))
        BY <2>5, <3>2, NoDigits DEF Digits
      <4>2. stream[p + 2] # 128
        BY <2>4, <2>7
      <4>3. p + Header(stream, p) <= Len(stream)
        BY <2>3, <3>2
      <4> QED BY <1>2, <2>1, <2>3, <4>1, <4>2, <4>3 DEF HasLength
    <3> QED BY <1>1, <2>1, <2>3, <3>1, <3>2, <3>3 DEF LengthInv
  <2>8. CASE b > 128
    <3>1. step' = "digits" /\ len' = 0 /\ more' = b - 128
      BY <1>4, <2>4, <2>8 DEF ReadLength, DigitsAfter
    <3>2. Header(stream, p) = b - 126
      BY <2>4, <2>8 DEF Header
    <3>3. p + 2 + (b - 128) = p + (b - 126) /\ p + 2 <= p + 2
      OBVIOUS
    <3>4. pos' + more' = start' + Header(stream', start')
      BY <1>1, <2>1, <2>3, <3>1, <3>2, <3>3
    <3>5. stream'[start' + 2] > 128 /\ stream'[start' + 1] = 48 /\ start' + 2 <= pos'
      BY <1>1, <1>2, <2>1, <2>3, <2>4, <2>8, <3>3
    <3>6. /\ Representable(SubSeq(stream', start' + 3, pos'))
          /\ len' = Value(SubSeq(stream', start' + 3, pos'))
      BY <1>1, <2>1, <2>3, <2>5, <3>1, NoDigits
    <3> QED BY <3>1, <3>4, <3>5, <3>6 DEF LengthInv
  <2> QED BY <2>6, <2>7, <2>8
<1> QED BY <1>3, <1>4

LEMMA DigitStep ==
  ASSUME ReaderInv, LengthInv, ReadDigit
  PROVE  LengthInv'
<1>1. Read(1) /\ UNCHANGED wireVars /\ start' = start /\ stream' = stream
  BY DEF ReadDigit, wireVars
<1> DEFINE ds == SubSeq(stream, start + 3, pos)
<1>2. /\ start + 2 <= pos /\ stream[start + 1] = 48 /\ stream[start + 2] > 128
      /\ pos + more = start + Header(stream, start)
      /\ Representable(ds) /\ len = Value(ds)
  BY DEF ReadDigit, LengthInv
<1>3. CASE Failed
  <2>1. step' = "closed"
    BY <1>3 DEF ReadDigit
  <2> QED BY <2>1 DEF LengthInv
<1>4. CASE ~Failed
  <2>1. PICK p \in Nat, q \in Nat, m \in Nat : p = start /\ q = pos /\ m = more /\ m # 0
    BY DEF ReaderInv, ReadDigit
  <2>2. PICK b \in 0 .. 255 : b = stream[q + 1] /\ b = LastByte
    BY <1>1, <1>4, <2>1, OneByte
  <2>3. pos' = q + 1 /\ q + 1 <= Len(stream) /\ stream \in Seq(0 .. 255) /\ p + 2 <= q
    BY <1>1, <1>2, <1>4, <2>1, OneByte
  <2>4. p + 3 \in Nat /\ p + 3 # 0 /\ p + 3 <= q + 1 /\ q <= Len(stream)
    <3>1. Len(stream) \in Nat
      BY <2>3
    <3> QED BY <2>3, <3>1
  <2>5. ds \in Seq(0 .. 255) /\ ds = SubSeq(stream, p + 3, q)
    BY <2>1, <2>3, <2>4, PartType
  <2>6. SubSeq(stream, p + 3, q + 1) = Append(ds, b)
    <3>1. SubSeq(stream, p + 3, q + 1) = Append(SubSeq(stream, p + 3, q), stream[q + 1])
      BY <2>3, <2>4, PartAppended
    <3> QED BY <2>2, <2>5, <3>1
  <2> HIDE DEF ds
  <2>7. CASE TooLarge
    <3>1. step' = "refused"
      BY <1>4, <2>7 DEF ReadDigit
    <3>2. Full(Value(ds)) /\ Representable(ds)
      BY SMT, <1>2, <2>7 DEF TooLarge, Full
    <3>3. ~Representable(SubSeq(stream, p + 3, q + 1))
      <4>1. ~Representable(Append(ds, b))
        BY <2>5, <3>2, DigitShifted
      <4> QED BY <2>6, <4>1
    <3>4. ASSUME HasLength(stream, p) PROVE FALSE
      <4>1. PICK h \in 2 .. 129 : h = Header(stream, p)
        <5>1. p + 2 <= Len(stream) /\ stream[p + 2] # 128
          BY <3>4 DEF HasLength
        <5> QED BY <2>3, <5>1, HeaderType
      <4>2. q + m = p + h
        BY <1>2, <2>1, <4>1
      <4>3. p + h <= Len(stream)
        BY <3>4, <4>1 DEF HasLength
      <4>4. q + 1 <= p + h /\ p + h \in Nat /\ q + 1 \in Nat /\ p + 3 <= (q + 1) + 1
        BY <2>1, <2>4, <4>2
      <4>5. Representable(SubSeq(stream, p + 3, p + h))
        BY <3>4, <4>1 DEF HasLength, Digits
      <4>6. Representable(SubSeq(stream, p + 3, q + 1))
        BY <2>3, <2>4, <4>3, <4>4, <4>5, PartRepresentable
      <4> QED BY <3>3, <4>6
    <3> QED BY <1>1, <2>1, <2>3, <3>1, <3>3, <3>4 DEF LengthInv
  <2>8. CASE ~TooLarge
    <3>1. /\ len' = Shifted(len) + b /\ more' = more - 1
          /\ step' = IF more = 1 THEN "body" ELSE "digits"
      BY <1>4, <2>2, <2>8 DEF ReadDigit
    <3>2. PICK l \in Nat : l = len /\ l = Value(ds)
      BY <1>2, MaxIntIs DEF ReaderInv
    <3>8. ~Full(Value(ds)) /\ Representable(ds)
      BY SMT, <1>2, <2>8 DEF TooLarge, Full
    <3>9. ~Full(l)
      BY <3>2, <3>8
    <3>3. Shifted(l) = 256 * l
      <4>1. l % 16777216 = l
        BY SMT, <3>9 DEF Full
      <4> QED BY SMT, <3>9, <4>1 DEF Shifted, Full
    <3>4. Representable(Append(ds, b)) /\ Value(Append(ds, b)) = 256 * Value(ds) + b
      BY <2>5, <3>8, DigitShifted
    <3>5. /\ Representable(SubSeq(stream, p + 3, q + 1))
          /\ len' = Value(SubSeq(stream, p + 3, q + 1))
      <4>1. Representable(SubSeq(stream, p + 3, q + 1))
        BY <2>6, <3>4
      <4>2. len' = 256 * l + b
        BY <3>1, <3>2, <3>3
      <4>3. Value(SubSeq(stream, p + 3, q + 1)) = 256 * l + b
        BY <2>6, <3>2, <3>4
      <4> QED BY <4>1, <4>2, <4>3
    <3>6. CASE m = 1
      <4>1. step' = "body"
        BY <2>1, <3>1, <3>6
      <4>2. q + 1 = p + Header(stream, p)
        BY <1>2, <2>1, <3>6
      <4>3. Digits(stream, p) = SubSeq(stream, p + 3, q + 1)
        BY <4>2 DEF Digits
      <4>4. PICK c \in 0 .. 255 : c = stream[p + 2] /\ c > 128
        <5>1. p + 2 \in Nat /\ p + 2 # 0 /\ p + 2 <= Len(stream)
          <6>1. Len(stream) \in Nat
            BY <2>3
          <6> QED BY <2>3, <2>4, <6>1
        <5> QED BY <1>2, <2>1, <2>3, <5>1, IsByte
      <4>5. Body(stream, p) = Value(Digits(stream, p))
        BY <4>4 DEF Body
      <4>6. HasLength(stream, p)
        <5>1. p + 2 <= Len(stream)
          <6>1. Len(stream) \in Nat
            BY <2>3
          <6> QED BY <2>3, <2>4, <6>1
        <5>2. stream[p + 2] # 128
          BY <4>4
        <5>3. p + Header(stream, p) <= Len(stream)
          BY <2>3, <4>2
        <5> QED BY <1>2, <2>1, <3>5, <4>3, <5>1, <5>2, <5>3 DEF HasLength
      <4> QED BY <1>1, <2>1, <2>3, <3>5, <4>1, <4>2, <4>3, <4>5, <4>6 DEF LengthInv
    <3>7. CASE m # 1
      <4>1. step' = "digits"
        BY <2>1, <3>1, <3>7
      <4>2. PICK e \in Int : e = p + Header(stream, p) /\ q + m = e
        BY <1>2, <2>1
      <4>3. (q + 1) + (m - 1) = e /\ p + 2 <= q + 1
        BY <2>3, <4>2
      <4>4. pos' + more' = start' + Header(stream', start')
        BY <1>1, <2>1, <2>3, <3>1, <4>2, <4>3
      <4>5. start' + 2 <= pos' /\ stream'[start' + 1] = 48 /\ stream'[start' + 2] > 128
        BY <1>1, <1>2, <2>1, <2>3, <4>3
      <4>6. /\ Representable(SubSeq(stream', start' + 3, pos'))
            /\ len' = Value(SubSeq(stream', start' + 3, pos'))
        BY <1>1, <2>1, <2>3, <3>5
      <4> QED BY <4>1, <4>4, <4>5, <4>6 DEF LengthInv
    <3> QED BY <3>6, <3>7
  <2> QED BY <2>7, <2>8
<1> QED BY <1>3, <1>4

LEMMA LengthInvStep ==
  ASSUME ReaderInv, LengthInv, [FramingNext]_framingVars
  PROVE  LengthInv'
<1>1. CASE step' \in {"tag", "decode", "closed"}
  BY <1>1 DEF LengthInv
<1>2. CASE UNCHANGED <<stream, start, pos, len, more, step>>
  BY <1>2 DEF LengthInv
<1>3. ASSUME NEW n \in 1 .. Len(stream), Arrive(n) PROVE LengthInv'
  BY <1>2, <1>3 DEF Arrive, readVars
<1>4. ASSUME NEW m \in Requests, ServeLDAP(m) PROVE LengthInv'
  BY <1>1, <1>4 DEF ServeLDAP
<1>5. CASE NotDecoded \/ ReadBody
  BY <1>1, <1>5 DEF NotDecoded, ReadBody
<1>6. CASE UNCHANGED framingVars
  BY <1>2, <1>6 DEF framingVars, readVars, wireVars
<1> QED BY <1>3, <1>4, <1>5, <1>6, TagStep, LengthStep, DigitStep DEF FramingNext

LEMMA LengthInvExact ==
  ASSUME ReaderInv, LengthInv
  PROVE  LengthIsExact
<1>1. CASE step = "refused"
  BY <1>1 DEF LengthInv, LengthIsExact
<1>2. CASE step = "body"
  <2> SUFFICES ASSUME stream[start + 2] > 128
               PROVE  /\ Representable(SubSeq(stream, start + 3, pos))
                      /\ len = Value(SubSeq(stream, start + 3, pos))
    BY <1>2 DEF LengthIsExact
  <2>1. HasLength(stream, start) /\ pos = start + Header(stream, start) /\ len = Body(stream, start)
    BY <1>2 DEF LengthInv
  <2>2. Digits(stream, start) = SubSeq(stream, start + 3, pos)
    BY <2>1 DEF Digits
  <2>3. PICK p \in Nat : p = start
    BY DEF ReaderInv
  <2>4. stream[p + 2] \in 0 .. 255
    <3>1. p + 2 \in Nat /\ p + 2 # 0 /\ p + 2 <= Len(stream) /\ stream \in Seq(0 .. 255)
      BY <2>1, <2>3 DEF HasLength, ReaderInv
    <3> QED BY <3>1, IsByte
  <2>5. PICK b \in 0 .. 255 : b = stream[p + 2] /\ b > 128
    BY <2>3, <2>4
  <2>6. Body(stream, p) = Value(Digits(stream, p))
    BY <2>5 DEF Body
  <2> QED BY <2>1, <2>2, <2>3, <2>6 DEF HasLength
<1> QED BY <1>1, <1>2 DEF LengthIsExact

-----------------------------------------------------------------------------
(* Frames and messages *)

Frame == [start : Nat, body : Nat, read : Nat]

\* The i-th frame is the i-th message of the stream.
Framed(i) ==
  LET from == Ends(stream)[i - 1] IN
    /\ IsMessage(stream, from)
    /\ frames[i] = [start |-> from, body |-> Body(stream, from), read |-> Body(stream, from)]

\* The reader is at the end of the message taken last, and the buffer does not
\* end within a message.  That ends grow bounds the number of messages, so that
\* TornAt looks at all of them.
FrameInv ==
  /\ frames \in Seq(Frame) /\ torn \in BOOLEAN
  /\ ~torn =>
       /\ \A i \in 1 .. Len(frames) : Framed(i)
       /\ Len(frames) <= Ends(stream)[Len(frames)]
       /\ step \in {"length", "digits", "body", "refused", "panic"} =>
            start = Ends(stream)[Len(frames)]
       /\ step \in {"tag", "decode"} => pos = Ends(stream)[Len(frames)]
       /\ ~TornAt(stream, filled)

LEMMA ReadNotTorn ==
  ASSUME FrameInv, NEW n, Read(n), UNCHANGED wireVars
  PROVE  /\ torn' \in BOOLEAN
         /\ ~torn' => /\ ~torn /\ ~TornAt(stream', filled')
                      /\ ~ (step = "body" /\ n > 0 /\ pos' = pos)
<1>1. stream' = stream
  BY DEF wireVars
<1>2. torn' = \/ torn
              \/ filled' # filled /\ TornAt(stream, filled')
              \/ step = "body" /\ n > 0 /\ pos' = pos
  BY DEF Read
<1>3. torn \in BOOLEAN /\ (~torn => ~TornAt(stream, filled))
  BY DEF FrameInv
<1>4. torn' \in BOOLEAN
  BY <1>2
<1>5. ~torn' => /\ ~torn /\ ~ (filled' # filled /\ TornAt(stream, filled'))
                /\ ~ (step = "body" /\ n > 0 /\ pos' = pos)
  BY <1>2
<1>6. ASSUME ~torn' PROVE ~TornAt(stream', filled')
  <2>1. CASE filled' = filled
    BY <1>1, <1>3, <1>5, <1>6, <2>1
  <2>2. CASE filled' # filled
    BY <1>1, <1>5, <1>6, <2>2
  <2> QED BY <2>1, <2>2
<1> QED BY <1>4, <1>5, <1>6

\* A whole body is read if the buffer does not end within it.
LEMMA BodyRead ==
  ASSUME ReaderInv, LengthInv, FrameInv, ReadBody, ~torn'
  PROVE  /\ IsMessage(stream, start) /\ len = Body(stream, start)
         /\ pos' = start + Header(stream, start) + len /\ pos' - pos = len
<1>1. Read(len) /\ UNCHANGED wireVars /\ step = "body" /\ len \in Nat
  BY MaxIntIs DEF ReadBody, ReaderInv
<1>2. /\ HasLength(stream, start) /\ pos = start + Header(stream, start)
      /\ len = Body(stream, start)
  BY <1>1 DEF LengthInv
<1>3. /\ ~torn /\ ~TornAt(stream, filled') /\ stream' = stream
      /\ ~ (len > 0 /\ pos' = pos)
  BY <1>1, ReadNotTorn DEF wireVars
<1>4. start = Ends(stream)[Len(frames)] /\ Len(frames) <= Ends(stream)[Len(frames)]
  BY <1>1, <1>3 DEF FrameInv
<1>5. PICK p \in Nat, q \in Nat, r \in Nat, f \in Nat, b \in Nat, n \in Nat, h \in 2 .. 129, l \in Nat :
        /\ p = start /\ q = pos /\ r = pos' /\ f = filled' /\ b = len /\ n = Len(frames)
        /\ h = Header(stream, start) /\ l = Len(stream)
  <2>1. Header(stream, start) \in 2 .. 129
    BY <1>2, HeaderType DEF HasLength, ReaderInv
  <2>2. Len(frames) \in Nat /\ Len(stream) \in Nat
    BY DEF FrameInv, ReaderInv
  <2>3. pos' \in Nat /\ filled' \in Nat
    BY <1>1, ReadKeeps
  <2> QED BY <1>1, <2>1, <2>2, <2>3 DEF ReaderInv
<1>6. q = p + h /\ n <= p /\ r = q + Least(b, f - q) /\ q <= r /\ r <= f /\ f <= l
  <2>1. q <= r /\ r <= f
    BY <1>1, <1>5, ReadKeeps
  <2>2. f <= l
    <3>1. PICK a \in Nat : a = arrived'
      BY <1>1, ReadKeeps
    <3>2. f <= a /\ a <= l
      BY <1>1, <1>3, <1>5, <3>1, ReadKeeps
    <3> QED BY <3>2
  <2>3. q = p + h /\ n <= p
    BY <1>2, <1>4, <1>5
  <2>4. r = q + Least(b, f - q)
    BY <1>1, <1>5 DEF Read
  <2> QED BY <2>1, <2>2, <2>3, <2>4
<1>7. ~ (0 < f - (p + h) /\ f - (p + h) < b)
  <2>1. n \in 0 .. l
    BY <1>6
  <2>2. Ends(stream)[n] = p /\ n \in 0 .. Len(stream)
    BY <1>4, <1>5, <2>1
  <2> QED BY <1>2, <1>3, <1>5, <2>2 DEF TornAt
<1>8. r = q + b /\ b <= l - (p + h)
  <2>1. b > 0 => r # q
    BY <1>3, <1>5
  <2> QED BY <1>6, <1>7, <2>1 DEF Least
<1>9. IsMessage(stream, start)
  BY <1>2, <1>5, <1>8 DEF IsMessage
<1>10. r = p + h + b /\ r - q = b
  BY <1>6, <1>8
<1> QED BY <1>2, <1>5, <1>9, <1>10

LEMMA FrameStep ==
  ASSUME ReaderInv, LengthInv, FrameInv, [FramingNext]_framingVars
  PROVE  FrameInv'
<1>1. ASSUME Read(1), UNCHANGED <<wireVars, frames>>,
             \/ /\ step \in {"length", "digits"} /\ start' = start
                /\ step' \in {"closed", "refused", "digits", "body"}
             \/ step = "tag" /\ start' = pos /\ step' \in {"closed", "length", "panic"}
      PROVE  FrameInv'
  <2>1. torn' \in BOOLEAN /\ frames' = frames /\ stream' = stream
    BY <1>1, ReadNotTorn DEF wireVars
  <2>2. ASSUME ~torn'
        PROVE  /\ \A i \in 1 .. Len(frames') : Framed(i)'
               /\ Len(frames') <= Ends(stream')[Len(frames')]
               /\ ~TornAt(stream', filled')
    <3>1. ~torn /\ ~TornAt(stream', filled')
      BY <1>1, <2>2, ReadNotTorn
    <3> QED BY <2>1, <3>1 DEF FrameInv, Framed
  <2>3. ASSUME ~torn' PROVE step' # "closed" => start' = Ends(stream')[Len(frames')]
    <3>1. ~torn
      BY <1>1, <2>3, ReadNotTorn
    <3> QED BY <1>1, <2>1, <3>1 DEF FrameInv
  <2>4. step' \notin {"tag", "decode"}
    BY <1>1
  <2>5. frames' \in Seq(Frame)
    BY <2>1 DEF FrameInv
  <2> QED BY <2>1, <2>2, <2>3, <2>4, <2>5 DEF FrameInv
<1>2. CASE ReadTag
  BY <1>1, <1>2 DEF ReadTag
<1>3. CASE ReadLength
  <2>1. Read(1) /\ UNCHANGED <<wireVars, frames>> /\ step = "length" /\ start' = start
    BY <1>3 DEF ReadLength
  <2>2. step' \in {"closed", "refused", "digits", "body"}
    BY <1>3 DEF ReadLength
  <2> QED BY <1>1, <2>1, <2>2
<1>4. CASE ReadDigit
  <2>1. Read(1) /\ UNCHANGED <<wireVars, frames>> /\ step = "digits" /\ start' = start
    BY <1>4 DEF ReadDigit
  <2>2. step' \in {"closed", "refused", "digits", "body"}
    BY <1>4 DEF ReadDigit
  <2> QED BY <1>1, <2>1, <2>2
<1>5. CASE ReadBody
  <2>1. /\ Read(len) /\ UNCHANGED wireVars /\ stream' = stream /\ step' = "decode"
        /\ frames' = Append(frames, [start |-> start, body |-> len, read |-> pos' - pos])
    BY <1>5 DEF ReadBody, wireVars
  <2>2. len \in Nat /\ start \in Nat /\ pos' - pos \in Nat
    <3>1. len \in Nat /\ start \in Nat
      BY MaxIntIs DEF ReaderInv
    <3>2. PICK q \in Nat, r \in Nat : q = pos /\ r = pos' /\ q <= r
      BY <2>1, <3>1, ReadKeeps DEF ReaderInv
    <3>3. q <= r => r - q \in Nat
      OBVIOUS
    <3> QED BY <3>1, <3>2, <3>3
  <2>3. [start |-> start, body |-> len, read |-> pos' - pos] \in Frame
    BY <2>2 DEF Frame
  <2>4. PICK fr \in Frame : fr = [start |-> start, body |-> len, read |-> pos' - pos]
    BY <2>3
  <2>5. frames \in Seq(Frame) /\ torn' \in BOOLEAN
    BY <2>1, ReadNotTorn DEF FrameInv
  <2>6. frames' \in Seq(Frame)
    BY <2>1, <2>4, <2>5
  <2>7. PICK n \in Nat : n = Len(frames) /\ Len(frames') = n + 1
    BY <2>1, <2>4, <2>5
  <2>8. frames'[n + 1] = fr /\ \A i \in 1 .. n : frames'[i] = frames[i]
    BY <2>1, <2>4, <2>5, <2>7
  <2>9. ASSUME ~torn'
        PROVE  /\ \A i \in 1 .. n + 1 : Framed(i)'
               /\ n + 1 <= Ends(stream')[n + 1]
               /\ pos' = Ends(stream')[n + 1]
               /\ ~TornAt(stream', filled')
    <3>1. ~torn /\ ~TornAt(stream', filled')
      BY <2>1, <2>9, ReadNotTorn
    <3>2. start = Ends(stream)[n] /\ n <= Ends(stream)[n] /\ \A i \in 1 .. n : Framed(i)
      BY <1>5, <2>7, <3>1 DEF FrameInv, ReadBody
    <3>3. /\ IsMessage(stream, start) /\ len = Body(stream, start)
          /\ pos' = start + Header(stream, start) + len /\ pos' - pos = len
      BY <1>5, <2>9, BodyRead
    <3>4. Ends(stream)[n + 1] = pos'
      <4>1. stream \in Seq(0 .. 255)
        BY DEF ReaderInv
      <4>2. Ends(stream)[n + 1] = start + Header(stream, start) + Body(stream, start)
        BY <3>2, <3>3, <4>1, EndsRecursive
      <4> QED BY <3>3, <4>2
    <3>5. n + 1 <= Ends(stream)[n + 1]
      <4>1. PICK h \in 2 .. 129 : h = Header(stream, start)
        BY <2>2, <3>3, HeaderType DEF IsMessage, HasLength, ReaderInv
      <4>2. PICK p \in Nat, b \in Nat : p = start /\ b = len
        BY <2>2
      <4>3. n <= p /\ Ends(stream)[n + 1] = p + h + b
        BY <3>2, <3>3, <3>4, <4>1, <4>2
      <4> QED BY <4>3
    <3>6. Framed(n + 1)'
      <4>1. (n + 1) - 1 = n
        OBVIOUS
      <4>2. frames'[n + 1] = [start |-> start, body |-> len, read |-> len]
        BY <2>4, <2>8, <3>3
      <4> QED BY <2>1, <3>2, <3>3, <4>1, <4>2 DEF Framed
    <3>7. ASSUME NEW i \in 1 .. n PROVE Framed(i)'
      BY <2>1, <2>8, <3>2 DEF Framed
    <3>8. \A i \in 1 .. n + 1 : i = n + 1 \/ i \in 1 .. n
      OBVIOUS
    <3> QED BY <2>1, <3>1, <3>4, <3>5, <3>6, <3>7, <3>8
  <2> QED BY <2>1, <2>5, <2>6, <2>7, <2>9 DEF FrameInv
<1>6. CASE /\ UNCHANGED <<frames, stream, torn, filled, pos, start>>
           /\ step' = step \/ (step = "decode" /\ step' = "tag")
  BY <1>6 DEF FrameInv, Framed
<1>7. ASSUME NEW n \in 1 .. Len(stream), Arrive(n) PROVE FrameInv'
  BY <1>6, <1>7 DEF Arrive, readVars
<1>8. CASE NotDecoded
  BY <1>6, <1>8 DEF NotDecoded, wireVars, readVars
<1>9. ASSUME NEW m \in Requests, ServeLDAP(m) PROVE FrameInv'
  BY <1>6, <1>9 DEF ServeLDAP, wireVars, readVars
<1>10. CASE UNCHANGED framingVars
  BY <1>6, <1>10 DEF framingVars, wireVars, readVars
<1> QED BY <1>2, <1>3, <1>4, <1>5, <1>7, <1>8, <1>9, <1>10 DEF FramingNext

LEMMA FrameInvMessages ==
  ASSUME LengthInv, FrameInv
  PROVE  FramesAreMessages
<1> SUFFICES ASSUME ~torn PROVE FramesAreMessages
  BY DEF FramesAreMessages
<1>1. \A i \in DOMAIN frames : Framed(i)
  BY DEF FrameInv
<1>2. step \in {"refused", "panic"} => start = Ends(stream)[Len(frames)]
  BY DEF FrameInv
<1>3. step \in {"refused", "panic"} => ~IsMessage(stream, start)
  BY DEF LengthInv, IsMessage
<1> QED BY <1>1, <1>2, <1>3 DEF FramesAreMessages, Framed

LEMMA FramingStarts == FramingInit => ReaderInv /\ LengthInv /\ FrameInv
<1> SUFFICES ASSUME FramingInit PROVE LengthInv /\ FrameInv
  BY SomeSession
<1>1. stream \in Seq(0 .. 255)
  BY SomeSession DEF ReaderInv
<1>2. Ends(stream) \in [Nat -> Nat] /\ Ends(stream)[0] = 0
  BY <1>1, EndsRecursive
<1>3. LengthInv
  BY DEF FramingInit, LengthInv
<1>4. ~TornAt(stream, 0)
  <2> SUFFICES ASSUME NEW n \in 0 .. Len(stream), HasLength(stream, Ends(stream)[n]),
                      0 < 0 - (Ends(stream)[n] + Header(stream, Ends(stream)[n]))
               PROVE  FALSE
    BY DEF TornAt
  <2>1. PICK p \in Nat : p = Ends(stream)[n]
    BY <1>2
  <2>2. p + 2 <= Len(stream) /\ stream[p + 2] # 128
    BY <2>1 DEF HasLength
  <2>3. PICK h \in 2 .. 129 : h = Header(stream, p)
    BY <1>1, <2>2, HeaderType
  <2>4. 0 < 0 - (p + h)
    BY <2>1, <2>3
  <2> QED BY <2>4
<1>5. FrameInv
  BY <1>2, <1>4 DEF FramingInit, FrameInv
<1> QED BY <1>3, <1>5

-----------------------------------------------------------------------------
\* route.go 138-177, packet.go 107-119: the reader's state has its type, and what
\* is noted of a request names one of the routes or none.
THEOREM FramingTypeCorrect == FramingSpec => []FramingTypeOK
<1>1. FramingInit => RoutedInv
  BY DEF FramingInit, RoutedInv
<1>2. ReaderInv /\ FrameInv /\ RoutedInv => FramingTypeOK
  <2> SUFFICES ASSUME ReaderInv, FrameInv, RoutedInv PROVE FramingTypeOK
    OBVIOUS
  <2>1. routes \in Seq(Written)
    BY RoutesWritten
  <2>2. routes \in Seq(Route)
    BY <2>1 DEF Written
  <2>3. ASSUME last # None PROVE last \in [req : Requests, route : 0 .. Len(routes)]
    <3>1. last = [req |-> last.req, route |-> Chosen(routes, last.req)] /\ last.req \in Requests
      BY <2>3 DEF RoutedInv
    <3>2. Chosen(routes, last.req) \in 0 .. Len(routes)
      <4>1. Chosen(routes, last.req) = 0 \/ Chosen(routes, last.req) \in DOMAIN routes
        BY <2>1, ChosenFirst
      <4>2. 0 \in 0 .. Len(routes) /\ DOMAIN routes \subseteq 0 .. Len(routes)
        BY <2>1
      <4> QED BY <4>1, <4>2
    <3> QED BY <3>1, <3>2
  <2>4. stream \in Seq(0 .. 255) /\ more \in 0 .. 127 /\ torn \in BOOLEAN
    BY DEF ReaderInv, FrameInv
  <2>5. step \in {"tag", "length", "digits", "body", "decode", "closed", "refused", "panic"}
    BY DEF ReaderInv, Steps
  <2> QED BY <2>2, <2>3, <2>4, <2>5 DEF FramingTypeOK
<1> QED BY <1>1, <1>2, FramingStarts, ReaderStep, LengthInvStep, FrameStep, RoutedStep, PTL
        DEF FramingSpec

\* packet.go 107-119: of any length, in any number of bytes, what is accepted is
\* its value, and what is refused has none in 32 bits.
THEOREM LengthsExact == FramingSpec => []LengthIsExact
BY FramingStarts, ReaderStep, LengthInvStep, LengthInvExact, PTL DEF FramingSpec

\* packet.go 51-60: whatever a peer sends and however it is split outside of
\* bodies, frames are the messages, and a message is not refused.
THEOREM MessagesFramed == FramingSpec => []FramesAreMessages
BY FramingStarts, ReaderStep, LengthInvStep, FrameStep, FrameInvMessages, PTL DEF FramingSpec
=============================================================================
