------------------------------ MODULE BaseFacts ------------------------------
(***************************************************************************)
(* Facts the proofs rest on: what % and roundUp guarantee about steps and  *)
(* slots, and what Append, Head and Tail do to a sequence.                 *)
(***************************************************************************)
EXTENDS Align, Sequences, TLAPS

(* Division with remainder. *)
LEMMA DivMod ==
  ASSUME NEW a \in Int, NEW n \in Nat \ {0}
  PROVE  /\ a = n * (a \div n) + (a % n)
         /\ a % n \in 0 .. n - 1
         /\ a \div n \in Int
         /\ n * (a \div n) \in Int
  OBVIOUS

(* Products of integers, as the leaves below need them. *)
LEMMA MulAssoc ==
  ASSUME NEW a \in Int, NEW b \in Int, NEW c \in Int
  PROVE  (a * b) * c = b * (a * c)
  OBVIOUS

(* Multiplication distributes over addition and subtraction. *)
LEMMA MulDist ==
  ASSUME NEW a \in Int, NEW b \in Int, NEW c \in Int
  PROVE  /\ a * (b + c) = a * b + a * c
         /\ a * (b - c) = a * b - a * c
         /\ a * b \in Int /\ a * c \in Int
         /\ a * 1 = a
  OBVIOUS

(* A product with a positive factor has the sign of the other factor. *)
LEMMA MulSign ==
  ASSUME NEW s \in Nat \ {0}, NEW k \in Int
  PROVE  /\ k <= 0 => s * k <= 0
         /\ k >= 1 => s * k >= s
         /\ k <= -1 => s * k <= -s
         /\ s * k \in Int
  OBVIOUS

(* The remainder is the only r in 0 .. n-1 with a = n * q + r. *)
LEMMA ModUnique ==
  ASSUME NEW n \in Nat \ {0}, NEW q \in Int, NEW r \in 0 .. n - 1,
         NEW a \in Int, a = n * q + r
  PROVE  a % n = r
<1>1. PICK p \in Int : a = n * p + (a % n) /\ n * p \in Int
  BY DivMod
<1>2. a % n \in 0 .. n - 1
  BY DivMod
<1> DEFINE d == q - p
<1>3. d \in Int
  OBVIOUS
<1>4. n * d = n * q - n * p
  BY MulDist
<1>5. n * d = (a % n) - r
  BY <1>1, <1>2, <1>4, MulDist
<1> HIDE DEF d
<1>6. d <= 0 /\ d >= 0
  BY <1>2, <1>3, <1>5, MulSign
<1>7. d = 0
  BY <1>3, <1>6
<1> QED
  BY <1>2, <1>5, <1>7

(* Multiples of n leave no remainder. *)
LEMMA ModZero ==
  ASSUME NEW n \in Nat \ {0}, NEW q \in Int, NEW a \in Int, a = n * q
  PROVE  a % n = 0
<1>1. a = n * q + 0
  BY MulDist
<1> QED
  BY <1>1, ModUnique

(* What leaves no remainder is a multiple. *)
LEMMA ZeroMod ==
  ASSUME NEW n \in Nat \ {0}, NEW a \in Int, a % n = 0
  PROVE  \E q \in Int : a = n * q
<1>1. a = n * (a \div n) /\ (a \div n) \in Int
  BY DivMod
<1> QED
  BY <1>1

(* Steps less than NCCL_STEPS apart are in different slots. *)
LEMMA ModDistinct ==
  ASSUME NEW a \in Nat, NEW b \in Nat, NEW n \in Nat \ {0},
         a < b, b < a + n
  PROVE  a % n # b % n
<1>1. a \in Int /\ b \in Int
  OBVIOUS
<1>2. PICK p \in Int : a = n * p + (a % n) /\ n * p \in Int
  BY <1>1, DivMod
<1>3. PICK q \in Int : b = n * q + (b % n) /\ n * q \in Int
  BY <1>1, DivMod
<1>4. a % n \in 0 .. n - 1 /\ b % n \in 0 .. n - 1
  BY <1>1, DivMod
<1>5. SUFFICES ASSUME a % n = b % n PROVE FALSE
  OBVIOUS
<1> DEFINE d == q - p
<1>6. d \in Int
  OBVIOUS
<1>7. n * d = n * q - n * p
  BY MulDist
<1>8. n * d = b - a
  BY <1>2, <1>3, <1>4, <1>5, <1>7
<1> HIDE DEF d
<1> QED
  BY <1>6, <1>8, MulSign

(* roundUp returns the first multiple of y that is not below x. *)
LEMMA RoundUpProps ==
  ASSUME NEW x \in Nat, NEW y \in Nat \ {0}
  PROVE  /\ roundUp(x, y) \in Nat
         /\ x <= roundUp(x, y) /\ roundUp(x, y) < x + y
         /\ roundUp(x, y) % y = 0
<1>1. PICK a \in Int : a = x + y - 1
  OBVIOUS
<1>2. PICK q \in Int : a = y * q + (a % y) /\ y * q \in Int
  BY DivMod
<1>3. a % y \in 0 .. y - 1
  BY DivMod
<1>4. roundUp(x, y) = y * q
  BY <1>1, <1>2, <1>3 DEF roundUp
<1>5. roundUp(x, y) % y = 0
  BY <1>2, <1>4, ModZero
<1> QED
  BY <1>1, <1>2, <1>3, <1>4, <1>5

(* A multiple of a chunk is a multiple of a slice. *)
LEMMA ModMultiple ==
  ASSUME NEW a \in Int, NEW s \in Nat \ {0}, NEW c \in Nat \ {0},
         a % (c * s) = 0
  PROVE  a % s = 0
<1>1. c * s \in Nat \ {0}
  OBVIOUS
<1>2. PICK q \in Int : a = (c * s) * q
  BY <1>1, ZeroMod
<1>3. a = s * (c * q)
  BY <1>2, MulAssoc
<1>4. c * q \in Int
  OBVIOUS
<1> QED
  BY <1>3, <1>4, ModZero

(* Advancing by a slice keeps the step aligned. *)
LEMMA ModAdd ==
  ASSUME NEW a \in Int, NEW s \in Nat \ {0}, a % s = 0
  PROVE  (a + s) % s = 0
<1>1. PICK q \in Int : a = s * q
  BY ZeroMod
<1>2. PICK b \in Int : b = a + s
  OBVIOUS
<1>3. b = s * (q + 1) /\ q + 1 \in Int
  BY <1>1, <1>2, MulDist
<1>4. b % s = 0
  BY <1>3, ModZero
<1> QED
  BY <1>2, <1>4

(* An aligned slice does not cross the end of the buffer. *)
LEMMA SliceFits ==
  ASSUME NEW a \in Nat, NEW s \in Nat \ {0}, NEW n \in Nat \ {0},
         a % s = 0, n % s = 0
  PROVE  (a % n) + s <= n
<1>0. a \in Int /\ n \in Int
  OBVIOUS
<1>1. PICK qa \in Int : a = s * qa
  BY <1>0, ZeroMod
<1>2. PICK qn \in Int : n = s * qn
  BY <1>0, ZeroMod
<1>3. PICK q \in Int : a = n * q + (a % n) /\ n * q \in Int
  BY <1>0, DivMod
<1>4. a % n \in 0 .. n - 1
  BY <1>0, DivMod
<1>5. n * q = s * (qn * q) /\ qn * q \in Int
  BY <1>2
<1> DEFINE k == qn - (qa - qn * q)
<1>6. k \in Int
  BY <1>5
<1>7. s * k = s * qn - (s * qa - s * (qn * q))
  BY <1>5, MulDist
<1>8. s * k = n - (a % n)
  BY <1>1, <1>2, <1>3, <1>4, <1>5, <1>7
<1> HIDE DEF k
<1>9. k >= 1
  BY <1>4, <1>6, <1>8, MulSign
<1>10. s * k >= s
  BY <1>6, <1>9, MulSign
<1> QED
  BY <1>4, <1>8, <1>10

(* Inside such a slice, step a + i is in slot (a % n) + i. *)
LEMMA ModShift ==
  ASSUME NEW a \in Nat, NEW i \in Nat, NEW n \in Nat \ {0},
         (a % n) + i < n
  PROVE  (a + i) % n = (a % n) + i
<1>1. a \in Int /\ a + i \in Int
  OBVIOUS
<1>2. PICK q \in Int : a = n * q + (a % n) /\ n * q \in Int
  BY <1>1, DivMod
<1>3. a % n \in 0 .. n - 1
  BY <1>1, DivMod
<1>4. PICK b \in Int, r \in 0 .. n - 1 : b = a + i /\ r = (a % n) + i
  BY <1>1, <1>3
<1>5. b = n * q + r
  BY <1>2, <1>3, <1>4
<1>6. b % n = r
  BY <1>5, ModUnique
<1> QED
  BY <1>4, <1>6

----------------------------------------------------------------------------
(* The elements of a sequence. *)
LEMMA ElementOfSeq ==
  ASSUME NEW T, NEW s \in Seq(T), NEW n \in 1 .. Len(s)
  PROVE  s[n] \in T
  OBVIOUS

(* The empty sequence, and the length of the others. *)
LEMMA EmptySeq ==
  ASSUME NEW T
  PROVE  /\ <<>> \in Seq(T) /\ Len(<<>>) = 0
         /\ \A s \in Seq(T) : s # <<>> => Len(s) \in Nat \ {0}
  OBVIOUS

(* What Append leaves alone and what it adds. *)
LEMMA AppendProperties ==
  ASSUME NEW T, NEW s \in Seq(T), NEW e \in T
  PROVE  /\ Append(s, e) \in Seq(T) /\ Append(s, e) # <<>>
         /\ Len(Append(s, e)) = Len(s) + 1
         /\ \A i \in 1 .. Len(s) : Append(s, e)[i] = s[i]
         /\ Append(s, e)[Len(s) + 1] = e
  OBVIOUS

(* Head and Tail of a sequence that is not empty. *)
LEMMA HeadTailProperties ==
  ASSUME NEW T, NEW s \in Seq(T), s # <<>>
  PROVE  /\ Head(s) \in T /\ Head(s) = s[1]
         /\ Tail(s) \in Seq(T)
         /\ Len(Tail(s)) = Len(s) - 1
         /\ \A i \in 1 .. Len(Tail(s)) : Tail(s)[i] = s[i + 1]
  OBVIOUS
=============================================================================
