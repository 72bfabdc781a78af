-------------------------- MODULE FirFilterProofs --------------------------
(***************************************************************************)
(* Proofs about FirFilter, for every number of taps and every width of the *)
(* counter that the number of taps divides: the masked counter finds the   *)
(* right input for every tap, also after it wrapped around.                *)
(***************************************************************************)
EXTENDS FirFilter, TLAPS

-----------------------------------------------------------------------------
(***************************************************************************)
(* Remainders.                                                             *)
(***************************************************************************)
\* A number is the divisor times something plus the remainder.
LEMMA Division ==
    ASSUME NEW a \in Int, NEW b \in Nat \ {0}
    PROVE  /\ (a % b) \in 0 .. b - 1
           /\ \E q \in Int : a = b * q + (a % b)
<1>1. a = b * (a \div b) + (a % b) /\ (a \div b) \in Int /\ (a % b) \in 0 .. b - 1
  OBVIOUS
<1> QED
  BY <1>1

\* The remainder is the only such number.
LEMMA Remainder ==
    \A b \in Nat \ {0} : \A a, q \in Int : \A r \in 0 .. b - 1 :
        a = b * q + r => (a % b) = r
OBVIOUS

\* Counting on by one.
LEMMA NextRemainder ==
    ASSUME NEW a \in Int, NEW b \in Nat \ {0}
    PROVE  ((a + 1) % b) = IF (a % b) + 1 = b THEN 0 ELSE (a % b) + 1
<1> DEFINE r == a % b
           c == a + 1
<1> HIDE DEF r, c
<1>1. PICK q \in Int : a = b * q + r
  BY Division DEF r
<1>2. r \in 0 .. b - 1
  BY Division DEF r
<1>3. c \in Int /\ c = b * q + r + 1
  BY <1>1, <1>2 DEF c
<1>4. CASE r + 1 = b
  <2>1. c = b * (q + 1) + 0 /\ q + 1 \in Int /\ 0 \in 0 .. b - 1
    BY <1>2, <1>3, <1>4
  <2>2. (c % b) = 0
    BY <1>3, <2>1, Remainder
  <2> QED
    BY <1>4, <2>2 DEF r, c
<1>5. CASE r + 1 # b
  <2>1. c = b * q + (r + 1) /\ r + 1 \in 0 .. b - 1
    BY <1>2, <1>3, <1>5
  <2>2. (c % b) = r + 1
    BY <1>3, <2>1, Remainder
  <2> QED
    BY <1>5, <2>2 DEF r, c
<1> QED
  BY <1>4, <1>5

\* Counting back by less than the divisor.
LEMMA BackRemainder ==
    ASSUME NEW a \in Int, NEW b \in Nat \ {0}, NEW i \in 0 .. b - 1
    PROVE  ((a - i) % b) = IF i <= (a % b) THEN (a % b) - i ELSE (a % b) - i + b
<1> DEFINE r == a % b
           c == a - i
<1> HIDE DEF r, c
<1>1. PICK q \in Int : a = b * q + r
  BY Division DEF r
<1>2. r \in 0 .. b - 1
  BY Division DEF r
<1>3. c \in Int /\ c = b * q + r - i
  BY <1>1, <1>2 DEF c
<1>4. CASE i <= r
  <2>1. c = b * q + (r - i) /\ r - i \in 0 .. b - 1
    BY <1>2, <1>3, <1>4
  <2>2. (c % b) = r - i
    BY <1>3, <2>1, Remainder
  <2> QED
    BY <1>4, <2>2 DEF r, c
<1>5. CASE ~(i <= r)
  <2>1. c = b * (q - 1) + (r - i + b) /\ q - 1 \in Int /\ r - i + b \in 0 .. b - 1
    BY <1>2, <1>3, <1>5
  <2>2. (c % b) = r - i + b
    BY <1>3, <2>1, Remainder
  <2> QED
    BY <1>5, <2>2 DEF r, c
<1> QED
  BY <1>4, <1>5

\* The remainder of a remainder by a multiple of the divisor.
LEMMA RemainderOfRemainder ==
    ASSUME NEW a \in Int, NEW b \in Nat \ {0}, NEW m \in Nat \ {0}, (m % b) = 0
    PROVE  ((a % m) % b) = (a % b)
<1> DEFINE r == a % b
           c == a % m
<1> HIDE DEF r, c
<1>1. PICK q \in Int : a = b * q + r
  BY Division DEF r
<1>2. PICK p \in Int : a = m * p + c
  BY Division DEF c
<1>3. PICK k \in Int : m = b * k
  BY Division
<1>4. r \in 0 .. b - 1 /\ c \in Int
  BY Division DEF r, c
<1>5. c = b * (q - k * p) + r /\ q - k * p \in Int
  <2>1. c = b * q + r - (b * k) * p
    BY <1>1, <1>2, <1>3, <1>4
  <2>2. (b * k) * p = b * (k * p) /\ k * p \in Int
    BY <1>2, <1>3
  <2>3. b * (q - k * p) = b * q - b * (k * p)
    BY <1>1, <2>2
  <2> QED
    BY <1>1, <1>4, <2>1, <2>2, <2>3
<1>6. (c % b) = r
  BY <1>4, <1>5, Remainder
<1> QED
  BY <1>6 DEF r, c

-----------------------------------------------------------------------------
(***************************************************************************)
(* The ring.                                                               *)
(***************************************************************************)
\* Where the next input goes.
Slot == last_index % TAP_NUM

\* How many inputs ago slot s was written, or would have been.
Age(s) == IF s < Slot THEN Slot - s ELSE Slot - s + TAP_NUM

\* Every slot holds the input of its age.  Stated of slots and not of taps it is
\* preserved by each input, which writes one slot and makes the others older.
FilterInv ==
    /\ history \in [Slots -> Nat]
    /\ last_index \in 0 .. UINT_RANGE - 1
    /\ inputs \in Nat
    /\ \A s \in Slots : history[s] = IF Age(s) <= inputs THEN inputs + 1 - Age(s) ELSE 0

\* The empty filter.
LEMMA FilterInit ==
    ASSUME FilterAssumption, Init
    PROVE  FilterInv
<1>1. TAP_NUM \in Nat \ {0} /\ UINT_RANGE \in Nat \ {0}
  BY DEF FilterAssumption
<1>2. history = [s \in Slots |-> 0] /\ last_index = 0 /\ inputs = 0
  BY DEF Init
<1>3. Slot \in 0 .. TAP_NUM - 1
  BY <1>1, <1>2, Division DEF Slot
<1>4. \A s \in Slots : Age(s) > 0 /\ Age(s) \in Int
  BY <1>1, <1>3 DEF Age, Slots
<1> QED
  BY <1>1, <1>2, <1>4 DEF FilterInv

\* The counter's remainder moves on by one slot, also when the counter wraps.
LEMMA NextSlot ==
    ASSUME FilterAssumption, last_index \in 0 .. UINT_RANGE - 1
    PROVE  /\ NextIndex(last_index) \in 0 .. UINT_RANGE - 1
           /\ NextIndex(last_index) % TAP_NUM = IF Slot + 1 = TAP_NUM THEN 0 ELSE Slot + 1
<1>1. TAP_NUM \in Nat \ {0} /\ UINT_RANGE \in Nat \ {0} /\ (UINT_RANGE % TAP_NUM) = 0
  BY DEF FilterAssumption
<1>2. last_index \in Int /\ last_index + 1 \in Int
  BY <1>1
<1>3. ((last_index + 1) % UINT_RANGE) \in 0 .. UINT_RANGE - 1
  BY <1>1, <1>2, Division
<1>4. (((last_index + 1) % UINT_RANGE) % TAP_NUM) = ((last_index + 1) % TAP_NUM)
  BY <1>1, <1>2, RemainderOfRemainder
<1>5. ((last_index + 1) % TAP_NUM) = IF Slot + 1 = TAP_NUM THEN 0 ELSE Slot + 1
  BY <1>1, <1>2, NextRemainder DEF Slot
<1> QED
  BY <1>3, <1>4, <1>5 DEF NextIndex

\* An input.
LEMMA FilterPut ==
    ASSUME FilterAssumption, FilterInv, Put
    PROVE  FilterInv'
<1>1. TAP_NUM \in Nat \ {0} /\ UINT_RANGE \in Nat \ {0}
  BY DEF FilterAssumption
<1>2. /\ history \in [Slots -> Nat] /\ last_index \in 0 .. UINT_RANGE - 1 /\ inputs \in Nat
      /\ \A s \in Slots : history[s] = IF Age(s) <= inputs THEN inputs + 1 - Age(s) ELSE 0
  BY DEF FilterInv
<1>3. /\ history' = [history EXCEPT ![Slot] = inputs + 1]
      /\ last_index' = NextIndex(last_index) /\ inputs' = inputs + 1
  BY DEF Put, Slot
<1>4. Slot \in 0 .. TAP_NUM - 1
  BY <1>1, <1>2, Division DEF Slot
<1>5. /\ last_index' \in 0 .. UINT_RANGE - 1
      /\ Slot' = IF Slot + 1 = TAP_NUM THEN 0 ELSE Slot + 1
  BY <1>2, <1>3, NextSlot DEF Slot
<1>6. history' \in [Slots -> Nat] /\ inputs' \in Nat
  <2>1. history \in [Slots -> Nat] /\ inputs \in Nat /\ inputs + 1 \in Nat
    BY <1>2
  <2> QED
    BY <1>3, <2>1
<1>7. ASSUME NEW s \in Slots
      PROVE  history'[s] = IF Age(s)' <= inputs' THEN inputs' + 1 - Age(s)' ELSE 0
  <2>1. s \in 0 .. TAP_NUM - 1
    BY DEF Slots
  <2>2. Age(s)' = IF s < Slot' THEN Slot' - s ELSE Slot' - s + TAP_NUM
    BY DEF Age
  <2>3. CASE s = Slot
    <3>1. Age(s)' = 1
      BY <1>1, <1>4, <1>5, <2>1, <2>2, <2>3
    <3>2. history'[s] = inputs + 1
      BY <1>2, <1>3, <2>3
    <3> QED
      BY <1>2, <1>3, <3>1, <3>2
  <2>4. CASE s # Slot
    <3>1. Age(s)' = Age(s) + 1 /\ Age(s) \in Int
      BY <1>1, <1>4, <1>5, <2>1, <2>2, <2>4 DEF Age
    <3>2. history'[s] = history[s]
      BY <1>2, <1>3, <2>4
    <3>3. history[s] = IF Age(s) <= inputs THEN inputs + 1 - Age(s) ELSE 0
      BY <1>2
    <3> QED
      BY <1>2, <1>3, <3>1, <3>2, <3>3
  <2> QED
    BY <2>3, <2>4
<1>8. Slots' = Slots
  BY DEF Slots
<1> QED
  BY <1>5, <1>6, <1>7, <1>8 DEF FilterInv

\* No input.
LEMMA FilterRest ==
    ASSUME FilterInv, UNCHANGED filterVars
    PROVE  FilterInv'
<1>1. history' = history /\ last_index' = last_index /\ inputs' = inputs
  BY DEF filterVars
<1> QED
  BY <1>1 DEF FilterInv, Age, Slot, Slots

\* The slot a tap reads.
LEMMA TapAge ==
    ASSUME FilterAssumption, FilterInv, NEW i \in 0 .. TAP_NUM - 1
    PROVE  LET age == IF i = 0 THEN TAP_NUM ELSE i IN
           Tap(i) = IF age <= inputs THEN inputs + 1 - age ELSE 0
<1> DEFINE age == IF i = 0 THEN TAP_NUM ELSE i
           s   == (last_index - i) % TAP_NUM
<1>1. TAP_NUM \in Nat \ {0} /\ UINT_RANGE \in Nat \ {0}
  BY DEF FilterAssumption
<1>2. /\ last_index \in Int
      /\ \A t \in Slots : history[t] = IF Age(t) <= inputs THEN inputs + 1 - Age(t) ELSE 0
  BY <1>1 DEF FilterInv
<1>3. Slot \in 0 .. TAP_NUM - 1
  BY <1>1, <1>2, Division DEF Slot
<1>4. s = IF i <= Slot THEN Slot - i ELSE Slot - i + TAP_NUM
  BY <1>1, <1>2, BackRemainder DEF Slot
<1>5. Tap(i) = history[s]
  BY DEF Tap
<1> HIDE DEF s
<1>6. s \in Slots
  BY <1>1, <1>3, <1>4 DEF Slots
<1>7. Age(s) = age
  BY <1>1, <1>3, <1>4 DEF Age
<1>8. history[s] = IF Age(s) <= inputs THEN inputs + 1 - Age(s) ELSE 0
  BY <1>2, <1>6
<1> QED
  BY <1>5, <1>7, <1>8

\* FirFilter's promise.
LEMMA FilterWeighs ==
    ASSUME FilterAssumption, FilterInv
    PROVE  WeighsLast
<1>1. TAP_NUM \in Nat \ {0}
  BY DEF FilterAssumption
<1>2. SUFFICES ASSUME NEW age \in 1 .. TAP_NUM
               PROVE  Tap(age % TAP_NUM) = IF age <= inputs THEN inputs + 1 - age ELSE 0
  BY DEF WeighsLast
<1>3. (age % TAP_NUM) = IF age = TAP_NUM THEN 0 ELSE age
  <2>1. CASE age = TAP_NUM
    <3>1. age = TAP_NUM * 1 + 0 /\ 0 \in 0 .. TAP_NUM - 1
      BY <1>1, <2>1
    <3> QED
      BY <1>1, <2>1, <3>1, Remainder
  <2>2. CASE age # TAP_NUM
    <3>1. age = TAP_NUM * 0 + age /\ age \in 0 .. TAP_NUM - 1
      BY <1>1, <2>2
    <3> QED
      BY <1>1, <2>2, <3>1, Remainder
  <2> QED
    BY <2>1, <2>2
<1> DEFINE i == IF age = TAP_NUM THEN 0 ELSE age
<1>4. i \in 0 .. TAP_NUM - 1 /\ age = IF i = 0 THEN TAP_NUM ELSE i
  BY <1>1
<1>5. (age % TAP_NUM) = i
  BY <1>3
<1> HIDE DEF i
<1>6. Tap(i) = IF age <= inputs THEN inputs + 1 - age ELSE 0
  BY <1>4, TapAge
<1> QED
  BY <1>5, <1>6

\* After TAP_NUM inputs no tap weighs a zero of the start.
LEMMA FilterFull ==
    ASSUME FilterAssumption, FilterInv, inputs >= TAP_NUM
    PROVE  \A i \in 0 .. TAP_NUM - 1 : Tap(i) > 0
<1>1. TAP_NUM \in Nat \ {0} /\ inputs \in Nat
  BY DEF FilterAssumption, FilterInv
<1>2. TAKE i \in 0 .. TAP_NUM - 1
<1> DEFINE age == IF i = 0 THEN TAP_NUM ELSE i
<1>3. Tap(i) = IF age <= inputs THEN inputs + 1 - age ELSE 0
  BY TapAge
<1>4. age \in 1 .. TAP_NUM
  BY <1>1
<1> HIDE DEF age
<1> QED
  BY <1>1, <1>3, <1>4

=============================================================================
