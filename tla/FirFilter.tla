----------------------------- MODULE FirFilter -----------------------------
(***************************************************************************)
(* A filter of Software/Triggering/filters: the last TAP_NUM inputs in a   *)
(* ring addressed by an unsigned counter that is masked and never reset.   *)
(* AntialiasDownsamplingFilter and LowPassFilter are the same code with    *)
(* different constants.  An input is abstracted to its number, an output   *)
(* to the input each tap weighs; 0 is the zero the history starts with.    *)
(***************************************************************************)
EXTENDS Integers

CONSTANTS
    TAP_NUM,        \* taps, and slots of the history (128 and 64)
    UINT_RANGE      \* values of an unsigned int (2^32)

\* The mask is the remainder by a power of two, which divides the range.
FilterAssumption ==
    /\ TAP_NUM \in Nat \ {0}
    /\ UINT_RANGE \in Nat \ {0} /\ UINT_RANGE % TAP_NUM = 0

VARIABLES
    history,        \* slot -> input
    last_index,
    inputs          \* history: inputs so far

filterVars == <<history, last_index, inputs>>

Slots == 0 .. TAP_NUM - 1

Init ==
    /\ history = [s \in Slots |-> 0]
    /\ last_index = 0
    /\ inputs = 0

\* Mutant: the counter starts again at the end of the ring, one slot late.
MNextIndex(index) == IF index = TAP_NUM THEN 0 ELSE index + 1

\* last_index++
NextIndex(index) == (index + 1) % UINT_RANGE

Put ==
    /\ history' = [history EXCEPT ![last_index % TAP_NUM] = inputs + 1]
    /\ last_index' = NextIndex(last_index)
    /\ inputs' = inputs + 1

\* The input tap i weighs: history[(index--) & mask], from index = last_index.
\* As an int, index may be or become negative; the mask of its two's complement
\* is still the remainder.  Below INT_MIN the decrement is undefined in C: only
\* the low bits are used, and those are the same whether the build wraps index
\* around or computes it in a wider register.
Tap(i) == history[(last_index - i) % TAP_NUM]

(***************************************************************************)
(* Each of the last TAP_NUM inputs is weighed by exactly one tap, always   *)
(* the same by age, also when last_index wraps around: the newest by tap   *)
(* 1, the one before by tap 2, the oldest by tap 0.                        *)
(***************************************************************************)
WeighsLast ==
    \A age \in 1 .. TAP_NUM :
        Tap(age % TAP_NUM) = IF age <= inputs THEN inputs + 1 - age ELSE 0

=============================================================================
