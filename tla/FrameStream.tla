---------------------------- MODULE FrameStream ----------------------------
(***************************************************************************)
(* What /dev/opq0 promises to the process that reads it: a lossy first-in  *)
(* first-out stream of mains frames.  Frames are numbered in the order in  *)
(* which the DSP sent them.  At most Window frames are kept; when one more *)
(* arrives the oldest is dropped, never the newest.  A read takes the      *)
(* oldest frame that is kept and always leaves at least one behind it.     *)
(* Frame 0 is the slot the ring starts with, before any frame arrived.     *)
(***************************************************************************)
EXTENDS Integers

CONSTANT
    Window      \* how many frames are kept at most

VARIABLES
    newest,     \* number of the newest frame kept
    oldest,     \* number of the oldest frame kept
    taken       \* number of the frame the last read returned, or -1

streamVars == <<newest, oldest, taken>>

TypeOK ==
    /\ newest \in Nat
    /\ oldest \in Nat
    /\ taken \in Nat \cup {-1}

Init ==
    /\ newest = 0
    /\ oldest = 0
    /\ taken = -1

\* A frame arrives; the oldest one makes room when the window is full.
Arrive ==
    /\ newest' = newest + 1
    /\ oldest' = IF newest + 1 - oldest >= Window THEN oldest + 1 ELSE oldest
    /\ UNCHANGED taken

\* A read returns the oldest frame.
Take ==
    /\ oldest < newest
    /\ taken' = oldest
    /\ oldest' = oldest + 1
    /\ UNCHANGED newest

\* The driver is loaded anew.
Restart ==
    /\ newest' = 0
    /\ oldest' = 0
    /\ taken' = -1

Next == Arrive \/ Take \/ Restart

Spec == Init /\ [][Next]_streamVars

=============================================================================
