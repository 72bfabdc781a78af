-------------------------------- MODULE Fifo --------------------------------
(***************************************************************************)
(* What a queue between two threads promises: items leave it in the order  *)
(* they entered, each of them once, unless the queue is cleared.           *)
(***************************************************************************)
EXTENDS Sequences

CONSTANT Items

VARIABLES
    contents,   \* items pushed and not popped yet, oldest first
    popped      \* what the last pop returned

Push(item) ==
    /\ contents' = Append(contents, item)
    /\ UNCHANGED popped

Pop ==
    /\ contents # <<>>
    /\ popped' = Head(contents)
    /\ contents' = Tail(contents)

Clear ==
    /\ contents' = <<>>
    /\ UNCHANGED popped

Init == contents = <<>>

Next == (\E item \in Items : Push(item)) \/ Pop \/ Clear

Spec == Init /\ [][Next]_<<contents, popped>>

=============================================================================
