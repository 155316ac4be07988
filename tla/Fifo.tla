---------------------------------- MODULE Fifo ----------------------------------
(***************************************************************************)
(* What the threads of scrcpy expect of the queues they share              *)
(* (app/src/util/vecdeque.h): the items come out in the order they went    *)
(* in, none is lost, and what fails changes nothing.                       *)
(***************************************************************************)
EXTENDS Naturals, Sequences

CONSTANTS Items

VARIABLES
  contents,  \* the items, the oldest first
  popped     \* the last item that came out, in a sequence of at most one

fifoVars == <<contents, popped>>

Init == contents = <<>> /\ popped = <<>>

Push(item) == contents' = Append(contents, item) /\ UNCHANGED popped

Pop ==
  /\ contents # <<>>
  /\ popped' = <<Head(contents)>> /\ contents' = Tail(contents)

Clear == contents' = <<>> /\ UNCHANGED popped

Next == (\E item \in Items : Push(item)) \/ Pop \/ Clear

Spec == Init /\ [][Next]_fifoVars
=============================================================================
