-------------------------------- MODULE VecDeque --------------------------------
(***************************************************************************)
(* The ring buffer under every queue of the program                        *)
(* (app/src/util/vecdeque.h): a growable array whose first item may be     *)
(* anywhere, so that the items may wrap around its end.  It grows when it  *)
(* is full, or reserved, unless memory runs out.                           *)
(***************************************************************************)
EXTENDS Naturals, Sequences

CONSTANTS
  Items,
  Junk,     \* what uninitialised memory holds
  MinCap,   \* SC_VECDEQUE_MINCAP_
  MaxCap    \* sc_vecdeque_max_cap_()

ASSUME VecDequeAssumption == MinCap \in Nat /\ MaxCap \in Nat /\ 2 <= MinCap /\ MinCap <= MaxCap

VARIABLES
  cap, origin, size,
  data,    \* the array: a function on 0..(cap - 1)
  last     \* the item popped last, in a sequence of at most one

dequeVars == <<cap, origin, size, data, last>>

Init == cap = 0 /\ origin = 0 /\ size = 0 /\ data = [i \in {} |-> Junk] /\ last = <<>>

-----------------------------------------------------------------------------
(* The capacity.                                                           *)

IsFull == size = cap

\* sc_vecdeque_growsize_()
GrowSize(value) == value + (value \div 2)

Clamp(value, low, high) == IF value < low THEN low ELSE IF value > high THEN high ELSE value

\* The items copied as they stand, wrapped or not.
ReallocUnwrapped(newcap) ==
  [cap |-> newcap, origin |-> origin,
   data |-> [i \in 0..(newcap - 1) |-> IF i < cap THEN data[i] ELSE Junk]]

\* sc_vecdeque_reallocdata_(): the items stay in place, or are copied to the start of the new
\* array if they wrap around.
Realloc(newcap) ==
  IF origin + size <= cap
  THEN [cap |-> newcap, origin |-> origin,
        data |-> [i \in 0..(newcap - 1) |-> IF i < cap THEN data[i] ELSE Junk]]
  ELSE [cap |-> newcap, origin |-> 0,
        data |-> [i \in 0..(newcap - 1) |->
                    IF i < cap - origin THEN data[origin + i]
                    ELSE IF i < size THEN data[i - (cap - origin)] ELSE Junk]]

\* sc_vecdeque_reserve(): nothing to do, too much, no memory, or a larger array.
Reserve(mincap) ==
  LET wanted == IF mincap < MinCap THEN MinCap ELSE mincap
      new == Realloc(Clamp(GrowSize(cap), wanted, MaxCap))
  IN /\ cap < wanted /\ wanted <= MaxCap
     /\ cap' = new.cap /\ origin' = new.origin /\ data' = new.data
     /\ UNCHANGED <<size, last>>

\* sc_vecdeque_grow_if_needed_(): only a full array grows.
Grown ==
  IF IsFull THEN Realloc(Clamp(GrowSize(cap), MinCap, MaxCap))
  ELSE [cap |-> cap, origin |-> origin, data |-> data]

-----------------------------------------------------------------------------
(* The items.                                                              *)

\* sc_vecdeque_push(), unless it fails, which changes nothing.
Push(item) ==
  /\ ~IsFull \/ cap < MaxCap
  /\ cap' = Grown.cap /\ origin' = Grown.origin
  /\ data' = [Grown.data EXCEPT ![(Grown.origin + size) % Grown.cap] = item]
  /\ size' = size + 1
  /\ UNCHANGED last

\* sc_vecdeque_popref()
Pop ==
  /\ size > 0
  /\ last' = <<data[origin]>>
  /\ origin' = (origin + 1) % cap /\ size' = size - 1
  /\ UNCHANGED <<cap, data>>

\* sc_vecdeque_clear()
Clear == cap' = 0 /\ origin' = 0 /\ size' = 0 /\ data' = [i \in {} |-> Junk] /\ UNCHANGED last

Next ==
  \/ \E item \in Items : Push(item)
  \/ Pop \/ Clear
  \/ \E mincap \in 0..MaxCap : Reserve(mincap)

Spec == Init /\ [][Next]_dequeVars

-----------------------------------------------------------------------------
\* The items, the oldest first.
Contents == [i \in 1..size |-> data[(origin + i - 1) % cap]]

F == INSTANCE Fifo WITH contents <- Contents, popped <- last

\* However the items wrap around when the array grows, the queue is first in, first out, and a
\* growth, or its failure, shows nowhere.
ImplementsFifo == F!Spec
=============================================================================
