----------------------------- MODULE Accumulator -----------------------------
(***************************************************************************)
(* What the accumulator actor promises its callers, without the Merkle    *)
(* Mountain Range: an append-only list of objects.  A push either appends *)
(* its object and returns the index it now has, or fails and changes       *)
(* nothing; get returns the object at an index, or None past the end.     *)
(* Module MMR implements this specification (see MMRAccumulator).         *)
(***************************************************************************)
EXTENDS Naturals, Sequences

CONSTANTS
    Values,      \* the objects that can be pushed
    MaxLeaves,   \* bound on the number of successful pushes
    None         \* Option::None

VARIABLES
    list,    \* the objects pushed so far, in push order
    result   \* what the last push returned: its status and index

vars == <<list, result>>

Init ==
    /\ list = <<>>
    /\ result = [status |-> "none", index |-> 0]

\* A push of v appends it and returns its position.
Push(v) ==
    /\ Len(list) < MaxLeaves
    /\ list' = Append(list, v)
    /\ result' = [status |-> "ok", index |-> Len(list)]

\* A failed push leaves the list as it was.
Fail ==
    /\ result' = [status |-> "err", index |-> 0]
    /\ UNCHANGED list

Next == (\E v \in Values : Push(v)) \/ Fail

Spec == Init /\ [][Next]_vars

\* get at index i.
Get(i) == IF i < Len(list) THEN list[i + 1] ELSE None

=============================================================================
