------------------------------- MODULE Delivery -------------------------------
(***************************************************************************)
(* What a paged download promises its caller, without pages, limits or     *)
(* requests.  The caller is handed items of the range it asked for, none   *)
(* before it is there to be handed over, in order, and at no moment with a *)
(* gap: of what it is owed, nothing earlier is missing from what it has.   *)
(* A download that ends normally has handed over all that is owed by then; *)
(* one that fails ends with what it has.                                   *)
(***************************************************************************)
EXTENDS Integers

CONSTANT Descending   \* do the items come newest first?

VARIABLES offered,    \* the items of the range, more of them in time
          owed,       \* those that must not be missed, more of them in time
          delivered,  \* what the caller has
          status      \* running, complete or failed

vars == <<offered, owed, delivered, status>>

Before(c, d) == IF Descending THEN d < c ELSE c < d

Init == /\ delivered = {}
        /\ status \in {"running", "complete"}
        /\ status = "complete" => owed = {}

InOrder(new) == \A c \in delivered, d \in new : Before(c, d)

NoGap(new) ==
  \A c \in owed, d \in new : Before(c, d) => c \in delivered \union new

Deliver == /\ delivered \subseteq delivered'
           /\ LET new == delivered' \ delivered
              IN  new \subseteq offered' /\ InOrder(new) /\ NoGap(new)

Next == /\ status = "running"
        /\ status' \in {"running", "complete", "failed"}
        /\ Deliver
        /\ status' = "complete" => owed' \subseteq delivered'
        /\ offered \subseteq offered' /\ owed \subseteq owed'

Spec == Init /\ [][Next]_vars
===============================================================================
