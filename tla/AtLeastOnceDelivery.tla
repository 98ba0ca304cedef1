------------------------- MODULE AtLeastOnceDelivery -------------------------
(***************************************************************************)
(* What flush promises of the entries 1..Last of the log, whatever the     *)
(* database answers and however often the process stops: an entry is       *)
(* passed only once the database has it, and the database is sent none     *)
(* that lies more than a window beyond what has been passed. Entries may   *)
(* arrive in any order in the window, and more than once.                  *)
(***************************************************************************)
EXTENDS Naturals

CONSTANTS Last, Window

VARIABLES
  passed,     \* the entries 1..passed are not sent again
  delivered   \* the entries the database has

vars == <<passed, delivered>>

Init == passed = 0 /\ delivered = {}

Deliver(E) ==
  /\ \A i \in E : passed < i /\ i <= passed + Window
  /\ delivered' = delivered \cup E
  /\ UNCHANGED passed

Pass(n) ==
  /\ passed < n
  /\ \A i \in 1..n : passed < i => i \in delivered
  /\ passed' = n
  /\ UNCHANGED delivered

Next == \/ \E E \in SUBSET (1..Last) : Deliver(E)
        \/ \E n \in 1..Last : Pass(n)

Spec == Init /\ [][Next]_vars
=============================================================================
