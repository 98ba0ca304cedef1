------------------------------- MODULE HeadCell -------------------------------
(***************************************************************************)
(* What WalWriter and WalSubscription may take the published head for: a   *)
(* cell that is written in one step, and of which a reader gets what it    *)
(* held when the reader looked, but for the fields it was late with. Those *)
(* are each from some offset that the cell has held or was about to hold   *)
(* since that look. A reader that is late with none has an atomic cell.    *)
(***************************************************************************)
CONSTANTS Readers, Offsets, InitialOffset

VARIABLES
  cell,     \* what the cell holds
  coming,   \* the offset whose store has begun, if any
  view,     \* view[r]: what the cell held when reader r last looked
  held,     \* held[r]: what it has held or was about to hold since
  late,     \* late[r]: the fields that r may have missed the look with
  answer    \* answer[r]: what the load of r has returned, if it has

vars == <<cell, coming, view, held, late, answer>>

Init ==
  /\ cell = InitialOffset
  /\ coming = {}
  /\ view = [r \in Readers |-> InitialOffset]
  /\ held = [r \in Readers |-> {InitialOffset}]
  /\ late = [r \in Readers |-> {}]
  /\ answer = [r \in Readers |-> {}]

(* A store begins: from now on it may show to those that are looking. *)
Begin(o) ==
  /\ coming = {}
  /\ coming' = {o}
  /\ held' = [r \in Readers |-> IF answer[r] = {} THEN held[r] \cup {o} ELSE held[r]]
  /\ UNCHANGED <<cell, view, late, answer>>

Store ==
  /\ coming = {cell'}
  /\ coming' = {}
  /\ UNCHANGED <<view, held, late, answer>>

(* A load looks at the cell; it may look again before it returns. *)
Look(r) ==
  /\ view' = [view EXCEPT ![r] = cell]
  /\ held' = [held EXCEPT ![r] = {cell} \cup coming]
  /\ late' = [late EXCEPT ![r] = {}]
  /\ answer' = [answer EXCEPT ![r] = {}]
  /\ UNCHANGED <<cell, coming>>

Miss(r, f) ==
  /\ answer[r] = {}
  /\ late' = [late EXCEPT ![r] = @ \cup {f}]
  /\ UNCHANGED <<cell, coming, view, held, answer>>

(* What one field is taken from. *)
Source(r, f) == IF f \in late[r] THEN held[r] ELSE {view[r]}

Return(r) ==
  /\ answer[r] = {}
  /\ \E s \in Source(r, "segment_id"), b \in Source(r, "byte_offset") :
       answer' = [answer EXCEPT ![r] =
                   {[segment_id |-> s.segment_id, byte_offset |-> b.byte_offset]}]
  /\ UNCHANGED <<cell, coming, view, held, late>>

Next ==
  \/ Store
  \/ \E o \in Offsets : Begin(o)
  \/ \E r \in Readers :
       Look(r) \/ Return(r) \/ \E f \in {"segment_id", "byte_offset"} : Miss(r, f)

Spec == Init /\ [][Next]_vars
=============================================================================
