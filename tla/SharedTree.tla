----------------------------- MODULE SharedTree -----------------------------
(***************************************************************************)
(* What the replicated tree promises to the code that uses it, with no log *)
(* order, no undo and no redo: there is a growing set of published         *)
(* operations, a replica takes them in one at a time in any order, and     *)
(* whenever it can be read it shows the one value that the SET of the      *)
(* operations it has taken in determines.                                  *)
(*                                                                         *)
(* Value is the meaning of a set of operations.  That it is an operator of *)
(* the set, and of nothing else, is the promise: no replica, no order of   *)
(* arrival and no repetition can enter it.                                 *)
(***************************************************************************)
CONSTANTS Replica,    \* who holds a copy
          Operation,  \* what can be published; each has the time stamp ts
          Before(_, _), \* the order of the time stamps
          Value(_),   \* the value that a set of operations stands for
          Hidden      \* shown while a replica is exclusively borrowed

VARIABLES published,  \* every operation published so far
          taken,      \* taken[r]: the operations replica r has taken in
          shown       \* shown[r]: the value replica r shows, or Hidden

Init ==
    /\ published = {}
    /\ taken = [r \in Replica |-> {}]
    /\ shown = [r \in Replica |-> Value({})]

\* r publishes an operation that is later than all it has taken in, under a time
\* stamp that no other operation has, and starts to take it in.
Publish(r, op) ==
    /\ op.ts.replica = r
    /\ \A o \in published : o.ts # op.ts
    /\ \A o \in taken[r] : Before(o.ts, op.ts)
    /\ published' = published \cup {op}
    /\ shown[r] # Hidden
    /\ shown' = [shown EXCEPT ![r] = Hidden]
    /\ UNCHANGED taken

\* r starts to take in an operation of another replica.
Borrow(r) ==
    /\ shown[r] # Hidden
    /\ shown' = [shown EXCEPT ![r] = Hidden]
    /\ UNCHANGED <<published, taken>>

\* r has taken in a published operation it did not have.
Take(r, op) ==
    /\ shown[r] = Hidden
    /\ taken' = [taken EXCEPT ![r] = @ \cup {op}]
    /\ shown' = [shown EXCEPT ![r] = Value(taken[r] \cup {op})]
    /\ UNCHANGED published

Next ==
    \E r \in Replica :
        \/ \E op \in Operation : Publish(r, op)
        \/ Borrow(r)
        \/ \E op \in published \ taken[r] : Take(r, op)

Spec == Init /\ [][Next]_<<published, taken, shown>>
=============================================================================
