--------------------------- MODULE AbstractAlloc ---------------------------
(***************************************************************************)
(* What the callers of ialloc and balloc (mymkdir, my_creat, enter_name)   *)
(* and of idealloc and bdealloc (remove_dir, truncate) rely on: a pool of  *)
(* free numbers.  An allocation hands out a free number, whichever, and    *)
(* fails with 0 only when there is none; a release makes exactly the       *)
(* released number free again.                                             *)
(***************************************************************************)
EXTENDS Integers

CONSTANTS NBits, Held, Reserved

NoAnswer == -1

VARIABLES free, given, ret

vars == <<free, given, ret>>

Init ==
  /\ free = 1..NBits \ (Held \cup Reserved)
  /\ given = Held
  /\ ret = NoAnswer

Alloc ==
  \E n \in free :
    /\ free' = free \ {n}
    /\ given' = given \cup {n}
    /\ ret' = n

Fail ==
  /\ free = {}
  /\ ret' = 0
  /\ UNCHANGED <<free, given>>

Release ==
  \E n \in given :
    /\ free' = free \cup {n}
    /\ given' = given \ {n}
    /\ UNCHANGED ret

(* The caller is killed: it forgets the answer, nobody loses a number. *)
Forget ==
  /\ ret' = NoAnswer
  /\ UNCHANGED <<free, given>>

Next == Alloc \/ Fail \/ Release \/ Forget

Spec == Init /\ [][Next]_vars

=============================================================================
