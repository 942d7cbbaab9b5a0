----------------------------- MODULE InodeStore -----------------------------
(***************************************************************************)
(* What the commands rely on when they use inodes through iget and iput:   *)
(* one current value of each inode (val) that all of them see, and the     *)
(* value a crash would leave (stable).  A value is lost only by a crash,   *)
(* or when nobody marked it dirty.                                         *)
(***************************************************************************)
CONSTANTS Inos, Vals

VARIABLES val, stable, marked

vars == <<val, stable, marked>>

Init ==
  /\ stable \in [Inos -> Vals]
  /\ val = stable
  /\ marked = {}

(* A change with dirty = 1, and a change without. *)
Write(i, v) ==
  /\ val' = [val EXCEPT ![i] = v]
  /\ marked' = marked \cup {i}
  /\ UNCHANGED stable

Touch(i, v) ==
  /\ val' = [val EXCEPT ![i] = v]
  /\ UNCHANGED <<stable, marked>>

(* The last user leaves. *)
Save(i) ==
  /\ i \in marked
  /\ stable' = [stable EXCEPT ![i] = val[i]]
  /\ marked' = marked \ {i}
  /\ UNCHANGED val

Drop(i) ==
  /\ i \notin marked
  /\ val' = [val EXCEPT ![i] = stable[i]]
  /\ UNCHANGED <<stable, marked>>

Crash ==
  /\ val' = stable
  /\ marked' = {}
  /\ UNCHANGED stable

Next ==
  \/ \E i \in Inos, v \in Vals : Write(i, v) \/ Touch(i, v)
  \/ \E i \in Inos : Save(i) \/ Drop(i)
  \/ Crash

Spec == Init /\ [][Next]_vars

=============================================================================
