---------------------------- MODULE EditsPromise ----------------------------
(***************************************************************************)
(* What the co-editing log promises, without sockets, keys or compaction:  *)
(* an edit is pending from the moment it is made until it is durable, and  *)
(* durable for ever after.                                                 *)
(***************************************************************************)
VARIABLES
    pending,   \* edits their author's channel is responsible for
    durable    \* edits the log carries

pvars == <<pending, durable>>

PInit == pending = {} /\ durable = {}

MakeEdit ==
    /\ \E e \in pending' : e \notin pending \cup durable /\ pending' = pending \cup {e}
    /\ UNCHANGED durable

Persist ==
    \E e \in pending : pending' = pending \ {e} /\ durable' = durable \cup {e}

PNext == MakeEdit \/ Persist

PSpec == PInit /\ [][PNext]_pvars
=============================================================================
