----------------------------- MODULE PointerMap -----------------------------
(***************************************************************************)
(* What mysock_hash.h promises, "an ugly approximation to std::map": a     *)
(* function from keys to pointers that changes for one key at a time, from *)
(* NULL to an entry by an insertion and back by a deletion.                *)
(***************************************************************************)
CONSTANTS Keys, Data, NULL
VARIABLE map

Init == map = [key \in Keys |-> NULL]

Insert(key, data) == map[key] = NULL /\ map' = [map EXCEPT ![key] = data]

Delete(key) == map[key] # NULL /\ map' = [map EXCEPT ![key] = NULL]

Next == \E key \in Keys : Delete(key) \/ \E data \in Data : Insert(key, data)

Spec == Init /\ [][Next]_map
=============================================================================
