----------------------------- MODULE HashTable -----------------------------
(***************************************************************************)
(* The hash table macros of mysock_hash.h, as operators on a table: a      *)
(* function from the buckets to chains of entries.  New entries go to the  *)
(* front of their chain.                                                   *)
(***************************************************************************)
EXTENDS Naturals, Sequences

CONSTANTS
  TableSize,  \* number of buckets
  Keys,       \* keytype, numbers
  Data,       \* datatype, pointers
  NULL

ASSUME TableAssumption ==
  TableSize \in Nat \ {0} /\ Keys \subseteq Nat /\ NULL \notin Data

Buckets == 0 .. TableSize - 1
Entry == [key : Keys, data : Data]
Table == [Buckets -> Seq(Entry)]
EmptyTable == [b \in Buckets |-> << >>]

\* HASH_DEFAULT_HASH_FN
HashFn(key) == key % TableSize

\* The places in a chain at which the key is found.
Places(chain, key) == {i \in DOMAIN chain : chain[i].key = key}

\* Where the walk along the chain ends.
First(chain, key) ==
  CHOOSE i \in Places(chain, key) : \A j \in Places(chain, key) : i <= j

HashEntryExists(tbl, key) == Places(tbl[HashFn(key)], key) # {}

HashLookupPtr(tbl, key) ==
  LET chain == tbl[HashFn(key)]
  IN IF HashEntryExists(tbl, key) THEN chain[First(chain, key)].data ELSE NULL

\* Mutant: the fields are filled in the wrong order.
HashInsert_Swapped(tbl, key, data) ==
  [tbl EXCEPT ![HashFn(key)] = << [key |-> data, data |-> key] >> \o @]

\* Insertion does not check for duplicates.
HashInsert(tbl, key, data) ==
  [tbl EXCEPT ![HashFn(key)] = << [key |-> key, data |-> data] >> \o @]

HashSetEntry(tbl, key, data) ==
  IF HashEntryExists(tbl, key)
  THEN [tbl EXCEPT ![HashFn(key)][First(tbl[HashFn(key)], key)].data = data]
  ELSE HashInsert(tbl, key, data)

\* Mutant: the rest of the chain is lost with the entry.
Unlinked_Rest(chain, i) == SubSeq(chain, 1, i - 1)

\* The chain without its i-th entry.
Unlinked(chain, i) ==
  [j \in 1 .. Len(chain) - 1 |-> IF j < i THEN chain[j] ELSE chain[j + 1]]

\* The first match leaves the chain.
HashDelete(tbl, key) ==
  IF HashEntryExists(tbl, key)
  THEN [tbl EXCEPT ![HashFn(key)] = Unlinked(@, First(@, key))]
  ELSE tbl

----------------------------------------------------------------------------
\* Every entry is in the bucket of its key, and no key has two entries: the
\* callers' side of the contract, on which lookups and deletions depend.
WellFormed(tbl) ==
  \A b \in Buckets : \A i \in DOMAIN tbl[b] :
    /\ HashFn(tbl[b][i].key) = b
    /\ \A j \in DOMAIN tbl[b] : tbl[b][j].key = tbl[b][i].key => j = i

\* What a table means to its users: a function, NULL where there is no entry.
MapOf(tbl) == [key \in Keys |-> HashLookupPtr(tbl, key)]
============================================================================
