--------------------------- MODULE HashTableProofs ---------------------------
(***************************************************************************)
(* Proofs about the hash table (HashTable), for every number of buckets    *)
(* and all keys: the operations of mysock_hash.h are those of a map as     *)
(* long as no key has two entries.                                         *)
(***************************************************************************)
EXTENDS HashTable, SequenceTheorems, TLAPS

\* Every key has a bucket.
LEMMA HashFnType ==
  ASSUME NEW key \in Keys
  PROVE  HashFn(key) \in Buckets
BY TableAssumption DEF HashFn, Buckets

\* An entry of a table has a key and data.
LEMMA EntryType ==
  ASSUME NEW tbl \in Table, NEW b \in Buckets, NEW i \in DOMAIN tbl[b]
  PROVE  /\ tbl[b] \in Seq(Entry) /\ i \in Nat
         /\ tbl[b][i].key \in Keys /\ tbl[b][i].data \in Data
<1>1. tbl[b] \in Seq(Entry)
  BY DEF Table
<1>2. i \in 1 .. Len(tbl[b]) /\ Len(tbl[b]) \in Nat
  BY <1>1
<1>3. tbl[b][i] \in Entry
  BY <1>1, <1>2
<1> QED BY <1>1, <1>2, <1>3 DEF Entry

\* A lookup finds the entry of the key, wherever it is in its chain.
LEMMA LookupFound ==
  ASSUME NEW tbl \in Table, WellFormed(tbl), NEW key \in Keys,
         NEW i \in DOMAIN tbl[HashFn(key)],
         tbl[HashFn(key)][i].key = key
  PROVE  /\ First(tbl[HashFn(key)], key) = i
         /\ HashEntryExists(tbl, key)
         /\ HashLookupPtr(tbl, key) = tbl[HashFn(key)][i].data
<1> DEFINE chain == tbl[HashFn(key)]
<1>1. HashFn(key) \in Buckets /\ i \in Nat
  BY HashFnType, EntryType
<1>2. i \in Places(chain, key)
  BY DEF Places
<1>3. \A j \in Places(chain, key) : j = i
  BY <1>1 DEF Places, WellFormed
<1>4. First(chain, key) = i
  <2>1. \A j \in Places(chain, key) : i <= j
    BY <1>1, <1>3
  <2>2. First(chain, key) \in Places(chain, key)
    BY <1>2, <2>1, Zenon DEF First
  <2> QED BY <1>3, <2>2
<1>5. HashEntryExists(tbl, key)
  BY <1>2 DEF HashEntryExists
<1> QED BY <1>4, <1>5 DEF HashLookupPtr

\* A lookup finds nothing if the key is not in its chain.
LEMMA LookupNone ==
  ASSUME NEW tbl, NEW key,
         \A i \in DOMAIN tbl[HashFn(key)] : tbl[HashFn(key)][i].key # key
  PROVE  ~HashEntryExists(tbl, key) /\ HashLookupPtr(tbl, key) = NULL
BY DEF HashEntryExists, Places, HashLookupPtr

\* A lookup finds NULL exactly if there is no entry.
LEMMA LookupNull ==
  ASSUME NEW tbl \in Table, WellFormed(tbl), NEW key \in Keys
  PROVE  /\ HashLookupPtr(tbl, key) \in Data \cup {NULL}
         /\ HashEntryExists(tbl, key) <=> HashLookupPtr(tbl, key) # NULL
         /\ HashEntryExists(tbl, key) <=>
              \E i \in DOMAIN tbl[HashFn(key)] : tbl[HashFn(key)][i].key = key
<1>1. CASE \E i \in DOMAIN tbl[HashFn(key)] : tbl[HashFn(key)][i].key = key
  <2>1. PICK i \in DOMAIN tbl[HashFn(key)] : tbl[HashFn(key)][i].key = key
    BY <1>1
  <2>2. HashEntryExists(tbl, key)
        /\ HashLookupPtr(tbl, key) = tbl[HashFn(key)][i].data
    BY <2>1, LookupFound
  <2>3. tbl[HashFn(key)][i].data \in Data
    BY HashFnType, EntryType
  <2> QED BY <1>1, <2>2, <2>3, TableAssumption
<1>2. CASE ~\E i \in DOMAIN tbl[HashFn(key)] : tbl[HashFn(key)][i].key = key
  BY <1>2, LookupNone
<1> QED BY <1>1, <1>2

\* A lookup depends on one chain.
LEMMA OtherChain ==
  ASSUME NEW tbl, NEW tbl2, NEW key, tbl2[HashFn(key)] = tbl[HashFn(key)]
  PROVE  HashLookupPtr(tbl2, key) = HashLookupPtr(tbl, key)
BY DEF HashLookupPtr, HashEntryExists

\* HASH_INSERT() of a key that has no entry adds it to the map.
LEMMA InsertIsUpdate ==
  ASSUME NEW tbl \in Table, WellFormed(tbl), NEW key \in Keys,
         NEW data \in Data, ~HashEntryExists(tbl, key)
  PROVE  /\ HashInsert(tbl, key, data) \in Table
         /\ WellFormed(HashInsert(tbl, key, data))
         /\ MapOf(HashInsert(tbl, key, data))
              = [MapOf(tbl) EXCEPT ![key] = data]
<1> DEFINE h == HashFn(key)
           new == HashInsert(tbl, key, data)
           e == [key |-> key, data |-> data]
<1>1. h \in Buckets /\ e \in Entry /\ tbl[h] \in Seq(Entry)
  BY HashFnType DEF Table, Entry
<1>2. new \in Table /\ new[h] = << e >> \o tbl[h]
      /\ \A b \in Buckets : b # h => new[b] = tbl[b]
  BY <1>1 DEF HashInsert, Table
<1>3. /\ Len(tbl[h]) \in Nat /\ DOMAIN tbl[h] = 1 .. Len(tbl[h])
      /\ DOMAIN new[h] = 1 .. Len(tbl[h]) + 1 /\ new[h][1] = e
      /\ \A i \in 1 .. Len(tbl[h]) : new[h][i + 1] = tbl[h][i]
  BY <1>1, <1>2
<1>4. \A i \in DOMAIN new[h] :
        i = 1 \/ (i - 1 \in DOMAIN tbl[h] /\ new[h][i] = tbl[h][i - 1])
  BY <1>3
<1>5. \A i \in DOMAIN tbl[h] : tbl[h][i].key # key
  BY LookupNull
<1> HIDE DEF new
<1>6. WellFormed(new)
  <2> SUFFICES ASSUME NEW b \in Buckets, NEW i \in DOMAIN new[b]
               PROVE  /\ HashFn(new[b][i].key) = b
                      /\ \A j \in DOMAIN new[b] :
                           new[b][j].key = new[b][i].key => j = i
    BY DEF WellFormed
  <2>1. CASE b # h
    BY <1>2, <2>1 DEF WellFormed
  <2>2. CASE b = h
    <3>1. HashFn(new[h][i].key) = h
      <4>1. CASE i = 1
        BY <1>3, <4>1
      <4>2. CASE i - 1 \in DOMAIN tbl[h] /\ new[h][i] = tbl[h][i - 1]
        BY <1>1, <4>2 DEF WellFormed
      <4> QED BY <1>4, <2>2, <4>1, <4>2
    <3>2. ASSUME NEW j \in DOMAIN new[h], new[h][j].key = new[h][i].key
          PROVE  j = i
      <4>1. CASE i = 1 /\ j = 1
        BY <4>1
      <4>2. CASE i = 1 /\ j - 1 \in DOMAIN tbl[h] /\ new[h][j] = tbl[h][j - 1]
        BY <1>3, <1>5, <3>2, <4>2
      <4>3. CASE j = 1 /\ i - 1 \in DOMAIN tbl[h] /\ new[h][i] = tbl[h][i - 1]
        BY <1>3, <1>5, <3>2, <4>3
      <4>4. CASE /\ i - 1 \in DOMAIN tbl[h] /\ new[h][i] = tbl[h][i - 1]
                 /\ j - 1 \in DOMAIN tbl[h] /\ new[h][j] = tbl[h][j - 1]
        <5>1. j - 1 = i - 1
          BY <1>1, <3>2, <4>4 DEF WellFormed
        <5> QED BY <1>3, <2>2, <5>1
      <4> QED BY <1>4, <2>2, <4>1, <4>2, <4>3, <4>4
    <3> QED BY <2>2, <3>1, <3>2
  <2> QED BY <2>1, <2>2
<1>7. ASSUME NEW k2 \in Keys
      PROVE  HashLookupPtr(new, k2)
               = IF k2 = key THEN data ELSE HashLookupPtr(tbl, k2)
  <2>1. HashFn(k2) \in Buckets
    BY HashFnType
  <2>2. CASE k2 = key
    <3>1. 1 \in DOMAIN new[h] /\ new[h][1].key = key /\ new[h][1].data = data
      BY <1>3
    <3> QED BY <1>2, <1>6, <2>2, <3>1, LookupFound
  <2>3. CASE HashFn(k2) # h
    BY <1>2, <2>1, <2>3, OtherChain
  <2>4. CASE k2 # key /\ HashFn(k2) = h
    <3>1. CASE \E i \in DOMAIN tbl[h] : tbl[h][i].key = k2
      <4>1. PICK i \in DOMAIN tbl[h] : tbl[h][i].key = k2
        BY <3>1
      <4>2. i + 1 \in DOMAIN new[h] /\ new[h][i + 1] = tbl[h][i]
        BY <1>3
      <4>3. HashLookupPtr(tbl, k2) = tbl[h][i].data
        BY <2>4, <4>1, LookupFound
      <4>4. HashLookupPtr(new, k2) = new[h][i + 1].data
        BY <1>2, <1>6, <2>4, <4>1, <4>2, LookupFound
      <4> QED BY <2>4, <4>2, <4>3, <4>4
    <3>2. CASE \A i \in DOMAIN tbl[h] : tbl[h][i].key # k2
      <4>1. \A i \in DOMAIN new[h] : new[h][i].key # k2
        <5> SUFFICES ASSUME NEW i \in DOMAIN new[h] PROVE new[h][i].key # k2
          OBVIOUS
        <5>1. CASE i = 1
          BY <1>3, <2>4, <5>1
        <5>2. CASE i - 1 \in DOMAIN tbl[h] /\ new[h][i] = tbl[h][i - 1]
          BY <3>2, <5>2
        <5> QED BY <1>4, <5>1, <5>2
      <4> QED BY <2>4, <3>2, <4>1, LookupNone
    <3> QED BY <3>1, <3>2
  <2> QED BY <2>2, <2>3, <2>4
<1>8. MapOf(new) = [MapOf(tbl) EXCEPT ![key] = data]
  BY <1>7 DEF MapOf
<1> QED BY <1>2, <1>6, <1>8 DEF new

\* HASH_DELETE() takes the key out of the map, and nothing else.
LEMMA DeleteIsUpdate ==
  ASSUME NEW tbl \in Table, WellFormed(tbl), NEW key \in Keys
  PROVE  /\ HashDelete(tbl, key) \in Table
         /\ WellFormed(HashDelete(tbl, key))
         /\ MapOf(HashDelete(tbl, key)) = [MapOf(tbl) EXCEPT ![key] = NULL]
<1> DEFINE h == HashFn(key)
           new == HashDelete(tbl, key)
           n == Len(tbl[h])
<1>1. CASE ~HashEntryExists(tbl, key)
  <2>1. new = tbl /\ HashLookupPtr(tbl, key) = NULL
    BY <1>1, LookupNull DEF HashDelete
  <2>2. MapOf(tbl) = [MapOf(tbl) EXCEPT ![key] = NULL]
    BY <2>1 DEF MapOf
  <2> QED BY <2>1, <2>2
<1>2. CASE HashEntryExists(tbl, key)
  <2>1. PICK p \in DOMAIN tbl[h] : tbl[h][p].key = key
    BY <1>2, LookupNull
  <2>2. First(tbl[h], key) = p
    BY <2>1, LookupFound
  <2>3. h \in Buckets /\ tbl[h] \in Seq(Entry)
    BY HashFnType DEF Table
  <2>4. n \in Nat /\ DOMAIN tbl[h] = 1 .. n /\ p \in 1 .. n
    BY <2>3
  <2>5. new = [tbl EXCEPT ![h] = Unlinked(tbl[h], p)]
    BY <1>2, <2>2, <2>3 DEF HashDelete, Table
  <2>6. \A i \in 1 .. n : tbl[h][i] \in Entry
    BY <2>3, <2>4
  <2>7. /\ Unlinked(tbl[h], p) \in [1 .. n - 1 -> Entry]
        /\ \A i \in 1 .. n - 1 :
             Unlinked(tbl[h], p)[i]
               = IF i < p THEN tbl[h][i] ELSE tbl[h][i + 1]
    BY <2>4, <2>6 DEF Unlinked
  <2>8. Unlinked(tbl[h], p) \in Seq(Entry)
    <3>1. n - 1 \in Nat
      BY <2>4
    <3> HIDE DEF n
    <3>2. Unlinked(tbl[h], p) \in UNION {[1 .. m -> Entry] : m \in Nat}
      BY <2>7, <3>1, Zenon
    <3> QED BY <3>2, SeqDef, Zenon
  <2>9. /\ new \in Table /\ new[h] = Unlinked(tbl[h], p)
        /\ \A b \in Buckets : b # h => new[b] = tbl[b]
    BY <2>3, <2>5, <2>8 DEF Table
  <2>10. DOMAIN new[h] = 1 .. n - 1
    BY <2>7, <2>9
  <2> DEFINE old(i) == IF i < p THEN i ELSE i + 1
  <2>11. \A i \in DOMAIN new[h] :
           old(i) \in DOMAIN tbl[h] /\ old(i) # p /\ new[h][i] = tbl[h][old(i)]
    BY <2>4, <2>7, <2>9, <2>10
  <2>12. \A i, j \in DOMAIN new[h] : old(i) = old(j) => i = j
    BY <2>4, <2>10
  <2>13. \A i \in DOMAIN tbl[h] : i # p => \E j \in DOMAIN new[h] : old(j) = i
    <3> SUFFICES ASSUME NEW i \in DOMAIN tbl[h], i # p
                 PROVE  \E j \in DOMAIN new[h] : old(j) = i
      OBVIOUS
    <3>1. CASE i < p
      <4>1. i \in DOMAIN new[h] /\ old(i) = i
        BY <2>4, <2>10, <3>1
      <4> QED BY <4>1
    <3>2. CASE i > p
      <4>1. i - 1 \in DOMAIN new[h] /\ old(i - 1) = i
        BY <2>4, <2>10, <3>2
      <4> QED BY <4>1
    <3> QED BY <2>4, <3>1, <3>2
  <2> HIDE DEF new, old
  <2>14. WellFormed(new)
    <3> SUFFICES ASSUME NEW b \in Buckets, NEW i \in DOMAIN new[b]
                 PROVE  /\ HashFn(new[b][i].key) = b
                        /\ \A j \in DOMAIN new[b] :
                             new[b][j].key = new[b][i].key => j = i
      BY DEF WellFormed
    <3>1. CASE b # h
      BY <2>9, <3>1 DEF WellFormed
    <3>2. CASE b = h
      <4>1. HashFn(new[h][i].key) = h
        BY <2>3, <2>11, <3>2 DEF WellFormed
      <4>2. ASSUME NEW j \in DOMAIN new[h], new[h][j].key = new[h][i].key
            PROVE  j = i
        <5>1. tbl[h][old(j)].key = tbl[h][old(i)].key
          BY <2>11, <3>2, <4>2
        <5>2. old(j) = old(i)
          BY <2>3, <2>11, <3>2, <5>1 DEF WellFormed
        <5> QED BY <2>12, <3>2, <5>2
      <4> QED BY <3>2, <4>1, <4>2
    <3> QED BY <3>1, <3>2
  <2>15. ASSUME NEW k2 \in Keys
         PROVE  HashLookupPtr(new, k2)
                  = IF k2 = key THEN NULL ELSE HashLookupPtr(tbl, k2)
    <3>1. HashFn(k2) \in Buckets
      BY HashFnType
    <3>2. CASE k2 = key
      <4>1. \A i \in DOMAIN new[h] : new[h][i].key # key
        BY <2>1, <2>3, <2>11 DEF WellFormed
      <4> QED BY <3>2, <4>1, LookupNone
    <3>3. CASE HashFn(k2) # h
      BY <2>9, <3>1, <3>3, OtherChain
    <3>4. CASE k2 # key /\ HashFn(k2) = h
      <4>1. CASE \E i \in DOMAIN tbl[h] : tbl[h][i].key = k2
        <5>1. PICK i \in DOMAIN tbl[h] : tbl[h][i].key = k2
          BY <4>1
        <5>2. i # p
          BY <2>1, <3>4, <5>1
        <5>3. PICK j \in DOMAIN new[h] : old(j) = i
          BY <2>13, <5>2
        <5>4. new[h][j] = tbl[h][i]
          BY <2>11, <5>3
        <5>5. HashLookupPtr(tbl, k2) = tbl[h][i].data
          BY <3>4, <5>1, LookupFound
        <5>6. HashLookupPtr(new, k2) = new[h][j].data
          BY <2>9, <2>14, <3>4, <5>1, <5>4, LookupFound
        <5> QED BY <3>4, <5>4, <5>5, <5>6
      <4>2. CASE \A i \in DOMAIN tbl[h] : tbl[h][i].key # k2
        <5>1. \A i \in DOMAIN new[h] : new[h][i].key # k2
          BY <2>11, <4>2
        <5> QED BY <3>4, <4>2, <5>1, LookupNone
      <4> QED BY <4>1, <4>2
    <3> QED BY <3>2, <3>3, <3>4
  <2>16. MapOf(new) = [MapOf(tbl) EXCEPT ![key] = NULL]
    BY <2>15 DEF MapOf
  <2> QED BY <2>9, <2>14, <2>16 DEF new
<1> QED BY <1>1, <1>2

\* HASH_SET_ENTRY() gives the key new data, whether or not it has an entry.
LEMMA SetIsUpdate ==
  ASSUME NEW tbl \in Table, WellFormed(tbl), NEW key \in Keys,
         NEW data \in Data
  PROVE  /\ HashSetEntry(tbl, key, data) \in Table
         /\ WellFormed(HashSetEntry(tbl, key, data))
         /\ MapOf(HashSetEntry(tbl, key, data))
              = [MapOf(tbl) EXCEPT ![key] = data]
<1> DEFINE h == HashFn(key)
           new == HashSetEntry(tbl, key, data)
<1>1. CASE ~HashEntryExists(tbl, key)
  BY <1>1, InsertIsUpdate DEF HashSetEntry
<1>2. CASE HashEntryExists(tbl, key)
  <2>1. PICK p \in DOMAIN tbl[h] : tbl[h][p].key = key
    BY <1>2, LookupNull
  <2>2. First(tbl[h], key) = p
    BY <2>1, LookupFound
  <2>3. h \in Buckets /\ tbl[h] \in Seq(Entry)
    BY HashFnType DEF Table
  <2> DEFINE e == [tbl[h][p] EXCEPT !.data = data]
  <2>4. tbl[h][p] \in Entry
    BY <2>3
  <2>5. e \in Entry /\ e.key = key /\ e.data = data
    BY <2>1, <2>4 DEF Entry
  <2>6. new = [tbl EXCEPT ![h] = [tbl[h] EXCEPT ![p] = e]]
    BY <1>2, <2>2 DEF HashSetEntry
  <2> HIDE DEF e
  <2>7. [tbl[h] EXCEPT ![p] = e] \in Seq(Entry)
    BY <2>3, <2>5
  <2>8. /\ new \in Table /\ new[h] = [tbl[h] EXCEPT ![p] = e]
        /\ \A b \in Buckets : b # h => new[b] = tbl[b]
    BY <2>3, <2>6, <2>7 DEF Table
  <2>9. /\ DOMAIN new[h] = DOMAIN tbl[h] /\ new[h][p] = e
        /\ \A i \in DOMAIN tbl[h] : i # p => new[h][i] = tbl[h][i]
        /\ \A i \in DOMAIN tbl[h] : new[h][i].key = tbl[h][i].key
    BY <2>1, <2>3, <2>5, <2>8
  <2> HIDE DEF new
  <2>10. WellFormed(new)
    BY <2>3, <2>8, <2>9 DEF WellFormed
  <2>11. ASSUME NEW k2 \in Keys
         PROVE  HashLookupPtr(new, k2)
                  = IF k2 = key THEN data ELSE HashLookupPtr(tbl, k2)
    <3>1. HashFn(k2) \in Buckets
      BY HashFnType
    <3>2. CASE k2 = key
      BY <2>1, <2>5, <2>8, <2>9, <2>10, <3>2, LookupFound
    <3>3. CASE HashFn(k2) # h
      BY <2>8, <3>1, <3>3, OtherChain
    <3>4. CASE k2 # key /\ HashFn(k2) = h
      <4>1. CASE \E i \in DOMAIN tbl[h] : tbl[h][i].key = k2
        <5>1. PICK i \in DOMAIN tbl[h] : tbl[h][i].key = k2
          BY <4>1
        <5>2. i \in DOMAIN new[h] /\ new[h][i] = tbl[h][i]
          BY <2>1, <2>9, <3>4, <5>1
        <5>3. HashLookupPtr(tbl, k2) = tbl[h][i].data
          BY <3>4, <5>1, LookupFound
        <5>4. HashLookupPtr(new, k2) = new[h][i].data
          BY <2>8, <2>10, <3>4, <5>1, <5>2, LookupFound
        <5> QED BY <3>4, <5>2, <5>3, <5>4
      <4>2. CASE \A i \in DOMAIN tbl[h] : tbl[h][i].key # k2
        BY <2>9, <3>4, <4>2, LookupNone
      <4> QED BY <4>1, <4>2
    <3> QED BY <3>2, <3>3, <3>4
  <2>12. MapOf(new) = [MapOf(tbl) EXCEPT ![key] = data]
    BY <2>11 DEF MapOf
  <2> QED BY <2>8, <2>10, <2>12 DEF new
<1> QED BY <1>1, <1>2

\* The operations of mysock_hash.h on a table in which no key has two entries
\* are those of a map, "an ugly approximation to std::map", and keep it so;
\* HASH_INSERT(), which does not look for duplicates, if the key has no entry.
THEOREM HashTableIsMap ==
  ASSUME NEW tbl \in Table, WellFormed(tbl), NEW key \in Keys,
         NEW data \in Data
  PROVE  /\ MapOf(HashDelete(tbl, key)) = [MapOf(tbl) EXCEPT ![key] = NULL]
         /\ MapOf(HashSetEntry(tbl, key, data))
              = [MapOf(tbl) EXCEPT ![key] = data]
         /\ ~HashEntryExists(tbl, key) =>
              MapOf(HashInsert(tbl, key, data))
                = [MapOf(tbl) EXCEPT ![key] = data]
BY InsertIsUpdate, DeleteIsUpdate, SetIsUpdate
=============================================================================
