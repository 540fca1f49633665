---------------------------- MODULE StringPtrMap ----------------------------
(***************************************************************************)
(* CStdStringPtrMap, the hash table behind the names, the images and the   *)
(* option groups of a window: buckets of doubly linked items, in which a   *)
(* search moves what it finds to the front.  A text is represented by its  *)
(* hash value, so that two texts meet in a bucket when the remainders are  *)
(* equal.  The pointers kept are never NULL (Insert takes a NULL for a key *)
(* that is not there).  A walk is a loop over GetAt(0), GetAt(1), ... that *)
(* looks every key up, as the option groups and the images are walked.     *)
(***************************************************************************)
EXTENDS Integers, Sequences, FiniteSets

CONSTANTS
  Keys,       \* the hash values
  Data,
  Items,      \* addresses of items; one that is freed is used again
  NULL,
  MaxBuckets

\* What is taken for granted of the constants.
ConstantsAssumption ==
  /\ Keys \subseteq Nat /\ NULL \notin Keys \cup Data \cup Items
  /\ IsFiniteSet(Items)
  /\ MaxBuckets \in Nat \ {0}

Slots == 0..(MaxBuckets - 1)

VARIABLES
  m_nBuckets, m_nCount,
  m_aT,                \* the first item of each bucket
  key, data,           \* an item's text (NULL in an item that is free) and pointer
  pNext, pPrev,
  result,              \* what the last call returned
  walk,                \* the position of a loop over the keys, -1 when there is none
  seen                 \* the keys it has met

table == <<m_nBuckets, m_nCount, m_aT, key, data, pNext, pPrev>>
vars == <<table, result, walk, seen>>

Allocated == {i \in Items : key[i] # NULL}

TypeOK ==
  /\ m_nBuckets \in 0..MaxBuckets /\ m_nCount \in 0..Cardinality(Items)
  /\ m_aT \in [Slots -> Items \cup {NULL}]
  /\ key \in [Items -> Keys \cup {NULL}]
  /\ data \in [Items -> Data \cup {NULL}]
  /\ pNext \in [Items -> Items \cup {NULL}]
  /\ pPrev \in [Items -> Items \cup {NULL}]
  /\ result \in Data \cup BOOLEAN \cup {NULL}
  /\ walk \in -1..Cardinality(Items)
  /\ seen \subseteq Keys

Init ==
  /\ m_nBuckets = MaxBuckets /\ m_nCount = 0
  /\ m_aT = [s \in Slots |-> NULL]
  /\ key = [i \in Items |-> NULL] /\ data = [i \in Items |-> NULL]
  /\ pNext = [i \in Items |-> NULL] /\ pPrev = [i \in Items |-> NULL]
  /\ result = NULL /\ walk = -1 /\ seen = {}

-----------------------------------------------------------------------------
Slot(k) == k % m_nBuckets

\* The items of a bucket, as its links lead through them.
Chain(s) ==
  LET from[n \in 0..Cardinality(Items)] ==
        [i \in Items \cup {NULL} |->
           IF n = 0 \/ i = NULL THEN <<>> ELSE <<i>> \o from[n - 1][pNext[i]]]
  IN from[Cardinality(Items)][m_aT[s]]

\* The first item of its bucket with the text k, or NULL.
Lookup(k) ==
  LET from[n \in 0..Cardinality(Items)] ==
        [i \in Items \cup {NULL} |->
           IF n = 0 \/ i = NULL THEN NULL
           ELSE IF key[i] = k THEN i ELSE from[n - 1][pNext[i]]]
  IN IF m_nBuckets = 0 \/ m_nCount = 0 THEN NULL ELSE from[Cardinality(Items)][m_aT[Slot(k)]]

\* All items, from the last bucket on.
AllItems ==
  LET upTo[s \in 0..m_nBuckets] == IF s = 0 THEN <<>> ELSE Chain(s - 1) \o upTo[s - 1]
  IN upTo[m_nBuckets]

\* Mutant of Order: the keys are walked from the last one.
OrderBackwards ==
  LET items == AllItems IN [n \in DOMAIN items |-> key[items[Len(items) + 1 - n]]]

\* The keys in the order of GetAt.
Order == LET items == AllItems IN [n \in DOMAIN items |-> key[items[n]]]

\* Find(key, optimize) of an item that is not the first of its bucket.
ToFront(i) ==
  LET s == Slot(key[i]) IN
  IF m_aT[s] = i THEN UNCHANGED <<m_aT, pNext, pPrev>>
  ELSE /\ pNext' = [pNext EXCEPT ![pPrev[i]] = pNext[i], ![i] = m_aT[s]]
       /\ pPrev' = [j \in Items |-> IF j = i THEN NULL
                                    ELSE IF j = m_aT[s] THEN i
                                    ELSE IF j = pNext[i] THEN pPrev[i] ELSE pPrev[j]]
       /\ m_aT' = [m_aT EXCEPT ![s] = i]

Searched(k, optimize) ==
  /\ IF Lookup(k) # NULL /\ optimize THEN ToFront(Lookup(k)) ELSE UNCHANGED <<m_aT, pNext, pPrev>>
  /\ UNCHANGED <<m_nBuckets, m_nCount, key, data>>

Find(k, optimize) ==
  /\ result' = IF Lookup(k) = NULL THEN NULL ELSE data[Lookup(k)]
  /\ Searched(k, optimize)

\* A new item becomes the first of its bucket.
PutFirst(i, k, d) ==
  /\ key' = [key EXCEPT ![i] = k] /\ data' = [data EXCEPT ![i] = d]
  /\ pNext' = [pNext EXCEPT ![i] = m_aT[Slot(k)]]
  /\ pPrev' = [j \in Items |-> IF j = i THEN NULL
                               ELSE IF j = m_aT[Slot(k)] THEN i ELSE pPrev[j]]
  /\ m_aT' = [m_aT EXCEPT ![Slot(k)] = i]
  /\ m_nCount' = m_nCount + 1
  /\ UNCHANGED m_nBuckets

\* An item that is there is moved to the front by the search.
Insert(k, d) ==
  IF m_nBuckets = 0 \/ Lookup(k) # NULL
  THEN result' = FALSE /\ Searched(k, TRUE)
  ELSE /\ result' = TRUE
       /\ \E i \in Items \ Allocated : PutFirst(i, k, d)

Set(k, d) ==
  CASE m_nBuckets = 0 -> result' = d /\ UNCHANGED table
    [] Lookup(k) # NULL ->
         /\ result' = data[Lookup(k)]
         /\ data' = [data EXCEPT ![Lookup(k)] = d]
         /\ UNCHANGED <<m_nBuckets, m_nCount, m_aT, key, pNext, pPrev>>
    [] OTHER -> result' = NULL /\ \E i \in Items \ Allocated : PutFirst(i, k, d)

\* Mutant of Unlinked: the item after the removed one keeps its link to it.
UnlinkedOneWay(i) ==
  /\ IF m_aT[Slot(key[i])] = i
     THEN m_aT' = [m_aT EXCEPT ![Slot(key[i])] = pNext[i]] /\ pNext' = [pNext EXCEPT ![i] = NULL]
     ELSE pNext' = [j \in Items |-> IF j = i THEN NULL ELSE IF pNext[j] = i THEN pNext[i] ELSE pNext[j]]
          /\ UNCHANGED m_aT
  /\ pPrev' = [pPrev EXCEPT ![i] = NULL]

\* The link that leads to i, in the bucket or in the item before it, skips it.
Unlinked(i) ==
  /\ IF m_aT[Slot(key[i])] = i
     THEN m_aT' = [m_aT EXCEPT ![Slot(key[i])] = pNext[i]] /\ pNext' = [pNext EXCEPT ![i] = NULL]
     ELSE pNext' = [j \in Items |-> IF j = i THEN NULL ELSE IF pNext[j] = i THEN pNext[i] ELSE pNext[j]]
          /\ UNCHANGED m_aT
  /\ pPrev' = [j \in Items |-> IF j = i THEN NULL
                               ELSE IF j = pNext[i] THEN pPrev[i] ELSE pPrev[j]]

Remove(k) ==
  IF Lookup(k) = NULL THEN result' = FALSE /\ UNCHANGED table
  ELSE /\ result' = TRUE
       /\ Unlinked(Lookup(k))
       /\ key' = [key EXCEPT ![Lookup(k)] = NULL]
       /\ data' = [data EXCEPT ![Lookup(k)] = NULL]
       /\ m_nCount' = m_nCount - 1
       /\ UNCHANGED m_nBuckets

\* Resize, and RemoveAll, which gives it the size the table has.
Resize(n) ==
  /\ m_nBuckets' = n /\ m_nCount' = 0
  /\ m_aT' = [s \in Slots |-> NULL]
  /\ key' = [i \in Items |-> NULL] /\ data' = [i \in Items |-> NULL]
  /\ pNext' = [i \in Items |-> NULL] /\ pPrev' = [i \in Items |-> NULL]
  /\ result' = NULL

\* One round of a walk; the loop ends at GetSize.
WalkOn(optimize) ==
  /\ walk \in 0..(m_nCount - 1)
  /\ Find(Order[walk + 1], optimize)
  /\ seen' = seen \cup {Order[walk + 1]}
  /\ walk' = walk + 1

Next ==
  \/ /\ walk = -1
     /\ \/ \E k \in Keys :
             \/ Remove(k)
             \/ \E optimize \in BOOLEAN : Find(k, optimize)
             \/ \E d \in Data : Insert(k, d) \/ Set(k, d)
        \/ \E n \in 0..MaxBuckets : Resize(n)
     /\ UNCHANGED <<walk, seen>>
  \/ walk = -1 /\ walk' = 0 /\ seen' = {} /\ UNCHANGED <<table, result>>
  \/ \E optimize \in BOOLEAN : WalkOn(optimize)
  \/ walk = m_nCount /\ walk' = -1 /\ seen' = {} /\ UNCHANGED <<table, result>>

Spec == Init /\ [][Next]_vars

-----------------------------------------------------------------------------
\* Every link back is the mirror of a link on, and a bucket's first item has none: the
\* next search or removal unlinks the item it means.
LinksMirror ==
  /\ \A i \in Allocated : pNext[i] # NULL => pNext[i] \in Allocated /\ pPrev[pNext[i]] = i
  /\ \A i \in Allocated : pPrev[i] # NULL => pPrev[i] \in Allocated /\ pNext[pPrev[i]] = i
  /\ \A s \in Slots : m_aT[s] # NULL => m_aT[s] \in Allocated /\ pPrev[m_aT[s]] = NULL

\* m_nCount counts the items that the buckets lead to, and no allocated item is lost.
CountsItems ==
  /\ m_nCount = Cardinality(Allocated)
  /\ Len(Order) = m_nCount
  /\ {Order[n] : n \in DOMAIN Order} = {key[i] : i \in Allocated}

\* A walk that looks up what it meets, and so reorders the buckets under itself, still
\* meets every key (UIManager.cpp:1530-1535, 2280-2287).
WalkSeesAll == walk = m_nCount => seen = {key[i] : i \in Allocated}

\* The table is a map: its answers are those of KeyMap.
Map == INSTANCE KeyMap WITH
  map <- [k \in Keys |-> IF Lookup(k) = NULL THEN NULL ELSE data[Lookup(k)]],
  room <- m_nBuckets > 0

ImplementsMap == Map!Spec
=============================================================================
