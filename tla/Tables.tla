------------------------------- MODULE Tables -------------------------------
(***************************************************************************)
(* The two data structures under the engine: the skip list of a MemTable   *)
(* (internal/storage/memtable.go) and the SSTable written from it          *)
(* (sstable.go), with its sparse index and the search through it.  Module  *)
(* Engine takes both for maps; this module is about whether they are.      *)
(*                                                                         *)
(* A behaviour is the life of one MemTable: writes, until the engine takes *)
(* its entries and writes them to a file.  Every operation holds           *)
(* MemTable.mu and is one action.  Keys are numbers, compared as           *)
(* bytes.Compare does; a value is its length; an offset in the file is the *)
(* position of the record that starts there.                               *)
(***************************************************************************)
EXTENDS Integers, Sequences, FiniteSets, FiniteSetsExt

CONSTANTS
  Key,        \* positive numbers, all of the same length
  Value,      \* lengths
  Nil,        \* a nil pointer
  MaxLevel,   \* maxSkipListLevel
  Interval,   \* sparseIndexInterval
  MaxWrites   \* bound: Put and Delete calls

ASSUME TablesAssumption ==
  /\ Key \subseteq Nat \ {0} /\ IsFiniteSet(Key) /\ Nil \notin Key /\ Value \subseteq Nat
  /\ MaxLevel \in Nat \ {0} /\ Interval \in Nat \ {0} /\ MaxWrites \in Nat

VARIABLES
  forward,     \* per node: its successor on each of its levels; <<>> before it exists
  slot,        \* per key: op and value of its node
  level,       \* skipList.level
  length,      \* skipList.length
  sizeBytes,
  table,       \* the SSTable, once written
  writes       \* Put and Delete calls so far

vars == <<forward, slot, level, length, sizeBytes, table, writes>>

\* The head is a node without a key, before all others.
Head0 == 0
ListNode == Key \cup {Head0}

OpPut == "put"
OpDelete == "delete"
Absent == [op |-> "none", val |-> 0]

NoTable == [records |-> <<>>, index |-> <<>>]

\* newSkipList and NewMemTable.
Init ==
  /\ forward = [n \in ListNode |-> IF n = Head0 THEN [i \in 1..MaxLevel |-> Nil] ELSE <<>>]
  /\ slot = [k \in Key |-> Absent]
  /\ level = 1 /\ length = 0 /\ sizeBytes = 0
  /\ table = NoTable /\ writes = 0

-----------------------------------------------------------------------------
(* The skip list.                                                          *)

\* The search goes right on a level while the next key is smaller, then down.
Before(n, i, k) == forward[n][i] # Nil /\ forward[n][i] < k

\* update of skipList.put: where the search for k leaves each level it visits.
Predecessors(k) ==
  LET right[n \in ListNode, i \in 1..level] ==
        IF Before(n, i, k) THEN right[forward[n][i], i] ELSE n
      update[i \in 1..level] == right[IF i = level THEN Head0 ELSE update[i + 1], i]
  IN update

\* skipList.get: the node after the last predecessor, if it has the key.
Found(k) == forward[Predecessors(k)[1]][1] = k

\* Mutant: the new node forgets what followed its predecessors above the lowest level.
LinkLoses(k, new, update) ==
  [n \in ListNode |->
     IF n = k THEN [i \in 1..new |-> IF i = 1 THEN forward[update[i]][i] ELSE Nil]
     ELSE [i \in 1..Len(forward[n]) |-> IF i <= new /\ update[i] = n THEN k ELSE forward[n][i]]]

\* The new node takes over the successors of its predecessors on its levels.
Link(k, new, update) ==
  [n \in ListNode |->
     IF n = k THEN [i \in 1..new |-> forward[update[i]][i]]
     ELSE [i \in 1..Len(forward[n]) |-> IF i <= new /\ update[i] = n THEN k ELSE forward[n][i]]]

\* skipList.put: an existing node is overwritten; a new one gets a random level,
\* and the levels above the old top start at the head.
SkipListPut(k, s) ==
  /\ slot' = [slot EXCEPT ![k] = s]
  /\ \/ Found(k) /\ UNCHANGED <<forward, level, length>>
     \/ /\ ~Found(k)
        /\ \E new \in 1..MaxLevel :
             LET update == [i \in 1..MaxLevel |-> IF i <= level THEN Predecessors(k)[i] ELSE Head0]
             IN /\ forward' = Link(k, new, update)
                /\ level' = Max({level, new})
        /\ length' = length + 1

\* skipList.iterate along the lowest level.
Iterate ==
  LET from[n \in ListNode] ==
        LET next == forward[n][1]
        IN IF next = Nil THEN <<>> ELSE <<[key |-> next, slot |-> slot[next]]>> \o from[next]
  IN from[Head0]

-----------------------------------------------------------------------------
(* The MemTable.                                                           *)

KeyLen == 8
Overhead == 64

\* Mutant: the old value is looked at after the node was overwritten.
SizeOfNew(k, s) ==
  sizeBytes - (IF Found(k) THEN KeyLen + s.val ELSE 0) + KeyLen + s.val + Overhead

\* The old key and value are given back, their 64 bytes are not.
SizeAfter(k, s) ==
  sizeBytes - (IF Found(k) THEN KeyLen + slot[k].val ELSE 0) + KeyLen + s.val + Overhead

Write(k, s) ==
  /\ table = NoTable
  /\ writes < MaxWrites /\ writes' = writes + 1
  /\ sizeBytes' = SizeAfter(k, s)
  /\ SkipListPut(k, s)
  /\ UNCHANGED table

Put(k) == \E v \in Value : Write(k, [op |-> OpPut, val |-> v])

\* A tombstone: a node whose value is nil.
Delete(k) == Write(k, [op |-> OpDelete, val |-> 0])

-----------------------------------------------------------------------------
(* The SSTable.                                                            *)

\* Mutant: the offset is taken behind the record.
IndexBehind(records) ==
  [j \in 1..((Len(records) + Interval - 1) \div Interval) |->
     [key |-> records[(j - 1) * Interval + 1].key, at |-> (j - 1) * Interval + 2]]

\* Every Interval-th record, the first included, with its offset.
SparseIndex(records) ==
  [j \in 1..((Len(records) + Interval - 1) \div Interval) |->
     [key |-> records[(j - 1) * Interval + 1].key, at |-> (j - 1) * Interval + 1]]

\* MemTable.Entries and WriteSSTable, which refuses an empty list.
WriteSSTable ==
  /\ table = NoTable /\ Iterate # <<>>
  /\ table' = [records |-> Iterate, index |-> SparseIndex(Iterate)]
  /\ UNCHANGED <<forward, slot, level, length, sizeBytes, writes>>

\* SSTableReader.Get, first half: the binary search over the sparse index.
StartOffset(index, k) ==
  LET search[lo \in 1..(Len(index) + 1), hi \in 0..Len(index),
             start \in 1..(Len(table.records) + 1)] ==
        LET mid == (lo + hi) \div 2 IN
        IF lo > hi THEN start
        ELSE IF index[mid].key <= k THEN search[mid + 1, hi, index[mid].at]
        ELSE search[lo, mid - 1, start]
  IN search[1, Len(index), index[1].at]

\* Second half: read records until one has the key or a greater one.  Behind the
\* last record the loop goes on through the index, where the bytes of
\* keys and offsets are taken for records.
Misread == [op |-> "index bytes", val |-> 0]

TableGet(k) ==
  LET stops == {p \in StartOffset(table.index, k)..Len(table.records) : table.records[p].key >= k} IN
  IF stops = {} THEN Misread
  ELSE IF table.records[Min(stops)].key = k THEN table.records[Min(stops)].slot ELSE Absent

-----------------------------------------------------------------------------
Next == (\E k \in Key : Put(k) \/ Delete(k)) \/ WriteSSTable

Spec == Init /\ [][Next]_vars

-----------------------------------------------------------------------------
(* Properties.                                                             *)

Written == {k \in Key : slot[k] # Absent}

\* The nodes with at least i levels.
OnLevel(i) == {n \in ListNode : Len(forward[n]) >= i}

\* Whatever levels the coin gives, in whatever order keys arrive: the search of
\* skipList.get finds exactly the keys written, Entries lists each of them once in
\* ascending order, and each level links its nodes in order.
SkipListIsMap ==
  /\ \A k \in Key : Found(k) <=> k \in Written
  /\ LET entries == Iterate IN
     /\ {entries[i].key : i \in 1..Len(entries)} = Written
     /\ \A i \in 1..(Len(entries) - 1) : entries[i].key < entries[i + 1].key
     /\ length = Len(entries)
  /\ \A i \in 1..level : \A n \in OnLevel(i) :
       LET later == {m \in OnLevel(i) : m > n}
       IN forward[n][i] = IF later = {} THEN Nil ELSE Min(later)

\* MemTable.Size, on which maybeFlushLocked decides, never falls below what the
\* nodes occupy, however keys are overwritten, deleted and put again.
SizeCoversContent ==
  sizeBytes >= MapThenSumSet(LAMBDA k : KeyLen + slot[k].val + Overhead, Written)

\* Up to the last key of the file, SSTableReader.Get returns for every key, between
\* the indexed ones or absent, what the MemTable held when it was flushed.
TableIsMap ==
  table # NoTable =>
    \A k \in Key : k <= table.records[Len(table.records)].key => TableGet(k) = slot[k]

=============================================================================
