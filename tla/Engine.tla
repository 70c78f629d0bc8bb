------------------------------- MODULE Engine -------------------------------
(***************************************************************************)
(* The LSM storage engine: internal/storage engine.go, wal.go, recovery.go, *)
(* compaction.go, and what memtable.go and sstable.go do for it.  A        *)
(* function that holds Engine.mu is one action.  maybeFlushLocked releases *)
(* the lock while it writes the SSTable, so a flush is three actions; the  *)
(* compactor never takes the lock and is two; a result it sends is applied *)
(* by a fourth goroutine.                                                  *)
(*                                                                         *)
(* Data: a MemTable or an SSTable is a function from keys to slots.  Key   *)
(* and value lengths are abstracted to zero, which leaves 64 bytes per     *)
(* write: the size of a MemTable is the number of writes it took.  A path  *)
(* is the UnixNano in its name; names are compared by it.                  *)
(***************************************************************************)
EXTENDS Integers, Sequences, FiniteSets, FiniteSetsExt

CONSTANTS
  Writer,       \* goroutines that call Put and Delete
  Key, Value,
  Empty,        \* the value of length zero
  Nil,          \* a nil []byte, and "no path"
  MaxMemSize,   \* memTableMaxSize, in writes
  CompactionThreshold,
  MaxOps,       \* bound: WAL records in one behaviour
  MaxFiles,     \* bound: SSTables ever named
  MaxCrashes,   \* bound: crashes and shutdowns
  MaxFaults     \* bound: failed writes to the disk

ASSUME EngineAssumption ==
  /\ Nil \notin Value /\ Nil \notin Key /\ Nil # Empty
  /\ MaxMemSize \in Nat \ {0} /\ CompactionThreshold \in Nat \ {0, 1}
  /\ {MaxOps, MaxFiles, MaxCrashes, MaxFaults} \subseteq Nat

VARIABLES
  up,          \* is the engine open?
  wal,         \* wal.log: the records, in order
  mem, memSize,
  flushing,    \* per writer: the flush it performs without the lock
  closing,     \* the SSTable Close writes without the lock
  files,       \* the .sst files of the data directory
  sstables,    \* e.sstables: paths, the first is searched first
  compacting,  \* what the compactor has merged and not yet written
  results,     \* resultCh
  clock,       \* the next UnixNano
  crashes, faults,
  acked,       \* what the acknowledged writes made of every key
  doubt,       \* per key: later writes that returned an error
  compacted    \* has a compaction written its result?

diskVars == <<wal, files>>
memVars == <<mem, memSize, flushing, closing>>
compactVars == <<compacting, results>>
ghostVars == <<acked, doubt, compacted>>
vars == <<up, diskVars, memVars, sstables, compactVars, clock, crashes, faults, ghostVars>>

OpPut == "put"
OpDelete == "delete"

\* A key's slot in a MemTable or SSTable.
Absent == [op |-> "none", val |-> Nil]
PutOf(v) == [op |-> OpPut, val |-> v]
Tombstone == [op |-> OpDelete, val |-> Nil]

\* What Engine.Get makes of a slot: a nil value is ErrNotFound.
Visible(slot) == IF slot.op = OpPut THEN slot.val ELSE Nil

NoEntries == [k \in Key |-> Absent]

WALRecord(k, slot) == [key |-> k, slot |-> slot]

\* A record cut short: its header, body or checksum does not add up.
Torn == WALRecord(Nil, Absent)

Idle == [path |-> Nil]

\* Paths, the newest name first (sort.Slice with >, and Open's reversal).
Newest(S) == [i \in 1..Cardinality(S) |-> CHOOSE p \in S : Cardinality({q \in S : q > p}) = i - 1]

Init ==
  /\ up = TRUE
  /\ wal = <<>> /\ mem = NoEntries /\ memSize = 0
  /\ flushing = [w \in Writer |-> Idle] /\ closing = Idle
  /\ files = <<>> /\ sstables = <<>>
  /\ compacting = Idle /\ results = <<>>
  /\ clock = 1 /\ crashes = 0 /\ faults = 0
  /\ acked = [k \in Key |-> Nil] /\ doubt = [k \in Key |-> {}] /\ compacted = FALSE

-----------------------------------------------------------------------------
(* Writes and reads.                                                       *)

\* maybeFlushLocked up to the unlock: a full MemTable is replaced and handed to
\* the writer.
MaybeFlush(w, m, size) ==
  \/ /\ size < MaxMemSize
     /\ mem' = m /\ memSize' = size
     /\ UNCHANGED <<flushing, clock>>
  \/ /\ size >= MaxMemSize
     /\ clock <= MaxFiles
     /\ mem' = NoEntries /\ memSize' = 0
     /\ flushing' = [flushing EXCEPT ![w] = [path |-> clock, entries |-> m, written |-> FALSE]]
     /\ clock' = clock + 1

\* Mutant: the WAL is reset with the MemTable, before the flush is on disk.
WriteRotates(w, k, slot) ==
  /\ up /\ flushing[w] = Idle
  /\ Len(wal) < MaxOps
  /\ wal' = IF memSize + 1 >= MaxMemSize THEN <<>> ELSE Append(wal, WALRecord(k, slot))
  /\ MaybeFlush(w, [mem EXCEPT ![k] = slot], memSize + 1)
  /\ acked' = [acked EXCEPT ![k] = Visible(slot)]
  /\ doubt' = [doubt EXCEPT ![k] = {}]
  /\ UNCHANGED <<up, files, closing, sstables, compactVars, crashes, faults, compacted>>

\* Engine.Put and Engine.Delete: WAL first, then the MemTable.
Write(w, k, slot) ==
  /\ up /\ flushing[w] = Idle
  /\ Len(wal) < MaxOps
  /\ wal' = Append(wal, WALRecord(k, slot))
  /\ MaybeFlush(w, [mem EXCEPT ![k] = slot], memSize + 1)
  /\ acked' = [acked EXCEPT ![k] = Visible(slot)]
  /\ doubt' = [doubt EXCEPT ![k] = {}]
  /\ UNCHANGED <<up, files, closing, sstables, compactVars, crashes, faults, compacted>>

Put(w, k) == \E v \in Value : Write(w, k, PutOf(v))

Delete(w, k) == Write(w, k, Tombstone)

\* WAL.Append fails: the write left part of a record behind, or the sync failed
\* after all of it.  The caller gets the error and the engine goes on.
FailedWrite(w, k) ==
  \E slot \in {Tombstone} \cup {PutOf(v) : v \in Value} :
    /\ up /\ flushing[w] = Idle
    /\ faults < MaxFaults /\ faults' = faults + 1
    /\ Len(wal) < MaxOps
    /\ \E r \in {Torn, WALRecord(k, slot)} : wal' = Append(wal, r)
    /\ doubt' = [doubt EXCEPT ![k] = @ \cup {Visible(slot)}]
    /\ UNCHANGED <<up, files, memVars, sstables, compactVars, clock, crashes, acked, compacted>>

Holds(path, k) == path \in DOMAIN files /\ files[path][k] # Absent

\* Engine.Get: the MemTable, then the SSTables in list order.
Get(k) ==
  LET hits == {i \in 1..Len(sstables) : Holds(sstables[i], k)} IN
  IF mem[k] # Absent THEN Visible(mem[k])
  ELSE IF hits = {} THEN Nil ELSE Visible(files[sstables[Min(hits)]][k])

\* A nil value is written with length zero and read back as an empty slice.
OnDisk(m) == [k \in Key |-> IF m[k] = PutOf(Nil) THEN PutOf(Empty) ELSE m[k]]

AddFile(path, m) == files' = [p \in DOMAIN files \cup {path} |-> IF p = path THEN OnDisk(m) ELSE files[p]]

\* WriteSSTable, without the lock: the rename makes the file appear at once.
WriteSSTable(w) ==
  /\ flushing[w] # Idle /\ ~flushing[w].written
  /\ AddFile(flushing[w].path, flushing[w].entries)
  /\ flushing' = [flushing EXCEPT ![w].written = TRUE]
  /\ UNCHANGED <<up, wal, mem, memSize, closing, sstables, compactVars, clock, crashes, faults, ghostVars>>

\* The flush fails: the entries are in neither the MemTable nor an SSTable.
FailedFlush(w) ==
  /\ flushing[w] # Idle /\ ~flushing[w].written
  /\ faults < MaxFaults /\ faults' = faults + 1
  /\ flushing' = [flushing EXCEPT ![w] = Idle]
  /\ UNCHANGED <<up, diskVars, mem, memSize, closing, sstables, compactVars, clock, crashes, ghostVars>>

\* Mutant: the new reader goes to the end of the list.
InstallLast(w) ==
  /\ flushing[w] # Idle /\ flushing[w].written
  /\ flushing' = [flushing EXCEPT ![w] = Idle]
  /\ sstables' = Append(sstables, flushing[w].path)
  /\ UNCHANGED <<up, diskVars, mem, memSize, closing, compactVars, clock, crashes, faults, ghostVars>>

\* The end of maybeFlushLocked; opening fails if a compaction removed the file.
InstallSSTable(w) ==
  /\ flushing[w] # Idle /\ flushing[w].written
  /\ flushing' = [flushing EXCEPT ![w] = Idle]
  /\ sstables' = IF flushing[w].path \in DOMAIN files THEN <<flushing[w].path>> \o sstables
                 ELSE sstables
  /\ UNCHANGED <<up, diskVars, mem, memSize, closing, compactVars, clock, crashes, faults, ghostVars>>

-----------------------------------------------------------------------------
(* Compaction.                                                             *)

\* Mutant: the older of the two files wins.
MergeOlderWins(old, new) ==
  [k \in Key |-> LET s == IF old[k] # Absent THEN old[k] ELSE new[k]
                 IN IF s = Tombstone THEN Absent ELSE s]

\* compactFiles: the later file in name order wins, tombstones are dropped.
Merge(old, new) ==
  [k \in Key |-> LET s == IF new[k] # Absent THEN new[k] ELSE old[k]
                 IN IF s = Tombstone THEN Absent ELSE s]

\* maybeCompact lists the directory and reads the two files with the oldest names.
StartCompaction ==
  /\ up /\ compacting = Idle
  /\ Cardinality(DOMAIN files) >= CompactionThreshold
  /\ LET p == Min(DOMAIN files)
         q == Min(DOMAIN files \ {p})
     IN compacting' = [path |-> {p, q}, merged |-> Merge(files[p], files[q])]
  /\ UNCHANGED <<up, diskVars, memVars, sstables, results, clock, crashes, faults, ghostVars>>

\* It writes what is left under a name of now, and sends the result.
FinishCompaction ==
  /\ compacting # Idle /\ Len(results) < 4
  /\ \/ /\ compacting.merged = NoEntries
        /\ results' = Append(results, [new |-> Nil, removed |-> compacting.path])
        /\ UNCHANGED <<files, clock>>
     \/ /\ compacting.merged # NoEntries
        /\ clock <= MaxFiles /\ clock' = clock + 1
        /\ AddFile(clock, compacting.merged)
        /\ results' = Append(results, [new |-> clock, removed |-> compacting.path])
  /\ compacting' = Idle /\ compacted' = TRUE
  /\ UNCHANGED <<up, wal, memVars, sstables, crashes, faults, acked, doubt>>

\* Mutant: the old files are deleted and their readers stay in the list.
ListedAfterKeeps(result) ==
  LET old == {sstables[i] : i \in 1..Len(sstables)} IN
  Newest(old \cup ({result.new} \cap DOMAIN files))

\* Mutant: the new path is appended even when there is none.
ListedAfterBlind(result) ==
  Append(SelectSeq(sstables, LAMBDA p : p \notin result.removed), result.new)

\* The new list of readers: without the removed ones, sorted by name when a new
\* file joins it.
ListedAfter(result) ==
  LET kept == SelectSeq(sstables, LAMBDA p : p \notin result.removed) IN
  IF result.new \notin DOMAIN files THEN kept
  ELSE Newest({kept[i] : i \in 1..Len(kept)} \cup {result.new})

ApplyCompactionResult ==
  /\ up /\ results # <<>>
  /\ sstables' = ListedAfter(Head(results))
  /\ files' = [p \in DOMAIN files \ Head(results).removed |-> files[p]]
  /\ results' = Tail(results)
  /\ UNCHANGED <<up, wal, memVars, compacting, clock, crashes, faults, ghostVars>>

-----------------------------------------------------------------------------
(* Shutdown, crash and recovery.                                           *)

\* What the process forgets.
Forget ==
  /\ up /\ up' = FALSE
  /\ crashes < MaxCrashes /\ crashes' = crashes + 1
  /\ mem' = NoEntries /\ memSize' = 0
  /\ flushing' = [w \in Writer |-> Idle] /\ closing' = Idle
  /\ sstables' = <<>> /\ compacting' = Idle /\ results' = <<>>
  /\ UNCHANGED <<faults, ghostVars>>

\* The process dies, perhaps in the middle of WAL.Append.
Crash ==
  /\ Forget
  /\ wal' \in {wal, Append(wal, Torn)}
  /\ UNCHANGED <<files, clock>>

\* Engine.Close up to its unlock: what is in the MemTable will become an SSTable.
\* The MemTable stays, and writers go on until the lock is taken again.
BeginClose ==
  /\ up /\ closing = Idle /\ crashes < MaxCrashes
  /\ mem # NoEntries
  /\ clock <= MaxFiles /\ clock' = clock + 1
  /\ closing' = [path |-> clock, entries |-> mem]
  /\ UNCHANGED <<up, diskVars, mem, memSize, flushing, sstables, compactVars, crashes, faults, ghostVars>>

\* The SSTable is renamed into place and the WAL closed; the WAL is not reset.
\* A shutdown flush that fails leaves what a crash leaves.
EndClose ==
  /\ Forget
  /\ \/ closing # Idle /\ AddFile(closing.path, closing.entries)
     \/ closing = Idle /\ mem = NoEntries /\ UNCHANGED files
  /\ UNCHANGED <<wal, clock>>

\* ReadWALRecords stops at the first record that does not add up.
ValidRecords(l) ==
  LET torn == {i \in 1..Len(l) : l[i] = Torn} IN
  IF torn = {} THEN l ELSE SubSeq(l, 1, Min(torn) - 1)

\* ReadWALRecords leaves the value of a zero-length record nil.
Reloaded(slot) == IF slot = PutOf(Empty) THEN PutOf(Nil) ELSE slot

\* Recover: the MemTable after all records, in order.
Replay(l) ==
  [k \in Key |-> LET at == {i \in 1..Len(l) : l[i].key = k}
                 IN IF at = {} THEN Absent ELSE Reloaded(l[Max(at)].slot)]

\* Open: replay and truncate the WAL, list the SSTables.
Open ==
  /\ ~up /\ up' = TRUE
  /\ wal' = ValidRecords(wal)
  /\ mem' = Replay(wal') /\ memSize' = Len(wal')
  /\ sstables' = Newest(DOMAIN files)
  /\ UNCHANGED <<files, flushing, closing, compactVars, clock, crashes, faults, ghostVars>>

-----------------------------------------------------------------------------
Next ==
  \/ \E w \in Writer :
       \/ \E k \in Key : Put(w, k) \/ Delete(w, k) \/ FailedWrite(w, k)
       \/ WriteSSTable(w) \/ FailedFlush(w) \/ InstallSSTable(w)
  \/ StartCompaction \/ FinishCompaction \/ ApplyCompactionResult
  \/ Crash \/ BeginClose \/ EndClose \/ Open

Spec == Init /\ [][Next]_vars

-----------------------------------------------------------------------------
(* Properties.                                                             *)

Path == 1..MaxFiles
Slot == {Absent, Tombstone} \cup {PutOf(v) : v \in Value \cup {Nil, Empty}}
Entries == [Key -> Slot]

\* Every variable has its type: the list holds paths, and the result channel of
\* the compactor never holds more than its capacity.
TypeOK ==
  /\ up \in BOOLEAN /\ memSize \in 0..MaxOps
  /\ \A i \in 1..Len(wal) : wal[i] = Torn \/ (wal[i].key \in Key /\ wal[i].slot \in Slot)
  /\ mem \in Entries
  /\ \A w \in Writer : flushing[w] = Idle \/ flushing[w] \in
       [path : Path, entries : Entries, written : BOOLEAN]
  /\ closing = Idle \/ closing \in [path : Path, entries : Entries]
  /\ DOMAIN files \subseteq Path /\ \A p \in DOMAIN files : files[p] \in Entries
  /\ \A i \in 1..Len(sstables) : sstables[i] \in Path
  /\ compacting = Idle \/ (compacting.path \subseteq Path /\ compacting.merged \in Entries)
  /\ Len(results) <= 4
  /\ \A i \in 1..Len(results) : results[i].new \in Path \cup {Nil} /\ results[i].removed \subseteq Path
  /\ clock \in 1..(MaxFiles + 1) /\ crashes \in 0..MaxCrashes /\ faults \in 0..MaxFaults
  /\ acked \in [Key -> Value \cup {Nil}] /\ doubt \in [Key -> SUBSET (Value \cup {Nil})]
  /\ compacted \in BOOLEAN

\* No flush is between its unlock and its relock.
Quiescent == up /\ \A w \in Writer : flushing[w] = Idle

\* Outside the window of a flush, Engine.Get returns what the last acknowledged
\* Put or Delete of the key made of it, wherever that write is by now.
ReadsLatest == Quiescent => \A k \in Key : Get(k) = acked[k]

\* The key is in a MemTable that was replaced and whose SSTable is not listed yet:
\* Get misses it, or finds an older version.
InWindow(k) == \E w \in Writer : flushing[w] # Idle /\ flushing[w].entries[k] # Absent

\* As long as no compaction has written its result and no write to the disk has
\* failed, Get returns the last acknowledged write: over flushes, restarts and a
\* Close that writers overlap, and in the window of a flush for all keys but those
\* that are being flushed.
UncompactedReadsLatest ==
  ~compacted /\ faults = 0 /\ up => \A k \in Key : InWindow(k) \/ Get(k) = acked[k]

\* Outside the window of a flush, Engine.Get finds every key that is live:
\* dropping tombstones and renaming merged data never hides a key.
NoKeyVanishes == Quiescent => \A k \in Key : acked[k] # Nil => Get(k) # Nil

\* Every reader in e.sstables has its file: applyCompactionResult deletes files
\* only with their readers, whatever a flush or the compactor is doing.
ListedReadable == \A i \in 1..Len(sstables) : sstables[i] \in DOMAIN files

\* What Get may return for a key: the acknowledged value or that of a later
\* write that returned an error.
Expected(k) == {acked[k]} \cup doubt[k]

\* No record of the key lies behind a torn one.
InReach(k) ==
  \A i, j \in 1..Len(wal) : wal[i] = Torn /\ wal[j].key = k => j < i

\* After Open, every key reads as its last acknowledged write, whatever was being
\* flushed, compacted or appended when the process died and whichever flush or
\* sync failed; only keys with records behind a torn one are excepted.
RecoveredReadsLatest ==
  [][Open => \A k \in Key : InReach(k) => Get(k)' \in Expected(k)]_vars

\* After Open, every key reads as its last acknowledged write: each record was
\* synced before the acknowledgement, and recovery drops only partial records.
AckedSurvives == [][Open => \A k \in Key : Get(k)' \in Expected(k)]_vars

=============================================================================
