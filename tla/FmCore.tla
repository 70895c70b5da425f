------------------------------- MODULE FmCore -------------------------------
(***************************************************************************)
(* A FASTMEM table (fm_core.h) with several slots and hash keys: chunks,   *)
(* the freelist, the hash chains, the row lock of a slot, the bucket locks *)
(* and struct_mutex, under the statements of the server.  A statement runs *)
(* as the handler runs it: UPDATE and DELETE look the row up, lock it,     *)
(* reread it and change it under the row lock.  Copying a record image in  *)
(* or out of a slot is one step here; FmSlot shows what that rests on.     *)
(* MaxOps bounds the lookups and the inserts of a thread.                  *)
(***************************************************************************)
EXTENDS Integers, FiniteSets

CONSTANTS Threads, None,
          NKeys, Unique,              \* the hash keys, and the unique ones
          NBuckets, BucketOf,         \* fm_bucket of a key value
          Vals, NullVals,             \* key values; those with a NULL part
          Images,                     \* the records that statements write
          ChunkSize, MaxRecords,
          Loaded,                     \* the records of the initial table
          Mixes, MaxOps               \* the sets of statements that run together

Null == -1                            \* FM_NULL_SLOT
Keys == 0 .. NKeys - 1
Buckets == 0 .. NBuckets - 1
Rows == [0 .. NKeys -> Vals]          \* one column per key, one without
ChunkCap == (MaxRecords + ChunkSize - 1) \div ChunkSize
NSlots == ChunkCap * ChunkSize
Slots == 0 .. NSlots - 1

ASSUME ThreadsAssumption == None \notin Threads
ASSUME KeysAssumption ==
  /\ NKeys \in Nat \ {0} /\ Unique \subseteq Keys
  /\ NBuckets \in Nat \ {0} /\ BucketOf \in [Vals -> Buckets]
ASSUME ImagesAssumption == Images \subseteq Rows /\ Images # {} /\ NullVals \subseteq Vals
ASSUME SizeAssumption == ChunkSize \in Nat \ {0} /\ MaxRecords \in Nat \ {0} /\ MaxOps \in Nat
ASSUME LoadedAssumption ==
  \E n \in 0 .. MaxRecords : Loaded \in [1 .. n -> Rows]

\* The locks of a table, in the order the statements nest them.
RowLock(i) == <<"row", i>>
StructMutex == <<"struct">>
BucketLock(k, b) == <<"bucket", k, b>>
Locks == {RowLock(i) : i \in Slots} \cup {StructMutex}
           \cup {BucketLock(k, b) : k \in Keys, b \in Buckets}
Rank(l) ==
  CASE l[1] = "row" -> 0 [] l[1] = "struct" -> 1 [] OTHER -> 2 + l[2] * NBuckets + l[3]

VARIABLES
  state, gen, row,         \* FM_SLOT of each slot, and its image
  index,                   \* FM_KEY_CORE of each key: chain heads and links
  owner,                   \* who holds each lock
  free_head, free_next,    \* the freelist
  chunk_cnt, records,
  c,                       \* the locals of each thread
  ops,                     \* the lookups and inserts it may still start
  mix                      \* the statements that run in this behaviour

slotVars == <<state, gen, row>>
freeVars == <<free_head, free_next, chunk_cnt>>
vars == <<state, gen, row, index, owner, free_head, free_next, chunk_cnt, records, c, ops, mix>>

Total == chunk_cnt * ChunkSize        \* fm_core_slot_count
Min(a, b) == IF a < b THEN a ELSE b
Max(S) == CHOOSE x \in S : \A y \in S : y <= x
-----------------------------------------------------------------------------
(* Hash chains.  x is the FM_KEY_CORE of one key: heads and links. *)

\* The slots of a chain from its head on; Null once it ends.
ChainAt(x, b) ==
  LET at[n \in 0 .. NSlots] ==
        IF n = 0 THEN x.head[b] ELSE IF at[n - 1] = Null THEN Null ELSE x.next[at[n - 1]]
  IN  at
Chain(x, b) == {ChainAt(x, b)[n] : n \in 0 .. NSlots} \ {Null}

\* fm_core_chain_unlink: nothing happens if the slot is not in the chain.
Unlinked(x, b, i) ==
  IF x.head[b] = i
    THEN [x EXCEPT !.head[b] = x.next[i]]
    ELSE [x EXCEPT !.next =
            [j \in Slots |-> IF j \in Chain(x, b) /\ x.next[j] = i THEN x.next[i] ELSE x.next[j]]]

\* fm_core_chain_link.
Linked(x, b, i) == [x EXCEPT !.next[i] = x.head[b], !.head[b] = i]

\* fm_core_key_bucket, and the lock of that bucket.
Bucket(k, r) == BucketOf[r[k]]
LockOf(k, r) == BucketLock(k, Bucket(k, r))
-----------------------------------------------------------------------------
\* The table after fm_core_init_share and one insert per loaded record.
LoadedCount == Cardinality(DOMAIN Loaded)
LoadedChunks == (LoadedCount + ChunkSize - 1) \div ChunkSize
LoadedEnd == Min(LoadedChunks * ChunkSize, MaxRecords)
LoadedIn(k, b, n) == {i \in 0 .. n - 1 : Bucket(k, Loaded[i + 1]) = b}
MaxOrNull(S) == IF S = {} THEN Null ELSE Max(S)

Start ==
  [pc |-> "idle", stmt |-> "none", key |-> 0, val |-> CHOOSE v \in Vals : TRUE,
   idx |-> Null, pos |-> 0, exp |-> 0, old |-> CHOOSE r \in Rows : TRUE,
   new |-> CHOOSE r \in Rows : TRUE, after |-> TRUE, h |-> Null, k |-> 0,
   ret |-> "none", dup |-> -1, errkey |-> -1]

Init ==
  /\ state = [i \in Slots |-> IF i < LoadedCount THEN "ACTIVE" ELSE "FREE"]
  /\ gen = [i \in Slots |-> 0]
  /\ row = [i \in Slots |-> IF i < LoadedCount THEN Loaded[i + 1] ELSE Start.old]
  /\ index = [k \in Keys |->
       [head |-> [b \in Buckets |-> MaxOrNull(LoadedIn(k, b, LoadedCount))],
        next |-> [i \in Slots |->
                    IF i < LoadedCount THEN MaxOrNull(LoadedIn(k, Bucket(k, Loaded[i + 1]), i))
                    ELSE Null]]]
  /\ owner = [l \in Locks |-> None]
  /\ free_head = IF LoadedCount < LoadedEnd THEN LoadedCount ELSE Null
  /\ free_next = [i \in Slots |->
       IF i >= LoadedCount /\ i < LoadedEnd - 1 THEN i + 1 ELSE Null]
  /\ chunk_cnt = LoadedChunks
  /\ records = LoadedCount
  /\ c = [t \in Threads |-> Start]
  /\ ops = [t \in Threads |-> MaxOps]
  /\ mix \in Mixes
-----------------------------------------------------------------------------
(* Steps of a thread: locks, locals, begin and end of a statement. *)

Acquire(t, l) == owner[l] = None /\ owner' = [owner EXCEPT ![l] = t]
Release(t, S) == owner' = [l \in Locks |-> IF l \in S /\ owner[l] = t THEN None ELSE owner[l]]
ReleaseAll(t) == Release(t, Locks)

Set(t, r) == c' = [c EXCEPT ![t] = r]
Goto(t, l) == Set(t, [c[t] EXCEPT !.pc = l])
Return(t, r) == Set(t, [Start EXCEPT !.stmt = c[t].stmt, !.ret = r])

\* FM_ERR_DUP_KEY: key k clashed, and errkey is what the caller is told.
Refuse(t, k, errkey) ==
  Set(t, [Start EXCEPT !.stmt = c[t].stmt, !.ret = "DUP_KEY", !.dup = k, !.errkey = errkey])

Spend(t) == ops[t] > 0 /\ ops' = [ops EXCEPT ![t] = @ - 1]
Begin(t, s) == c[t].pc = "idle" /\ s \in mix /\ Spend(t)
-----------------------------------------------------------------------------
(* Lookups: fm_core_find and fm_core_find_next under the bucket lock. *)

Lookups == {"select", "update", "delete"}

Find(t, s, k, v) ==
  /\ s \in Lookups /\ Begin(t, s)
  /\ Acquire(t, BucketLock(k, BucketOf[v]))
  /\ Set(t, [Start EXCEPT !.pc = "walk", !.stmt = s, !.key = k, !.val = v,
                          !.h = index[k].head[BucketOf[v]]])
  /\ UNCHANGED <<slotVars, index, freeVars, records>>

\* index_next from the row of the previous read, whatever the key: a unique one
\* has duplicates too where it is NULL.  A write statement that left that row
\* alone still holds its row lock.
IndexNext(t) ==
  /\ c[t].pc \in {"cursor", "rmw"}
  /\ Spend(t)
  /\ Goto(t, "next")
  /\ UNCHANGED <<slotVars, index, owner, freeVars, records>>

\* Only rows behind the current one in the chain count.
FindNext(t) ==
  /\ c[t].pc = "next"
  /\ Acquire(t, BucketLock(c[t].key, BucketOf[c[t].val]))
  /\ Set(t, [c[t] EXCEPT !.pc = "walk", !.after = FALSE,
                         !.h = index[c[t].key].head[BucketOf[c[t].val]]])
  /\ UNCHANGED <<slotVars, index, freeVars, records, ops>>

\* One node of the chain; a slot that is not ACTIVE never matches.
Matches(t, i) == state[i] = "ACTIVE" /\ row[i][c[t].key] = c[t].val
\* Mutant: the walk does not step over a node that is not ACTIVE.
WalkStuck(t) ==
  LET h == c[t].h IN
  /\ c[t].pc = "walk"
  /\ \/ h = Null /\ ReleaseAll(t) /\ Return(t, "NOT_FOUND")
     \/ /\ h # Null /\ h # c[t].idx /\ c[t].after /\ Matches(t, h)
        /\ Release(t, {BucketLock(c[t].key, BucketOf[c[t].val])})
        /\ Set(t, [c[t] EXCEPT !.pc = "found", !.idx = h, !.h = Null])
     \/ /\ h # Null /\ (h = c[t].idx \/ ~c[t].after \/ ~Matches(t, h))
        /\ Set(t, [c[t] EXCEPT !.h = IF state[h] = "ACTIVE" THEN index[c[t].key].next[h] ELSE h,
                               !.after = @ \/ h = c[t].idx])
        /\ UNCHANGED owner
  /\ UNCHANGED <<slotVars, index, freeVars, records, ops>>

Walk(t) ==
  LET h == c[t].h IN
  /\ c[t].pc = "walk"
  /\ \/ h = Null /\ ReleaseAll(t) /\ Return(t, "NOT_FOUND")
     \/ /\ h # Null /\ h # c[t].idx /\ c[t].after /\ Matches(t, h)
        /\ Release(t, {BucketLock(c[t].key, BucketOf[c[t].val])})
        /\ Set(t, [c[t] EXCEPT !.pc = "found", !.idx = h, !.h = Null])
     \/ /\ h # Null /\ (h = c[t].idx \/ ~c[t].after \/ ~Matches(t, h))
        /\ Set(t, [c[t] EXCEPT !.h = index[c[t].key].next[h], !.after = @ \/ h = c[t].idx])
        /\ UNCHANGED owner
  /\ UNCHANGED <<slotVars, index, freeVars, records, ops>>

\* fm_find_key and fm_find_next_key: the generation of the row just found.  A
\* write statement goes on to lock_current_row, which drops the previous row.
SavePosition(t) ==
  /\ c[t].pc = "found"
  /\ Set(t, [c[t] EXCEPT !.pc = IF c[t].stmt = "select" THEN "cursor" ELSE "lockrow",
                         !.pos = gen[c[t].idx]])
  /\ ReleaseAll(t)
  /\ UNCHANGED <<slotVars, index, freeVars, records, ops>>

\* The statement reads no further row; external_lock drops a row lock.
EndStmt(t) ==
  /\ c[t].pc \in {"cursor", "rmw"}
  /\ ReleaseAll(t) /\ Return(t, "OK")
  /\ UNCHANGED <<slotVars, index, freeVars, records, ops>>

\* index_read_map and index_next of a write statement: lock, fm_reread_locked.
LockRow(t) ==
  /\ c[t].pc = "lockrow"
  /\ Acquire(t, RowLock(c[t].idx))
  /\ Goto(t, "reread")
  /\ UNCHANGED <<slotVars, index, freeVars, records, ops>>

Reread(t) ==
  LET i == c[t].idx IN
  /\ c[t].pc = "reread"
  /\ IF state[i] = "ACTIVE"
       THEN /\ Set(t, [c[t] EXCEPT !.pc = "rmw", !.exp = gen[i], !.old = row[i]])
            /\ UNCHANGED owner
       ELSE ReleaseAll(t) /\ Return(t, "NOT_FOUND")
  /\ UNCHANGED <<slotVars, index, freeVars, records, ops>>

\* update_row or delete_row is done; i is current_slot afterwards.
Resume(t, i) ==
  Set(t, [Start EXCEPT !.pc = "cursor", !.stmt = c[t].stmt, !.key = c[t].key,
                       !.val = c[t].val, !.idx = i])
-----------------------------------------------------------------------------
(* fm_core_dup_check of key c[t].k, under the lock of the new record's     *)
(* bucket; shared by INSERT and by a key change.                           *)

Checked(t) == c[t].k \in Unique /\ c[t].new[c[t].k] \notin NullVals
Clash(t, i) == state[i] = "ACTIVE" /\ row[i][c[t].k] = c[t].new[c[t].k]
DupPassed(t) == c[t].pc = "dup" /\ (~Checked(t) \/ c[t].h = Null)
DupFound(t) == c[t].pc = "dup" /\ Checked(t) /\ c[t].h # Null /\ Clash(t, c[t].h)

DupWalk(t) ==
  /\ c[t].pc = "dup" /\ Checked(t) /\ c[t].h # Null /\ ~Clash(t, c[t].h)
  /\ Set(t, [c[t] EXCEPT !.h = index[c[t].k].next[c[t].h]])
  /\ UNCHANGED <<slotVars, index, owner, freeVars, records, ops>>
-----------------------------------------------------------------------------
(* INSERT: fm_core_insert_row. *)

Reserved(t, i, v) ==
  /\ Acquire(t, StructMutex)
  /\ row' = [row EXCEPT ![i] = v]
  /\ Set(t, [Start EXCEPT !.pc = "link", !.stmt = "insert", !.idx = i, !.new = v])

\* Mutant: the slot is handed out but stays on the freelist.
InsertReuseKeeps(t, v) ==
  /\ Begin(t, "insert")
  /\ free_head # Null
  /\ Reserved(t, free_head, v)
  /\ UNCHANGED <<state, gen, index, freeVars, records>>

\* fm_core_alloc_slot, from the freelist.
InsertReuse(t, v) ==
  /\ Begin(t, "insert")
  /\ free_head # Null
  /\ Reserved(t, free_head, v)
  /\ free_head' = free_next[free_head]
  /\ UNCHANGED <<state, gen, index, free_next, chunk_cnt, records>>

\* Mutant: the freed slots of the last chunk are not clamped to max_records.
InsertGrowPastLimit(t, v) ==
  LET end == Total + ChunkSize IN
  /\ Begin(t, "insert")
  /\ free_head = Null /\ Total < MaxRecords
  /\ Reserved(t, Total, v)
  /\ free_head' = IF Total + 1 < end THEN Total + 1 ELSE Null
  /\ free_next' = [i \in Slots |->
       IF i > Total /\ i < end THEN (IF i + 1 < end THEN i + 1 ELSE Null) ELSE free_next[i]]
  /\ chunk_cnt' = chunk_cnt + 1
  /\ UNCHANGED <<state, gen, index, records>>

\* fm_core_grow_chunk: the first slot of the new chunk, the others freed.
InsertGrow(t, v) ==
  LET end == Min(Total + ChunkSize, MaxRecords) IN
  /\ Begin(t, "insert")
  /\ free_head = Null /\ Total < MaxRecords
  /\ Reserved(t, Total, v)
  /\ free_head' = IF Total + 1 < end THEN Total + 1 ELSE Null
  /\ free_next' = [i \in Slots |->
       IF i > Total /\ i < end THEN (IF i + 1 < end THEN i + 1 ELSE Null) ELSE free_next[i]]
  /\ chunk_cnt' = chunk_cnt + 1
  /\ UNCHANGED <<state, gen, index, records>>

\* No slot: the table is full, or the allocator has no memory for a chunk.
InsertRefused(t, v) ==
  /\ Begin(t, "insert")
  /\ owner[StructMutex] = None /\ free_head = Null
  /\ Set(t, [Start EXCEPT !.stmt = "insert",
                          !.ret = IF chunk_cnt >= ChunkCap THEN "FULL" ELSE "NOMEM"])
  /\ UNCHANGED <<slotVars, index, owner, freeVars, records>>

InsertLock(t) ==
  /\ c[t].pc = "link"
  /\ Acquire(t, LockOf(c[t].k, c[t].new))
  /\ Set(t, [c[t] EXCEPT !.pc = "dup", !.h = index[c[t].k].head[Bucket(c[t].k, c[t].new)]])
  /\ UNCHANGED <<slotVars, index, freeVars, records, ops>>

InsertLink(t) ==
  LET k == c[t].k IN
  /\ DupPassed(t) /\ c[t].stmt = "insert"
  /\ index' = [index EXCEPT ![k] = Linked(@, Bucket(k, c[t].new), c[t].idx)]
  /\ Release(t, {LockOf(k, c[t].new)})
  /\ Set(t, [c[t] EXCEPT !.pc = IF k + 1 < NKeys THEN "link" ELSE "publish",
                         !.k = k + 1, !.h = Null])
  /\ UNCHANGED <<slotVars, freeVars, records, ops>>

InsertDup(t) ==
  /\ DupFound(t) /\ c[t].stmt = "insert"
  /\ Release(t, {LockOf(c[t].k, c[t].new)})
  /\ Set(t, [c[t] EXCEPT !.pc = "rollback", !.dup = c[t].k, !.k = @ - 1, !.h = Null])
  /\ UNCHANGED <<slotVars, index, freeVars, records, ops>>

\* The keys linked so far, last one first.
InsertUnlink(t) ==
  LET k == c[t].k IN
  /\ c[t].pc = "rollback" /\ k >= 0
  /\ owner[LockOf(k, c[t].new)] = None
  /\ index' = [index EXCEPT ![k] = Unlinked(@, Bucket(k, c[t].new), c[t].idx)]
  /\ Set(t, [c[t] EXCEPT !.k = k - 1])
  /\ UNCHANGED <<slotVars, owner, freeVars, records, ops>>

\* fm_core_free_slot.
Push(i) ==
  /\ free_next' = [free_next EXCEPT ![i] = free_head]
  /\ free_head' = i

\* Mutant: the slot of a refused record is not given back.
InsertRolledBackLeak(t) ==
  /\ c[t].pc = "rollback" /\ c[t].k < 0
  /\ ReleaseAll(t)
  /\ Refuse(t, c[t].dup, c[t].k + 1)
  /\ UNCHANGED <<slotVars, index, freeVars, records, ops>>

\* The key counter has run below zero when *errkey is computed from it.
InsertRolledBack(t) ==
  /\ c[t].pc = "rollback" /\ c[t].k < 0
  /\ Push(c[t].idx)
  /\ ReleaseAll(t)
  /\ Refuse(t, c[t].dup, c[t].k + 1)
  /\ UNCHANGED <<slotVars, index, chunk_cnt, records, ops>>

InsertPublish(t) ==
  /\ c[t].pc = "publish"
  /\ state' = [state EXCEPT ![c[t].idx] = "ACTIVE"]
  /\ Goto(t, "count")
  /\ UNCHANGED <<gen, row, index, owner, freeVars, records, ops>>

InsertCount(t) ==
  /\ c[t].pc = "count"
  /\ records' = records + 1
  /\ ReleaseAll(t) /\ Return(t, "OK")
  /\ UNCHANGED <<slotVars, index, freeVars, ops>>
-----------------------------------------------------------------------------
(* UPDATE: fm_core_update_row_locked, then unlock_current_row.  The server  *)
(* calls update_row and delete_row right after the read of the row, so the  *)
(* row lock is held and their branch without it is never taken.             *)

Verified(t) == state[c[t].idx] = "ACTIVE" /\ gen[c[t].idx] = c[t].exp
Changed(t) == {k \in Keys : c[t].old[k] # c[t].new[k]}

\* Mutant: only the old buckets are locked.
LocksetOld(t) == {LockOf(k, c[t].old) : k \in Changed(t)}

\* The lockset of a key change, and what is left of it to lock.
Lockset(t) == {LockOf(k, r) : k \in Changed(t), r \in {c[t].old, c[t].new}}
ToLock(t) == {l \in Lockset(t) : owner[l] # t}

\* Mutant: the lockset is taken from the end.
NextLockDescending(t) == CHOOSE l \in ToLock(t) : \A m \in ToLock(t) : Rank(l) >= Rank(m)

NextLock(t) == CHOOSE l \in ToLock(t) : \A m \in ToLock(t) : Rank(l) <= Rank(m)

UpdateRow(t, v) ==
  LET i == c[t].idx IN
  /\ c[t].pc = "rmw" /\ c[t].stmt = "update"
  /\ IF Verified(t)
       THEN \/ /\ \A k \in Keys : v[k] = c[t].old[k]
               /\ row' = [row EXCEPT ![i] = v]
               /\ ReleaseAll(t) /\ Resume(t, i)
            \/ /\ \E k \in Keys : v[k] # c[t].old[k]
               /\ Set(t, [c[t] EXCEPT !.pc = "lockset", !.new = v])
               /\ UNCHANGED <<row, owner>>
       ELSE ReleaseAll(t) /\ Return(t, "DELETED") /\ UNCHANGED row
  /\ UNCHANGED <<state, gen, index, freeVars, records, ops>>

LockBucket(t) ==
  /\ c[t].pc = "lockset" /\ ToLock(t) # {}
  /\ Acquire(t, NextLock(t))
  /\ UNCHANGED <<slotVars, index, freeVars, records, c, ops>>

\* The duplicate check of the next changed key.
Check(t, k) ==
  Set(t, [c[t] EXCEPT !.pc = "dup", !.k = k, !.h = index[k].head[Bucket(k, c[t].new)]])
ChangedFrom(t, k) == {j \in Changed(t) : j >= k}
Least(S) == CHOOSE x \in S : \A y \in S : x <= y

UpdateCheck(t) ==
  /\ c[t].pc = "lockset" /\ ToLock(t) = {}
  /\ Check(t, Least(Changed(t)))
  /\ UNCHANGED <<slotVars, index, owner, freeVars, records, ops>>

\* Mutant: the old chain keeps the row.
RelinkedKeepsOld(t, k) == Linked(index[k], Bucket(k, c[t].new), c[t].idx)

\* Every check has passed: image, chains, bucket locks, row lock.
Relinked(t, k) ==
  Linked(Unlinked(index[k], Bucket(k, c[t].old), c[t].idx), Bucket(k, c[t].new), c[t].idx)

UpdatePassed(t) ==
  LET rest == ChangedFrom(t, c[t].k + 1) IN
  /\ DupPassed(t) /\ c[t].stmt = "update"
  /\ \/ rest # {} /\ Check(t, Least(rest)) /\ UNCHANGED <<row, index, owner>>
     \/ /\ rest = {}
        /\ row' = [row EXCEPT ![c[t].idx] = c[t].new]
        /\ index' = [k \in Keys |-> IF k \in Changed(t) THEN Relinked(t, k) ELSE index[k]]
        /\ ReleaseAll(t) /\ Resume(t, c[t].idx)
  /\ UNCHANGED <<state, gen, freeVars, records, ops>>

UpdateDup(t) ==
  /\ DupFound(t) /\ c[t].stmt = "update"
  /\ ReleaseAll(t) /\ Refuse(t, c[t].k, c[t].k + 1)
  /\ UNCHANGED <<slotVars, index, freeVars, records, ops>>
-----------------------------------------------------------------------------
(* DELETE: fm_core_delete_row_locked, then unlock_current_row. *)

DeleteRow(t) ==
  /\ c[t].pc = "rmw" /\ c[t].stmt = "delete"
  /\ IF Verified(t)
       THEN /\ state' = [state EXCEPT ![c[t].idx] = "DELETING"]
            /\ Set(t, [c[t] EXCEPT !.pc = "unlink", !.old = row[c[t].idx], !.k = 0])
            /\ UNCHANGED owner
       ELSE ReleaseAll(t) /\ Return(t, "DELETED") /\ UNCHANGED state
  /\ UNCHANGED <<gen, row, index, freeVars, records, ops>>

\* Mutant: the chains keep the deleted row.
DeleteUnlinkMissing(t) ==
  LET k == c[t].k IN
  /\ c[t].pc = "unlink"
  /\ owner[LockOf(k, c[t].old)] = None
  /\ Set(t, [c[t] EXCEPT !.pc = IF k + 1 < NKeys THEN "unlink" ELSE "bump", !.k = k + 1])
  /\ UNCHANGED <<slotVars, index, owner, freeVars, records, ops>>

DeleteUnlink(t) ==
  LET k == c[t].k IN
  /\ c[t].pc = "unlink"
  /\ owner[LockOf(k, c[t].old)] = None
  /\ index' = [index EXCEPT ![k] = Unlinked(@, Bucket(k, c[t].old), c[t].idx)]
  /\ Set(t, [c[t] EXCEPT !.pc = IF k + 1 < NKeys THEN "unlink" ELSE "bump", !.k = k + 1])
  /\ UNCHANGED <<slotVars, owner, freeVars, records, ops>>

\* Mutants: the generation runs backwards; the row count is not kept.
DeleteDoneGenDown(t) ==
  LET i == c[t].idx IN
  /\ c[t].pc = "bump"
  /\ state' = [state EXCEPT ![i] = "DELETED"]
  /\ gen' = [gen EXCEPT ![i] = @ - 1]
  /\ records' = records - 1
  /\ Goto(t, "push")
  /\ UNCHANGED <<row, index, owner, freeVars, ops>>

DeleteDoneUncounted(t) ==
  LET i == c[t].idx IN
  /\ c[t].pc = "bump"
  /\ state' = [state EXCEPT ![i] = "DELETED"]
  /\ gen' = [gen EXCEPT ![i] = @ + 1]
  /\ Goto(t, "push")
  /\ UNCHANGED <<row, index, owner, freeVars, records, ops>>

DeleteDone(t) ==
  LET i == c[t].idx IN
  /\ c[t].pc = "bump"
  /\ state' = [state EXCEPT ![i] = "DELETED"]
  /\ gen' = [gen EXCEPT ![i] = @ + 1]
  /\ records' = records - 1
  /\ Goto(t, "push")
  /\ UNCHANGED <<row, index, owner, freeVars, ops>>

DeletePush(t) ==
  /\ c[t].pc = "push"
  /\ owner[StructMutex] = None
  /\ Push(c[t].idx)
  /\ ReleaseAll(t) /\ Resume(t, Null)
  /\ UNCHANGED <<slotVars, index, chunk_cnt, records, ops>>
-----------------------------------------------------------------------------
(* delete_all_rows: fm_core_clear; k and h count keys and buckets, idx the *)
(* slots.                                                                  *)

Clear(t) ==
  /\ Begin(t, "clear")
  /\ Acquire(t, StructMutex)
  /\ Set(t, [Start EXCEPT !.pc = "heads", !.stmt = "clear", !.h = 0])
  /\ UNCHANGED <<slotVars, index, freeVars, records>>

ClearHead(t) ==
  LET k == c[t].k
      b == c[t].h
      last == b + 1 = NBuckets
  IN
  /\ c[t].pc = "heads" /\ k < NKeys
  /\ owner[BucketLock(k, b)] = None
  /\ index' = [index EXCEPT ![k].head[b] = Null]
  /\ Set(t, [c[t] EXCEPT !.k = IF last THEN k + 1 ELSE k, !.h = IF last THEN 0 ELSE b + 1,
                         !.idx = 0])
  /\ UNCHANGED <<slotVars, owner, freeVars, records, ops>>

ClearSlot(t) ==
  LET i == c[t].idx IN
  /\ c[t].pc = "heads" /\ c[t].k = NKeys /\ i < Total
  /\ owner[RowLock(i)] = None
  /\ state' = [state EXCEPT ![i] = "FREE"]
  /\ gen' = [gen EXCEPT ![i] = @ + 1]
  /\ Set(t, [c[t] EXCEPT !.idx = i + 1])
  /\ UNCHANGED <<row, index, owner, freeVars, records, ops>>

\* Mutant: the row count is not reset.
ClearRebuildUncounted(t) ==
  /\ c[t].pc = "heads" /\ c[t].k = NKeys /\ c[t].idx = Total
  /\ free_head' = Total - 1
  /\ free_next' = [i \in Slots |-> IF i < Total THEN i - 1 ELSE free_next[i]]
  /\ ReleaseAll(t) /\ Return(t, "OK")
  /\ UNCHANGED <<slotVars, index, chunk_cnt, records, ops>>

\* Every slot of every chunk goes to the freelist.
ClearRebuild(t) ==
  /\ c[t].pc = "heads" /\ c[t].k = NKeys /\ c[t].idx = Total
  /\ free_head' = Total - 1
  /\ free_next' = [i \in Slots |-> IF i < Total THEN i - 1 ELSE free_next[i]]
  /\ records' = 0
  /\ ReleaseAll(t) /\ Return(t, "OK")
  /\ UNCHANGED <<slotVars, index, chunk_cnt, ops>>
-----------------------------------------------------------------------------
LookupStep(t) ==
  \/ \E s \in Lookups, k \in Keys, v \in Vals : Find(t, s, k, v)
  \/ IndexNext(t) \/ FindNext(t) \/ Walk(t) \/ SavePosition(t) \/ EndStmt(t)
  \/ LockRow(t) \/ Reread(t)

InsertStep(t) ==
  \/ \E v \in Images : InsertReuse(t, v) \/ InsertGrow(t, v) \/ InsertRefused(t, v)
  \/ InsertLock(t) \/ DupWalk(t) \/ InsertLink(t) \/ InsertDup(t) \/ InsertUnlink(t)
  \/ InsertRolledBack(t) \/ InsertPublish(t) \/ InsertCount(t)

UpdateStep(t) ==
  \/ \E v \in Images : UpdateRow(t, v)
  \/ LockBucket(t) \/ UpdateCheck(t) \/ UpdatePassed(t) \/ UpdateDup(t)

DeleteStep(t) == DeleteRow(t) \/ DeleteUnlink(t) \/ DeleteDone(t) \/ DeletePush(t)

ClearStep(t) == Clear(t) \/ ClearHead(t) \/ ClearSlot(t) \/ ClearRebuild(t)

Step(t) ==
  /\ LookupStep(t) \/ InsertStep(t) \/ UpdateStep(t) \/ DeleteStep(t) \/ ClearStep(t)
  /\ UNCHANGED mix

\* No statement is running.
Quiescent == \A t \in Threads : c[t].pc = "idle"
AllReturned == Quiescent /\ UNCHANGED vars

Next == (\E t \in Threads : Step(t)) \/ AllReturned
Spec == Init /\ [][Next]_vars

\* A thread inside a statement keeps running.
FairSpec == Spec /\ \A t \in Threads : WF_vars(c[t].pc # "idle" /\ Step(t))
-----------------------------------------------------------------------------
(* Properties. *)

Labels == {"idle", "walk", "found", "cursor", "next", "lockrow", "reread", "rmw", "dup", "link",
           "rollback", "publish", "count", "lockset", "unlink", "bump", "push", "heads"}
Local ==
  [pc : Labels, stmt : (UNION Mixes) \cup {"none"}, key : Keys, val : Vals,
   idx : 0 .. NSlots \cup {Null}, pos : Nat, exp : Nat, old : Rows, new : Rows,
   after : BOOLEAN, h : Nat \cup {Null}, k : -1 .. NKeys,
   ret : {"none", "OK", "NOT_FOUND", "DELETED", "DUP_KEY", "FULL", "NOMEM"},
   dup : Keys \cup {-1}, errkey : Nat \cup {-1}]

\* Every variable has the type its declaration in fm_core.h gives it.
TypeOK ==
  /\ state \in [Slots -> {"FREE", "ACTIVE", "DELETING", "DELETED"}]
  /\ gen \in [Slots -> Nat] /\ row \in [Slots -> Rows]
  /\ index \in [Keys -> [head : [Buckets -> Slots \cup {Null}],
                         next : [Slots -> Slots \cup {Null}]]]
  /\ owner \in [Locks -> Threads \cup {None}]
  /\ free_head \in Slots \cup {Null} /\ free_next \in [Slots -> Slots \cup {Null}]
  /\ chunk_cnt \in 0 .. ChunkCap /\ records \in Int
  /\ c \in [Threads -> Local] /\ ops \in [Threads -> Nat] /\ mix \in Mixes

FreeAt ==
  LET at[n \in 0 .. NSlots] ==
        IF n = 0 THEN free_head ELSE IF at[n - 1] = Null THEN Null ELSE free_next[at[n - 1]]
  IN  at
FreeList == {FreeAt[n] : n \in 0 .. NSlots} \ {Null}
Active == {i \in Slots : state[i] = "ACTIVE"}

\* The slot a thread has taken off the table or not yet put into it.
Inserting(t) == c[t].stmt = "insert" /\ c[t].pc \in {"link", "dup", "rollback", "publish"}
Deleting(t) == c[t].pc \in {"unlink", "bump", "push"}
InHand == {c[t].idx : t \in {u \in Threads : Inserting(u) \/ Deleting(u)}}

\* delete_all_rows has begun to reset the chains.
Clearing == \E t \in Threads : c[t].pc = "heads"

\* Hash index: every chain ends, holds only slots of its own bucket that carry
\* a row or are in the hands of a statement, and every visible row is in the
\* chain of its key, whatever inserts, rollbacks, key changes and deletes do.
IndexIntegrity ==
  \A k \in Keys :
    /\ \A b \in Buckets :
         /\ ChainAt(index[k], b)[NSlots] = Null
         /\ \A i \in Chain(index[k], b) : Bucket(k, row[i]) = b /\ i \in Active \cup InHand
    /\ Clearing \/ \A i \in Active : i \in Chain(index[k], Bucket(k, row[i]))

\* Freelist: it ends, holds no slot with a row or in the hands of a statement,
\* and no slot below the row limit is lost.
FreelistIntegrity ==
  /\ FreeAt[NSlots] = Null
  /\ FreeList \cap (Active \cup InHand) = {}
  /\ Clearing \/ {i \in Slots : i < Min(Total, MaxRecords)} \subseteq FreeList \cup Active \cup InHand

\* fm_core.h:1044-1045, an UPDATE is serialized with the clear: a slot that the
\* clear has put on the freelist is in no hash chain, whatever ran beside it.
FreeNotChained == \A k \in Keys, b \in Buckets : Chain(index[k], b) \cap FreeList = {}

\* No two visible rows agree on a unique key without a NULL part.
UniqueKeys ==
  \A k \in Unique : \A i, j \in Active :
    i # j /\ row[i][k] = row[j][k] => row[i][k] \in NullVals

\* fm_core.h:210, max_records is a hard row limit: growing the table by a chunk
\* and reusing deleted slots never make more rows visible.  A clear does not
\* keep to it (run core_limit).
RowLimit == Cardinality(Active) <= MaxRecords

\* HA_STATS_RECORDS_IS_EXACT: between statements, records counts the rows.
RecordsExact == Quiescent => records = Cardinality(Active)

\* The lock a thread is about to spin on, if any.
Awaited(t) ==
  CASE c[t].pc = "next" -> {BucketLock(c[t].key, BucketOf[c[t].val])}
    [] c[t].pc = "lockrow" -> {RowLock(c[t].idx)}
    [] c[t].pc = "link" \/ (c[t].pc = "rollback" /\ c[t].k >= 0) -> {LockOf(c[t].k, c[t].new)}
    [] c[t].pc = "lockset" /\ ToLock(t) # {} -> {NextLock(t)}
    [] c[t].pc = "unlink" -> {LockOf(c[t].k, c[t].old)}
    [] c[t].pc = "push" -> {StructMutex}
    [] c[t].pc = "heads" /\ c[t].k < NKeys -> {BucketLock(c[t].k, c[t].h)}
    [] c[t].pc = "heads" /\ c[t].k = NKeys /\ c[t].idx < Total -> {RowLock(c[t].idx)}
    [] OTHER -> {}

\* DESIGN.md section 3, no deadlock: a thread spins only on a lock that comes
\* after every lock it holds, so threads cannot wait for each other in a ring.
\* The clear is the exception: it takes row locks under struct_mutex, and with a
\* delete it does wait in a ring (NoCircularWait of FmSlot).
LockOrder ==
  \A t \in Threads : c[t].stmt # "clear" =>
    \A l \in Awaited(t), m \in Locks : owner[m] = t => Rank(m) < Rank(l)

\* fm_core.h:622-625: on a duplicate *errkey is the index of the key that clashed.
ErrKeyNamesKey == \A t \in Threads : c[t].ret = "DUP_KEY" => c[t].errkey = c[t].dup

\* fm_core.h:560-563: when the current row is gone, find_next returns the first
\* match, so it does not come back empty-handed while a row matches.
FindNextLoose ==
  \A t \in Threads :
    c[t].pc = "walk" /\ ~c[t].after /\ c[t].h = Null => \A i \in Slots : ~Matches(t, i)

\* fm_data.cc:93-94: the reread under the row lock accepts only the row that the
\* lookup found, not one that was put into the slot in the meantime.
RereadSameRow == \A t \in Threads : c[t].pc = "rmw" => c[t].exp = c[t].pos

\* DESIGN.md, section 2: records is an exact row count, so never below zero.
RecordsNeverNegative == records >= 0

\* Every statement ends, with the other threads running finitely many: no lock is
\* kept that another one waits for, and every walk along a chain comes to its end.
StatementsEnd == \A t \in Threads : []<>(c[t].pc = "idle")
=============================================================================
