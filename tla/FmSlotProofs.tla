---------------------------- MODULE FmSlotProofs ----------------------------
(***************************************************************************)
(* The steps of the slot's writers and of the clear keep the invariant of  *)
(* FmSlotInv; the theorems that follow for every number of threads, words, *)
(* images and keys.                                                        *)
(***************************************************************************)
EXTENDS FmSlotReadProofs

USE DEF Goto, Return, Begin, slotVars, lockVars, callVars, histVars

\* unlock_current_row of a row the statement leaves alone keeps the invariant.
LEMMA LeaveRowInv ==
  ASSUME Inv, NEW t \in Threads, LeaveRow(t)
  PROVE  Inv'
<1>1. TypeOK /\ LocksAt(t)
  BY Zenon DEF Inv, ThreadInv
<1>2. TypeOK' /\ Private(t)
  BY <1>1, Zenon DEF TypeOK, Labels, Codes, Private, Frame, Dying, Inserting, LocksAt, HoldsRow, Cycle, LeaveRow
<1> QED BY <1>1, <1>2, LeaveCall, CodesAssumption, Zenon DEF TypeOK, LeaveRow

\* The start of fm_core_update_row_locked keeps the invariant.
LEMMA UpdateRowInv ==
  ASSUME Inv, NEW t \in Threads, NEW v \in Images, UpdateRow(t, v)
  PROVE  Inv'
<1>1. TypeOK /\ ThreadInv(t)
  BY Zenon DEF Inv
<1>2. /\ pc[t] = "rmw" /\ new' = [new EXCEPT ![t] = v]
      /\ pc' = [pc EXCEPT ![t] = IF KeyOf[v] = KeyOf[buf[t]] THEN "odd" ELSE "lockset"]
      /\ UNCHANGED <<slotVars, lockVars, kind, key, exp, s1, todo, buf, ref, ret, ops, histVars>>
  BY <1>1, Zenon DEF UpdateRow, Verified, ThreadInv, CycleAt
<1>3. TypeOK' /\ Private(t)
  BY <1>1, <1>2, ImagesAssumption, Zenon DEF TypeOK, Labels, Private, Frame, Dying, Inserting
<1>4. KindAt(t)' /\ LocksAt(t)' /\ BucketsAt(t)'
  BY <1>1, <1>2, Zenon DEF TypeOK, ThreadInv, KindAt, LocksAt, BucketsAt, HoldsRow, HoldsStruct, KeyChanged,
                    Reading, Cycle, Inserting, Clearing
<1>5. CycleAt(t)' /\ StateAt(t)' /\ CopyAt(t)' /\ ReadAt(t)' /\ ResultAt(t)'
  BY <1>1, <1>2, Zenon DEF TypeOK, ThreadInv, CycleAt, StateAt, CopyAt, ReadAt, ResultAt, ReturnedRow,
                    Attempting, Reading, Inserting
<1>6. WindowAt(t)' /\ PositionAt(t)'
  BY <1>1, <1>2, Zenon DEF TypeOK, ThreadInv, WindowAt, PositionAt, Attempting, row
<1>7. \A u \in Threads : Untouched(t, u)'
  BY <1>1, <1>2, Zenon DEF TypeOK, Untouched, Attempting
<1> QED BY <1>3, <1>4, <1>5, <1>6, <1>7, PrivateStep, Zenon DEF ThreadInv

\* A bucket lock of a key change keeps the invariant.
LEMMA LockBucketInv ==
  ASSUME Inv, NEW t \in Threads, LockBucket(t)
  PROVE  Inv'
<1>1. TypeOK /\ ThreadInv(t)
  BY Zenon DEF Inv
<1>2. /\ pc[t] = "lockset" /\ UNCHANGED <<slotVars, wlock, smutex, pc, callVars, ret, histVars>>
  BY Zenon DEF LockBucket
<1>3. PICK b \in Unlocked(t) : block[b] = None /\ block' = [block EXCEPT ![b] = t]
  BY Zenon DEF LockBucket
<1>4. TypeOK' /\ Private(t)
  BY <1>1, <1>2, <1>3, Zenon DEF TypeOK, Private, Frame, Dying, Inserting
<1>5. KindAt(t)' /\ LocksAt(t)' /\ BucketsAt(t)'
  BY <1>1, <1>2, Zenon DEF ThreadInv, KindAt, LocksAt, BucketsAt, HoldsRow, HoldsStruct, Reading
<1>6. CycleAt(t)' /\ StateAt(t)' /\ CopyAt(t)' /\ ReadAt(t)' /\ ResultAt(t)'
  BY <1>1, <1>2, Zenon DEF ThreadInv, CycleAt, StateAt, CopyAt, ReadAt, ResultAt, ReturnedRow, Attempting
<1>7. WindowAt(t)' /\ PositionAt(t)'
  BY <1>1, <1>2, Zenon DEF ThreadInv, WindowAt, PositionAt, Attempting, row
<1>8. \A u \in Threads : Untouched(t, u)'
  BY <1>2, Zenon DEF Untouched, Attempting
<1> QED BY <1>4, <1>5, <1>6, <1>7, <1>8, PrivateStep, Zenon DEF ThreadInv

\* The duplicate check of a key change keeps the invariant.
LEMMA DupCheckInv ==
  ASSUME Inv, NEW t \in Threads, DupCheck(t)
  PROVE  Inv'
<1>1. TypeOK /\ ThreadInv(t)
  BY Zenon DEF Inv
<1>2. pc[t] = "lockset" /\ UNCHANGED <<slotVars, smutex, callVars, histVars>>
  BY Zenon DEF DupCheck
<1>3. CASE pc' = [pc EXCEPT ![t] = "odd"] /\ UNCHANGED <<wlock, block, ret>>
  <2>1. TypeOK' /\ Private(t)
    BY <1>1, <1>2, <1>3, Zenon DEF TypeOK, Labels, Private, Frame, Dying, Inserting
  <2>2. KindAt(t)' /\ LocksAt(t)'
    BY <1>1, <1>2, <1>3, Zenon DEF TypeOK, ThreadInv, KindAt, LocksAt, HoldsRow, HoldsStruct,
                            Reading, Cycle, Inserting, Clearing
  <2>3. BucketsAt(t)'
    <3>1. block[BucketOfRow(buf[t])] = t /\ block[BucketOfRow(new[t])] = t
      BY Zenon DEF DupCheck, Unlocked
    <3> QED BY <1>1, <1>2, <1>3, <3>1, Zenon DEF TypeOK, BucketsAt, BucketOfRow, Reading
  <2>4. CycleAt(t)' /\ StateAt(t)' /\ CopyAt(t)' /\ ReadAt(t)' /\ ResultAt(t)'
    BY <1>1, <1>2, <1>3, Zenon DEF TypeOK, ThreadInv, CycleAt, StateAt, CopyAt, ReadAt, ResultAt,
                            ReturnedRow, Attempting, Reading, Inserting
  <2>5. WindowAt(t)' /\ PositionAt(t)'
    BY <1>1, <1>2, <1>3, Zenon DEF TypeOK, ThreadInv, WindowAt, PositionAt, Attempting, row
  <2>6. \A u \in Threads : Untouched(t, u)'
    BY <1>1, <1>3, Zenon DEF TypeOK, Untouched, Attempting
  <2> QED BY <2>1, <2>2, <2>3, <2>4, <2>5, <2>6, PrivateStep, Zenon DEF ThreadInv
<1>4. CASE Unbucket(t) /\ wlock' = None /\ Return(t, DupKey)
  <2>1. TypeOK'
    BY <1>1, <1>2, <1>4, Zenon DEF TypeOK, Labels, Codes, Unbucket
  <2>2. Private(t)
    BY <1>1, <1>2, <1>4, Zenon DEF TypeOK, ThreadInv, LocksAt, HoldsRow, Cycle, Private, Frame, Dying,
                            Inserting, Unbucket
  <2> QED BY <1>1, <1>2, <1>4, <2>1, <2>2, LeaveCall, CodesAssumption, Zenon DEF TypeOK
<1> QED BY <1>3, <1>4, Zenon DEF DupCheck

\* Moving the slot to the chain of its new key keeps the invariant.
LEMMA RelinkInv ==
  ASSUME Inv, NEW t \in Threads, Relink(t)
  PROVE  Inv'
<1>1. TypeOK /\ LocksAt(t)
  BY Zenon DEF Inv, ThreadInv
<1>2. /\ pc[t] = "relink" /\ pc' = [pc EXCEPT ![t] = "idle"] /\ ret' = [ret EXCEPT ![t] = Ok]
      /\ Unbucket(t) /\ wlock' = None
      /\ UNCHANGED <<state, gen, seq, data, free, img, wrote, smutex, callVars, histVars>>
  BY Zenon DEF Relink
<1>3. linked' \subseteq Buckets
  <2>1. \A r \in Rows : BucketOfRow(r) \in Buckets
    BY ImagesAssumption, BucketsAssumption, Zenon DEF BucketOfRow
  <2> QED BY <1>1, <2>1, Zenon DEF TypeOK, Relink
<1>4. TypeOK'
  BY <1>1, <1>2, <1>3, Zenon DEF TypeOK, Labels, Codes, Unbucket
<1>5. Private(t)
  BY <1>1, <1>2, Zenon DEF TypeOK, LocksAt, HoldsRow, Cycle, Private, Frame, Dying, Inserting, Unbucket
<1> QED BY <1>1, <1>2, <1>4, <1>5, LeaveCall, CodesAssumption, Zenon DEF TypeOK

\* fm_core_delete_row_locked unlinking the slot keeps the invariant.
LEMMA DeleteUnlinkInv ==
  ASSUME Inv, NEW t \in Threads, DeleteUnlink(t)
  PROVE  Inv'
<1>1. TypeOK /\ ThreadInv(t)
  BY Zenon DEF Inv
<1>2. TypeOK' /\ Private(t)
  BY <1>1, Zenon DEF TypeOK, Labels, Private, Frame, Dying, Inserting, DeleteUnlink
<1>3. KindAt(t)' /\ LocksAt(t)' /\ BucketsAt(t)'
  BY <1>1, Zenon DEF TypeOK, ThreadInv, KindAt, LocksAt, BucketsAt, HoldsRow, HoldsStruct,
              Reading, Cycle, Inserting, Clearing, DeleteUnlink
<1>4. CycleAt(t)' /\ StateAt(t)' /\ CopyAt(t)' /\ ReadAt(t)' /\ ResultAt(t)'
  BY <1>1, Zenon DEF TypeOK, ThreadInv, CycleAt, StateAt, CopyAt, ReadAt, ResultAt, ReturnedRow,
              Attempting, Reading, Inserting, DeleteUnlink
<1>5. WindowAt(t)' /\ PositionAt(t)'
  BY <1>1, Zenon DEF TypeOK, ThreadInv, WindowAt, PositionAt, Attempting, row, DeleteUnlink
<1>6. \A u \in Threads : Untouched(t, u)'
  BY <1>1, Zenon DEF TypeOK, Untouched, Attempting, DeleteUnlink
<1> QED BY <1>2, <1>3, <1>4, <1>5, <1>6, PrivateStep, Zenon DEF ThreadInv

\* fm_core_clear resetting a bucket head keeps the invariant.
LEMMA ClearHeadInv ==
  ASSUME Inv, NEW t \in Threads, ClearHead(t)
  PROVE  Inv'
<1>1. TypeOK /\ ThreadInv(t)
  BY Zenon DEF Inv
<1>2. TypeOK' /\ Private(t)
  BY <1>1 DEF TypeOK, Private, Frame, Dying, Inserting, ClearHead
<1>3. KindAt(t)' /\ LocksAt(t)' /\ BucketsAt(t)' /\ StateAt(t)' /\ CopyAt(t)'
  BY <1>1, Zenon DEF ThreadInv, KindAt, LocksAt, BucketsAt, StateAt, CopyAt, HoldsRow, HoldsStruct,
              Reading, ClearHead
<1>4. CycleAt(t)' /\ WindowAt(t)' /\ ReadAt(t)' /\ PositionAt(t)' /\ ResultAt(t)'
  BY <1>1, Zenon DEF ThreadInv, CycleAt, WindowAt, ReadAt, PositionAt, ResultAt, ReturnedRow, row,
              Attempting, Reading, ClearHead
<1>5. \A u \in Threads : Untouched(t, u)'
  BY Zenon DEF Untouched, Attempting, ClearHead
<1> QED BY <1>2, <1>3, <1>4, <1>5, PrivateStep, Zenon DEF ThreadInv

\* A step on the slot that leaves the image and the generation alone, seen
\* from another thread.
LEMMA OtherThread ==
  ASSUME Inv, NEW t \in Threads, Frame(t), NEW u \in Threads \ {t},
         UNCHANGED <<gen, seq, data, img, wrote>>, recycled'[u] = recycled[u],
         state' = "ACTIVE" => state = "ACTIVE", seen[u] \subseteq seen'[u],
         pc[u] # "idle" => row' \in seen'[u], CycleAt(u)', StateAt(u)'
  PROVE  ThreadInv(u)'
<1>1. ThreadInv(u)
  BY Zenon DEF Inv
<1>2. KindAt(u)' /\ LocksAt(u)' /\ BucketsAt(u)'
  BY FrameLocks
<1>3. CopyAt(u)' /\ ReadAt(u)'
  BY <1>1, Zenon DEF ThreadInv, Frame, CopyAt, ReadAt, Attempting
<1>4. WindowAt(u)' /\ ResultAt(u)'
  BY <1>1, Zenon DEF ThreadInv, Frame, WindowAt, ResultAt, ReturnedRow, Attempting
<1>5. PositionAt(u)'
  BY <1>1, Zenon DEF ThreadInv, Frame, PositionAt, Attempting
<1> QED BY <1>2, <1>3, <1>4, <1>5, Zenon DEF ThreadInv

\* The relations between two threads survive a step of a thread that is not
\* inside fm_core_read_row.
LEMMA PairStep ==
  ASSUME Inv, NEW t \in Threads, Frame(t), pc'[t] \notin {"gen", "seq", "copy"},
         \A u \in Threads \ {t} : recycled[u] => recycled'[u],
         \A u \in Threads : InsertAlone(t, u)' /\ InsertAlone(u, t)' /\ Untouched(u, t)'
  PROVE  \A u, x \in Threads : InsertAlone(u, x)' /\ Untouched(u, x)'
<1> SUFFICES ASSUME NEW u \in Threads, NEW x \in Threads
             PROVE  InsertAlone(u, x)' /\ Untouched(u, x)'
  OBVIOUS
<1>1. InsertAlone(u, x) /\ Untouched(u, x)
  BY Zenon DEF Inv
<1>2. CASE u = t
  BY <1>2, Zenon DEF Untouched, Attempting
<1>3. CASE u # t /\ x # t
  BY <1>1, <1>3, Zenon DEF Frame, InsertAlone, Untouched, Attempting
<1> QED BY <1>2, <1>3

\* The store of FM_SLOT_DELETED keeps the invariant.
LEMMA DeleteStateInv ==
  ASSUME Inv, NEW t \in Threads, DeleteState(t)
  PROVE  Inv'
<1>1. TypeOK /\ ThreadInv(t) /\ FreeInvisible /\ SeqParity
  BY Zenon DEF Inv
<1>2. /\ pc[t] = "deleted" /\ pc' = [pc EXCEPT ![t] = "bump"] /\ state = "DELETING" /\ state' = "DELETED"
      /\ UNCHANGED <<gen, seq, data, linked, free, img, wrote, lockVars, callVars, ret, histVars>>
  BY <1>1, Zenon DEF DeleteState, ThreadInv, StateAt
<1>3. TypeOK' /\ Frame(t)
  BY <1>1, <1>2, Zenon DEF TypeOK, Labels, Frame
<1>4. ASSUME NEW u \in Threads \ {t} PROVE ThreadInv(u)'
  <2>1. ThreadInv(u)
    BY Zenon DEF Inv
  <2>2. ~HoldsRow(u) /\ StateAt(u)
    BY <1>1, <1>2, <2>1, Zenon DEF ThreadInv, LocksAt, HoldsRow, Cycle
  <2>3. CycleAt(u)' /\ StateAt(u)'
    BY <1>2, <1>3, <2>2, Zenon DEF Frame, CycleAt, StateAt, HoldsRow, Attempting, Reading, Cycle, Inserting
  <2>4. pc[u] # "idle" => row' \in seen'[u]
    BY <1>2, <2>1, Zenon DEF ThreadInv, WindowAt, row
  <2> QED BY <1>2, <1>3, <2>3, <2>4, OtherThread
<1>5. ThreadInv(t)'
  <2>1. KindAt(t)' /\ LocksAt(t)' /\ BucketsAt(t)'
    BY <1>1, <1>2, Zenon DEF TypeOK, ThreadInv, KindAt, LocksAt, BucketsAt, HoldsRow, HoldsStruct,
                      Reading, Cycle, Inserting, Clearing
  <2>2. CycleAt(t)' /\ StateAt(t)' /\ CopyAt(t)' /\ ReadAt(t)' /\ ResultAt(t)'
    BY <1>1, <1>2, Zenon DEF TypeOK, CycleAt, StateAt, CopyAt, ReadAt, ResultAt, ReturnedRow, FreeInvisible,
                      Attempting, Reading, Inserting
  <2>3. WindowAt(t)' /\ PositionAt(t)'
    BY <1>1, <1>2, Zenon DEF TypeOK, ThreadInv, WindowAt, PositionAt, Attempting, row
  <2> QED BY <2>1, <2>2, <2>3, Zenon DEF ThreadInv
<1>6. \A u, x \in Threads : InsertAlone(u, x)' /\ Untouched(u, x)'
  <2>1. ASSUME NEW u \in Threads PROVE InsertAlone(t, u)' /\ InsertAlone(u, t)' /\ Untouched(u, t)'
    <3>1. InsertAlone(u, t)
      BY Zenon DEF Inv
    <3> QED BY <1>1, <1>2, <3>1, Zenon DEF TypeOK, InsertAlone, Untouched, Inserting, Dying
  <2> QED BY <1>1, <1>2, <1>3, <2>1, PairStep, Zenon DEF TypeOK
<1>7. FreeInvisible' /\ ImageKnown' /\ SeqParity'
  BY <1>1, <1>2, Zenon DEF TypeOK, FreeInvisible, ImageKnown, SeqParity
<1> QED BY <1>3, <1>4, <1>5, <1>6, <1>7, Zenon DEF Inv

\* The store of FM_SLOT_DELETING keeps the invariant.
LEMMA DeleteRowInv ==
  ASSUME Inv, NEW t \in Threads, DeleteRow(t)
  PROVE  Inv'
<1>1. TypeOK /\ ThreadInv(t) /\ FreeInvisible /\ SeqParity /\ ImageKnown
  BY Zenon DEF Inv
<1>2. /\ pc[t] = "rmw" /\ state = "ACTIVE" /\ state' = "DELETING" /\ pc' = [pc EXCEPT ![t] = "unlink"]
      /\ Witness(NoRow)
      /\ UNCHANGED <<gen, seq, data, linked, free, img, wrote, lockVars, callVars, ret, recycled>>
  BY <1>1, Zenon DEF DeleteRow, Verified, ThreadInv, CycleAt
<1>3. TypeOK' /\ Frame(t)
  BY <1>1, <1>2, Zenon DEF TypeOK, Labels, Frame, Witness
<1>4. ASSUME NEW u \in Threads \ {t} PROVE ThreadInv(u)'
  <2>1. ThreadInv(u)
    BY Zenon DEF Inv
  <2>2. ~HoldsRow(u) /\ StateAt(u)
    BY <1>1, <1>2, <2>1, Zenon DEF ThreadInv, LocksAt, HoldsRow, Cycle
  <2>3. CycleAt(u)' /\ StateAt(u)'
    BY <1>2, <1>3, <2>2, Zenon DEF Frame, CycleAt, StateAt, HoldsRow, Attempting, Reading, Cycle, Inserting
  <2>4. seen[u] \subseteq seen'[u] /\ (pc[u] # "idle" => row' \in seen'[u])
    BY <1>2, Zenon DEF Witness, row
  <2> QED BY <1>2, <1>3, <2>3, <2>4, OtherThread
<1>5. ThreadInv(t)'
  <2>1. KindAt(t)' /\ LocksAt(t)' /\ BucketsAt(t)'
    BY <1>1, <1>2, Zenon DEF TypeOK, ThreadInv, KindAt, LocksAt, BucketsAt, HoldsRow, HoldsStruct,
                      Reading, Cycle, Inserting, Clearing
  <2>2. CycleAt(t)' /\ StateAt(t)' /\ CopyAt(t)' /\ ReadAt(t)' /\ ResultAt(t)'
    BY <1>1, <1>2, Zenon DEF TypeOK, CycleAt, StateAt, CopyAt, ReadAt, ResultAt, ReturnedRow,
                      Attempting, Reading, Inserting
  <2>3. WindowAt(t)' /\ PositionAt(t)'
    BY <1>1, <1>2, Zenon DEF TypeOK, ThreadInv, WindowAt, PositionAt, Witness, Attempting, row
  <2> QED BY <2>1, <2>2, <2>3, Zenon DEF ThreadInv
<1>6. \A u, x \in Threads : InsertAlone(u, x)' /\ Untouched(u, x)'
  <2>1. ASSUME NEW u \in Threads PROVE InsertAlone(t, u)' /\ InsertAlone(u, t)' /\ Untouched(u, t)'
    <3>1. StateAt(u)
      BY Zenon DEF Inv, ThreadInv
    <3> QED BY <1>1, <1>2, <3>1, Zenon DEF TypeOK, InsertAlone, Untouched, StateAt, Inserting
  <2> QED BY <1>1, <1>2, <1>3, <2>1, PairStep, Zenon DEF TypeOK
<1>7. FreeInvisible' /\ ImageKnown' /\ SeqParity'
  BY <1>1, <1>2, Zenon DEF TypeOK, FreeInvisible, ImageKnown, SeqParity
<1> QED BY <1>3, <1>4, <1>5, <1>6, <1>7, Zenon DEF Inv

\* fm_core_free_slot at the end of a delete, of a clear and of a refused insert
\* keeps the invariant.
LEMMA FreeSlot ==
  ASSUME Inv, NEW t \in Threads, TypeOK', Frame(t), pc[t] # "write", pc'[t] = "idle",
         ret'[t] \notin Rows, free' = TRUE, state \in {"FREE", "DELETED"},
         \A u \in Threads \ {t} : pc[u] \notin Inserting \cup {"bump", "push"},
         UNCHANGED <<state, gen, seq, data, img, wrote, kind, exp, ref, histVars>>
  PROVE  Inv'
<1>1. TypeOK /\ PositionAt(t) /\ SeqParity /\ ImageKnown
  BY Zenon DEF Inv, ThreadInv
<1>2. ASSUME NEW u \in Threads \ {t} PROVE ThreadInv(u)'
  <2>1. ThreadInv(u)
    BY Zenon DEF Inv
  <2>2. CycleAt(u)' /\ StateAt(u)'
    BY <2>1, Zenon DEF ThreadInv, Frame, CycleAt, StateAt, Attempting
  <2>3. pc[u] # "idle" => row' \in seen'[u]
    BY <2>1, Zenon DEF ThreadInv, WindowAt, row
  <2> QED BY <2>2, <2>3, OtherThread
<1>3. ThreadInv(t)'
  <2>1. KindAt(t)' /\ LocksAt(t)' /\ BucketsAt(t)' /\ StateAt(t)' /\ CopyAt(t)'
    BY Zenon DEF KindAt, LocksAt, HoldsRow, HoldsStruct, BucketsAt, StateAt, CopyAt,
           Reading, Cycle, Inserting, Clearing
  <2>2. CycleAt(t)' /\ WindowAt(t)' /\ ReadAt(t)' /\ ResultAt(t)'
    BY Zenon DEF CycleAt, WindowAt, ReadAt, ResultAt, ReturnedRow, Attempting, Reading
  <2>3. PositionAt(t)'
    BY <1>1, Zenon DEF PositionAt, Attempting
  <2> QED BY <2>1, <2>2, <2>3, Zenon DEF ThreadInv
<1>4. \A u, x \in Threads : InsertAlone(u, x)' /\ Untouched(u, x)'
  <2>1. \A u \in Threads : InsertAlone(t, u)' /\ InsertAlone(u, t)' /\ Untouched(u, t)'
    BY Zenon DEF InsertAlone, Untouched, Inserting, Dying
  <2> QED BY <2>1, PairStep
<1>5. FreeInvisible' /\ ImageKnown'
  BY <1>1, Zenon DEF FreeInvisible, ImageKnown
<1>6. SeqParity'
  BY <1>1, Zenon DEF SeqParity, Frame
<1> QED BY <1>2, <1>3, <1>4, <1>5, <1>6, Zenon DEF Inv

\* The end of fm_core_delete_row_locked keeps the invariant.
LEMMA DeleteFreeInv ==
  ASSUME Inv, NEW t \in Threads, DeleteFree(t)
  PROVE  Inv'
<1>1. TypeOK /\ ThreadInv(t)
  BY Zenon DEF Inv
<1>2. TypeOK' /\ Frame(t)
  BY <1>1, Zenon DEF TypeOK, Labels, Codes, ThreadInv, LocksAt, HoldsRow, Cycle, Frame, DeleteFree
<1>3. state = "DELETED"
  BY <1>1, Zenon DEF ThreadInv, StateAt, DeleteFree
<1>4. \A u \in Threads \ {t} : pc[u] \notin Inserting \cup {"bump", "push"}
  BY ThreadsAssumption, Zenon DEF Inv, ThreadInv, LocksAt, HoldsRow, HoldsStruct, Cycle, DeleteFree
<1> QED BY <1>1, <1>2, <1>3, <1>4, FreeSlot, CodesAssumption, Zenon DEF TypeOK, DeleteFree

\* The end of fm_core_clear keeps the invariant.
LEMMA ClearFreeInv ==
  ASSUME Inv, NEW t \in Threads, ClearFree(t)
  PROVE  Inv'
<1>1. TypeOK /\ ThreadInv(t)
  BY Zenon DEF Inv
<1>2. TypeOK' /\ Frame(t)
  BY <1>1, Zenon DEF TypeOK, Labels, Codes, ThreadInv, LocksAt, HoldsStruct, Clearing, Frame, ClearFree
<1>3. state = "FREE"
  BY <1>1, Zenon DEF ThreadInv, StateAt, ClearFree
<1>4. \A u \in Threads \ {t} : pc[u] \notin Inserting \cup {"bump", "push"}
  BY <1>3, Zenon DEF Inv, ThreadInv, LocksAt, StateAt, HoldsStruct, Clearing, ClearFree
<1> QED BY <1>1, <1>2, <1>3, <1>4, FreeSlot, CodesAssumption DEF TypeOK, ClearFree

\* fm_core_alloc_slot handing out the slot keeps the invariant.
LEMMA InsertAllocInv ==
  ASSUME Inv, NEW t \in Threads, NEW v \in Images, InsertAlloc(t, v)
  PROVE  Inv'
<1>1. TypeOK /\ ThreadInv(t) /\ FreeInvisible /\ SeqParity /\ ImageKnown
  BY Zenon DEF Inv
<1>2. /\ smutex = None /\ smutex' = t /\ free /\ free' = FALSE /\ pc[t] = "idle"
      /\ new' = [new EXCEPT ![t] = v] /\ todo' = [todo EXCEPT ![t] = Words]
      /\ pc' = [pc EXCEPT ![t] = "fill"] /\ kind' = [kind EXCEPT ![t] = "insert"]
      /\ ret' = [ret EXCEPT ![t] = Busy] /\ seen' = [seen EXCEPT ![t] = {row}]
      /\ recycled' = [recycled EXCEPT ![t] = FALSE] /\ ops' = [ops EXCEPT ![t] = @ - 1] /\ ops[t] > 0
      /\ UNCHANGED <<state, gen, seq, data, linked, img, wrote, wlock, block, key, exp, s1, buf, ref>>
  BY Zenon DEF InsertAlloc
<1>3. TypeOK'
  <2>1. row \in Rows \cup {NoRow} /\ v \in Rows
    BY <1>1, ImagesAssumption, Zenon DEF TypeOK, row
  <2>2. pc' \in [Threads -> Labels] /\ kind' \in [Threads -> Kinds] /\ ops' \in [Threads -> Nat]
    BY <1>1, <1>2 DEF TypeOK, Labels, Kinds
  <2>3. /\ todo' \in [Threads -> SUBSET Words] /\ new' \in [Threads -> Rows]
        /\ ret' \in [Threads -> Rows \cup Codes] /\ recycled' \in [Threads -> BOOLEAN]
        /\ seen' \in [Threads -> SUBSET (Rows \cup {NoRow})]
    BY <1>1, <1>2, <2>1, Zenon DEF TypeOK, Codes
  <2> QED BY <1>1, <1>2, <2>2, <2>3, Zenon DEF TypeOK
<1>4. Frame(t)
  BY <1>1, <1>2, Zenon DEF TypeOK, Frame
<1>5. state \in {"FREE", "DELETED"}
  BY <1>1, <1>2, Zenon DEF FreeInvisible
<1>6. ASSUME NEW u \in Threads \ {t} PROVE ThreadInv(u)' /\ pc[u] \notin Dying
  <2>1. ThreadInv(u)
    BY Zenon DEF Inv
  <2>2. CycleAt(u)' /\ StateAt(u)'
    BY <1>1, <1>2, <1>4, <2>1 DEF TypeOK, ThreadInv, Frame, CycleAt, StateAt, Attempting
  <2>3. pc[u] # "idle" => row' \in seen'[u]
    BY <1>1, <1>2, <2>1, Zenon DEF TypeOK, ThreadInv, WindowAt, row
  <2>4. pc[u] \notin Dying
    BY <1>2, <1>5, <2>1, Zenon DEF ThreadInv, StateAt, Dying
  <2> QED BY <1>1, <1>2, <1>4, <2>2, <2>3, <2>4, OtherThread, Zenon DEF TypeOK
<1>7. ThreadInv(t)'
  <2>1. KindAt(t)' /\ LocksAt(t)' /\ BucketsAt(t)'
    BY <1>1, <1>2, Zenon DEF TypeOK, KindAt, LocksAt, BucketsAt, HoldsRow, HoldsStruct,
                      Reading, Cycle, Inserting, Clearing
  <2>2. CycleAt(t)' /\ StateAt(t)' /\ CopyAt(t)' /\ ReadAt(t)' /\ ResultAt(t)'
    BY <1>1, <1>2, <1>5, Zenon DEF TypeOK, CycleAt, StateAt, CopyAt, ReadAt, ResultAt, ReturnedRow,
                            Attempting, Reading, Inserting
  <2>3. WindowAt(t)' /\ PositionAt(t)'
    BY <1>1, <1>2, Zenon DEF TypeOK, ThreadInv, WindowAt, PositionAt, Attempting, row
  <2> QED BY <2>1, <2>2, <2>3, Zenon DEF ThreadInv
<1>8. \A u, x \in Threads : InsertAlone(u, x)' /\ Untouched(u, x)'
  <2>1. ASSUME NEW u \in Threads PROVE InsertAlone(t, u)' /\ InsertAlone(u, t)' /\ Untouched(u, t)'
    BY <1>1, <1>2, <1>6, Zenon DEF TypeOK, InsertAlone, Untouched, Inserting, Dying
  <2> QED BY <1>1, <1>2, <1>4, <2>1, PairStep, Zenon DEF TypeOK
<1>9. FreeInvisible' /\ ImageKnown' /\ SeqParity'
  BY <1>1, <1>2, Zenon DEF TypeOK, FreeInvisible, ImageKnown, SeqParity
<1> QED BY <1>3, <1>6, <1>7, <1>8, <1>9, Zenon DEF Inv

\* fm_core_insert_row linking the slot, or refusing it, keeps the invariant.
LEMMA InsertLinkInv ==
  ASSUME Inv, NEW t \in Threads, InsertLink(t)
  PROVE  Inv'
<1>1. TypeOK /\ ThreadInv(t) /\ FreeInvisible /\ SeqParity /\ ImageKnown
  BY Zenon DEF Inv
<1>2. /\ pc[t] = "fill" /\ todo[t] = {} /\ smutex = t /\ state \in {"FREE", "DELETED"} /\ ~free
      /\ UNCHANGED <<state, gen, seq, data, img, wrote, wlock, block, callVars, histVars>>
  BY <1>1, Zenon DEF InsertLink, ThreadInv, LocksAt, HoldsStruct, StateAt, Inserting
<1>3. \A u \in Threads \ {t} : pc[u] \notin Inserting \cup {"bump", "push"}
  BY <1>2, Zenon DEF Inv, ThreadInv, LocksAt, HoldsStruct, InsertAlone, Inserting, Dying
<1>4. CASE /\ pc' = [pc EXCEPT ![t] = "publish"] /\ UNCHANGED <<free, smutex, ret>>
           /\ linked' = linked \cup {BucketOfRow(new[t])}
  <2>1. TypeOK' /\ Frame(t)
    <3>1. BucketOfRow(new[t]) \in Buckets
      BY <1>1, ImagesAssumption, BucketsAssumption, Zenon DEF TypeOK, BucketOfRow
    <3> QED BY <1>1, <1>2, <1>4, <3>1, Zenon DEF TypeOK, Labels, Frame
  <2>2. ASSUME NEW u \in Threads \ {t} PROVE ThreadInv(u)'
    <3>1. ThreadInv(u)
      BY Zenon DEF Inv
    <3>2. CycleAt(u)' /\ StateAt(u)' /\ (pc[u] # "idle" => row' \in seen'[u])
      BY <1>2, <1>4, <2>1, <3>1, Zenon DEF ThreadInv, Frame, CycleAt, StateAt, WindowAt, Attempting, row
    <3> QED BY <1>2, <1>4, <2>1, <3>2, OtherThread
  <2>3. ThreadInv(t)'
    <3>1. KindAt(t)' /\ LocksAt(t)' /\ BucketsAt(t)'
      BY <1>1, <1>2, <1>4, Zenon DEF TypeOK, ThreadInv, KindAt, LocksAt, BucketsAt, HoldsRow, HoldsStruct,
                              Reading, Cycle, Inserting, Clearing
    <3>2. data = new[t]
      <4>1. data \in Rows /\ new[t] \in Rows /\ \A w \in Words : data[w] = new[t][w]
        BY <1>1, <1>2, Zenon DEF TypeOK, ThreadInv, CopyAt
      <4> QED BY <4>1 DEF Rows
    <3>3. CycleAt(t)' /\ StateAt(t)' /\ CopyAt(t)' /\ ReadAt(t)' /\ ResultAt(t)'
      BY <1>1, <1>2, <1>4, <3>2, Zenon DEF TypeOK, ThreadInv, CycleAt, StateAt, CopyAt, ReadAt, ResultAt,
                                    ReturnedRow, Attempting, Reading, Inserting
    <3>4. WindowAt(t)' /\ PositionAt(t)'
      BY <1>1, <1>2, <1>4, Zenon DEF TypeOK, ThreadInv, WindowAt, PositionAt, Attempting, row
    <3> QED BY <3>1, <3>3, <3>4, Zenon DEF ThreadInv
  <2>4. \A u, x \in Threads : InsertAlone(u, x)' /\ Untouched(u, x)'
    <3>1. ASSUME NEW u \in Threads PROVE InsertAlone(t, u)' /\ InsertAlone(u, t)' /\ Untouched(u, t)'
      <4>1. InsertAlone(t, u) /\ Untouched(u, t)
        BY Zenon DEF Inv
      <4> QED BY <1>1, <1>2, <1>4, <4>1, WordsAssumption, Zenon
              DEF TypeOK, InsertAlone, Untouched, Attempting, Inserting, Dying
    <3> QED BY <1>1, <1>2, <1>4, <2>1, <3>1, PairStep, Zenon DEF TypeOK
  <2>5. FreeInvisible' /\ ImageKnown' /\ SeqParity'
    BY <1>1, <1>2, <1>4, Zenon DEF TypeOK, FreeInvisible, ImageKnown, SeqParity
  <2> QED BY <2>1, <2>2, <2>3, <2>4, <2>5, Zenon DEF Inv
<1>5. CASE free' = TRUE /\ smutex' = None /\ Return(t, DupKey) /\ UNCHANGED linked
  <2>1. TypeOK' /\ Frame(t)
    BY <1>1, <1>2, <1>5, Zenon DEF TypeOK, Labels, Codes, Frame
  <2> QED BY <1>1, <1>2, <1>3, <1>5, <2>1, FreeSlot, CodesAssumption, Zenon DEF TypeOK
<1> QED BY <1>4, <1>5, Zenon DEF InsertLink

\* fm_core_clear marking the slot free keeps the invariant.
LEMMA ClearStateInv ==
  ASSUME Inv, NEW t \in Threads, ClearState(t)
  PROVE  Inv'
<1>1. TypeOK /\ ThreadInv(t) /\ SeqParity
  BY Zenon DEF Inv
<1>2. /\ pc[t] = "heads" /\ wlock = None /\ wlock' = t /\ smutex = t /\ state' = "FREE"
      /\ pc' = [pc EXCEPT ![t] = "flip"] /\ Witness(NoRow)
      /\ UNCHANGED <<gen, seq, data, linked, free, img, wrote, block, smutex, callVars, ret, recycled>>
  BY <1>1, Zenon DEF ClearState, ThreadInv, LocksAt, HoldsStruct, Clearing
<1>3. TypeOK' /\ Frame(t)
  BY <1>1, <1>2, Zenon DEF TypeOK, Labels, Frame, Witness
<1>4. ASSUME NEW u \in Threads \ {t} PROVE ThreadInv(u)' /\ pc[u] \notin Inserting
  <2>1. ~HoldsRow(u) /\ ~HoldsStruct(u)
    BY <1>2, ThreadsAssumption, Zenon DEF Inv, ThreadInv, LocksAt
  <2>2. CycleAt(u)' /\ StateAt(u)'
    BY <1>2, <1>3, <2>1, Zenon DEF Frame, CycleAt, StateAt, HoldsRow, HoldsStruct, Attempting, Reading, Cycle, Inserting
  <2>3. seen[u] \subseteq seen'[u] /\ (pc[u] # "idle" => row' \in seen'[u])
    BY <1>2, Zenon DEF Witness, row
  <2>4. pc[u] \notin Inserting
    BY <2>1, Zenon DEF HoldsStruct
  <2> QED BY <1>2, <1>3, <2>2, <2>3, <2>4, OtherThread
<1>5. ThreadInv(t)'
  <2>1. KindAt(t)' /\ LocksAt(t)' /\ BucketsAt(t)'
    BY <1>1, <1>2, Zenon DEF TypeOK, ThreadInv, KindAt, LocksAt, BucketsAt, HoldsRow, HoldsStruct,
                      Reading, Cycle, Inserting, Clearing
  <2>2. CycleAt(t)' /\ StateAt(t)' /\ CopyAt(t)' /\ ReadAt(t)' /\ ResultAt(t)'
    BY <1>1, <1>2, Zenon DEF TypeOK, ThreadInv, KindAt, CycleAt, StateAt, CopyAt, ReadAt, ResultAt,
                      ReturnedRow, Attempting, Reading, Inserting, Clearing
  <2>3. WindowAt(t)' /\ PositionAt(t)'
    BY <1>1, <1>2, Zenon DEF TypeOK, ThreadInv, WindowAt, PositionAt, Witness, Attempting, row
  <2> QED BY <2>1, <2>2, <2>3, Zenon DEF ThreadInv
<1>6. \A u, x \in Threads : InsertAlone(u, x)' /\ Untouched(u, x)'
  <2>1. ASSUME NEW u \in Threads PROVE InsertAlone(t, u)' /\ InsertAlone(u, t)' /\ Untouched(u, t)'
    BY <1>1, <1>2, Zenon DEF TypeOK, InsertAlone, Untouched, Inserting, Dying
  <2> QED BY <1>1, <1>2, <1>3, <2>1, PairStep, Zenon DEF TypeOK
<1>7. FreeInvisible' /\ ImageKnown' /\ SeqParity'
  BY <1>1, <1>2, Zenon DEF TypeOK, FreeInvisible, ImageKnown, SeqParity
<1> QED BY <1>3, <1>4, <1>5, <1>6, <1>7, Zenon DEF Inv

\* A dead slot getting a new generation under the row lock keeps the invariant.
LEMMA NewGeneration ==
  ASSUME Inv, NEW t \in Threads, TypeOK', Frame(t), HoldsRow(t), state \in {"FREE", "DELETED"},
         gen' = gen + 1, kind[t] # "pos", ThreadInv(t)',
         pc[t] # "write", pc'[t] \notin Inserting \cup {"write", "gen", "seq", "copy"},
         pc'[t] \in Dying => pc[t] \in Dying,
         UNCHANGED <<state, seq, data, free, img, wrote, histVars>>
  PROVE  Inv'
<1>1. TypeOK /\ ThreadInv(t) /\ FreeInvisible /\ SeqParity /\ ImageKnown
  BY Zenon DEF Inv
<1>2. ASSUME NEW u \in Threads \ {t} PROVE ThreadInv(u)'
  <2>1. ThreadInv(u)
    BY Zenon DEF Inv
  <2>2. KindAt(u)' /\ LocksAt(u)' /\ BucketsAt(u)'
    BY FrameLocks
  <2>3. ~HoldsRow(u)
    BY <1>1, <2>1, Zenon DEF ThreadInv, LocksAt
  <2>4. CycleAt(u)' /\ StateAt(u)'
    BY <2>1, <2>3, Zenon DEF ThreadInv, Frame, CycleAt, StateAt, HoldsRow, Attempting, Reading, Cycle
  <2>5. CopyAt(u)' /\ ReadAt(u)'
    BY <2>1 DEF ThreadInv, Frame, CopyAt, ReadAt, Attempting
  <2>6. WindowAt(u)' /\ ResultAt(u)'
    BY <2>1, Zenon DEF ThreadInv, Frame, WindowAt, ResultAt, ReturnedRow, Attempting, row
  <2>7. PositionAt(u)'
    <3>1. gen \in Int /\ exp[u] \in Int /\ ref[u] \in Int
      BY <1>1 DEF TypeOK
    <3> QED BY <2>1, <3>1 DEF ThreadInv, Frame, PositionAt, Attempting
  <2> QED BY <2>2, <2>4, <2>5, <2>6, <2>7, Zenon DEF ThreadInv
<1>3. \A u, x \in Threads : InsertAlone(u, x)' /\ Untouched(u, x)'
  <2>1. ASSUME NEW u \in Threads PROVE InsertAlone(t, u)' /\ InsertAlone(u, t)' /\ Untouched(u, t)'
    <3>1. InsertAlone(u, t)
      BY Zenon DEF Inv
    <3> QED BY <3>1, Zenon DEF Frame, InsertAlone, Untouched, Inserting
  <2> QED BY <2>1, PairStep
<1>4. FreeInvisible' /\ ImageKnown'
  BY <1>1, Zenon DEF FreeInvisible, ImageKnown
<1>5. SeqParity'
  BY <1>1, Zenon DEF SeqParity, Frame
<1> QED BY <1>2, <1>3, <1>4, <1>5, Zenon DEF Inv

\* The generation bump of fm_core_delete_row_locked keeps the invariant.
LEMMA DeleteGenInv ==
  ASSUME Inv, NEW t \in Threads, DeleteGen(t)
  PROVE  Inv'
<1>1. TypeOK /\ ThreadInv(t)
  BY Zenon DEF Inv
<1>2. /\ pc[t] = "bump" /\ pc' = [pc EXCEPT ![t] = "push"] /\ gen' = gen + 1
      /\ kind[t] = "rmw" /\ state = "DELETED" /\ ~free
      /\ UNCHANGED <<state, seq, data, linked, free, img, wrote, lockVars, callVars, ret, histVars>>
  BY <1>1, Zenon DEF DeleteGen, ThreadInv, KindAt, StateAt, Cycle
<1>3. TypeOK' /\ Frame(t)
  BY <1>1, <1>2 DEF TypeOK, Labels, Frame
<1>4. ThreadInv(t)'
  <2>1. KindAt(t)' /\ LocksAt(t)' /\ BucketsAt(t)'
    BY <1>1, <1>2, Zenon DEF TypeOK, ThreadInv, KindAt, LocksAt, BucketsAt, HoldsRow, HoldsStruct,
                      Reading, Cycle, Inserting, Clearing
  <2>2. CycleAt(t)' /\ StateAt(t)' /\ CopyAt(t)' /\ ReadAt(t)' /\ ResultAt(t)'
    BY <1>1, <1>2, Zenon DEF TypeOK, CycleAt, StateAt, CopyAt, ReadAt, ResultAt, ReturnedRow,
                      Attempting, Reading, Inserting
  <2>3. WindowAt(t)' /\ PositionAt(t)'
    BY <1>1, <1>2 DEF TypeOK, ThreadInv, WindowAt, PositionAt, Attempting, row
  <2> QED BY <2>1, <2>2, <2>3, Zenon DEF ThreadInv
<1> QED BY <1>1, <1>2, <1>3, <1>4, NewGeneration, Zenon DEF TypeOK, HoldsRow, Cycle, Dying, Inserting

\* The generation bump of fm_core_clear keeps the invariant.
LEMMA ClearGenInv ==
  ASSUME Inv, NEW t \in Threads, ClearGen(t)
  PROVE  Inv'
<1>1. TypeOK /\ ThreadInv(t)
  BY Zenon DEF Inv
<1>2. /\ pc[t] = "flip" /\ pc' = [pc EXCEPT ![t] = "rebuild"] /\ gen' = gen + 1
      /\ kind[t] = "clear" /\ state = "FREE" /\ wlock = t /\ wlock' = None
      /\ UNCHANGED <<state, seq, data, linked, free, img, wrote, block, smutex, callVars, ret, histVars>>
  BY <1>1, Zenon DEF ClearGen, ThreadInv, KindAt, StateAt, LocksAt, HoldsRow, Clearing
<1>3. TypeOK' /\ Frame(t)
  BY <1>1, <1>2 DEF TypeOK, Labels, Frame
<1>4. ThreadInv(t)'
  <2>1. KindAt(t)' /\ LocksAt(t)' /\ BucketsAt(t)'
    BY <1>1, <1>2, Zenon DEF TypeOK, ThreadInv, KindAt, LocksAt, BucketsAt, HoldsRow, HoldsStruct,
                      Reading, Cycle, Inserting, Clearing
  <2>2. CycleAt(t)' /\ StateAt(t)' /\ CopyAt(t)' /\ ReadAt(t)' /\ ResultAt(t)'
    BY <1>1, <1>2, Zenon DEF TypeOK, CycleAt, StateAt, CopyAt, ReadAt, ResultAt, ReturnedRow,
                      Attempting, Reading, Inserting
  <2>3. WindowAt(t)' /\ PositionAt(t)'
    BY <1>1, <1>2 DEF TypeOK, ThreadInv, WindowAt, PositionAt, Attempting, row
  <2> QED BY <2>1, <2>2, <2>3, Zenon DEF ThreadInv
<1> QED BY <1>1, <1>2, <1>3, <1>4, NewGeneration, Zenon DEF TypeOK, HoldsRow, Dying, Inserting

\* wlock is exclusive: while t holds it, no other thread writes the image.
LEMMA OneWriter ==
  ASSUME Inv, NEW t \in Threads, HoldsRow(t), NEW u \in Threads \ {t}
  PROVE  ~HoldsRow(u) /\ pc[u] # "write"
BY Zenon DEF Inv, ThreadInv, LocksAt, HoldsRow, Cycle

\* fm_core_write_image making seq odd keeps the invariant.
LEMMA WriteOddInv ==
  ASSUME Inv, NEW t \in Threads, WriteOdd(t)
  PROVE  Inv'
<1>1. TypeOK /\ ThreadInv(t) /\ FreeInvisible /\ SeqParity /\ ImageKnown
  BY Zenon DEF Inv
<1>2. /\ pc[t] = "odd" /\ pc' = [pc EXCEPT ![t] = "write"] /\ todo' = [todo EXCEPT ![t] = Words]
      /\ seq' = seq + 1 /\ HoldsRow(t)
      /\ UNCHANGED <<state, gen, data, linked, free, img, wrote, lockVars,
                     kind, key, exp, s1, buf, new, ref, ret, ops, histVars>>
  BY Zenon DEF WriteOdd, HoldsRow, Cycle
<1>3. seq % 2 = 0 /\ seq' % 2 = 1
  <2>1. ~(seq % 2 = 1)
    BY <1>1, <1>2, OneWriter, Zenon DEF SeqParity
  <2> QED BY <1>1, <1>2, <2>1 DEF TypeOK
<1>4. TypeOK' /\ Frame(t)
  BY <1>1, <1>2 DEF TypeOK, Labels, Frame
<1>5. ASSUME NEW u \in Threads \ {t} PROVE ThreadInv(u)'
  <2>1. ThreadInv(u) /\ s1[u] \in Nat
    BY <1>1, Zenon DEF Inv, TypeOK
  <2>2. KindAt(u)' /\ LocksAt(u)' /\ BucketsAt(u)'
    BY <1>4, FrameLocks
  <2>3. CycleAt(u)' /\ StateAt(u)' /\ CopyAt(u)'
    BY <1>2, <1>4, <2>1, Zenon DEF ThreadInv, Frame, CycleAt, StateAt, CopyAt, Attempting
  <2>4. WindowAt(u)' /\ PositionAt(u)' /\ ResultAt(u)'
    BY <1>2, <1>4, <2>1, Zenon DEF ThreadInv, Frame, WindowAt, PositionAt, ResultAt, ReturnedRow, Attempting, row
  <2>5. ReadAt(u)'
    <3>1. seq \in Nat /\ (pc[u] = "copy" => s1[u] <= seq /\ s1[u] % 2 = 0)
      BY <1>1, <2>1, Zenon DEF TypeOK, ThreadInv, ReadAt
    <3>2. pc'[u] = "copy" => s1'[u] <= seq' /\ s1'[u] % 2 = 0 /\ s1'[u] # seq'
      BY <1>2, <1>4, <2>1, <3>1 DEF Frame
    <3> QED BY <1>3, <3>2 DEF ReadAt
  <2> QED BY <2>2, <2>3, <2>4, <2>5, Zenon DEF ThreadInv
<1>6. ThreadInv(t)'
  <2>1. KindAt(t)' /\ LocksAt(t)' /\ BucketsAt(t)'
    BY <1>1, <1>2, Zenon DEF TypeOK, ThreadInv, KindAt, LocksAt, BucketsAt, HoldsRow, HoldsStruct, KeyChanged,
                      Reading, Cycle, Inserting, Clearing
  <2>2. CycleAt(t)' /\ StateAt(t)' /\ CopyAt(t)' /\ ReadAt(t)' /\ ResultAt(t)'
    BY <1>1, <1>2, Zenon DEF TypeOK, ThreadInv, CycleAt, StateAt, CopyAt, ReadAt, ResultAt, ReturnedRow,
                      Attempting, Reading, Inserting
  <2>3. WindowAt(t)' /\ PositionAt(t)'
    BY <1>1, <1>2, Zenon DEF TypeOK, ThreadInv, WindowAt, PositionAt, Attempting, row
  <2> QED BY <2>1, <2>2, <2>3, Zenon DEF ThreadInv
<1>7. \A u, x \in Threads : InsertAlone(u, x)' /\ Untouched(u, x)'
  <2>1. ASSUME NEW u \in Threads PROVE InsertAlone(t, u)' /\ InsertAlone(u, t)' /\ Untouched(u, t)'
    BY <1>1, <1>2, Zenon DEF TypeOK, InsertAlone, Untouched, Inserting, Dying
  <2> QED BY <1>1, <1>2, <1>4, <2>1, PairStep, Zenon DEF TypeOK
<1>8. FreeInvisible' /\ ImageKnown'
  BY <1>1, <1>2, <1>3, Zenon DEF FreeInvisible, ImageKnown
<1>9. SeqParity'
  BY <1>1, <1>2, <1>3, Zenon DEF TypeOK, SeqParity
<1> QED BY <1>4, <1>5, <1>6, <1>7, <1>8, <1>9, Zenon DEF Inv

\* Copying one word into the slot keeps the invariant.
LEMMA CopyInInv ==
  ASSUME Inv, NEW t \in Threads, NEW w \in Words, CopyIn(t, w)
  PROVE  Inv'
<1>1. TypeOK /\ ThreadInv(t) /\ FreeInvisible /\ SeqParity /\ ImageKnown
  BY Zenon DEF Inv
<1>2. /\ pc[t] \in {"write", "fill"} /\ w \in todo[t] /\ todo' = [todo EXCEPT ![t] = @ \ {w}]
      /\ recycled' = [u \in Threads |-> recycled[u] \/ (pc[t] = "fill" /\ Attempting(u))]
      /\ UNCHANGED <<state, gen, seq, linked, free, img, wrote, lockVars,
                     pc, kind, key, exp, s1, buf, new, ref, ret, ops, seen>>
  BY Zenon DEF CopyIn
<1>3. data' \in Rows /\ \A x \in Words : data'[x] = IF x = w THEN new[t][w] ELSE data[x]
  <2>1. new[t] \in Rows /\ data \in Rows
    BY <1>1, Zenon DEF TypeOK
  <2> QED BY <2>1, Zenon DEF CopyIn, Rows
<1>4. recycled' \in [Threads -> BOOLEAN]
  BY <1>1, <1>2, Zenon DEF TypeOK
<1>5. TypeOK' /\ Frame(t)
  BY <1>1, <1>2, <1>3, <1>4, Zenon DEF TypeOK, Frame
<1>6. /\ pc[t] = "write" => state = "ACTIVE" /\ seq % 2 = 1 /\ HoldsRow(t)
      /\ pc[t] = "fill" => state \in {"FREE", "DELETED"} /\ smutex = t
  BY <1>1, Zenon DEF ThreadInv, CycleAt, StateAt, LocksAt, HoldsRow, HoldsStruct, SeqParity, Cycle, Inserting
<1>7. ASSUME NEW u \in Threads \ {t} PROVE ThreadInv(u)' /\ pc[u] \notin {"write", "fill", "publish"}
  <2>1. ThreadInv(u)
    BY Zenon DEF Inv
  <2>2. KindAt(u)' /\ LocksAt(u)' /\ BucketsAt(u)'
    BY <1>5, FrameLocks
  <2>3. pc[u] \notin {"write", "fill", "publish"}
    BY <1>2, <1>6, <2>1, OneWriter, Zenon DEF ThreadInv, CycleAt, StateAt, LocksAt, HoldsStruct, Inserting
  <2>4. StateAt(u)' /\ CopyAt(u)'
    BY <1>2, <1>5, <2>1, <2>3, Zenon DEF ThreadInv, Frame, StateAt, CopyAt
  <2>5. CycleAt(u)'
    BY <1>2, <1>5, <1>6, <2>1, Zenon DEF ThreadInv, Frame, CycleAt, Attempting
  <2>6. WindowAt(u)' /\ PositionAt(u)' /\ ResultAt(u)'
    BY <1>2, <1>5, <2>1, Zenon DEF ThreadInv, Frame, WindowAt, PositionAt, ResultAt, ReturnedRow, Attempting, row
  <2>7. ReadAt(u)'
    <3>1. ReadAt(u) /\ pc'[u] = pc[u] /\ s1'[u] = s1[u] /\ seq' = seq
      BY <1>2, <2>1, Zenon DEF ThreadInv
    <3>2. CASE pc[t] = "write"
      <4>1. seq' % 2 = 1
        BY <1>6, <3>1, <3>2, Zenon
      <4> QED BY <3>1, <4>1 DEF ReadAt
    <3>3. CASE pc[t] = "fill"
      <4>1. Attempting(u) => recycled'[u]
        BY <1>2, <3>3, Zenon
      <4> QED BY <3>1, <4>1, Zenon DEF ReadAt, Attempting
    <3> QED BY <1>2, <3>2, <3>3, Zenon
  <2> QED BY <2>2, <2>3, <2>4, <2>5, <2>6, <2>7, Zenon DEF ThreadInv
<1>8. ThreadInv(t)'
  <2>1. KindAt(t)' /\ LocksAt(t)' /\ BucketsAt(t)'
    BY <1>1, <1>2, Zenon DEF ThreadInv, KindAt, LocksAt, BucketsAt, HoldsRow, HoldsStruct, KeyChanged
  <2>2. CycleAt(t)' /\ StateAt(t)' /\ ReadAt(t)' /\ ResultAt(t)'
    BY <1>1, <1>2, Zenon DEF ThreadInv, CycleAt, StateAt, ReadAt, ResultAt, ReturnedRow, Attempting, Reading
  <2>3. CopyAt(t)'
    BY <1>1, <1>2, <1>3, Zenon DEF TypeOK, ThreadInv, CopyAt
  <2>4. WindowAt(t)' /\ PositionAt(t)'
    BY <1>1, <1>2, Zenon DEF ThreadInv, WindowAt, PositionAt, Attempting, row
  <2> QED BY <2>1, <2>2, <2>3, <2>4, Zenon DEF ThreadInv
<1>9. \A u, x \in Threads : InsertAlone(u, x)' /\ Untouched(u, x)'
  <2>1. ASSUME NEW u \in Threads PROVE InsertAlone(t, u)' /\ InsertAlone(u, t)' /\ Untouched(u, t)'
    <3>1. InsertAlone(t, u) /\ InsertAlone(u, t) /\ Untouched(u, t)
      BY Zenon DEF Inv
    <3> QED BY <1>2, <3>1, Zenon DEF InsertAlone, Untouched, Attempting
  <2> QED BY <1>2, <1>5, <2>1, PairStep
<1>10. FreeInvisible' /\ ImageKnown' /\ SeqParity'
  BY <1>1, <1>2, <1>6 DEF FreeInvisible, ImageKnown, SeqParity
<1> QED BY <1>5, <1>7, <1>8, <1>9, <1>10, Zenon DEF Inv

\* fm_core_write_image making seq even keeps the invariant.
LEMMA WriteEvenInv ==
  ASSUME Inv, NEW t \in Threads, WriteEven(t)
  PROVE  Inv'
<1>1. TypeOK /\ ThreadInv(t) /\ FreeInvisible /\ SeqParity /\ ImageKnown
  BY Zenon DEF Inv
<1>2. /\ pc[t] = "write" /\ todo[t] = {} /\ pc' = [pc EXCEPT ![t] = "relink"]
      /\ seq' = seq + 1 /\ img' = new[t] /\ wrote' = wrote \cup {<<gen, new[t]>>}
      /\ state = "ACTIVE" /\ HoldsRow(t)
      /\ UNCHANGED <<state, gen, data, linked, free, lockVars, callVars, ret, recycled>>
  BY <1>1, Zenon DEF WriteEven, HoldsRow, Cycle, ThreadInv, CycleAt
<1>3. seen' = [u \in Threads |-> IF pc[u] = "idle" THEN seen[u] ELSE seen[u] \cup {new[t]}]
  BY <1>2, Zenon DEF WriteEven, Witness
<1>4. seq % 2 = 1 /\ seq' % 2 = 0
  <2>1. seq % 2 = 1
    BY <1>1, <1>2, Zenon DEF SeqParity
  <2> QED BY <1>1, <1>2, <2>1 DEF TypeOK
<1>5. new[t] \in Rows /\ data = new[t]
  <2>1. data \in Rows /\ new[t] \in Rows /\ \A w \in Words : data[w] = new[t][w]
    BY <1>1, <1>2, Zenon DEF TypeOK, ThreadInv, CopyAt
  <2> QED BY <2>1 DEF Rows
<1>6. TypeOK' /\ Frame(t)
  <2>1. seen' \in [Threads -> SUBSET (Rows \cup {NoRow})] /\ wrote' \subseteq Nat \X Rows
    BY <1>1, <1>2, <1>3, <1>5 DEF TypeOK
  <2>2. TypeOK'
    <3>1. seq' \in Nat /\ img' \in Rows /\ pc' \in [Threads -> Labels]
      BY <1>1, <1>2, <1>5 DEF TypeOK, Labels
    <3>2. UNCHANGED <<state, gen, data, linked, free, lockVars, callVars, ret, recycled>>
      BY <1>2, Zenon
    <3> QED BY <1>1, <2>1, <3>1, <3>2, Zenon DEF TypeOK
  <2>3. Frame(t)
    BY <1>1, <1>2, Zenon DEF TypeOK, Frame
  <2> QED BY <2>2, <2>3
<1>7. ASSUME NEW u \in Threads \ {t} PROVE ThreadInv(u)'
  <2>1. ThreadInv(u) /\ s1[u] \in Nat
    BY <1>1, Zenon DEF Inv, TypeOK
  <2>2. KindAt(u)' /\ LocksAt(u)' /\ BucketsAt(u)'
    BY <1>6, FrameLocks
  <2>3. CycleAt(u)' /\ StateAt(u)' /\ CopyAt(u)'
    <3>1. ~HoldsRow(u)
      BY <1>2, OneWriter, Zenon
    <3> QED BY <1>2, <1>6, <2>1, <3>1, Zenon DEF ThreadInv, Frame, CycleAt, StateAt, CopyAt, HoldsRow,
                                          Attempting, Reading, Cycle
  <2>4. WindowAt(u)' /\ ResultAt(u)'
    BY <1>2, <1>3, <1>6, <2>1, Zenon DEF ThreadInv, Frame, WindowAt, ResultAt, ReturnedRow, Attempting, row
  <2>5. PositionAt(u)'
    BY <1>2, <1>6, <2>1, Zenon DEF ThreadInv, Frame, PositionAt, Attempting
  <2>6. ReadAt(u)'
    <3>1. seq \in Nat /\ (pc[u] = "copy" => s1[u] <= seq /\ s1[u] % 2 = 0)
      BY <1>1, <2>1, Zenon DEF TypeOK, ThreadInv, ReadAt
    <3>2. pc'[u] = "copy" => s1'[u] <= seq' /\ s1'[u] % 2 = 0 /\ s1'[u] # seq'
      BY <1>2, <1>6, <2>1, <3>1 DEF Frame
    <3> QED BY <1>2, <1>5, <3>2, Zenon DEF ReadAt
  <2> QED BY <2>2, <2>3, <2>4, <2>5, <2>6, Zenon DEF ThreadInv
<1>8. ThreadInv(t)'
  <2>1. KindAt(t)' /\ LocksAt(t)' /\ BucketsAt(t)'
    BY <1>1, <1>2, Zenon DEF TypeOK, ThreadInv, KindAt, LocksAt, BucketsAt, HoldsRow, HoldsStruct, KeyChanged,
                      Reading, Cycle, Inserting, Clearing
  <2>2. CycleAt(t)' /\ StateAt(t)' /\ CopyAt(t)' /\ ReadAt(t)' /\ ResultAt(t)'
    BY <1>1, <1>2, Zenon DEF TypeOK, CycleAt, StateAt, CopyAt, ReadAt, ResultAt, ReturnedRow,
                      Attempting, Reading, Inserting
  <2>3. WindowAt(t)' /\ PositionAt(t)'
    BY <1>1, <1>2, <1>3, Zenon DEF TypeOK, ThreadInv, WindowAt, PositionAt, Attempting, row
  <2> QED BY <2>1, <2>2, <2>3, Zenon DEF ThreadInv
<1>9. \A u, x \in Threads : InsertAlone(u, x)' /\ Untouched(u, x)'
  <2>1. ASSUME NEW u \in Threads PROVE InsertAlone(t, u)' /\ InsertAlone(u, t)' /\ Untouched(u, t)'
    BY <1>1, <1>2, Zenon DEF TypeOK, InsertAlone, Untouched, Inserting, Dying
  <2> QED BY <1>1, <1>2, <1>6, <2>1, PairStep, Zenon DEF TypeOK
<1>10. FreeInvisible' /\ ImageKnown'
  BY <1>1, <1>2, <1>5, Zenon DEF FreeInvisible, ImageKnown
<1>11. SeqParity'
  BY <1>1, <1>2, <1>4, OneWriter DEF TypeOK, SeqParity
<1> QED BY <1>6, <1>7, <1>8, <1>9, <1>10, <1>11, Zenon DEF Inv

\* The store of FM_SLOT_ACTIVE by fm_core_insert_row keeps the invariant.
LEMMA InsertPublishInv ==
  ASSUME Inv, NEW t \in Threads, InsertPublish(t)
  PROVE  Inv'
<1>1. TypeOK /\ ThreadInv(t) /\ FreeInvisible /\ SeqParity /\ ImageKnown
  BY Zenon DEF Inv
<1>2. /\ pc[t] = "publish" /\ pc' = [pc EXCEPT ![t] = "ref"] /\ ret' = [ret EXCEPT ![t] = Ok]
      /\ state \in {"FREE", "DELETED"} /\ ~free /\ data = new[t] /\ kind[t] = "insert"
      /\ state' = "ACTIVE" /\ img' = new[t] /\ wrote' = wrote \cup {<<gen, new[t]>>}
      /\ smutex = t /\ smutex' = None
      /\ UNCHANGED <<gen, seq, data, linked, free, wlock, block, callVars, recycled>>
  BY <1>1, Zenon DEF InsertPublish, ThreadInv, KindAt, StateAt, CopyAt, LocksAt, HoldsStruct, Inserting
<1>3. seen' = [u \in Threads |-> IF pc[u] = "idle" THEN seen[u] ELSE seen[u] \cup {new[t]}]
  BY Zenon DEF InsertPublish, Witness
<1>4. TypeOK' /\ Frame(t)
  <2>1. new[t] \in Rows
    BY <1>1, Zenon DEF TypeOK
  <2>2. seen' \in [Threads -> SUBSET (Rows \cup {NoRow})] /\ wrote' \subseteq Nat \X Rows
    BY <1>1, <1>2, <1>3, <2>1 DEF TypeOK
  <2> QED BY <1>1, <1>2, <2>1, <2>2, Zenon DEF TypeOK, Labels, Codes, Frame
<1>5. ASSUME NEW u \in Threads \ {t} PROVE ThreadInv(u)'
  <2>1. ThreadInv(u) /\ InsertAlone(t, u) /\ Untouched(u, t)
    BY Zenon DEF Inv
  <2>2. KindAt(u)' /\ LocksAt(u)' /\ BucketsAt(u)'
    BY <1>4, FrameLocks
  <2>3. ~HoldsStruct(u) /\ pc[u] \notin Dying
    BY <1>1, <1>2, <2>1, Zenon DEF ThreadInv, LocksAt, HoldsStruct, InsertAlone, Inserting
  <2>4. StateAt(u)' /\ CopyAt(u)'
    <3>1. pc[u] \notin {"flip", "fill", "publish", "rebuild"}
      BY <2>3, Zenon DEF HoldsStruct, Inserting, Clearing
    <3> QED BY <1>2, <1>4, <2>1, <2>3, <3>1, Zenon DEF ThreadInv, Frame, StateAt, CopyAt, Inserting, Dying
  <2>5. CycleAt(u)'
    BY <1>2, <1>4, <2>1, Zenon DEF ThreadInv, Frame, CycleAt, Attempting
  <2>6. WindowAt(u)' /\ ResultAt(u)'
    <3>1. WindowAt(u)'
      BY <1>2, <1>3, <1>4, <2>1, Zenon DEF ThreadInv, Frame, WindowAt, Attempting, row
    <3>2. ResultAt(u)'
      <4>1. /\ ReturnedRow(u)' <=> ReturnedRow(u)
            /\ kind'[u] = kind[u] /\ exp'[u] = exp[u] /\ ret'[u] = ret[u]
        BY <1>4, Zenon DEF Frame, ReturnedRow
      <4>2. seen[u] \subseteq seen'[u] /\ wrote \subseteq wrote' /\ recycled' = recycled
        BY <1>2, <1>3
      <4> QED BY <2>1, <4>1, <4>2, Zenon DEF ThreadInv, ResultAt
    <3> QED BY <3>1, <3>2
  <2>7. PositionAt(u)'
    BY <1>2, <1>4, <2>1, Zenon DEF ThreadInv, Frame, PositionAt, Untouched, Attempting
  <2>8. ReadAt(u)'
    BY <1>2, <1>4, <2>1, Zenon DEF ThreadInv, Frame, ReadAt, Attempting
  <2> QED BY <2>2, <2>4, <2>5, <2>6, <2>7, <2>8, Zenon DEF ThreadInv
<1>6. ThreadInv(t)'
  <2>1. KindAt(t)' /\ LocksAt(t)' /\ BucketsAt(t)'
    BY <1>1, <1>2, Zenon DEF TypeOK, KindAt, LocksAt, BucketsAt, HoldsRow, HoldsStruct,
                      Reading, Cycle, Inserting, Clearing
  <2>2. CycleAt(t)' /\ StateAt(t)' /\ CopyAt(t)' /\ ReadAt(t)' /\ ResultAt(t)'
    BY <1>1, <1>2, CodesAssumption, Zenon DEF TypeOK, CycleAt, StateAt, CopyAt, ReadAt, ResultAt, ReturnedRow,
                      Attempting, Reading, Inserting
  <2>3. WindowAt(t)' /\ PositionAt(t)'
    BY <1>1, <1>2, <1>3, Zenon DEF TypeOK, ThreadInv, WindowAt, PositionAt, Attempting, row
  <2> QED BY <2>1, <2>2, <2>3, Zenon DEF ThreadInv
<1>7. \A u, x \in Threads : InsertAlone(u, x)' /\ Untouched(u, x)'
  <2>1. ASSUME NEW u \in Threads PROVE InsertAlone(t, u)' /\ InsertAlone(u, t)' /\ Untouched(u, t)'
    BY <1>1, <1>2, Zenon DEF TypeOK, InsertAlone, Untouched, Inserting, Dying
  <2> QED BY <1>1, <1>2, <1>4, <2>1, PairStep, Zenon DEF TypeOK
<1>8. FreeInvisible' /\ ImageKnown' /\ SeqParity'
  BY <1>1, <1>2, Zenon DEF TypeOK, FreeInvisible, ImageKnown, SeqParity
<1> QED BY <1>4, <1>5, <1>6, <1>7, <1>8, Zenon DEF Inv

\* The invariant holds of a slot no statement has touched yet.
LEMMA InitInv == Init => Inv
<1> SUFFICES ASSUME Init PROVE Inv
  OBVIOUS
<1>1. data \in Rows /\ KeyOf[data] \in Keys /\ BucketOfRow(data) \in Buckets
  BY ImagesAssumption, BucketsAssumption, Zenon DEF Init, BucketOfRow
<1>2. TypeOK
  BY <1>1, MaxOpsAssumption DEF Init, TypeOK, Labels, Kinds, Codes
<1>3. ASSUME NEW t \in Threads PROVE ThreadInv(t)
  <2>1. KindAt(t) /\ LocksAt(t) /\ BucketsAt(t) /\ StateAt(t) /\ CopyAt(t)
    BY Zenon DEF Init, KindAt, LocksAt, BucketsAt, StateAt, CopyAt, HoldsRow, HoldsStruct,
           Reading, Cycle, Inserting, Clearing
  <2>2. CycleAt(t) /\ WindowAt(t) /\ ReadAt(t) /\ PositionAt(t) /\ ResultAt(t)
    BY CodesAssumption DEF Init, CycleAt, WindowAt, ReadAt, PositionAt, ResultAt, ReturnedRow,
                           Attempting, Reading
  <2> QED BY <2>1, <2>2, Zenon DEF ThreadInv
<1>4. \A t, u \in Threads : InsertAlone(t, u) /\ Untouched(t, u)
  BY Zenon DEF Init, InsertAlone, Untouched, Attempting, Inserting
<1>5. FreeInvisible /\ SeqParity /\ ImageKnown
  <2>1. FreeInvisible
    BY Zenon DEF Init, FreeInvisible
  <2>2. ~(seq % 2 = 1) /\ \A t \in Threads : pc[t] # "write"
    BY DEF Init
  <2>3. ImageKnown
    BY Zenon DEF Init, ImageKnown
  <2> QED BY <2>1, <2>2, <2>3, Zenon DEF SeqParity
<1> QED BY <1>2, <1>3, <1>4, <1>5, Zenon DEF Inv

\* A step that changes nothing keeps the invariant.
LEMMA StutterInv ==
  ASSUME Inv, UNCHANGED vars
  PROVE  Inv'
<1>1. TypeOK' /\ FreeInvisible' /\ SeqParity' /\ ImageKnown'
  BY Zenon DEF Inv, vars, TypeOK, FreeInvisible, SeqParity, ImageKnown
<1>2. ASSUME NEW t \in Threads PROVE ThreadInv(t)'
  <2>1. ThreadInv(t)
    BY Zenon DEF Inv
  <2>2. KindAt(t)' /\ StateAt(t)'
    BY <2>1 DEF vars, ThreadInv, KindAt, StateAt
  <2>3. LocksAt(t)' /\ BucketsAt(t)'
    BY <2>1 DEF vars, ThreadInv, LocksAt, BucketsAt, HoldsRow, HoldsStruct, KeyChanged
  <2>4. CopyAt(t)' /\ CycleAt(t)'
    BY <2>1 DEF vars, ThreadInv, CopyAt, CycleAt, Attempting
  <2>5. WindowAt(t)' /\ ReadAt(t)'
    BY <2>1 DEF vars, ThreadInv, WindowAt, ReadAt, Attempting, row
  <2>6. PositionAt(t)' /\ ResultAt(t)'
    BY <2>1 DEF vars, ThreadInv, PositionAt, ResultAt, ReturnedRow, Attempting
  <2> QED BY <2>2, <2>3, <2>4, <2>5, <2>6, Zenon DEF ThreadInv
<1>3. \A t, u \in Threads : InsertAlone(t, u)' /\ Untouched(t, u)'
  BY Zenon DEF Inv, vars, InsertAlone, Untouched, Attempting
<1> QED BY <1>1, <1>2, <1>3, Zenon DEF Inv

\* Every step of every statement keeps the invariant.
LEMMA NextInv == Inv /\ [Next]_vars => Inv'
<1> SUFFICES ASSUME Inv, [Next]_vars PROVE Inv'
  OBVIOUS
<1>1. ASSUME NEW t \in Threads, ReadStep(t) PROVE Inv'
  BY <1>1, ScanNextInv, ReadPosInv, FindInv, WalkInv, ReadStateInv, ReadGenInv, ReadSeqInv,
     CopyOutInv, ValidateInv, SavePositionInv DEF ReadStep
<1>2. ASSUME NEW t \in Threads, WriteStep(t) PROVE Inv'
  BY <1>2, WriteReadInv, LockRowInv, RereadInv, LeaveRowInv, UpdateRowInv, LockBucketInv, DupCheckInv,
     WriteOddInv, CopyInInv, WriteEvenInv, RelinkInv, DeleteRowInv, DeleteUnlinkInv, DeleteStateInv,
     DeleteGenInv, DeleteFreeInv, InsertAllocInv, InsertLinkInv, InsertPublishInv DEF WriteStep
<1>3. ASSUME NEW t \in Threads, ClearStep(t) PROVE Inv'
  BY <1>3, ClearInv, ClearHeadInv, ClearStateInv, ClearGenInv, ClearFreeInv, Zenon DEF ClearStep
<1>4. CASE UNCHANGED vars
  BY <1>4, StutterInv
<1> QED BY <1>1, <1>2, <1>3, <1>4, Zenon DEF Next, RowNext, AllReturned

\* Every variable of the slot keeps its type in every run, the clear included.
THEOREM Typing == Spec => []TypeOK
<1>1. Inv => TypeOK
  BY Zenon DEF Inv
<1> QED BY <1>1, InitInv, NextInv, PTL DEF Spec

\* For any number of threads and words: a scan, lookup or position read that
\* was not overtaken by an insert into the slot returns a complete image the row
\* had during the call, and a position read one of the row it was taken of.
THEOREM SeqlockReads == Spec => [](SeqlockSound /\ PositionSound)
<1>1. Inv => SeqlockSound /\ PositionSound
  BY Zenon DEF Inv, ThreadInv, ResultAt, SeqlockSound, PositionSound
<1> QED BY <1>1, InitInv, NextInv, PTL DEF Spec

\* For any number of threads and words: from the reread under the row lock to
\* the write, update_row works on the image it read (no lost update).
THEOREM LockedCycle == Spec => []RmwAtomic
<1>1. Inv => RmwAtomic
  <2> SUFFICES ASSUME Inv, NEW t \in Threads, pc[t] \in {"rmw", "lockset", "odd"}
               PROVE  row = buf[t] /\ data = buf[t] /\ gen = exp[t]
    BY Zenon DEF RmwAtomic
  <2>1. HoldsRow(t) /\ state = "ACTIVE" /\ gen = exp[t] /\ buf[t] = img
    BY Zenon DEF Inv, ThreadInv, CycleAt, HoldsRow, Cycle
  <2>2. seq \in Nat /\ ~(seq % 2 = 1)
    BY <2>1, OneWriter, Zenon DEF Inv, TypeOK, SeqParity
  <2>3. seq % 2 = 0
    BY <2>2
  <2> QED BY <2>1, <2>3, Zenon DEF Inv, ImageKnown, row
<1> QED BY <1>1, InitInv, NextInv, PTL DEF Spec
=============================================================================
