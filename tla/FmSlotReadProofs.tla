-------------------------- MODULE FmSlotReadProofs --------------------------
(***************************************************************************)
(* The steps of the slot's readers keep the invariant of FmSlotInv: the    *)
(* frame argument, then one lemma per action.                              *)
(***************************************************************************)
EXTENDS FmSlotInv, TLAPS

USE DEF Goto, Return, Begin, slotVars, lockVars, callVars, histVars

\* A step of t changes only its own locals and locks.
Frame(t) ==
  /\ wlock' # wlock => wlock \in {t, None} /\ wlock' \in {t, None}
  /\ smutex' # smutex => smutex \in {t, None} /\ smutex' \in {t, None}
  /\ \A b \in Buckets : block'[b] # block[b] => block[b] \in {t, None} /\ block'[b] \in {t, None}
  /\ \A u \in Threads \ {t} :
       /\ pc'[u] = pc[u] /\ kind'[u] = kind[u] /\ key'[u] = key[u] /\ exp'[u] = exp[u]
       /\ s1'[u] = s1[u] /\ todo'[u] = todo[u] /\ buf'[u] = buf[u] /\ new'[u] = new[u]
       /\ ref'[u] = ref[u] /\ ret'[u] = ret[u]

\* ... and nothing of the slot that another thread can see.
Private(t) ==
  /\ Frame(t)
  /\ UNCHANGED <<state, gen, seq, data, free, img, wrote>>
  /\ pc[t] # "write" /\ pc'[t] \notin Inserting \cup {"write"}
  /\ pc'[t] \in Dying => pc[t] \in Dying
  /\ \A u \in Threads \ {t} : seen'[u] = seen[u] /\ recycled'[u] = recycled[u]

\* A step of t touches no lock another thread holds, so what u knows about its
\* own locks stays true.
LEMMA FrameLocks ==
  ASSUME Inv, NEW t \in Threads, Frame(t), NEW u \in Threads \ {t}
  PROVE  KindAt(u)' /\ LocksAt(u)' /\ BucketsAt(u)'
<1>1. KindAt(u) /\ LocksAt(u) /\ BucketsAt(u) /\ TypeOK
  BY Zenon DEF Inv, ThreadInv
<1>2. KindAt(u)'
  BY <1>1, Zenon DEF Frame, KindAt, Reading, Cycle, Inserting, Clearing
<1>3. LocksAt(u)'
  BY <1>1, ThreadsAssumption, Zenon DEF Frame, LocksAt, HoldsRow, HoldsStruct
<1>4. BucketsAt(u)'
  BY <1>1, ThreadsAssumption, ImagesAssumption, BucketsAssumption
  DEF Frame, BucketsAt, KeyChanged, BucketOfRow, TypeOK
<1> QED BY <1>2, <1>3, <1>4

\* A step of t that leaves the slot alone keeps the invariant if it keeps what
\* the invariant says of t itself.
LEMMA PrivateStep ==
  ASSUME Inv, NEW t \in Threads, TypeOK', Private(t), ThreadInv(t)',
         \A u \in Threads : Untouched(t, u)'
  PROVE  Inv'
<1>1. ASSUME NEW u \in Threads \ {t} PROVE ThreadInv(u)'
  <2>1. ThreadInv(u)
    BY Zenon DEF Inv
  <2>2. KindAt(u)' /\ LocksAt(u)' /\ BucketsAt(u)'
    BY FrameLocks, Zenon DEF Private
  <2>3. CycleAt(u)' /\ StateAt(u)'
    BY <2>1, Zenon DEF ThreadInv, Private, Frame, CycleAt, StateAt, Attempting
  <2>4. CopyAt(u)' /\ WindowAt(u)'
    BY <2>1, Zenon DEF ThreadInv, Private, Frame, CopyAt, WindowAt, Attempting, row
  <2>5. ReadAt(u)'
    BY <2>1, Zenon DEF ThreadInv, Private, Frame, ReadAt, Attempting
  <2>6. PositionAt(u)'
    BY <2>1, Zenon DEF ThreadInv, Private, Frame, PositionAt, Attempting
  <2>7. ResultAt(u)'
    BY <2>1, Zenon DEF ThreadInv, Private, Frame, ResultAt, ReturnedRow
  <2> QED BY <2>2, <2>3, <2>4, <2>5, <2>6, <2>7, Zenon DEF ThreadInv
<1>2. ASSUME NEW u \in Threads, NEW x \in Threads PROVE InsertAlone(u, x)' /\ Untouched(u, x)'
  <2>1. InsertAlone(u, x) /\ Untouched(u, x)
    BY Zenon DEF Inv
  <2>2. InsertAlone(u, x)'
    BY <2>1, Zenon DEF Private, Frame, InsertAlone
  <2>3. CASE u # t
    BY <2>1, <2>2, <2>3, Zenon DEF Private, Frame, Untouched, Attempting, Inserting
  <2> QED BY <2>2, <2>3
<1>3. FreeInvisible' /\ ImageKnown'
  BY Zenon DEF Inv, FreeInvisible, ImageKnown, Private
<1>4. SeqParity'
  BY Zenon DEF Inv, SeqParity, Private, Frame
<1> QED BY <1>1, <1>2, <1>3, <1>4, Zenon DEF Inv

\* A call of the handler that ends without a row image keeps the invariant.
LEMMA LeaveCall ==
  ASSUME Inv, NEW t \in Threads, TypeOK', Private(t), pc'[t] = "idle", ret'[t] \notin Rows,
         UNCHANGED <<kind, exp, ref>>
  PROVE  Inv'
<1>1. TypeOK /\ PositionAt(t)
  BY Zenon DEF Inv, ThreadInv
<1>2. ThreadInv(t)'
  <2>1. KindAt(t)' /\ LocksAt(t)' /\ BucketsAt(t)' /\ StateAt(t)' /\ CopyAt(t)'
    BY Zenon DEF KindAt, LocksAt, HoldsRow, HoldsStruct, BucketsAt, StateAt, CopyAt,
           Reading, Cycle, Inserting, Clearing
  <2>2. CycleAt(t)' /\ WindowAt(t)' /\ ReadAt(t)' /\ ResultAt(t)'
    BY Zenon DEF CycleAt, WindowAt, ReadAt, ResultAt, ReturnedRow, Attempting, Reading
  <2>3. PositionAt(t)'
    BY <1>1, Zenon DEF PositionAt, Attempting, Private
  <2> QED BY <2>1, <2>2, <2>3, Zenon DEF ThreadInv
<1>3. \A u \in Threads : Untouched(t, u)'
  BY Zenon DEF Untouched, Attempting
<1> QED BY <1>2, <1>3, PrivateStep

\* A call of the handler that starts, or gets its row lock, keeps the invariant.
LEMMA BeginCall ==
  ASSUME Inv, NEW t \in Threads, TypeOK', Private(t), pc'[t] \in {"state", "walk", "lockrow", "reread", "heads"},
         row \in seen'[t], ref' = ref, KindAt(t)', LocksAt(t)', BucketsAt(t)',
         kind'[t] = "pos" => exp'[t] = ref[t],
         kind'[t] = "rmw" => pc'[t] \in {"lockrow", "reread"}
  PROVE  Inv'
<1>1. TypeOK /\ PositionAt(t)
  BY Zenon DEF Inv, ThreadInv
<1>2. ThreadInv(t)'
  <2>1. CycleAt(t)' /\ StateAt(t)' /\ CopyAt(t)' /\ ReadAt(t)' /\ ResultAt(t)'
    BY Zenon DEF CycleAt, StateAt, CopyAt, ReadAt, ResultAt, ReturnedRow, Attempting, Reading, Inserting
  <2>2. WindowAt(t)'
    BY Zenon DEF WindowAt, Attempting, Private, row
  <2>3. PositionAt(t)'
    BY <1>1, Zenon DEF PositionAt, Attempting, Private
  <2> QED BY <2>1, <2>2, <2>3, Zenon DEF ThreadInv
<1>3. \A u \in Threads : Untouched(t, u)'
  BY Zenon DEF Untouched, Attempting
<1> QED BY <1>2, <1>3, PrivateStep

\* rnd_next keeps the invariant.
LEMMA ScanNextInv ==
  ASSUME Inv, NEW t \in Threads, ScanNext(t)
  PROVE  Inv'
<1>1. TypeOK
  BY Zenon DEF Inv
<1>2. TypeOK'
  BY <1>1 DEF TypeOK, Labels, Kinds, Codes, row, ScanNext
<1>3. Private(t)
  BY <1>1, Zenon DEF TypeOK, Private, Frame, Dying, Inserting, ScanNext
<1>4. KindAt(t)' /\ LocksAt(t)' /\ BucketsAt(t)'
  BY <1>1, Zenon DEF TypeOK, KindAt, LocksAt, HoldsRow, HoldsStruct, BucketsAt, Reading, Cycle, Inserting, Clearing, ScanNext
<1>5. /\ row \in seen'[t] /\ pc'[t] \in {"state", "walk", "lockrow", "heads"} /\ ref' = ref
      /\ kind'[t] = "pos" => exp'[t] = ref[t]
      /\ kind'[t] = "rmw" => pc'[t] = "lockrow"
  BY <1>1, Zenon DEF TypeOK, row, ScanNext
<1> QED BY <1>2, <1>3, <1>4, <1>5, BeginCall

\* rnd_pos keeps the invariant.
LEMMA ReadPosInv ==
  ASSUME Inv, NEW t \in Threads, ReadPos(t)
  PROVE  Inv'
<1>1. TypeOK
  BY Zenon DEF Inv
<1>2. TypeOK'
  BY <1>1 DEF TypeOK, Labels, Kinds, Codes, row, ReadPos
<1>3. Private(t)
  BY <1>1, Zenon DEF TypeOK, Private, Frame, Dying, Inserting, ReadPos
<1>4. KindAt(t)' /\ LocksAt(t)' /\ BucketsAt(t)'
  BY <1>1, Zenon DEF TypeOK, KindAt, LocksAt, HoldsRow, HoldsStruct, BucketsAt, Reading, Cycle, Inserting, Clearing, ReadPos
<1>5. /\ row \in seen'[t] /\ pc'[t] \in {"state", "walk", "lockrow", "heads"} /\ ref' = ref
      /\ kind'[t] = "pos" => exp'[t] = ref[t]
      /\ kind'[t] = "rmw" => pc'[t] = "lockrow"
  BY <1>1, Zenon DEF TypeOK, row, ReadPos
<1> QED BY <1>2, <1>3, <1>4, <1>5, BeginCall

\* fm_core_find locks its bucket and keeps the invariant.
LEMMA FindInv ==
  ASSUME Inv, NEW t \in Threads, NEW k \in Keys, Find(t, k)
  PROVE  Inv'
<1>1. TypeOK
  BY Zenon DEF Inv
<1>2. TypeOK'
  BY <1>1, BucketsAssumption DEF TypeOK, Labels, Kinds, Codes, row, Find
<1>3. Private(t)
  BY <1>1, Zenon DEF TypeOK, Private, Frame, Dying, Inserting, Find
<1>4. KindAt(t)' /\ LocksAt(t)' /\ BucketsAt(t)'
  BY <1>1, BucketsAssumption, Zenon DEF TypeOK, KindAt, LocksAt, HoldsRow, HoldsStruct, BucketsAt, Reading, Cycle, Inserting, Clearing, Find
<1>5. /\ row \in seen'[t] /\ pc'[t] \in {"state", "walk", "lockrow", "heads"} /\ ref' = ref
      /\ kind'[t] = "pos" => exp'[t] = ref[t]
      /\ kind'[t] = "rmw" => pc'[t] = "lockrow"
  BY <1>1, Zenon DEF TypeOK, row, Find
<1> QED BY <1>2, <1>3, <1>4, <1>5, BeginCall

\* A read of a write statement keeps the invariant.
LEMMA WriteReadInv ==
  ASSUME Inv, NEW t \in Threads, WriteRead(t)
  PROVE  Inv'
<1>1. TypeOK
  BY Zenon DEF Inv
<1>2. TypeOK'
  BY <1>1 DEF TypeOK, Labels, Kinds, Codes, row, WriteRead
<1>3. Private(t)
  BY <1>1, Zenon DEF TypeOK, Private, Frame, Dying, Inserting, WriteRead
<1>4. KindAt(t)' /\ LocksAt(t)' /\ BucketsAt(t)'
  BY <1>1, Zenon DEF TypeOK, KindAt, LocksAt, HoldsRow, HoldsStruct, BucketsAt, Reading, Cycle, Inserting, Clearing, WriteRead
<1>5. /\ row \in seen'[t] /\ pc'[t] \in {"state", "walk", "lockrow", "heads"} /\ ref' = ref
      /\ kind'[t] = "pos" => exp'[t] = ref[t]
      /\ kind'[t] = "rmw" => pc'[t] = "lockrow"
  BY <1>1, Zenon DEF TypeOK, row, WriteRead
<1> QED BY <1>2, <1>3, <1>4, <1>5, BeginCall

\* lock_current_row keeps the invariant.
LEMMA LockRowInv ==
  ASSUME Inv, NEW t \in Threads, LockRow(t)
  PROVE  Inv'
<1>1. TypeOK /\ KindAt(t) /\ WindowAt(t)
  BY Zenon DEF Inv, ThreadInv
<1>2. TypeOK'
  BY <1>1, Zenon DEF TypeOK, Labels, LockRow
<1>3. Private(t)
  BY <1>1, Zenon DEF TypeOK, Private, Frame, Dying, Inserting, LockRow
<1>4. pc'[t] = "reread" /\ wlock' = t /\ kind'[t] = "rmw"
  BY <1>1, Zenon DEF TypeOK, KindAt, LockRow
<1>5. KindAt(t)' /\ LocksAt(t)' /\ BucketsAt(t)'
  BY <1>4, Zenon DEF KindAt, LocksAt, HoldsRow, HoldsStruct, BucketsAt, Reading, Cycle, Inserting, Clearing
<1>6. row \in seen'[t] /\ ref' = ref
  BY <1>1, Zenon DEF WindowAt, LockRow
<1> QED BY <1>2, <1>3, <1>4, <1>5, <1>6, BeginCall

\* The start of fm_core_clear keeps the invariant.
LEMMA ClearInv ==
  ASSUME Inv, NEW t \in Threads, Clear(t)
  PROVE  Inv'
<1>1. TypeOK
  BY Zenon DEF Inv
<1>2. TypeOK'
  BY <1>1 DEF TypeOK, Labels, Kinds, Codes, row, Clear
<1>3. Private(t)
  BY <1>1, Zenon DEF TypeOK, Private, Frame, Dying, Inserting, Clear
<1>4. KindAt(t)' /\ LocksAt(t)' /\ BucketsAt(t)'
  BY <1>1, Zenon DEF TypeOK, KindAt, LocksAt, HoldsRow, HoldsStruct, BucketsAt, Reading, Cycle, Inserting, Clearing, Clear
<1>5. /\ row \in seen'[t] /\ pc'[t] \in {"state", "walk", "lockrow", "heads"} /\ ref' = ref
      /\ kind'[t] = "pos" => exp'[t] = ref[t]
      /\ kind'[t] = "rmw" => pc'[t] = "lockrow"
  BY <1>1, Zenon DEF TypeOK, row, Clear
<1> QED BY <1>2, <1>3, <1>4, <1>5, BeginCall

\* fm_core_read_row going (back) to its state check keeps the invariant.
LEMMA Retry ==
  ASSUME Inv, NEW t \in Threads, TypeOK', Private(t), pc[t] \in Reading \cup {"walk", "reread"},
         pc'[t] = "state", UNCHANGED <<kind, key, ref, lockVars, seen>>,
         kind[t] = "pos" => exp'[t] = exp[t], kind[t] = "rmw" => exp'[t] = gen
  PROVE  Inv'
<1>1. TypeOK /\ ThreadInv(t)
  BY Zenon DEF Inv
<1>2. ThreadInv(t)'
  <2>1. KindAt(t)' /\ LocksAt(t)' /\ BucketsAt(t)'
    BY <1>1, Zenon DEF ThreadInv, KindAt, LocksAt, BucketsAt, HoldsRow, HoldsStruct, Reading, Cycle, Inserting, Clearing
  <2>2. CycleAt(t)' /\ StateAt(t)' /\ CopyAt(t)' /\ ReadAt(t)' /\ ResultAt(t)'
    BY Zenon DEF CycleAt, StateAt, CopyAt, ReadAt, ResultAt, ReturnedRow, Attempting, Reading, Inserting, Private
  <2>3. WindowAt(t)'
    BY <1>1, Zenon DEF ThreadInv, WindowAt, Attempting, Private, row, Reading
  <2>4. PositionAt(t)'
    BY <1>1, Zenon DEF ThreadInv, PositionAt, Attempting, Private
  <2> QED BY <2>1, <2>2, <2>3, <2>4, Zenon DEF ThreadInv
<1>3. \A u \in Threads : Untouched(t, u)'
  BY Zenon DEF Untouched, Attempting
<1> QED BY <1>2, <1>3, PrivateStep

\* The chain walk of fm_core_find keeps the invariant.
LEMMA WalkInv ==
  ASSUME Inv, NEW t \in Threads, Walk(t)
  PROVE  Inv'
<1>1. TypeOK /\ KindAt(t)
  BY Zenon DEF Inv, ThreadInv
<1>2. CASE BucketOf[key[t]] \in linked
  <2>1. TypeOK' /\ Private(t)
    BY <1>1, <1>2, Zenon DEF TypeOK, Labels, Private, Frame, Dying, Inserting, Walk
  <2>2. /\ pc[t] = "walk" /\ pc'[t] = "state" /\ kind[t] = "find"
        /\ UNCHANGED <<kind, key, exp, ref, lockVars, seen>>
    BY <1>1, <1>2, Zenon DEF TypeOK, KindAt, Walk
  <2> QED BY <2>1, <2>2, Retry
<1>3. CASE BucketOf[key[t]] \notin linked
  <2>1. /\ pc[t] = "walk" /\ pc' = [pc EXCEPT ![t] = "idle"] /\ ret' = [ret EXCEPT ![t] = NotFound]
        /\ Unbucket(t)
        /\ UNCHANGED <<slotVars, wlock, smutex, callVars, histVars>>
    BY <1>3, Zenon DEF Walk
  <2>2. TypeOK'
    BY <1>1, <2>1, Zenon DEF TypeOK, Labels, Codes, Unbucket
  <2>3. Private(t)
    BY <1>1, <2>1, Zenon DEF TypeOK, Private, Frame, Dying, Inserting, Unbucket
  <2> QED BY <1>1, <2>1, <2>2, <2>3, LeaveCall, CodesAssumption, Zenon DEF TypeOK
<1> QED BY <1>2, <1>3

\* fm_reread_locked, taking the generation, keeps the invariant.
LEMMA RereadInv ==
  ASSUME Inv, NEW t \in Threads, Reread(t)
  PROVE  Inv'
<1>1. TypeOK /\ KindAt(t)
  BY Zenon DEF Inv, ThreadInv
<1>2. TypeOK' /\ Private(t)
  BY <1>1, Zenon DEF TypeOK, Labels, Private, Frame, Dying, Inserting, Reread
<1>3. /\ pc[t] = "reread" /\ pc'[t] = "state" /\ kind[t] = "rmw" /\ exp'[t] = gen
      /\ UNCHANGED <<kind, key, ref, lockVars, seen>>
  BY <1>1, Zenon DEF TypeOK, KindAt, Reread
<1> QED BY <1>2, <1>3, Retry

\* FM_ERR_DELETED out of fm_core_read_row keeps the invariant.
LEMMA RowGoneInv ==
  ASSUME Inv, NEW t \in Threads, RowGone(t), pc[t] \in Reading,
         UNCHANGED <<slotVars, smutex, callVars, seen>>,
         \A u \in Threads \ {t} : recycled'[u] = recycled[u], recycled' \in [Threads -> BOOLEAN]
  PROVE  Inv'
<1>1. TypeOK /\ LocksAt(t)
  BY Zenon DEF Inv, ThreadInv
<1>2. /\ pc' = [pc EXCEPT ![t] = "idle"]
      /\ \E r \in {NotFound, Deleted} : ret' = [ret EXCEPT ![t] = r]
      /\ Unbucket(t) \/ UNCHANGED block
      /\ wlock' = IF kind[t] = "rmw" THEN None ELSE wlock
  BY Zenon DEF RowGone
<1>3. TypeOK'
  BY <1>1, <1>2, Zenon DEF TypeOK, Labels, Codes, Unbucket
<1>4. Private(t)
  BY <1>1, <1>2, Zenon DEF TypeOK, Private, Frame, Dying, Inserting, Unbucket, LocksAt, HoldsRow, Reading
<1> QED BY <1>1, <1>2, <1>3, <1>4, LeaveCall, CodesAssumption DEF TypeOK

\* The state check of fm_core_read_row keeps the invariant.
LEMMA ReadStateInv ==
  ASSUME Inv, NEW t \in Threads, ReadState(t)
  PROVE  Inv'
<1>1. TypeOK /\ ThreadInv(t) /\ ImageKnown
  BY Zenon DEF Inv
<1>2. CASE state = "ACTIVE"
  <2>1. /\ pc[t] = "state" /\ recycled' = [recycled EXCEPT ![t] = FALSE]
        /\ pc' = [pc EXCEPT ![t] = IF kind[t] \in {"pos", "rmw"} THEN "gen" ELSE "seq"]
        /\ UNCHANGED <<slotVars, lockVars, callVars, ret, seen>>
    BY <1>2, Zenon DEF ReadState
  <2>2. TypeOK' /\ Private(t)
    BY <1>1, <2>1, Zenon DEF TypeOK, Labels, Private, Frame, Dying, Inserting
  <2>3. KindAt(t)' /\ LocksAt(t)' /\ BucketsAt(t)'
    BY <1>1, <2>1, Zenon DEF TypeOK, ThreadInv, KindAt, LocksAt, BucketsAt, HoldsRow, HoldsStruct,
                      Reading, Cycle, Inserting, Clearing
  <2>4. CycleAt(t)' /\ StateAt(t)' /\ CopyAt(t)' /\ ResultAt(t)'
    BY <1>1, <1>2, <2>1, Zenon DEF TypeOK, ThreadInv, CycleAt, StateAt, CopyAt, ResultAt, ReturnedRow,
                            Attempting, Reading, Inserting
  <2>5. WindowAt(t)' /\ ReadAt(t)' /\ PositionAt(t)'
    BY <1>1, <1>2, <2>1, Zenon DEF TypeOK, ThreadInv, WindowAt, ReadAt, PositionAt, ImageKnown, Attempting, row
  <2>6. ASSUME NEW u \in Threads PROVE Untouched(t, u)'
    <3>1. StateAt(u)
      BY Zenon DEF Inv, ThreadInv
    <3> QED BY <1>1, <1>2, <2>1, <3>1, Zenon DEF TypeOK, StateAt, Untouched, Inserting
  <2> QED BY <2>2, <2>3, <2>4, <2>5, <2>6, PrivateStep, Zenon DEF ThreadInv
<1>3. CASE state # "ACTIVE"
  BY <1>1, <1>3, RowGoneInv, Zenon DEF ReadState, TypeOK, Reading
<1> QED BY <1>2, <1>3

\* The generation check of fm_core_read_row keeps the invariant.
LEMMA ReadGenInv ==
  ASSUME Inv, NEW t \in Threads, ReadGen(t)
  PROVE  Inv'
<1>1. TypeOK /\ ThreadInv(t)
  BY Zenon DEF Inv
<1>2. CASE gen = exp[t]
  <2>1. /\ pc[t] = "gen" /\ pc' = [pc EXCEPT ![t] = "seq"]
        /\ UNCHANGED <<slotVars, lockVars, callVars, ret, histVars>>
    BY <1>2, Zenon DEF ReadGen
  <2>2. TypeOK' /\ Private(t)
    BY <1>1, <2>1, Zenon DEF TypeOK, Labels, Private, Frame, Dying, Inserting
  <2>3. KindAt(t)' /\ LocksAt(t)' /\ BucketsAt(t)'
    BY <1>1, <2>1, Zenon DEF TypeOK, ThreadInv, KindAt, LocksAt, BucketsAt, HoldsRow, HoldsStruct,
                      Reading, Cycle, Inserting, Clearing
  <2>4. CycleAt(t)' /\ StateAt(t)' /\ CopyAt(t)' /\ ResultAt(t)'
    BY <1>1, <2>1, Zenon DEF TypeOK, ThreadInv, CycleAt, StateAt, CopyAt, ResultAt, ReturnedRow,
                      Attempting, Reading, Inserting
  <2>5. WindowAt(t)' /\ ReadAt(t)' /\ PositionAt(t)'
    BY <1>1, <1>2, <2>1, Zenon DEF TypeOK, ThreadInv, WindowAt, ReadAt, PositionAt, Attempting, row
  <2>6. ASSUME NEW u \in Threads PROVE Untouched(t, u)'
    <3>1. Untouched(t, u)
      BY Zenon DEF Inv
    <3> QED BY <1>1, <2>1, <3>1, Zenon DEF TypeOK, Untouched, Attempting
  <2> QED BY <2>2, <2>3, <2>4, <2>5, <2>6, PrivateStep, Zenon DEF ThreadInv
<1>3. CASE gen # exp[t]
  BY <1>1, <1>3, RowGoneInv, Zenon DEF ReadGen, TypeOK, Reading
<1> QED BY <1>2, <1>3

\* The first load of seq keeps the invariant.
LEMMA ReadSeqInv ==
  ASSUME Inv, NEW t \in Threads, ReadSeq(t)
  PROVE  Inv'
<1>1. TypeOK /\ ThreadInv(t)
  BY Zenon DEF Inv
<1>2. CASE seq % 2 = 1
  <2>1. /\ pc[t] = "seq" /\ pc' = [pc EXCEPT ![t] = "state"]
        /\ UNCHANGED <<slotVars, lockVars, callVars, ret, histVars>>
    BY <1>2, Zenon DEF ReadSeq
  <2>2. TypeOK' /\ Private(t)
    BY <1>1, <2>1, Zenon DEF TypeOK, Labels, Private, Frame, Dying, Inserting
  <2>3. kind[t] = "rmw" => exp[t] = gen
    BY <1>1, <2>1, Zenon DEF ThreadInv, CycleAt, Reading
  <2> QED BY <1>1, <2>1, <2>2, <2>3, Retry, Zenon DEF TypeOK, Reading
<1>3. CASE seq % 2 # 1
  <2>1. /\ pc[t] = "seq" /\ pc' = [pc EXCEPT ![t] = "copy"]
        /\ s1' = [s1 EXCEPT ![t] = seq] /\ todo' = [todo EXCEPT ![t] = Words]
        /\ UNCHANGED <<slotVars, lockVars, kind, key, exp, buf, new, ref, ret, ops, histVars>>
    BY <1>3, Zenon DEF ReadSeq
  <2>2. TypeOK'
    BY <1>1, <2>1, Zenon DEF TypeOK, Labels
  <2>3. Private(t)
    BY <1>1, <2>1, Zenon DEF TypeOK, Private, Frame, Dying, Inserting
  <2>4. KindAt(t)' /\ LocksAt(t)' /\ BucketsAt(t)'
    BY <1>1, <2>1, Zenon DEF TypeOK, ThreadInv, KindAt, LocksAt, BucketsAt, HoldsRow, HoldsStruct,
                      Reading, Cycle, Inserting, Clearing
  <2>5. CycleAt(t)' /\ StateAt(t)' /\ CopyAt(t)' /\ ResultAt(t)'
    BY <1>1, <2>1, Zenon DEF TypeOK, ThreadInv, CycleAt, StateAt, CopyAt, ResultAt, ReturnedRow,
                      Attempting, Reading, Inserting
  <2>6. WindowAt(t)' /\ PositionAt(t)'
    BY <1>1, <2>1, Zenon DEF TypeOK, ThreadInv, WindowAt, PositionAt, Attempting, row
  <2>7. ReadAt(t)'
    BY <1>1, <1>3, <2>1 DEF TypeOK, ThreadInv, ReadAt, Attempting
  <2>8. ASSUME NEW u \in Threads PROVE Untouched(t, u)'
    <3>1. Untouched(t, u)
      BY Zenon DEF Inv
    <3> QED BY <1>1, <2>1, <3>1, Zenon DEF TypeOK, Untouched, Attempting
  <2> QED BY <2>2, <2>3, <2>4, <2>5, <2>6, <2>7, <2>8, PrivateStep, Zenon DEF ThreadInv
<1> QED BY <1>2, <1>3

\* Copying one word out of the slot keeps the invariant.
LEMMA CopyOutInv ==
  ASSUME Inv, NEW t \in Threads, NEW w \in Words, CopyOut(t, w)
  PROVE  Inv'
<1>1. TypeOK /\ ThreadInv(t)
  BY Zenon DEF Inv
<1>2. buf' \in [Threads -> Rows] /\ \A u \in Threads \ {t} : buf'[u] = buf[u]
  BY <1>1, Zenon DEF TypeOK, Rows, CopyOut
<1>3. TypeOK' /\ Private(t)
  BY <1>1, <1>2, Zenon DEF TypeOK, Private, Frame, Dying, Inserting, CopyOut
<1>4. KindAt(t)' /\ LocksAt(t)' /\ BucketsAt(t)'
  BY <1>1, Zenon DEF ThreadInv, KindAt, LocksAt, BucketsAt, HoldsRow, HoldsStruct, CopyOut,
              Reading, Cycle, Inserting, Clearing
<1>5. CycleAt(t)' /\ StateAt(t)' /\ CopyAt(t)' /\ ResultAt(t)'
  BY <1>1, Zenon DEF ThreadInv, CycleAt, StateAt, CopyAt, ResultAt, ReturnedRow, Attempting, CopyOut
<1>6. WindowAt(t)' /\ PositionAt(t)'
  BY <1>1, Zenon DEF ThreadInv, WindowAt, PositionAt, Attempting, row, CopyOut
<1>7. ReadAt(t)'
  <2>1. \A x \in Words : buf'[t][x] = IF x = w THEN data[w] ELSE buf[t][x]
    BY <1>1, Zenon DEF TypeOK, Rows, CopyOut
  <2> QED BY <1>1, <2>1, Zenon DEF TypeOK, ThreadInv, ReadAt, Attempting, CopyOut
<1>8. ASSUME NEW u \in Threads PROVE Untouched(t, u)'
  <2>1. Untouched(t, u)
    BY Zenon DEF Inv
  <2> QED BY <1>1, <2>1, Zenon DEF TypeOK, Untouched, Attempting, CopyOut
<1> QED BY <1>3, <1>4, <1>5, <1>6, <1>7, <1>8, PrivateStep, Zenon DEF ThreadInv

\* A copy that fm_core_read_row validates by an unchanged even seq is the
\* current image.
LEMMA ValidatedCopy ==
  ASSUME Inv, NEW t \in Threads, pc[t] = "copy", todo[t] = {}, seq = s1[t], ~recycled[t]
  PROVE  buf[t] = img
<1>1. TypeOK /\ ReadAt(t)
  BY Zenon DEF Inv, ThreadInv
<1>2. data = img /\ \A w \in Words : buf[t][w] = data[w]
  BY <1>1, Zenon DEF ReadAt, Attempting
<1>3. buf[t] \in Rows /\ data \in Rows
  BY <1>1, Zenon DEF TypeOK
<1> QED BY <1>2, <1>3 DEF Rows

\* fm_core_read_row handing its copy to the caller keeps the invariant.
LEMMA Deliver ==
  ASSUME Inv, NEW t \in Threads, pc[t] = "copy", todo[t] = {}, seq = s1[t],
         UNCHANGED <<slotVars, wlock, smutex, callVars, histVars>>,
         Unbucket(t) \/ UNCHANGED block, ret' = [ret EXCEPT ![t] = buf[t]],
         \/ kind[t] \in {"find", "scan"} /\ pc' = [pc EXCEPT ![t] = "ref"]
         \/ kind[t] = "pos" /\ pc' = [pc EXCEPT ![t] = "idle"]
  PROVE  Inv'
<1>1. TypeOK /\ ThreadInv(t)
  BY Zenon DEF Inv
<1>2. TypeOK'
  BY <1>1 DEF TypeOK, Labels, Unbucket
<1>3. Private(t)
  BY <1>1, Zenon DEF TypeOK, Private, Frame, Dying, Inserting, Unbucket
<1>4. KindAt(t)' /\ LocksAt(t)' /\ BucketsAt(t)'
  BY <1>1, Zenon DEF TypeOK, KindAt, LocksAt, BucketsAt, HoldsRow, HoldsStruct,
              Reading, Cycle, Inserting, Clearing
<1>5. CycleAt(t)' /\ StateAt(t)' /\ CopyAt(t)' /\ ReadAt(t)'
  BY <1>1, Zenon DEF TypeOK, CycleAt, StateAt, CopyAt, ReadAt, Attempting, Reading, Inserting
<1>6. WindowAt(t)' /\ PositionAt(t)'
  BY <1>1, Zenon DEF TypeOK, ThreadInv, WindowAt, PositionAt, Attempting, row
<1>7. ResultAt(t)'
  <2>1. img \in seen[t] /\ (kind[t] = "pos" /\ ~recycled[t] => <<exp[t], img>> \in wrote)
    BY <1>1, Zenon DEF ThreadInv, WindowAt, PositionAt, Attempting
  <2>2. ~recycled[t] => buf[t] = img
    BY ValidatedCopy, Zenon
  <2> QED BY <1>1, <2>1, <2>2, Zenon DEF TypeOK, ResultAt
<1>8. \A u \in Threads : Untouched(t, u)'
  BY <1>1, Zenon DEF TypeOK, Untouched, Attempting
<1> QED BY <1>2, <1>3, <1>4, <1>5, <1>6, <1>7, <1>8, PrivateStep, Zenon DEF ThreadInv

\* The second load of seq keeps the invariant.
LEMMA ValidateInv ==
  ASSUME Inv, NEW t \in Threads, Validate(t)
  PROVE  Inv'
<1>1. TypeOK /\ ThreadInv(t)
  BY Zenon DEF Inv
<1>2. /\ pc[t] = "copy" /\ todo[t] = {}
      /\ UNCHANGED <<slotVars, wlock, smutex, callVars, histVars>>
  BY Zenon DEF Validate
<1>3. CASE seq # s1[t]
  <2>1. pc' = [pc EXCEPT ![t] = "state"] /\ UNCHANGED <<block, ret>>
    BY <1>3, Zenon DEF Validate
  <2>2. TypeOK' /\ Private(t)
    BY <1>1, <1>2, <2>1, Zenon DEF TypeOK, Labels, Private, Frame, Dying, Inserting
  <2>3. kind[t] = "rmw" => exp[t] = gen
    BY <1>1, <1>2, Zenon DEF ThreadInv, CycleAt, Reading
  <2> QED BY <1>1, <1>2, <2>1, <2>2, <2>3, Retry, Zenon DEF TypeOK, Reading
<1>4. CASE seq = s1[t] /\ kind[t] = "find" /\ KeyOf[buf[t]] # key[t]
  <2>1. /\ Unbucket(t) /\ pc' = [pc EXCEPT ![t] = "idle"] /\ ret' = [ret EXCEPT ![t] = NotFound]
    BY <1>4, Zenon DEF Validate
  <2>2. TypeOK'
    BY <1>1, <1>2, <2>1, Zenon DEF TypeOK, Labels, Codes, Unbucket
  <2>3. Private(t)
    BY <1>1, <1>2, <2>1, Zenon DEF TypeOK, Private, Frame, Dying, Inserting, Unbucket
  <2> QED BY <1>1, <1>2, <2>1, <2>2, <2>3, LeaveCall, CodesAssumption, Zenon DEF TypeOK
<1>5. CASE seq = s1[t] /\ ~(kind[t] = "find" /\ KeyOf[buf[t]] # key[t]) /\ kind[t] # "rmw"
  <2>1. /\ Unbucket(t) \/ UNCHANGED block
        /\ ret' = [ret EXCEPT ![t] = buf[t]]
        /\ \/ kind[t] \in {"find", "scan"} /\ pc' = [pc EXCEPT ![t] = "ref"]
           \/ kind[t] = "pos" /\ pc' = [pc EXCEPT ![t] = "idle"]
    BY <1>5, Zenon DEF Validate
  <2> QED BY <1>2, <1>5, <2>1, Deliver
<1>6. CASE seq = s1[t] /\ kind[t] = "rmw"
  <2>1. pc' = [pc EXCEPT ![t] = "rmw"] /\ UNCHANGED <<block, ret>>
    BY <1>6, Zenon DEF Validate
  <2>2. TypeOK' /\ Private(t)
    BY <1>1, <1>2, <2>1, Zenon DEF TypeOK, Labels, Private, Frame, Dying, Inserting
  <2>3. KindAt(t)' /\ LocksAt(t)' /\ BucketsAt(t)'
    BY <1>1, <1>2, <1>6, <2>1, Zenon DEF TypeOK, ThreadInv, KindAt, LocksAt, BucketsAt, HoldsRow,
                                  HoldsStruct, Reading, Cycle, Inserting, Clearing
  <2>4. CycleAt(t)'
    <3>1. state = "ACTIVE" /\ ~recycled[t] /\ gen = exp[t]
      BY <1>1, <1>2, <1>6, Zenon DEF ThreadInv, CycleAt, Attempting, Reading
    <3> QED BY <1>1, <1>2, <1>6, <2>1, <3>1, ValidatedCopy, Zenon DEF TypeOK, CycleAt, Attempting, Reading
  <2>5. StateAt(t)' /\ CopyAt(t)' /\ ReadAt(t)' /\ ResultAt(t)'
    BY <1>1, <2>1, Zenon DEF TypeOK, StateAt, CopyAt, ReadAt, ResultAt, ReturnedRow, Attempting, Inserting
  <2>6. WindowAt(t)' /\ PositionAt(t)'
    BY <1>1, <1>2, <1>6, <2>1, Zenon DEF TypeOK, ThreadInv, WindowAt, PositionAt, Attempting, row
  <2>7. \A u \in Threads : Untouched(t, u)'
    BY <1>1, <2>1, Zenon DEF TypeOK, Untouched, Attempting
  <2> QED BY <2>2, <2>3, <2>4, <2>5, <2>6, <2>7, PrivateStep, Zenon DEF ThreadInv
<1> QED BY <1>1, <1>2, <1>3, <1>4, <1>5, <1>6

\* Saving the position of the row just read keeps the invariant.
LEMMA SavePositionInv ==
  ASSUME Inv, NEW t \in Threads, SavePosition(t)
  PROVE  Inv'
<1>1. TypeOK /\ ThreadInv(t)
  BY Zenon DEF Inv
<1>2. TypeOK' /\ Private(t)
  BY <1>1, Zenon DEF TypeOK, Labels, Private, Frame, Dying, Inserting, SavePosition
<1>3. KindAt(t)' /\ LocksAt(t)' /\ BucketsAt(t)' /\ StateAt(t)' /\ CopyAt(t)'
  BY <1>1, Zenon DEF TypeOK, KindAt, LocksAt, BucketsAt, StateAt, CopyAt, HoldsRow, HoldsStruct,
              Reading, Cycle, Inserting, Clearing, SavePosition
<1>4. CycleAt(t)' /\ WindowAt(t)' /\ ReadAt(t)' /\ PositionAt(t)' /\ ResultAt(t)'
  BY <1>1 DEF TypeOK, ThreadInv, CycleAt, WindowAt, ReadAt, PositionAt, ResultAt, ReturnedRow,
              KindAt, Attempting, Reading, SavePosition
<1>5. \A u \in Threads : Untouched(t, u)'
  BY <1>1, Zenon DEF TypeOK, Untouched, Attempting, SavePosition
<1> QED BY <1>2, <1>3, <1>4, <1>5, PrivateStep, Zenon DEF ThreadInv
=============================================================================
