------------------------------- MODULE FmSlot -------------------------------
(***************************************************************************)
(* One row slot of fm_core.h under every operation the handler runs on it: *)
(* seqlock reads by scans, by positions and by hash lookups, the locked    *)
(* read-modify-write cycle of UPDATE and DELETE, INSERT into the recycled  *)
(* slot, and the table clear.  Memory is sequentially consistent; a record *)
(* image is copied word by word, in any order.  The table has one hash key *)
(* and the other rows appear only as the outcome of a duplicate check.     *)
(* MaxOps bounds the calls of a thread.                                    *)
(***************************************************************************)
EXTENDS Integers

CONSTANTS Threads, None,
          Words, Vals,          \* a record image: one value per word
          Images,               \* the images that statements write
          Keys, KeyOf,          \* the key columns of an image
          NBuckets, BucketOf,   \* fm_core_key_bucket
          NoRow, Busy, Ok, Deleted, NotFound, DupKey,
          MaxOps

Rows == [Words -> Vals]
Buckets == 0 .. NBuckets - 1

ASSUME ThreadsAssumption == None \notin Threads
ASSUME ImagesAssumption == Images \subseteq Rows /\ KeyOf \in [Rows -> Keys]
ASSUME BucketsAssumption == NBuckets \in Nat /\ BucketOf \in [Keys -> Buckets]
ASSUME CodesAssumption ==
  /\ {NoRow, Busy, Ok, Deleted, NotFound, DupKey} \cap Rows = {}
  /\ NoRow \notin Keys
ASSUME WordsAssumption == Words # {}
ASSUME MaxOpsAssumption == MaxOps \in Nat

VARIABLES
  state, gen, seq, wlock,   \* FM_SLOT
  data,                     \* the record image behind it
  linked,                   \* the buckets whose chain holds the slot
  block,                    \* block[b]: owner of the bucket lock
  smutex,                   \* owner of struct_mutex
  free,                     \* the slot is on the freelist
  pc, kind,                 \* where each thread is, and in which call
  key, exp, s1, todo, buf, new,   \* its locals
  ref,                      \* ref[t]: generation in t's saved position
  ret,                      \* what its latest call returned
  ops,                      \* calls it may still make
  img,                      \* history: last image completely written
  wrote,                    \* history: <<generation, image>> of the row
  seen,                     \* history: values of the row since the call
  recycled                  \* history: an insert overwrote the slot since
                            \* the state check of the current attempt

slotVars == <<state, gen, seq, data, linked, free, img, wrote>>
lockVars == <<wlock, block, smutex>>
callVars == <<kind, key, exp, s1, todo, buf, new, ref, ops>>
histVars == <<seen, recycled>>
vars == <<state, gen, seq, wlock, data, linked, block, smutex, free, pc, kind,
          key, exp, s1, todo, buf, new, ref, ret, ops, img, wrote, seen, recycled>>

\* What a reader of this moment should see.
row == IF state = "ACTIVE" THEN img ELSE NoRow

BucketOfRow(r) == BucketOf[KeyOf[r]]

Goto(t, l) == pc' = [pc EXCEPT ![t] = l]

\* Every call that is still open witnesses the new value of the row.
Witness(v) ==
  seen' = [t \in Threads |-> IF pc[t] = "idle" THEN seen[t] ELSE seen[t] \cup {v}]

Return(t, r) ==
  /\ Goto(t, "idle")
  /\ ret' = [ret EXCEPT ![t] = r]

Init ==
  /\ state \in {"FREE", "ACTIVE"}
  /\ gen = 0 /\ seq = 0
  /\ wlock = None /\ smutex = None /\ block = [b \in Buckets |-> None]
  /\ data \in Images
  /\ img = data
  /\ wrote = IF state = "ACTIVE" THEN {<<0, data>>} ELSE {}
  /\ linked = IF state = "ACTIVE" THEN {BucketOfRow(data)} ELSE {}
  /\ free = (state = "FREE")
  /\ pc = [t \in Threads |-> "idle"]
  /\ kind = [t \in Threads |-> "none"]
  /\ key = [t \in Threads |-> KeyOf[data]]
  /\ exp = [t \in Threads |-> 0]
  /\ s1 = [t \in Threads |-> 0]
  /\ todo = [t \in Threads |-> {}]
  /\ buf = [t \in Threads |-> data]
  /\ new = [t \in Threads |-> data]
  /\ ref = [t \in Threads |-> -1]
  /\ ret = [t \in Threads |-> Ok]
  /\ ops = [t \in Threads |-> MaxOps]
  /\ seen = [t \in Threads |-> {}]
  /\ recycled = [t \in Threads |-> FALSE]

Begin(t, c, l) ==
  /\ pc[t] = "idle" /\ ops[t] > 0
  /\ ops' = [ops EXCEPT ![t] = @ - 1]
  /\ kind' = [kind EXCEPT ![t] = c]
  /\ Goto(t, l)
  /\ ret' = [ret EXCEPT ![t] = Busy]
  /\ seen' = [seen EXCEPT ![t] = {row}]
  /\ recycled' = [recycled EXCEPT ![t] = FALSE]
-----------------------------------------------------------------------------
(* The callers of fm_core_read_row. *)

\* rnd_next of a scan that has reached this slot.
ScanNext(t) ==
  /\ Begin(t, "scan", "state")
  /\ UNCHANGED <<slotVars, lockVars, key, exp, s1, todo, buf, new, ref>>

\* rnd_pos: read the row that the saved position names.
ReadPos(t) ==
  /\ ref[t] # -1
  /\ Begin(t, "pos", "state")
  /\ exp' = [exp EXCEPT ![t] = ref[t]]
  /\ UNCHANGED <<slotVars, lockVars, key, s1, todo, buf, new, ref>>

\* fm_core_find: the bucket lock is held over the whole walk.
Find(t, k) ==
  /\ block[BucketOf[k]] = None
  /\ block' = [block EXCEPT ![BucketOf[k]] = t]
  /\ key' = [key EXCEPT ![t] = k]
  /\ Begin(t, "find", "walk")
  /\ UNCHANGED <<slotVars, wlock, smutex, exp, s1, todo, buf, new, ref>>

Unbucket(t) == block' = [b \in Buckets |-> IF block[b] = t THEN None ELSE block[b]]

\* Mutant: the bucket lock is dropped before the row is read.
WalkUnlocked(t) ==
  /\ pc[t] = "walk"
  /\ Unbucket(t)
  /\ IF BucketOf[key[t]] \in linked
       THEN Goto(t, "state") /\ UNCHANGED ret
       ELSE Return(t, NotFound)
  /\ UNCHANGED <<slotVars, wlock, smutex, callVars, histVars>>

Walk(t) ==
  /\ pc[t] = "walk"
  /\ IF BucketOf[key[t]] \in linked
       THEN /\ Goto(t, "state") /\ UNCHANGED <<block, ret>>
       ELSE /\ Unbucket(t) /\ Return(t, NotFound)
  /\ UNCHANGED <<slotVars, wlock, smutex, callVars, histVars>>

\* A read of a write statement has found the slot and calls lock_current_row.
WriteRead(t) ==
  /\ Begin(t, "rmw", "lockrow")
  /\ UNCHANGED <<slotVars, lockVars, key, exp, s1, todo, buf, new, ref>>

\* lock_current_row: the spin on the row lock ends.
LockRow(t) ==
  /\ pc[t] = "lockrow"
  /\ wlock = None
  /\ wlock' = t
  /\ Goto(t, "reread")
  /\ UNCHANGED <<slotVars, block, smutex, callVars, ret, histVars>>

\* The generation that fm_reread_locked expects: the present one.
Reread(t) ==
  /\ pc[t] = "reread"
  /\ exp' = [exp EXCEPT ![t] = gen]
  /\ Goto(t, "state")
  /\ UNCHANGED <<slotVars, lockVars, kind, key, s1, todo, buf, new, ref, ret, ops, histVars>>
-----------------------------------------------------------------------------
(* fm_core_read_row. *)

\* FM_ERR_DELETED, passed on by each caller.
RowGone(t) ==
  /\ Return(t, IF kind[t] = "find" THEN NotFound ELSE Deleted)
  /\ IF kind[t] = "find" THEN Unbucket(t) ELSE UNCHANGED block
  /\ wlock' = IF kind[t] = "rmw" THEN None ELSE wlock

ReadState(t) ==
  /\ pc[t] = "state"
  /\ IF state = "ACTIVE"
       THEN /\ Goto(t, IF kind[t] \in {"pos", "rmw"} THEN "gen" ELSE "seq")
            /\ recycled' = [recycled EXCEPT ![t] = FALSE]
            /\ UNCHANGED <<wlock, block, ret>>
       ELSE /\ RowGone(t) /\ UNCHANGED recycled
  /\ UNCHANGED <<slotVars, smutex, callVars, seen>>

\* Mutant: check_gen is ignored.
ReadGenIgnored(t) ==
  /\ pc[t] = "gen"
  /\ Goto(t, "seq")
  /\ UNCHANGED <<slotVars, lockVars, ret, callVars, histVars>>

ReadGen(t) ==
  /\ pc[t] = "gen"
  /\ IF gen = exp[t]
       THEN Goto(t, "seq") /\ UNCHANGED <<wlock, block, ret>>
       ELSE RowGone(t)
  /\ UNCHANGED <<slotVars, smutex, callVars, histVars>>

ReadSeq(t) ==
  /\ pc[t] = "seq"
  /\ IF seq % 2 = 1
       THEN Goto(t, "state") /\ UNCHANGED <<s1, todo>>
       ELSE /\ s1' = [s1 EXCEPT ![t] = seq]
            /\ todo' = [todo EXCEPT ![t] = Words]
            /\ Goto(t, "copy")
  /\ UNCHANGED <<slotVars, lockVars, kind, key, exp, buf, new, ref, ret, ops, histVars>>

CopyOut(t, w) ==
  /\ pc[t] = "copy" /\ w \in todo[t]
  /\ buf' = [buf EXCEPT ![t][w] = data[w]]
  /\ todo' = [todo EXCEPT ![t] = @ \ {w}]
  /\ UNCHANGED <<slotVars, lockVars, pc, kind, key, exp, s1, new, ref, ret, ops, histVars>>

\* The second load of seq decides; then each caller goes its own way.
Validate(t) ==
  /\ pc[t] = "copy" /\ todo[t] = {}
  /\ \/ /\ seq # s1[t]
        /\ Goto(t, "state") /\ UNCHANGED <<block, ret>>
     \/ /\ seq = s1[t] /\ kind[t] = "find"
        /\ Unbucket(t)
        /\ IF KeyOf[buf[t]] = key[t]
             THEN /\ Goto(t, "ref") /\ ret' = [ret EXCEPT ![t] = buf[t]]
             ELSE Return(t, NotFound)
     \/ /\ seq = s1[t] /\ kind[t] = "scan"
        /\ Goto(t, "ref") /\ ret' = [ret EXCEPT ![t] = buf[t]] /\ UNCHANGED block
     \/ /\ seq = s1[t] /\ kind[t] = "pos"
        /\ Return(t, buf[t]) /\ UNCHANGED block
     \/ /\ seq = s1[t] /\ kind[t] = "rmw"
        /\ Goto(t, "rmw") /\ UNCHANGED <<block, ret>>
  /\ UNCHANGED <<slotVars, wlock, smutex, callVars, histVars>>

\* fm_slot_gen, after the copy (and after the bucket lock): the position.
SavePosition(t) ==
  /\ pc[t] = "ref"
  /\ ref' = [ref EXCEPT ![t] = gen]
  /\ Goto(t, "idle")
  /\ UNCHANGED <<slotVars, lockVars, kind, key, exp, s1, todo, buf, new, ret, ops, histVars>>
-----------------------------------------------------------------------------
(* update_row and delete_row: the rest of the locked cycle. *)

\* The row was read but the statement does not change it.
LeaveRow(t) ==
  /\ pc[t] = "rmw"
  /\ wlock' = None
  /\ Return(t, Ok)
  /\ UNCHANGED <<slotVars, block, smutex, callVars, histVars>>

\* The check both _locked variants start with; update_row and delete_row
\* then release the row lock.  They come here with the lock of the row just
\* read, so the branch that takes it late (ha_fastmem.cc:214-224) is not reached.
Verified(t) == state = "ACTIVE" /\ gen = exp[t]
Refuse(t) == wlock' = None /\ Return(t, Deleted)

KeyChanged(t) == KeyOf[new[t]] # KeyOf[buf[t]]

UpdateRow(t, v) ==
  /\ pc[t] = "rmw"
  /\ new' = [new EXCEPT ![t] = v]
  /\ IF Verified(t)
       THEN /\ Goto(t, IF KeyOf[v] = KeyOf[buf[t]] THEN "odd" ELSE "lockset")
            /\ UNCHANGED <<wlock, ret>>
       ELSE Refuse(t)
  /\ UNCHANGED <<slotVars, block, smutex, kind, key, exp, s1, todo, buf, ref, ops, histVars>>

\* Mutant: a key change locks only its old bucket.
UnlockedOldOnly(t) == {b \in {BucketOfRow(buf[t])} : block[b] # t}

\* The buckets of the key change that are still to be locked.
Unlocked(t) == {b \in {BucketOfRow(buf[t]), BucketOfRow(new[t])} : block[b] # t}

LockBucket(t) ==
  /\ pc[t] = "lockset"
  /\ \E b \in Unlocked(t) :
       /\ \A c \in Unlocked(t) : b <= c
       /\ block[b] = None
       /\ block' = [block EXCEPT ![b] = t]
  /\ UNCHANGED <<slotVars, wlock, smutex, pc, callVars, ret, histVars>>

\* The duplicate check against the other rows passes, or it does not.
DupCheck(t) ==
  /\ pc[t] = "lockset" /\ Unlocked(t) = {}
  /\ \/ Goto(t, "odd") /\ UNCHANGED <<wlock, block, ret>>
     \/ Unbucket(t) /\ wlock' = None /\ Return(t, DupKey)
  /\ UNCHANGED <<slotVars, smutex, callVars, histVars>>

\* Mutant: write_image copies without making seq odd first.
WriteOddMissing(t) ==
  /\ pc[t] = "odd"
  /\ todo' = [todo EXCEPT ![t] = Words]
  /\ Goto(t, "write")
  /\ UNCHANGED <<slotVars, lockVars, kind, key, exp, s1, buf, new, ref, ret, ops, histVars>>

\* fm_core_write_image: seq odd, the words, seq even.
WriteOdd(t) ==
  /\ pc[t] = "odd"
  /\ seq' = seq + 1
  /\ todo' = [todo EXCEPT ![t] = Words]
  /\ Goto(t, "write")
  /\ UNCHANGED <<state, gen, data, linked, free, img, wrote, lockVars,
                 kind, key, exp, s1, buf, new, ref, ret, ops, histVars>>

\* A read attempt between its state check and its validation.
Attempting(t) == pc[t] \in {"gen", "seq", "copy"}

\* A word of write_image, or of the insert's unprotected copy.
CopyIn(t, w) ==
  /\ pc[t] \in {"write", "fill"} /\ w \in todo[t]
  /\ data' = [data EXCEPT ![w] = new[t][w]]
  /\ todo' = [todo EXCEPT ![t] = @ \ {w}]
  /\ recycled' = [u \in Threads |-> recycled[u] \/ (pc[t] = "fill" /\ Attempting(u))]
  /\ UNCHANGED <<state, gen, seq, linked, free, img, wrote, lockVars,
                 pc, kind, key, exp, s1, buf, new, ref, ret, ops, seen>>

\* Mutant: write_image leaves seq odd.
WriteEvenMissing(t) ==
  /\ pc[t] = "write" /\ todo[t] = {}
  /\ img' = new[t] /\ wrote' = wrote \cup {<<gen, new[t]>>}
  /\ Witness(IF state = "ACTIVE" THEN new[t] ELSE NoRow)
  /\ Goto(t, "relink")
  /\ UNCHANGED <<state, gen, seq, data, linked, free, lockVars, callVars, ret, recycled>>

WriteEven(t) ==
  /\ pc[t] = "write" /\ todo[t] = {}
  /\ seq' = seq + 1
  /\ img' = new[t] /\ wrote' = wrote \cup {<<gen, new[t]>>}
  /\ Witness(IF state = "ACTIVE" THEN new[t] ELSE NoRow)
  /\ Goto(t, "relink")
  /\ UNCHANGED <<state, gen, data, linked, free, lockVars, callVars, ret, recycled>>

\* Mutant: the slot stays in its old chain.
RelinkKeepsOld(t) ==
  /\ pc[t] = "relink"
  /\ linked' = linked \cup {BucketOfRow(new[t])}
  /\ Unbucket(t)
  /\ wlock' = None
  /\ Return(t, Ok)
  /\ UNCHANGED <<state, gen, seq, data, free, img, wrote, smutex, callVars, histVars>>

\* Old chain, new chain, bucket locks, and the row lock of the handler.
Relink(t) ==
  /\ pc[t] = "relink"
  /\ linked' = IF KeyChanged(t)
                 THEN (linked \ {BucketOfRow(buf[t])}) \cup {BucketOfRow(new[t])}
                 ELSE linked
  /\ Unbucket(t)
  /\ wlock' = None
  /\ Return(t, Ok)
  /\ UNCHANGED <<state, gen, seq, data, free, img, wrote, smutex, callVars, histVars>>

DeleteRow(t) ==
  /\ pc[t] = "rmw"
  /\ IF Verified(t)
       THEN /\ state' = "DELETING"
            /\ Witness(NoRow)
            /\ Goto(t, "unlink")
            /\ UNCHANGED <<wlock, ret>>
       ELSE Refuse(t) /\ UNCHANGED <<state, seen>>
  /\ UNCHANGED <<gen, seq, data, linked, free, img, wrote, block, smutex, callVars, recycled>>

\* Mutant: the deleted slot stays in its chain.
DeleteUnlinkMissing(t) ==
  /\ pc[t] = "unlink"
  /\ Goto(t, "deleted")
  /\ UNCHANGED <<slotVars, lockVars, callVars, ret, histVars>>

DeleteUnlink(t) ==
  /\ pc[t] = "unlink"
  /\ block[BucketOfRow(data)] = None
  /\ linked' = linked \ {BucketOfRow(data)}
  /\ Goto(t, "deleted")
  /\ UNCHANGED <<state, gen, seq, data, free, img, wrote, lockVars, callVars, ret, histVars>>

DeleteState(t) ==
  /\ pc[t] = "deleted"
  /\ state' = "DELETED"
  /\ Goto(t, "bump")
  /\ UNCHANGED <<gen, seq, data, linked, free, img, wrote, lockVars, callVars, ret, histVars>>

\* Mutant: the generation goes down.
DeleteGenDown(t) ==
  /\ pc[t] = "bump"
  /\ gen' = gen - 1
  /\ Goto(t, "push")
  /\ UNCHANGED <<state, seq, data, linked, free, img, wrote, lockVars, callVars, ret, histVars>>

DeleteGen(t) ==
  /\ pc[t] = "bump"
  /\ gen' = gen + 1
  /\ Goto(t, "push")
  /\ UNCHANGED <<state, seq, data, linked, free, img, wrote, lockVars, callVars, ret, histVars>>

DeleteFree(t) ==
  /\ pc[t] = "push"
  /\ smutex = None
  /\ free' = TRUE
  /\ wlock' = None
  /\ Return(t, Ok)
  /\ UNCHANGED <<state, gen, seq, data, linked, img, wrote, block, smutex, callVars, histVars>>
-----------------------------------------------------------------------------
(* fm_core_insert_row, when the freelist hands out this slot. *)

InsertAlloc(t, v) ==
  /\ smutex = None /\ free
  /\ smutex' = t
  /\ free' = FALSE
  /\ new' = [new EXCEPT ![t] = v]
  /\ todo' = [todo EXCEPT ![t] = Words]
  /\ Begin(t, "insert", "fill")
  /\ UNCHANGED <<state, gen, seq, data, linked, img, wrote, wlock, block, key, exp, s1, buf, ref>>

InsertLink(t) ==
  /\ pc[t] = "fill" /\ todo[t] = {}
  /\ block[BucketOfRow(new[t])] = None
  /\ \/ /\ linked' = linked \cup {BucketOfRow(new[t])}
        /\ Goto(t, "publish")
        /\ UNCHANGED <<free, smutex, ret>>
     \/ /\ free' = TRUE
        /\ smutex' = None
        /\ Return(t, DupKey)
        /\ UNCHANGED linked
  /\ UNCHANGED <<state, gen, seq, data, img, wrote, wlock, block, callVars, histVars>>

InsertPublish(t) ==
  /\ pc[t] = "publish"
  /\ state' = "ACTIVE"
  /\ img' = new[t] /\ wrote' = wrote \cup {<<gen, new[t]>>}
  /\ Witness(new[t])
  /\ smutex' = None
  /\ Goto(t, "ref")
  /\ ret' = [ret EXCEPT ![t] = Ok]
  /\ UNCHANGED <<gen, seq, data, linked, free, wlock, block, callVars, recycled>>
-----------------------------------------------------------------------------
(* fm_core_clear; s1 counts the buckets. *)

Clear(t) ==
  /\ smutex = None
  /\ smutex' = t
  /\ s1' = [s1 EXCEPT ![t] = 0]
  /\ Begin(t, "clear", "heads")
  /\ UNCHANGED <<slotVars, wlock, block, key, exp, todo, buf, new, ref>>

ClearHead(t) ==
  /\ pc[t] = "heads" /\ s1[t] < NBuckets
  /\ block[s1[t]] = None
  /\ linked' = linked \ {s1[t]}
  /\ s1' = [s1 EXCEPT ![t] = @ + 1]
  /\ UNCHANGED <<state, gen, seq, data, free, img, wrote, lockVars, pc, kind,
                 key, exp, todo, buf, new, ref, ret, ops, histVars>>

\* Mutant: the clear does not wait for the row lock.
ClearStateUnlocked(t) ==
  /\ pc[t] = "heads" /\ s1[t] = NBuckets
  /\ wlock' = t
  /\ state' = "FREE"
  /\ Witness(NoRow)
  /\ Goto(t, "flip")
  /\ UNCHANGED <<gen, seq, data, linked, free, img, wrote, block, smutex, callVars, ret, recycled>>

ClearState(t) ==
  /\ pc[t] = "heads" /\ s1[t] = NBuckets
  /\ wlock = None
  /\ wlock' = t
  /\ state' = "FREE"
  /\ Witness(NoRow)
  /\ Goto(t, "flip")
  /\ UNCHANGED <<gen, seq, data, linked, free, img, wrote, block, smutex, callVars, ret, recycled>>

ClearGen(t) ==
  /\ pc[t] = "flip"
  /\ gen' = gen + 1
  /\ wlock' = None
  /\ Goto(t, "rebuild")
  /\ UNCHANGED <<state, seq, data, linked, free, img, wrote, block, smutex, callVars, ret, histVars>>

ClearFree(t) ==
  /\ pc[t] = "rebuild"
  /\ free' = TRUE
  /\ smutex' = None
  /\ Return(t, Ok)
  /\ UNCHANGED <<state, gen, seq, data, linked, img, wrote, wlock, block, callVars, histVars>>
-----------------------------------------------------------------------------
ReadStep(t) ==
  \/ ScanNext(t) \/ ReadPos(t) \/ (\E k \in Keys : Find(t, k)) \/ Walk(t)
  \/ ReadState(t) \/ ReadGen(t) \/ ReadSeq(t) \/ (\E w \in Words : CopyOut(t, w))
  \/ Validate(t) \/ SavePosition(t)

WriteStep(t) ==
  \/ WriteRead(t) \/ LockRow(t) \/ Reread(t) \/ LeaveRow(t)
  \/ (\E v \in Images : UpdateRow(t, v)) \/ LockBucket(t) \/ DupCheck(t)
  \/ WriteOdd(t) \/ (\E w \in Words : CopyIn(t, w)) \/ WriteEven(t) \/ Relink(t)
  \/ DeleteRow(t) \/ DeleteUnlink(t) \/ DeleteState(t) \/ DeleteGen(t) \/ DeleteFree(t)
  \/ (\E v \in Images : InsertAlloc(t, v)) \/ InsertLink(t) \/ InsertPublish(t)

ClearStep(t) ==
  Clear(t) \/ ClearHead(t) \/ ClearState(t) \/ ClearGen(t) \/ ClearFree(t)

\* No thread is inside a call.
AllReturned == (\A t \in Threads : pc[t] = "idle") /\ UNCHANGED vars

\* Every statement but the table clear.
RowNext == (\E t \in Threads : ReadStep(t) \/ WriteStep(t)) \/ AllReturned
Next == RowNext \/ (\E t \in Threads : ClearStep(t))

RowSpec == Init /\ [][RowNext]_vars
Spec == Init /\ [][Next]_vars

\* A thread inside a call keeps running, as the scheduler of the server sees
\* to; nothing obliges it to start another call.
FairSpec ==
  /\ RowSpec
  /\ \A t \in Threads : WF_vars(pc[t] # "idle" /\ (ReadStep(t) \/ WriteStep(t)))
-----------------------------------------------------------------------------
(* Properties. *)

Labels == {"idle", "walk", "lockrow", "reread", "state", "gen", "seq", "copy", "ref", "rmw",
           "lockset", "odd", "write", "relink", "unlink", "deleted", "bump", "push",
           "fill", "publish", "heads", "flip", "rebuild"}
Kinds == {"none", "scan", "pos", "find", "rmw", "insert", "clear"}
Codes == {Busy, Ok, Deleted, NotFound, DupKey}

\* Every variable has the type its declaration in fm_core.h gives it.
TypeOK ==
  /\ state \in {"FREE", "ACTIVE", "DELETING", "DELETED"}
  /\ gen \in Nat /\ seq \in Nat
  /\ wlock \in Threads \cup {None} /\ smutex \in Threads \cup {None}
  /\ block \in [Buckets -> Threads \cup {None}]
  /\ data \in Rows /\ img \in Rows
  /\ linked \subseteq Buckets
  /\ free \in BOOLEAN
  /\ pc \in [Threads -> Labels] /\ kind \in [Threads -> Kinds]
  /\ key \in [Threads -> Keys]
  /\ exp \in [Threads -> Nat] /\ s1 \in [Threads -> Nat]
  /\ ref \in [Threads -> Nat \cup {-1}]
  /\ todo \in [Threads -> SUBSET Words]
  /\ buf \in [Threads -> Rows] /\ new \in [Threads -> Rows]
  /\ ret \in [Threads -> Rows \cup Codes]
  /\ ops \in [Threads -> Nat]
  /\ seen \in [Threads -> SUBSET (Rows \cup {NoRow})]
  /\ recycled \in [Threads -> BOOLEAN]
  /\ wrote \subseteq Nat \X Rows

\* A read that returned a row image.
ReturnedRow(t) == pc[t] \in {"idle", "ref"} /\ ret[t] \in Rows

\* The image fm_core_read_row delivers is one the row had, complete, at some
\* moment of the call, unless an insert recycled the slot between the state
\* check and the validation.
SeqlockSound ==
  \A t \in Threads : ReturnedRow(t) /\ ~recycled[t] => ret[t] \in seen[t]

\* rnd_pos returns an image that was written under the generation it was called
\* with, under the same proviso: the check tells incarnations of the slot apart.
PositionSound ==
  \A t \in Threads :
    ReturnedRow(t) /\ kind[t] = "pos" /\ ~recycled[t] => <<exp[t], ret[t]>> \in wrote

\* fm_core_find never returns a torn or foreign image, recycling or not: the
\* bucket lock keeps the slot from being unlinked, hence from being reused.
LookupSound ==
  \A t \in Threads :
    ReturnedRow(t) /\ kind[t] = "find" => ret[t] \in seen[t] /\ KeyOf[ret[t]] = key[t]

\* fm_core_find misses only a row that, at some moment of the call, was
\* absent or had another key.
LookupComplete ==
  \A t \in Threads :
    pc[t] = "idle" /\ kind[t] = "find" /\ ret[t] = NotFound =>
      \E v \in seen[t] : v = NoRow \/ KeyOf[v] # key[t]

\* The read-modify-write cycle is atomic: from the reread under the row lock
\* to the write, the row exists and still has the image the statement read.
RmwAtomic ==
  \A t \in Threads :
    pc[t] \in {"rmw", "lockset", "odd"} => row = buf[t] /\ data = buf[t] /\ gen = exp[t]

\* A slot on the freelist is in no hash chain and holds no visible row.
FreeUnlinked == free => linked = {} /\ state \in {"FREE", "DELETED"}

\* Between statements a visible row is in exactly the chain of its key.
ChainedByKey ==
  state = "ACTIVE" /\ (\A t \in Threads : pc[t] # "relink") => linked = {BucketOfRow(img)}

\* Every call returns, in the order the scheduler likes, as long as the other
\* threads make finitely many calls: no statement leaves seq odd or keeps the
\* row lock, a bucket lock or struct_mutex that another one spins on.
CallsReturn == \A t \in Threads : []<>(pc[t] = "idle")

\* Seen from its lookups alone, the slot is the atomic row of FmRow.
Lookup ==
  INSTANCE FmRow WITH
    open   <- [t \in Threads |->
                 IF kind[t] = "find" /\ pc[t] \notin {"idle", "ref"} THEN key[t] ELSE NoRow],
    seen   <- [t \in Threads |->
                 IF kind[t] = "find" /\ pc[t] \notin {"idle", "ref"} THEN seen[t] ELSE {}],
    answer <- [t \in Threads |-> IF kind[t] = "find" THEN ret[t] ELSE Busy]

\* fm_core_find behaves as one atomic read of the row inside the call.
LookupsAtomic == Lookup!Spec
-----------------------------------------------------------------------------
(* What the documentation says beyond that; fm_core.h does not provide it. *)

\* README.md "tear-free row copy": a scan or a position read returns an image
\* that one statement wrote.
TearFree == \A t \in Threads : ReturnedRow(t) => ret[t] \in Images

\* README.md "stale references can never dangle": a position read never
\* returns an image of another row.
PositionsNeverDangle ==
  \A t \in Threads :
    ReturnedRow(t) /\ kind[t] = "pos" => \E v \in Rows : <<exp[t], v>> \in wrote /\ v = ret[t]

\* DESIGN.md section 2.2: the position saved for a row names that row.
PositionNamesRow ==
  \A t \in Threads :
    pc[t] = "idle" /\ kind[t] = "find" /\ ret[t] \in Rows => <<ref[t], ret[t]>> \in wrote

\* DESIGN.md section 3, no deadlock: the clear does not wait for the row lock
\* of a delete that waits for the clear.
NoCircularWait ==
  ~\E t, u \in Threads :
     /\ pc[t] = "heads" /\ s1[t] = NBuckets /\ wlock = u
     /\ pc[u] = "push" /\ smutex = t
=============================================================================
