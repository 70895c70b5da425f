----------------------------- MODULE FmSlotInv -----------------------------
(***************************************************************************)
(* The inductive invariant behind the theorems of FmSlotProofs, in named   *)
(* parts: who holds which lock, what a thread knows about the slot at each *)
(* of its steps, and what a read attempt has gathered so far.              *)
(***************************************************************************)
EXTENDS FmSlot

Reading == {"state", "gen", "seq", "copy"}
Cycle == {"rmw", "lockset", "odd", "write", "relink", "unlink", "deleted", "bump", "push"}
Dying == {"unlink", "deleted", "bump", "push"}
Inserting == {"fill", "publish"}
Clearing == {"heads", "flip", "rebuild"}

\* Each step belongs to the calls that have it.
KindAt(t) ==
  /\ pc[t] \in Reading => kind[t] \in {"scan", "pos", "find", "rmw"}
  /\ pc[t] = "gen" => kind[t] \in {"pos", "rmw"}
  /\ pc[t] = "walk" => kind[t] = "find"
  /\ pc[t] \in Cycle \cup {"lockrow", "reread"} => kind[t] = "rmw"
  /\ pc[t] \in Inserting => kind[t] = "insert"
  /\ pc[t] \in Clearing => kind[t] = "clear"
  /\ pc[t] = "ref" => kind[t] \in {"find", "scan", "insert"}

\* The row lock, struct_mutex and the bucket locks a thread has at a step.
HoldsRow(t) ==
  pc[t] \in Cycle \cup {"reread", "flip"} \/ (pc[t] \in Reading /\ kind[t] = "rmw")
HoldsStruct(t) == pc[t] \in Inserting \cup Clearing
LocksAt(t) ==
  /\ HoldsRow(t) => wlock = t
  /\ HoldsStruct(t) => smutex = t
BucketsAt(t) ==
  /\ kind[t] = "find" /\ pc[t] \in Reading \cup {"walk"} => block[BucketOf[key[t]]] = t
  /\ pc[t] \in {"odd", "write", "relink"} /\ KeyChanged(t) =>
       block[BucketOfRow(buf[t])] = t /\ block[BucketOfRow(new[t])] = t

\* What the owner of the row lock relies on.
CycleAt(t) ==
  /\ pc[t] \in {"rmw", "lockset", "odd", "write"} => state = "ACTIVE" /\ gen = exp[t] /\ buf[t] = img
  /\ pc[t] = "relink" => state = "ACTIVE" /\ new[t] = img
  /\ kind[t] = "rmw" /\ Attempting(t) => state = "ACTIVE" /\ ~recycled[t]
  /\ kind[t] = "rmw" /\ pc[t] \in Reading => gen = exp[t]

\* What a delete, an insert and a clear rely on.
StateAt(t) ==
  /\ pc[t] \in {"unlink", "deleted"} => state = "DELETING"
  /\ pc[t] \in {"bump", "push"} => state = "DELETED" /\ ~free
  /\ pc[t] \in Inserting => state \in {"FREE", "DELETED"} /\ ~free
  /\ pc[t] \in {"flip", "rebuild"} => state = "FREE"
InsertAlone(t, u) == pc[t] \in Inserting => pc[u] \notin Dying
FreeInvisible == free => state \in {"FREE", "DELETED"}

\* The image in memory against the last image completely written.
SeqParity == (seq % 2 = 1) <=> \E t \in Threads : pc[t] = "write"
ImageKnown ==
  /\ state \in {"ACTIVE", "DELETING"} /\ seq % 2 = 0 => data = img
  /\ state = "ACTIVE" => <<gen, img>> \in wrote
CopyAt(t) ==
  /\ pc[t] \in {"write", "fill"} => \A w \in Words \ todo[t] : data[w] = new[t][w]
  /\ pc[t] = "publish" => data = new[t]

\* What a read attempt has gathered, and what its call has witnessed.
WindowAt(t) ==
  /\ pc[t] # "idle" => row \in seen[t]
  /\ Attempting(t) => img \in seen[t]
ReadAt(t) ==
  /\ Attempting(t) /\ ~recycled[t] /\ seq % 2 = 0 => data = img
  /\ pc[t] = "copy" => s1[t] <= seq /\ s1[t] % 2 = 0
  /\ pc[t] = "copy" /\ ~recycled[t] /\ s1[t] = seq =>
       \A w \in Words \ todo[t] : buf[t][w] = data[w]

\* Generations only grow, so a position never names a row of the future.
PositionAt(t) ==
  /\ ref[t] <= gen
  /\ kind[t] = "pos" => exp[t] <= gen
  /\ kind[t] = "pos" /\ Attempting(t) /\ ~recycled[t] /\ (gen = exp[t] \/ pc[t] # "gen") =>
       <<exp[t], img>> \in wrote
  /\ kind[t] = "pos" /\ pc[t] \in {"seq", "copy"} /\ ~recycled[t] /\ state = "ACTIVE" =>
       gen = exp[t]
Untouched(t, u) ==
  kind[t] = "pos" /\ Attempting(t) /\ ~recycled[t] =>
    (pc[u] = "fill" => todo[u] = Words) /\ pc[u] # "publish"

\* What a read that returned without being overtaken by an insert delivers.
ResultAt(t) ==
  ReturnedRow(t) /\ ~recycled[t] =>
    ret[t] \in seen[t] /\ (kind[t] = "pos" => <<exp[t], ret[t]>> \in wrote)

ThreadInv(t) ==
  /\ KindAt(t) /\ LocksAt(t) /\ BucketsAt(t) /\ CycleAt(t) /\ StateAt(t)
  /\ CopyAt(t) /\ WindowAt(t) /\ ReadAt(t) /\ PositionAt(t) /\ ResultAt(t)

Inv ==
  /\ TypeOK
  /\ \A t \in Threads : ThreadInv(t)
  /\ \A t, u \in Threads : InsertAlone(t, u) /\ Untouched(t, u)
  /\ FreeInvisible /\ SeqParity /\ ImageKnown

\* Without the clear, the chains follow the row.
ChainAt(t) ==
  /\ pc[t] = "relink" /\ KeyChanged(t) => linked = {BucketOfRow(buf[t])}
  /\ pc[t] = "relink" /\ ~KeyChanged(t) => linked = {BucketOfRow(img)}
  /\ pc[t] = "unlink" => linked = {BucketOfRow(data)}
  /\ pc[t] \in {"deleted", "bump", "push", "fill"} => linked = {}
  /\ pc[t] = "publish" => linked = {BucketOfRow(new[t])}

\* A lookup that reads the slot found it in its bucket, which it keeps locked.
LookupAt(t) ==
  /\ kind[t] = "find" /\ pc[t] \in Reading => BucketOf[key[t]] \in linked
  /\ kind[t] = "find" /\ pc[t] \in {"seq", "copy"} => ~recycled[t]

RowInv ==
  /\ Inv
  /\ \A t \in Threads : ChainAt(t) /\ LookupAt(t)
  /\ ChainedByKey /\ FreeUnlinked /\ LookupSound /\ LookupComplete
=============================================================================
