----------------------------- MODULE FmRegistry -----------------------------
(***************************************************************************)
(* The share registry of fm_create.cc and the handler calls that use it.   *)
(* A share is the memory of one table; open_count and delete_on_close say  *)
(* when it is freed.  Each mutex section of THR_LOCK_fastmem is one step;  *)
(* between two sections of ha_fastmem::open other threads run.  Memory is  *)
(* never handed out twice here, so that a stale pointer stays visible.     *)
(* The server (external) keeps the list of tables.  With metadata locks it *)
(* lets CREATE, TRUNCATE, DROP and RENAME run only when nobody has the     *)
(* table open; the registry defends itself without them too.  An open or a *)
(* create that runs out of memory may use a null pointer: the server is    *)
(* down then.  MaxShares bounds the allocations, MaxOps the calls of a     *)
(* thread.                                                                 *)
(***************************************************************************)
EXTENDS Integers, FiniteSets

CONSTANTS Threads, Names, MaxShares, MaxOps,
          Mdl,          \* with metadata locks, without, or both
          Failures      \* an allocation may fail

ASSUME BoundsAssumption == MaxShares \in Nat /\ MaxOps \in Nat
ASSUME FlagsAssumption == Mdl \subseteq BOOLEAN /\ Failures \in BOOLEAN

NoShare == 0
Shares == 1 .. MaxShares

VARIABLES
  share,     \* FM_SHARE: the allocations made so far
  listed,    \* fm_share_list
  h,         \* the handler of each thread
  mdl,       \* the server takes metadata locks
  tables,    \* the tables the server knows
  filled,    \* history: the tables with rows
  ops,       \* the calls a thread may still make
  down       \* a null pointer was used

vars == <<share, listed, h, mdl, tables, filled, ops, down>>

\* opened: some open of the share has gone through its keydef.
Unused == [status |-> "unused", name |-> "", open_count |-> 0,
           delete_on_close |-> FALSE, rows |-> FALSE, opened |-> FALSE]
Closed == [pc |-> "closed", name |-> "", s |-> NoShare, internal |-> FALSE]

\* The server has just started: there are tables, but no shares.
Init ==
  /\ share = [s \in Shares |-> Unused]
  /\ listed = {}
  /\ h = [t \in Threads |-> Closed]
  /\ mdl \in Mdl
  /\ tables \in SUBSET Names
  /\ filled = {}
  /\ ops = [t \in Threads |-> MaxOps]
  /\ down = FALSE

Live == {s \in Shares : share[s].status = "live"}
Fresh == {s \in Shares : share[s].status = "unused"}
Set(t, r) == h' = [h EXCEPT ![t] = r]
Begin(t) == h[t].pc = "closed" /\ ops[t] > 0 /\ ops' = [ops EXCEPT ![t] = @ - 1]

\* The metadata lock of a statement that replaces table n.
Exclusive(n) == mdl => \A u \in Threads : h[u].pc = "closed" \/ h[u].internal \/ h[u].name # n

\* fm_find_named_share: shares are put at the front of the list when they are
\* created, so the first match is the youngest.
Named(n) == {s \in listed : share[s].name = n}
Found(n) == IF Named(n) = {} THEN NoShare ELSE CHOOSE s \in Named(n) : \A r \in Named(n) : r <= s

Freed(f, s) == [f EXCEPT ![s] = [Unused EXCEPT !.status = "freed"]]

\* fm_core_init_share may have got no memory for keydef, and fm_create looks at
\* the chunks only.  The null pointer is met by the first open of the share, in
\* fm_key_ops_init, or before it by fm_core_free_share.
MayLackKeydef(s) == Failures /\ s # NoShare /\ ~share[s].opened

\* A null pointer is used: the memory of the server is gone.
Stop ==
  /\ down' = TRUE
  /\ share' = [s \in Shares |-> Unused] /\ listed' = {}
  /\ h' = [t \in Threads |-> Closed] /\ filled' = {}
  /\ UNCHANGED tables
-----------------------------------------------------------------------------
(* fm_create. *)

\* Mutant: a share that nobody has open is used again as it is.
StaleReused(n) == NoShare

\* A share that nobody has open is freed and made anew.
Stale(n) == IF Found(n) # NoShare /\ share[Found(n)].open_count = 0 THEN Found(n) ELSE NoShare

\* The registry without the stale share.
Cleaned(n) == IF Stale(n) = NoShare THEN share ELSE Freed(share, Stale(n))

New(n, pin) == [Unused EXCEPT !.status = "live", !.name = n, !.open_count = pin]
Oldest(s) == s \in Fresh /\ \A r \in Fresh : s <= r

\* The share of the name is in use and stays.
Reuses(n) == Found(n) # NoShare /\ Stale(n) = NoShare

\* Mutants: the caller's pin is forgotten; the list is not searched.
FmCreateUnpinned(n, pin, s) ==
  /\ \/ Reuses(n) /\ s = Found(n) /\ UNCHANGED share
     \/ ~Reuses(n) /\ Oldest(s) /\ share' = [Cleaned(n) EXCEPT ![s] = New(n, 0)]
  /\ listed' = (listed \ {Stale(n)}) \cup {s}

FmCreateAnew(n, pin, s) ==
  /\ Oldest(s)
  /\ share' = [share EXCEPT ![s] = New(n, pin)]
  /\ listed' = listed \cup {s}

\* s is the share of the table after fm_create; pin is 1 for an open, else 0.
FmCreate(n, pin, s) ==
  /\ \/ Reuses(n) /\ s = Found(n) /\ share' = [share EXCEPT ![s].open_count = @ + pin]
     \/ ~Reuses(n) /\ Oldest(s) /\ share' = [Cleaned(n) EXCEPT ![s] = New(n, pin)]
  /\ listed' = (listed \ {Stale(n)}) \cup {s}

\* No memory for the share, for its name, or for the chunks of a table without
\* keys; the stale share is gone all the same.
FmCreateFails(n) ==
  /\ Failures /\ ~Reuses(n)
  /\ share' = Cleaned(n)
  /\ listed' = listed \ {Stale(n)}

\* No memory for the chunks of a table with keys: the error exit goes through
\* the missing keydef.  The stale share may lack it as well.
FmCreateStops(n) == Failures /\ ~Reuses(n) /\ Stop

\* CREATE TABLE, or TRUNCATE of a table that exists (HTON_CAN_RECREATE).  When
\* fm_prepare_create_info fails the registry is not touched.
Create(t, n) ==
  /\ Begin(t) /\ Exclusive(n)
  /\ \/ /\ \E s \in Shares : FmCreate(n, 0, s)
        /\ tables' = tables \cup {n} /\ filled' = filled \ {n} /\ UNCHANGED <<h, down>>
     \/ /\ FmCreateFails(n)
        /\ filled' = filled \ {n} /\ UNCHANGED <<h, tables, down>>
     \/ Failures /\ UNCHANGED <<share, listed, h, tables, filled, down>>
     \/ FmCreateStops(n)
-----------------------------------------------------------------------------
(* ha_fastmem::open and close. *)

\* fm_open: the share exists, or the handler will have to create it.  Without
\* memory for the file fm_open returns null with an errno other than ENOENT:
\* the handler skips the create and goes on with the null pointer.
Open(t, n) ==
  LET s == Found(n) IN
  /\ Begin(t) /\ n \in tables
  /\ \/ /\ s # NoShare
        /\ share' = [share EXCEPT ![s].open_count = @ + 1, ![s].opened = TRUE]
        /\ Set(t, [Closed EXCEPT !.pc = "open", !.name = n, !.s = s])
        /\ UNCHANGED <<listed, tables, filled, down>>
     \/ /\ s = NoShare
        /\ Set(t, [Closed EXCEPT !.pc = "enoent", !.name = n])
        /\ UNCHANGED <<share, listed, tables, filled, down>>
     \/ s # NoShare /\ Failures /\ Stop

OpenCreate(t) ==
  LET n == h[t].name IN
  /\ h[t].pc = "enoent"
  /\ \/ /\ \E s \in Shares :
             FmCreate(n, 1, s) /\ Set(t, [h[t] EXCEPT !.pc = "pinned", !.s = s])
        /\ UNCHANGED <<tables, filled, down>>
     \/ FmCreateFails(n) /\ Set(t, Closed) /\ UNCHANGED <<tables, filled, down>>
     \/ Failures /\ Set(t, Closed) /\ UNCHANGED <<share, listed, tables, filled, down>>
     \/ FmCreateStops(n)
  /\ UNCHANGED ops

\* An internal temporary table: its share is in no list.
OpenInternal(t) ==
  /\ Begin(t)
  /\ \/ /\ \E s \in Fresh :
             /\ Oldest(s)
             /\ share' = [share EXCEPT ![s] = [New("", 0) EXCEPT !.delete_on_close = TRUE]]
             /\ Set(t, [Closed EXCEPT !.pc = "pinned", !.s = s, !.internal = TRUE])
        /\ UNCHANGED <<listed, tables, filled, down>>
     \/ Failures /\ UNCHANGED <<share, listed, h, tables, filled, down>>
     \/ Failures /\ Stop

\* Mutant: the pin is not given back.
RegisterPinned(t) ==
  /\ h[t].pc = "pinned"
  /\ share' = [share EXCEPT ![h[t].s].open_count = @ + 1, ![h[t].s].opened = TRUE]
  /\ Set(t, [h[t] EXCEPT !.pc = "open"])
  /\ UNCHANGED <<listed, tables, filled, ops, down>>

\* fm_open_from_share, or fm_open_from_share_and_register which turns the pin
\* of the handler into the count of the file; then fm_key_ops_init.
Register(t) ==
  LET s == h[t].s IN
  /\ h[t].pc = "pinned"
  /\ \/ /\ share' = [share EXCEPT ![s].open_count = IF h[t].internal THEN @ + 1 ELSE @,
                                   ![s].opened = TRUE]
        /\ Set(t, [h[t] EXCEPT !.pc = "open"])
        /\ UNCHANGED <<listed, tables, filled, down>>
     \/ MayLackKeydef(s) /\ Stop
  /\ UNCHANGED ops

\* No memory for the file: fm_release_share follows.
RegisterFails(t) ==
  /\ Failures
  /\ h[t].pc = "pinned"
  /\ Set(t, [h[t] EXCEPT !.pc = "release"])
  /\ UNCHANGED <<share, listed, tables, filled, ops, down>>

\* Give one count of share s back, and free the share if that was the last.
Drop(s, free) ==
  LET f == [share EXCEPT ![s].open_count = @ - 1]
  IN  IF f[s].open_count = 0 /\ free
        THEN share' = Freed(f, s) /\ listed' = listed \ {s}
        ELSE share' = f /\ UNCHANGED listed

Release(t) ==
  LET s == h[t].s IN
  /\ h[t].pc = "release"
  /\ \/ /\ IF h[t].internal THEN share' = Freed(share, s) /\ UNCHANGED listed ELSE Drop(s, TRUE)
        /\ Set(t, Closed)
        /\ UNCHANGED <<tables, filled, down>>
     \/ MayLackKeydef(s) /\ (h[t].internal \/ share[s].open_count = 1) /\ Stop
  /\ UNCHANGED ops

\* Mutant: delete_on_close is not looked at.
CloseKeeps(t) ==
  /\ h[t].pc \in {"open", "dropping"}
  /\ Drop(h[t].s, FALSE)
  /\ Set(t, Closed)
  /\ UNCHANGED <<tables, filled, ops, down>>

Close(t) ==
  /\ h[t].pc \in {"open", "dropping"}
  /\ Drop(h[t].s, share[h[t].s].delete_on_close)
  /\ Set(t, Closed)
  /\ UNCHANGED <<tables, filled, ops, down>>

\* ha_fastmem::drop_table of a temporary table: the flag, then ha_close.
DropTable(t) ==
  /\ h[t].pc = "open" /\ h[t].internal
  /\ share' = [share EXCEPT ![h[t].s].delete_on_close = TRUE]
  /\ Set(t, [h[t] EXCEPT !.pc = "dropping"])
  /\ UNCHANGED <<listed, tables, filled, ops, down>>

\* write_row of an open handler.  The first one finds out whether the buckets
\* of every key were allocated.
Insert(t) ==
  LET s == h[t].s IN
  /\ h[t].pc = "open" /\ ~share[s].rows
  /\ \/ /\ share' = [share EXCEPT ![s].rows = TRUE]
        /\ filled' = IF h[t].internal THEN filled ELSE filled \cup {share[s].name}
        /\ UNCHANGED <<listed, h, tables, down>>
     \/ Failures /\ Stop
  /\ UNCHANGED ops
-----------------------------------------------------------------------------
(* DROP TABLE and RENAME TABLE. *)

\* Mutant: a share that is open is freed at once.
TryFreeAlways(s) == share' = Freed(share, s) /\ listed' = listed \ {s}

\* fm_try_free.
TryFree(s) ==
  IF share[s].open_count = 0
    THEN share' = Freed(share, s) /\ listed' = listed \ {s}
    ELSE share' = [share EXCEPT ![s].delete_on_close = TRUE] /\ UNCHANGED listed

DeleteTable(t, n) ==
  LET s == Found(n) IN
  /\ Begin(t) /\ Exclusive(n) /\ n \in tables
  /\ \/ /\ \/ s = NoShare /\ UNCHANGED <<share, listed>>
           \/ s # NoShare /\ TryFree(s)
        /\ tables' = tables \ {n} /\ filled' = filled \ {n} /\ UNCHANGED <<h, down>>
     \/ MayLackKeydef(s) /\ share[s].open_count = 0 /\ Stop

\* fm_rename; without memory for the new name everything stays.
RenameTable(t, n, m) ==
  /\ Begin(t) /\ Exclusive(n) /\ Exclusive(m) /\ n \in tables /\ m \notin tables
  /\ \/ /\ share' = IF Found(n) # NoShare THEN [share EXCEPT ![Found(n)].name = m] ELSE share
        /\ tables' = (tables \ {n}) \cup {m}
        /\ filled' = IF n \in filled THEN (filled \ {n}) \cup {m} ELSE filled
     \/ Failures /\ Found(n) # NoShare /\ UNCHANGED <<share, tables, filled>>
  /\ UNCHANGED <<listed, h, down>>
-----------------------------------------------------------------------------
Step(t) ==
  \/ \E n \in Names : Create(t, n) \/ Open(t, n) \/ DeleteTable(t, n)
  \/ \E n, m \in Names : RenameTable(t, n, m)
  \/ OpenCreate(t) \/ OpenInternal(t) \/ Register(t) \/ RegisterFails(t) \/ Release(t)
  \/ Close(t) \/ DropTable(t) \/ Insert(t)

\* No handler is in use, or the server is down.
AtRest == (down \/ \A t \in Threads : h[t].pc = "closed") /\ UNCHANGED vars

Next == (~down /\ UNCHANGED mdl /\ \E t \in Threads : Step(t)) \/ AtRest
Spec == Init /\ [][Next]_vars
-----------------------------------------------------------------------------
(* Properties. *)

\* The handlers that count in open_count of a share.
Users(s) ==
  {t \in Threads : h[t].s = s /\ (h[t].pc \in {"open", "dropping"} \/ ~h[t].internal)}

\* Every variable has the type its declaration gives it.
TypeOK ==
  /\ share \in [Shares -> [status : {"unused", "live", "freed"}, name : Names \cup {""},
                           open_count : Nat, delete_on_close : BOOLEAN, rows : BOOLEAN,
                           opened : BOOLEAN]]
  /\ listed \subseteq Shares /\ tables \subseteq Names /\ filled \subseteq Names
  /\ h \in [Threads -> [pc : {"closed", "enoent", "pinned", "release", "open", "dropping"},
                        name : Names \cup {""}, s : Shares \cup {NoShare}, internal : BOOLEAN]]
  /\ ops \in [Threads -> Nat] /\ down \in BOOLEAN

\* No handler, pinned or open, and no list entry ever points to freed memory.
NoDangling ==
  /\ \A t \in Threads : h[t].s # NoShare => h[t].s \in Live
  /\ listed \subseteq Live

\* open_count is the number of files and pins on the share, through every
\* hand-over from pin to file and every failure of one.
CountExact == \A s \in Live : share[s].open_count = Cardinality(Users(s))

\* No share is leaked: one that no list and no handler knows is freed, and so
\* is one that was dropped, with its last handler.
Reclaimed ==
  \A s \in Live : (s \in listed /\ ~share[s].delete_on_close) \/ \E t \in Threads : h[t].s = s

\* Under metadata locks a table has at most one share: two opens that both
\* found none do not both create one (fm_create looks again under the mutex).
OneShare ==
  mdl => \A r, s \in listed : share[r].name = share[s].name => r = s

\* CREATE, TRUNCATE and DROP leave no row behind: under metadata locks a share
\* that a lookup can find holds rows only if they were inserted since.
NoGhostRows ==
  mdl => \A s \in listed : share[s].rows => share[s].name \in filled

\* fm_create.cc:288, "Create (or find) the FASTMEM share for a table": the open of
\* a table finds its rows, whatever other opens do at the same time.
NoLostRows == \A n \in filled : \E s \in listed : share[s].name = n /\ share[s].rows

\* ha_fastmem.cc:155, "return (file ? 0 : 1)": an open that gets no memory ends
\* with an error, and never goes on with a null pointer.
NoNullUse == ~down
=============================================================================
