----------------------------- MODULE FmAutoInc -----------------------------
(***************************************************************************)
(* The AUTO_INCREMENT counter of a table: fm_core_auto_inc_reserve and     *)
(* fm_core_auto_inc_observe of fm_core.h, the fm_data.cc functions that    *)
(* call them, and fm_set_auto_increment.  The counter holds the last value *)
(* handed out and is changed only by compare-and-swap; the arithmetic is   *)
(* unsigned, modulo Top (2^64 in the code).  A compare_exchange_weak that  *)
(* fails for no reason changes nothing and is not shown.                   *)
(* MaxOps bounds the calls of a thread.                                    *)
(***************************************************************************)
EXTENDS Integers

CONSTANTS Threads, Top,
          Offsets, Incs, Counts,  \* the requests of the server
          Explicit,               \* values that records carry explicitly
          Resets,                 \* values for reset_auto_increment
          MaxOps

ASSUME TopAssumption == Top \in Nat \ {0, 1}
ASSUME RequestsAssumption ==
  /\ Offsets \subseteq 0 .. Top - 1 /\ Incs \subseteq 0 .. Top - 1 /\ Counts \subseteq 0 .. Top - 1
  /\ Explicit \subseteq {x \in Int : x < Top} /\ Resets \subseteq 0 .. Top - 1
\* The server bounds auto_increment_increment by 65535 and an estimate of the
\* rows far below 2^48: no request spans the whole range.
ASSUME SpanAssumption == \A inc \in Incs, nb \in Counts : nb * inc < Top
ASSUME MaxOpsAssumption == MaxOps \in Nat

VARIABLES
  auto_inc,   \* the last value handed out
  c,          \* the locals of each thread
  issued,     \* history: the intervals handed out
  stored,     \* history: the explicit values of published rows
  ops         \* the calls a thread may still make

vars == <<auto_inc, c, issued, stored, ops>>

W(x) == x % Top
OrOne(x) == IF x = 0 THEN 1 ELSE x
-----------------------------------------------------------------------------
(* The arithmetic of fm_core_auto_inc_reserve. *)

\* Mutant: offset and increment are ignored.
FirstUnaligned(cur, off, inc) == W(cur + 1)

\* The first value of an interval behind cur, or 0 on overflow.  The test
\* v <= cur that follows in the code is never true: v2 >= v = cur + 1.
First(cur, off, inc) ==
  LET v  == W(cur + 1)
      r  == IF v > off THEN v - off ELSE 0
      v2 == W(off + W((W(r + inc - 1) \div inc) * inc))
  IN  IF v = 0 \/ (inc > 1 /\ v2 < v) THEN 0 ELSE IF inc > 1 THEN v2 ELSE v

\* Mutant: the end of the interval is not cut to the width of the counter.
LastUnwrapped(v, inc, nb) == v + (nb - 1) * inc

Last(v, inc, nb) == W(v + W((nb - 1) * inc))
-----------------------------------------------------------------------------
Start == [pc |-> "idle", op |-> "none", off |-> 1, inc |-> 1, nb |-> 1, cur |-> 0, val |-> 0]

Init ==
  /\ auto_inc = 0
  /\ c = [t \in Threads |-> Start]
  /\ issued = {}
  /\ stored = {}
  /\ ops = [t \in Threads |-> MaxOps]

Set(t, r) == c' = [c EXCEPT ![t] = r]
Return(t) == Set(t, [c[t] EXCEPT !.pc = "idle"])
Begin(t) == c[t].pc = "idle" /\ ops[t] > 0 /\ ops' = [ops EXCEPT ![t] = @ - 1]

\* get_auto_increment: zeros become ones, the counter is loaded.
Reserve(t, off, inc, nb) ==
  /\ Begin(t)
  /\ Set(t, [Start EXCEPT !.pc = "cas", !.op = "reserve", !.off = OrOne(off),
                          !.inc = OrOne(inc), !.nb = OrOne(nb), !.cur = auto_inc])
  /\ UNCHANGED <<auto_inc, issued, stored>>

FirstOf(t) == First(c[t].cur, c[t].off, c[t].inc)
LastOf(t) == Last(FirstOf(t), c[t].inc, c[t].nb)
Overflows(t) == FirstOf(t) = 0 \/ LastOf(t) < FirstOf(t)

Overflow(t) ==
  /\ c[t].pc = "cas" /\ Overflows(t)
  /\ Return(t)
  /\ UNCHANGED <<auto_inc, issued, stored, ops>>

\* The values of an interval.
Values(r) == {r.first + i * r.inc : i \in 0 .. r.nb - 1}
Interval(t) ==
  [by |-> t, op |-> ops[t], from |-> c[t].cur, first |-> FirstOf(t), last |-> LastOf(t),
   off |-> c[t].off, inc |-> c[t].inc, nb |-> c[t].nb, taken |-> stored]

\* Mutant: a plain store instead of the compare-and-swap.
ReserveStore(t) ==
  /\ c[t].pc = "cas" /\ ~Overflows(t)
  /\ auto_inc' = LastOf(t)
  /\ issued' = issued \cup {Interval(t)}
  /\ Return(t)
  /\ UNCHANGED <<stored, ops>>

ReserveCas(t) ==
  /\ c[t].pc = "cas" /\ ~Overflows(t)
  /\ auto_inc = c[t].cur
  /\ auto_inc' = LastOf(t)
  /\ issued' = issued \cup {Interval(t)}
  /\ Return(t)
  /\ UNCHANGED <<stored, ops>>

\* Another thread was faster: load again.
ReserveRetry(t) ==
  /\ c[t].pc = "cas" /\ ~Overflows(t)
  /\ auto_inc # c[t].cur
  /\ Set(t, [c[t] EXCEPT !.cur = auto_inc])
  /\ UNCHANGED <<auto_inc, issued, stored, ops>>

\* fm_write of a record with an explicit value: the row is published, then
\* fm_update_auto_increment decodes the column and observes it.
Write(t, x) ==
  /\ Begin(t)
  /\ stored' = stored \cup {x}
  /\ Set(t, [Start EXCEPT !.pc = "load", !.op = "write", !.val = IF x > 0 THEN x ELSE 0])
  /\ UNCHANGED <<auto_inc, issued>>

Observe(t) ==
  /\ c[t].pc = "load"
  /\ Set(t, [c[t] EXCEPT !.pc = "raise", !.cur = auto_inc])
  /\ UNCHANGED <<auto_inc, issued, stored, ops>>

\* reset_auto_increment: x is the next value to use.
Reset(t, x) ==
  /\ Begin(t)
  /\ Set(t, [Start EXCEPT !.pc = "raise", !.op = "reset", !.val = IF x = 0 THEN 0 ELSE x - 1,
                          !.cur = auto_inc])
  /\ UNCHANGED <<auto_inc, issued, stored>>

\* Mutant: the counter is raised with a plain store.
RaiseStore(t) ==
  /\ c[t].pc = "raise" /\ c[t].val > c[t].cur
  /\ auto_inc' = c[t].val
  /\ Return(t)
  /\ UNCHANGED <<issued, stored, ops>>

\* The loop that both share: raise the counter, give up, or load again.
Raise(t) ==
  /\ c[t].pc = "raise" /\ c[t].val > c[t].cur
  /\ auto_inc = c[t].cur
  /\ auto_inc' = c[t].val
  /\ Return(t)
  /\ UNCHANGED <<issued, stored, ops>>

\* Mutant: a failed compare-and-swap does not load the counter again.
RaiseRetryStale(t) ==
  /\ c[t].pc = "raise" /\ c[t].val > c[t].cur
  /\ auto_inc # c[t].cur
  /\ UNCHANGED vars

RaiseRetry(t) ==
  /\ c[t].pc = "raise" /\ c[t].val > c[t].cur
  /\ auto_inc # c[t].cur
  /\ Set(t, [c[t] EXCEPT !.cur = auto_inc])
  /\ UNCHANGED <<auto_inc, issued, stored, ops>>

\* Mutant: a value just above the counter does not raise it.
RaisedOffByOne(t) ==
  /\ c[t].pc = "raise" /\ c[t].val <= c[t].cur + 1
  /\ Return(t)
  /\ UNCHANGED <<auto_inc, issued, stored, ops>>

Raised(t) ==
  /\ c[t].pc = "raise" /\ c[t].val <= c[t].cur
  /\ Return(t)
  /\ UNCHANGED <<auto_inc, issued, stored, ops>>

Step(t) ==
  \/ \E off \in Offsets, inc \in Incs, nb \in Counts : Reserve(t, off, inc, nb)
  \/ Overflow(t) \/ ReserveCas(t) \/ ReserveRetry(t)
  \/ (\E x \in Explicit : Write(t, x)) \/ Observe(t)
  \/ (\E x \in Resets : Reset(t, x))
  \/ Raise(t) \/ RaiseRetry(t) \/ Raised(t)

\* No thread is inside a call.
AllReturned == (\A t \in Threads : c[t].pc = "idle") /\ UNCHANGED vars

Next == (\E t \in Threads : Step(t)) \/ AllReturned
Spec == Init /\ [][Next]_vars

\* A thread inside a call keeps running.
FairSpec == Spec /\ \A t \in Threads : WF_vars(c[t].pc # "idle" /\ Step(t))
-----------------------------------------------------------------------------
(* Properties. *)

Range == 0 .. Top - 1
Local ==
  [pc : {"idle", "cas", "load", "raise"}, op : {"none", "reserve", "write", "reset"},
   off : Range, inc : Range, nb : Range, cur : Range, val : Range]
Intervals ==
  [by : Threads, op : Nat, from : Range, first : Range, last : Range,
   off : Range, inc : Range, nb : Range, taken : SUBSET Explicit]

\* Every variable has the type its declaration gives it; the counter fits.
TypeOK ==
  /\ auto_inc \in Range
  /\ c \in [Threads -> Local]
  /\ issued \subseteq Intervals
  /\ stored \subseteq Explicit
  /\ ops \in [Threads -> Nat]

\* README.md "no duplicate ids on parallel inserts", fm_core.h:1091: no value is
\* handed out twice, whoever races with whom and whatever is raised between.
DisjointIntervals ==
  \A r, s \in issued : r # s => Values(r) \cap Values(s) = {}

\* fm_core.h:1089-1091: an interval is congruent to auto_increment_offset modulo
\* auto_increment_increment, lies behind the counter it started from, and skips
\* no such value that is not below the offset.
FollowsSeries ==
  \A r \in issued :
    /\ r.first > r.from /\ (r.first - r.off) % r.inc = 0
    /\ \A x \in r.from + 1 .. r.first - 1 : (x - r.off) % r.inc = 0 => x < r.off

\* Once the insert of an explicit value has returned, the counter is past it,
\* so that no later reservation hands it out.
ExplicitCovered ==
  \A x \in stored :
    x <= auto_inc \/ \E t \in Threads : c[t].pc \in {"load", "raise"} /\ c[t].val = x

\* The counter never goes back, so a compare-and-swap cannot mistake an old
\* value for the present one.
NeverBack == [][auto_inc' >= auto_inc]_auto_inc

\* Every compare-and-swap loop ends, with finitely many calls beside it: a failed
\* attempt goes on with the value it just saw.
LoopsEnd == \A t \in Threads : []<>(c[t].pc = "idle")

\* README.md:49, "no duplicate ids on parallel inserts": a generated value is
\* not the explicit value of a row that is already visible.
GeneratedFresh == \A r \in issued : Values(r) \cap r.taken = {}

\* fm_core.h:1111, "smallest v' >= v with v' == offset (mod inc)".
SmallestCongruent ==
  \A r \in issued : \A x \in r.from + 1 .. r.first - 1 : (x - r.off) % r.inc # 0

\* README.md:53, "auto-increment counter reset supported": when nothing else
\* runs, a reset leaves the counter where it was asked to.
ResetApplies ==
  \A t \in Threads : c[t].pc = "idle" /\ c[t].op = "reset" => auto_inc = c[t].val
=============================================================================
