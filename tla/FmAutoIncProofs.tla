-------------------------- MODULE FmAutoIncProofs --------------------------
(***************************************************************************)
(* Proofs about FmAutoInc, for every width of the counter, every set of    *)
(* requests and any number of threads.                                     *)
(***************************************************************************)
EXTENDS FmAutoInc, TLAPS

(* The inductive invariant. *)

\* A request under way: its span fits, and the counter it loaded is not ahead.
RequestAt(t) ==
  /\ c[t].cur <= auto_inc
  /\ c[t].inc >= 1 /\ c[t].nb >= 1 /\ (c[t].nb - 1) * c[t].inc < Top

\* An interval ends where it should, at or before the counter.
IntervalAt(r) ==
  /\ r.first >= 1 /\ r.inc >= 1 /\ r.nb >= 1
  /\ r.last = r.first + (r.nb - 1) * r.inc
  /\ r.last <= auto_inc

Apart(r, s) == r.last < s.first \/ s.last < r.first

Inv ==
  /\ TypeOK
  /\ \A t \in Threads : RequestAt(t)
  /\ \A r \in issued : IntervalAt(r)
  /\ \A r, s \in issued : r # s => Apart(r, s)
  /\ ExplicitCovered
-----------------------------------------------------------------------------
(* Arithmetic. *)

\* Reduction modulo Top, for numbers that at most one subtraction reduces.
LEMMA Wrap ==
  ASSUME NEW x \in Nat
  PROVE  /\ W(x) \in Range
         /\ x < Top => W(x) = x
         /\ x >= Top /\ x < 2 * Top => W(x) = x - Top
BY TopAssumption DEF W, Range

\* Multiplication is monotone.
LEMMA Times ==
  ASSUME NEW i \in Nat, NEW j \in Nat, NEW k \in Nat, i <= j
  PROVE  i * k \in Nat /\ j * k \in Nat /\ i * k <= j * k
OBVIOUS

\* The first value of an interval is behind the counter, or 0.
LEMMA FirstBehind ==
  ASSUME NEW cur \in Range, NEW off \in Range, NEW inc \in Range, inc >= 1
  PROVE  First(cur, off, inc) \in Range
         /\ (First(cur, off, inc) # 0 => First(cur, off, inc) > cur)
<1> DEFINE v == W(cur + 1)
           r == IF v > off THEN v - off ELSE 0
           s == W(r + inc - 1) \div inc
           v2 == W(off + W(s * inc))
<1>1. v \in Range /\ (v = cur + 1 \/ v = 0)
  <2>1. cur + 1 \in Nat /\ cur + 1 <= Top
    BY TopAssumption DEF Range
  <2> QED BY <2>1, Wrap, TopAssumption DEF Range
<1>2. r \in Nat /\ r + inc - 1 \in Nat
  <2> HIDE DEF v
  <2> QED BY <1>1 DEF Range
<1>3. s \in Nat
  <2>1. W(r + inc - 1) \in Range
    BY <1>2, Wrap
  <2> HIDE DEF r
  <2> QED BY <2>1 DEF Range
<1>4. v2 \in Range
  <2> HIDE DEF s
  <2>1. s * inc \in Nat
    BY <1>3, Times DEF Range
  <2>2. W(s * inc) \in Range
    BY <2>1, Wrap
  <2>3. off + W(s * inc) \in Nat
    BY <2>2 DEF Range
  <2> QED BY <2>3, Wrap
<1>5. First(cur, off, inc) =
        IF v = 0 \/ (inc > 1 /\ v2 < v) THEN 0 ELSE IF inc > 1 THEN v2 ELSE v
  BY DEF First
<1> HIDE DEF v, v2
<1> QED BY <1>1, <1>4, <1>5, TopAssumption DEF Range

\* An interval that does not overflow ends where it should.
LEMMA LastExact ==
  ASSUME NEW v \in Range, NEW inc \in Range, NEW nb \in Range, nb >= 1,
         (nb - 1) * inc < Top, Last(v, inc, nb) >= v
  PROVE  Last(v, inc, nb) \in Range /\ Last(v, inc, nb) = v + (nb - 1) * inc
<1> DEFINE p == (nb - 1) * inc
<1>1. p \in Nat /\ p < Top
  BY Times DEF Range
<1>2. Last(v, inc, nb) = W(v + p)
  BY <1>1, Wrap DEF Last
<1> HIDE DEF p
<1>3. v + p \in Nat /\ v + p < 2 * Top
  BY <1>1, TopAssumption DEF Range
<1> QED
  <2>1. PICK y \in Nat : y = v + p
    BY <1>3
  <2>2. W(y) \in Range /\ (y < Top => W(y) = y) /\ (y >= Top => W(y) = y - Top)
    BY <2>1, <1>3, Wrap
  <2>3. W(y) >= v
    BY <2>1, <1>2
  <2>4. y < Top
    BY <2>1, <2>2, <2>3, <1>1, TopAssumption DEF Range
  <2> QED BY <2>1, <2>2, <2>4, <1>2 DEF p

\* The values of an interval lie between its ends.
LEMMA ValuesBetween ==
  ASSUME NEW r \in Intervals, IntervalAt(r), NEW x \in Values(r)
  PROVE  x \in Int /\ r.first <= x /\ x <= r.last
<1>1. PICK i \in 0 .. r.nb - 1 : x = r.first + i * r.inc
  BY DEF Values
<1>2. r.first \in Nat /\ r.inc \in Nat /\ r.nb \in Nat /\ r.nb - 1 \in Nat
  BY DEF Intervals, Range, IntervalAt
<1>3. i * r.inc \in Nat /\ i * r.inc <= (r.nb - 1) * r.inc /\ (r.nb - 1) * r.inc \in Nat
  BY <1>2, Times
<1> QED BY <1>1, <1>2, <1>3 DEF IntervalAt
-----------------------------------------------------------------------------
(* The invariant is inductive. *)

LEMMA InitInv == Init => Inv
<1> SUFFICES ASSUME Init PROVE Inv
  OBVIOUS
<1>1. TypeOK
  BY TopAssumption, MaxOpsAssumption DEF Init, Start, TypeOK, Local, Intervals, Range
<1>2. \A t \in Threads : RequestAt(t)
  <2> TAKE t \in Threads
  <2>1. c[t] = Start
    BY DEF Init
  <2>2. c[t].cur = 0 /\ c[t].inc = 1 /\ c[t].nb = 1 /\ (c[t].nb - 1) * c[t].inc = 0
    BY <2>1 DEF Start
  <2> QED BY <2>2, TopAssumption DEF Init, RequestAt
<1> QED BY <1>1, <1>2 DEF Init, Inv, ExplicitCovered

\* A step that leaves counter and history alone, and moves one thread to a
\* state whose request is sound and that hides no explicit value.
LEMMA LocalInv ==
  ASSUME Inv, NEW t \in Threads, NEW q \in Local, c' = [c EXCEPT ![t] = q],
         auto_inc' = auto_inc, issued' = issued, stored' = stored, ops' \in [Threads -> Nat],
         q.cur <= auto_inc, q.inc >= 1, q.nb >= 1, (q.nb - 1) * q.inc < Top,
         c[t].pc \in {"load", "raise"} =>
           (q.pc \in {"load", "raise"} /\ q.val = c[t].val) \/ c[t].val <= auto_inc
  PROVE  Inv'
<1>1. TypeOK'
  BY DEF Inv, TypeOK
<1>2. c'[t] = q /\ \A u \in Threads \ {t} : c'[u] = c[u]
  BY DEF Inv, TypeOK
<1>3. \A u \in Threads : RequestAt(u)'
  <2> TAKE u \in Threads
  <2>1. CASE u = t
    BY <2>1, <1>2 DEF RequestAt
  <2>2. CASE u # t
    BY <2>2, <1>2 DEF RequestAt, Inv
  <2> QED BY <2>1, <2>2
<1>4. ExplicitCovered'
  <2> SUFFICES ASSUME NEW x \in stored, ~(x <= auto_inc)
               PROVE  \E u \in Threads : c'[u].pc \in {"load", "raise"} /\ c'[u].val = x
    BY DEF ExplicitCovered
  <2>1. PICK u \in Threads : c[u].pc \in {"load", "raise"} /\ c[u].val = x
    BY DEF Inv, ExplicitCovered
  <2>2. c'[u].pc \in {"load", "raise"} /\ c'[u].val = x
    BY <2>1, <1>2
  <2> QED BY <2>2
<1> QED BY <1>1, <1>3, <1>4 DEF Inv, IntervalAt, Apart

LEMMA InRange == 0 \in Range /\ 1 \in Range /\ (Inv => auto_inc \in Range)
BY TopAssumption DEF Range, Inv, TypeOK

\* get_auto_increment begins.
LEMMA ReserveInv ==
  ASSUME Inv, NEW t \in Threads, NEW off \in Offsets, NEW inc \in Incs, NEW nb \in Counts,
         Reserve(t, off, inc, nb)
  PROVE  Inv'
<1> DEFINE q == [Start EXCEPT !.pc = "cas", !.op = "reserve", !.off = OrOne(off),
                              !.inc = OrOne(inc), !.nb = OrOne(nb), !.cur = auto_inc]
<1>1. off \in Range /\ inc \in Range /\ nb \in Range /\ nb * inc < Top
  BY RequestsAssumption, SpanAssumption DEF Range
<1>2. OrOne(off) \in Range /\ OrOne(inc) \in Range /\ OrOne(nb) \in Range
  BY <1>1, TopAssumption DEF OrOne, Range
<1>3. OrOne(inc) >= 1 /\ OrOne(nb) >= 1
  BY <1>1 DEF OrOne, Range
<1>4. (OrOne(nb) - 1) * OrOne(inc) < Top
  <2>1. CASE nb = 0
    <3>1. (OrOne(nb) - 1) * OrOne(inc) = 0
      BY <2>1, <1>2 DEF OrOne, Range
    <3> QED BY <3>1, TopAssumption
  <2>2. CASE inc = 0
    <3>1. (OrOne(nb) - 1) * OrOne(inc) = OrOne(nb) - 1
      BY <2>2, <1>2 DEF OrOne, Range
    <3> QED BY <3>1, <1>2, TopAssumption DEF Range
  <2>3. CASE nb # 0 /\ inc # 0
    <3>1. nb \in Nat /\ inc \in Nat /\ nb - 1 \in Nat
      BY <2>3, <1>1 DEF Range
    <3>2. (nb - 1) * inc <= nb * inc /\ (nb - 1) * inc \in Nat /\ nb * inc \in Nat
      BY <3>1, Times
    <3> QED BY <2>3, <3>2, <1>1, TopAssumption DEF OrOne
  <2> QED BY <2>1, <2>2, <2>3
<1>5. q \in Local /\ q.cur = auto_inc /\ q.inc = OrOne(inc) /\ q.nb = OrOne(nb)
  BY <1>2, InRange DEF Local, Start
<1>6. /\ c' = [c EXCEPT ![t] = q] /\ c[t].pc = "idle"
      /\ auto_inc' = auto_inc /\ issued' = issued /\ stored' = stored
  BY DEF Reserve, Begin, Set
<1>7. ops' \in [Threads -> Nat]
  BY DEF Reserve, Begin, Inv, TypeOK
<1>8. q.cur <= auto_inc
  BY <1>5 DEF Inv, TypeOK, Range
<1> HIDE DEF q
<1> QED BY <1>3, <1>4, <1>5, <1>6, <1>7, <1>8, LocalInv

\* reset_auto_increment begins.
LEMMA ResetInv ==
  ASSUME Inv, NEW t \in Threads, NEW x \in Resets, Reset(t, x)
  PROVE  Inv'
<1> DEFINE y == IF x = 0 THEN 0 ELSE x - 1
           q == [Start EXCEPT !.pc = "raise", !.op = "reset", !.val = y, !.cur = auto_inc]
<1>1. y \in Range
  BY RequestsAssumption, TopAssumption DEF Range
<1> HIDE DEF y
<1>2. q \in Local /\ q.cur = auto_inc /\ q.inc = 1 /\ q.nb = 1
  BY <1>1, InRange DEF Local, Start
<1>3. /\ c' = [c EXCEPT ![t] = q] /\ c[t].pc = "idle"
      /\ auto_inc' = auto_inc /\ issued' = issued /\ stored' = stored
  BY DEF Reset, Begin, Set, y
<1>4. ops' \in [Threads -> Nat]
  BY DEF Reset, Begin, Inv, TypeOK
<1>5. q.cur <= auto_inc /\ (q.nb - 1) * q.inc < Top /\ q.inc >= 1 /\ q.nb >= 1
  BY <1>2, TopAssumption DEF Inv, TypeOK, Range
<1> HIDE DEF q
<1> QED BY <1>2, <1>3, <1>4, <1>5, LocalInv

\* The steps inside a call that do not change the counter.
LEMMA InnerInv ==
  ASSUME Inv, NEW t \in Threads,
         Overflow(t) \/ ReserveRetry(t) \/ Observe(t) \/ RaiseRetry(t) \/ Raised(t)
  PROVE  Inv'
<1> DEFINE q == c'[t]
<1>1. c[t] \in Local /\ auto_inc \in Range /\ c[t].cur <= auto_inc /\ RequestAt(t)
  BY DEF Inv, TypeOK, RequestAt
<1>a. \/ c' = [c EXCEPT ![t] = [c[t] EXCEPT !.pc = "idle"]]
      \/ c' = [c EXCEPT ![t] = [c[t] EXCEPT !.cur = auto_inc]]
      \/ c' = [c EXCEPT ![t] = [c[t] EXCEPT !.pc = "raise", !.cur = auto_inc]]
  BY DEF Overflow, ReserveRetry, Observe, RaiseRetry, Raised, Return, Set
<1>b. \/ q = [c[t] EXCEPT !.pc = "idle"]
      \/ q = [c[t] EXCEPT !.cur = auto_inc]
      \/ q = [c[t] EXCEPT !.pc = "raise", !.cur = auto_inc]
  BY <1>a DEF Inv, TypeOK
<1>2. q \in Local /\ c' = [c EXCEPT ![t] = q]
  <2>1. q \in Local
    BY <1>b, <1>1 DEF Local
  <2>2. c' = [c EXCEPT ![t] = q]
    BY <1>a DEF Inv, TypeOK
  <2> QED BY <2>1, <2>2
<1>3. /\ auto_inc' = auto_inc /\ issued' = issued /\ stored' = stored
      /\ ops' \in [Threads -> Nat]
  BY DEF Overflow, ReserveRetry, Observe, RaiseRetry, Raised, Inv, TypeOK
<1>4. q.inc = c[t].inc /\ q.nb = c[t].nb /\ q.val = c[t].val
      /\ (q.cur = auto_inc \/ q.cur = c[t].cur)
  <2> HIDE DEF q
  <2> QED BY <1>b, <1>1 DEF Local
<1>5. q.cur <= auto_inc
  BY <1>1, <1>4 DEF Range
<1>6. c[t].pc \in {"load", "raise"} =>
        q.pc \in {"load", "raise"} \/ c[t].val <= auto_inc
  <2>1. CASE Overflow(t) \/ ReserveRetry(t)
    BY <2>1 DEF Overflow, ReserveRetry
  <2>2. CASE Observe(t) \/ RaiseRetry(t)
    <3>1. c \in [Threads -> Local]
      BY DEF Inv, TypeOK
    <3>2. \/ q = [c[t] EXCEPT !.pc = "raise", !.cur = auto_inc]
          \/ q = [c[t] EXCEPT !.cur = auto_inc] /\ c[t].pc = "raise"
      BY <2>2, <3>1 DEF Observe, RaiseRetry, Set
    <3> HIDE DEF q
    <3> QED BY <3>2, <1>1 DEF Local
  <2>3. CASE Raised(t)
    BY <2>3, <1>1 DEF Raised, Local, Range
  <2> QED BY <2>1, <2>2, <2>3
<1> HIDE DEF q
<1> QED BY <1>1, <1>2, <1>3, <1>4, <1>5, <1>6, LocalInv DEF RequestAt

\* The insert of an explicit value publishes its row.
LEMMA WriteInv ==
  ASSUME Inv, NEW t \in Threads, NEW x \in Explicit, Write(t, x)
  PROVE  Inv'
<1> DEFINE y == IF x > 0 THEN x ELSE 0
           q == [Start EXCEPT !.pc = "load", !.op = "write", !.val = y]
<1>1. y \in Range /\ x \in Int
  BY RequestsAssumption, TopAssumption DEF Range
<1>2. y = x \/ x <= 0
  BY <1>1
<1> HIDE DEF y
<1>3. /\ q \in Local /\ q.pc = "load" /\ q.val = y
      /\ q.cur = 0 /\ q.inc = 1 /\ q.nb = 1
  BY <1>1, InRange DEF Local, Start
<1>4. /\ c' = [c EXCEPT ![t] = q] /\ c[t].pc = "idle"
      /\ auto_inc' = auto_inc /\ issued' = issued /\ stored' = stored \cup {x}
  BY DEF Write, Begin, Set, y
<1>5. ops' \in [Threads -> Nat]
  BY DEF Write, Begin, Inv, TypeOK
<1> HIDE DEF q
<1>6. c'[t] = q /\ \A u \in Threads \ {t} : c'[u] = c[u]
  BY <1>4 DEF Inv, TypeOK
<1>7. TypeOK'
  BY <1>3, <1>4, <1>5 DEF Inv, TypeOK
<1>8. \A u \in Threads : RequestAt(u)'
  <2> TAKE u \in Threads
  <2>1. CASE u = t
    BY <2>1, <1>3, <1>4, <1>6, InRange, TopAssumption DEF RequestAt, Range
  <2>2. CASE u # t
    BY <2>2, <1>4, <1>6 DEF RequestAt, Inv
  <2> QED BY <2>1, <2>2
<1>9. ExplicitCovered'
  <2> SUFFICES ASSUME NEW z \in stored \cup {x}, ~(z <= auto_inc)
               PROVE  \E u \in Threads : c'[u].pc \in {"load", "raise"} /\ c'[u].val = z
    BY <1>4 DEF ExplicitCovered
  <2>1. CASE z = x
    <3>1. ~(x <= 0)
      BY <2>1, <1>1, InRange DEF Range
    <3> QED BY <2>1, <3>1, <1>2, <1>3, <1>6
  <2>2. CASE z \in stored
    <3>1. PICK u \in Threads : c[u].pc \in {"load", "raise"} /\ c[u].val = z
      BY <2>2 DEF Inv, ExplicitCovered
    <3> QED BY <3>1, <1>4, <1>6
  <2> QED BY <2>1, <2>2
<1> QED BY <1>4, <1>7, <1>8, <1>9 DEF Inv, IntervalAt, Apart

\* A compare-and-swap that moves the counter on, and the call returns.
LEMMA CounterInv ==
  ASSUME Inv, NEW t \in Threads, Return(t), auto_inc' \in Range, auto_inc' >= auto_inc,
         stored' = stored, ops' = ops,
         c[t].pc \in {"load", "raise"} => c[t].val <= auto_inc'
  PROVE  /\ issued' \subseteq Intervals => TypeOK'
         /\ \A u \in Threads : RequestAt(u)'
         /\ \A r \in issued : IntervalAt(r)'
         /\ ExplicitCovered'
<1>1. /\ c'[t] = [c[t] EXCEPT !.pc = "idle"] /\ \A u \in Threads \ {t} : c'[u] = c[u]
      /\ c' \in [Threads -> Local]
  BY DEF Inv, TypeOK, Return, Set, Local
<1>2. auto_inc \in Nat /\ auto_inc' \in Nat
  BY DEF Inv, TypeOK, Range
<1>3. ASSUME issued' \subseteq Intervals PROVE TypeOK'
  BY <1>1, <1>3 DEF Inv, TypeOK
<1>4. \A u \in Threads : RequestAt(u)'
  <2> TAKE u \in Threads
  <2>1. c[u] \in Local /\ c[u].cur \in Nat
    BY DEF Inv, TypeOK, Local, Range
  <2>2. c'[u].cur = c[u].cur /\ c'[u].inc = c[u].inc /\ c'[u].nb = c[u].nb
    BY <2>1, <1>1 DEF Local
  <2> QED BY <2>1, <2>2, <1>2 DEF RequestAt, Inv
<1>5. \A r \in issued : IntervalAt(r)'
  <2> TAKE r \in issued
  <2>1. r.last \in Nat /\ IntervalAt(r)
    BY DEF Inv, TypeOK, Intervals, Range
  <2> QED BY <2>1, <1>2 DEF IntervalAt
<1>6. ExplicitCovered'
  <2> SUFFICES ASSUME NEW x \in stored, ~(x <= auto_inc')
               PROVE  \E u \in Threads : c'[u].pc \in {"load", "raise"} /\ c'[u].val = x
    BY DEF ExplicitCovered
  <2>1. x \in Int
    BY RequestsAssumption DEF Inv, TypeOK
  <2>2. ~(x <= auto_inc)
    BY <2>1, <1>2
  <2>3. PICK u \in Threads : c[u].pc \in {"load", "raise"} /\ c[u].val = x
    BY <2>2 DEF Inv, ExplicitCovered
  <2> QED BY <2>3, <1>1
<1> QED BY <1>3, <1>4, <1>5, <1>6

\* The loop of observe and reset succeeds.
LEMMA RaiseInv ==
  ASSUME Inv, NEW t \in Threads, Raise(t)
  PROVE  Inv' /\ auto_inc' >= auto_inc
<1>1. c[t].val \in Range /\ auto_inc \in Range
  BY DEF Inv, TypeOK, Local
<1>2. auto_inc' \in Range /\ auto_inc' >= auto_inc /\ c[t].val <= auto_inc'
  BY <1>1 DEF Raise, Range
<1>3. Return(t) /\ stored' = stored /\ ops' = ops /\ issued' = issued
  BY DEF Raise
<1>4. /\ issued' \subseteq Intervals => TypeOK'
      /\ \A u \in Threads : RequestAt(u)'
      /\ \A r \in issued : IntervalAt(r)'
      /\ ExplicitCovered'
  BY <1>2, <1>3, CounterInv
<1>5. TypeOK'
  BY <1>3, <1>4 DEF Inv, TypeOK
<1> QED BY <1>2, <1>3, <1>4, <1>5 DEF Inv, Apart

\* A reservation succeeds: the interval lies between the old counter and the new.
LEMMA ReserveCasInv ==
  ASSUME Inv, NEW t \in Threads, ReserveCas(t)
  PROVE  Inv' /\ auto_inc' >= auto_inc
<1> DEFINE f == FirstOf(t)
           l == LastOf(t)
<1>0. PICK r : r = Interval(t)
  OBVIOUS
<1>1. /\ c[t] \in Local /\ c[t].cur \in Range /\ c[t].off \in Range /\ c[t].inc \in Range
      /\ c[t].nb \in Range /\ c[t].inc >= 1 /\ c[t].nb >= 1 /\ (c[t].nb - 1) * c[t].inc < Top
      /\ auto_inc \in Range /\ auto_inc = c[t].cur /\ c[t].pc = "cas"
  BY DEF Inv, TypeOK, Local, RequestAt, ReserveCas
<1>2. f \in Range /\ f # 0 /\ f > auto_inc
  BY <1>1, FirstBehind DEF FirstOf, ReserveCas, Overflows
<1>3. l \in Range /\ l = f + (c[t].nb - 1) * c[t].inc /\ l >= f
  <2>1. (c[t].nb - 1) * c[t].inc \in Nat
    BY <1>1, Times DEF Range
  <2>2. W(f + W((c[t].nb - 1) * c[t].inc)) = l
    BY DEF LastOf, Last
  <2>3. W((c[t].nb - 1) * c[t].inc) \in Range
    BY <2>1, Wrap
  <2>4. f + W((c[t].nb - 1) * c[t].inc) \in Nat
    BY <2>3, <1>2 DEF Range
  <2>5. l \in Range
    BY <2>2, <2>4, Wrap
  <2>6. ~(l < f)
    BY DEF ReserveCas, Overflows
  <2> HIDE DEF f, l
  <2>7. l >= f
    BY <2>5, <2>6, <1>2 DEF Range
  <2>8. l = Last(f, c[t].inc, c[t].nb)
    BY DEF f, l, LastOf
  <2> QED BY <2>7, <2>8, <1>1, <1>2, LastExact
<1>4. /\ r.first = f /\ r.last = l /\ r.inc = c[t].inc /\ r.nb = c[t].nb
      /\ (f \in Range /\ l \in Range => r \in Intervals)
  BY <1>0, <1>1 DEF Interval, Intervals, Inv, TypeOK
<1>5. /\ auto_inc' = l /\ issued' = issued \cup {r} /\ Return(t)
      /\ stored' = stored /\ ops' = ops
  BY <1>0 DEF ReserveCas
<1> HIDE DEF f, l
<1>6. l \in Nat /\ f \in Nat /\ auto_inc \in Nat /\ l >= auto_inc
  BY <1>1, <1>2, <1>3 DEF Range
<1>7. /\ issued' \subseteq Intervals => TypeOK'
      /\ \A u \in Threads : RequestAt(u)'
      /\ \A s \in issued : IntervalAt(s)'
      /\ ExplicitCovered'
  BY <1>1, <1>3, <1>5, <1>6, CounterInv
<1>8. TypeOK'
  BY <1>2, <1>3, <1>4, <1>5, <1>7 DEF Inv, TypeOK
<1>9. IntervalAt(r)'
  BY <1>1, <1>2, <1>3, <1>4, <1>5, <1>6 DEF IntervalAt
<1>10. \A s \in issued : Apart(r, s) /\ Apart(s, r)
  <2> TAKE s \in issued
  <2>1. s.last \in Nat /\ s.last <= auto_inc
    BY DEF Inv, TypeOK, Intervals, Range, IntervalAt
  <2>2. s.last < f
    BY <2>1, <1>2, <1>6
  <2> QED BY <2>2, <1>4 DEF Apart
<1>11. \A s1, s2 \in issued' : s1 # s2 => Apart(s1, s2)
  BY <1>5, <1>10 DEF Inv
<1>12. \A s \in issued' : IntervalAt(s)'
  BY <1>5, <1>7, <1>9
<1> QED BY <1>5, <1>6, <1>7, <1>8, <1>11, <1>12 DEF Inv, Apart

\* Every step keeps the invariant and never moves the counter back.
LEMMA NextInv == Inv /\ [Next]_vars => Inv' /\ auto_inc' >= auto_inc
<1> SUFFICES ASSUME Inv, [Next]_vars
             PROVE  Inv' /\ auto_inc' >= auto_inc
  OBVIOUS
<1>1. auto_inc' = auto_inc => auto_inc' >= auto_inc
  BY DEF Inv, TypeOK, Range
<1>2. CASE UNCHANGED vars
  BY <1>1, <1>2 DEF vars, Inv, TypeOK, RequestAt, IntervalAt, Apart, ExplicitCovered
<1>3. ASSUME NEW t \in Threads, Step(t) PROVE Inv' /\ auto_inc' >= auto_inc
  <2>1. ASSUME NEW off \in Offsets, NEW inc \in Incs, NEW nb \in Counts, Reserve(t, off, inc, nb)
        PROVE  Inv' /\ auto_inc' = auto_inc
    BY <2>1, ReserveInv DEF Reserve
  <2>2. CASE Overflow(t) \/ ReserveRetry(t) \/ Observe(t) \/ RaiseRetry(t) \/ Raised(t)
    <3>1. Inv'
      BY <2>2, InnerInv
    <3>2. auto_inc' = auto_inc
      BY <2>2 DEF Overflow, ReserveRetry, Observe, RaiseRetry, Raised
    <3> QED BY <3>1, <3>2, <1>1
  <2>3. ASSUME NEW x \in Explicit, Write(t, x) PROVE Inv' /\ auto_inc' = auto_inc
    BY <2>3, WriteInv DEF Write
  <2>4. ASSUME NEW x \in Resets, Reset(t, x) PROVE Inv' /\ auto_inc' = auto_inc
    BY <2>4, ResetInv DEF Reset
  <2>5. CASE ReserveCas(t)
    BY <2>5, ReserveCasInv
  <2>6. CASE Raise(t)
    BY <2>6, RaiseInv
  <2> QED BY <1>1, <1>3, <2>1, <2>2, <2>3, <2>4, <2>5, <2>6 DEF Step
<1>4. CASE Next
  BY <1>2, <1>3, <1>4 DEF Next, AllReturned
<1> QED BY <1>2, <1>4

LEMMA Invariance == Spec => []Inv
<1>1. Inv /\ [Next]_vars => Inv'
  BY NextInv
<1> QED BY InitInv, <1>1, PTL DEF Spec
-----------------------------------------------------------------------------
(* Theorems. *)

\* Every variable has its type: no arithmetic of the reservation leaves the
\* width of the counter.
THEOREM CounterTyping == Spec => []TypeOK
<1>1. Inv => TypeOK
  BY DEF Inv
<1> QED BY Invariance, <1>1, PTL

\* fm_core_auto_inc_reserve hands out no value twice.
THEOREM ReservationsDisjoint == Spec => []DisjointIntervals
<1>1. Inv => DisjointIntervals
  <2> SUFFICES ASSUME Inv, NEW r \in issued, NEW s \in issued, r # s,
                      NEW x \in Values(r), x \in Values(s)
               PROVE  FALSE
    BY DEF DisjointIntervals
  <2>1. /\ r \in Intervals /\ s \in Intervals /\ IntervalAt(r) /\ IntervalAt(s)
        /\ Apart(r, s)
    BY DEF Inv, TypeOK
  <2>2. x \in Int /\ r.first <= x /\ x <= r.last /\ s.first <= x /\ x <= s.last
    BY <2>1, ValuesBetween
  <2>3. r.first \in Int /\ r.last \in Int /\ s.first \in Int /\ s.last \in Int
    BY <2>1 DEF Intervals, Range
  <2> QED BY <2>1, <2>2, <2>3 DEF Apart
<1> QED BY Invariance, <1>1, PTL

\* When the insert of an explicit value has returned, fm_core_auto_inc_observe
\* has put the counter past it.
THEOREM ExplicitBehindCounter == Spec => []ExplicitCovered
<1>1. Inv => ExplicitCovered
  BY DEF Inv
<1> QED BY Invariance, <1>1, PTL

\* No reservation, observation or reset moves the counter back.
THEOREM CounterMonotone == Spec => NeverBack
<1>1. Inv /\ [Next]_vars => [auto_inc' >= auto_inc]_auto_inc
  BY NextInv
<1> QED BY Invariance, <1>1, PTL DEF Spec, NeverBack
=============================================================================
