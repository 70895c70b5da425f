------------------------------- MODULE FmRow -------------------------------
(***************************************************************************)
(* What FASTMEM promises about one row (README.md "tear-free row copy",    *)
(* DESIGN.md section 2.1): every lookup of the row returns a value the row *)
(* really had at some moment between the call and the return.  A row is an *)
(* image, or NoRow while the slot holds no visible row.  Writers replace   *)
(* the value in one step; a reader gathers in seen[t] the values the row   *)
(* takes while its call is open and answers with one of them.              *)
(***************************************************************************)
CONSTANTS Threads, Rows, Keys, KeyOf, NoRow, Busy, NotFound

VARIABLES row,      \* the row: a member of Rows, or NoRow
          open,     \* open[t]: the key t is looking up, or NoRow
          seen,     \* seen[t]: the values of the row since t's call began
          answer    \* answer[t]: what t's latest call returned, or Busy

vars == <<row, open, seen, answer>>

Values == Rows \cup {NoRow}

\* The row holds key k.
Matches(v, k) == v # NoRow /\ KeyOf[v] = k

Init ==
  /\ row \in Values
  /\ open = [t \in Threads |-> NoRow]
  /\ seen = [t \in Threads |-> {}]
  /\ answer = [t \in Threads |-> Busy]

\* Insert, update and delete: one new value, noticed by every open call.
Write(v) ==
  /\ row' = v
  /\ seen' = [t \in Threads |-> IF open[t] = NoRow THEN seen[t] ELSE seen[t] \cup {v}]
  /\ UNCHANGED <<open, answer>>

Call(t, k) ==
  /\ open[t] = NoRow
  /\ open' = [open EXCEPT ![t] = k]
  /\ seen' = [seen EXCEPT ![t] = {row}]
  /\ answer' = [answer EXCEPT ![t] = Busy]
  /\ UNCHANGED row

\* The answer is a value of the row in the window of the call that has the
\* key, or NotFound if at some moment of the window no such row existed.
Return(t) ==
  /\ open[t] # NoRow
  /\ \E v \in seen[t] :
       answer' = [answer EXCEPT ![t] = IF Matches(v, open[t]) THEN v ELSE NotFound]
  /\ open' = [open EXCEPT ![t] = NoRow]
  /\ seen' = [seen EXCEPT ![t] = {}]
  /\ UNCHANGED row

\* The caller has used the answer and turns to something else.
Forget(t) ==
  /\ open[t] = NoRow
  /\ answer' = [answer EXCEPT ![t] = Busy]
  /\ UNCHANGED <<row, open, seen>>

Next ==
  \/ \E v \in Values : Write(v)
  \/ \E t \in Threads, k \in Keys : Call(t, k)
  \/ \E t \in Threads : Return(t) \/ Forget(t)

Spec == Init /\ [][Next]_vars
=============================================================================
