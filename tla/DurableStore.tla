---------------------------- MODULE DurableStore ----------------------------
(***************************************************************************)
(* What the storage engine promises its caller, without WAL, memtable or   *)
(* segments: a map from keys to values fed by a history of writes.  A      *)
(* crash may forget a suffix of the history, never a write that an fsync,  *)
(* a commit or a flush has made durable, and never one in the middle.      *)
(***************************************************************************)
EXTENDS Integers, Sequences, FiniteSetsExt

CONSTANTS
    Keys,       \* the keys clients use
    Absent      \* what a read of a missing or deleted key returns

VARIABLES
    hist,       \* every write handed to the engine, in order
    durable,    \* the length of the prefix of hist that no crash may lose
    view        \* what get(k) returns now

vars == <<hist, durable, view>>

(***************************************************************************)
(* A write is [key, op, val, applied, rest]: val identifies the value,     *)
(* applied is FALSE when the call logged the record and then failed, rest  *)
(* counts the records of the same transaction that follow it.              *)
(***************************************************************************)
Visible(e) == IF e.op = "Delete" THEN Absent ELSE e.val

Applied(h, k) == {i \in DOMAIN h : h[i].key = k /\ h[i].applied}

\* A failed write is in doubt: it may show up later, but it never hides a
\* applied write that came after it.
Outcomes(h, k) ==
    LET last == Max(Applied(h, k) \cup {0}) IN
    {IF last = 0 THEN Absent ELSE Visible(h[last])}
    \cup {Visible(h[i]) : i \in {j \in DOMAIN h : j > last /\ h[j].key = k}}

-----------------------------------------------------------------------------
Init ==
    /\ hist = <<>>
    /\ durable = 0
    /\ view = [k \in Keys |-> Absent]

\* One or more writes are accepted: each applied one is visible at once.
Write ==
    /\ Len(hist') > Len(hist)
    /\ SubSeq(hist', 1, Len(hist)) = hist
    /\ durable' \in durable..Len(hist')
    /\ view' = [k \in Keys |->
                  LET new == {i \in Applied(hist', k) : i > Len(hist)} IN
                  IF new = {} THEN view[k] ELSE Visible(hist'[Max(new)])]

\* More of the history becomes durable; no read changes.
Harden ==
    /\ durable' \in (durable + 1)..Len(hist)
    /\ UNCHANGED <<hist, view>>

\* A restart keeps a prefix of the history that includes all that is durable,
\* possibly with records of the call that was running.
Restart ==
    /\ Len(hist') >= durable
    /\ \A i \in DOMAIN hist \cap DOMAIN hist' : hist'[i] = hist[i]
    /\ durable' \in durable..Len(hist')
    /\ \A k \in Keys : view'[k] \in Outcomes(hist', k)

Next == Write \/ Harden \/ Restart

Spec == Init /\ [][Next]_vars
=============================================================================
