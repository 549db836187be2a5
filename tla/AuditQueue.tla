----------------------------- MODULE AuditQueue -----------------------------
(***************************************************************************)
(* What the audit of predictions promises: a queued pick is counted into   *)
(* the statistics before it leaves the queue.  A pick may be counted again *)
(* while it is queued, which is what a crash between the two files does.   *)
(***************************************************************************)
EXTENDS Naturals

CONSTANT Pick

VARIABLES queue, counts

Init == queue = {} /\ counts = [p \in Pick |-> 0]

Put(p) == p \notin queue /\ queue' = queue \cup {p} /\ UNCHANGED counts

Count(S) ==
  /\ S \subseteq queue
  /\ counts' = [p \in Pick |-> IF p \in S THEN counts[p] + 1 ELSE counts[p]]
  /\ UNCHANGED queue

Drop(S) ==
  /\ \A p \in S : counts[p] > 0
  /\ queue' = queue \ S
  /\ UNCHANGED counts

Next == (\E p \in Pick : Put(p)) \/ \E S \in SUBSET Pick : Count(S) \/ Drop(S)

Spec == Init /\ [][Next]_<<queue, counts>>
=============================================================================
