----------------------------- MODULE AppendLog ------------------------------
(***************************************************************************)
(* What the readers of a JSONL file of the fund rely on: it starts empty   *)
(* and changes only by one whole row at its end.                           *)
(***************************************************************************)
EXTENDS Sequences

CONSTANT Row   \* the rows a log can hold

VARIABLE log

Init == log = << >>

Next == \E r \in Row : log' = Append(log, r)

Spec == Init /\ [][Next]_log
=============================================================================
