----------------------------- MODULE AccountFeed -----------------------------
(***************************************************************************)
(* What the consumer of subscribe_accounts may rely on: it is fed the      *)
(* changes it was notified of, each once, under the right account and in   *)
(* the order of their slots.  When a connection breaks, what is lost is    *)
(* the end of what was on its way: there is no gap before it.              *)
(***************************************************************************)
EXTENDS Integers, Sequences

CONSTANT Account

VARIABLES
  slot,  \* the slot of the chain
  due,   \* changes on their way, <<account, slot>>
  fed    \* changes the consumer was sent

Init == slot = 0 /\ due = << >> /\ fed = << >>

Change(a) ==
  /\ slot' = slot + 1
  /\ due' \in {due, Append(due, <<a, slot + 1>>)}
  /\ UNCHANGED fed

Feed ==
  /\ due # << >>
  /\ fed' = Append(fed, Head(due)) /\ due' = Tail(due)
  /\ UNCHANGED slot

Break ==
  /\ \E n \in 0 .. Len(due) : due' = SubSeq(due, 1, n)
  /\ UNCHANGED <<slot, fed>>

Next == (\E a \in Account : Change(a)) \/ Feed \/ Break

Spec == Init /\ [][Next]_<<slot, due, fed>>
=============================================================================
