----------------------------- MODULE StreamProps -----------------------------
(* What may be relied on of the account stream.                              *)
EXTENDS AccountStream

(* The notifications among some frames, under the account the node meant.   *)
NotifiedIn(frames, meant) ==
  LET upTo[n \in 0 .. Len(frames)] ==
        IF n = 0 THEN << >>
        ELSE IF frames[n].kind = "notified"
             THEN Append(upTo[n - 1], <<meant[frames[n].sub], frames[n].slot>>)
             ELSE upTo[n - 1]
  IN upTo[Len(frames)]

Notified == NotifiedIn(wire, subs)

(* The consumer is fed what the node notified, in order, without a gap and  *)
(* under the right account, though the node confirms in any order, gives    *)
(* its ids to other accounts in the next connection, and breaks off at any  *)
(* frame, and though the channel may be full.                               *)
Due == (IF pc = "send" THEN <<update>> ELSE << >>) \o Notified
Promised == INSTANCE AccountFeed WITH due <- Due
IsAccountFeed == Promised!Spec

(* The update in hand waits for a consumer that does not receive.           *)
Blocked == pc = "send" /\ open /\ channel = Capacity

(* Every account is followed, or the node has refused to.                   *)
Following ==
  /\ connected
  /\ \A i \in DOMAIN Accounts :
       \/ Accounts[i] \in refused
       \/ \E s \in DOMAIN subToPubkey : subToPubkey[s] = Accounts[i] /\ subs[s] = Accounts[i]

(* A handshake or a write that nobody answers or takes.                     *)
Hung ==
  \/ pc = "connect" /\ link # "open"
  \/ pc \in {"subscribe", "pong", "close"} /\ link = "full"

(* A task that is cancelled stops, also one that reads from a connection    *)
(* that is dead; and one that is not comes back to follow every account,    *)
(* however often its connection was lost, as long as the node can be        *)
(* reached.  Two things hold it up for ever, since neither is given up on   *)
(* cancellation: a consumer that keeps the channel and does not receive,    *)
(* and a connect or a write that hangs.                                     *)
StopsOrFollows ==
  /\ cancel ~> (pc = "stopped" \/ []Blocked \/ []Hung)
  /\ []<>(pc = "stopped" \/ Blocked \/ link # "open" \/ Following)

(* The inductive invariant behind the feed: the task has for a subscription *)
(* the account that the node has, and a frame that notifies of one comes    *)
(* after the frame that confirmed it, which is on its way or taken note of  *)
(* for every subscription of the connection.                                *)
Frame == [kind : {"confirmed"}, id : Nat, sub : SubId]
           \cup [kind : {"notified"}, sub : SubId, slot : Nat]
           \cup [kind : {"refused"}, id : Nat] \cup [kind : {"ping"}]

Confirms(f, s) == f.kind = "confirmed" /\ f.sub = s

(* What frame i must be when the node means m and the task has got that far.*)
Told(w, m, got, i) ==
  /\ w[i].kind = "confirmed" =>
       w[i].id \in DOMAIN Accounts /\ w[i].sub \in DOMAIN m /\ m[w[i].sub] = Accounts[w[i].id]
  /\ w[i].kind = "notified" =>
       /\ w[i].sub \in DOMAIN m
       /\ w[i].sub \in DOMAIN got \/ \E j \in 1 .. i - 1 : Confirms(w[j], w[i].sub)

Attribution(w, m, got) ==
  /\ w \in Seq(Frame)
  /\ \A s \in DOMAIN m : s \in SubId /\ m[s] \in Account
  /\ \A s \in DOMAIN got : s \in DOMAIN m /\ got[s] = m[s]
  /\ \A i \in DOMAIN w : Told(w, m, got, i)

Heard(w, m, got) ==
  \A s \in DOMAIN m : s \in DOMAIN got \/ \E j \in DOMAIN w : Confirms(w[j], s)

Asked == sent \in 0 .. Len(Accounts) /\ requests \subseteq 1 .. sent

Attributed ==
  /\ slot \in Nat /\ Asked
  /\ Attribution(wire, subs, subToPubkey)
  /\ connected => Heard(wire, subs, subToPubkey)
  /\ pc = "send" => update \in Account \X Nat
=============================================================================
