---------------------------- MODULE AccountStream ----------------------------
(***************************************************************************)
(* subscribe_accounts, the task that follows accounts over a WebSocket:    *)
(* it connects, asks for one subscription per account, forwards every      *)
(* notification into a bounded channel, and starts over with a growing     *)
(* delay when the connection ends, until it is cancelled or the receiver   *)
(* of the channel is dropped.                                              *)
(*                                                                         *)
(* Each await of the task is a step.  The RPC node answers the requests in *)
(* any order and may refuse some; the connection may break with any part   *)
(* of what was on its way, and it may go dead without a word: no await has *)
(* a timeout of its own.  Cancellation is looked at where the code selects *)
(* on it, and nowhere else.                                                *)
(***************************************************************************)
EXTENDS SequencesExt

CONSTANTS
  Account,
  Accounts,    \* the accounts to follow, in the order they were given
  SubId,       \* ids the node gives to subscriptions
  Capacity,    \* of the channel
  MaxBackoff,  \* MAX_BACKOFF, in units of INITIAL_BACKOFF
  MaxSlot,     \* bound: changes of accounts
  MaxFaults    \* bound: failed connects, refused requests, broken and dead connections

ASSUME StreamAssumption ==
  /\ Accounts \in Seq(Account) /\ IsInjective(Accounts)
  /\ Capacity \in Nat \ {0} /\ MaxBackoff \in Nat \ {0}
  /\ MaxSlot \in Nat /\ MaxFaults \in Nat

VARIABLES
  pc,           \* where the task waits
  backoff,
  sent,         \* requests sent, whose ids are 1, 2, ...
  subToPubkey,  \* sub_to_pubkey
  update,       \* the update that waits for room in the channel
  channel,      \* updates in the channel
  cancel,       \* the token is cancelled
  open,         \* the receiver is there
  link,         \* "open"; "deaf", nothing comes of it; "full", nor is a write taken
  connected, requests, subs, refused,  \* the node's side of the connection
  wire,         \* frames on their way to the task
  slot,
  fed,          \* history: updates sent into the channel
  faults

taskVars == <<pc, backoff, sent, subToPubkey, update>>
peerVars == <<connected, requests, subs, refused, wire>>
vars == <<taskVars, peerVars, link, channel, cancel, open, slot, fed, faults>>

NoUpdate == << >>

Init ==
  /\ pc = "loop" /\ backoff = 1 /\ sent = 0 /\ subToPubkey = << >> /\ update = NoUpdate
  /\ channel = 0 /\ cancel = FALSE /\ open = TRUE
  /\ link = "open"
  /\ connected = FALSE /\ requests = {} /\ subs = << >> /\ refused = {} /\ wire = << >>
  /\ slot = 0 /\ fed = << >> /\ faults = 0

-----------------------------------------------------------------------------
(* The task. *)

Stays(label) == pc' = label /\ UNCHANGED <<backoff, sent, subToPubkey, update>>

(* Asked before every attempt to connect and after every connection.        *)
Over == cancel \/ ~open

Loop ==
  /\ pc \in {"loop", "ended"}
  /\ Stays(IF Over THEN "stopped" ELSE IF pc = "loop" THEN "connect" ELSE "wait")
  /\ UNCHANGED <<peerVars, link, channel, cancel, open, slot, fed, faults>>

(* Mutant: a connection that was lost is taken up without asking again.     *)
ConnectOnce ==
  /\ pc = "connect" /\ link = "open"
  /\ pc' = "subscribe" /\ backoff' = 1 /\ subToPubkey' = << >>
  /\ connected' = TRUE /\ requests' = {} /\ subs' = << >> /\ refused' = {} /\ wire' = << >>
  /\ UNCHANGED <<sent, update, link, channel, cancel, open, slot, fed, faults>>

(* The node answers the handshake, which resets the delay.                  *)
Connect ==
  /\ pc = "connect" /\ link = "open"
  /\ pc' = "subscribe" /\ backoff' = 1 /\ sent' = 0 /\ subToPubkey' = << >>
  /\ connected' = TRUE /\ requests' = {} /\ subs' = << >> /\ refused' = {} /\ wire' = << >>
  /\ UNCHANGED <<update, link, channel, cancel, open, slot, fed, faults>>

ConnectFails ==
  /\ pc = "connect" /\ faults < MaxFaults
  /\ faults' = faults + 1
  /\ Stays("ended")
  /\ UNCHANGED <<peerVars, link, channel, cancel, open, slot, fed>>

Leave ==
  /\ Stays("ended")
  /\ connected' = FALSE /\ requests' = {} /\ wire' = << >>
  /\ UNCHANGED <<subs, refused>>

(* A request into a broken connection may go nowhere, or fail.              *)
Subscribe ==
  /\ pc = "subscribe" /\ link # "full"
  /\ \/ /\ sent < Len(Accounts)
        /\ sent' = sent + 1
        /\ requests' = IF connected THEN requests \cup {sent + 1} ELSE {}
        /\ UNCHANGED <<pc, backoff, subToPubkey, update, connected, subs, refused, wire>>
     \/ /\ sent = Len(Accounts)
        /\ Stays("read") /\ UNCHANGED peerVars
     \/ /\ ~connected /\ sent < Len(Accounts)
        /\ Leave
  /\ UNCHANGED <<link, channel, cancel, open, slot, fed, faults>>

(* HashMap::insert                                                          *)
Insert(map, key, value) ==
  [k \in DOMAIN map \cup {key} |-> IF k = key THEN value ELSE map[k]]

(* Mutant: confirmations are taken to come in the order of the requests.    *)
ConfirmedInOrder(f) ==
  Insert(subToPubkey, f.sub, Accounts[Cardinality(DOMAIN subToPubkey) + 1])

(* id_to_pubkey has the accounts by the id of the request.                  *)
Confirmed(f) == Insert(subToPubkey, f.sub, Accounts[f.id])

(* A ping is answered.  Other answers, a refusal among them, are ignored,   *)
(* and so is a notification of a subscription that is not known.            *)
HandleMessage ==
  LET f == Head(wire)
  IN /\ pc = "read" /\ wire # << >> /\ link = "open"
     /\ wire' = Tail(wire)
     /\ CASE f.kind = "confirmed" ->
               subToPubkey' = Confirmed(f) /\ UNCHANGED <<pc, update>>
          [] f.kind = "notified" /\ f.sub \in DOMAIN subToPubkey ->
               /\ pc' = "send" /\ update' = <<subToPubkey[f.sub], f.slot>>
               /\ UNCHANGED subToPubkey
          [] f.kind = "ping" -> pc' = "pong" /\ UNCHANGED <<update, subToPubkey>>
          [] OTHER -> UNCHANGED <<pc, update, subToPubkey>>
     /\ UNCHANGED <<backoff, sent, connected, requests, subs, refused, link, channel, cancel, open,
                    slot, fed, faults>>

(* Whether it can be written or not.                                        *)
Pong ==
  /\ pc = "pong" /\ link # "full"
  /\ Stays("read")
  /\ UNCHANGED <<peerVars, link, channel, cancel, open, slot, fed, faults>>

(* The end of the connection is reached; of a dead one there is no end.     *)
ConnectionEnds ==
  /\ pc = "read" /\ wire = << >> /\ ~connected /\ link = "open"
  /\ Leave
  /\ UNCHANGED <<link, channel, cancel, open, slot, fed, faults>>

StopReading ==
  /\ pc = "read" /\ cancel
  /\ Stays("close")
  /\ UNCHANGED <<peerVars, link, channel, cancel, open, slot, fed, faults>>

(* A Close frame is written, and the connection is dropped.                 *)
Close ==
  /\ pc = "close" /\ link # "full"
  /\ Leave
  /\ UNCHANGED <<link, channel, cancel, open, slot, fed, faults>>

(* Waits for room in the channel, whatever else happens, as long as there   *)
(* is a receiver.                                                           *)
Send ==
  /\ pc = "send" /\ open /\ channel < Capacity
  /\ channel' = channel + 1 /\ fed' = Append(fed, update)
  /\ pc' = "read" /\ update' = NoUpdate
  /\ UNCHANGED <<backoff, sent, subToPubkey, peerVars, link, cancel, open, slot, faults>>

SendFails ==
  /\ pc = "send" /\ ~open
  /\ pc' = "ended" /\ update' = NoUpdate
  /\ connected' = FALSE /\ requests' = {} /\ wire' = << >>
  /\ UNCHANGED <<backoff, sent, subToPubkey, subs, refused, link, channel, cancel, open, slot, fed,
                 faults>>

Wait ==
  /\ pc = "wait"
  /\ \/ cancel /\ Stays("stopped")
     \/ /\ backoff' = Min({2 * backoff, MaxBackoff}) /\ pc' = "loop"
        /\ UNCHANGED <<sent, subToPubkey, update>>
  /\ UNCHANGED <<peerVars, link, channel, cancel, open, slot, fed, faults>>

Task ==
  \/ Loop \/ Connect \/ ConnectFails \/ Subscribe \/ HandleMessage \/ Pong \/ ConnectionEnds
  \/ StopReading \/ Close \/ Send \/ SendFails \/ Wait

-----------------------------------------------------------------------------
(* The node, the consumer, and whoever cancels.                             *)

Confirm(i) ==
  /\ i \in requests /\ link = "open"
  /\ \E s \in SubId \ DOMAIN subs :
       /\ subs' = Insert(subs, s, Accounts[i])
       /\ wire' = Append(wire, [kind |-> "confirmed", id |-> i, sub |-> s])
  /\ requests' = requests \ {i}
  /\ UNCHANGED <<taskVars, link, connected, refused, channel, cancel, open, slot, fed, faults>>

Refuse(i) ==
  /\ i \in requests /\ link = "open" /\ faults < MaxFaults
  /\ faults' = faults + 1
  /\ refused' = refused \cup {Accounts[i]}
  /\ wire' = Append(wire, [kind |-> "refused", id |-> i])
  /\ requests' = requests \ {i}
  /\ UNCHANGED <<taskVars, link, connected, subs, channel, cancel, open, slot, fed>>

(* An account changes; the node notifies whoever subscribed to it.          *)
Change(a) ==
  /\ slot < MaxSlot /\ slot' = slot + 1
  /\ LET s == {x \in DOMAIN subs : subs[x] = a}
     IN wire' = IF connected /\ s # {}
                THEN Append(wire, [kind |-> "notified", sub |-> CHOOSE x \in s : TRUE, slot |-> slot'])
                ELSE wire
  /\ UNCHANGED <<taskVars, link, connected, requests, subs, refused, channel, cancel, open, fed,
                 faults>>

(* Again and again, though one at a time.                                   *)
Ping ==
  /\ connected /\ \A n \in DOMAIN wire : wire[n].kind # "ping"
  /\ wire' = Append(wire, [kind |-> "ping"])
  /\ UNCHANGED <<taskVars, link, connected, requests, subs, refused, channel, cancel, open, slot, fed,
                 faults>>

Breaks ==
  /\ connected /\ faults < MaxFaults
  /\ faults' = faults + 1
  /\ connected' = FALSE /\ requests' = {}
  /\ \E n \in 0 .. Len(wire) : wire' = SubSeq(wire, 1, n)
  /\ UNCHANGED <<taskVars, link, subs, refused, channel, cancel, open, slot, fed>>

(* The node, or the way to it, goes dead, and may stay so.                  *)
GoesDead ==
  /\ \/ link = "open" /\ link' = "deaf" /\ faults < MaxFaults /\ faults' = faults + 1
     \/ link = "deaf" /\ link' = "full" /\ UNCHANGED faults
  /\ UNCHANGED <<taskVars, peerVars, channel, cancel, open, slot, fed>>

Recovers ==
  /\ link # "open" /\ link' = "open"
  /\ UNCHANGED <<taskVars, peerVars, channel, cancel, open, slot, fed, faults>>

Receive ==
  /\ open /\ channel > 0 /\ channel' = channel - 1
  /\ UNCHANGED <<taskVars, peerVars, link, cancel, open, slot, fed, faults>>

DropReceiver ==
  /\ open /\ open' = FALSE /\ channel' = 0
  /\ UNCHANGED <<taskVars, peerVars, link, cancel, slot, fed, faults>>

Cancel ==
  /\ ~cancel /\ cancel' = TRUE
  /\ UNCHANGED <<taskVars, peerVars, link, channel, open, slot, fed, faults>>

Next ==
  \/ Task
  \/ \E i \in requests : Confirm(i) \/ Refuse(i)
  \/ \E a \in Account : Change(a)
  \/ Ping \/ Breaks \/ GoesDead \/ Recovers \/ Receive \/ DropReceiver \/ Cancel

Spec == Init /\ [][Next]_vars

(* The task is polled, and a node that can be reached answers.  Nothing is  *)
(* assumed of a dead one, which may stay so for ever, nor of the consumer:  *)
(* it may never receive.  Where the task selects, the branches are tried in *)
(* a random order: no flood of frames keeps it from seeing the cancellation.*)
FairSpec ==
  /\ Spec
  /\ WF_vars(Task) /\ SF_vars(StopReading)
  /\ WF_vars(\E i \in requests : Confirm(i))
=============================================================================
