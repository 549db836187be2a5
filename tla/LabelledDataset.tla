-------------------------- MODULE LabelledDataset --------------------------
(***************************************************************************)
(* What the collector promises the model that is trained on its store: a   *)
(* dataset of graduated tokens in which a token is tracked once, gets one  *)
(* feature row, and only then one label; neither is ever rewritten.        *)
(***************************************************************************)
CONSTANTS
  Token,     \* pump.fun tokens
  Instant,   \* instants a row can carry
  Label      \* labels a token can get

VARIABLES
  tracked,   \* the tokens in the dataset
  features,  \* the instants of a token's feature rows
  labels     \* a token's labels, each with its instant

dataVars == <<tracked, features, labels>>

Init ==
  /\ tracked = {}
  /\ features = [t \in Token |-> {}]
  /\ labels = [t \in Token |-> {}]

Track(t) ==
  /\ t \notin tracked
  /\ tracked' = tracked \cup {t}
  /\ UNCHANGED <<features, labels>>

Observe(t) ==
  /\ t \in tracked
  /\ features[t] = {}
  /\ \E at \in Instant : features' = [features EXCEPT ![t] = {at}]
  /\ UNCHANGED <<tracked, labels>>

Judge(t) ==
  /\ features[t] # {}
  /\ labels[t] = {}
  /\ \E at \in Instant, l \in Label : labels' = [labels EXCEPT ![t] = {<<at, l>>}]
  /\ UNCHANGED <<tracked, features>>

Next == \E t \in Token : Track(t) \/ Observe(t) \/ Judge(t)

Spec == Init /\ [][Next]_dataVars
=============================================================================
