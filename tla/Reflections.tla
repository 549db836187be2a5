----------------------------- MODULE Reflections -----------------------------
(***************************************************************************)
(* The rules of the fund, read off lessons_reflections.jsonl: the          *)
(* Reflector proposes candidates and later confirms or disconfirms them.   *)
(* The code folds the rows into the candidates one after the other; since  *)
(* what it keeps of a rule is a maximum, a count, a disjunction and a last *)
(* value, it is stated here of the rows themselves.                        *)
(***************************************************************************)
EXTENDS Integers, Sequences, FiniteSetsExt

CONSTANTS
  PromoteAt,  \* supporting observations that make a rule validated
  RejectAt    \* disconfirming observations that make it rejected

ASSUME ReflectionsAssumption == PromoteAt \in Nat /\ RejectAt \in Nat \ {0}

NoCount == -1   \* new_supporting_count is null
Suggestion == {"none", "candidate", "validated", "rejected"}

(* Rules are named by the tick and the place of the row that proposed them; *)
(* those the Reflector names itself have no place.                          *)
RuleId == Nat \X Nat
OwnName == Nat \X {0}
Unnamed == <<0, 0>>
Made(id) == id[2] # 0

(* `run` is the run of the Reflector a row is from: it is not in the file.  *)
Proposal == [row : {"new_candidate"}, id : RuleId, support : Nat, tick : Nat, run : Nat]
Confirmation == [row : {"confirmation"}, id : RuleId, tick : Nat, run : Nat,
                 kind : {"confirming", "disconfirming"},
                 support : Nat \cup {NoCount}, suggestion : Suggestion]

Proposals(rows, id) == {i \in DOMAIN rows : rows[i].row = "new_candidate" /\ rows[i].id = id}
Rules(rows) == {rows[i].id : i \in {j \in DOMAIN rows : rows[j].row = "new_candidate"}}

(* The row a rule was first proposed in: proposing it again changes nothing.*)
Genesis(rows, id) == Min(Proposals(rows, id))

(* Rows about a rule; those that precede its proposal are skipped.          *)
About(rows, id, kinds) ==
  {i \in DOMAIN rows : /\ rows[i].row = "confirmation" /\ rows[i].id = id
                       /\ rows[i].kind \in kinds /\ i > Genesis(rows, id)}

Support(rows, id) ==
  Max({rows[Genesis(rows, id)].support}
        \cup {rows[i].support : i \in About(rows, id, {"confirming"})})

Forward(rows, id) == About(rows, id, {"confirming"}) # {}
Disconfirms(rows, id) == Cardinality(About(rows, id, {"disconfirming"}))

(* The latest status the Reflector has called for.                          *)
Called(rows, id) ==
  LET calls == {i \in About(rows, id, {"confirming", "disconfirming"}) :
                  rows[i].suggestion # "none"}
  IN IF calls = {} THEN "none" ELSE rows[Max(calls)].suggestion

(* Mutant: what the Reflector calls for comes before the count.             *)
StatusCalledFirst(rows, id) ==
  IF Called(rows, id) # "none" THEN Called(rows, id)
  ELSE IF Disconfirms(rows, id) >= RejectAt THEN "rejected"
  ELSE IF Support(rows, id) >= PromoteAt /\ Forward(rows, id) THEN "validated"
  ELSE "candidate"

(* Mutant: the observations a candidate is born with are enough.            *)
StatusUnforwarded(rows, id) ==
  IF Disconfirms(rows, id) >= RejectAt THEN "rejected"
  ELSE IF Called(rows, id) # "none" THEN Called(rows, id)
  ELSE IF Support(rows, id) >= PromoteAt THEN "validated"
  ELSE "candidate"

Status(rows, id) ==
  IF Disconfirms(rows, id) >= RejectAt THEN "rejected"
  ELSE IF Called(rows, id) # "none" THEN Called(rows, id)
  ELSE IF Support(rows, id) >= PromoteAt /\ Forward(rows, id) THEN "validated"
  ELSE "candidate"

(* A confirming row without a number cannot be compared with one: the       *)
(* aggregation raises, whatever the other rows say.                         *)
Aggregable(rows) ==
  \A id \in Rules(rows) : \A i \in About(rows, id, {"confirming"}) : rows[i].support # NoCount

WithStatus(rows, status) == {id \in Rules(rows) : Status(rows, id) = status}
Aggregate(rows) == [candidate |-> WithStatus(rows, "candidate"),
                    validated |-> WithStatus(rows, "validated"),
                    rejected |-> WithStatus(rows, "rejected")]
=============================================================================
