----------------------------- MODULE Contracts -----------------------------
(***************************************************************************)
(* The checks and the canonical form of the wire contracts, as functions:    *)
(* plans and workflows (forge-schemas), prompts (forge-verify), and the      *)
(* canonical JSON under the hashes of the prompt cache and of the ledger.   *)
(* TLC compares them with what they stand for over bounded documents; an    *)
(* action checks one document.                                              *)
(***************************************************************************)
EXTENDS Integers, Sequences, FiniteSets, TLC

CONSTANTS MaxPhases,  \* bound: phases of a plan
          Node,       \* ids of workflow nodes
          MaxEdges    \* bound: edges of a workflow

ContractsAssumption == MaxPhases \in Nat /\ MaxEdges \in Nat

VARIABLES document, verdict
contractVars == <<document, verdict>>

TypeOK ==
  /\ document.kind \in {"plan", "workflow", "prompt", "values"}
  /\ verdict \in {"none", "accepted", "refused"}

-----------------------------------------------------------------------------
(* Plans and workflows *)

\* Faulty: holes are found, repetitions are not.
InSequence_Set(orders) == \A i \in 1..Len(orders) : \E j \in 1..i : orders[j] <= i

\* Plan::validate sorts the orders and expects 1, 2, ...
InSequence(orders) ==
  LET sorted == SortSeq(orders, <) IN \A i \in DOMAIN sorted : sorted[i] = i

PlanIsValid(p) == p.orders # <<>> /\ InSequence(p.orders) /\ p.confident

\* validate_edges
EdgesResolve(w) == \A i \in DOMAIN w.edges : w.edges[i].from \in w.nodes /\ w.edges[i].to \in w.nodes

-----------------------------------------------------------------------------
(* Prompts *)

RequiredFields == {"name", "version", "ethics_check", "quality_gates"}
EthicsRules    == {"no_pii", "no_bias"}

\* Faulty: a demonstration tolerates missing fields as well.
FieldSeverity_ByMode(mode) == IF mode = "enterprise" THEN "error" ELSE "warning"

FieldSeverity(mode) == "error"

Severity(mode) == IF mode = "enterprise" THEN "error" ELSE "warning"

\* The issues of a prompt, with what they are about.
Issues(p, mode) ==
  {<<"missing_field", f, FieldSeverity(mode)>> : f \in RequiredFields \ p.fields}
  \cup (IF "ethics_check" \in p.fields
          THEN {<<"ethics_rule_missing", r, "warning">> : r \in EthicsRules \ p.rules}
               \cup (IF p.enabled THEN {} ELSE {<<"ethics_disabled", "-", "warning">>})
          ELSE {})
  \cup (IF "quality_gates" \in p.fields /\ p.low THEN {<<"quality_floor", "-", "warning">>} ELSE {})
  \cup {<<"dangerous_pattern", d, Severity(mode)>> : d \in p.patterns}

\* validate_contract; the score in tenths.
Report(p, mode) ==
  LET n == Cardinality(Issues(p, mode)) IN
  [valid |-> \A i \in Issues(p, mode) : i[3] # "error", score |-> IF n < 10 THEN 10 - n ELSE 0]

-----------------------------------------------------------------------------
(* Canonical JSON.  A value is a scalar with its characters, an array, or an *)
(* object with its keys in the order in which they were inserted.           *)

Scalar(text)        == [t |-> "scalar", text |-> text, keys |-> <<>>, items |-> <<>>]
Array(items)        == [t |-> "array",  text |-> <<>>, keys |-> <<>>, items |-> items]
Object(keys, items) == [t |-> "object", text |-> <<>>, keys |-> keys, items |-> items]

KeyText == <<"'a'", "'b'">>

RECURSIVE CanonicalJson(_)

\* Faulty: keys in the order of insertion.
KeyOrder_AsInserted(v) == [i \in DOMAIN v.keys |-> i]

\* The positions of an object's keys, sorted by key.
KeyOrder(v) == SortSeq([i \in DOMAIN v.keys |-> i], LAMBDA i, j : v.keys[i] < v.keys[j])

\* The items in a given order, with commas between them.
Members(v, order, Prefix(_)) ==
  LET RECURSIVE From(_)
      From(i) == IF i > Len(order) THEN <<>>
                 ELSE (IF i > 1 THEN <<",">> ELSE <<>>) \o Prefix(order[i])
                      \o CanonicalJson(v.items[order[i]]) \o From(i + 1)
  IN  From(1)

\* write_canonical
CanonicalJson(v) ==
  CASE v.t = "scalar" -> v.text
    [] v.t = "array"  -> <<"[">> \o Members(v, [i \in DOMAIN v.items |-> i], LAMBDA i : <<>>) \o <<"]">>
    [] v.t = "object" ->
         <<"{">> \o Members(v, KeyOrder(v), LAMBDA i : <<KeyText[v.keys[i]], ":">>) \o <<"}">>

\* What it means for two documents to be the same one.
RECURSIVE SameValue(_, _)
SameValue(v, w) ==
  /\ v.t = w.t /\ v.text = w.text /\ Len(v.items) = Len(w.items)
  /\ v.t = "array" => \A i \in DOMAIN v.items : SameValue(v.items[i], w.items[i])
  /\ v.t = "object" => \A i \in DOMAIN v.keys : \E j \in DOMAIN w.keys :
                         v.keys[i] = w.keys[j] /\ SameValue(v.items[i], w.items[j])

Scalars == {Scalar(<<"1">>), Scalar(<<"1", "1">>)}
Over(S) == {Array(<<>>), Object(<<>>, <<>>)} \cup {Array(<<v>>) : v \in S} \cup {Array(<<v, w>>) : v, w \in S}
           \cup {Object(<<k>>, <<v>>) : k \in {1, 2}, v \in S}
           \cup {Object(<<k, 3 - k>>, <<v, w>>) : k \in {1, 2}, v, w \in S}
Nested  == {Scalar(<<"1">>), Array(<<Scalar(<<"1">>)>>), Object(<<1>>, <<Scalar(<<"1">>)>>),
            Object(<<1, 2>>, <<Scalar(<<"1">>), Scalar(<<"1", "1">>)>>),
            Object(<<2, 1>>, <<Scalar(<<"1", "1">>), Scalar(<<"1">>)>>)}
Values  == Scalars \cup Over(Scalars) \cup Over(Nested)

-----------------------------------------------------------------------------
Orders == UNION {[1..n -> 0..(MaxPhases + 1)] : n \in 0..MaxPhases}
Edges  == UNION {[1..n -> [from : Node, to : Node]] : n \in 0..MaxEdges}

Init ==
  /\ verdict = "none"
  /\ \/ document \in [kind : {"plan"}, orders : Orders, confident : BOOLEAN]
     \/ document \in [kind : {"workflow"}, nodes : SUBSET Node, edges : Edges]
     \/ document \in [kind : {"prompt"}, fields : SUBSET RequiredFields, enabled : BOOLEAN,
                      rules : SUBSET EthicsRules, low : BOOLEAN, patterns : SUBSET {"rm -rf", "eval("},
                      mode : {"vitrine", "enterprise"}]
     \/ document \in [kind : {"values"}, left : Values, right : Values]

\* For two values: whether their canonical texts, and so their hashes, are equal.
Accepts(d) ==
  CASE d.kind = "plan"     -> PlanIsValid(d)
    [] d.kind = "workflow" -> EdgesResolve(d)
    [] d.kind = "prompt"   -> Report(d, d.mode).valid
    [] d.kind = "values"   -> CanonicalJson(d.left) = CanonicalJson(d.right)

Check == verdict = "none" /\ verdict' = (IF Accepts(document) THEN "accepted" ELSE "refused") /\ UNCHANGED document

Next == Check

Spec == Init /\ [][Next]_contractVars

-----------------------------------------------------------------------------
Accepted == verdict = "accepted"

\* A plan is accepted exactly if its orders number its phases: each of 1..N once.
PlansAreNumbered ==
  document.kind = "plan" /\ verdict # "none" =>
    LET n == Len(document.orders) IN
    Accepted <=> n > 0 /\ document.confident /\ {document.orders[i] : i \in 1..n} = 1..n

\* An accepted prompt has what is required in any mode; the stricter mode only
\* refuses more, and the score does not depend on it.
ModeOnlyEscalates ==
  document.kind = "prompt" =>
    LET strict == Report(document, "enterprise")
        shown  == Report(document, "vitrine")
    IN  /\ strict.valid => shown.valid /\ document.patterns = {}
        /\ strict.score = shown.score
        /\ Accepted => RequiredFields \subseteq document.fields

\* The canonical text is equal for the same value, however its keys are ordered
\* at any depth, and for no other: what shares a hash is the same request.
TextIsOfValue ==
  document.kind = "values" /\ verdict # "none" => (Accepted <=> SameValue(document.left, document.right))
=============================================================================
