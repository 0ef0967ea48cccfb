------------------------------- MODULE Labels -------------------------------
(***************************************************************************)
(* Label selectors (controller/k8s/api/src/labels.rs): the model of         *)
(* PolicyIndex takes a selector for the set of the labels it matches; this  *)
(* module is how it matches them.                                           *)
(*                                                                          *)
(* Labels are a partial map from keys to values.  A selector has the map of *)
(* its matchLabels and the set of its matchExpressions, each of them empty  *)
(* when it is absent, which matches() treats alike.                         *)
(***************************************************************************)
CONSTANTS
  Keys, Values, \* of labels
  Operators     \* of expressions: In, NotIn

ASSUME OperatorAssumption == Operators \subseteq {"In", "NotIn"}

LabelMaps == UNION {[D -> Values] : D \in SUBSET Keys}

Expressions == [key : Keys, operator : Operators, values : SUBSET Values]

Selectors == [matchLabels : LabelMaps, matchExpressions : SUBSET Expressions]

Has(labels, k, vs) == k \in DOMAIN labels /\ labels[k] \in vs

(* Expression::matches.  An expression whose key is absent matches when it  *)
(* is NotIn; one whose key is there matches, whichever the operator, when   *)
(* the value is listed.                                                     *)
ExpressionMatches(e, labels) ==
  \/ e.key \notin DOMAIN labels /\ e.operator = "NotIn"
  \/ Has(labels, e.key, e.values)

(* Selector::matches.                                                       *)
Matches(s, labels) ==
  /\ \A e \in s.matchExpressions : ExpressionMatches(e, labels)
  /\ \A k \in DOMAIN s.matchLabels : Has(labels, k, {s.matchLabels[k]})

(* What Kubernetes means by a selector: the conjunction of its              *)
(* requirements, where In holds of a label that is there with one of the    *)
(* values and NotIn is its negation.                                        *)
Requirements(s) ==
  s.matchExpressions
    \cup {[key |-> k, operator |-> "In", values |-> {s.matchLabels[k]}] :
          k \in DOMAIN s.matchLabels}

Holds(r, labels) == Has(labels, r.key, r.values) <=> r.operator = "In"

Selected(s, labels) == \A r \in Requirements(s) : Holds(r, labels)
=============================================================================
