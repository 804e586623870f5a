------------------------------- MODULE Unlock --------------------------------
(***************************************************************************)
(* internal/core/unlock: an unlock rule is a tree, evaluated over what is  *)
(* known of one team.  A node has a kind, the field of Rule that the       *)
(* switch of Eval finds first.                                             *)
(***************************************************************************)
EXTENDS Integers, FiniteSets

CONSTANT Rules      \* the rules there may be, with all their parts

\* Kinds of nodes.  A missing, null or unreadable rule is the empty node.
Always            == [kind |-> "empty"]
AllOf(rules)      == [kind |-> "all", of |-> rules]
AnyOf(rules)      == [kind |-> "any", of |-> rules]
Not(rule)         == [kind |-> "not", arg |-> rule]
Solved(ec)        == [kind |-> "solved", ec |-> ec]
TeamPointsGte(n)  == [kind |-> "points", n |-> n]
SolvedCountGte(n) == [kind |-> "count", n |-> n]
After(t)          == [kind |-> "after", t |-> t]
BlockCompleted(b) == [kind |-> "block", block |-> b]

Parts(rule) ==
  CASE rule.kind \in {"all", "any"} -> rule.of
    [] rule.kind = "not"            -> {rule.arg}
    [] OTHER                        -> {}

\* Rules are JSON documents: finite trees, every set of which has a rule with no
\* part in it.
ASSUME RulesAssumption ==
  /\ IsFiniteSet(Rules)
  /\ Always \in Rules
  /\ \A rule \in Rules : Parts(rule) \subseteq Rules
  /\ \A some \in (SUBSET Rules) \ {{}} : \E rule \in some : Parts(rule) \cap some = {}

ASSUME NumbersAssumption ==
  \A rule \in Rules : /\ rule.kind \in {"points", "count"} => rule.n \in Int
                      /\ rule.kind = "after" => rule.t \in Int

\* Eval, and Unlocked.  A node with an empty list of rules is an empty node,
\* and that is unlocked.
Eval(rule, st) ==
  LET eval[r \in Rules] ==
        \/ r.kind = "empty"
        \/ r.kind = "all"    /\ \A q \in r.of : eval[q]
        \/ r.kind = "any"    /\ (r.of = {} \/ \E q \in r.of : eval[q])
        \/ r.kind = "not"    /\ ~eval[r.arg]
        \/ r.kind = "solved" /\ r.ec \in st.solved
        \/ r.kind = "points" /\ st.points >= r.n
        \/ r.kind = "count"  /\ Cardinality(st.solved) >= r.n
        \/ r.kind = "after"  /\ st.now >= r.t
        \/ /\ r.kind = "block"
           /\ st.blockTotal[r.block] > 0
           /\ st.blockSolved[r.block] >= st.blockTotal[r.block]
  IN  eval[rule]

=============================================================================
