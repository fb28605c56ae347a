------------------------------ MODULE Resolve ------------------------------
(***************************************************************************)
(* How a device gets a profile: MatchRule::matches, profile_matches,       *)
(* advisory_rank and resolve (src/src/profile.rs).                         *)
(*                                                                         *)
(* A rule is a function from the fields it gives to the values it asks     *)
(* for.  What is observed of a device and its system is a function from    *)
(* fields to the values that satisfy a rule: at most one for a field that  *)
(* is compared, any number for one that is searched in a text.  A profile  *)
(* is [id, priority, rules, conflicts]; ids are naturals in the order of   *)
(* the texts they stand for.                                               *)
(***************************************************************************)
EXTENDS Integers, Sequences, FiniteSets

Fields == {"bus", "vendor", "product", "subsystem_vendor", "subsystem_product",
           "class", "revision", "name_contains", "modalias_contains", "driver",
           "dmi_vendor_contains", "dmi_product_contains", "dmi_board_contains",
           "property"}

\* MatchRule::matches.
RuleMatches(rule, facts) == \A f \in DOMAIN rule : rule[f] \in facts[f]

ProfileMatches(profile, facts) ==
  \A i \in DOMAIN profile.rules : RuleMatches(profile.rules[i], facts)

\* advisory_rank: four per field given, two per rule that names a vendor and
\* a product, one per rule whose driver is bound.
Specificity(rules) ==
  Cardinality(UNION {{i} \X DOMAIN rules[i] : i \in DOMAIN rules})
ExactIdentity(rules) ==
  Cardinality({i \in DOMAIN rules : {"vendor", "product"} \subseteq DOMAIN rules[i]})
DriverMatch(rules, facts) ==
  Cardinality({i \in DOMAIN rules :
                 "driver" \in DOMAIN rules[i] /\ rules[i]["driver"] \in facts["driver"]})
AdvisoryRank(profile, facts) ==
  4 * Specificity(profile.rules) + 2 * ExactIdentity(profile.rules)
    + DriverMatch(profile.rules, facts)

Eligible(facts, profiles) ==
  {i \in DOMAIN profiles : ProfileMatches(profiles[i], facts)}

\* Mutant: only the rank decides.
IgnorePriority(eligible, profiles) == eligible
HighestPriority(eligible, profiles) ==
  {i \in eligible : \A j \in eligible : profiles[j].priority <= profiles[i].priority}

\* sort_by: descending rank, then ascending id; the sort is stable.
Before(facts, profiles, i, j) ==
  LET p == profiles[i]
      q == profiles[j]
  IN  \/ AdvisoryRank(p, facts) > AdvisoryRank(q, facts)
      \/ /\ AdvisoryRank(p, facts) = AdvisoryRank(q, facts)
         /\ p.id < q.id \/ (p.id = q.id /\ i < j)
Winner(facts, profiles, top) ==
  CHOOSE i \in top : \A j \in top \ {i} : Before(facts, profiles, i, j)

\* The profiles of the rank of the winner, itself included.
Tied(facts, profiles, top, winner) ==
  {i \in top : AdvisoryRank(profiles[i], facts) = AdvisoryRank(profiles[winner], facts)}

\* Mutant: only the conflicts the winner declares count.
DeclaredByFirst(p, q) == q.id \in p.conflicts
ConflictBetween(p, q) == q.id \in p.conflicts \/ p.id \in q.conflicts

NoMatch         == [kind |-> "none"]
Selected(i)     == [kind |-> "selected", winner |-> i]
Ambiguous(ids)  == [kind |-> "ambiguous", ids |-> ids]
Conflict(i, id) == [kind |-> "conflict", winner |-> i, other |-> id]

\* A conflict with any matching profile counts, of whatever priority; the
\* error names the first in the order of the profiles.
Rivals(eligible, profiles, winner) ==
  {j \in eligible : /\ profiles[j].id # profiles[winner].id
                    /\ ConflictBetween(profiles[winner], profiles[j])}

resolve(facts, profiles) ==
  LET eligible == Eligible(facts, profiles)
      top      == HighestPriority(eligible, profiles)
      winner   == Winner(facts, profiles, top)
      tied     == Tied(facts, profiles, top, winner)
      rivals   == Rivals(eligible, profiles, winner)
  IN  IF eligible = {} THEN NoMatch
      ELSE IF Cardinality(tied) > 1
      THEN Ambiguous({profiles[i].id : i \in tied})
      ELSE IF rivals # {}
      THEN Conflict(winner, profiles[CHOOSE j \in rivals : \A k \in rivals : j <= k].id)
      ELSE Selected(winner)
=============================================================================
