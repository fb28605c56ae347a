---------------------------- MODULE HardwarePlan ----------------------------
(***************************************************************************)
(* The repository's own formal reference for profile selection,            *)
(* src/formal/idris2/HardwarePlan.idr: a fold over the profiles that keeps *)
(* the best signed and matched one, or the tie it met.  It knows nothing   *)
(* of rules, of conflicts or of how a rank is computed.                    *)
(* A profile is [profileId, priority, advisoryRank, trust, matchState].    *)
(***************************************************************************)
EXTENDS Integers, Sequences

NoProfile == [kind |-> "NoProfile"]
SelectedProfile(p) == [kind |-> "Selected", profile |-> p]
AmbiguousAt(priority, rank) ==
  [kind |-> "Ambiguous", priority |-> priority, advisoryRank |-> rank]

isEligible(p) == p.trust = "Signed" /\ p.matchState = "Matched"

consider(selection, candidate) ==
  CASE selection.kind = "NoProfile" -> SelectedProfile(candidate)
    [] selection.kind = "Selected" ->
         LET current == selection.profile
             better  == \/ candidate.priority > current.priority
                        \/ /\ candidate.priority = current.priority
                           /\ candidate.advisoryRank > current.advisoryRank
             equal   == /\ candidate.priority = current.priority
                        /\ candidate.advisoryRank = current.advisoryRank
         IN  IF better THEN SelectedProfile(candidate)
             ELSE IF equal
             THEN AmbiguousAt(candidate.priority, candidate.advisoryRank)
             ELSE selection
    [] selection.kind = "Ambiguous" ->
         IF \/ candidate.priority > selection.priority
            \/ /\ candidate.priority = selection.priority
               /\ candidate.advisoryRank > selection.advisoryRank
         THEN SelectedProfile(candidate) ELSE selection

\* picks[n] is the selection among the first n profiles: foldl consider over
\* those that filter isEligible leaves.
select(profiles) ==
  LET picks[n \in 0 .. Len(profiles)] ==
        IF n = 0 THEN NoProfile
        ELSE IF isEligible(profiles[n]) THEN consider(picks[n - 1], profiles[n])
        ELSE picks[n - 1]
  IN  picks[Len(profiles)]
=============================================================================
