------------------------------- MODULE SelfBelief -------------------------------
(***************************************************************************)
(* The self-beliefs (services/self_belief_service.py with                  *)
(* storage/self_belief_repository.py): claims about the own character that *)
(* rest on evidence, kept as chains of versions that are only appended to. *)
(*                                                                         *)
(* integrate_candidates reads the current beliefs, then records each event *)
(* a belief does not know yet as one more version; a version is appended   *)
(* only if the one that was read is still the latest.  Confidence is       *)
(* counted in units of support_confidence_delta.  What the runtime never   *)
(* calls (counterevidence, revision, archiving) is left out.               *)
(***************************************************************************)
EXTENDS Integers, Sequences, FiniteSets

CONSTANTS
    Claims,            \* what a belief may say
    Reviewers,         \* the learning tasks, pairs of a process and a number
    ConfidenceCap,     \* candidate_confidence_cap
    ActiveConfidence,  \* active_confidence_threshold
    FullConfidence,    \* a confidence of 1
    MaxBeliefs         \* bound on the lineages

ASSUME BeliefAssumption ==
    /\ ConfidenceCap \in Nat
    /\ ActiveConfidence \in Nat
    /\ FullConfidence \in Nat
    /\ ConfidenceCap < ActiveConfidence
    /\ ActiveConfidence <= FullConfidence
    /\ MaxBeliefs \in Nat \ {0}

VARIABLES
    beliefs,       \* the latest version of each lineage, and what version 1 held
    aged,          \* the lineages that are active_min_age_days old
    beliefStep,    \* where the identity review of a task is
    beliefClaim,   \* the claim it is busy with
    beliefRest,    \* the cited events it has not dealt with
    beliefLineage, \* the lineage it has found for the claim
    beliefCopy,    \* the version it has read
    beliefAsked    \* the claims of this review so far

beliefLocals == <<beliefStep, beliefClaim, beliefRest, beliefLineage, beliefCopy, beliefAsked>>
beliefVars == <<beliefs, aged, beliefLocals>>

NoClaim == "no claim"

NoEvent == <<"none", "none", 0>>

NoBelief == [version |-> 0, support |-> {}, confidence |-> 0, status |-> "candidate",
             cause |-> NoEvent]

BeliefSteps == {"idle", "pick", "create", "read", "append"}

Versions(Events) ==
    [version : Nat, support : SUBSET Events, confidence : 0 .. FullConfidence,
     status : {"candidate", "active"}, cause : Events \cup {NoEvent}]

BeliefTypeOK(Events) ==
    /\ beliefs \in Seq([claim : Claims, by : {w[1] : w \in Reviewers}, first : 0 .. ConfidenceCap,
                        basis : SUBSET Events, head : Versions(Events)])
    /\ aged \subseteq DOMAIN beliefs
    /\ beliefStep \in [Reviewers -> BeliefSteps]
    /\ beliefClaim \in [Reviewers -> Claims \cup {NoClaim}]
    /\ beliefRest \in [Reviewers -> SUBSET Events]
    /\ beliefLineage \in [Reviewers -> 0 .. MaxBeliefs]
    /\ beliefCopy \in [Reviewers -> Versions(Events)]
    /\ beliefAsked \in [Reviewers -> SUBSET Claims]

BeliefInit ==
    /\ beliefs = <<>>
    /\ aged = {}
    /\ beliefStep = [w \in Reviewers |-> "idle"]
    /\ beliefClaim = [w \in Reviewers |-> NoClaim]
    /\ beliefRest = [w \in Reviewers |-> {}]
    /\ beliefLineage = [w \in Reviewers |-> 0]
    /\ beliefCopy = [w \in Reviewers |-> NoBelief]
    /\ beliefAsked = [w \in Reviewers |-> {}]

BeliefGoto(w, step) == beliefStep' = [beliefStep EXCEPT ![w] = step]

Reviewing(w) == beliefStep[w] # "idle"

-----------------------------------------------------------------------------
\* extract_candidates has returned: integrate_candidates begins.
BeginReview(w) ==
    /\ BeliefGoto(w, "pick")
    /\ UNCHANGED <<beliefs, aged, beliefClaim, beliefRest, beliefLineage, beliefCopy, beliefAsked>>

\* Leaves integrate_candidates: it has dealt with all claims, or it raised.
BeliefLeave(w) ==
    /\ BeliefGoto(w, "idle")
    /\ beliefClaim' = [beliefClaim EXCEPT ![w] = NoClaim]
    /\ beliefRest' = [beliefRest EXCEPT ![w] = {}]
    /\ beliefLineage' = [beliefLineage EXCEPT ![w] = 0]
    /\ beliefCopy' = [beliefCopy EXCEPT ![w] = NoBelief]
    /\ beliefAsked' = [beliefAsked EXCEPT ![w] = {}]

EndReview(w) ==
    /\ beliefStep[w] = "pick"
    /\ BeliefLeave(w)
    /\ UNCHANGED <<beliefs, aged>>

Lineages == DOMAIN beliefs

\* The cited events the belief does not know yet.
Unknown(cited, l) == cited \ beliefs[l].head.support

ClaimDone(w) ==
    /\ BeliefGoto(w, "pick")
    /\ beliefClaim' = [beliefClaim EXCEPT ![w] = NoClaim]
    /\ beliefLineage' = [beliefLineage EXCEPT ![w] = 0]
    /\ beliefRest' = [beliefRest EXCEPT ![w] = {}]
    /\ beliefCopy' = [beliefCopy EXCEPT ![w] = NoBelief]

\* The next claim and its find_current_by_claim.  Each claim of an answer counts
\* once and cites two eligible events at least.
NextClaim(w, eligible) ==
    /\ beliefStep[w] = "pick"
    /\ \E c \in Claims \ beliefAsked[w], cited \in SUBSET eligible :
         /\ Cardinality(cited) >= 2
         /\ beliefAsked' = [beliefAsked EXCEPT ![w] = @ \cup {c}]
         /\ IF \E l \in Lineages : beliefs[l].claim = c
              THEN \E l \in Lineages :
                     /\ beliefs[l].claim = c
                     /\ IF Unknown(cited, l) = {}
                          THEN UNCHANGED <<beliefStep, beliefClaim, beliefRest, beliefLineage>>
                          ELSE /\ BeliefGoto(w, "read")
                               /\ beliefClaim' = [beliefClaim EXCEPT ![w] = c]
                               /\ beliefLineage' = [beliefLineage EXCEPT ![w] = l]
                               /\ beliefRest' = [beliefRest EXCEPT ![w] = Unknown(cited, l)]
              ELSE /\ BeliefGoto(w, "create")
                   /\ beliefClaim' = [beliefClaim EXCEPT ![w] = c]
                   /\ beliefRest' = [beliefRest EXCEPT ![w] = cited]
                   /\ UNCHANGED beliefLineage
    /\ UNCHANGED <<beliefs, aged, beliefCopy>>

\* create_candidate: version 1 with its evidence, in one savepoint.
CreateCandidate(w) ==
    /\ beliefStep[w] = "create"
    /\ Len(beliefs) < MaxBeliefs
    /\ \E confidence \in {0, ConfidenceCap}, e \in beliefRest[w] :
         beliefs' = Append(beliefs,
                      [claim |-> beliefClaim[w], by |-> w[1], first |-> confidence,
                       basis |-> beliefRest[w],
                       head |-> [version |-> 1, support |-> beliefRest[w], cause |-> e,
                                 confidence |-> confidence, status |-> "candidate"]])
    /\ ClaimDone(w)
    /\ UNCHANGED <<aged, beliefAsked>>

\* record_support reads the latest version.
ReadLatest(w) ==
    /\ beliefStep[w] = "read"
    /\ beliefCopy' = [beliefCopy EXCEPT ![w] = beliefs[beliefLineage[w]].head]
    /\ BeliefGoto(w, "append")
    /\ UNCHANGED <<beliefs, aged, beliefClaim, beliefRest, beliefLineage, beliefAsked>>

Least(a, b) == IF a < b THEN a ELSE b

\* _eligible_for_activation; every belief has two events from version 1 on.
Eligible(l, confidence) == confidence >= ActiveConfidence /\ l \in aged

\* The version that record_support appends to the version v of lineage l.
Supported(l, v, e) ==
    LET confidence == Least(FullConfidence, v.confidence + 1) IN
    [version |-> v.version + 1, support |-> v.support \cup {e}, confidence |-> confidence,
     status |-> IF v.status = "active" \/ Eligible(l, confidence) THEN "active"
                ELSE "candidate",
     cause |-> e]

\* Mutant of IsLatest: the version that was read is not compared.
IsLatestAlways(w) == TRUE

\* The guard of append_if_version.
IsLatest(w) == beliefs[beliefLineage[w]].head.version = beliefCopy[w].version

\* On to the next event of the claim.
EventDone(w, e) ==
    IF beliefRest[w] = {e}
      THEN ClaimDone(w)
      ELSE /\ BeliefGoto(w, "read")
           /\ beliefRest' = [beliefRest EXCEPT ![w] = @ \ {e}]
           /\ UNCHANGED <<beliefClaim, beliefLineage, beliefCopy>>

\* Another process may have recorded the event since: then nothing is appended.
KnownByNow(w) ==
    /\ beliefStep[w] = "append"
    /\ \E e \in beliefRest[w] \cap beliefCopy[w].support : EventDone(w, e)
    /\ UNCHANGED <<beliefs, aged, beliefAsked>>

AppendVersion(w) ==
    /\ beliefStep[w] = "append"
    /\ IsLatest(w)
    /\ \E e \in beliefRest[w] \ beliefCopy[w].support :
         /\ beliefs' = [beliefs EXCEPT ![beliefLineage[w]].head =
                          Supported(beliefLineage[w], beliefCopy[w], e)]
         /\ EventDone(w, e)
    /\ UNCHANGED <<aged, beliefAsked>>

\* SelfBeliefVersionConflict ends the review; what it has appended stays.
VersionConflict(w) ==
    /\ beliefStep[w] = "append"
    /\ beliefRest[w] \ beliefCopy[w].support # {}
    /\ ~IsLatest(w)
    /\ BeliefLeave(w)
    /\ UNCHANGED <<beliefs, aged>>

ReviewStep(w, eligible) ==
    \/ NextClaim(w, eligible) \/ CreateCandidate(w)
    \/ ReadLatest(w) \/ KnownByNow(w) \/ AppendVersion(w)

\* active_min_age_days pass.
BeliefsAge ==
    /\ aged' = Lineages
    /\ UNCHANGED <<beliefs, beliefLocals>>

\* The process of the tasks ws dies.
LoseReviews(ws) ==
    /\ beliefStep' = [w \in Reviewers |-> IF w \in ws THEN "idle" ELSE beliefStep[w]]
    /\ beliefClaim' = [w \in Reviewers |-> IF w \in ws THEN NoClaim ELSE beliefClaim[w]]
    /\ beliefRest' = [w \in Reviewers |-> IF w \in ws THEN {} ELSE beliefRest[w]]
    /\ beliefLineage' = [w \in Reviewers |-> IF w \in ws THEN 0 ELSE beliefLineage[w]]
    /\ beliefCopy' = [w \in Reviewers |-> IF w \in ws THEN NoBelief ELSE beliefCopy[w]]
    /\ beliefAsked' = [w \in Reviewers |-> IF w \in ws THEN {} ELSE beliefAsked[w]]
    /\ UNCHANGED <<beliefs, aged>>

-----------------------------------------------------------------------------
(***************************************************************************)
(* Properties.                                                             *)
(***************************************************************************)

\* The confidence of a belief is its first confidence plus one unit for each
\* event recorded since, however often reviews overlap, repeat after a crash
\* or run into each other; and it is active only with enough of it, after the
\* waiting time.
ConfidenceIsEarned ==
    \A l \in Lineages :
        LET b == beliefs[l]  h == b.head IN
        /\ b.basis \subseteq h.support
        /\ h.version = 1 + Cardinality(h.support \ b.basis)
        /\ h.confidence
             = Least(FullConfidence, b.first + Cardinality(h.support \ b.basis))
        /\ h.status = "active" => h.confidence >= ActiveConfidence /\ l \in aged

\* A belief only grows: each version holds the events of the one before it and
\* one more, and an active belief stays active.
BeliefsOnlyGrow ==
    [][\A l \in Lineages :
        LET h == beliefs[l].head  g == beliefs'[l].head IN
        h # g => /\ g.version = h.version + 1
                 /\ h.support \subseteq g.support
                 /\ Cardinality(g.support \ h.support) = 1
                 /\ h.status = "active" => g.status = "active"]_beliefs

\* What the life believes of itself it has earned, and it only moves forward.
BeliefsAreEarned == []ConfidenceIsEarned /\ BeliefsOnlyGrow
=============================================================================
