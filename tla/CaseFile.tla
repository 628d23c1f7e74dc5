------------------------------ MODULE CaseFile ------------------------------
(***************************************************************************)
(* What one biometric search promises to those who look at it: a search    *)
(* runs once, its candidate list appears whole or not at all, a failed     *)
(* search stays failed, and review decisions happen one at a time under    *)
(* the four-eyes policy (docs/SECURITY_ARCHITECTURE.md, API.md).           *)
(***************************************************************************)
EXTENDS Sequences

CONSTANTS Candidate, Reviewer, None

VARIABLES
    config,  \* .second: REQUIRE_SECOND_REVIEW
    search,  \* [status, code, evidence]
    rows,    \* each candidate's current review status and last reviewer
    events   \* each candidate's review history

NotListed == [st |-> "absent", by |-> None]

Init ==
    /\ search = [status |-> "none", code |-> None, evidence |-> FALSE]
    /\ rows = [c \in Candidate |-> NotListed]
    /\ events = [c \in Candidate |-> <<>>]

Queue ==
    /\ search.status = "none"
    /\ search' = [search EXCEPT !.status = "queued"]
    /\ UNCHANGED <<config, rows, events>>

Complete ==
    /\ search.status = "queued"
    /\ search' = [search EXCEPT !.status = "completed"]
    /\ \E list \in SUBSET Candidate :
          rows' = [c \in Candidate |->
                      IF c \in list THEN [st |-> "pending", by |-> None] ELSE NotListed]
    /\ UNCHANGED <<config, events>>

\* A completed search is downgraded only before evidence was attached to it, and
\* only because its own record or its own commit is in doubt.
FailWith(code) ==
    /\ \/ search.status = "queued"
       \/ search.status = "completed" /\ code \in {"audit", "persist"}
    /\ ~search.evidence
    /\ search' = [search EXCEPT !.status = "failed", !.code = code]
    /\ UNCHANGED <<config, rows, events>>

AttachEvidence ==
    /\ search.status = "completed"
    /\ search' = [search EXCEPT !.evidence = TRUE]
    /\ UNCHANGED <<config, rows, events>>

\* The decision d of reviewer u takes effect at once and leaves status st.
Decide(c, u, d, st) ==
    /\ rows[c].st # "absent"
    /\ \/ /\ d = "inconclusive" \/ ~config.second
          /\ st = d
       \/ /\ d \in {"confirmed", "rejected"} /\ config.second
          /\ rows[c].st = "needs_second_review" /\ rows[c].by # u
          /\ st = d
       \/ /\ d \in {"confirmed", "rejected"} /\ config.second
          /\ rows[c].st # "needs_second_review"
          /\ st = "needs_second_review"
    /\ rows' = [rows EXCEPT ![c] = [st |-> st, by |-> u]]
    /\ events' = [events EXCEPT ![c] = Append(@, [by |-> u, decision |-> d])]
    /\ UNCHANGED <<config, search>>

Next ==
    \/ Queue \/ Complete \/ AttachEvidence
    \/ \E code \in {"provider", "persist", "audit"} : FailWith(code)
    \/ \E c \in Candidate, u \in Reviewer, d \in {"confirmed", "rejected", "inconclusive"},
          st \in {"confirmed", "rejected", "inconclusive", "needs_second_review"} :
          Decide(c, u, d, st)

Spec == Init /\ [][Next]_<<config, search, rows, events>>
=============================================================================
