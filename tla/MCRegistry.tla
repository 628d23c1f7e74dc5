----------------------------- MODULE MCRegistry -----------------------------
(***************************************************************************)
(* Registry on small instances.  Both evidence items have one dedupe key;  *)
(* two embeddings of one Look score 2, others 1; one candidate fills the   *)
(* answer of a search and the list of possible duplicates.                 *)
(***************************************************************************)
EXTENDS Registry, TLC

MCKeyOf == [i \in Item |-> "url"]
MCScore == [k \in Look |-> [l \in Look |-> IF k = l THEN 2 ELSE 1]]

Asked(dbs, teams, owners, galleries, n) ==
    [backend : dbs, belongs : teams, owner : owners, templates : galleries,
     asks : {[op \in Ops |-> IF op \in DOMAIN n THEN n[op] ELSE 0]}]

AnyTeams == [User -> SUBSET Org]
NoTeams == {[u \in User |-> {}]}

\* Of the candidates n are there, and perhaps the searches.
There(n, searches, orgs) ==
    {own \in [Resource -> orgs \cup {"absent"}] :
        /\ Cardinality({c \in Candidate : own[c] # "absent"}) = n
        /\ \A s \in Search : own[s] # "absent" <=> searches}
Empty == There(0, FALSE, {})
Unowned(n) == There(n, FALSE, {None})
Owned == There(1, TRUE, Org \cup {None})

NoTemplates == {[t \in Template |-> NoRow]}
OneStored ==
    {[t \in Template |-> IF t = s THEN [NoRow EXCEPT !.of = c, !.told = TRUE] ELSE NoRow] :
        s \in Template, c \in Candidate}

\* Stamping; scoping of what there is; enrolments and a match over two candidates,
\* with the vector index or without it; revocations beside a stored template; two
\* enrolments beside one; collections that overlap or not.
MCScenarios ==
    Asked({"sqlite"}, AnyTeams, Empty, NoTemplates, [move |-> 2, create |-> 1])
    \cup Asked({"sqlite"}, AnyTeams, Owned, NoTemplates, [move |-> 2, view |-> 1])
    \cup Asked({"sqlite"}, AnyTeams, Owned, NoTemplates, [move |-> 2, list |-> 1])
    \cup Asked({"sqlite"}, NoTeams, Owned, NoTemplates, [create |-> 1, list |-> 1, read |-> 1])
    \cup Asked({"postgres"}, NoTeams, Unowned(2), NoTemplates, [enroll |-> 2, match |-> 1])
    \cup Asked({"postgres"}, NoTeams, Unowned(2), OneStored,
               [enroll |-> 1, revoke |-> 1, match |-> 1])
    \cup Asked({"sqlite"}, NoTeams, Unowned(2), OneStored, [revoke |-> 2, match |-> 1])
    \cup Asked({"sqlite"}, NoTeams, Unowned(3), OneStored, [enroll |-> 2])
    \cup Asked({"sqlite"}, NoTeams, Unowned(2), NoTemplates, [collect |-> 2])

Symm == Permutations(Candidate) \cup Permutations(Req) \cup Permutations(Template)
=============================================================================
