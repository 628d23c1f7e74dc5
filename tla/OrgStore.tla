------------------------------ MODULE OrgStore ------------------------------
(***************************************************************************)
(* The table user_memberships (server/src/db/org.rs) and the rule that     *)
(* decides who may see a resource (server/src/permission.rs), as operators *)
(* on a table.  Organizations and units themselves are given.              *)
(***************************************************************************)
EXTENDS Naturals

CONSTANTS
    User,     \* accounts whose role admits the routes of Registry
    Admins,   \* those of them with the role SYSTEM_ADMIN
    Org,
    Unit,
    None

ASSUME AdminAssumption == Admins \subseteq User
ASSUME OrgAssumption == None \notin Org \cup Unit /\ "absent" \notin Org

\* The unit of a membership may be NULL.
Place == Unit \cup {None}

\* How many rows of the table have this user, organization and unit.
Memberships == [User \X Org \X Place -> Nat]

\* INSERT ... ON CONFLICT DO NOTHING against UNIQUE (user, organization, unit):
\* two NULL units never conflict.
assign_membership(m, u, o, n) ==
    IF n # None /\ m[<<u, o, n>>] > 0 THEN m
    ELSE [m EXCEPT ![<<u, o, n>>] = @ + 1]

\* Mutation: removes one row of the membership.
RemoveOneRow(m, u, o) ==
    IF m[<<u, o, None>>] = 0 THEN [m EXCEPT ![<<u, o, CHOOSE n \in Unit : TRUE>>] = 0]
    ELSE [m EXCEPT ![<<u, o, None>>] = @ - 1]

\* Mutation: counts the membership down.
CountDown(m, u, o) == [m EXCEPT ![<<u, o, None>>] = @ - 1]

\* DELETE WHERE user_id AND organization_id: every row, whatever its unit.
remove_membership(m, u, o) ==
    [row \in User \X Org \X Place |->
        IF row[1] = u /\ row[2] = o THEN 0 ELSE m[row]]

\* Mutation: a membership of a unit is not one of its organization.
WithoutUnits(m, u) == {o \in Org : m[<<u, o, None>>] > 0}

user_organization_ids(m, u) == {o \in Org : \E n \in Place : m[<<u, o, n>>] > 0}

\* The first row of a SELECT without ORDER BY: any of them, or none.
primary_organization_id(m, u) ==
    IF user_organization_ids(m, u) = {} THEN {None} ELSE user_organization_ids(m, u)

can_view_scoped_resource(u, ids, owner) ==
    u \in Admins \/ owner = None \/ owner \in ids

\* list_searches_page's WHERE clause: no scope at all, or one's own and unowned.
push_search_org_scope(unscoped, ids, owner) ==
    unscoped \/ owner = None \/ owner \in ids
=============================================================================
