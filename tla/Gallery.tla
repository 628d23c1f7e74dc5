------------------------------ MODULE Gallery ------------------------------
(***************************************************************************)
(* The table biometric_templates and its two search paths                  *)
(* (server/src/db/biometric.rs), and the table candidate_evidence          *)
(* (server/src/db/evidence.rs), as operators on a table.                   *)
(*                                                                         *)
(* An embedding is a member of Look; Score[k][l] stands for the cosine     *)
(* similarity of two of them.  A search ranks the candidates by their best *)
(* template and keeps the first top_k; which of two equal scores comes     *)
(* first is anybody's guess.                                               *)
(***************************************************************************)
EXTENDS Naturals, FiniteSets

CONSTANTS
    Candidate,
    Template,   \* ids of biometric_templates
    Look,       \* what an embedding can look like
    Score,
    DUPLICATE_TEMPLATE_SIMILARITY_THRESHOLD,
    top_k,      \* of a search
    warned_k,   \* of a look for duplicates: 5 in the code
    Item,       \* evidence items that providers return
    KeyOf,      \* dedupe_key of each item, with its provider
    NoOne       \* the candidate of a template that is not in the table

ASSUME GalleryAssumption ==
    /\ NoOne \notin Candidate /\ Look # {}
    /\ Score \in [Look -> [Look -> Nat]] /\ \A k, l \in Look : Score[k][l] = Score[l][k]
    /\ DUPLICATE_TEMPLATE_SIMILARITY_THRESHOLD \in Nat

\* vec: the row has a value in embedding_vector.  ready, told are history: the
\* index could be used when it was inserted; its enrolment was answered with
\* success.
Row == [of : Candidate \cup {NoOne}, look : Look, revoked : BOOLEAN,
        vec : BOOLEAN, ready : BOOLEAN, told : BOOLEAN]
NoRow == [of |-> NoOne, look |-> CHOOSE l \in Look : TRUE, revoked |-> FALSE,
          vec |-> FALSE, ready |-> FALSE, told |-> FALSE]

\* What a start finds on each database.  "bare": no extension, hence no column
\* embedding_vector; "column": the column but no index; "index": both.
ensure_pgvector_index(backend, before) ==
    IF backend = "sqlite" THEN {"bare"}
    ELSE {"column", "index"} \cup (IF before = "bare" THEN {"bare"} ELSE {})

PgvectorReady(mode) == mode = "index"

\* The INSERT names embedding_vector on postgres whether or not it exists.
CanInsert(backend, mode) == backend = "sqlite" \/ mode # "bare"

\* Mutation: the column is left to be filled by the next start.
InsertWithoutVector(tab, t, c, l, mode) ==
    [tab EXCEPT ![t] = [of |-> c, look |-> l, revoked |-> FALSE,
                        vec |-> FALSE, ready |-> PgvectorReady(mode), told |-> FALSE]]

insert_template(tab, t, c, l, mode) ==
    [tab EXCEPT ![t] = [of |-> c, look |-> l, revoked |-> FALSE,
                        vec |-> PgvectorReady(mode), ready |-> PgvectorReady(mode),
                        told |-> FALSE]]

\* Rows in the table that are not revoked.
list_active_templates(tab) ==
    {t \in Template : tab[t].of # NoOne /\ ~tab[t].revoked}

\* Mutation: UPDATE ... WHERE id only.
InTable(tab, t) == tab[t].of # NoOne

\* UPDATE ... WHERE revoked_at IS NULL: whether a row was affected, and the table.
Revocable(tab, t) == t \in list_active_templates(tab)
revoke_template(tab, t) == [tab EXCEPT ![t].revoked = TRUE]

\* The candidate's best template scores s or more against the probe.
Reaches(tab, ts, c, l, s) == \E t \in ts : tab[t].of = c /\ Score[tab[t].look][l] >= s

\* The possible results of ranking the candidates of ts and keeping the first k.
top_k_matches(tab, ts, l, k) ==
    LET ranked == {tab[t].of : t \in ts}
    IN  {m \in SUBSET ranked :
            IF Cardinality(ranked) <= k THEN m = ranked
            ELSE /\ Cardinality(m) = k
                 /\ \A c \in m, t \in ts :
                       tab[t].of \notin m => Reaches(tab, ts, c, l, Score[tab[t].look][l])}

search_top_k_indexed(tab, l) ==
    top_k_matches(tab, {t \in list_active_templates(tab) : tab[t].vec}, l, top_k)

search_top_k(tab, l, mode) ==
    IF PgvectorReady(mode) THEN search_top_k_indexed(tab, l)
    ELSE top_k_matches(tab, list_active_templates(tab), l, top_k)

-----------------------------------------------------------------------------
\* A row of candidate_evidence.  run: which collection stored it; after:
\* history, the collections that were over when that one read the table.
EvidenceRow == [on : Candidate, item : Item, run : Nat, after : SUBSET Nat]

list_evidence_for_candidate(ev, c) == {e \in ev : e.on = c}

dedupe_keys(rows) == {KeyOf[e.item] : e \in rows}
=============================================================================
