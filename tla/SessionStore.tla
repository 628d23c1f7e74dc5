---------------------------- MODULE SessionStore ----------------------------
(***************************************************************************)
(* The sessions and approval_tokens tables and the SQL statements of       *)
(* server/src/db/session.rs, each as an operator from table to table.      *)
(*                                                                         *)
(* There is one sessions row per token family, so a row is named by its    *)
(* family.  A refresh token stands for its SHA-256 hash.  Expiry is a flag *)
(* that the clock raises; rotation lowers it.                              *)
(***************************************************************************)
EXTENDS IdentityStore

CONSTANTS
    Family,   \* token families (uuids)
    Token,    \* refresh tokens
    OneTime   \* rows of approval_tokens: approval links and reset links

ASSUME NoneIsNoKey == None \notin Family /\ None \notin Token /\ None \notin OneTime

-----------------------------------------------------------------------------
\* "free": no row (never created, or purged).
SessionRow == [st      : {"free", "active", "revoked"},
               usr     : User \cup {None},
               hash    : Token \cup {None},
               expired : BOOLEAN]

NoSession == [st |-> "free", usr |-> None, hash |-> None, expired |-> FALSE]

\* find_session_by_family returns the row even when it is revoked.
find_session_by_family(ss, f) == ss[f].st # "free"

create_session(ss, f, u, t) ==
    [ss EXCEPT ![f] = [st |-> "active", usr |-> u, hash |-> t, expired |-> FALSE]]

\* Mutation: the UPDATE without "AND revoked_at IS NULL".
RotateEvenRevoked(ss, f, t) ==
    IF find_session_by_family(ss, f)
    THEN [ss EXCEPT ![f].hash = t, ![f].expired = FALSE] ELSE ss

\* UPDATE ... WHERE id = f AND revoked_at IS NULL.  The hash that the caller
\* compared earlier is not compared again.
rotate_session(ss, f, t) ==
    IF ss[f].st = "active"
    THEN [ss EXCEPT ![f].hash = t, ![f].expired = FALSE]
    ELSE ss

\* Every revoking UPDATE: of the rows its WHERE clause selects, the active ones.
RevokeRows(ss, Selected) ==
    [f \in Family |-> IF ss[f].st = "active" /\ f \in Selected
                      THEN [ss[f] EXCEPT !.st = "revoked"]
                      ELSE ss[f]]

SessionsOf(ss, u) == {f \in Family : ss[f].usr = u}

revoke_session(ss, id) == RevokeRows(ss, {id})
revoke_session_family(ss, fam) == RevokeRows(ss, {fam})
revoke_all_sessions_for_user(ss, u) == RevokeRows(ss, SessionsOf(ss, u))
revoke_session_owned_by_user(ss, id, u) == RevokeRows(ss, {id} \cap SessionsOf(ss, u))

-----------------------------------------------------------------------------
\* approval_tokens.
OneTimeRow == [st      : {"free", "live", "consumed"},
               usr     : User \cup {None},
               purpose : {"none", "registration_approval", "password_reset"},
               expired : BOOLEAN]

NoOneTime == [st |-> "free", usr |-> None, purpose |-> "none", expired |-> FALSE]

create_approval_token(ts, k, u, purpose) ==
    [ts EXCEPT ![k] = [st |-> "live", usr |-> u, purpose |-> purpose,
                       expired |-> FALSE]]

\* What the callers ask of the row that find_approval_token_by_hash returns.
Usable(ts, k, purpose) ==
    ts[k].st = "live" /\ ts[k].purpose = purpose /\ ~ts[k].expired

\* UPDATE ... WHERE id = k AND consumed_at IS NULL; its result is whether a
\* row changed.
Consumable(ts, k) == ts[k].st = "live"
consume_approval_token(ts, k) ==
    IF Consumable(ts, k) THEN [ts EXCEPT ![k].st = "consumed"] ELSE ts

-----------------------------------------------------------------------------
\* The two DELETEs of purge_expired_auth_records.
PurgedSessions(ss) ==
    [f \in Family |-> IF ss[f].expired THEN NoSession ELSE ss[f]]
PurgedOneTime(ts) ==
    [k \in OneTime |-> IF ts[k].expired THEN NoOneTime ELSE ts[k]]
=============================================================================
