----------------------------- MODULE AuditChain -----------------------------
(***************************************************************************)
(* The hash-chained audit log: insert_audit_event and verify_chain of      *)
(* server/src/db/audit.rs, and the two ways audit.rs calls them.           *)
(*                                                                         *)
(* A writer is a handler that has already committed the operation it is    *)
(* about to record.  The insert is one transaction of three statements and *)
(* a commit, one action each; what a transaction writes is seen by nobody  *)
(* until it commits.                                                       *)
(***************************************************************************)
EXTENDS Integers, FiniteSets

CONSTANTS
    Writer,    \* handlers that may be in flight at once
    Event,     \* what events say (all hashed columns but the metadata)
    Metadata,  \* metadata texts as serde_json writes them; None is SQL NULL
    None,
    Backends,  \* the databases it may run on: "postgres", "sqlite"
    MaxSeq,    \* bound: the table takes no row beyond this sequence number
    Faults,    \* "db": a statement may fail, or the answer to a COMMIT be lost;
               \* "abort": a handler may be dropped
    Damage     \* what happens to stored rows behind the server's back

ASSUME BackendsAssumption == Backends \subseteq {"postgres", "sqlite"}
ASSUME MaxSeqAssumption == MaxSeq \in Nat
ASSUME AuditNoneAssumption ==
    None \in Metadata /\ None \notin Writer /\ None \notin Event
ASSUME AuditFaultsAssumption ==
    Faults \subseteq {"db", "abort"} /\ Damage \subseteq {"lose", "alter"}

VARIABLES
    backend,  \* the database in use, chosen at the start from DATABASE_URL
    log,      \* audit_events: a function from sequence numbers to rows
    tip,      \* audit_chain_state: last_sequence and last_hash
    lock,     \* who holds the row lock on the tip (postgres) or the database's
              \* write lock (sqlite)
    wr,       \* the local state of each writer
    assured,  \* the mandatory operations reported to their client as successful
    harm      \* the rows lost and the rows altered behind the server's back

vars == <<backend, log, tip, lock, wr, assured, harm>>

-----------------------------------------------------------------------------
\* SHA-256 of the canonical event string, free of collisions: it stands for
\* exactly the values it was computed from.
GENESIS_HASH == <<>>
sha256_hex(previous, ev, metadata) == <<previous, ev, metadata>>
EventOf(hash) == hash[2]

\* The metadata text that a SELECT returns.  A text column gives back what was
\* stored; jsonb stores a value and prints it in a format of its own.
StoredText(metadata) ==
    IF backend = "postgres" /\ metadata # None THEN [jsonb |-> metadata]
    ELSE metadata

\* Mutation: the hash of a row is computed without the one before it.
UnlinkedRow(w) ==
    [ev |-> wr[w].ev, metadata |-> wr[w].metadata, previous |-> GENESIS_HASH,
     hash |-> sha256_hex(GENESIS_HASH, wr[w].ev, wr[w].metadata)]

NewRow(w) ==
    [ev |-> wr[w].ev, metadata |-> wr[w].metadata, previous |-> wr[w].tip.hash,
     hash |-> sha256_hex(wr[w].tip.hash, wr[w].ev, wr[w].metadata)]

NoWriter == [pc |-> "idle", ev |-> None, metadata |-> None, mandatory |-> FALSE,
             tip |-> [seq |-> 0, hash |-> GENESIS_HASH]]

Init ==
    /\ backend \in Backends
    /\ log = [s \in {} |-> NoWriter]
    /\ tip = [seq |-> 0, hash |-> GENESIS_HASH]
    /\ lock = None
    /\ wr = [w \in Writer |-> NoWriter]
    /\ assured = {}
    /\ harm = [lost |-> {}, altered |-> {}]

At(w, pc) == wr[w].pc = pc
Goto(w, pc) == wr' = [wr EXCEPT ![w].pc = pc]
InTransaction(w) == wr[w].pc \in {"insert", "advance", "commit"}

\* Events are told apart by their request id and time, so none is used twice.
FreshEvent(e) == /\ \A s \in DOMAIN log : EventOf(log[s].hash) # e
                 /\ \A w \in Writer : wr[w].ev # e
                 /\ e \notin assured

-----------------------------------------------------------------------------
\* A handler has committed its operation and calls save or save_mandatory.
Record(w, e, metadata, mandatory) ==
    /\ At(w, "idle")
    /\ FreshEvent(e)
    /\ wr' = [wr EXCEPT ![w] =
                 [pc |-> "begin", ev |-> e, metadata |-> metadata,
                  mandatory |-> mandatory, tip |-> NoWriter.tip]]
    /\ UNCHANGED <<backend, log, tip, lock, assured, harm>>

\* Mutation: the number of the last row is taken for the number of the next.
BeginOneEarly(w) ==
    /\ At(w, "begin")
    /\ IF backend = "postgres" THEN lock = None /\ lock' = w ELSE UNCHANGED lock
    /\ wr' = [wr EXCEPT ![w].pc = "insert", ![w].tip = [tip EXCEPT !.seq = @ - 1]]
    /\ UNCHANGED <<backend, log, tip, assured, harm>>

\* BEGIN and the SELECT of the tip.  On postgres FOR UPDATE waits for the row
\* lock; sqlite's deferred transaction takes a snapshot and no lock.
Begin(w) ==
    /\ At(w, "begin")
    /\ IF backend = "postgres" THEN lock = None /\ lock' = w ELSE UNCHANGED lock
    /\ wr' = [wr EXCEPT ![w].pc = "insert", ![w].tip = tip]
    /\ UNCHANGED <<backend, log, tip, assured, harm>>

\* Mutation: an error leaves the transaction open.
LeaveOpen(w) ==
    /\ wr' = [wr EXCEPT ![w] = NoWriter]
    /\ UNCHANGED <<backend, log, tip, lock, assured, harm>>

\* The transaction is rolled back, its lock freed.  save only logs the error;
\* save_mandatory makes the handler answer AUDIT_WRITE_FAILED.
RollBack(w) ==
    /\ wr' = [wr EXCEPT ![w] = NoWriter]
    /\ lock' = IF lock = w THEN None ELSE lock
    /\ UNCHANGED <<backend, log, tip, assured, harm>>

\* Mutation: the write lock alone, with neither snapshot nor unique index.
InsertUnchecked(w) ==
    /\ At(w, "insert")
    /\ lock \in {None, w}
    /\ lock' = w
    /\ Goto(w, "advance")
    /\ UNCHANGED <<backend, log, tip, assured, harm>>

\* The INSERT.  The unique index refuses a sequence number that exists.  On
\* sqlite it takes the write lock; it fails at once when another transaction has
\* committed since the snapshot, and after the busy timeout when one holds the
\* lock.
InsertRow(w) ==
    /\ At(w, "insert")
    /\ LET seq == wr[w].tip.seq + 1
           stale == backend = "sqlite" /\ wr[w].tip # tip
           busy == lock \notin {None, w}
       IN \/ /\ stale \/ busy \/ seq > MaxSeq \/ seq \in DOMAIN log
             /\ RollBack(w)
          \/ /\ ~stale /\ ~busy /\ seq <= MaxSeq /\ seq \notin DOMAIN log
             /\ lock' = w
             /\ Goto(w, "advance")
             /\ UNCHANGED <<backend, log, tip, assured, harm>>

\* The UPDATE of the tip.
AdvanceTip(w) ==
    /\ At(w, "advance")
    /\ Goto(w, "commit")
    /\ UNCHANGED <<backend, log, tip, lock, assured, harm>>

\* COMMIT makes row and tip visible together.  If its answer is lost the
\* caller takes it for a failure.
Commit(w, answered) ==
    /\ At(w, "commit")
    /\ answered \/ "db" \in Faults
    /\ LET seq == wr[w].tip.seq + 1
           row == NewRow(w)
       IN /\ log' = [s \in DOMAIN log \cup {seq} |-> IF s = seq THEN row ELSE log[s]]
          /\ tip' = [seq |-> seq, hash |-> row.hash]
    /\ lock' = None
    /\ assured' = IF answered /\ wr[w].mandatory THEN assured \cup {wr[w].ev}
                  ELSE assured
    /\ wr' = [wr EXCEPT ![w] = NoWriter]
    /\ UNCHANGED <<backend, harm>>

\* A statement fails.
Fail(w) ==
    /\ "db" \in Faults
    /\ At(w, "begin") \/ InTransaction(w)
    /\ RollBack(w)

\* The handler is dropped; the transaction is rolled back when it is.
Abort(w) ==
    /\ "abort" \in Faults
    /\ ~At(w, "idle")
    /\ RollBack(w)

-----------------------------------------------------------------------------
\* What the chain exists to reveal.
LoseRow(s) ==
    /\ "lose" \in Damage
    /\ s \in DOMAIN log
    /\ log' = [q \in DOMAIN log \ {s} |-> log[q]]
    /\ harm' = [harm EXCEPT !.lost = @ \cup {s}]
    /\ UNCHANGED <<backend, tip, lock, wr, assured>>

\* None stands for whatever the row says now.
AlterRow(s) ==
    /\ "alter" \in Damage
    /\ s \in DOMAIN log
    /\ log' = [log EXCEPT ![s].ev = None]
    /\ harm' = [harm EXCEPT !.altered = @ \cup {s}]
    /\ UNCHANGED <<backend, tip, lock, wr, assured>>

-----------------------------------------------------------------------------
Step(w) == InsertRow(w) \/ AdvanceTip(w) \/ Commit(w, TRUE)

Next ==
    \/ \E w \in Writer, e \in Event, m \in Metadata, mandatory \in BOOLEAN :
          Record(w, e, m, mandatory)
    \/ \E w \in Writer : Begin(w)
    \/ \E w \in Writer : InsertRow(w)
    \/ \E w \in Writer : AdvanceTip(w)
    \/ \E w \in Writer, answered \in BOOLEAN : Commit(w, answered)
    \/ \E w \in Writer : Fail(w)
    \/ \E w \in Writer : Abort(w)
    \/ \E s \in DOMAIN log : LoseRow(s)
    \/ \E s \in DOMAIN log : AlterRow(s)

Spec == Init /\ [][Next]_vars

\* The runtime polls every handler, and postgres grants a row lock to its
\* waiters in turn.
Fairness == \A w \in Writer : SF_vars(Begin(w)) /\ WF_vars(Step(w))
FairSpec == Spec /\ Fairness

-----------------------------------------------------------------------------
\* verify_chain: the sequence numbers of the rows it reports as broken.  It
\* walks the rows in order; each must name the stored hash of the row before
\* it and reproduce its own from its stored columns.
Before(s) == {q \in DOMAIN log : q < s}
ExpectedPrevious(s) ==
    IF Before(s) = {} THEN GENESIS_HASH
    ELSE log[CHOOSE q \in Before(s) : \A p \in Before(s) : p <= q].hash
Linked(s) == log[s].previous = ExpectedPrevious(s)
\* Mutation: only the links are checked.
TakenAsStored(s) == TRUE
Reproduced(s) ==
    log[s].hash = sha256_hex(log[s].previous, log[s].ev, StoredText(log[s].metadata))
verify_chain == {s \in DOMAIN log : ~Linked(s) \/ ~Reproduced(s)}

-----------------------------------------------------------------------------
\* Every variable stays in its type, sequence numbers within the bound.
TypeOK ==
    /\ backend \in Backends
    /\ DOMAIN log \subseteq 1..MaxSeq
    /\ tip.seq \in 0..MaxSeq
    /\ lock \in Writer \cup {None}
    /\ wr \in [Writer -> [pc : {"idle", "begin", "insert", "advance", "commit"},
                          ev : Event \cup {None}, metadata : Metadata,
                          mandatory : BOOLEAN, tip : {wr[w].tip : w \in Writer}]]
    /\ \A w \in Writer : /\ wr[w].tip.seq \in 0..MaxSeq
                         /\ wr[w].pc # "idle" => wr[w].ev \in Event
    /\ assured \subseteq Event
    /\ harm \in [lost : SUBSET (1..MaxSeq), altered : SUBSET (1..MaxSeq)]

Untouched == harm.lost = {} /\ harm.altered = {}

\* Concurrent writers, rollbacks and lost answers never produce a log that
\* verify_chain reports as broken, a gap in its sequence, or a tip that is not
\* its last row: "two concurrent writers can never both compute their event
\* against the same previous_hash" (db/audit.rs).
UntouchedLogVerifies ==
    Untouched =>
        /\ verify_chain = {}
        /\ DOMAIN log = 1..tip.seq
        /\ tip.hash = IF tip.seq = 0 THEN GENESIS_HASH ELSE log[tip.seq].hash

\* save_mandatory: "the operation is never reported to the client as a clean
\* success while its mandatory audit record silently failed to write".
AssuredIsRecorded ==
    Untouched =>
        \A e \in assured : \E s \in DOMAIN log : log[s].ev = e

\* An altered row is reported itself for as long as it is there, and a lost row
\* by the row that comes after it and still names it; so a loss shows as soon
\* as any later row exists, whatever else was lost or altered around it.
Damaged == {s \in DOMAIN log : s \in harm.altered \/ s - 1 \in harm.lost}
DamageShows ==
    /\ Damaged \subseteq verify_chain
    /\ (\E s \in harm.lost, q \in DOMAIN log : q > s) => verify_chain # {}

\* No writer is left waiting for a lock that a failed or dropped one held.
WritersFinish == \A w \in Writer : wr[w].pc = "begin" ~> wr[w].pc = "idle"
=============================================================================
