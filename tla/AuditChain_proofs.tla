-------------------------- MODULE AuditChain_proofs --------------------------
(***************************************************************************)
(* Proofs about AuditChain, for any number of handlers, any length of the  *)
(* log and either database.                                                *)
(***************************************************************************)
EXTENDS AuditChain, TLAPS, WellFoundedInduction

\* The writer inside its transaction who will be the next to commit.
Held(w) ==
    \/ wr[w].pc \in {"advance", "commit"}
    \/ wr[w].pc = "insert" /\ backend = "postgres"

\* Whoever is past the point where it can be refused holds the lock and works on
\* the current tip; the sequence number it will use is free.
LockOK ==
    \A w \in Writer : Held(w) =>
        /\ lock = w
        /\ wr[w].tip = tip
        /\ wr[w].pc \in {"advance", "commit"} =>
              tip.seq + 1 <= MaxSeq /\ tip.seq + 1 \notin DOMAIN log

\* As long as nobody touched the log, every row names the one before it and
\* hashes what was stored, and the tip is the last row.
RowOK(s) ==
    /\ log[s].previous = IF s = 1 THEN GENESIS_HASH ELSE log[s - 1].hash
    /\ log[s].hash = sha256_hex(log[s].previous, log[s].ev, log[s].metadata)
    /\ log[s].metadata \in Metadata
ChainOK ==
    Untouched =>
        /\ DOMAIN log = 1..tip.seq
        /\ tip.hash = IF tip.seq = 0 THEN GENESIS_HASH ELSE log[tip.seq].hash
        /\ \A s \in 1..tip.seq : RowOK(s)

IInv == TypeOK /\ LockOK /\ ChainOK /\ AssuredIsRecorded

-----------------------------------------------------------------------------
\* The invariant holds of the empty log.
LEMMA InitIInv == Init => IInv
<1> SUFFICES ASSUME Init PROVE IInv
    OBVIOUS
<1> USE AuditNoneAssumption, MaxSeqAssumption
<1>1. TypeOK
  <2>1. NoWriter \in [pc : {"idle", "begin", "insert", "advance", "commit"},
                      ev : Event \cup {None}, metadata : Metadata,
                      mandatory : BOOLEAN, tip : {NoWriter.tip}]
      BY DEF NoWriter
  <2>2. \A w \in Writer : wr[w] = NoWriter
      BY DEF Init
  <2>3. wr \in [Writer -> [pc : {"idle", "begin", "insert", "advance", "commit"},
                          ev : Event \cup {None}, metadata : Metadata,
                          mandatory : BOOLEAN, tip : {wr[w].tip : w \in Writer}]]
      BY <2>1, <2>2 DEF Init
  <2>4. NoWriter.tip.seq = 0 /\ NoWriter.pc = "idle"
      BY DEF NoWriter
  <2> QED
      BY <2>2, <2>3, <2>4 DEF Init, TypeOK
<1>2. LockOK
    BY DEF Init, LockOK, Held, NoWriter
<1>3. ChainOK
    BY DEF Init, ChainOK
<1>4. AssuredIsRecorded
    BY DEF Init, AssuredIsRecorded
<1> QED
    BY <1>1, <1>2, <1>3, <1>4 DEF IInv

\* A step that leaves the tables alone and moves one writer w, which afterwards
\* holds nothing it did not hold rightly, keeps the invariant.
LEMMA QuietStep ==
    ASSUME IInv, NEW w \in Writer, NEW new,
           new \in [pc : {"idle", "begin", "insert", "advance", "commit"},
                    ev : Event \cup {None}, metadata : Metadata,
                    mandatory : BOOLEAN, tip : {new.tip}],
           new.tip.seq \in 0..MaxSeq,
           new.pc # "idle" => new.ev \in Event,
           wr' = [wr EXCEPT ![w] = new],
           UNCHANGED <<backend, log, tip, assured, harm>>,
           lock' \in Writer \cup {None},
           \A v \in Writer \ {w} : lock = v => lock' = v,
           Held(w)' => /\ lock' = w
                       /\ new.tip = tip
                       /\ new.pc \in {"advance", "commit"} =>
                             tip.seq + 1 <= MaxSeq /\ tip.seq + 1 \notin DOMAIN log
    PROVE  IInv'
<1>1. /\ wr'[w] = new
      /\ \A v \in Writer \ {w} : wr'[v] = wr[v]
      /\ DOMAIN wr' = Writer
      /\ wr' = [v \in Writer |-> wr'[v]]
    BY DEF IInv, TypeOK
<1>2. TypeOK'
  <2>1. \A v \in Writer : /\ wr'[v].tip.seq \in 0..MaxSeq
                          /\ wr'[v].pc # "idle" => wr'[v].ev \in Event
      BY <1>1 DEF IInv, TypeOK
  <2>2. ASSUME NEW v \in Writer
        PROVE  wr'[v] \in [pc : {"idle", "begin", "insert", "advance", "commit"},
                          ev : Event \cup {None}, metadata : Metadata,
                          mandatory : BOOLEAN, tip : {wr'[x].tip : x \in Writer}]
    <3>1. CASE v = w
        BY <1>1, <3>1
    <3>2. CASE v # w
        BY <1>1, <3>2 DEF IInv, TypeOK
    <3> QED
        BY <3>1, <3>2
  <2> QED
      BY <1>1, <2>1, <2>2 DEF IInv, TypeOK
<1>3. LockOK'
  <2> SUFFICES ASSUME NEW v \in Writer, Held(v)'
               PROVE  /\ lock' = v
                      /\ wr'[v].tip = tip'
                      /\ wr'[v].pc \in {"advance", "commit"} =>
                            tip'.seq + 1 <= MaxSeq /\ tip'.seq + 1 \notin DOMAIN log'
      BY DEF LockOK
  <2>1. CASE v = w
      BY <2>1, <1>1
  <2>2. CASE v # w
    <3>1. Held(v)
        BY <2>2, <1>1 DEF Held
    <3> QED
        BY <3>1, <2>2, <1>1 DEF IInv, LockOK
  <2> QED
      BY <2>1, <2>2
<1>4. ChainOK'
    BY DEF IInv, ChainOK, Untouched, RowOK
<1>5. AssuredIsRecorded'
    BY DEF IInv, AssuredIsRecorded, Untouched
<1> QED
    BY <1>2, <1>3, <1>4, <1>5 DEF IInv

\* Rolling a transaction back keeps the invariant.
LEMMA RollBackStep ==
    ASSUME IInv, NEW w \in Writer, RollBack(w)
    PROVE  IInv'
<1>1. NoWriter \in [pc : {"idle", "begin", "insert", "advance", "commit"},
                    ev : Event \cup {None}, metadata : Metadata,
                    mandatory : BOOLEAN, tip : {NoWriter.tip}]
    BY AuditNoneAssumption DEF NoWriter
<1>2. NoWriter.tip.seq \in 0..MaxSeq /\ NoWriter.pc = "idle"
    BY MaxSeqAssumption DEF NoWriter
<1>3. ~Held(w)'
  <2>1. wr'[w].pc = "idle"
      BY DEF RollBack, NoWriter, IInv, TypeOK
  <2> QED
      BY <2>1 DEF Held
<1>4. /\ wr' = [wr EXCEPT ![w] = NoWriter]
      /\ UNCHANGED <<backend, log, tip, assured, harm>>
      /\ lock' \in Writer \cup {None}
      /\ \A v \in Writer \ {w} : lock = v => lock' = v
    BY DEF RollBack, IInv, TypeOK
<1> QED
    BY <1>1, <1>2, <1>3, <1>4, QuietStep

\* A committing transaction extends an untouched log by one row.
LEMMA CommitStep ==
    ASSUME IInv, NEW w \in Writer, NEW answered \in BOOLEAN, Commit(w, answered)
    PROVE  IInv'
<1> DEFINE seq == tip.seq + 1
           row == NewRow(w)
<1> USE MaxSeqAssumption
<1>1. /\ lock = w
      /\ wr[w].tip = tip
      /\ seq <= MaxSeq
      /\ seq \notin DOMAIN log
      /\ tip.seq \in Nat
    BY DEF Commit, At, IInv, LockOK, Held, TypeOK
<1>2. /\ log' = [s \in DOMAIN log \cup {seq} |-> IF s = seq THEN row ELSE log[s]]
      /\ tip' = [seq |-> seq, hash |-> row.hash]
      /\ lock' = None
      /\ wr' = [wr EXCEPT ![w] = NoWriter]
      /\ UNCHANGED <<backend, harm>>
    BY <1>1, Zenon DEF Commit
<1>3. /\ row.previous = tip.hash
      /\ row.ev = wr[w].ev
      /\ row.metadata = wr[w].metadata
      /\ row.hash = sha256_hex(row.previous, row.ev, row.metadata)
      /\ row.metadata \in Metadata
    BY <1>1 DEF NewRow, IInv, TypeOK
<1> HIDE DEF row
<1>4. /\ DOMAIN log' = DOMAIN log \cup {seq}
      /\ log'[seq] = row
      /\ \A s \in DOMAIN log : log'[s] = log[s]
      /\ tip'.seq = seq
      /\ tip'.hash = row.hash
    BY <1>1, <1>2
<1>5. /\ wr'[w] = NoWriter
      /\ \A v \in Writer \ {w} : wr'[v] = wr[v]
      /\ wr' = [v \in Writer |-> wr'[v]]
    BY <1>2 DEF IInv, TypeOK
<1>6. TypeOK'
  <2>1. NoWriter \in [pc : {"idle", "begin", "insert", "advance", "commit"},
                      ev : Event \cup {None}, metadata : Metadata,
                      mandatory : BOOLEAN, tip : {NoWriter.tip}]
      BY AuditNoneAssumption DEF NoWriter
  <2>2. NoWriter.tip.seq = 0 /\ NoWriter.pc = "idle"
      BY DEF NoWriter
  <2>3. ASSUME NEW v \in Writer
        PROVE  wr'[v] \in [pc : {"idle", "begin", "insert", "advance", "commit"},
                          ev : Event \cup {None}, metadata : Metadata,
                          mandatory : BOOLEAN, tip : {wr'[x].tip : x \in Writer}]
    <3>1. CASE v = w
        BY <1>5, <2>1, <3>1
    <3>2. CASE v # w
        BY <1>5, <3>2 DEF IInv, TypeOK
    <3> QED
        BY <3>1, <3>2
  <2>4. \A v \in Writer : /\ wr'[v].tip.seq \in 0..MaxSeq
                          /\ wr'[v].pc # "idle" => wr'[v].ev \in Event
    <3>1. 0 \in 0..MaxSeq
        OBVIOUS
    <3>2. \A v \in Writer \ {w} : /\ wr'[v].tip.seq \in 0..MaxSeq
                                  /\ wr'[v].pc # "idle" => wr'[v].ev \in Event
        BY <1>5 DEF IInv, TypeOK
    <3>3. /\ wr'[w].tip.seq \in 0..MaxSeq
          /\ wr'[w].pc # "idle" => wr'[w].ev \in Event
        BY <1>5, <2>2, <3>1
    <3>4. ASSUME NEW v \in Writer
          PROVE  /\ wr'[v].tip.seq \in 0..MaxSeq
                 /\ wr'[v].pc # "idle" => wr'[v].ev \in Event
      <4>1. CASE v = w
          BY <3>3, <4>1
      <4>2. CASE v # w
          BY <3>2, <4>2
      <4> QED
          BY <4>1, <4>2
    <3> QED
        BY <3>4
  <2>5. assured' \subseteq Event
    <3>1. wr[w].ev \in Event
        BY DEF Commit, At, IInv, TypeOK
    <3>2. assured \subseteq Event
        BY DEF IInv, TypeOK
    <3>3. assured' \subseteq assured \cup {wr[w].ev}
        BY DEF Commit
    <3> QED
        BY <3>1, <3>2, <3>3
  <2>6. DOMAIN log' \subseteq 1..MaxSeq /\ tip'.seq \in 0..MaxSeq
      BY <1>1, <1>4 DEF IInv, TypeOK
  <2> QED
      BY <1>2, <1>5, <2>3, <2>4, <2>5, <2>6 DEF IInv, TypeOK
<1>7. LockOK'
  <2> SUFFICES ASSUME NEW v \in Writer PROVE ~Held(v)'
      BY DEF LockOK
  <2>1. CASE v = w
      BY <2>1, <1>5 DEF Held, NoWriter
  <2>2. CASE v # w
      BY <2>2, <1>1, <1>2, <1>5 DEF Held, IInv, LockOK
  <2> QED
      BY <2>1, <2>2
<1>8. ChainOK'
  <2> SUFFICES ASSUME Untouched
               PROVE  /\ DOMAIN log' = 1..tip'.seq
                      /\ tip'.hash = IF tip'.seq = 0 THEN GENESIS_HASH
                                     ELSE log'[tip'.seq].hash
                      /\ \A s \in 1..tip'.seq : RowOK(s)'
      BY <1>2 DEF ChainOK, Untouched
  <2>1. /\ DOMAIN log = 1..tip.seq
        /\ tip.hash = IF tip.seq = 0 THEN GENESIS_HASH ELSE log[tip.seq].hash
        /\ \A s \in 1..tip.seq : RowOK(s)
      BY DEF IInv, ChainOK
  <2>2. DOMAIN log' = 1..tip'.seq
      BY <1>1, <1>4, <2>1
  <2>3. ASSUME NEW s \in 1..seq PROVE RowOK(s)'
    <3>1. CASE s = seq
      <4>1. log'[s].previous = IF s = 1 THEN GENESIS_HASH ELSE log'[s - 1].hash
          BY <1>1, <1>3, <1>4, <2>1, <3>1
      <4> QED
          BY <4>1, <1>3, <1>4, <3>1 DEF RowOK
    <3>2. CASE s # seq
      <4>1. s \in 1..tip.seq /\ (s # 1 => s - 1 \in 1..tip.seq)
          BY <1>1, <3>2
      <4>2. log'[s] = log[s] /\ (s # 1 => log'[s - 1] = log[s - 1])
          BY <4>1, <1>4, <2>1
      <4> QED
          BY <4>1, <4>2, <2>1 DEF RowOK
    <3> QED
        BY <3>1, <3>2
  <2> QED
      BY <1>1, <1>4, <2>2, <2>3
<1>9. AssuredIsRecorded'
  <2> SUFFICES ASSUME Untouched, NEW e \in assured'
               PROVE  \E s \in DOMAIN log' : log'[s].ev = e
      BY <1>2 DEF AssuredIsRecorded, Untouched
  <2>1. e \in assured \/ e = wr[w].ev
      BY DEF Commit
  <2>2. CASE e \in assured
      BY <2>2, <1>4 DEF IInv, AssuredIsRecorded
  <2>3. CASE e = wr[w].ev
      BY <2>3, <1>3, <1>4
  <2> QED
      BY <2>1, <2>2, <2>3
<1> QED
    BY <1>6, <1>7, <1>8, <1>9 DEF IInv

\* Losing or altering rows touches no lock and no writer, and ends the claims
\* made for an untouched log.
LEMMA DamageStep ==
    ASSUME IInv, NEW s \in DOMAIN log, LoseRow(s) \/ AlterRow(s)
    PROVE  IInv'
<1>1. /\ UNCHANGED <<backend, tip, lock, wr, assured>>
      /\ DOMAIN log' \subseteq DOMAIN log
    BY DEF LoseRow, AlterRow
<1>2. /\ s \in harm'.lost \cup harm'.altered
      /\ harm' \in [lost : SUBSET (1..MaxSeq), altered : SUBSET (1..MaxSeq)]
    BY DEF LoseRow, AlterRow, IInv, TypeOK
<1>5. ~Untouched'
    BY <1>2 DEF Untouched
<1>3. TypeOK'
    BY <1>1, <1>2 DEF IInv, TypeOK
<1>4. LockOK'
    BY <1>1 DEF IInv, LockOK, Held
<1> QED
    BY <1>5, <1>3, <1>4 DEF IInv, ChainOK, AssuredIsRecorded

\* Every step keeps the invariant.
LEMMA NextIInv == IInv /\ [Next]_vars => IInv'
<1> SUFFICES ASSUME IInv, [Next]_vars PROVE IInv'
    OBVIOUS
<1> USE MaxSeqAssumption
<1>1. ASSUME NEW w \in Writer, NEW e \in Event, NEW m \in Metadata,
             NEW mandatory \in BOOLEAN, Record(w, e, m, mandatory)
      PROVE  IInv'
  <2> DEFINE new == [pc |-> "begin", ev |-> e, metadata |-> m,
                     mandatory |-> mandatory, tip |-> NoWriter.tip]
  <2>2. /\ wr' = [wr EXCEPT ![w] = new]
        /\ UNCHANGED <<backend, log, tip, assured, harm>>
        /\ lock' = lock
      BY <1>1 DEF Record
  <2>3. /\ new \in [pc : {"idle", "begin", "insert", "advance", "commit"},
                     ev : Event \cup {None}, metadata : Metadata,
                     mandatory : BOOLEAN, tip : {new.tip}]
        /\ new.tip.seq \in 0..MaxSeq
        /\ new.ev \in Event
        /\ new.pc = "begin"
      BY DEF NoWriter
  <2> HIDE DEF new
  <2>4. ~Held(w)'
      BY <2>2, <2>3 DEF Held, IInv, TypeOK
  <2>5. lock' \in Writer \cup {None}
      BY <2>2 DEF IInv, TypeOK
  <2> QED
      BY <2>2, <2>3, <2>4, <2>5, QuietStep
<1>2. ASSUME NEW w \in Writer, Begin(w)
      PROVE  IInv'
  <2> DEFINE new == [wr[w] EXCEPT !.pc = "insert", !.tip = tip]
  <2>1. /\ wr' = [wr EXCEPT ![w] = new]
        /\ UNCHANGED <<backend, log, tip, assured, harm>>
        /\ IF backend = "postgres" THEN lock = None /\ lock' = w ELSE lock' = lock
        /\ wr[w].pc = "begin"
      BY <1>2 DEF Begin, At, IInv, TypeOK
  <2>2. /\ new \in [pc : {"idle", "begin", "insert", "advance", "commit"},
                     ev : Event \cup {None}, metadata : Metadata,
                     mandatory : BOOLEAN, tip : {new.tip}]
        /\ new.tip = tip
        /\ new.tip.seq \in 0..MaxSeq
        /\ new.ev \in Event
        /\ new.pc = "insert"
      BY <2>1 DEF IInv, TypeOK
  <2> HIDE DEF new
  <2>3. lock' \in Writer \cup {None}
      BY <2>1 DEF IInv, TypeOK
  <2>4. Held(w)' => lock' = w
      BY <2>1, <2>2 DEF Held, IInv, TypeOK
  <2>5. \A v \in Writer \ {w} : lock = v => lock' = v
      BY <2>1, AuditNoneAssumption
  <2> QED
      BY <2>1, <2>2, <2>3, <2>4, <2>5, QuietStep
<1>3. ASSUME NEW w \in Writer, InsertRow(w)
      PROVE  IInv'
  <2> DEFINE new == [wr[w] EXCEPT !.pc = "advance"]
  <2>1. CASE RollBack(w)
      BY <2>1, RollBackStep
  <2>2. CASE ~RollBack(w)
    <3>1. /\ wr' = [wr EXCEPT ![w] = new]
          /\ UNCHANGED <<backend, log, tip, assured, harm>>
          /\ lock \in {None, w}
          /\ lock' = w
          /\ wr[w].pc = "insert"
          /\ ~(backend = "sqlite" /\ wr[w].tip # tip)
          /\ wr[w].tip.seq + 1 <= MaxSeq
          /\ wr[w].tip.seq + 1 \notin DOMAIN log
        BY <1>3, <2>2 DEF InsertRow, At, Goto, IInv, TypeOK
    <3>2. wr[w].tip = tip
      <4>1. backend \in {"postgres", "sqlite"}
          BY BackendsAssumption DEF IInv, TypeOK
      <4> QED
          BY <4>1, <3>1 DEF IInv, LockOK, Held
    <3>3. /\ new \in [pc : {"idle", "begin", "insert", "advance", "commit"},
                       ev : Event \cup {None}, metadata : Metadata,
                       mandatory : BOOLEAN, tip : {new.tip}]
          /\ new.tip = tip
          /\ new.tip.seq \in 0..MaxSeq
          /\ new.ev \in Event
        BY <3>1, <3>2 DEF IInv, TypeOK
    <3> HIDE DEF new
    <3>4. \A v \in Writer \ {w} : lock = v => lock' = v
        BY <3>1, AuditNoneAssumption
    <3> QED
        BY <3>1, <3>2, <3>3, <3>4, QuietStep
  <2> QED
      BY <2>1, <2>2
<1>4. ASSUME NEW w \in Writer, AdvanceTip(w)
      PROVE  IInv'
  <2> DEFINE new == [wr[w] EXCEPT !.pc = "commit"]
  <2>1. /\ wr' = [wr EXCEPT ![w] = new]
        /\ UNCHANGED <<backend, log, tip, lock, assured, harm>>
        /\ wr[w].pc = "advance"
      BY <1>4 DEF AdvanceTip, At, Goto, IInv, TypeOK
  <2>2. /\ lock = w
        /\ wr[w].tip = tip
        /\ tip.seq + 1 <= MaxSeq
        /\ tip.seq + 1 \notin DOMAIN log
      BY <2>1 DEF IInv, LockOK, Held
  <2>3. /\ new \in [pc : {"idle", "begin", "insert", "advance", "commit"},
                     ev : Event \cup {None}, metadata : Metadata,
                     mandatory : BOOLEAN, tip : {new.tip}]
        /\ new.tip = tip
        /\ new.tip.seq \in 0..MaxSeq
        /\ new.ev \in Event
      BY <2>1, <2>2 DEF IInv, TypeOK
  <2> HIDE DEF new
  <2> QED
      BY <2>1, <2>2, <2>3, QuietStep
<1>5. ASSUME NEW w \in Writer, Fail(w) \/ Abort(w)
      PROVE  IInv'
    BY <1>5, RollBackStep DEF Fail, Abort
<1>6. CASE UNCHANGED vars
    BY <1>6 DEF vars, IInv, TypeOK, LockOK, Held, ChainOK, RowOK, Untouched,
                AssuredIsRecorded
<1> QED
    BY <1>1, <1>2, <1>3, <1>4, <1>5, <1>6, CommitStep, DamageStep DEF Next

-----------------------------------------------------------------------------
\* For any number of handlers, either database and any faults, the invariant
\* holds throughout.
THEOREM ChainInvariance == Spec => []IInv
    BY InitIInv, NextIInv, PTL DEF Spec

\* Every variable of the audit log keeps its type; a handler that is recording
\* has an event to record.
THEOREM AuditTypeCorrect == Spec => []TypeOK
<1>1. IInv => TypeOK
    BY DEF IInv
<1> QED
    BY <1>1, ChainInvariance, PTL

\* An operation reported as successful by save_mandatory is in the log.
THEOREM MandatoryRecorded == Spec => []AssuredIsRecorded
<1>1. IInv => AssuredIsRecorded
    BY DEF IInv
<1> QED
    BY <1>1, ChainInvariance, PTL

\* Provided metadata reads back as it was written, which it does on sqlite and
\* where there is none, verify_chain never reports a row of a log that only
\* insert_audit_event has written, however the writers interleave and fail.
THEOREM UntouchedVerifies ==
    ASSUME "postgres" \notin Backends \/ Metadata = {None}
    PROVE  Spec => []UntouchedLogVerifies
<1>1. ASSUME IInv PROVE UntouchedLogVerifies
  <2> SUFFICES ASSUME Untouched
               PROVE  /\ verify_chain = {}
                      /\ DOMAIN log = 1..tip.seq
                      /\ tip.hash = IF tip.seq = 0 THEN GENESIS_HASH
                                    ELSE log[tip.seq].hash
      BY DEF UntouchedLogVerifies
  <2>1. /\ DOMAIN log = 1..tip.seq
        /\ tip.hash = IF tip.seq = 0 THEN GENESIS_HASH ELSE log[tip.seq].hash
        /\ \A s \in 1..tip.seq : RowOK(s)
        /\ tip.seq \in Nat
      BY <1>1, MaxSeqAssumption DEF IInv, ChainOK, TypeOK
  <2>2. ASSUME NEW s \in 1..tip.seq PROVE Linked(s) /\ Reproduced(s)
    <3>1. RowOK(s)
        BY <2>1
    <3>2. Before(s) = 1..(s - 1)
        BY <2>1 DEF Before
    <3>3. Linked(s)
      <4>1. CASE s = 1
          BY <4>1, <3>1, <3>2 DEF Linked, ExpectedPrevious, RowOK
      <4>2. CASE s # 1
        <5>1. s - 1 \in Before(s) /\ \A p \in Before(s) : p <= s - 1
            BY <4>2, <3>2, <2>1
        <5>2. \A q \in Before(s) : (\A p \in Before(s) : p <= q) => q = s - 1
            BY <5>1, <3>2, <2>1
        <5>3. (CHOOSE q \in Before(s) : \A p \in Before(s) : p <= q) = s - 1
            BY <5>1, <5>2
        <5> QED
            BY <5>1, <5>3, <4>2, <3>1 DEF Linked, ExpectedPrevious, RowOK
      <4> QED
          BY <4>1, <4>2
    <3>4. StoredText(log[s].metadata) = log[s].metadata
        BY <3>1, <1>1 DEF StoredText, RowOK, IInv, TypeOK
    <3> QED
        BY <3>1, <3>3, <3>4 DEF Reproduced, RowOK
  <2> QED
      BY <2>1, <2>2 DEF verify_chain
<1> QED
    BY <1>1, ChainInvariance, PTL

-----------------------------------------------------------------------------
\* Damage.  That it shows needs more than the links of an untouched log: the
\* hash that a row names must not be the hash of any row but the one before it.
\* Hashes are told apart by the events in them, so the invariant is about those.

\* No two handlers record one event, and none records one that a row was written for.
NamesDiffer ==
    /\ \A v, w \in Writer : v # w /\ wr[v].ev = wr[w].ev => wr[v].ev = None
    /\ \A w \in Writer, s \in DOMAIN log :
           wr[w].ev = EventOf(log[s].hash) => wr[w].ev = None

\* What a row has kept of the event it was written for.
RowKept(s) ==
    /\ DOMAIN log[s] = {"ev", "metadata", "previous", "hash"}
    /\ \E e \in Event, m \in Metadata :
          /\ log[s].hash = sha256_hex(log[s].previous, e, m)
          /\ s \notin harm.altered => log[s].ev = e /\ log[s].metadata = m
    /\ s \in harm.altered => log[s].ev = None

\* What a row or the tip names is the hash of the row before it, and of no other.
NamesBefore(previous, s) ==
    /\ previous = GENESIS_HASH <=> s = 1
    /\ \A p \in DOMAIN log : p < s => (previous = log[p].hash <=> p + 1 = s)

\* Every row that was written is there or lost.
DamageInv ==
    /\ harm.lost \cup DOMAIN log = 1..tip.seq
    /\ harm.altered \subseteq 1..tip.seq
    /\ harm.lost \cap DOMAIN log = {}
    /\ \A s \in DOMAIN log : RowKept(s) /\ NamesBefore(log[s].previous, s)
    /\ NamesBefore(tip.hash, tip.seq + 1)
    /\ NamesDiffer

\* A non-empty set of natural numbers has a least element.
LEMMA LeastNatural ==
    ASSUME NEW S \in SUBSET Nat, S # {}
    PROVE  \E m \in S : \A k \in S : m <= k
<1> DEFINE R == {ss \in Nat \X Nat : ss[1] < ss[2]}
<1>1. IsWellFoundedOn(R, Nat)
    BY NatLessThanWellFounded DEF OpToRel
<1> HIDE DEF R
<1>2. PICK m \in S : \A k \in S : ~(<<k, m>> \in R)
    BY <1>1, WFMin
<1>3. \A k \in S : ~(k < m)
    BY <1>2 DEF R
<1> QED
    BY <1>3

\* A non-empty set of natural numbers with an upper bound has a greatest element.
LEMMA GreatestNatural ==
    ASSUME NEW n \in Nat, NEW S \in SUBSET (0..n), S # {}
    PROVE  \E m \in S : \A k \in S : k <= m
<1> DEFINE T == {n - k : k \in S}
<1>1. T \in SUBSET Nat /\ T # {}
  <2>1. \A k \in S : n - k \in Nat
      OBVIOUS
  <2> QED
      BY <2>1
<1>2. PICK m \in T : \A k \in T : m <= k
    BY <1>1, LeastNatural
<1>3. PICK j \in S : m = n - j
    OBVIOUS
<1>4. \A k \in S : n - k \in T
    OBVIOUS
<1>5. \A k \in S : n - j <= n - k
    BY <1>2, <1>3, <1>4
<1>6. \A k \in S : k <= j
    BY <1>5
<1> QED
    BY <1>6

\* Equal hashes have equal events in them, and none is the genesis hash.
LEMMA HashOfEvent ==
    ASSUME NEW h, NEW e, NEW m, NEW g, NEW f, NEW n
    PROVE  /\ sha256_hex(h, e, m) = sha256_hex(g, f, n) => e = f
           /\ sha256_hex(h, e, m) # GENESIS_HASH
           /\ EventOf(sha256_hex(h, e, m)) = e
<1>1. sha256_hex(h, e, m)[2] = e /\ sha256_hex(g, f, n)[2] = f
    BY DEF sha256_hex
<1>2. sha256_hex(h, e, m) # GENESIS_HASH
    BY DEF sha256_hex, GENESIS_HASH
<1> QED
    BY <1>1, <1>2 DEF EventOf

LEMMA InitDamage == Init => DamageInv
    BY DEF Init, DamageInv, NamesDiffer, NamesBefore, RowKept, NoWriter

\* A step that touches neither table keeps the invariant, if the names of events
\* that the handlers hold still differ.
LEMMA QuietDamage ==
    ASSUME DamageInv, UNCHANGED <<log, tip, harm>>, NamesDiffer'
    PROVE  DamageInv'
    BY DEF DamageInv, NamesBefore, RowKept

\* A handler that keeps its event, or forgets it, brings no name in.
LEMMA NamesKept ==
    ASSUME NamesDiffer, UNCHANGED log,
           \A w \in Writer : wr'[w].ev \in {wr[w].ev, None}
    PROVE  NamesDiffer'
    BY DEF NamesDiffer

\* The committed row is told from every other by its event.
LEMMA CommitDamage ==
    ASSUME IInv, DamageInv, NEW w \in Writer, NEW answered \in BOOLEAN,
           Commit(w, answered)
    PROVE  DamageInv'
<1> DEFINE seq == tip.seq + 1
           row == NewRow(w)
<1> USE MaxSeqAssumption, AuditNoneAssumption
<1>1. /\ wr[w].tip = tip
      /\ wr[w].ev \in Event
      /\ tip.seq \in Nat
    BY DEF Commit, At, IInv, LockOK, Held, TypeOK
<1>2. /\ log' = [s \in DOMAIN log \cup {seq} |-> IF s = seq THEN row ELSE log[s]]
      /\ tip' = [seq |-> seq, hash |-> row.hash]
      /\ wr' = [wr EXCEPT ![w] = NoWriter]
      /\ harm' = harm
    BY <1>1, Zenon DEF Commit
<1>3. /\ row.previous = tip.hash
      /\ row.ev = wr[w].ev
      /\ row.hash = sha256_hex(row.previous, row.ev, row.metadata)
    BY <1>1 DEF NewRow
<1> HIDE DEF row
<1>4. /\ harm.lost \cup DOMAIN log = 1..tip.seq
      /\ harm.altered \subseteq 1..tip.seq
    BY DEF DamageInv
<1>5. /\ DOMAIN log' = DOMAIN log \cup {seq}
      /\ seq \notin DOMAIN log \cup harm.lost \cup harm.altered
      /\ log'[seq] = row
      /\ \A s \in DOMAIN log : log'[s] = log[s] /\ s < seq
      /\ tip'.seq = seq
      /\ tip'.hash = row.hash
    BY <1>1, <1>2, <1>4
<1>6. /\ wr'[w] = NoWriter
      /\ \A v \in Writer \ {w} : wr'[v] = wr[v]
    BY <1>2 DEF IInv, TypeOK
<1>7. EventOf(row.hash) = wr[w].ev /\ row.hash # GENESIS_HASH
    BY <1>3, HashOfEvent
<1>8. \A p \in DOMAIN log : EventOf(log[p].hash) # wr[w].ev
    BY <1>1 DEF DamageInv, NamesDiffer
<1>9. ASSUME NEW s \in DOMAIN log'
      PROVE  RowKept(s)' /\ NamesBefore(log[s].previous, s)'
  <2>1. CASE s = seq
    <3>1. DOMAIN row = {"ev", "metadata", "previous", "hash"} /\ row.metadata \in Metadata
        BY DEF row, NewRow, IInv, TypeOK
    <3>2. RowKept(s)'
        BY <2>1, <3>1, <1>1, <1>2, <1>3, <1>5 DEF RowKept
    <3>3. NamesBefore(tip.hash, seq)
        BY DEF DamageInv
    <3> QED
        BY <2>1, <3>2, <3>3, <1>1, <1>3, <1>5 DEF NamesBefore
  <2>2. CASE s \in DOMAIN log
    <3>1. /\ RowKept(s) /\ NamesBefore(log[s].previous, s) /\ log'[s] = log[s]
          /\ s < seq
        BY <2>2, <1>5 DEF DamageInv
    <3>2. RowKept(s)'
        BY <3>1, <1>2 DEF RowKept
    <3> QED
        BY <3>1, <3>2, <1>1, <1>4, <1>5 DEF NamesBefore
  <2> QED
      BY <2>1, <2>2, <1>5
<1>10. NamesDiffer'
  <2>1. wr'[w].ev = None
      BY <1>6 DEF NoWriter
  <2>2. \A v, x \in Writer : v # x /\ wr'[v].ev = wr'[x].ev => wr'[v].ev = None
      BY <1>6, <2>1 DEF DamageInv, NamesDiffer
  <2>3. ASSUME NEW v \in Writer, NEW s \in DOMAIN log',
               wr'[v].ev = EventOf(log'[s].hash)
        PROVE  wr'[v].ev = None
    <3>1. CASE v = w
        BY <3>1, <2>1
    <3>2. CASE v # w /\ s = seq
        BY <3>2, <2>3, <1>5, <1>6, <1>7 DEF DamageInv, NamesDiffer
    <3>3. CASE v # w /\ s # seq
        BY <3>3, <2>3, <1>5, <1>6 DEF DamageInv, NamesDiffer
    <3> QED
        BY <3>1, <3>2, <3>3
  <2> QED
      BY <2>2, <2>3 DEF NamesDiffer
<1>11. NamesBefore(tip.hash, tip.seq + 1)'
  <2>1. \A p \in DOMAIN log : row.hash # log[p].hash
      BY <1>7, <1>8
  <2> QED
      BY <2>1, <1>1, <1>4, <1>5, <1>7 DEF NamesBefore
<1>12. /\ harm'.lost \cup DOMAIN log' = 1..tip'.seq
       /\ harm'.altered \subseteq 1..tip'.seq
    BY <1>1, <1>2, <1>4, <1>5
<1>13. harm'.lost \cap DOMAIN log' = {}
    BY <1>2, <1>5 DEF DamageInv
<1> QED
    BY <1>9, <1>10, <1>11, <1>12, <1>13 DEF DamageInv

\* A row that is lost leaves nothing to check.
LEMMA LossDamage ==
    ASSUME IInv, DamageInv, NEW s \in DOMAIN log, LoseRow(s)
    PROVE  DamageInv'
<1>1. /\ DOMAIN log' = DOMAIN log \ {s}
      /\ \A q \in DOMAIN log' : log'[q] = log[q]
      /\ UNCHANGED <<tip, wr>>
    BY DEF LoseRow
<1>2. harm'.lost = harm.lost \cup {s} /\ harm'.altered = harm.altered
    BY DEF LoseRow, IInv, TypeOK
<1>3. \A q \in DOMAIN log' : RowKept(q)'
    BY <1>1, <1>2 DEF DamageInv, RowKept
<1>4. NamesDiffer'
    BY <1>1 DEF DamageInv, NamesDiffer
<1>5. /\ \A q \in DOMAIN log' : NamesBefore(log[q].previous, q)'
      /\ NamesBefore(tip.hash, tip.seq + 1)'
    BY <1>1 DEF DamageInv, NamesBefore
<1> QED
    BY <1>1, <1>2, <1>3, <1>4, <1>5 DEF DamageInv

\* A row that is altered keeps the hash of what it said.
LEMMA AlterDamage ==
    ASSUME IInv, DamageInv, NEW s \in DOMAIN log, AlterRow(s)
    PROVE  DamageInv'
<1> USE AuditNoneAssumption
<1>1. /\ DOMAIN log' = DOMAIN log
      /\ \A q \in DOMAIN log \ {s} : log'[q] = log[q]
      /\ UNCHANGED <<tip, wr>>
    BY DEF AlterRow
<1>2. harm'.lost = harm.lost /\ harm'.altered = harm.altered \cup {s}
    BY DEF AlterRow, IInv, TypeOK
<1>3. RowKept(s)
    BY DEF DamageInv
<1>4. /\ log'[s].ev = None
      /\ log'[s].hash = log[s].hash
      /\ log'[s].previous = log[s].previous
      /\ DOMAIN log'[s] = DOMAIN log[s]
    BY <1>3 DEF AlterRow, RowKept
<1>6. \A q \in DOMAIN log' : RowKept(q)'
  <2> SUFFICES ASSUME NEW q \in DOMAIN log' PROVE RowKept(q)'
      OBVIOUS
  <2>1. CASE q = s
      BY <2>1, <1>2, <1>3, <1>4 DEF RowKept
  <2>2. CASE q # s
      BY <2>2, <1>1, <1>2 DEF DamageInv, RowKept
  <2> QED
      BY <2>1, <2>2
<1>7. NamesDiffer'
    BY <1>1, <1>4 DEF DamageInv, NamesDiffer
<1>8. /\ \A q \in DOMAIN log' : NamesBefore(log[q].previous, q)'
      /\ NamesBefore(tip.hash, tip.seq + 1)'
    BY <1>1, <1>4 DEF DamageInv, NamesBefore
<1> QED
    BY <1>1, <1>2, <1>6, <1>7, <1>8 DEF DamageInv

\* Every step keeps the invariant.
LEMMA NextDamage == IInv /\ DamageInv /\ [Next]_vars => DamageInv'
<1> SUFFICES ASSUME IInv, DamageInv, [Next]_vars PROVE DamageInv'
    OBVIOUS
<1>1. ASSUME NEW w \in Writer, NEW e \in Event, NEW m \in Metadata,
             NEW mandatory \in BOOLEAN, Record(w, e, m, mandatory)
      PROVE  DamageInv'
  <2>1. /\ wr'[w].ev = e
        /\ \A v \in Writer \ {w} : wr'[v] = wr[v]
        /\ UNCHANGED <<log, tip, harm>>
      BY <1>1 DEF Record, IInv, TypeOK
  <2>2. /\ \A s \in DOMAIN log : EventOf(log[s].hash) # e
        /\ \A v \in Writer : wr[v].ev # e
      BY <1>1 DEF Record, FreshEvent
  <2>3. NamesDiffer'
      BY <2>1, <2>2 DEF DamageInv, NamesDiffer
  <2> QED
      BY <2>1, <2>3, QuietDamage
<1>2. ASSUME NEW w \in Writer,
             Begin(w) \/ InsertRow(w) \/ AdvanceTip(w) \/ Fail(w) \/ Abort(w)
      PROVE  DamageInv'
  <2>1. /\ UNCHANGED <<log, tip, harm>>
        /\ \/ wr' = [wr EXCEPT ![w].pc = "insert", ![w].tip = tip]
           \/ wr' = [wr EXCEPT ![w].pc = "advance"]
           \/ wr' = [wr EXCEPT ![w].pc = "commit"]
           \/ wr' = [wr EXCEPT ![w] = NoWriter]
      BY <1>2 DEF Begin, InsertRow, AdvanceTip, Fail, Abort, RollBack, Goto
  <2>2. \A v \in Writer : wr'[v].ev \in {wr[v].ev, None}
    <3>1. wr \in [Writer -> [pc : {"idle", "begin", "insert", "advance", "commit"},
                            ev : Event \cup {None}, metadata : Metadata,
                            mandatory : BOOLEAN, tip : {wr[x].tip : x \in Writer}]]
        BY DEF IInv, TypeOK
    <3>2. NoWriter.ev = None
        BY DEF NoWriter
    <3> QED
        BY <2>1, <3>1, <3>2
  <2> QED
      BY <2>1, <2>2, NamesKept, QuietDamage DEF DamageInv
<1>3. CASE UNCHANGED vars
    BY <1>3, NamesKept, QuietDamage DEF vars, DamageInv
<1> QED
    BY <1>1, <1>2, <1>3, CommitDamage, LossDamage, AlterDamage DEF Next

\* The row that verify_chain compares a row's link with.
LEMMA RowBefore ==
    ASSUME IInv, DamageInv, NEW s \in DOMAIN log, Before(s) # {}
    PROVE  \E b \in Before(s) : /\ \A p \in Before(s) : p <= b
                               /\ ExpectedPrevious(s) = log[b].hash
<1>1. DOMAIN log \subseteq 1..tip.seq /\ tip.seq \in Nat
    BY MaxSeqAssumption DEF DamageInv, IInv, TypeOK
<1>2. Before(s) \in SUBSET (0..tip.seq)
    BY <1>1 DEF Before
<1>3. \E b \in Before(s) : \A p \in Before(s) : p <= b
    BY <1>1, <1>2, GreatestNatural
<1> QED
    BY <1>3 DEF ExpectedPrevious

\* Where the invariant holds, the link of a row is found broken exactly if the row
\* before it is lost.
LEMMA BrokenLinks ==
    ASSUME IInv, DamageInv, NEW s \in DOMAIN log
    PROVE  Linked(s) <=> s - 1 \notin harm.lost
<1>1. /\ harm.lost \cup DOMAIN log = 1..tip.seq /\ harm.lost \cap DOMAIN log = {}
      /\ tip.seq \in Nat
      /\ NamesBefore(log[s].previous, s)
    BY MaxSeqAssumption DEF DamageInv, IInv, TypeOK
<1>2. CASE Before(s) = {}
  <2>1. Linked(s) <=> s = 1
      BY <1>1, <1>2 DEF Linked, ExpectedPrevious, NamesBefore
  <2>2. s - 1 \notin DOMAIN log
      BY <1>1, <1>2 DEF Before
  <2> QED
      BY <1>1, <2>1, <2>2
<1>3. CASE Before(s) # {}
  <2>1. PICK b \in Before(s) : /\ \A p \in Before(s) : p <= b
                              /\ ExpectedPrevious(s) = log[b].hash
      BY <1>3, RowBefore
  <2>2. b \in DOMAIN log /\ b < s
      BY DEF Before
  <2>3. Linked(s) <=> b + 1 = s
      BY <1>1, <2>1, <2>2 DEF Linked, NamesBefore
  <2>4. b \in Int /\ s \in Int /\ 1 <= b /\ s - 1 \in 1..tip.seq
      BY <1>1, <2>2
  <2>5. s - 1 \in DOMAIN log => s - 1 <= b
      BY <2>1, <2>4 DEF Before
  <2>6. b + 1 = s <=> s - 1 \in DOMAIN log
      BY <2>2, <2>4, <2>5
  <2> QED
      BY <1>1, <2>3, <2>4, <2>6
<1> QED
    BY <1>2, <1>3

\* An altered row does not reproduce its hash; any other one does if its metadata
\* reads back as it was written.
LEMMA BrokenRows ==
    ASSUME IInv, DamageInv, NEW s \in DOMAIN log
    PROVE  /\ s \in harm.altered => ~Reproduced(s)
           /\ /\ s \notin harm.altered
              /\ StoredText(log[s].metadata) = log[s].metadata
              => Reproduced(s)
<1> USE AuditNoneAssumption
<1>1. PICK e \in Event, m \in Metadata :
         /\ log[s].hash = sha256_hex(log[s].previous, e, m)
         /\ s \notin harm.altered => log[s].ev = e /\ log[s].metadata = m
         /\ s \in harm.altered => log[s].ev = None
    BY DEF DamageInv, RowKept
<1>2. ASSUME s \in harm.altered, Reproduced(s)
      PROVE  FALSE
  <2>1. sha256_hex(log[s].previous, e, m)
          = sha256_hex(log[s].previous, None, StoredText(log[s].metadata))
      BY <1>1, <1>2 DEF Reproduced
  <2>2. e = None
      BY <2>1, HashOfEvent
  <2> QED
      BY <2>2
<1> QED
    BY <1>1, <1>2 DEF Reproduced

\* Where a row was lost and a later one exists, some row comes right after a lost one.
LEMMA LossIsFollowed ==
    ASSUME IInv, DamageInv, NEW s \in harm.lost, NEW l \in DOMAIN log, l > s
    PROVE  Damaged # {}
<1>1. /\ harm.lost \cup DOMAIN log = 1..tip.seq /\ harm.lost \cap DOMAIN log = {}
      /\ tip.seq \in Nat
    BY MaxSeqAssumption DEF DamageInv, IInv, TypeOK
<1> DEFINE Later == {q \in DOMAIN log : q > s}
<1>2. Later \in SUBSET Nat /\ Later # {}
    BY <1>1
<1> HIDE DEF Later
<1>3. PICK q \in Later : \A p \in Later : q <= p
    BY <1>2, LeastNatural
<1>4. q \in DOMAIN log /\ q > s
    BY DEF Later
<1>5. q - 1 \notin DOMAIN log \/ q - 1 = s
    BY <1>1, <1>3, <1>4 DEF Later
<1>6. q - 1 \in harm.lost
    BY <1>1, <1>4, <1>5
<1> QED
    BY <1>4, <1>6 DEF Damaged

LEMMA DamageInvariance == Spec => [](IInv /\ DamageInv)
    BY InitIInv, NextIInv, InitDamage, NextDamage, PTL DEF Spec

\* For any number of handlers and rows lost or altered behind the server's back, at
\* any moment and in any order with further appends, verify_chain reports an altered
\* row for as long as it is there, and a lost one at the row that comes after it.
THEOREM DamageIsSeen == Spec => []DamageShows
<1>1. ASSUME IInv, DamageInv PROVE DamageShows
  <2>1. Damaged \subseteq verify_chain
      BY <1>1, BrokenLinks, BrokenRows DEF Damaged, verify_chain
  <2> QED
      BY <1>1, <2>1, LossIsFollowed DEF DamageShows
<1> QED
    BY <1>1, DamageInvariance, PTL

\* Nor does it blame any other row: where metadata reads back as it was written, the
\* report names the damage and nothing else, whatever was appended before and after.
THEOREM VerdictIsExact ==
    ASSUME "postgres" \notin Backends \/ Metadata = {None}
    PROVE  Spec => [](verify_chain = Damaged)
<1>1. ASSUME IInv, DamageInv PROVE verify_chain = Damaged
  <2>1. ASSUME NEW s \in DOMAIN log, s \notin harm.altered
        PROVE  StoredText(log[s].metadata) = log[s].metadata
    <3>1. log[s].metadata \in Metadata /\ backend \in Backends
        BY <1>1, <2>1 DEF DamageInv, RowKept, IInv, TypeOK
    <3> QED
        BY <3>1 DEF StoredText
  <2> QED
      BY <1>1, <2>1, BrokenLinks, BrokenRows DEF Damaged, verify_chain
<1> QED
    BY <1>1, DamageInvariance, PTL

\* The row lock of audit_chain_state, if anyone has it, is held inside a transaction.
LockIsInUse == lock # None => InTransaction(lock)

\* What freedom from deadlock rests on: the lock is always held by a handler inside
\* its transaction, which has a step to take, and a handler that leaves its
\* transaction, by commit, refusal, failure or being dropped, leaves no lock behind.
THEOREM NobodyWaitsForNothing == Spec => []LockIsInUse
<1> USE AuditNoneAssumption
<1>1. Init => LockIsInUse
    BY DEF Init, LockIsInUse
<1>2. ASSUME IInv, LockIsInUse, [Next]_vars
      PROVE  LockIsInUse'
  <2> SUFFICES ASSUME lock' # None PROVE InTransaction(lock)'
      BY DEF LockIsInUse
  <2>1. ASSUME NEW w \in Writer, RollBack(w)
        PROVE  InTransaction(lock)'
    <3>1. lock' = lock /\ lock # w /\ lock \in Writer
        BY <1>2, <2>1 DEF RollBack, IInv, TypeOK
    <3> QED
        BY <1>2, <2>1, <3>1 DEF RollBack, LockIsInUse, InTransaction, IInv, TypeOK
  <2>2. ASSUME NEW w \in Writer, NEW pc \in {"insert", "advance", "commit"},
               lock' \in {lock, w}, wr'[w].pc = pc,
               \A v \in Writer \ {w} : wr'[v] = wr[v]
        PROVE  InTransaction(lock)'
      BY <1>2, <2>2 DEF LockIsInUse, InTransaction, IInv, TypeOK
  <2>3. ASSUME NEW w \in Writer, NEW e \in Event, NEW m \in Metadata,
               NEW mandatory \in BOOLEAN, Record(w, e, m, mandatory)
        PROVE  InTransaction(lock)'
      BY <1>2, <2>3 DEF Record, At, LockIsInUse, InTransaction, IInv, TypeOK
  <2>4. ASSUME NEW w \in Writer, Begin(w)
        PROVE  InTransaction(lock)'
      BY <1>2, <2>2, <2>4 DEF Begin, IInv, TypeOK
  <2>5. ASSUME NEW w \in Writer, InsertRow(w)
        PROVE  InTransaction(lock)'
      BY <1>2, <2>1, <2>2, <2>5 DEF InsertRow, Goto, IInv, TypeOK
  <2>6. ASSUME NEW w \in Writer, AdvanceTip(w)
        PROVE  InTransaction(lock)'
      BY <1>2, <2>2, <2>6 DEF AdvanceTip, Goto, IInv, TypeOK
  <2>7. CASE UNCHANGED vars \/ \E s \in DOMAIN log : LoseRow(s) \/ AlterRow(s)
      BY <1>2, <2>7 DEF vars, LoseRow, AlterRow, LockIsInUse, InTransaction
  <2>8. \A w \in Writer, answered \in BOOLEAN : ~Commit(w, answered)
      BY DEF Commit
  <2> QED
      BY <1>2, <2>1, <2>3, <2>4, <2>5, <2>6, <2>7, <2>8 DEF Next, Fail, Abort
<1> QED
    BY <1>1, <1>2, ChainInvariance, PTL DEF Spec
=============================================================================
