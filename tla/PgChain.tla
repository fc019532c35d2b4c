------------------------------- MODULE PgChain -------------------------------
(***************************************************************************)
(* append_audit_event in PostgreSQL (migration 002, called by dbClient.js  *)
(* for every read): select the hash of the last row, then insert.  The     *)
(* transactions run under READ COMMITTED and take no lock.  A row's hash   *)
(* is its own, so the row's id stands for it; 0 is the hash of zeros.      *)
(***************************************************************************)
EXTENDS Naturals, FiniteSets, FiniteSetsExt

CONSTANTS
  Writer,       \* connections of the pool
  MaxRows       \* bound: ids taken from the sequence

VARIABLES
  doing,        \* each transaction: "idle", "linked", "inserted"
  link,         \* its v_previous_hash
  row,          \* its id
  rows,         \* what is committed: [id, previous]
  nextId,       \* audit_events_id_seq; an id that is rolled back is not reused
  during,       \* the rows committed by others since each looked for the last
  overlapped    \* the rows whose transaction another one committed in

chainVars == <<doing, link, row, rows, nextId, during, overlapped>>

PgInit ==
  /\ doing = [w \in Writer |-> "idle"]
  /\ link = [w \in Writer |-> 0] /\ row = link
  /\ rows = {} /\ nextId = 1 /\ during = [w \in Writer |-> {}] /\ overlapped = {}

RowIds == {r.id : r \in rows}

\* A slip in reach of this code: the first row instead of the last.
SelectFirst(w) ==
  /\ doing[w] = "idle" /\ doing' = [doing EXCEPT ![w] = "linked"]
  /\ link' = [link EXCEPT ![w] = IF rows = {} THEN 0 ELSE Min(RowIds)]
  /\ during' = [during EXCEPT ![w] = {}]
  /\ UNCHANGED <<row, rows, nextId, overlapped>>

\* ORDER BY id DESC LIMIT 1 of what is committed.
SelectLast(w) ==
  /\ doing[w] = "idle" /\ doing' = [doing EXCEPT ![w] = "linked"]
  /\ link' = [link EXCEPT ![w] = IF rows = {} THEN 0 ELSE Max(RowIds)]
  /\ during' = [during EXCEPT ![w] = {}]
  /\ UNCHANGED <<row, rows, nextId, overlapped>>

Insert(w) ==
  /\ doing[w] = "linked" /\ nextId <= MaxRows /\ doing' = [doing EXCEPT ![w] = "inserted"]
  /\ row' = [row EXCEPT ![w] = nextId] /\ nextId' = nextId + 1
  /\ UNCHANGED <<link, rows, during, overlapped>>

Commit(w) ==
  /\ doing[w] = "inserted" /\ doing' = [doing EXCEPT ![w] = "idle"]
  /\ rows' = rows \cup {[id |-> row[w], previous |-> link[w]]}
  /\ during' = [v \in Writer |-> IF v # w /\ doing[v] # "idle" THEN during[v] \cup {row[w]} ELSE {}]
  /\ overlapped' = IF during[w] = {} THEN overlapped ELSE overlapped \cup {row[w]}
  /\ UNCHANGED <<link, row, nextId>>

\* The connection or the server fails: the read is recorded locally instead
\* (ServerStore.ReadInPostgres).
Rollback(w) ==
  /\ doing[w] # "idle" /\ doing' = [doing EXCEPT ![w] = "idle"]
  /\ UNCHANGED <<link, row, rows, nextId, during, overlapped>>

PgNext == \E w \in Writer : SelectLast(w) \/ Insert(w) \/ Commit(w) \/ Rollback(w)

PgSpec == PgInit /\ [][PgNext]_chainVars

-----------------------------------------------------------------------------
(* Every row names a committed row before it, and the rows whose           *)
(* transactions no other committed in make one chain: such a row follows   *)
(* the latest of them, so only overlapping transactions fork it.           *)
ForksNeedOverlap ==
  /\ \A r \in rows : r.previous < r.id /\ r.previous \in RowIds \cup {0}
  /\ \A r, s \in rows : r # s /\ r.previous = s.previous => {r.id, s.id} \cap overlapped # {}
  /\ \A r, s \in rows : r.id \notin overlapped /\ s.id \notin overlapped /\ s.id < r.id => s.id <= r.previous
=============================================================================
