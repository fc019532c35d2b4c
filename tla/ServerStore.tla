----------------------------- MODULE ServerStore -----------------------------
(***************************************************************************)
(* What the API server, src/server/server.mjs, keeps: the local audit      *)
(* ledger (db.immutableAuditLogs) and the notes of a case, in memory and   *)
(* in one JSON file that every change rewrites whole.  Requests come from  *)
(* the audit logs of pages, from readers of market data and research, and  *)
(* from the case view of pages.  The process can die at any moment, also   *)
(* in the middle of a write, and is started again.                         *)
(*                                                                         *)
(* A handler is cut at its await: an append POST is let in by the limiter, *)
(* then handled when its body is complete; a read asks PostgreSQL first.   *)
(* The case handlers do everything after their await, and are one action.  *)
(***************************************************************************)
EXTENDS RateLimiter, FiniteSets

CONSTANTS
  Posted,    \* the audit records that pages send
  Reading,   \* the reads that the server itself records
  Genesis,   \* 64 zeros
  Page,      \* the open pages
  Note       \* what analysts note on the case

ASSUME StoreAssumption ==
  /\ Posted \cap Reading = {}
  /\ Genesis \notin Posted \cup Reading
  /\ IsFiniteSet(Posted)

VARIABLES
  up,         \* whether the process runs
  ledger,     \* in memory: [id, sequence, previousHash]
  notes,      \* in memory: the notes of the case
  disk,       \* the file
  lastSave,   \* how the last saveDb ended
  faulted,    \* whether any saveDb so far failed or was cut off
  request,    \* how far each append has come
  age,        \* ticks since the limiter let a POST in, in this life of the process
  loaded,     \* the pages that have fetched the cases
  copy        \* the notes in each page's copy of the case

memory == <<ledger, notes>>
file == <<disk, lastSave, faulted>>
pages == <<loaded, copy>>
storeVars == <<up, memory, file, request, age, hits, pages>>

Entry == Posted \cup Reading
Hash == Entry \cup {Genesis}
LedgerRecord == [id : Entry, sequence : Nat, previousHash : Hash]
Stage == {"unsent", "received", "answered", "inPostgres", "refused", "lost"}

Image(l, n) == [state |-> "intact", ledger |-> l, notes |-> n]
Unreadable(why) == [state |-> why, ledger |-> <<>>, notes |-> {}]

\* The ranges of the variables: the file is always one whole image, or absent, or
\* unparsable.
StoreTypeOK ==
  /\ LimiterTypeOK
  /\ up \in BOOLEAN /\ faulted \in BOOLEAN
  /\ ledger \in Seq(LedgerRecord) /\ notes \subseteq Note
  /\ disk \in [state : {"intact", "absent", "torn"}, ledger : Seq(LedgerRecord),
               notes : SUBSET Note]
  /\ lastSave \in {"written", "skipped", "torn"}
  /\ request \in [Entry -> Stage]
  /\ age \in [Posted -> 0..Window]
  /\ loaded \subseteq Page /\ copy \in [Page -> SUBSET Note]

Init ==
  /\ LimiterInit
  /\ up = FALSE /\ ledger = <<>> /\ notes = {}
  /\ disk = Unreadable("absent") /\ lastSave = "written" /\ faulted = FALSE
  /\ request = [e \in Entry |-> "unsent"]
  /\ age = [e \in Posted |-> Window]
  /\ loaded = {} /\ copy = [p \in Page |-> {}]

-----------------------------------------------------------------------------
\* saveDb: writeFileSync truncates the file and writes it.  An error (no space,
\* no permission) is logged and nobody hears of it; it can come before the file
\* is touched or after it was truncated.
SaveDb(l, n) ==
  \/ disk' = Image(l, n) /\ lastSave' = "written" /\ UNCHANGED faulted
  \/ disk' = disk /\ lastSave' = "skipped" /\ faulted' = TRUE
  \/ disk' = Unreadable("torn") /\ lastSave' = "torn" /\ faulted' = TRUE

LastHash == IF ledger = <<>> THEN Genesis ELSE ledger[Len(ledger)].id

\* A slip in reach of this code: { sequence, previousHash, ...entry } lets the
\* page's own previousHash win, that of a page's first record.
NewRecordKeepsLink(e) ==
  [id |-> e, sequence |-> Len(ledger) + 1,
   previousHash |-> IF e \in Posted THEN Genesis ELSE LastHash]

NewRecord(e) == [id |-> e, sequence |-> Len(ledger) + 1, previousHash |-> LastHash]

\* The end of POST /api/v1/audit-log/append, and of appendReadAudit when there
\* is no PostgreSQL or it failed: link, push, save, answer.
AppendAndTrim(e) ==
  /\ up /\ request[e] = "received"
  /\ ledger' = Append(IF Len(ledger) < 2 THEN ledger ELSE Tail(ledger), NewRecord(e))
  /\ SaveDb(ledger', notes)
  /\ request' = [request EXCEPT ![e] = "answered"]
  /\ UNCHANGED <<up, notes, age, hits, pages>>

AppendRecord(e) ==
  /\ up /\ request[e] = "received"
  /\ ledger' = Append(ledger, NewRecord(e))
  /\ SaveDb(ledger', notes)
  /\ request' = [request EXCEPT ![e] = "answered"]
  /\ UNCHANGED <<up, notes, age, hits, pages>>

\* A POST arrives; beyond the limit it is answered 429 and its record dropped.
ReceivePost(e) ==
  /\ up /\ request[e] = "unsent" /\ Allowed
  /\ Hit
  /\ request' = [request EXCEPT ![e] = "received"]
  /\ age' = [age EXCEPT ![e] = 0]
  /\ UNCHANGED <<up, memory, file, pages>>

RefusePost(e) ==
  /\ up /\ request[e] = "unsent" /\ ~Allowed
  /\ request' = [request EXCEPT ![e] = "refused"]
  /\ UNCHANGED <<up, memory, file, age, hits, pages>>

\* A read is let through by its entitlement and awaits PostgreSQL...
BeginRead(e) ==
  /\ up /\ request[e] = "unsent"
  /\ request' = [request EXCEPT ![e] = "received"]
  /\ UNCHANGED <<up, memory, file, age, hits, pages>>

\* ... which records it.
ReadInPostgres(e) ==
  /\ up /\ request[e] = "received"
  /\ request' = [request EXCEPT ![e] = "inPostgres"]
  /\ UNCHANGED <<up, memory, file, age, hits, pages>>

-----------------------------------------------------------------------------
\* A slip in reach of this code: POST /api/cases/:id/notes without saveDb.
AddNoteUnsaved(n) ==
  /\ up /\ n \notin notes
  /\ notes' = notes \cup {n}
  /\ UNCHANGED <<up, ledger, file, request, age, hits, pages>>

\* POST /api/cases/:id/notes.
AddNote(n) ==
  /\ up /\ n \notin notes
  /\ notes' = notes \cup {n}
  /\ SaveDb(ledger, notes')
  /\ UNCHANGED <<up, ledger, request, age, hits, pages>>

\* A page fetches the cases once, when it opens.
LoadCases(p) ==
  /\ up /\ p \notin loaded
  /\ loaded' = loaded \cup {p}
  /\ copy' = [copy EXCEPT ![p] = notes]
  /\ UNCHANGED <<up, memory, file, request, age, hits>>

\* POST /api/cases with a page's whole copy of the case: its fields replace the
\* server's, the notes too when the copy has any field of that name.
SyncCase(p) ==
  /\ up
  /\ notes' = IF p \in loaded THEN copy[p] ELSE notes
  /\ SaveDb(ledger, notes')
  /\ UNCHANGED <<up, ledger, request, age, hits, pages>>

-----------------------------------------------------------------------------
\* The process dies: what was in memory is gone, connections break.
Die ==
  /\ up /\ up' = FALSE
  /\ ledger' = <<>> /\ notes' = {}
  /\ request' = [e \in Entry |-> IF request[e] = "received" THEN "lost" ELSE request[e]]
  /\ age' = [e \in Posted |-> Window]
  /\ ForgetHits
  /\ UNCHANGED pages

Crash == Die /\ UNCHANGED file

CrashInSave ==
  /\ Die
  /\ disk' = Unreadable("torn") /\ lastSave' = "torn" /\ faulted' = TRUE

\* A slip in reach of this code: a start that never looks for the file.
StartFresh ==
  /\ ~up /\ up' = TRUE
  /\ ledger' = <<>> /\ notes' = {}
  /\ SaveDb(<<>>, {})
  /\ UNCHANGED <<request, age, hits, pages>>

\* initDb: a file that parses is taken; without one, or with one that does not
\* parse, the server starts from the initial data and saves that.
Start ==
  /\ ~up /\ up' = TRUE
  /\ ledger' = disk.ledger /\ notes' = disk.notes
  /\ IF disk.state = "intact"
       THEN lastSave' = "written" /\ UNCHANGED <<disk, faulted>>
       ELSE SaveDb(<<>>, {})
  /\ UNCHANGED <<request, age, hits, pages>>

Tick ==
  /\ TickLimiter
  /\ age' = [e \in Posted |-> IF age[e] < Window THEN age[e] + 1 ELSE Window]
  /\ UNCHANGED <<up, memory, file, request, pages>>

Next ==
  \/ \E e \in Posted : ReceivePost(e) \/ RefusePost(e)
  \/ \E e \in Reading : BeginRead(e) \/ ReadInPostgres(e)
  \/ \E e \in Entry : AppendRecord(e)
  \/ \E n \in Note : AddNote(n)
  \/ \E p \in Page : LoadCases(p) \/ SyncCase(p)
  \/ Crash \/ CrashInSave \/ Start \/ Tick

Spec == Init /\ [][Next]_storeVars

-----------------------------------------------------------------------------
Ids(l) == {l[i].id : i \in 1..Len(l)}
Answered == {e \in Entry : request[e] = "answered"}

\* What scripts/verify_audit_integrity.mjs tests, and that the sequence numbers
\* are those of the places.
Intact(l) ==
  \A i \in 1..Len(l) :
    /\ l[i].sequence = i
    /\ l[i].previousHash = IF i = 1 THEN Genesis ELSE l[i - 1].id

\* The verifier never finds a broken chain, neither in memory nor in a file it
\* can read, however appends of pages and of reads interleave and whenever the
\* process dies and comes back.
LedgerIntact == Intact(ledger) /\ Intact(disk.ledger)

\* While the process lives the ledger only grows, one new record at a time:
\* between two crashes it keeps the promise of HashChain.
Chain == INSTANCE HashChain WITH
  chain <- [i \in 1..Len(ledger) |->
              [id |-> ledger[i].id, previousHash |-> ledger[i].previousHash]],
  head <- LastHash

LedgerExtendsWhileUp ==
  [][ up /\ up' /\ ledger' # ledger => \E e \in Entry : Chain!Extend(e) ]_storeVars

\* As long as no save has failed or been cut off, what the server has answered
\* is in the file, and in memory whenever the server is up: crashes between
\* requests lose nothing.
AnsweredSurvives ==
  ~faulted =>
    /\ Answered \subseteq Ids(disk.ledger)
    /\ up => Answered \subseteq Ids(ledger)

\* A save that succeeds makes good the ones that failed before it: the file is
\* then all of what is in memory.
SaveHeals ==
  up /\ lastSave = "written" => disk = Image(ledger, notes)

\* "Using local ACID-compliant storage." (src/db/dbClient.js:36): what was
\* answered stays.  It does not: a write that is cut off leaves a file that the
\* next start replaces by the initial data.
AnsweredIsDurable == up => Answered \subseteq Ids(ledger)

\* The limiter lets no more than Most of the POSTs of one life of the process
\* through in any window.
WindowHolds == Cardinality({e \in Posted : age[e] < Window}) <= Most
=============================================================================
