------------------------- MODULE ServerStoreProofs --------------------------
(***************************************************************************)
(* What the API server's store keeps, for any number of records, reads,    *)
(* pages and notes; and its limiter, for any window and limit.  The ledger *)
(* and the limiter's timestamps play no part in each other's invariants.   *)
(***************************************************************************)
EXTENDS ServerStore, DataLemmas

\* The types that the arguments need.
Types ==
  /\ up \in BOOLEAN /\ faulted \in BOOLEAN
  /\ ledger \in Seq(LedgerRecord) /\ notes \subseteq Note
  /\ disk \in [state : {"intact", "absent", "torn"}, ledger : Seq(LedgerRecord),
               notes : SUBSET Note]
  /\ request \in [Entry -> Stage]
  /\ copy \in [Page -> SUBSET Note]

\* Only what was answered stands in a ledger: a record whose request is still
\* under way is in none.
OnlyAnswered ==
  /\ Ids(ledger) \subseteq Answered
  /\ Ids(disk.ledger) \subseteq Answered

\* A file that does not parse holds nothing, and is what a start from the
\* initial data begins with.
NothingUnreadable ==
  disk.state # "intact" => disk.ledger = <<>> /\ disk.notes = {}

\* Without a fault the file is all of memory while the server is up.
FileIsCurrent ==
  /\ up /\ lastSave = "written" => disk = Image(ledger, notes)
  /\ ~faulted /\ up => lastSave = "written"
  /\ ~faulted => Answered \subseteq Ids(disk.ledger)

StoreInv ==
  /\ Types
  /\ LedgerIntact
  /\ OnlyAnswered
  /\ NothingUnreadable
  /\ FileIsCurrent

-----------------------------------------------------------------------------
\* A record appended to an intact ledger leaves it intact.
LEMMA AppendIntact ==
  ASSUME NEW e \in Entry, ledger \in Seq(LedgerRecord), Intact(ledger)
  PROVE  /\ Append(ledger, NewRecord(e)) \in Seq(LedgerRecord)
         /\ Intact(Append(ledger, NewRecord(e)))
         /\ Ids(Append(ledger, NewRecord(e))) = Ids(ledger) \cup {e}
<1> DEFINE r == NewRecord(e)
           l == Append(ledger, r)
<1>1. LastHash \in Hash
  <2>1. CASE ledger = <<>>
    BY <2>1 DEF LastHash, Hash
  <2>2. CASE ledger # <<>>
    <3>1. ledger[Len(ledger)] \in LedgerRecord
      BY <2>2
    <3> QED BY <3>1, <2>2 DEF LastHash, Hash, LedgerRecord
  <2> QED BY <2>1, <2>2
<1>2. r \in LedgerRecord
  BY <1>1 DEF NewRecord, LedgerRecord
<1>3. l \in Seq(LedgerRecord) /\ Len(l) = Len(ledger) + 1 /\ l[Len(ledger) + 1] = r
  BY <1>2
<1>4. \A i \in 1..Len(ledger) : l[i] = ledger[i]
  BY <1>2
<1> HIDE DEF l
<1>5. ASSUME NEW i \in 1..Len(l)
      PROVE  l[i].sequence = i /\ l[i].previousHash = IF i = 1 THEN Genesis ELSE l[i - 1].id
  <2>1. CASE i \in 1..Len(ledger)
    <3>1. l[i] = ledger[i] /\ (i # 1 => l[i - 1] = ledger[i - 1])
      BY <1>4, <2>1
    <3> QED BY <3>1, <2>1 DEF Intact
  <2>2. CASE i = Len(ledger) + 1
    <3>1. r.sequence = i /\ r.previousHash = LastHash
      BY <2>2 DEF NewRecord
    <3>2. CASE ledger = <<>>
      BY <3>1, <3>2, <2>2, <1>3 DEF LastHash
    <3>3. CASE ledger # <<>>
      <4>1. Len(ledger) \in 1..Len(ledger) /\ i # 1 /\ i - 1 = Len(ledger)
        BY <3>3, <2>2
      <4>2. l[i - 1] = ledger[Len(ledger)]
        BY <4>1, <1>4
      <4> QED BY <4>1, <4>2, <3>1, <3>3, <2>2, <1>3 DEF LastHash
    <3> QED BY <3>2, <3>3
  <2> QED BY <2>1, <2>2, <1>3
<1>6. Ids(l) = Ids(ledger) \cup {e}
  <2>1. r.id = e
    BY DEF NewRecord
  <2> QED BY <2>1, <1>3, <1>4 DEF Ids
<1> QED
  BY <1>3, <1>5, <1>6 DEF Intact, l

\* A save of a ledger and notes that are sound keeps the file sound, whatever
\* becomes of it.
LEMMA SaveKeeps ==
  ASSUME NEW l \in Seq(LedgerRecord), NEW n \in SUBSET Note,
         Types, NothingUnreadable, Intact(disk.ledger), Intact(l),
         SaveDb(l, n)
  PROVE  /\ disk' \in [state : {"intact", "absent", "torn"}, ledger : Seq(LedgerRecord),
                       notes : SUBSET Note]
         /\ faulted' \in BOOLEAN
         /\ Intact(disk'.ledger)
         /\ NothingUnreadable'
         /\ disk'.ledger \in {disk.ledger, l, <<>>}
         /\ lastSave' = "written" => disk' = Image(l, n)
         /\ ~faulted' => ~faulted /\ lastSave' = "written"
<1>1. CASE disk' = Image(l, n) /\ lastSave' = "written" /\ UNCHANGED faulted
  BY <1>1 DEF Image, Types, NothingUnreadable
<1>2. CASE disk' = disk /\ lastSave' = "skipped" /\ faulted' = TRUE
  BY <1>2 DEF Types, NothingUnreadable
<1>3. CASE disk' = Unreadable("torn") /\ lastSave' = "torn" /\ faulted' = TRUE
  <2>1. Intact(<<>>) /\ <<>> \in Seq(LedgerRecord)
    BY DEF Intact
  <2> QED BY <1>3, <2>1 DEF Unreadable, Types, NothingUnreadable
<1> QED BY <1>1, <1>2, <1>3 DEF SaveDb

-----------------------------------------------------------------------------
\* Before the first start: no file, nothing in memory, nothing answered.
LEMMA StoreInit == Init => StoreInv
<1> SUFFICES ASSUME Init PROVE StoreInv
  OBVIOUS
<1>1. <<>> \in Seq(LedgerRecord) /\ Intact(<<>>) /\ Ids(<<>>) = {}
  BY DEF Intact, Ids
<1>2. Types
  BY <1>1 DEF Init, Types, Unreadable, Stage
<1>3. LedgerIntact /\ OnlyAnswered /\ NothingUnreadable /\ FileIsCurrent
  BY <1>1 DEF Init, LedgerIntact, OnlyAnswered, NothingUnreadable, FileIsCurrent,
              Unreadable, Answered
<1> QED BY <1>2, <1>3 DEF StoreInv

\* The end of an append.
LEMMA AppendStep ==
  ASSUME StoreInv, NEW e \in Entry, AppendRecord(e)
  PROVE  StoreInv'
<1>1. /\ ledger' = Append(ledger, NewRecord(e))
      /\ ledger' \in Seq(LedgerRecord) /\ Intact(ledger') /\ Ids(ledger') = Ids(ledger) \cup {e}
  BY AppendIntact DEF AppendRecord, StoreInv, Types, LedgerIntact
<1>2. /\ disk' \in [state : {"intact", "absent", "torn"}, ledger : Seq(LedgerRecord),
                    notes : SUBSET Note]
      /\ faulted' \in BOOLEAN
      /\ Intact(disk'.ledger)
      /\ NothingUnreadable'
      /\ disk'.ledger \in {disk.ledger, ledger', <<>>}
      /\ lastSave' = "written" => disk' = Image(ledger', notes)
      /\ ~faulted' => ~faulted /\ lastSave' = "written"
  <2>1. SaveDb(ledger', notes) /\ notes \in SUBSET Note
    BY DEF AppendRecord, StoreInv, Types
  <2> QED BY <1>1, <2>1, SaveKeeps DEF StoreInv, LedgerIntact
<1>3. up' = up /\ up /\ notes' = notes /\ copy' = copy
  BY DEF AppendRecord, pages
<1>4. Answered' = Answered \cup {e}
  BY DEF AppendRecord, Answered, StoreInv, Types
<1>5. Types'
  BY <1>1, <1>2, <1>3 DEF AppendRecord, StoreInv, Types, Stage
<1>6. OnlyAnswered'
  <2>1. Ids(<<>>) = {}
    BY DEF Ids
  <2> QED BY <2>1, <1>1, <1>2, <1>4 DEF OnlyAnswered, StoreInv
<1>7. FileIsCurrent'
  <2>1. ASSUME ~faulted' PROVE Answered' \subseteq Ids(disk'.ledger)
    <3>1. ~faulted /\ disk' = Image(ledger', notes) /\ disk = Image(ledger, notes)
      BY <2>1, <1>2, <1>3 DEF StoreInv, FileIsCurrent
    <3>2. disk'.ledger = ledger' /\ disk.ledger = ledger
      BY <3>1 DEF Image
    <3> QED BY <3>1, <3>2, <1>1, <1>4 DEF StoreInv, FileIsCurrent
  <2> QED BY <2>1, <1>2, <1>3 DEF FileIsCurrent
<1> QED BY <1>1, <1>2, <1>5, <1>6, <1>7 DEF StoreInv, LedgerIntact

\* What saves the ledger as it is, with other notes.
LEMMA NotesStep ==
  ASSUME StoreInv, up, UNCHANGED <<up, ledger, request, copy>>,
         notes' \in SUBSET Note, SaveDb(ledger, notes')
  PROVE  StoreInv'
<1>1. /\ disk' \in [state : {"intact", "absent", "torn"}, ledger : Seq(LedgerRecord),
                    notes : SUBSET Note]
      /\ faulted' \in BOOLEAN
      /\ Intact(disk'.ledger)
      /\ NothingUnreadable'
      /\ disk'.ledger \in {disk.ledger, ledger, <<>>}
      /\ lastSave' = "written" => disk' = Image(ledger, notes')
      /\ ~faulted' => ~faulted /\ lastSave' = "written"
  BY SaveKeeps DEF StoreInv, LedgerIntact, Types
<1>2. Answered' = Answered /\ Ids(<<>>) = {}
  BY DEF Answered, Ids
<1>3. Types'
  BY <1>1 DEF StoreInv, Types
<1>4. OnlyAnswered'
  BY <1>1, <1>2 DEF StoreInv, OnlyAnswered
<1>5. FileIsCurrent'
  <2>1. ASSUME ~faulted' PROVE Answered \subseteq Ids(disk'.ledger)
    <3>1. ~faulted /\ disk' = Image(ledger, notes') /\ disk = Image(ledger, notes)
      BY <2>1, <1>1 DEF StoreInv, FileIsCurrent
    <3> QED BY <3>1 DEF StoreInv, FileIsCurrent, Image
  <2> QED BY <2>1, <1>1, <1>2 DEF FileIsCurrent
<1> QED BY <1>1, <1>3, <1>4, <1>5 DEF StoreInv, LedgerIntact

\* What touches neither memory nor file and answers nothing.
LEMMA QuietStep ==
  ASSUME StoreInv, UNCHANGED <<up, memory, file>>, request' \in [Entry -> Stage],
         copy' \in [Page -> SUBSET Note], Answered' = Answered
  PROVE  StoreInv'
BY DEF StoreInv, Types, LedgerIntact, OnlyAnswered, NothingUnreadable, FileIsCurrent,
       memory, file, Ids, Intact

\* The end of the process.
LEMMA DieStep ==
  ASSUME StoreInv, Die, UNCHANGED file \/ CrashInSave
  PROVE  StoreInv'
<1>1. /\ up' = FALSE /\ ledger' = <<>> /\ notes' = {} /\ copy' = copy
      /\ request' \in [Entry -> Stage]
      /\ Answered' = Answered
  BY DEF Die, pages, StoreInv, Types, Stage, Answered
<1>2. <<>> \in Seq(LedgerRecord) /\ Intact(<<>>) /\ Ids(<<>>) = {}
  BY DEF Intact, Ids
<1>3. CASE UNCHANGED file
  BY <1>1, <1>2, <1>3 DEF StoreInv, Types, LedgerIntact, OnlyAnswered, NothingUnreadable,
     FileIsCurrent, file
<1>4. CASE CrashInSave
  <2>1. /\ disk' = Unreadable("torn") /\ faulted' = TRUE
        /\ disk'.ledger = <<>> /\ disk'.notes = {}
        /\ disk' \in [state : {"intact", "absent", "torn"}, ledger : Seq(LedgerRecord),
                      notes : SUBSET Note]
    BY <1>2, <1>4 DEF CrashInSave, Unreadable
  <2> QED BY <1>1, <1>2, <2>1 DEF StoreInv, Types, LedgerIntact, OnlyAnswered,
             NothingUnreadable, FileIsCurrent
<1> QED BY <1>3, <1>4

\* A start, from the file or from the initial data.
LEMMA StartStep ==
  ASSUME StoreInv, Start
  PROVE  StoreInv'
<1>1. /\ up' /\ ledger' = disk.ledger /\ notes' = disk.notes
      /\ UNCHANGED <<request, copy>>
      /\ Answered' = Answered
  BY DEF Start, pages, Answered
<1>2. /\ disk.ledger \in Seq(LedgerRecord) /\ disk.notes \in SUBSET Note
      /\ <<>> \in Seq(LedgerRecord) /\ Intact(<<>>) /\ Ids(<<>>) = {}
  BY DEF StoreInv, Types, Intact, Ids
<1>3. CASE disk.state = "intact"
  <2>1. disk' = disk /\ faulted' = faulted /\ lastSave' = "written"
    BY <1>3 DEF Start
  <2>2. disk = Image(ledger', notes')
    BY <1>1, <1>3 DEF Image, StoreInv, Types
  <2>3. Types' /\ LedgerIntact' /\ OnlyAnswered' /\ NothingUnreadable'
    BY <1>1, <1>2, <2>1 DEF StoreInv, Types, LedgerIntact, OnlyAnswered, NothingUnreadable
  <2>4. FileIsCurrent'
    BY <1>1, <2>1, <2>2 DEF StoreInv, FileIsCurrent
  <2> QED BY <2>3, <2>4 DEF StoreInv
<1>4. CASE disk.state # "intact"
  <2>1. disk.ledger = <<>> /\ disk.notes = {} /\ SaveDb(<<>>, {})
    BY <1>4 DEF Start, StoreInv, NothingUnreadable
  <2>2. /\ disk' \in [state : {"intact", "absent", "torn"}, ledger : Seq(LedgerRecord),
                      notes : SUBSET Note]
        /\ faulted' \in BOOLEAN
        /\ Intact(disk'.ledger)
        /\ NothingUnreadable'
        /\ disk'.ledger \in {disk.ledger, <<>>}
        /\ lastSave' = "written" => disk' = Image(<<>>, {})
        /\ ~faulted' => ~faulted /\ lastSave' = "written"
    BY <1>2, <2>1, SaveKeeps DEF StoreInv, LedgerIntact
  <2>3. Types' /\ LedgerIntact' /\ OnlyAnswered'
    BY <1>1, <1>2, <2>1, <2>2 DEF StoreInv, Types, LedgerIntact, OnlyAnswered
  <2>4. FileIsCurrent'
    BY <1>1, <1>2, <2>1, <2>2 DEF StoreInv, FileIsCurrent
  <2> QED BY <2>2, <2>3, <2>4 DEF StoreInv
<1> QED BY <1>3, <1>4

\* The steps above cover every handler, crash and start of the server.
LEMMA StoreStep == StoreInv /\ [Next]_storeVars => StoreInv'
<1> SUFFICES ASSUME StoreInv, [Next]_storeVars PROVE StoreInv'
  OBVIOUS
<1>1. ASSUME NEW e \in Posted, ReceivePost(e) \/ RefusePost(e) PROVE StoreInv'
  <2>1. /\ UNCHANGED <<up, memory, file, copy>>
        /\ request[e] = "unsent" /\ e \in Entry
        /\ \E s \in {"received", "refused"} : request' = [request EXCEPT ![e] = s]
    BY <1>1 DEF ReceivePost, RefusePost, pages, Entry
  <2>2. request' \in [Entry -> Stage] /\ Answered' = Answered
    BY <2>1 DEF StoreInv, Types, Stage, Answered
  <2> QED BY <2>1, <2>2, QuietStep DEF StoreInv, Types
<1>2. ASSUME NEW e \in Reading, BeginRead(e) \/ ReadInPostgres(e) PROVE StoreInv'
  <2>1. /\ UNCHANGED <<up, memory, file, copy>>
        /\ request[e] # "answered" /\ e \in Entry
        /\ \E s \in {"received", "inPostgres"} : request' = [request EXCEPT ![e] = s]
    BY <1>2 DEF BeginRead, ReadInPostgres, pages, Entry
  <2>2. request' \in [Entry -> Stage] /\ Answered' = Answered
    BY <2>1 DEF StoreInv, Types, Stage, Answered
  <2> QED BY <2>1, <2>2, QuietStep DEF StoreInv, Types
<1>3. ASSUME NEW e \in Entry, AppendRecord(e) PROVE StoreInv'
  BY <1>3, AppendStep
<1>4. ASSUME NEW n \in Note, AddNote(n) PROVE StoreInv'
  BY <1>4, NotesStep DEF AddNote, pages, StoreInv, Types
<1>5. ASSUME NEW p \in Page, LoadCases(p) PROVE StoreInv'
  <2>1. UNCHANGED <<up, memory, file, request>> /\ copy' \in [Page -> SUBSET Note]
    BY <1>5 DEF LoadCases, StoreInv, Types
  <2> QED BY <2>1, QuietStep DEF StoreInv, Types, Answered
<1>6. ASSUME NEW p \in Page, SyncCase(p) PROVE StoreInv'
  <2>1. notes' \in SUBSET Note
    BY <1>6 DEF SyncCase, StoreInv, Types
  <2> QED BY <1>6, <2>1, NotesStep DEF SyncCase, pages
<1>7. ASSUME Crash \/ CrashInSave PROVE StoreInv'
  BY <1>7, DieStep DEF Crash, CrashInSave, file
<1>8. CASE Start
  BY <1>8, StartStep
<1>9. CASE Tick
  BY <1>9, QuietStep DEF Tick, pages, StoreInv, Types, Answered
<1>10. CASE UNCHANGED storeVars
  BY <1>10, QuietStep DEF storeVars, pages, StoreInv, Types, Answered
<1> QED
  BY <1>1, <1>2, <1>3, <1>4, <1>5, <1>6, <1>7, <1>8, <1>9, <1>10 DEF Next

\* The inductive invariant of the server's store.
LEMMA StoreInvariant == Spec => []StoreInv
<1> QED BY StoreInit, StoreStep, PTL DEF Spec

-----------------------------------------------------------------------------
\* However appends of any number of pages and reads interleave, whatever becomes
\* of the saves, and whenever the process dies and comes back: the verifier finds
\* an intact chain, in memory and in any file it can read.
THEOREM LedgerStaysIntact == Spec => []LedgerIntact
<1>1. StoreInv => LedgerIntact
  BY DEF StoreInv
<1> QED BY <1>1, StoreInvariant, PTL

\* Crashes between requests lose no answered record, as long as every save so
\* far has worked.
THEOREM CrashesLoseNothing == Spec => []AnsweredSurvives
<1>1. StoreInv => AnsweredSurvives
  <2> SUFFICES ASSUME StoreInv, ~faulted
               PROVE  /\ Answered \subseteq Ids(disk.ledger)
                      /\ up => Answered \subseteq Ids(ledger)
    BY DEF AnsweredSurvives
  <2>1. up => disk = Image(ledger, notes)
    BY DEF StoreInv, FileIsCurrent
  <2> QED BY <2>1 DEF StoreInv, FileIsCurrent, Image
<1> QED BY <1>1, StoreInvariant, PTL

\* A save that succeeds leaves nothing in memory only.
THEOREM SavesHeal == Spec => []SaveHeals
<1>1. StoreInv => SaveHeals
  BY DEF StoreInv, FileIsCurrent, SaveHeals
<1> QED BY <1>1, StoreInvariant, PTL

\* Between two crashes the ledger is a hash chain that only grows.
THEOREM OneRecordAtATime == Spec => LedgerExtendsWhileUp
<1>1. ASSUME StoreInv, [Next]_storeVars, up, up', ledger' # ledger
      PROVE  \E e \in Entry : Chain!Extend(e)
  <2>1. PICK e \in Entry : AppendRecord(e)
    BY <1>1 DEF Next, storeVars, memory, ReceivePost, RefusePost, BeginRead, ReadInPostgres,
       AddNote, LoadCases, SyncCase, Crash, CrashInSave, Die, Start, Tick
  <2>2. e \notin Answered
    BY <2>1 DEF AppendRecord, Answered
  <2> DEFINE bare(l) == [i \in 1..Len(l) |-> [id |-> l[i].id, previousHash |-> l[i].previousHash]]
             r == NewRecord(e)
  <2>3. /\ ledger \in Seq(LedgerRecord) /\ ledger' = Append(ledger, r)
        /\ ledger' \in Seq(LedgerRecord)
        /\ r.id = e /\ r.previousHash = LastHash
    BY <1>1, <2>1, AppendIntact DEF AppendRecord, StoreInv, Types, LedgerIntact, NewRecord
  <2>4. \A i \in 1..Len(ledger) : bare(ledger)[i].id # e
    <3> SUFFICES ASSUME NEW i \in 1..Len(ledger) PROVE ledger[i].id # e
      OBVIOUS
    <3>1. ledger[i].id \in Ids(ledger)
      BY DEF Ids
    <3> QED BY <3>1, <1>1, <2>2 DEF StoreInv, OnlyAnswered
  <2>5. bare(ledger') = Append(bare(ledger), [id |-> e, previousHash |-> LastHash])
    BY <2>3
  <2>6. LastHash' = e
    BY <2>3 DEF LastHash
  <2>7. Len(bare(ledger)) = Len(ledger)
    BY <2>3
  <2> QED BY <2>4, <2>5, <2>6, <2>7 DEF Chain!Extend
<1> QED BY <1>1, StoreInvariant, PTL DEF Spec, LedgerExtendsWhileUp

-----------------------------------------------------------------------------
\* What filtering the first m elements of h by age leaves, k, and where each stands.
Places(h, m, k, bound, at) ==
  /\ at \in [1 .. m -> 0 .. Len(k)]
  /\ \A i \in 1 .. m : h[i] < bound => at[i] \in 1 .. Len(k) /\ k[at[i]] = h[i]
  /\ \A i, j \in 1 .. m : h[i] < bound /\ h[j] < bound /\ i # j => at[i] # at[j]

Selects(h, m, k, bound) ==
  /\ Len(k) <= m
  /\ Len(k) = m => \A i \in 1 .. m : k[i] = h[i]
  /\ \A i \in 1 .. Len(k) : k[i] < bound
  /\ \E at : Places(h, m, k, bound, at)

\* The next element is appended if it is young enough.
LEMMA SelectsNext ==
  ASSUME NEW A, A \subseteq Int, NEW h \in Seq(A), NEW m \in 1 .. Len(h), NEW k \in Seq(A), NEW bound \in Int,
         Selects(h, m - 1, k, bound)
  PROVE  Selects(h, m, IF h[m] < bound THEN Append(k, h[m]) ELSE k, bound)
<1>1. /\ m \in Nat /\ m - 1 \in Nat /\ h[m] \in A /\ h[m] \in Int /\ Len(k) \in Nat
      /\ \A i \in 1 .. m : i = m \/ i \in 1 .. (m - 1)
      /\ \A i \in 1 .. (m - 1) : i \in 1 .. m /\ i # m
  <2>1. Len(h) \in Nat /\ Len(k) \in Nat /\ h[m] \in A
    OBVIOUS
  <2>2. m \in Nat /\ m - 1 \in Nat
    BY <2>1
  <2>3. h[m] \in Int
    BY <2>1
  <2>4. \A i \in 1 .. m : i = m \/ i \in 1 .. (m - 1)
    BY <2>2
  <2>5. \A i \in 1 .. (m - 1) : i \in 1 .. m /\ i # m
    BY <2>2
  <2> QED
    BY <2>1, <2>2, <2>3, <2>4, <2>5
<1>2. PICK at : Places(h, m - 1, k, bound, at)
  BY DEF Selects
<1>3. Len(k) <= m - 1 /\ \A i \in 1 .. Len(k) : k[i] < bound
  BY DEF Selects
<1>4. CASE h[m] < bound
  <2> DEFINE l == Append(k, h[m])
             to == [i \in 1 .. m |-> IF i = m THEN Len(l) ELSE at[i]]
  <2>1. /\ Len(l) = Len(k) + 1 /\ l[Len(l)] = h[m] /\ \A i \in 1 .. Len(k) : l[i] = k[i]
        /\ \A i \in 1 .. Len(l) : i = Len(l) \/ i \in 1 .. Len(k)
    BY <1>1
  <2>2. to[m] = Len(l) /\ \A i \in 1 .. (m - 1) : to[i] = at[i]
    BY <1>1
  <2>3. \A i \in 1 .. (m - 1) : at[i] \in 0 .. Len(k) /\ at[i] # Len(l)
    BY <1>1, <1>2, <2>1 DEF Places
  <2>4. to \in [1 .. m -> 0 .. Len(l)]
    BY <1>1, <2>1, <2>2, <2>3
  <2> HIDE DEF l, to
  <2>5. Places(h, m, l, bound, to)
    <3>1. ASSUME NEW i \in 1 .. m, h[i] < bound
          PROVE  to[i] \in 1 .. Len(l) /\ l[to[i]] = h[i]
      <4>1. CASE i = m
        BY <1>1, <2>1, <2>2, <4>1
      <4>2. CASE i \in 1 .. (m - 1)
        <5>1. at[i] \in 1 .. Len(k) /\ k[at[i]] = h[i]
          BY <1>2, <3>1, <4>2 DEF Places
        <5> QED
          BY <1>1, <2>1, <2>2, <4>2, <5>1
      <4> QED
        BY <1>1, <4>1, <4>2
    <3>2. ASSUME NEW i \in 1 .. m, NEW j \in 1 .. m, h[i] < bound, h[j] < bound, i # j
          PROVE  to[i] # to[j]
      <4>1. CASE i = m
        BY <1>1, <2>2, <2>3, <3>2, <4>1
      <4>2. CASE j = m
        BY <1>1, <2>2, <2>3, <3>2, <4>2
      <4>3. CASE i # m /\ j # m
        BY <1>1, <1>2, <2>2, <3>2, <4>3 DEF Places
      <4> QED
        BY <4>1, <4>2, <4>3
    <3> QED
      BY <2>4, <3>1, <3>2 DEF Places
  <2>6. Len(l) = m => \A i \in 1 .. m : l[i] = h[i]
    <3>1. ASSUME Len(l) = m, NEW i \in 1 .. m
          PROVE  l[i] = h[i]
      <4>1. Len(k) = m - 1
        BY <1>1, <2>1, <3>1
      <4>2. \A j \in 1 .. (m - 1) : k[j] = h[j]
        BY <4>1 DEF Selects
      <4> QED
        BY <1>1, <2>1, <3>1, <4>1, <4>2
    <3> QED
      BY <3>1
  <2>7. \A i \in 1 .. Len(l) : l[i] < bound
    BY <1>3, <1>4, <2>1
  <2>8. Len(l) <= m
    BY <1>1, <1>3, <2>1
  <2>9. Selects(h, m, l, bound)
    BY <2>5, <2>6, <2>7, <2>8 DEF Selects
  <2> QED
    BY <1>4, <2>9 DEF l
<1>5. CASE ~(h[m] < bound)
  <2> DEFINE to == [i \in 1 .. m |-> IF i = m THEN 0 ELSE at[i]]
  <2>1. to \in [1 .. m -> 0 .. Len(k)] /\ \A i \in 1 .. (m - 1) : to[i] = at[i]
    BY <1>1, <1>2 DEF Places
  <2> HIDE DEF to
  <2>2. \A i \in 1 .. m : h[i] < bound => i \in 1 .. (m - 1)
    BY <1>1, <1>5
  <2>3. Places(h, m, k, bound, to)
    BY <1>2, <2>1, <2>2 DEF Places
  <2>4. Len(k) # m /\ Len(k) <= m
    BY <1>1, <1>3
  <2>5. Selects(h, m, k, bound)
    BY <1>3, <2>3, <2>4 DEF Selects
  <2> QED
    BY <1>5, <2>5
<1> QED
  BY <1>4, <1>5

-----------------------------------------------------------------------------
Ages == 0 .. Window

\* The step of the filter that takes the i-th timestamp.
Keeping(h, bound) ==
  [p \in (1 .. Len(h)) \X Seq(Ages) |-> IF h[p[1]] < bound THEN Append(p[2], h[p[1]]) ELSE p[2]]

\* The filter of the limiter is a recursion over the positions of its list.
LEMMA YoungerFolds ==
  ASSUME hits \in Seq(Ages), NEW bound \in Int
  PROVE  \E g : FoldsPrefixes(g, Len(hits), Seq(Ages), <<>>, Keeping(hits, bound)) /\ Younger(bound) = g[1 .. Len(hits)]
<1> DEFINE n == Len(hits)
           S == DOMAIN hits
           V == Seq(Ages)
           op(kept, a) == IF a < bound THEN Append(kept, a) ELSE kept
           Equation(g) == g = [T \in SUBSET S |-> IF T = {} THEN <<>> ELSE op(g[T \ {Max(T)}], hits[Max(T)])]
           it == CHOOSE g : Equation(g)
           st == Keeping(hits, bound)
           ch == LastOf(n)
<1>0. Younger(bound) = it[S]
  BY DEF Younger, FoldLeft, MapThenFoldSet
<1>1. S = 1 .. n /\ n \in Nat /\ (\A i \in S : hits[i] \in Ages) /\ <<>> \in V
  OBVIOUS
<1>2. \A k \in V, a \in Ages : op(k, a) \in V
  OBVIOUS
<1>3. /\ st = [p \in S \X V |-> op(p[2], hits[p[1]])]
      /\ st \in [S \X V -> V]
      /\ \A i \in S, v \in V : st[<<i, v>>] = op(v, hits[i])
  <2>1. st = [p \in S \X V |-> op(p[2], hits[p[1]])]
    BY <1>1 DEF Keeping
  <2> HIDE DEF st, S, V, op
  <2>2. \A p \in S \X V : op(p[2], hits[p[1]]) \in V
    <3>1. ASSUME NEW p \in S \X V
          PROVE  op(p[2], hits[p[1]]) \in V
      <4>1. p[1] \in S /\ p[2] \in V
        OBVIOUS
      <4> QED
        BY <1>1, <1>2, <4>1
    <3> QED
      BY <3>1
  <2> QED
    BY <2>1, <2>2
<1>4. IsFiniteSet(S) /\ Picks(ch, S) /\ \A T \in SUBSET S : ch[T] = Max(T)
  BY <1>1, LastIn DEF LastOf
<1> HIDE DEF n, S, V, op, st, ch
<1>5. PICK g : Solves(g, S, <<>>, ch, st) /\ Steps(g, S, V, ch, st)
  BY <1>1, <1>3, <1>4, RecursionSolved
<1>6. Equation(g)
  <2>1. ASSUME NEW T \in SUBSET S, T # {}
        PROVE  st[<<ch[T], g[T \ {ch[T]}]>>] = op(g[T \ {Max(T)}], hits[Max(T)])
    <3>1. ch[T] = Max(T) /\ Max(T) \in S /\ T \ {Max(T)} \in SUBSET S
      BY <1>4, <2>1 DEF Picks
    <3>2. g[T \ {Max(T)}] \in V
      BY <1>5, <3>1 DEF Steps
    <3> QED
      BY <1>3, <3>1, <3>2
  <2>2. \A T \in SUBSET S : T # {} => st[<<ch[T], g[T \ {ch[T]}]>>] = op(g[T \ {Max(T)}], hits[Max(T)])
    BY <2>1
  <2> QED
    BY <1>5, <2>2 DEF Solves
<1>7. Equation(it)
  BY <1>6
<1> HIDE DEF it
<1>8. Obeys(it, S, V, <<>>, ch, st)
  <2>1. it[{}] = <<>>
    BY <1>7
  <2>2. ASSUME NEW T \in SUBSET S, T # {}, it[T \ {ch[T]}] \in V
        PROVE  it[T] = st[<<ch[T], it[T \ {ch[T]}]>>]
    <3>1. ch[T] = Max(T) /\ Max(T) \in S
      BY <1>4, <2>2 DEF Picks
    <3>2. it[T] = op(it[T \ {Max(T)}], hits[Max(T)])
      BY <1>7, <2>2
    <3> QED
      BY <1>3, <2>2, <3>1, <3>2
  <2> QED
    BY <2>1, <2>2 DEF Obeys
<1>9. FoldsPrefixes(it, n, V, <<>>, st)
  <2>1. Obeys(it, 1 .. n, V, <<>>, LastOf(n), st) /\ st \in [(1 .. n) \X V -> V] /\ <<>> \in V
    BY <1>1, <1>3, <1>8 DEF ch
  <2> QED
    BY <1>1, <2>1, LeftSteps
<1> QED
  BY <1>0, <1>1, <1>9 DEF st, n, V

\* What is younger than an age is a selection of the timestamps.
LEMMA YoungerSelects ==
  ASSUME hits \in Seq(Ages), NEW bound \in Int, LimiterAssumption
  PROVE  Younger(bound) \in Seq(Ages) /\ Selects(hits, Len(hits), Younger(bound), bound)
<1> DEFINE n == Len(hits)
<1>0. n \in Nat /\ Ages \subseteq Int
  BY DEF Ages
<1>1. PICK g : FoldsPrefixes(g, n, Seq(Ages), <<>>, Keeping(hits, bound)) /\ Younger(bound) = g[1 .. n]
  BY YoungerFolds
<1>2. \A m \in 0 .. n : g[1 .. m] \in Seq(Ages)
  BY <1>1 DEF FoldsPrefixes
<1>3. ASSUME NEW m \in 1 .. n
      PROVE  g[1 .. m] = IF hits[m] < bound THEN Append(g[1 .. m - 1], hits[m]) ELSE g[1 .. m - 1]
  <2>1. g[1 .. m] = Keeping(hits, bound)[<<m, g[1 .. m - 1]>>]
    BY <1>1 DEF FoldsPrefixes
  <2>2. m - 1 \in 0 .. n
    BY <1>0
  <2>3. <<m, g[1 .. m - 1]>> \in (1 .. Len(hits)) \X Seq(Ages)
    BY <1>2, <2>2
  <2> QED
    BY <2>1, <2>3 DEF Keeping
<1> DEFINE F == {m \in 0 .. n : ~Selects(hits, m, g[1 .. m], bound)}
<1>4. F = {}
  <2> SUFFICES ASSUME F # {} PROVE FALSE
    OBVIOUS
  <2>1. F \subseteq Nat /\ F \subseteq 0 .. n
    OBVIOUS
  <2> HIDE DEF F
  <2>2. PICK m \in F : \A j \in F : m <= j
    BY <2>1, LeastNat
  <2>3. m \in 0 .. n /\ ~Selects(hits, m, g[1 .. m], bound)
    BY <2>1, <2>2 DEF F
  <2>4. CASE m = 0
    <3>1. g[1 .. 0] = <<>>
      BY <1>1 DEF FoldsPrefixes
    <3>2. Places(hits, 0, <<>>, bound, [i \in 1 .. 0 |-> 0])
      BY DEF Places
    <3>3. Selects(hits, 0, <<>>, bound)
      BY <3>2 DEF Selects
    <3> QED
      BY <2>3, <2>4, <3>1, <3>3
  <2>5. CASE m # 0
    <3>1. m \in 1 .. n /\ m - 1 \in 0 .. n /\ ~(m <= m - 1)
      BY <1>0, <2>3, <2>5
    <3>2. Selects(hits, m - 1, g[1 .. m - 1], bound)
      <4>1. m - 1 \notin F
        BY <2>2, <3>1
      <4> QED
        BY <3>1, <4>1 DEF F
    <3>3. g[1 .. m - 1] \in Seq(Ages)
      BY <1>2, <3>1
    <3>4. Selects(hits, m, IF hits[m] < bound THEN Append(g[1 .. m - 1], hits[m]) ELSE g[1 .. m - 1], bound)
      BY <1>0, <3>1, <3>2, <3>3, SelectsNext
    <3> QED
      BY <1>3, <2>3, <3>1, <3>4
  <2> QED
    BY <2>4, <2>5
<1>5. n \in 0 .. n
  BY <1>0
<1> QED
  BY <1>1, <1>2, <1>4, <1>5

\* When the time of Retry-After has passed, the oldest timestamp has expired.
LEMMA RetryHolds ==
  ASSUME hits \in Seq(Ages), Len(hits) <= Most
  PROVE  RetryAfterSuffices
<1> SUFFICES ASSUME ~Allowed
             PROVE  Len(Younger(Window - ResetSeconds * Second)) < Most
  BY DEF RetryAfterSuffices
<1> DEFINE n == Len(hits)
<1>0. /\ Window \in Nat /\ Most \in Nat \ {0} /\ Second \in Nat \ {0} /\ n \in Nat
      /\ \A i \in 1 .. n : hits[i] \in Nat /\ hits[i] <= Window
  BY LimiterAssumption DEF Ages
<1>1. Live \in Seq(Ages) /\ Selects(hits, n, Live, Window)
  <2>1. Window \in Int
    BY <1>0
  <2>2. Younger(Window) \in Seq(Ages) /\ Selects(hits, Len(hits), Younger(Window), Window)
    BY <2>1, LimiterAssumption, YoungerSelects, Zenon
  <2> QED
    BY <2>2 DEF Live
<1>2. Len(Live) \in Nat /\ ~(Len(Live) < Most) /\ Len(Live) <= n /\ n <= Most
  BY <1>1 DEF Allowed, Selects
<1>3. n = Most /\ Len(Live) = n
  BY <1>0, <1>2
<1>4. Live[1] = hits[1] /\ 1 \in 1 .. n
  BY <1>0, <1>1, <1>3 DEF Selects
<1> DEFINE x == Window - hits[1]
           bound == Window - ResetSeconds * Second
<1>5. x \in Nat /\ ResetSeconds = (x + Second - 1) \div Second
  <2>1. hits[1] \in Nat /\ hits[1] <= Window
    BY <1>0, <1>4
  <2> QED
    BY <1>0, <1>4, <2>1 DEF ResetSeconds
<1> HIDE DEF x
<1>6. ResetSeconds * Second >= x /\ ResetSeconds \in Int
  BY <1>0, <1>5
<1>7. bound \in Int /\ bound <= hits[1]
  BY <1>0, <1>4, <1>6 DEF x
<1> HIDE DEF bound
<1>8. Younger(bound) \in Seq(Ages) /\ Selects(hits, n, Younger(bound), bound)
  BY <1>7, LimiterAssumption, YoungerSelects
<1>9. Len(Younger(bound)) # n
  <2> SUFFICES ASSUME Len(Younger(bound)) = n PROVE FALSE
    OBVIOUS
  <2>1. Younger(bound)[1] = hits[1] /\ Younger(bound)[1] < bound
    BY <1>4, <1>8 DEF Selects
  <2>2. hits[1] \in Nat
    BY <1>0, <1>4
  <2> QED
    BY <1>7, <2>1, <2>2
<1>10. Len(Younger(bound)) <= n /\ Len(Younger(bound)) \in Nat
  BY <1>8 DEF Selects
<1> QED
  BY <1>0, <1>3, <1>9, <1>10 DEF bound

-----------------------------------------------------------------------------
\* A POST that is in the window has a timestamp of its own, of its age.
Recent == {e \in Posted : age[e] < Window}

Stamped(at) ==
  /\ at \in [Recent -> 1 .. Len(hits)]
  /\ \A e \in Recent : hits[at[e]] = age[e]
  /\ \A e, f \in Recent : e # f => at[e] # at[f]

LimiterInv ==
  /\ hits \in Seq(Ages) /\ Len(hits) <= Most /\ age \in [Posted -> Ages]
  /\ \E at : Stamped(at)

\* A POST of the window has a timestamp of its own, of which Most are kept.
LEMMA LimiterHolds == LimiterInv => WindowHolds /\ RetryAfterSuffices
<1> SUFFICES ASSUME LimiterInv PROVE WindowHolds /\ RetryAfterSuffices
  OBVIOUS
<1>1. RetryAfterSuffices
  BY RetryHolds DEF LimiterInv
<1>2. PICK at : Stamped(at)
  BY DEF LimiterInv
<1>3. Len(hits) \in Nat /\ Len(hits) <= Most /\ Most \in Nat
  BY LimiterAssumption DEF LimiterInv
<1>4. IsFiniteSet(1 .. Len(hits)) /\ Cardinality(1 .. Len(hits)) = Len(hits)
  <2>1. 1 \in Int /\ Len(hits) \in Int
    BY <1>3
  <2>2. IsFiniteSet(1 .. Len(hits)) /\ Cardinality(1 .. Len(hits)) = IF 1 > Len(hits) THEN 0 ELSE Len(hits) - 1 + 1
    BY <2>1, FS_Interval
  <2> QED
    BY <1>3, <2>2
<1>5. IsInjective(at)
  BY <1>2 DEF Stamped, IsInjective
<1>6. at \in Injection(Recent, 1 .. Len(hits))
  BY <1>2, <1>5 DEF Stamped, Injection, IsInjective
<1>7. IsFiniteSet(Recent) /\ Cardinality(Recent) <= Cardinality(1 .. Len(hits))
  BY <1>4, <1>6, FS_Injection
<1>8. Cardinality(Recent) \in Nat
  BY <1>7, FS_CardinalityType
<1>9. WindowHolds
  BY <1>3, <1>4, <1>7, <1>8 DEF WindowHolds, Recent
<1> QED
  BY <1>1, <1>9

\* No POST at first.
LEMMA LimiterStarts == Init => LimiterInv
<1> SUFFICES ASSUME Init PROVE LimiterInv
  OBVIOUS
<1>1. hits = <<>> /\ age = [e \in Posted |-> Window]
  BY DEF Init, LimiterInit
<1>2. Recent = {}
  BY <1>1, LimiterAssumption DEF Recent
<1>3. Stamped([e \in {} |-> 0])
  BY <1>2 DEF Stamped
<1> QED
  BY <1>1, <1>3, LimiterAssumption DEF LimiterInv, Ages

\* A step that leaves timestamps and ages alone keeps it.
LEMMA LimiterQuiet ==
  ASSUME LimiterInv, UNCHANGED <<hits, age>>
  PROVE  LimiterInv'
BY DEF LimiterInv, Stamped, Recent

\* A restart forgets the timestamps; the POSTs before it no longer count.
LEMMA LimiterForgets ==
  ASSUME LimiterInv, ForgetHits, age' = [e \in Posted |-> Window]
  PROVE  LimiterInv'
<1>1. hits' = <<>>
  BY DEF ForgetHits
<1>2. Recent' = {}
  BY LimiterAssumption DEF Recent
<1>3. Stamped([e \in {} |-> 0])'
  BY <1>2 DEF Stamped
<1> QED
  BY <1>1, <1>3, LimiterAssumption DEF LimiterInv, Ages

\* Time ages POSTs and timestamps alike.
LEMMA LimiterTicks ==
  ASSUME LimiterInv, Tick
  PROVE  LimiterInv'
<1>0. Window \in Nat /\ Len(hits) \in Nat /\ DOMAIN hits = 1 .. Len(hits) /\ \A i \in 1 .. Len(hits) : hits[i] \in Ages
  BY LimiterAssumption DEF LimiterInv
<1> DEFINE Older(a) == IF a < Window THEN a + 1 ELSE Window
<1>1. /\ hits' = [i \in 1 .. Len(hits) |-> Older(hits[i])]
      /\ age' = [e \in Posted |-> Older(age[e])]
  BY <1>0 DEF Tick, TickLimiter
<1>2. \A a \in Ages : Older(a) \in Ages /\ (Older(a) < Window => a < Window)
  BY <1>0 DEF Ages
<1> HIDE DEF Older
<1>3. hits' \in Seq(Ages) /\ Len(hits') = Len(hits) /\ age' \in [Posted -> Ages]
  <2>1. \A i \in 1 .. Len(hits) : Older(hits[i]) \in Ages
    BY <1>0, <1>2
  <2>2. hits' \in [1 .. Len(hits) -> Ages]
    BY <1>1, <2>1
  <2>3. age' \in [Posted -> Ages]
    BY <1>1, <1>2 DEF LimiterInv
  <2> QED
    BY <1>0, <2>2, <2>3
<1>4. Recent' \subseteq Recent
  BY <1>1, <1>2 DEF Recent, LimiterInv
<1>5. PICK at : Stamped(at)
  BY DEF LimiterInv
<1> DEFINE to == [e \in Recent' |-> at[e]]
<1>6. to \in [Recent' -> 1 .. Len(hits')]
  BY <1>3, <1>4, <1>5 DEF Stamped
<1>7. \A e \in Recent' : hits'[to[e]] = age'[e]
  <2>1. ASSUME NEW e \in Recent'
        PROVE  hits'[at[e]] = age'[e]
    <3>1. e \in Recent /\ e \in Posted /\ at[e] \in 1 .. Len(hits) /\ hits[at[e]] = age[e]
      BY <1>4, <1>5 DEF Stamped, Recent
    <3> QED
      BY <1>1, <3>1
  <2> QED
    BY <2>1
<1>8. \A e, f \in Recent' : e # f => to[e] # to[f]
  BY <1>4, <1>5 DEF Stamped
<1> HIDE DEF to
<1>9. PICK z : /\ z \in [Recent' -> 1 .. Len(hits')]
               /\ \A e \in Recent' : hits'[z[e]] = age'[e]
               /\ \A e, f \in Recent' : e # f => z[e] # z[f]
  BY <1>6, <1>7, <1>8
<1>10. Stamped(z)'
  BY <1>9 DEF Stamped
<1> QED
  BY <1>3, <1>10 DEF LimiterInv

\* A POST that is allowed is stamped; it finds fewer than the limit.
LEMMA LimiterHits ==
  ASSUME LimiterInv, NEW e \in Posted, Allowed, Hit, age' = [age EXCEPT ![e] = 0]
  PROVE  LimiterInv'
<1>0. Window \in Nat \ {0} /\ Most \in Nat /\ Len(hits) \in Nat /\ 0 \in Ages
  BY LimiterAssumption DEF LimiterInv, Ages
<1>1. Live \in Seq(Ages) /\ Selects(hits, Len(hits), Live, Window)
  <2>1. Window \in Int /\ hits \in Seq(Ages)
    BY <1>0 DEF LimiterInv
  <2>2. Younger(Window) \in Seq(Ages) /\ Selects(hits, Len(hits), Younger(Window), Window)
    BY <2>1, LimiterAssumption, YoungerSelects, Zenon
  <2> QED
    BY <2>2 DEF Live
<1> DEFINE n == Len(Live)
<1>2. n \in Nat /\ n < Most /\ hits' = Append(Live, 0)
  BY <1>1 DEF Allowed, Hit
<1>3. hits' \in Seq(Ages) /\ Len(hits') = n + 1 /\ hits'[n + 1] = 0 /\ \A i \in 1 .. n : hits'[i] = Live[i]
  BY <1>0, <1>1, <1>2
<1>4. age' \in [Posted -> Ages] /\ age'[e] = 0 /\ \A f \in Posted : f # e => age'[f] = age[f]
  BY <1>0 DEF LimiterInv
<1>5. e \in Recent' /\ \A f \in Recent' : f = e \/ (f # e /\ f \in Recent)
  BY <1>0, <1>4 DEF Recent
<1>6. PICK at : Stamped(at)
  BY DEF LimiterInv
<1>7. PICK place : Places(hits, Len(hits), Live, Window, place)
  BY <1>1 DEF Selects
<1>8. ASSUME NEW f \in Recent
      PROVE  /\ at[f] \in 1 .. Len(hits) /\ hits[at[f]] = age[f] /\ hits[at[f]] < Window
             /\ place[at[f]] \in 1 .. n /\ Live[place[at[f]]] = age[f]
  <2>1. at[f] \in 1 .. Len(hits) /\ hits[at[f]] = age[f] /\ age[f] < Window
    BY <1>6 DEF Stamped, Recent
  <2> QED
    BY <1>7, <2>1 DEF Places
<1> DEFINE to == [f \in Recent' |-> IF f = e THEN n + 1 ELSE place[at[f]]]
<1>9. to[e] = n + 1 /\ \A f \in Recent' : f # e => to[f] = place[at[f]]
  BY <1>5
<1>10. \A f \in Recent' : to[f] \in 1 .. Len(hits') /\ (f # e => to[f] \in 1 .. n)
  <2>1. ASSUME NEW f \in Recent', f # e
        PROVE  to[f] \in 1 .. n
    BY <1>5, <1>8, <1>9, <2>1
  <2>2. n + 1 \in 1 .. Len(hits') /\ \A i \in 1 .. n : i \in 1 .. Len(hits')
    BY <1>2, <1>3
  <2> QED
    BY <1>9, <2>1, <2>2
<1>11. to \in [Recent' -> 1 .. Len(hits')]
  BY <1>10
<1> HIDE DEF to
<1>12. ASSUME NEW f \in Recent'
       PROVE  hits'[to[f]] = age'[f]
  <2>1. CASE f = e
    BY <1>3, <1>4, <1>9, <2>1
  <2>2. CASE f # e
    <3>1. f \in Recent /\ f \in Posted /\ to[f] = place[at[f]]
      BY <1>5, <1>9, <2>2 DEF Recent
    <3>2. place[at[f]] \in 1 .. n /\ Live[place[at[f]]] = age[f]
      BY <1>8, <3>1
    <3> QED
      BY <1>3, <1>4, <2>2, <3>1, <3>2
  <2> QED
    BY <2>1, <2>2
<1>13. ASSUME NEW f \in Recent', NEW g \in Recent', f # g
       PROVE  to[f] # to[g]
  <2>0. n + 1 \notin 1 .. n
    BY <1>2
  <2>1. CASE f = e \/ g = e
    BY <1>9, <1>10, <1>13, <2>0, <2>1
  <2>2. CASE f # e /\ g # e
    <3>1. f \in Recent /\ g \in Recent
      BY <1>5, <2>2
    <3>2. at[f] # at[g]
      BY <1>6, <1>13, <3>1 DEF Stamped
    <3>3. place[at[f]] # place[at[g]]
      BY <1>7, <1>8, <3>1, <3>2 DEF Places
    <3> QED
      BY <1>9, <2>2, <3>3
  <2> QED
    BY <2>1, <2>2
<1>14. PICK z : /\ z \in [Recent' -> 1 .. Len(hits')]
                /\ \A f \in Recent' : hits'[z[f]] = age'[f]
                /\ \A f, g \in Recent' : f # g => z[f] # z[g]
  BY <1>11, <1>12, <1>13
<1>16. Stamped(z)'
  BY <1>14 DEF Stamped
<1>15. Len(hits') <= Most
  BY <1>0, <1>2, <1>3
<1> QED
  BY <1>3, <1>4, <1>15, <1>16 DEF LimiterInv

\* Every step of the server keeps the limiter's invariant.
LEMMA LimiterStep == LimiterInv /\ [Next]_storeVars => LimiterInv'
<1> SUFFICES ASSUME LimiterInv, [Next]_storeVars PROVE LimiterInv'
  OBVIOUS
<1>1. ASSUME NEW e \in Posted, ReceivePost(e) PROVE LimiterInv'
  BY <1>1, LimiterHits DEF ReceivePost
<1>2. ASSUME NEW e \in Posted, RefusePost(e) PROVE LimiterInv'
  BY <1>2, LimiterQuiet DEF RefusePost
<1>3. ASSUME NEW e \in Reading, BeginRead(e) \/ ReadInPostgres(e) PROVE LimiterInv'
  BY <1>3, LimiterQuiet DEF BeginRead, ReadInPostgres
<1>4. ASSUME NEW e \in Entry, AppendRecord(e) PROVE LimiterInv'
  BY <1>4, LimiterQuiet DEF AppendRecord
<1>5. ASSUME NEW n \in Note, AddNote(n) PROVE LimiterInv'
  BY <1>5, LimiterQuiet DEF AddNote
<1>6. ASSUME NEW p \in Page, LoadCases(p) \/ SyncCase(p) PROVE LimiterInv'
  BY <1>6, LimiterQuiet DEF LoadCases, SyncCase
<1>7. CASE Crash \/ CrashInSave
  BY <1>7, LimiterForgets DEF Crash, CrashInSave, Die
<1>8. CASE Start
  BY <1>8, LimiterQuiet DEF Start
<1>9. CASE Tick
  BY <1>9, LimiterTicks
<1>10. CASE UNCHANGED storeVars
  BY <1>10, LimiterQuiet DEF storeVars
<1> QED
  BY <1>1, <1>2, <1>3, <1>4, <1>5, <1>6, <1>7, <1>8, <1>9, <1>10 DEF Next

\* For any window and limit, no more POSTs than the limit pass within a window
\* of one life of the process, and a client that waits as long as it was told
\* finds a free slot: rateLimit of server.mjs.
THEOREM LimiterTheorem == Spec => [](WindowHolds /\ RetryAfterSuffices)
<1> QED BY LimiterStarts, LimiterStep, LimiterHolds, PTL DEF Spec
=============================================================================
