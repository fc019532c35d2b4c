--------------------------- MODULE AuditCallsProofs ---------------------------
(***************************************************************************)
(* What holds of the client audit log for any number of overlapping calls. *)
(* The inductive invariant adds to the properties themselves the two facts *)
(* they lean on: a call whose digest is not back has no record in the log  *)
(* yet, and the hash such a call covers is one the log already has.        *)
(***************************************************************************)
EXTENDS AuditCalls, TLAPS

Known == {Genesis} \cup {localLog[j].id : j \in 1..Len(localLog)}

\* A call not yet chained has no record (BeginLog .. Chain).
LoggedAfterChain ==
  \A e \in Entry : step[e] \in {"idle", "hashing"} =>
    \A i \in 1..Len(localLog) : localLog[i].id # e

\* While the digest is computed the entry exists and covers a known hash.
HashingIsPrepared ==
  \A e \in Entry : step[e] = "hashing" => content[e] \in Content /\ covers[e] \in Known

IInv ==
  /\ AuditTypeOK
  /\ LoggedAfterChain
  /\ HashingIsPrepared
  /\ ChainLinked
  /\ CoversEarlierRecord

-----------------------------------------------------------------------------
\* ChainOf keeps a log's length, ids and links.
LEMMA ChainOfLog ==
  ASSUME NEW log \in Seq(LogRecord)
  PROVE  /\ ChainOf(log) = <<>> <=> log = <<>>
         /\ Len(ChainOf(log)) = Len(log)
         /\ \A i \in 1..Len(log) : /\ ChainOf(log)[i].id = log[i].id
                                  /\ ChainOf(log)[i].previousHash = log[i].previousHash
<1>1. /\ Len(log) \in Nat
      /\ ChainOf(log) = <<>> <=> log = <<>>
      /\ Len(ChainOf(log)) = Len(log)
  BY DEF ChainOf
<1>2. \A i \in 1..Len(log) : ChainOf(log)[i].id = log[i].id
  BY DEF ChainOf
<1>3. \A i \in 1..Len(log) : ChainOf(log)[i].previousHash = log[i].previousHash
  BY DEF ChainOf
<1> QED
  BY <1>1, <1>2, <1>3

\* ChainLinked in terms of the log itself.
LinkedLog(log, hash) ==
  /\ \A i \in 1..Len(log) :
       log[i].previousHash = IF i = 1 THEN Genesis ELSE log[i - 1].id
  /\ hash = IF log = <<>> THEN Genesis ELSE log[Len(log)].id

\* The bare chain of a log is linked exactly when the log is.
LEMMA SameLinks ==
  ASSUME NEW log \in Seq(LogRecord), NEW hash
  PROVE  LinkedLog(ChainOf(log), hash) <=> LinkedLog(log, hash)
<1>1. /\ Len(log) \in Nat
      /\ log # <<>> => Len(log) \in 1..Len(log)
      /\ \A i \in 1..Len(log) : i # 1 => i - 1 \in 1..Len(log)
  OBVIOUS
<1> QED
  BY <1>1, ChainOfLog DEF LinkedLog

\* So ChainLinked may be read off the log, in a state
LEMMA LinkedMeans ==
  localLog \in Seq(LogRecord) => (ChainLinked <=> LinkedLog(localLog, lastHash))
  BY SameLinks DEF ChainLinked, Ledger!Linked, LinkedLog

\* and in its successor.
LEMMA LinkedMeansNext ==
  localLog' \in Seq(LogRecord) => (ChainLinked' <=> LinkedLog(localLog', lastHash'))
  BY SameLinks DEF ChainLinked, Ledger!Linked, LinkedLog

\* Chain(e) as a change of the log: one more record, the rest as it was.
LEMMA ChainAppends ==
  ASSUME AuditTypeOK, NEW e \in Entry, content[e] \in Content, Chain(e)
  PROVE  /\ localLog' \in Seq(LogRecord)
         /\ Len(localLog') = Len(localLog) + 1
         /\ \A i \in 1..Len(localLog) : localLog'[i] = localLog[i]
         /\ localLog'[Len(localLog) + 1] =
              [id |-> e, content |-> content[e], previousHash |-> lastHash]
  BY DEF AuditTypeOK, Chain, LogRecord

\* Chain(e) is the abstract ledger's Extend(e).
LEMMA ChainExtends ==
  ASSUME IInv, NEW e \in Entry, Chain(e)
  PROVE  Ledger!Extend(e)
<1> USE DEF IInv
<1>1. step[e] = "hashing" /\ lastHash' = e
  BY DEF Chain
<1>2. content[e] \in Content
  BY <1>1 DEF HashingIsPrepared
<1>3. /\ localLog \in Seq(LogRecord) /\ localLog' \in Seq(LogRecord)
      /\ Len(localLog) \in Nat /\ Len(localLog') = Len(localLog) + 1
      /\ \A i \in 1..Len(localLog) : localLog'[i] = localLog[i]
      /\ localLog'[Len(localLog) + 1] =
           [id |-> e, content |-> content[e], previousHash |-> lastHash]
  <2>1. localLog \in Seq(LogRecord) /\ Len(localLog) \in Nat
    BY DEF AuditTypeOK
  <2> QED
    BY <1>2, <2>1, ChainAppends
<1>4. \A i \in 1..Len(ChainOf(localLog)) : ChainOf(localLog)[i].id # e
  BY <1>1, <1>3 DEF LoggedAfterChain, ChainOf
<1>5. ChainOf(localLog') = Append(ChainOf(localLog), [id |-> e, previousHash |-> lastHash])
  BY <1>3 DEF ChainOf
<1> QED
  BY <1>1, <1>4, <1>5 DEF Ledger!Extend

\* Every other step of a call leaves the log and its head alone.
LEMMA OthersLeaveTheLog ==
  ASSUME NEW e \in Entry, NEW what, BeginLog(e, what) \/ HashFails(e) \/ PostSettles(e)
  PROVE  UNCHANGED <<localLog, lastHash>>
  BY DEF BeginLog, HashFails, PostSettles

\* Such a step cannot unlink the chain or change what its hashes cover.
LEMMA LogUntouched ==
  ASSUME ChainLinked, CoversEarlierRecord, UNCHANGED <<localLog, lastHash, covers>>
  PROVE  ChainLinked' /\ CoversEarlierRecord'
<1>1. ChainLinked'
  <2> DEFINE bare == ChainOf(localLog)
  <2>1. bare' = bare
    BY DEF ChainOf
  <2> HIDE DEF bare
  <2> QED
    BY <2>1 DEF ChainLinked, Ledger!Linked, bare
<1>2. CoversEarlierRecord'
  BY DEF CoversEarlierRecord
<1> QED
  BY <1>1, <1>2

\* The head of the chain is always a known hash.
LEMMA HeadIsKnown ==
  ASSUME AuditTypeOK, ChainLinked
  PROVE  lastHash \in Known
<1>1. localLog \in Seq(LogRecord)
  BY DEF AuditTypeOK
<1>2. localLog # <<>> => Len(localLog) \in 1..Len(localLog)
  BY <1>1
<1> QED
  BY <1>1, <1>2, LinkedMeans DEF Known, LinkedLog

-----------------------------------------------------------------------------
\* The types, the chain and what its hashes cover: the inductive invariant.
THEOREM Invariance == LogSpec => []IInv
<1>1. AuditInit => IInv
  <2> SUFFICES ASSUME AuditInit PROVE IInv
    OBVIOUS
  <2> USE DEF AuditInit
  <2>1. AuditTypeOK
    BY DEF AuditTypeOK, Hash, Step
  <2>2. LoggedAfterChain /\ HashingIsPrepared /\ CoversEarlierRecord
    BY DEF LoggedAfterChain, HashingIsPrepared, CoversEarlierRecord
  <2>3. ChainLinked
    BY <2>1, LinkedMeans DEF AuditTypeOK, LinkedLog
  <2> QED
    BY <2>1, <2>2, <2>3 DEF IInv
<1>2. IInv /\ [LogNext]_auditVars => IInv'
  <2> SUFFICES ASSUME IInv, [LogNext]_auditVars PROVE IInv'
    OBVIOUS
  <2> USE DEF IInv
  <2>1. ASSUME NEW e \in Entry, NEW what \in Content, BeginLog(e, what) PROVE IInv'
    <3>0. /\ step[e] = "idle" /\ localLog' = localLog /\ lastHash' = lastHash
          /\ step' = [step EXCEPT ![e] = "hashing"]
          /\ content' = [content EXCEPT ![e] = what]
          /\ covers' = [covers EXCEPT ![e] = lastHash]
          /\ webCrypto' = webCrypto
      BY <2>1 DEF BeginLog
    <3>1. AuditTypeOK'
      BY <3>0 DEF AuditTypeOK, Step
    <3>2. LoggedAfterChain'
      BY <3>0 DEF LoggedAfterChain, AuditTypeOK
    <3>3. HashingIsPrepared'
      BY <3>0, HeadIsKnown DEF HashingIsPrepared, AuditTypeOK, Known
    <3>4. ChainLinked'
      BY <3>0 DEF ChainLinked, Ledger!Linked, ChainOf
    <3>5. CoversEarlierRecord'
      BY <3>0 DEF CoversEarlierRecord, LoggedAfterChain, AuditTypeOK
    <3> QED
      BY <3>1, <3>2, <3>3, <3>4, <3>5
  <2>2. ASSUME NEW e \in Entry, Chain(e) PROVE IInv'
    <3>0. /\ step[e] = "hashing"
          /\ step' = [step EXCEPT ![e] = "posting"]
          /\ lastHash' = e
          /\ UNCHANGED <<webCrypto, content, covers>>
      BY <2>2 DEF Chain
    <3>a. content[e] \in Content /\ covers[e] \in Known
      BY <3>0 DEF HashingIsPrepared
    <3>b. /\ localLog' \in Seq(LogRecord)
          /\ Len(localLog') = Len(localLog) + 1
          /\ \A i \in 1..Len(localLog) : localLog'[i] = localLog[i]
          /\ localLog'[Len(localLog) + 1].id = e
          /\ localLog'[Len(localLog) + 1].previousHash = lastHash
      <4>1. /\ localLog' \in Seq(LogRecord)
            /\ Len(localLog') = Len(localLog) + 1
            /\ \A i \in 1..Len(localLog) : localLog'[i] = localLog[i]
            /\ localLog'[Len(localLog) + 1] =
                 [id |-> e, content |-> content[e], previousHash |-> lastHash]
        BY <2>2, <3>a, ChainAppends
      <4> QED
        BY <4>1
    <3>c. localLog \in Seq(LogRecord) /\ Len(localLog) \in Nat
      BY DEF AuditTypeOK
    <3>1. AuditTypeOK'
      BY <3>0, <3>b DEF AuditTypeOK, Hash, Step
    <3>2. LoggedAfterChain'
      <4> SUFFICES ASSUME NEW f \in Entry, step'[f] \in {"idle", "hashing"},
                          NEW i \in 1..Len(localLog')
                   PROVE  localLog'[i].id # f
        BY DEF LoggedAfterChain
      <4>1. f # e /\ step[f] \in {"idle", "hashing"}
        BY <3>0 DEF AuditTypeOK
      <4> QED
        BY <4>1, <3>b, <3>c DEF LoggedAfterChain
    <3>3. HashingIsPrepared'
      <4>1. Known \subseteq Known'
        BY <3>b, <3>c DEF Known
      <4> QED
        BY <4>1, <3>0 DEF HashingIsPrepared, AuditTypeOK
    <3>4. ChainLinked'
      <4>1. LinkedLog(localLog, lastHash)
        BY <3>c, LinkedMeans
      <4>2. LinkedLog(localLog', lastHash')
        <5>1. ASSUME NEW i \in 1..Len(localLog')
              PROVE  localLog'[i].previousHash = IF i = 1 THEN Genesis ELSE localLog'[i - 1].id
          <6>1. CASE i \in 1..Len(localLog)
            BY <3>b, <3>c, <4>1, <6>1 DEF LinkedLog
          <6>2. CASE i = Len(localLog) + 1
            BY <3>b, <3>c, <4>1, <6>2 DEF LinkedLog
          <6> QED
            BY <3>b, <3>c, <6>1, <6>2
        <5>2. localLog' # <<>> /\ lastHash' = localLog'[Len(localLog')].id
          BY <3>0, <3>b, <3>c
        <5> QED
          BY <5>1, <5>2 DEF LinkedLog
      <4> QED
        BY <4>2, <3>b, LinkedMeansNext
    <3>5. CoversEarlierRecord'
      <4> SUFFICES ASSUME NEW i \in 1..Len(localLog')
                   PROVE  covers'[localLog'[i].id] \in
                            {Genesis} \cup {localLog'[j].id : j \in 1..(i - 1)}
        BY DEF CoversEarlierRecord
      <4>1. CASE i \in 1..Len(localLog)
        <5>1. localLog'[i] = localLog[i] /\ \A j \in 1..(i - 1) : localLog'[j] = localLog[j]
          BY <4>1, <3>b, <3>c
        <5>2. covers[localLog[i].id] \in {Genesis} \cup {localLog[j].id : j \in 1..(i - 1)}
          BY <4>1 DEF CoversEarlierRecord
        <5>3. {localLog'[j].id : j \in 1..(i - 1)} = {localLog[j].id : j \in 1..(i - 1)}
          BY <5>1
        <5> QED
          BY <5>1, <5>2, <5>3, <3>0
      <4>2. CASE i = Len(localLog) + 1
        BY <4>2, <3>0, <3>a, <3>b, <3>c DEF Known
      <4> QED
        BY <4>1, <4>2, <3>b, <3>c
    <3> QED
      BY <3>1, <3>2, <3>3, <3>4, <3>5
  <2>3. ASSUME NEW e \in Entry, HashFails(e) PROVE IInv'
    <3>1. AuditTypeOK'
      BY <2>3 DEF HashFails, AuditTypeOK, Step
    <3>2. LoggedAfterChain'
      BY <2>3 DEF HashFails, LoggedAfterChain, AuditTypeOK
    <3>3. HashingIsPrepared'
      BY <2>3 DEF HashFails, HashingIsPrepared, AuditTypeOK, Known
    <3>4. ChainLinked' /\ CoversEarlierRecord'
      BY <2>3, LogUntouched DEF HashFails
    <3> QED
      BY <3>1, <3>2, <3>3, <3>4
  <2>4. ASSUME NEW e \in Entry, PostSettles(e) PROVE IInv'
    <3>1. AuditTypeOK'
      BY <2>4 DEF PostSettles, AuditTypeOK, Step
    <3>2. LoggedAfterChain'
      BY <2>4 DEF PostSettles, LoggedAfterChain, AuditTypeOK
    <3>3. HashingIsPrepared'
      BY <2>4 DEF PostSettles, HashingIsPrepared, AuditTypeOK, Known
    <3>4. ChainLinked' /\ CoversEarlierRecord'
      BY <2>4, LogUntouched DEF PostSettles
    <3> QED
      BY <3>1, <3>2, <3>3, <3>4
  <2>5. CASE UNCHANGED auditVars
    <3>1. AuditTypeOK' /\ LoggedAfterChain' /\ HashingIsPrepared'
      BY <2>5 DEF auditVars, AuditTypeOK, LoggedAfterChain, HashingIsPrepared, Known
    <3>2. ChainLinked' /\ CoversEarlierRecord'
      BY <2>5, LogUntouched DEF auditVars
    <3> QED
      BY <3>1, <3>2
  <2> QED
    BY <2>1, <2>2, <2>3, <2>4, <2>5 DEF LogNext, LogCall
<1> QED
  BY <1>1, <1>2, PTL DEF LogSpec

\* The type invariant, for any set of calls and contents.
THEOREM TypeCorrect == LogSpec => []AuditTypeOK
  BY Invariance, PTL DEF IInv

\* verifyChainIntegrity() never finds a broken chain.
THEOREM AlwaysLinked == LogSpec => []ChainLinked
  BY Invariance, PTL DEF IInv

\* A record's hash is always over genesis or an earlier record's hash.
THEOREM HashesCoverTheirPast == LogSpec => []CoversEarlierRecord
  BY Invariance, PTL DEF IInv

\* The client audit log implements the abstract hash chain.
THEOREM ImplementsLedger == LogSpec => KeepsLedgerPromise
<1>1. AuditInit => Ledger!Init
  BY DEF AuditInit, Ledger!Init, ChainOf
<1>2. IInv /\ [LogNext]_auditVars => [Ledger!Next]_<<ChainOf(localLog), lastHash>>
  <2> SUFFICES ASSUME IInv, [LogNext]_auditVars
               PROVE  Ledger!Next \/ UNCHANGED <<ChainOf(localLog), lastHash>>
    OBVIOUS
  <2>1. ASSUME NEW e \in Entry, Chain(e) PROVE Ledger!Next
    BY <2>1, ChainExtends DEF Ledger!Next
  <2>2. ASSUME UNCHANGED <<localLog, lastHash>>
        PROVE  UNCHANGED <<ChainOf(localLog), lastHash>>
    BY <2>2 DEF ChainOf
  <2>3. CASE UNCHANGED auditVars
    BY <2>2, <2>3 DEF auditVars
  <2> QED
    BY <2>1, <2>2, <2>3, OthersLeaveTheLog DEF LogNext, LogCall
<1> QED
  BY <1>1, <1>2, Invariance, PTL DEF LogSpec, KeepsLedgerPromise, Ledger!Spec
=============================================================================
