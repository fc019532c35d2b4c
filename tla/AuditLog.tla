------------------------------- MODULE AuditLog -------------------------------
(***************************************************************************)
(* The client audit log, class ImmutableAuditLog of                        *)
(* src/services/auditLog/immutableAuditLog.js.  logOrderSubmission and     *)
(* logRiskGuardrailTriggered differ in the fields of the entry only; both  *)
(* are the three steps of one call here, cut at their two awaits:          *)
(*   BeginLog      the entry is made; it and lastHash go to computeSha256  *)
(*   Chain         the digest is back: lastHash is read AGAIN for          *)
(*                 previousHash, replaced by the digest, the record pushed *)
(*   PostSettles   the POST to the server has an answer or an error, both  *)
(*                 ignored                                                 *)
(* A digest is named by the entry it is of (see HashChain); what it was    *)
(* computed over is kept in "covers".                                      *)
(***************************************************************************)
EXTENDS Sequences, Naturals

CONSTANTS
  Entry,     \* one for each call of a log method
  Content,   \* what a record says
  Genesis    \* the initial lastHash, 64 zeros

ASSUME GenesisAssumption == Genesis \notin Entry

VARIABLES
  webCrypto,   \* whether the page has crypto.subtle; it never changes
  lastHash,
  localLog,    \* the records: [id, content, previousHash]
  step,        \* where each call is
  content,     \* what the call's entry says, once it is made
  covers       \* the lastHash each call's digest was computed over

auditVars == <<webCrypto, lastHash, localLog, step, content, covers>>

Hash == Entry \cup {Genesis}
Step == {"idle", "hashing", "posting", "done"}
LogRecord == [id : Entry, content : Content, previousHash : Hash]

AuditTypeOK ==
  /\ webCrypto \in BOOLEAN
  /\ lastHash \in Hash
  /\ localLog \in Seq(LogRecord)
  /\ step \in [Entry -> Step]
  /\ content \in [Entry -> Content \cup {"none"}]
  /\ covers \in [Entry -> Hash]

AuditInit ==
  /\ webCrypto \in BOOLEAN
  /\ lastHash = Genesis
  /\ localLog = <<>>
  /\ step = [e \in Entry |-> "idle"]
  /\ content = [e \in Entry |-> "none"]
  /\ covers = [e \in Entry |-> Genesis]

-----------------------------------------------------------------------------
\* A slip in reach of this code: lastHash advanced when the call starts.
BeginLogAndAdvance(e, what) ==
  /\ step[e] = "idle"
  /\ step' = [step EXCEPT ![e] = "hashing"]
  /\ content' = [content EXCEPT ![e] = what]
  /\ covers' = [covers EXCEPT ![e] = lastHash]
  /\ lastHash' = e
  /\ UNCHANGED <<webCrypto, localLog>>

BeginLog(e, what) ==
  /\ step[e] = "idle"
  /\ step' = [step EXCEPT ![e] = "hashing"]
  /\ content' = [content EXCEPT ![e] = what]
  /\ covers' = [covers EXCEPT ![e] = lastHash]
  /\ UNCHANGED <<webCrypto, lastHash, localLog>>

\* A slip in reach of this code: previousHash taken before the await, like the
\* argument of computeSha256.
ChainOnStaleHash(e) ==
  /\ webCrypto
  /\ step[e] = "hashing"
  /\ localLog' = Append(localLog,
       [id |-> e, content |-> content[e], previousHash |-> covers[e]])
  /\ lastHash' = e
  /\ step' = [step EXCEPT ![e] = "posting"]
  /\ UNCHANGED <<webCrypto, content, covers>>

Chain(e) ==
  /\ webCrypto
  /\ step[e] = "hashing"
  /\ localLog' = Append(localLog,
       [id |-> e, content |-> content[e], previousHash |-> lastHash])
  /\ lastHash' = e
  /\ step' = [step EXCEPT ![e] = "posting"]
  /\ UNCHANGED <<webCrypto, content, covers>>

\* Without crypto.subtle computeSha256 throws, and so does the log call.  The
\* caller may log the same order again.
HashFails(e) ==
  /\ ~webCrypto
  /\ step[e] = "hashing"
  /\ step' = [step EXCEPT ![e] = "idle"]
  /\ UNCHANGED <<webCrypto, lastHash, localLog, content, covers>>

PostSettles(e) ==
  /\ step[e] = "posting"
  /\ step' = [step EXCEPT ![e] = "done"]
  /\ UNCHANGED <<webCrypto, lastHash, localLog, content, covers>>
=============================================================================
