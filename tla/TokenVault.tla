------------------------------ MODULE TokenVault ------------------------------
(***************************************************************************)
(* credentialVault.js in the pages and /api/v1/vault of server.mjs: the    *)
(* broker token that the server keeps encrypted in its db, the copy that   *)
(* each page caches until it expires, and revocation, which clears the     *)
(* revoking page's copy and the server's.  The db is written to its file   *)
(* by every handler that changes it, and read back when the server starts. *)
(***************************************************************************)
EXTENDS Naturals, FiniteSets

CONSTANTS
  Page,
  Token,        \* tokens that are stored, each once
  Ttl,          \* 900 s, in ticks of the clock
  MaxClock      \* bound

Sandbox == "sandbox"    \* what the server answers when it has no token
None == "no token"
Unmade == "no vault"    \* what db.vault is before a first token

ASSUME TokenAssumption ==
  /\ {Sandbox, None, Unmade} \cap Token = {}
  /\ Ttl \in Nat /\ MaxClock \in Nat

VARIABLES
  clock,
  vault,        \* db.vault and db.vault.alpaca: [token, till], or none
  vaultFile,    \* what the server's file holds of it
  behind,       \* whether the last save left the file as it was
  reverted,     \* whether the server was started again on such a file
  cached,       \* each page's cachedToken and tokenExpiry
  fetches,      \* answers on their way to a page: [page, token, left]
  stores, deletes,   \* requests on their way: tokens; pages that revoke
  dead,         \* tokens the server has deleted: [token, at, by]
  stray         \* <<page, token>>: taken between a page's revocation and the deletion,
                \* or still on the way at the deletion

serverSide == <<vault, vaultFile, behind, reverted>>
tokenVars == <<clock, serverSide, cached, fetches, stores, deletes, dead, stray>>

NoToken == [token |-> None, till |-> 0]
NoVault == [token |-> Unmade, till |-> 0]

VaultTokensInit ==
  /\ clock = 0 /\ cached = [p \in Page |-> NoToken]
  /\ vault = NoVault /\ vaultFile = NoVault /\ behind = FALSE /\ reverted = FALSE
  /\ fetches = {} /\ stores = {} /\ deletes = {} /\ dead = {} /\ stray = {}

\* saveDb, whose error is logged and swallowed: the file is written, left as it
\* was, or cut off, and then initDb begins anew, without a vault.
SaveVault(v) ==
  \/ vaultFile' = v /\ behind' = FALSE
  \/ vaultFile' = NoVault /\ behind' = FALSE
  \/ vaultFile' = vaultFile /\ behind' = TRUE

StoreToken(t) ==
  /\ t \notin stores /\ t \notin {vault.token, vaultFile.token} /\ \A d \in dead : d.token # t
  /\ \A p \in Page : cached[p].token # t
  /\ stores' = stores \cup {t}
  /\ UNCHANGED <<clock, serverSide, cached, fetches, deletes, dead, stray>>

StoreArrives(t) ==
  /\ t \in stores /\ stores' = stores \ {t}
  /\ vault' = [token |-> t, till |-> clock + Ttl] /\ SaveVault(vault')
  /\ UNCHANGED <<clock, reverted, cached, fetches, deletes, dead, stray>>

\* The vault is limited to so many requests; a request may also be lost.
StoreRefused(t) ==
  /\ t \in stores /\ stores' = stores \ {t}
  /\ UNCHANGED <<clock, serverSide, cached, fetches, deletes, dead, stray>>

CacheValid(p) == cached[p].token # None /\ clock < cached[p].till

\* What a page uses at the broker when its cache answers.
InUse(p) == IF CacheValid(p) THEN cached[p].token ELSE None

\* Expired or not, the server answers with the token and the time that is left.
Access(p) ==
  /\ ~CacheValid(p) /\ \A f \in fetches : f.page # p
  /\ LET left == IF vault.till > clock THEN vault.till - clock ELSE 0
     IN fetches' = fetches \cup
          {IF vault.token \notin Token THEN [page |-> p, token |-> Sandbox, left |-> Ttl]
           ELSE [page |-> p, token |-> vault.token, left |-> left]}
  /\ UNCHANGED <<clock, serverSide, cached, stores, deletes, dead, stray>>

\* expiresIn 0 is falsy, and becomes the default.
AccessArrives(f) ==
  /\ f \in fetches /\ fetches' = fetches \ {f}
  /\ cached' = [cached EXCEPT ![f.page] =
       [token |-> f.token, till |-> clock + IF f.left = 0 THEN Ttl ELSE f.left]]
  /\ stray' = IF f.page \in deletes /\ f.token \in Token THEN stray \cup {<<f.page, f.token>>} ELSE stray
  /\ UNCHANGED <<clock, serverSide, stores, deletes, dead>>

AccessFails(f) ==
  /\ f \in fetches /\ fetches' = fetches \ {f}
  /\ UNCHANGED <<clock, serverSide, cached, stores, deletes, dead, stray>>

\* revokeAllTokens up to its await.
Revoke(p) ==
  /\ p \notin deletes /\ deletes' = deletes \cup {p}
  /\ cached' = [cached EXCEPT ![p] = NoToken]
  /\ UNCHANGED <<clock, serverSide, fetches, stores, dead, stray>>

\* A slip in reach of this code: the deletion is not saved.
DeleteUnsaved(p) ==
  /\ p \in deletes /\ deletes' = deletes \ {p}
  /\ vault' = IF vault = NoVault THEN NoVault ELSE NoToken
  /\ dead' = IF vault.token \in Token
             THEN dead \cup {[token |-> vault.token, at |-> clock, by |-> p]} ELSE dead
  /\ stray' = stray \cup {<<q, vault.token>> : q \in
       {f.page : f \in {g \in fetches : g.token = vault.token}}}
  /\ UNCHANGED <<clock, vaultFile, behind, reverted, cached, fetches, stores>>

\* Without a db.vault there is nothing to delete or to save.
DeleteArrives(p) ==
  /\ p \in deletes /\ deletes' = deletes \ {p}
  /\ IF vault = NoVault THEN UNCHANGED <<vault, vaultFile, behind>>
     ELSE vault' = NoToken /\ SaveVault(NoToken)
  /\ dead' = IF vault.token \in Token
             THEN dead \cup {[token |-> vault.token, at |-> clock, by |-> p]} ELSE dead
  /\ stray' = stray \cup {<<q, vault.token>> : q \in
       {f.page : f \in {g \in fetches : g.token = vault.token}}}
  /\ UNCHANGED <<clock, reverted, cached, fetches, stores>>

\* A request that never arrives is reported as done all the same:
\* .catch(() => ({ ok: true })).
DeleteLost(p) ==
  /\ p \in deletes /\ deletes' = deletes \ {p}
  /\ UNCHANGED <<clock, serverSide, cached, fetches, stores, dead, stray>>

\* The other handlers that save write the whole db.
SaveElsewhere ==
  /\ SaveVault(vault)
  /\ UNCHANGED <<clock, vault, reverted, cached, fetches, stores, deletes, dead, stray>>

\* A new process, with the db that initDb reads.
ServerRestarts ==
  /\ vault' = vaultFile /\ reverted' = (reverted \/ behind) /\ behind' = FALSE
  /\ UNCHANGED <<clock, vaultFile, cached, fetches, stores, deletes, dead, stray>>

TokenClock ==
  /\ clock < MaxClock /\ clock' = clock + 1
  /\ UNCHANGED <<serverSide, cached, fetches, stores, deletes, dead, stray>>

TokenNext ==
  \/ (\E t \in Token : StoreToken(t) \/ StoreArrives(t) \/ StoreRefused(t))
  \/ (\E p \in Page : Access(p) \/ Revoke(p) \/ DeleteArrives(p) \/ DeleteLost(p))
  \/ (\E f \in fetches : AccessArrives(f) \/ AccessFails(f))
  \/ SaveElsewhere \/ ServerRestarts \/ TokenClock

TokenSpec == VaultTokensInit /\ [][TokenNext]_tokenVars

-----------------------------------------------------------------------------
(* A token that the server has deleted is in its memory again only after a *)
(* restart on a file that a failed save had left behind, and in the file   *)
(* only while a save has failed or after such a restart.  Short of that, a *)
(* page that had cached it uses it for one more lifetime at most, unless   *)
(* the answer was still on its way; and the page that revoked it does not  *)
(* use it at all, unless it fetched it again before its revocation reached *)
(* the server.                                                             *)
TokensStayRevoked == \A d \in dead :
  /\ vault.token = d.token => reverted
  /\ vaultFile.token = d.token => reverted \/ behind
  /\ \A p \in Page : InUse(p) = d.token /\ ~reverted /\ <<p, d.token>> \notin stray =>
       cached[p].till <= d.at + Ttl /\ d.by # p
=============================================================================
