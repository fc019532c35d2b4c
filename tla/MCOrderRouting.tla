---------------------------- MODULE MCOrderRouting ----------------------------
(***************************************************************************)
(* The order path, and beside it the vault of the broker's credentials,    *)
(* with which it shares no state: each behaviour runs one, the other rests. *)
(***************************************************************************)
EXTENDS OrderRouting, TokenVault

VARIABLE focus

MCInit ==
  /\ focus \in {"orders", "tokens"}
  /\ VaultTokensInit /\ Init
  /\ focus = "tokens" => ~keys /\ ~webCrypto

\* Nothing is said of the tokens once a restart has taken the server back: a bound.
MCNext ==
  /\ UNCHANGED focus
  /\ \/ focus = "orders" /\ Next /\ UNCHANGED tokenVars
     \/ focus = "tokens" /\ ~reverted /\ TokenNext /\ UNCHANGED vars

MCSpec ==
  /\ MCInit
  /\ [][MCNext]_<<focus, vars, tokenVars>>
  /\ \A o \in Order : WF_vars(Proceed(o))
=============================================================================
