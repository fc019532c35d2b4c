----------------------------- MODULE StreamWorker -----------------------------
(***************************************************************************)
(* streamWorker.js: a web worker that collects the messages of a socket    *)
(* and posts them in batches, and reconnects when the socket closes.  A    *)
(* socket's close() is reported later, by its close event.                 *)
(***************************************************************************)
EXTENDS Naturals, FiniteSets

CONSTANTS
  Sockets,      \* bound: how many sockets are opened
  MaxBuffer     \* MAX_BUFFER_ITEMS

ASSUME WorkerAssumption == Sockets \in Nat /\ MaxBuffer \in Nat

VARIABLES
  sockets,      \* each socket: "unused", "connecting", "open", "closing", "closed"
  socket,       \* the one the worker holds, 0 for null
  stopped, flushing,  \* flushing: the flush timer is set
  reconnecting, \* the reconnect timer is set
  buffered,     \* how many messages wait for the next flush
  crossed       \* whether a CONNECT came before every older socket was closed

workerVars == <<sockets, socket, stopped, flushing, reconnecting, buffered, crossed>>

Socket == 1 .. Sockets
Alive == {s \in Socket : sockets[s] \in {"connecting", "open", "closing"}}

WorkerInit ==
  /\ sockets = [s \in Socket |-> "unused"] /\ socket = 0
  /\ stopped = TRUE /\ flushing = FALSE /\ reconnecting = FALSE /\ buffered = 0 /\ crossed = FALSE

\* connect(): the next socket, whatever became of the others.
NewSocket(s) ==
  /\ sockets[s] = "unused" /\ \A other \in 1 .. (s - 1) : sockets[other] # "unused"
  /\ sockets' = [sockets EXCEPT ![s] = "connecting"] /\ socket' = s

Connect(s) ==
  /\ stopped' = FALSE /\ flushing' = TRUE /\ NewSocket(s)
  /\ crossed' = (crossed \/ Alive # {} \/ reconnecting)
  /\ UNCHANGED <<reconnecting, buffered>>

\* A slip in reach of this code: the reconnect timer is forgotten.
DisconnectBetween ==
  /\ stopped' = TRUE /\ flushing' = FALSE /\ buffered' = 0
  /\ sockets' = [s \in Socket |-> IF s = socket THEN "closing" ELSE sockets[s]] /\ socket' = 0
  /\ UNCHANGED <<reconnecting, crossed>>

\* The one the worker holds is closed; an older one is not.
Disconnect ==
  /\ stopped' = TRUE /\ flushing' = FALSE /\ reconnecting' = FALSE /\ buffered' = 0
  /\ sockets' = [s \in Socket |-> IF s = socket THEN "closing" ELSE sockets[s]] /\ socket' = 0
  /\ UNCHANGED crossed

Opened(s) ==
  /\ sockets[s] = "connecting" /\ sockets' = [sockets EXCEPT ![s] = "open"]
  /\ UNCHANGED <<socket, stopped, flushing, reconnecting, buffered, crossed>>

\* A full buffer drops its oldest message.
Message(s) ==
  /\ sockets[s] = "open" /\ buffered' = IF buffered = MaxBuffer THEN buffered ELSE buffered + 1
  /\ UNCHANGED <<sockets, socket, stopped, flushing, reconnecting, crossed>>

\* The close event forgets the socket that the worker holds, not the closed one.
Closed(s) ==
  /\ s \in Alive /\ sockets' = [sockets EXCEPT ![s] = "closed"]
  /\ socket' = 0 /\ reconnecting' = (reconnecting \/ ~stopped)
  /\ UNCHANGED <<stopped, flushing, buffered, crossed>>

Reconnect(s) ==
  /\ reconnecting /\ reconnecting' = FALSE /\ ~stopped /\ NewSocket(s)
  /\ UNCHANGED <<stopped, flushing, buffered, crossed>>

FlushBuffer ==
  /\ flushing /\ buffered > 0 /\ buffered' = 0
  /\ UNCHANGED <<sockets, socket, stopped, flushing, reconnecting, crossed>>

WorkerNext ==
  \/ \E s \in Socket : Connect(s) \/ Opened(s) \/ Message(s) \/ Closed(s) \/ Reconnect(s)
  \/ Disconnect \/ FlushBuffer

WorkerSpec == WorkerInit /\ [][WorkerNext]_workerVars

-----------------------------------------------------------------------------
(* One socket feeds the buffer, and after DISCONNECT none does and nothing *)
(* is kept, unless a CONNECT came while an older socket was not closed yet *)
(* or a reconnection was due: then both go on.                             *)
OneSocketFeeds ==
  crossed \/ /\ Cardinality(Alive) <= 1 /\ (reconnecting => Alive = {})
             /\ stopped => buffered = 0 /\ ~reconnecting /\ \A s \in Alive : sockets[s] = "closing"
=============================================================================
