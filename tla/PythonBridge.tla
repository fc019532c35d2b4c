----------------------------- MODULE PythonBridge -----------------------------
(***************************************************************************)
(* pythonBridge.js and the engine it spawns (python_engine/main.py): calls *)
(* are lines of JSON on the engine's stdin, answers lines on its stdout,   *)
(* matched by a request id.  A call that cannot be sent, that times out or *)
(* that the engine answers with an error is answered by the fallback.      *)
(* Only a write to an engine that just ended is not survived.              *)
(***************************************************************************)
EXTENDS Naturals, Sequences, FiniteSets

CONSTANT Call   \* the calls that are made

VARIABLES
  engine,     \* the process: "unborn", "up", "failing" (the spawn will report an
              \* error), "dying" (its exit is not yet reported), "over", "null"
  available, ready, pinging,  \* isPythonAvailable, ready; the timer of 500 ms
  asked,      \* the calls in the order of their request ids
  handlers,   \* pendingRequests: ids
  timers,     \* the ids whose timeout is set
  called,     \* the calls made
  outcome,    \* how each call's promise was resolved
  stdin, stdout   \* lines on their way: ids; [id, ok], id 0 for "ready"

bridgeVars == <<engine, available, ready, pinging, asked, handlers, timers, called, outcome, stdin, stdout>>

NoAnswer == "none"
Fallback == "fallback"

ASSUME BridgeAssumption == NoAnswer \notin Call /\ Fallback \notin Call

BridgeInit ==
  /\ engine = "unborn" /\ available = FALSE /\ ready = FALSE /\ pinging = FALSE
  /\ asked = <<>> /\ handlers = {} /\ timers = {} /\ called = {}
  /\ outcome = [c \in Call |-> NoAnswer] /\ stdin = <<>> /\ stdout = <<>>

\* Only the first resolve() of a promise counts.
Resolve(c, value) == outcome' = [outcome EXCEPT ![c] = IF @ = NoAnswer THEN value ELSE @]

\* The first call spawns the engine, which announces itself, and is itself
\* answered by the fallback.  A spawn that throws leaves no process.
Initialize(c) ==
  /\ engine = "unborn" /\ called' = called \cup {c}
  /\ engine' \in {"up", "failing", "null"} /\ pinging' = (engine' # "null")
  /\ stdout' = IF engine' = "up" THEN <<[id |-> 0, ok |-> TRUE]>> ELSE <<>>
  /\ Resolve(c, Fallback)
  /\ UNCHANGED <<available, ready, asked, handlers, timers, stdin>>

Usable == available /\ ready /\ engine # "null"

FallBack(c) ==
  /\ c \notin called /\ engine # "unborn" /\ ~Usable
  /\ called' = called \cup {c} /\ Resolve(c, Fallback)
  /\ UNCHANGED <<engine, available, ready, pinging, asked, handlers, timers, stdin, stdout>>

\* A line written to a process that is no more goes nowhere.  A write that
\* throws leaves its handler behind.
Delegate(c, throws) ==
  /\ c \notin called /\ Usable
  /\ called' = called \cup {c} /\ asked' = Append(asked, c) /\ handlers' = handlers \cup {Len(asked')}
  /\ IF throws THEN Resolve(c, Fallback) /\ UNCHANGED <<timers, stdin>>
     ELSE /\ timers' = timers \cup {Len(asked')}
          /\ stdin' = IF engine = "up" THEN Append(stdin, Len(asked')) ELSE stdin
          /\ UNCHANGED outcome
  /\ UNCHANGED <<engine, available, ready, pinging, stdout>>

\* No one listens to the error of a write to an engine that has ended, unless
\* its exit was reported, which closes stdin: Node ends with all its promises,
\* and the bridge of the next server begins anew.
WriteBreaks(c) ==
  /\ c \notin called /\ Usable /\ engine = "dying"
  /\ engine' = "unborn" /\ available' = FALSE /\ ready' = FALSE /\ pinging' = FALSE
  /\ asked' = <<>> /\ handlers' = {} /\ timers' = {} /\ called' = {}
  /\ outcome' = [d \in Call |-> NoAnswer] /\ stdin' = <<>> /\ stdout' = <<>>

\* handle_request: a result or the text of an exception, in the order asked.
EngineAnswers(ok) ==
  /\ engine = "up" /\ stdin # <<>> /\ stdin' = Tail(stdin)
  /\ stdout' = Append(stdout, [id |-> Head(stdin), ok |-> ok])
  /\ UNCHANGED <<engine, available, ready, pinging, asked, handlers, timers, called, outcome>>

\* handleMessage: an id without a handler was answered before.
ReadLine ==
  /\ stdout # <<>> /\ stdout' = Tail(stdout)
  /\ LET line == Head(stdout)
     IN /\ IF line.id = 0 THEN ready' = TRUE /\ available' = TRUE ELSE UNCHANGED <<ready, available>>
        /\ handlers' = handlers \ {line.id}
        /\ IF line.id \in handlers
           THEN /\ timers' = timers \ {line.id}
                /\ Resolve(asked[line.id], IF line.ok THEN asked[line.id] ELSE Fallback)
           ELSE UNCHANGED <<timers, outcome>>
  /\ UNCHANGED <<engine, pinging, asked, called, stdin>>

\* A line split over two chunks of data: neither half parses.
LineSplit ==
  /\ stdout # <<>> /\ stdout' = Tail(stdout)
  /\ UNCHANGED <<engine, available, ready, pinging, asked, handlers, timers, called, outcome, stdin>>

\* A slip in reach of this code: nobody is told of the timeout.
TimesOutSilently(id) ==
  /\ id \in timers /\ timers' = timers \ {id} /\ handlers' = handlers \ {id}
  /\ UNCHANGED <<engine, available, ready, pinging, asked, called, outcome, stdin, stdout>>

TimesOut(id) ==
  /\ id \in timers /\ timers' = timers \ {id} /\ handlers' = handlers \ {id}
  /\ Resolve(asked[id], Fallback)
  /\ UNCHANGED <<engine, available, ready, pinging, asked, called, stdin, stdout>>

\* The "quick ping test" pings nobody: it makes the bridge ready whatever became
\* of the engine.
Ping ==
  /\ pinging /\ pinging' = FALSE /\ ready' = TRUE /\ available' = TRUE
  /\ UNCHANGED <<engine, asked, handlers, timers, called, outcome, stdin, stdout>>

Dies ==
  /\ engine = "up" /\ engine' = "dying" /\ stdin' = <<>>
  /\ UNCHANGED <<available, ready, pinging, asked, handlers, timers, called, outcome, stdout>>

\* The events "error" and "exit".
ReportError ==
  /\ engine = "failing" /\ engine' = "over" /\ available' = FALSE
  /\ UNCHANGED <<ready, pinging, asked, handlers, timers, called, outcome, stdin, stdout>>

ReportExit ==
  /\ engine = "dying" /\ engine' = "over" /\ ready' = FALSE
  /\ UNCHANGED <<available, pinging, asked, handlers, timers, called, outcome, stdin, stdout>>

\* The process is forgotten, and never spawned again.
Terminate ==
  /\ engine \in {"up", "dying", "over"} /\ engine' = "null" /\ stdin' = <<>>
  /\ UNCHANGED <<available, ready, pinging, asked, handlers, timers, called, outcome, stdout>>

BridgeNext ==
  \/ \E c \in Call : Initialize(c) \/ FallBack(c) \/ \E throws \in BOOLEAN : Delegate(c, throws)
  \/ (\E c \in Call : WriteBreaks(c))
  \/ (\E ok \in BOOLEAN : EngineAnswers(ok)) \/ ReadLine \/ LineSplit
  \/ (\E id \in timers : TimesOut(id)) \/ Ping \/ Dies \/ ReportError \/ ReportExit \/ Terminate

BridgeSpec == BridgeInit /\ [][BridgeNext]_bridgeVars

-----------------------------------------------------------------------------
(* "Gracefully falls back" (pythonBridge.js:4): as long as Node is up,     *)
(* whatever becomes of the engine, its lines and late ones, a call has the *)
(* engine's answer to that very call or the fallback's, or its timeout is  *)
(* still to come, with the handler that a late answer needs; and a call    *)
(* that the engine answered leaves no handler behind.                      *)
EveryCallSettles == \A c \in called :
  LET ids == {i \in DOMAIN asked : asked[i] = c}
  IN /\ outcome[c] \in {c, Fallback} \/ (outcome[c] = NoAnswer /\ ids # {} /\ ids \subseteq timers)
     /\ ids \cap timers \subseteq handlers
     /\ outcome[c] = c => ids \cap handlers = {}
=============================================================================
