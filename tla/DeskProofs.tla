----------------------------- MODULE DeskProofs -----------------------------
(***************************************************************************)
(* The services behind the analyst's desk and its own logs, for any number *)
(* of connections, calls, sockets, tickers, cases, events and orders: the  *)
(* PostgreSQL chain, the bridge to Python, the market-data worker and its  *)
(* polling, the cases, the ledger's view and the controls of paper         *)
(* trading; and what the desk shows: the network panel, the flows that     *)
(* are visible, the routes that are found among them.                      *)
(***************************************************************************)
EXTENDS PgChain, PythonBridge, StreamWorker, MarketFeed, Casework, FlowViews,
        NetworkPanel, LedgerView, PaperControls, DataLemmas

PgTypeOK ==
  /\ doing \in [Writer -> {"idle", "linked", "inserted"}]
  /\ link \in [Writer -> Nat] /\ row \in [Writer -> Nat]
  /\ rows \subseteq [id : Nat, previous : Nat] /\ nextId \in Nat \ {0}
  /\ during \in [Writer -> SUBSET Nat] /\ overlapped \subseteq Nat

\* Every id was taken from the sequence, and by one row only.
IdsTaken ==
  /\ \A r \in rows : 0 < r.id /\ r.id < nextId
  /\ \A w \in Writer : doing[w] = "inserted" =>
       /\ link[w] < row[w] /\ row[w] < nextId /\ row[w] \notin RowIds
       /\ \A v \in Writer \ {w} : doing[v] = "inserted" => row[v] # row[w]

\* SelectLast finds a last row, and only later commits can follow it.
LinksToLast ==
  /\ rows = {} \/ \E latest \in RowIds : \A i \in RowIds : i <= latest
  /\ \A w \in Writer : doing[w] # "idle" =>
       /\ link[w] \in RowIds \cup {0} /\ link[w] < nextId
       /\ \A i \in RowIds : i <= link[w] \/ i \in during[w]

PgInv == PgTypeOK /\ IdsTaken /\ LinksToLast /\ ForksNeedOverlap

-----------------------------------------------------------------------------
\* The rows' ids are numbers, and none without rows.
LEMMA RowIdsAreNumbers ==
  ASSUME PgTypeOK
  PROVE  RowIds \subseteq Nat /\ (rows = {} <=> RowIds = {})
  BY DEF PgTypeOK, RowIds

\* SelectLast(w) links to the greatest id.
LEMMA SelectsGreatest ==
  ASSUME PgTypeOK, LinksToLast, rows # {}
  PROVE  Max(RowIds) \in RowIds /\ \A i \in RowIds : i <= Max(RowIds)
<1>1. RowIds \subseteq Nat /\ \E latest \in RowIds : \A i \in RowIds : latest >= i
  BY RowIdsAreNumbers DEF LinksToLast
<1>2. Max(RowIds) \in RowIds /\ \A i \in RowIds : Max(RowIds) >= i
  BY <1>1 DEF Max
<1> QED
  BY <1>1, <1>2

\* Selecting leaves the rows alone and links past all of them.
LEMMA SelectKeeps ==
  ASSUME PgInv, NEW w \in Writer, SelectLast(w)
  PROVE  PgInv'
<1>1. PgTypeOK /\ IdsTaken /\ LinksToLast /\ ForksNeedOverlap
  BY DEF PgInv
<1>2. rows' = rows /\ RowIds' = RowIds /\ nextId' = nextId /\ row' = row /\ overlapped' = overlapped
  BY DEF SelectLast, RowIds
<1>3. /\ link'[w] \in RowIds \cup {0} /\ link'[w] \in Nat
      /\ \A i \in RowIds : i <= link'[w]
      /\ link' = [link EXCEPT ![w] = link'[w]]
  <2>1. CASE rows = {}
    BY <1>1, <2>1, RowIdsAreNumbers DEF SelectLast, PgTypeOK
  <2>2. CASE rows # {}
    BY <1>1, <2>2, RowIdsAreNumbers, SelectsGreatest DEF SelectLast, PgTypeOK
  <2> QED
    BY <2>1, <2>2
<1>4. PgTypeOK'
  BY <1>1, <1>2, <1>3 DEF PgTypeOK, SelectLast
<1>5. doing'[w] = "linked" /\ \A v \in Writer \ {w} :
        doing'[v] = doing[v] /\ link'[v] = link[v] /\ during'[v] = during[v]
  BY <1>1, <1>3 DEF PgTypeOK, SelectLast
<1>6. IdsTaken'
  BY <1>1, <1>2, <1>5 DEF IdsTaken
<1>7. link'[w] < nextId
  BY <1>1, <1>3 DEF IdsTaken, PgTypeOK, RowIds
<1>8. LinksToLast'
  BY <1>1, <1>2, <1>3, <1>5, <1>7 DEF LinksToLast
<1>9. ForksNeedOverlap'
  BY <1>1, <1>2 DEF ForksNeedOverlap
<1> QED
  BY <1>4, <1>6, <1>8, <1>9 DEF PgInv

\* Inserting takes a new id.
LEMMA InsertKeeps ==
  ASSUME PgInv, NEW w \in Writer, Insert(w)
  PROVE  PgInv'
<1>1. PgTypeOK /\ IdsTaken /\ LinksToLast /\ ForksNeedOverlap
  BY DEF PgInv
<1>2. /\ rows' = rows /\ RowIds' = RowIds /\ overlapped' = overlapped
      /\ link' = link /\ during' = during /\ nextId' = nextId + 1
  BY DEF Insert, RowIds
<1>3. PgTypeOK'
  BY <1>1, <1>2 DEF PgTypeOK, Insert
<1>4. /\ doing[w] = "linked" /\ doing'[w] = "inserted" /\ row'[w] = nextId
      /\ \A v \in Writer \ {w} : doing'[v] = doing[v] /\ row'[v] = row[v]
  BY <1>1 DEF PgTypeOK, Insert
<1>5. nextId \in Nat /\ nextId \notin RowIds /\ link[w] < nextId
  BY <1>1, <1>4 DEF PgTypeOK, IdsTaken, LinksToLast, RowIds
<1>6. IdsTaken'
  <2>1. \A r \in rows' : 0 < r.id /\ r.id < nextId'
    BY <1>1, <1>2 DEF IdsTaken, PgTypeOK
  <2>2. \A v \in Writer : doing'[v] = "inserted" =>
          link'[v] < row'[v] /\ row'[v] < nextId' /\ row'[v] \notin RowIds'
    BY <1>1, <1>2, <1>4, <1>5 DEF IdsTaken, PgTypeOK
  <2>3. \A v \in Writer : doing'[v] = "inserted" =>
          \A u \in Writer \ {v} : doing'[u] = "inserted" => row'[u] # row'[v]
    BY <1>1, <1>4, <1>5 DEF IdsTaken, PgTypeOK
  <2> QED
    BY <2>1, <2>2, <2>3 DEF IdsTaken
<1>7. LinksToLast'
  BY <1>1, <1>2, <1>4, <1>5 DEF LinksToLast, PgTypeOK
<1>8. ForksNeedOverlap'
  BY <1>1, <1>2 DEF ForksNeedOverlap
<1> QED
  BY <1>3, <1>6, <1>7, <1>8 DEF PgInv

\* Committing: a row without company follows all rows there are, and any other
\* one is marked.
LEMMA CommitKeeps ==
  ASSUME PgInv, NEW w \in Writer, Commit(w)
  PROVE  PgInv'
<1> DEFINE new == [id |-> row[w], previous |-> link[w]]
<1>1. PgTypeOK /\ IdsTaken /\ LinksToLast /\ ForksNeedOverlap
  BY DEF PgInv
<1>2. /\ doing[w] = "inserted" /\ rows' = rows \cup {new}
      /\ link' = link /\ row' = row /\ nextId' = nextId
  BY DEF Commit
<1>3. /\ row[w] \in Nat /\ link[w] \in Nat /\ nextId \in Nat /\ RowIds \subseteq Nat
      /\ \A r \in rows : r.id \in Nat /\ r.previous \in Nat /\ r.id \in RowIds
  BY <1>1, RowIdsAreNumbers DEF PgTypeOK, RowIds
<1>4. new \in [id : Nat, previous : Nat] /\ new.id = row[w] /\ new.previous = link[w]
  BY <1>3
<1>5. RowIds' = RowIds \cup {row[w]}
  BY <1>2, <1>4 DEF RowIds
<1>6. /\ link[w] < row[w] /\ row[w] < nextId /\ row[w] \notin RowIds
      /\ link[w] \in RowIds \cup {0}
      /\ \A i \in RowIds : i <= link[w] \/ i \in during[w]
  BY <1>1, <1>2 DEF IdsTaken, LinksToLast
<1>7. /\ doing'[w] = "idle" /\ during' \in [Writer -> SUBSET Nat]
      /\ \A v \in Writer \ {w} : doing'[v] = doing[v]
      /\ \A v \in Writer \ {w} : doing[v] # "idle" => during'[v] = during[v] \cup {row[w]}
  BY <1>1, <1>3 DEF PgTypeOK, Commit
<1>8. /\ overlapped \subseteq overlapped' /\ overlapped' \subseteq Nat
      /\ row[w] \notin overlapped' => during[w] = {}
  BY <1>1, <1>3 DEF PgTypeOK, Commit
<1>9. PgTypeOK'
  BY <1>1, <1>2, <1>4, <1>7, <1>8 DEF PgTypeOK, Commit
<1>10. IdsTaken'
  <2>1. \A r \in rows' : 0 < r.id /\ r.id < nextId'
    BY <1>1, <1>2, <1>3, <1>4, <1>6 DEF IdsTaken
  <2>2. \A v \in Writer : doing'[v] = "inserted" =>
          link'[v] < row'[v] /\ row'[v] < nextId' /\ row'[v] \notin RowIds'
    BY <1>1, <1>2, <1>5, <1>7 DEF IdsTaken
  <2>3. \A v \in Writer : doing'[v] = "inserted" =>
          \A u \in Writer \ {v} : doing'[u] = "inserted" => row'[u] # row'[v]
    BY <1>1, <1>2, <1>7 DEF IdsTaken
  <2> QED
    BY <2>1, <2>2, <2>3 DEF IdsTaken
<1>11. LinksToLast'
  <2>1. \E latest \in RowIds' : \A i \in RowIds' : i <= latest
    <3>1. CASE rows = {}
      BY <1>1, <1>3, <1>5, <3>1, RowIdsAreNumbers
    <3>2. CASE rows # {}
      <4>1. PICK latest \in RowIds : \A i \in RowIds : i <= latest
        BY <1>1, <3>2 DEF LinksToLast
      <4>2. CASE latest <= row[w]
        BY <1>3, <1>5, <4>1, <4>2
      <4>3. CASE row[w] <= latest
        BY <1>3, <1>5, <4>1, <4>3
      <4> QED
        BY <1>3, <4>1, <4>2, <4>3
    <3> QED
      BY <3>1, <3>2
  <2>2. \A v \in Writer : doing'[v] # "idle" =>
          /\ link'[v] \in RowIds' \cup {0} /\ link'[v] < nextId'
          /\ \A i \in RowIds' : i <= link'[v] \/ i \in during'[v]
    BY <1>1, <1>2, <1>5, <1>7 DEF LinksToLast
  <2> QED
    BY <2>1, <2>2 DEF LinksToLast
<1>12. ForksNeedOverlap'
  <2>1. \A r \in rows' : r.previous < r.id /\ r.previous \in RowIds' \cup {0}
    BY <1>1, <1>2, <1>4, <1>5, <1>6 DEF ForksNeedOverlap
  <2>2. row[w] \notin overlapped' => \A s \in rows :
          /\ s.id <= link[w] /\ s.id < row[w] /\ s.previous < s.id /\ s.previous # link[w]
    BY <1>1, <1>3, <1>6, <1>8 DEF ForksNeedOverlap
  <2>3. \A r, s \in rows' : r # s /\ r.previous = s.previous => {r.id, s.id} \cap overlapped' # {}
    <3> SUFFICES ASSUME NEW r \in rows', NEW s \in rows', r # s, r.previous = s.previous
                 PROVE  r.id \in overlapped' \/ s.id \in overlapped'
      OBVIOUS
    <3>1. CASE r \in rows /\ s \in rows
      <4>1. {r.id, s.id} \cap overlapped # {}
        BY <1>1, <3>1 DEF ForksNeedOverlap
      <4>2. r.id \in overlapped \/ s.id \in overlapped
        BY <4>1
      <4> QED
        BY <1>8, <4>2
    <3>2. \A q \in rows : q.previous = new.previous => row[w] \in overlapped'
      BY <1>4, <2>2
    <3>3. CASE r = new /\ s \in rows
      BY <1>4, <3>2, <3>3
    <3>4. CASE s = new /\ r \in rows
      BY <1>4, <3>2, <3>4
    <3>5. r \in rows \cup {new} /\ s \in rows \cup {new}
      BY <1>2
    <3> QED
      BY <3>1, <3>3, <3>4, <3>5
  <2>4. \A r, s \in rows' :
          r.id \notin overlapped' /\ s.id \notin overlapped' /\ s.id < r.id => s.id <= r.previous
    <3> SUFFICES ASSUME NEW r \in rows', NEW s \in rows',
                        r.id \notin overlapped', s.id \notin overlapped', s.id < r.id
                 PROVE  s.id <= r.previous
      OBVIOUS
    <3>1. CASE r \in rows /\ s \in rows
      BY <1>1, <1>8, <3>1 DEF ForksNeedOverlap
    <3>2. CASE r = new /\ s \in rows
      BY <1>4, <2>2, <3>2
    <3>3. CASE s = new
      BY <1>2, <1>3, <1>4, <2>2, <3>3
    <3> QED
      BY <1>2, <3>1, <3>2, <3>3
  <2> QED
    BY <2>1, <2>3, <2>4 DEF ForksNeedOverlap
<1> QED
  BY <1>9, <1>10, <1>11, <1>12 DEF PgInv

\* A transaction that ends without a row leaves nothing behind.
LEMMA RollbackKeeps ==
  ASSUME PgInv, NEW w \in Writer, Rollback(w)
  PROVE  PgInv'
<1>1. PgTypeOK /\ IdsTaken /\ LinksToLast /\ ForksNeedOverlap
  BY DEF PgInv
<1>2. /\ rows' = rows /\ RowIds' = RowIds /\ overlapped' = overlapped /\ row' = row
      /\ link' = link /\ during' = during /\ nextId' = nextId
  BY DEF Rollback, RowIds
<1>3. PgTypeOK' /\ doing'[w] = "idle" /\ \A v \in Writer \ {w} : doing'[v] = doing[v]
  BY <1>1, <1>2 DEF PgTypeOK, Rollback
<1>4. IdsTaken' /\ LinksToLast'
  BY <1>1, <1>2, <1>3 DEF IdsTaken, LinksToLast
<1>5. ForksNeedOverlap'
  BY <1>1, <1>2 DEF ForksNeedOverlap
<1> QED
  BY <1>3, <1>4, <1>5 DEF PgInv

(* append_audit_event, under READ COMMITTED: whatever transactions overlap *)
(* and roll back, every row names an earlier committed row, and only those *)
(* that overlapped another fork the chain or are passed over by it.        *)
THEOREM OnlyOverlapsFork == PgSpec => []ForksNeedOverlap
<1>1. PgInit => PgInv
  BY DEF PgInit, PgInv, PgTypeOK, IdsTaken, LinksToLast, ForksNeedOverlap, RowIds
<1>2. PgInv /\ [PgNext]_chainVars => PgInv'
  <2> SUFFICES ASSUME PgInv, [PgNext]_chainVars
               PROVE  PgInv'
    OBVIOUS
  <2>1. CASE PgNext
    BY <2>1, SelectKeeps, InsertKeeps, CommitKeeps, RollbackKeeps DEF PgNext
  <2>2. CASE UNCHANGED chainVars
    BY <2>2 DEF chainVars, PgInv, PgTypeOK, IdsTaken, LinksToLast, ForksNeedOverlap, RowIds
  <2> QED
    BY <2>1, <2>2
<1>3. PgInv => ForksNeedOverlap
  BY DEF PgInv
<1> QED
  BY <1>1, <1>2, <1>3, PTL DEF PgSpec

-----------------------------------------------------------------------------
BridgeTypeOK ==
  /\ asked \in Seq(Call) /\ called \subseteq Call
  /\ outcome \in [Call -> Call \cup {NoAnswer, Fallback}]
  /\ timers \subseteq handlers /\ handlers \subseteq DOMAIN asked

\* One id per call, and only calls that are made have one or are answered.
OneIdEach ==
  /\ \A i, j \in DOMAIN asked : asked[i] = asked[j] => i = j
  /\ \A i \in DOMAIN asked : asked[i] \in called
  /\ \A c \in Call \ called : outcome[c] = NoAnswer
  /\ engine = "unborn" => called = {}

\* Nothing makes the bridge usable before it has spawned the engine.
UnbornIsUnusable ==
  engine = "unborn" => ~available /\ ~pinging /\ stdout = <<>>

\* EveryCallSettles, read off the request ids.
Settles ==
  /\ \A c \in called : outcome[c] \in {c, Fallback, NoAnswer}
  /\ \A c \in called : outcome[c] = NoAnswer => \E i \in DOMAIN asked : asked[i] = c
  /\ \A i \in DOMAIN asked :
       /\ outcome[asked[i]] = NoAnswer => i \in timers
       /\ outcome[asked[i]] = asked[i] => i \notin handlers

BridgeInv == BridgeTypeOK /\ OneIdEach /\ UnbornIsUnusable /\ Settles

-----------------------------------------------------------------------------
\* The invariant says what is claimed of each call.
LEMMA InvariantSettles ==
  BridgeInv => EveryCallSettles
<1> SUFFICES ASSUME BridgeInv, NEW c \in called
             PROVE  LET ids == {i \in DOMAIN asked : asked[i] = c}
                    IN /\ \/ outcome[c] \in {c, Fallback}
                          \/ outcome[c] = NoAnswer /\ ids # {} /\ ids \subseteq timers
                       /\ ids \cap timers \subseteq handlers
                       /\ outcome[c] = c => ids \cap handlers = {}
  BY DEF EveryCallSettles
<1> DEFINE ids == {i \in DOMAIN asked : asked[i] = c}
<1>1. outcome[c] = NoAnswer => ids # {} /\ ids \subseteq timers
  BY DEF BridgeInv, Settles
<1>2. outcome[c] \in {c, Fallback, NoAnswer}
  BY DEF BridgeInv, Settles
<1>3. ids \cap timers \subseteq handlers
  BY DEF BridgeInv, BridgeTypeOK
<1>4. outcome[c] = c => ids \cap handlers = {}
  BY DEF BridgeInv, Settles
<1> QED
  BY <1>1, <1>2, <1>3, <1>4

\* A call without an id is answered by the fallback at once.
LEMMA AnsweredAtOnce ==
  ASSUME BridgeInv, NEW c \in Call \ called, called' = called \cup {c}, Resolve(c, Fallback),
         UNCHANGED <<asked, handlers, timers>>, engine' # "unborn"
  PROVE  BridgeInv'
<1>1. BridgeTypeOK /\ OneIdEach /\ Settles
  BY DEF BridgeInv
<1>2. outcome'[c] = Fallback /\ \A d \in Call \ {c} : outcome'[d] = outcome[d]
  BY <1>1 DEF BridgeTypeOK, OneIdEach, Resolve
<1>3. \A i \in DOMAIN asked : asked[i] \in Call \ {c}
  BY <1>1 DEF BridgeTypeOK, OneIdEach
<1>4. BridgeTypeOK'
  BY <1>1 DEF BridgeTypeOK, Resolve
<1>5. OneIdEach'
  BY <1>1, <1>2, <1>3 DEF OneIdEach
<1>6. Settles'
  BY <1>1, <1>2, <1>3 DEF Settles, BridgeTypeOK, NoAnswer, Fallback
<1> QED
  BY <1>4, <1>5, <1>6 DEF BridgeInv, UnbornIsUnusable

\* A call that is handed to the engine gets a new id, with a timeout or, when
\* the write throws, with its answer.
LEMMA DelegateKeeps ==
  ASSUME BridgeInv, NEW c \in Call, NEW throws \in BOOLEAN, Delegate(c, throws)
  PROVE  BridgeInv'
<1> DEFINE id == Len(asked) + 1
<1>1. BridgeTypeOK /\ OneIdEach /\ Settles /\ c \notin called
  BY DEF BridgeInv, Delegate
<1>2. /\ asked' = Append(asked, c) /\ asked' \in Seq(Call) /\ Len(asked') = id
      /\ DOMAIN asked' = DOMAIN asked \cup {id} /\ id \notin DOMAIN asked
      /\ asked'[id] = c /\ \A i \in DOMAIN asked : asked'[i] = asked[i]
      /\ \A i \in DOMAIN asked : asked[i] \in Call \ {c}
  BY <1>1 DEF BridgeTypeOK, OneIdEach, Delegate
<1>3. called' = called \cup {c} /\ handlers' = handlers \cup {id} /\ engine' = engine
  BY <1>2 DEF Delegate
<1>4. /\ \A d \in Call \ {c} : outcome'[d] = outcome[d]
      /\ outcome' \in [Call -> Call \cup {NoAnswer, Fallback}]
      /\ \/ outcome'[c] = Fallback /\ timers' = timers
         \/ outcome'[c] = NoAnswer /\ timers' = timers \cup {id}
  BY <1>1, <1>2 DEF BridgeTypeOK, OneIdEach, Delegate, Resolve
<1>5. BridgeTypeOK'
  BY <1>1, <1>2, <1>3, <1>4 DEF BridgeTypeOK
<1>6. OneIdEach'
  <2>1. \A i, j \in DOMAIN asked' : asked'[i] = asked'[j] => i = j
    BY <1>1, <1>2 DEF OneIdEach
  <2>2. \A i \in DOMAIN asked' : asked'[i] \in called'
    BY <1>1, <1>2, <1>3 DEF OneIdEach
  <2>3. \A d \in Call \ called' : outcome'[d] = NoAnswer
    BY <1>1, <1>3, <1>4 DEF OneIdEach
  <2>4. engine' # "unborn"
    BY <1>3 DEF Delegate, Usable, BridgeInv, UnbornIsUnusable
  <2> QED
    BY <2>1, <2>2, <2>3, <2>4 DEF OneIdEach
<1>7. Settles'
  <2>1. \A d \in called' :
          /\ outcome'[d] \in {d, Fallback, NoAnswer}
          /\ outcome'[d] = NoAnswer => \E i \in DOMAIN asked' : asked'[i] = d
    BY <1>1, <1>2, <1>3, <1>4 DEF Settles, BridgeTypeOK
  <2>2. \A i \in DOMAIN asked :
          /\ outcome'[asked'[i]] = NoAnswer => i \in timers'
          /\ outcome'[asked'[i]] = asked'[i] => i \notin handlers'
    BY <1>1, <1>2, <1>3, <1>4 DEF Settles
  <2>3. outcome'[c] # c /\ (outcome'[c] = NoAnswer => id \in timers')
    BY <1>4, BridgeAssumption DEF NoAnswer, Fallback
  <2> QED
    BY <1>2, <2>1, <2>2, <2>3 DEF Settles
<1> QED
  BY <1>5, <1>6, <1>7 DEF BridgeInv, Delegate, Usable, UnbornIsUnusable

\* The first answer under an id ends its wait, whether the engine's or that of
\* the timeout.
LEMMA AnswerKeeps ==
  ASSUME BridgeInv, NEW id \in handlers, NEW value \in {asked[id], Fallback},
         Resolve(asked[id], value), handlers' = handlers \ {id}, timers' = timers \ {id},
         UNCHANGED <<asked, called>>, engine' = engine, UnbornIsUnusable'
  PROVE  BridgeInv'
<1>1. BridgeTypeOK /\ OneIdEach /\ Settles /\ id \in DOMAIN asked /\ asked[id] \in called
  BY DEF BridgeInv, BridgeTypeOK, OneIdEach
<1>2. /\ outcome'[asked[id]] \in {asked[id], Fallback}
      /\ \A d \in Call \ {asked[id]} : outcome'[d] = outcome[d]
      /\ outcome' \in [Call -> Call \cup {NoAnswer, Fallback}]
  BY <1>1 DEF BridgeTypeOK, Settles, Resolve
<1>3. \A i \in DOMAIN asked : i # id => asked[i] \in Call \ {asked[id]}
  BY <1>1 DEF BridgeTypeOK, OneIdEach
<1>4. BridgeTypeOK'
  BY <1>1, <1>2 DEF BridgeTypeOK
<1>5. OneIdEach'
  BY <1>1, <1>2 DEF OneIdEach
<1>6. Settles'
  <2>1. outcome'[asked[id]] # NoAnswer
    BY <1>1, <1>2, BridgeAssumption DEF BridgeTypeOK, NoAnswer, Fallback
  <2>2. \A d \in called :
          /\ outcome'[d] \in {d, Fallback, NoAnswer}
          /\ outcome'[d] = NoAnswer => \E i \in DOMAIN asked : asked[i] = d
    BY <1>1, <1>2, <2>1 DEF Settles, BridgeTypeOK
  <2>3. \A i \in DOMAIN asked :
          /\ outcome'[asked[i]] = NoAnswer => i \in timers'
          /\ outcome'[asked[i]] = asked[i] => i \notin handlers'
    BY <1>1, <1>2, <1>3, <2>1 DEF Settles
  <2> QED
    BY <2>2, <2>3 DEF Settles
<1> QED
  BY <1>4, <1>5, <1>6 DEF BridgeInv

\* Lines, the ping and what becomes of the process change no call.
LEMMA NothingAnswered ==
  ASSUME BridgeInv, UNCHANGED <<asked, handlers, timers, called, outcome>>,
         UnbornIsUnusable', engine' = engine \/ engine' # "unborn"
  PROVE  BridgeInv'
  BY DEF BridgeInv, BridgeTypeOK, OneIdEach, Settles

(* Every call of the bridge is answered by the engine's answer to it or by *)
(* the fallback, or its timeout is still to come: whatever the engine, its *)
(* late lines and the timeouts do, for any number of calls, as long as no  *)
(* write ends Node.                                                        *)
THEOREM CallsSettle == BridgeSpec => []EveryCallSettles
<1>1. BridgeInit => BridgeInv
  BY DEF BridgeInit, BridgeInv, BridgeTypeOK, OneIdEach, UnbornIsUnusable, Settles
<1>2. BridgeInv /\ [BridgeNext]_bridgeVars => BridgeInv'
  <2> SUFFICES ASSUME BridgeInv, [BridgeNext]_bridgeVars
               PROVE  BridgeInv'
    OBVIOUS
  <2>0. UnbornIsUnusable'
    BY DEF BridgeInv, UnbornIsUnusable, BridgeNext, Initialize, FallBack, Delegate, Usable,
           WriteBreaks, EngineAnswers, ReadLine, LineSplit, TimesOut, Ping, Dies, ReportError, ReportExit,
           Terminate, bridgeVars
  <2>1. ASSUME NEW c \in Call, Initialize(c) \/ FallBack(c)
        PROVE  BridgeInv'
    <3>1. c \notin called
      BY <2>1 DEF BridgeInv, OneIdEach, Initialize, FallBack
    <3>2. engine' # "unborn"
      BY <2>1 DEF Initialize, FallBack
    <3>3. called' = called \cup {c} /\ Resolve(c, Fallback) /\ UNCHANGED <<asked, handlers, timers>>
      BY <2>1 DEF Initialize, FallBack
    <3> QED
      BY <3>1, <3>2, <3>3, AnsweredAtOnce
  <2>2. ASSUME NEW c \in Call, NEW throws \in BOOLEAN, Delegate(c, throws)
        PROVE  BridgeInv'
    BY <2>2, DelegateKeeps
  <2>3. CASE ReadLine
    <3> DEFINE line == Head(stdout)
    <3>1. CASE line.id \in handlers
      <4>1. /\ handlers' = handlers \ {line.id} /\ timers' = timers \ {line.id}
            /\ Resolve(asked[line.id], IF line.ok THEN asked[line.id] ELSE Fallback)
            /\ UNCHANGED <<asked, called>> /\ engine' = engine
        BY <2>3, <3>1 DEF ReadLine
      <4> QED
        BY <3>1, <4>1, <2>0, AnswerKeeps
    <3>2. CASE line.id \notin handlers
      BY <2>0, <2>3, <3>2, NothingAnswered DEF ReadLine
    <3> QED
      BY <3>1, <3>2
  <2>4. ASSUME NEW id \in timers, TimesOut(id)
        PROVE  BridgeInv'
    <3>1. id \in handlers
      BY DEF BridgeInv, BridgeTypeOK
    <3> QED
      BY <2>0, <2>4, <3>1, AnswerKeeps DEF TimesOut
  <2>5. CASE LineSplit \/ Ping \/ Dies \/ ReportError \/ ReportExit \/ Terminate
             \/ \E ok \in BOOLEAN : EngineAnswers(ok)
    BY <2>0, <2>5, NothingAnswered
       DEF LineSplit, Ping, Dies, ReportError, ReportExit, Terminate, EngineAnswers
  <2>6. CASE UNCHANGED bridgeVars
    BY <2>0, <2>6, NothingAnswered DEF bridgeVars
  <2>7. ASSUME NEW c \in Call, WriteBreaks(c)
        PROVE  BridgeInv'
    BY <2>7 DEF WriteBreaks, BridgeInv, BridgeTypeOK, OneIdEach, UnbornIsUnusable, Settles
  <2> QED
    BY <2>1, <2>2, <2>3, <2>4, <2>5, <2>6, <2>7 DEF BridgeNext
<1> QED
  BY <1>1, <1>2, InvariantSettles, PTL DEF BridgeSpec

-----------------------------------------------------------------------------
WorkerTypeOK ==
  /\ sockets \in [Socket -> {"unused", "connecting", "open", "closing", "closed"}]
  /\ socket \in Socket \cup {0} /\ buffered \in Nat
  /\ stopped \in BOOLEAN /\ flushing \in BOOLEAN /\ reconnecting \in BOOLEAN /\ crossed \in BOOLEAN

\* The worker holds the one live socket, or that one is closing.
HoldsTheLive == ~crossed =>
  /\ \A s \in Alive : s = socket \/ sockets[s] = "closing"
  /\ \A s, t \in Alive : s = t
  /\ socket # 0 => socket \in Alive
  /\ reconnecting => Alive = {}
  /\ stopped => buffered = 0 /\ ~reconnecting /\ \A s \in Alive : sockets[s] = "closing"

WorkerInv == WorkerTypeOK /\ HoldsTheLive

\* A set whose members are all equal has at most one.
LEMMA AtMostOne ==
  ASSUME NEW S, \A s, t \in S : s = t
  PROVE  Cardinality(S) <= 1
<1>1. CASE S = {}
  BY <1>1, FS_EmptySet
<1>2. CASE S # {}
  <2>1. PICK x \in S : S = {x}
    BY <1>2
  <2>2. Cardinality({x}) = 1
    BY FS_Singleton
  <2> QED
    BY <2>1, <2>2
<1> QED
  BY <1>1, <1>2

\* Without a crossing the only socket alive is the current one.
LEMMA WorkerInvariantSays == WorkerInv => OneSocketFeeds
<1> SUFFICES ASSUME WorkerInv, ~crossed PROVE OneSocketFeeds
  BY DEF OneSocketFeeds
<1>1. Cardinality(Alive) <= 1
  BY AtMostOne DEF WorkerInv, HoldsTheLive
<1> QED
  BY <1>1 DEF WorkerInv, HoldsTheLive, OneSocketFeeds

\* Commands of the page and events of sockets and timers keep the invariant.
LEMMA WorkerStep == WorkerInv /\ [WorkerNext]_workerVars => WorkerInv'
<1> SUFFICES ASSUME WorkerInv, [WorkerNext]_workerVars PROVE WorkerInv'
  OBVIOUS
<1>0. WorkerTypeOK /\ HoldsTheLive
  BY DEF WorkerInv
<1>1. ASSUME NEW s \in Socket, Connect(s) PROVE WorkerInv'
  <2>1. WorkerTypeOK'
    BY <1>0, <1>1 DEF Connect, NewSocket, WorkerTypeOK
  <2>2. ~crossed' => /\ ~crossed /\ Alive' = {s} /\ ~reconnecting
                     /\ socket' = s /\ stopped' = FALSE /\ reconnecting' = reconnecting
    BY <1>0, <1>1 DEF Connect, NewSocket, WorkerTypeOK, Alive
  <2> QED
    BY <2>1, <2>2 DEF WorkerInv, HoldsTheLive
<1>2. ASSUME NEW s \in Socket, Opened(s) PROVE WorkerInv'
  <2>1. Alive' = Alive /\ \A t \in Socket : sockets'[t] = "closing" <=> sockets[t] = "closing"
    BY <1>0, <1>2 DEF Opened, Alive, WorkerTypeOK
  <2> QED
    BY <1>0, <1>2, <2>1 DEF Opened, WorkerInv, WorkerTypeOK, HoldsTheLive, Alive
<1>3. ASSUME NEW s \in Socket, Message(s) PROVE WorkerInv'
  <2>1. WorkerTypeOK' /\ Alive' = Alive /\ s \in Alive /\ sockets[s] # "closing"
    BY <1>0, <1>3, WorkerAssumption DEF Message, WorkerTypeOK, Alive
  <2> QED
    BY <1>0, <1>3, <2>1 DEF Message, WorkerInv, HoldsTheLive
<1>4. ASSUME NEW s \in Socket, Closed(s) PROVE WorkerInv'
  <2>1. WorkerTypeOK' /\ Alive' = Alive \ {s} /\ s \in Alive
    BY <1>0, <1>4 DEF Closed, WorkerTypeOK, Alive
  <2> QED
    BY <1>0, <1>4, <2>1 DEF Closed, WorkerInv, HoldsTheLive
<1>5. ASSUME NEW s \in Socket, Reconnect(s) PROVE WorkerInv'
  <2>1. WorkerTypeOK'
    BY <1>0, <1>5 DEF Reconnect, NewSocket, WorkerTypeOK
  <2>2. ~crossed => Alive' = {s}
    BY <1>0, <1>5 DEF Reconnect, NewSocket, WorkerTypeOK, HoldsTheLive, Alive
  <2> QED
    BY <1>5, <2>1, <2>2 DEF Reconnect, NewSocket, WorkerInv, HoldsTheLive
<1>6. CASE Disconnect
  <2>1. WorkerTypeOK'
    BY <1>0, <1>6 DEF Disconnect, WorkerTypeOK
  <2>2. ~crossed => \A s \in Alive' : s \in Alive /\ sockets'[s] = "closing"
    <3>1. 0 \notin Socket
      BY WorkerAssumption DEF Socket
    <3> QED
      BY <1>0, <1>6, <3>1 DEF Disconnect, HoldsTheLive, Alive
  <2> QED
    BY <1>0, <1>6, <2>1, <2>2 DEF Disconnect, WorkerInv, HoldsTheLive
<1>7. CASE FlushBuffer
  BY <1>0, <1>7 DEF FlushBuffer, WorkerInv, WorkerTypeOK, HoldsTheLive, Alive
<1>8. CASE UNCHANGED workerVars
  BY <1>0, <1>8 DEF workerVars, WorkerInv, WorkerTypeOK, HoldsTheLive, Alive
<1> QED
  BY <1>1, <1>2, <1>3, <1>4, <1>5, <1>6, <1>7, <1>8 DEF WorkerNext

-----------------------------------------------------------------------------
FeedTypeOK ==
  /\ cursor \in Ticker /\ requests \in Nat
  /\ loops \in [Loop -> {"unused", "polling", "waiting", "due", "cleared"}]
  /\ inFlight \in BOOLEAN /\ doubled \in BOOLEAN /\ handle \in Loop \cup {0}
  /\ cutShort \in BOOLEAN /\ skipped \in BOOLEAN
  /\ fetching \subseteq [loop : Loop, ticker : Ticker]

OneRequest ==
  /\ inFlight <=> fetching # {}
  /\ \A f, g \in fetching : f = g

\* Unless polling was started while a loop lived, one loop lives; what is being
\* fetched is its, and so is what was fetched in this interval.
OneLoop == ~doubled =>
  /\ \A k, l \in Loop : Lives(k) /\ Lives(l) => k = l
  /\ \A f \in fetching : loops[f.loop] = "polling"
  /\ ~skipped
  /\ cutShort \/ requests <= 1
  /\ cutShort \/ requests = 0 \/ \E l \in Loop : loops[l] \in {"polling", "waiting"}

FeedInv == FeedTypeOK /\ OneRequest /\ OneLoop

\* Without a doubled loop only one of them fetches, once in an interval.
LEMMA FeedInvariantSays == FeedInv => PollsWithinAllowance
<1> SUFFICES ASSUME FeedInv PROVE PollsWithinAllowance
  OBVIOUS
<1>1. Cardinality(fetching) <= 1
  BY AtMostOne DEF FeedInv, OneRequest
<1> QED
  BY <1>1 DEF FeedInv, OneLoop, PollsWithinAllowance

\* A poll keeps the invariant, whichever way the loop came to it.
LEMMA PollKeeps ==
  ASSUME FeedInv, NEW l \in Loop, Poll(l), doubled' \in BOOLEAN,
         ~doubled' => ~doubled /\ (\A k \in Loop \ {l} : ~Lives(k))
                      /\ loops[l] \in {"unused", "due"}
  PROVE  FeedInv'
<1> USE FeedAssumption
<1>1. FeedTypeOK /\ OneRequest
  BY DEF FeedInv
<1>2. cursor' \in Ticker /\ cursor \in Ticker /\ cutShort' = cutShort
  BY <1>1 DEF Poll, FeedTypeOK, Ticker
<1>3. loops' \in [Loop -> {"unused", "polling", "waiting", "due", "cleared"}]
      /\ loops'[l] \in {"waiting", "polling"} /\ \A k \in Loop \ {l} : loops'[k] = loops[k]
  BY <1>1 DEF Poll, FeedTypeOK
<1>4. ~doubled' => \A k \in Loop : loops[k] \notin {"polling", "waiting"}
  BY DEF Lives
<1>5. ~doubled' => fetching = {}
  BY <1>1, <1>4 DEF FeedInv, OneLoop, FeedTypeOK
<1>6. CASE inFlight
  <2>1. fetching' = fetching /\ requests' = requests /\ inFlight' = inFlight /\ handle' = l
        /\ skipped' = TRUE
    BY <1>1, <1>6 DEF Poll, FeedTypeOK
  <2>2. FeedTypeOK' /\ OneRequest'
    BY <1>1, <1>2, <1>3, <2>1 DEF FeedTypeOK, OneRequest
  <2>3. OneLoop'
    BY <1>1, <1>5, <1>6 DEF OneLoop, OneRequest
  <2> QED
    BY <2>2, <2>3 DEF FeedInv
<1>7. CASE ~inFlight
  <2> DEFINE f == [loop |-> l, ticker |-> cursor]
  <2>1. fetching' = {f} /\ requests' = requests + 1 /\ inFlight' = TRUE /\ handle' = handle
        /\ skipped' = skipped /\ loops'[l] = "polling"
    BY <1>1, <1>7 DEF Poll, FeedTypeOK, OneRequest
  <2>2. FeedTypeOK' /\ OneRequest'
    BY <1>1, <1>2, <1>3, <2>1 DEF FeedTypeOK, OneRequest
  <2>3. OneLoop'
    <3> SUFFICES ASSUME ~doubled' PROVE OneLoop'
      BY DEF OneLoop
    <3>1. ~skipped /\ (cutShort \/ requests = 0)
      BY <1>4 DEF FeedInv, OneLoop
    <3>2. \A k \in Loop : Lives(k)' => k = l
      BY <1>3 DEF Lives
    <3> QED
      BY <1>1, <1>2, <2>1, <3>1, <3>2 DEF OneLoop, FeedTypeOK
  <2> QED
    BY <2>2, <2>3 DEF FeedInv
<1> QED
  BY <1>1, <1>6, <1>7 DEF FeedTypeOK

\* So do answers, the watchlist, stopping and the interval that passes.
LEMMA FeedStep == FeedInv /\ [FeedNext]_feedVars => FeedInv'
<1> SUFFICES ASSUME FeedInv, [FeedNext]_feedVars PROVE FeedInv'
  OBVIOUS
<1>0. FeedTypeOK /\ OneRequest /\ OneLoop
  BY DEF FeedInv
<1>1. ASSUME NEW l \in Loop, StartPolling(l) PROVE FeedInv'
  <2>1. Poll(l) /\ doubled' \in BOOLEAN
    BY <1>1 DEF StartPolling
  <2>2. ~doubled' => ~doubled /\ loops[l] = "unused" /\ \A k \in Loop \ {l} : ~Lives(k)
    BY <1>0, <1>1 DEF StartPolling, FeedTypeOK
  <2> QED
    BY <2>1, <2>2, PollKeeps
<1>2. ASSUME NEW l \in Loop, TimerFires(l) PROVE FeedInv'
  <2>1. Poll(l) /\ doubled' = doubled /\ loops[l] = "due"
    BY <1>2 DEF TimerFires
  <2>2. ~doubled' => \A k \in Loop \ {l} : ~Lives(k)
    BY <1>0, <2>1 DEF OneLoop, Lives
  <2> QED
    BY <1>0, <2>1, <2>2, PollKeeps DEF FeedTypeOK
<1>3. ASSUME NEW f \in fetching, Answers(f) PROVE FeedInv'
  <2>1. fetching = {f} /\ f \in [loop : Loop, ticker : Ticker]
    BY <1>0 DEF OneRequest, FeedTypeOK
  <2>2. /\ f.loop \in Loop /\ fetching' = {} /\ inFlight' = FALSE /\ handle' = f.loop
        /\ UNCHANGED <<cursor, requests, cutShort, skipped, doubled>>
        /\ loops' = [loops EXCEPT ![f.loop] = "waiting"]
    BY <1>3, <2>1 DEF Answers
  <2>3. FeedTypeOK' /\ OneRequest'
    BY <1>0, <2>2 DEF FeedTypeOK, OneRequest
  <2>4. OneLoop'
    <3> SUFFICES ASSUME ~doubled' PROVE OneLoop'
      BY DEF OneLoop
    <3>1. ~doubled /\ loops[f.loop] = "polling"
      BY <1>0, <2>1, <2>2 DEF OneLoop
    <3>2. \A k \in Loop : Lives(k)' => Lives(k)
      BY <1>0, <2>2, <3>1 DEF Lives, FeedTypeOK
    <3> QED
      BY <1>0, <2>2, <3>1, <3>2 DEF OneLoop, FeedTypeOK
  <2> QED
    BY <2>3, <2>4 DEF FeedInv
<1>4. CASE StopPolling
  BY <1>0, <1>4 DEF StopPolling, FeedInv, FeedTypeOK, OneRequest, OneLoop, Lives
<1>5. CASE SetWatchlist
  BY <1>0, <1>5, FeedAssumption DEF SetWatchlist, FeedInv, FeedTypeOK, OneRequest, OneLoop, Lives, Ticker
<1>6. CASE Interval
  <2>1. FeedTypeOK' /\ OneRequest'
    BY <1>0, <1>6, FeedAssumption DEF Interval, FeedTypeOK, OneRequest
  <2>2. OneLoop'
    BY <1>0, <1>6 DEF Interval, OneLoop, Lives, FeedTypeOK
  <2> QED
    BY <2>1, <2>2 DEF FeedInv
<1>7. CASE UNCHANGED feedVars
  BY <1>0, <1>7 DEF feedVars, FeedInv, FeedTypeOK, OneRequest, OneLoop, Lives
<1> QED
  BY <1>1, <1>2, <1>3, <1>4, <1>5, <1>6, <1>7 DEF FeedNext, Serve
\* For any number of sockets, one feeds the buffer of streamWorker.js and none
\* does after DISCONNECT, unless a CONNECT crossed a socket that was not closed.
THEOREM OneSocketFeedsTheorem == WorkerSpec => []OneSocketFeeds
<1>1. WorkerInit => WorkerInv
  <2> SUFFICES ASSUME WorkerInit PROVE WorkerInv
    OBVIOUS
  <2>1. Alive = {}
    BY DEF WorkerInit, Alive
  <2>2. WorkerTypeOK
    BY DEF WorkerInit, WorkerTypeOK
  <2>3. HoldsTheLive
    BY <2>1 DEF WorkerInit, HoldsTheLive
  <2> QED
    BY <2>2, <2>3 DEF WorkerInv
<1>2. WorkerInv /\ [WorkerNext]_workerVars => WorkerInv'
  BY WorkerStep
<1>3. WorkerInv => OneSocketFeeds
  BY WorkerInvariantSays
<1> QED
  BY <1>1, <1>2, <1>3, PTL DEF WorkerSpec

\* For any watchlist the adapter has one request under way; one loop lives, gives
\* every instrument its turn and makes one request an interval, unless polling was
\* started while a loop lived.
THEOREM PollingHolds == FeedSpec => []PollsWithinAllowance
<1>1. FeedInit => FeedInv
  <2> SUFFICES ASSUME FeedInit PROVE FeedInv
    OBVIOUS
  <2>1. FeedTypeOK
    <3>1. 1 \in Ticker
      BY FeedAssumption DEF Ticker
    <3> QED
      BY <3>1 DEF FeedInit, FeedTypeOK
  <2>2. OneRequest /\ OneLoop
    BY DEF FeedInit, OneRequest, OneLoop, Lives
  <2> QED
    BY <2>1, <2>2 DEF FeedInv
<1>2. FeedInv /\ [FeedNext]_feedVars => FeedInv'
  BY FeedStep
<1>3. FeedInv => PollsWithinAllowance
  BY FeedInvariantSays
<1> QED
  BY <1>1, <1>2, <1>3, PTL DEF FeedSpec

-----------------------------------------------------------------------------
CaseTypeOK ==
  /\ DOMAIN held \subseteq Case /\ DOMAIN answer \subseteq Case /\ DOMAIN stored = Case
  /\ opening \in {"checking", "fetching", "answered", "settled"}
  /\ sent \in Nat /\ arrived \in 0 .. sent
  /\ \A p \in posts : p.number \in 1 .. sent /\ p.case \in Case
  /\ \A p, q \in posts : p.number = q.number => p = q
  /\ DOMAIN elsewhere.cases \subseteq Case /\ active \in Case

\* Before the first post the page has what the server has.
AgreeAtFirst == sent = 0 =>
  /\ posts = {}
  /\ opening = "answered" /\ upset = {} => \A c \in DOMAIN answer : answer[c] = stored[c]
  /\ opening = "settled" /\ upset = {} => \A c \in DOMAIN held : held[c] = stored[c]

\* A post that a later one has overtaken will arrive late or be lost.
Overtaken == \E p \in posts : p.number <= arrived

\* The page's copy is what its latest post brings, or the server has it.
LatestIsUnderway ==
  opening = "settled" /\ upset = {} /\ ~Overtaken => \A c \in DOMAIN held :
    \/ held[c] = stored[c] /\ \A p \in posts : p.case # c
    \/ \E p \in posts : /\ p.case = c /\ p.copy = held[c]
                        /\ \A q \in posts : q.case = c => q.number <= p.number

\* Notes are kept per case; a page asks for the cases once.
NotesTyped ==
  /\ DOMAIN notes = Case
  /\ \A n \in noting \cup landed : n.case \in Case
  /\ opening \in {"checking", "fetching"} => fetched = {}
  /\ \A f, g \in fetched : f = g
  /\ \A f \in fetched : DOMAIN f = Case

\* What posts bring is what the page fetched, if that became the page's copies.
NotesBrought == \A p \in posts :
  p.notes = {} \/ (HasNotes # {} /\ \A f \in fetched : p.notes = {f[p.case]})

\* Without another page nothing erases what was there at the fetch.
NotesStay == "elsewhere" \notin upset =>
  /\ \A f \in fetched : \A c \in Case : f[c] \subseteq notes[c]
  /\ \A n \in landed : n.number \in notes[n.case] \/ HasNotes # {}

NotesInv == NotesTyped /\ NotesBrought /\ NotesStay

CaseInv == CaseTypeOK /\ AgreeAtFirst /\ LatestIsUnderway /\ NotesInv

\* Once nothing is under way and nothing was upset, copies agree.
LEMMA CaseInvariantSays == CaseInv => CopiesAgree
  BY DEF CaseInv, LatestIsUnderway, CopiesAgree, Overtaken, NotesInv, NotesStay

\* The case that is listed first is one of those that are listed.
LEMMA ListedCase == Listed[1] \in Range(Listed)
  BY CaseAssumption DEF Range

\* What is kept per case is kept for every case.
LEMMA CopiesDomain == ASSUME NEW C PROVE DOMAIN Copies(C) = C
  BY DEF Copies

\* Before anything is loaded no copy is there to disagree.
LEMMA CaseInitial == CaseworkInit => CaseInv
<1> SUFFICES ASSUME CaseworkInit PROVE CaseInv
  OBVIOUS
<1>1. DOMAIN held \subseteq Case /\ DOMAIN answer \subseteq Case /\ DOMAIN stored = Case
  BY CopiesDomain DEF CaseworkInit, Case
<1>2. DOMAIN elsewhere.cases \subseteq Case /\ active \in Case
  BY CopiesDomain, ListedCase DEF CaseworkInit, Case
<1>3. NotesInv
  BY DEF CaseworkInit, NotesInv, NotesTyped, NotesBrought, NotesStay
<1> QED
  BY <1>1, <1>2, <1>3 DEF CaseworkInit, CaseInv, CaseTypeOK, AgreeAtFirst, LatestIsUnderway

\* Posting a change of the copy that a page holds keeps the invariant.
LEMMA PostKeeps ==
  ASSUME CaseInv, NEW copy, Post(copy)
  PROVE  CaseInv'
<1> DEFINE new == [number |-> sent + 1, case |-> ActiveCase, copy |-> copy,
                   notes |-> {f[ActiveCase] : f \in HasNotes}]
<1>1. CaseTypeOK /\ LatestIsUnderway /\ NotesInv
  BY DEF CaseInv
<1>2. /\ sent' = sent + 1 /\ posts' = posts \cup {new} /\ DOMAIN held' = DOMAIN held
      /\ \A c \in DOMAIN held : held'[c] = IF c = active THEN copy ELSE held[c]
      /\ arrived' = arrived /\ opening' = opening /\ stored' = stored /\ answer' = answer
      /\ upset' = {} => upset = {} /\ active = ActiveCase
      /\ active' = active /\ UNCHANGED noteVars /\ upset' \subseteq upset \cup {"fallback"}
  BY DEF Post
<1>3. ActiveCase \in Case
  BY <1>1, ListedCase DEF ActiveCase, Case, CaseTypeOK
<1>4. CaseTypeOK'
  <2>1. sent' \in Nat /\ arrived' \in 0 .. sent'
    BY <1>1, <1>2 DEF CaseTypeOK
  <2>2. \A p \in posts' : p.number \in 1 .. sent' /\ p.case \in Case
    BY <1>1, <1>2, <1>3 DEF CaseTypeOK
  <2>3. \A p, q \in posts' : p.number = q.number => p = q
    <3>1. \A p \in posts : p.number # new.number
      BY <1>1 DEF CaseTypeOK
    <3> QED
      BY <1>1, <1>2, <3>1 DEF CaseTypeOK
  <2> QED
    BY <1>1, <1>2, <2>1, <2>2, <2>3 DEF CaseTypeOK, noteVars
<1>5. LatestIsUnderway'
  <2> SUFFICES ASSUME opening' = "settled", upset' = {}, ~Overtaken', NEW c \in DOMAIN held'
               PROVE  \/ held'[c] = stored'[c] /\ \A p \in posts' : p.case # c
                      \/ \E p \in posts' : /\ p.case = c /\ p.copy = held'[c]
                                           /\ \A q \in posts' : q.case = c => q.number <= p.number
    BY DEF LatestIsUnderway
  <2>1. ~Overtaken
    BY <1>2 DEF Overtaken
  <2>2. CASE c = active
    <3>1. \A q \in posts' : q.number <= new.number
      BY <1>1, <1>2 DEF CaseTypeOK
    <3> QED
      BY <1>2, <2>2, <3>1
  <2>3. CASE c # active
    BY <1>1, <1>2, <2>1, <2>3 DEF LatestIsUnderway
  <2> QED
    BY <2>2, <2>3
<1>6. AgreeAtFirst'
  BY <1>1, <1>2 DEF AgreeAtFirst, CaseTypeOK
<1>7. NotesInv'
  <2>1. NotesTyped' /\ HasNotes' = HasNotes /\ fetched' = fetched /\ HasNotes \in {{}, fetched}
    BY <1>1, <1>2 DEF NotesInv, NotesTyped, noteVars, HasNotes
  <2>2. NotesStay'
    <3>1. "elsewhere" \notin upset' => "elsewhere" \notin upset
      BY DEF Post
    <3> QED
      BY <1>1, <1>2, <2>1, <3>1 DEF NotesInv, NotesStay, noteVars
  <2>3. new.notes = {} \/ (HasNotes # {} /\ \A f \in fetched : new.notes = {f[new.case]})
    BY <1>1, <2>1 DEF NotesInv, NotesTyped
  <2> HIDE DEF new
  <2>4. NotesBrought'
    BY <1>1, <1>2, <2>1, <2>3 DEF NotesInv, NotesBrought
  <2> QED
    BY <2>1, <2>2, <2>4 DEF NotesInv
<1> QED
  BY <1>4, <1>5, <1>6, <1>7 DEF CaseInv

\* So does the arrival of a post, in whatever order posts arrive.
LEMMA PostArrivesKeeps ==
  ASSUME CaseInv, NEW p \in posts, PostArrives(p)
  PROVE  CaseInv'
<1>1. CaseTypeOK /\ LatestIsUnderway /\ NotesInv
  BY DEF CaseInv
<1>2. /\ posts' = posts \ {p} /\ arrived' = (IF p.number > arrived THEN p.number ELSE arrived)
      /\ upset' = {} => upset = {} /\ arrived < p.number
      /\ UNCHANGED <<held, active, opening, answer, sent, fetched, noting, landed, elsewhere>>
      /\ Bring(p.case, p.notes)
  BY <1>1 DEF PostArrives, CaseTypeOK
<1>3. /\ DOMAIN stored' = DOMAIN stored /\ stored'[p.case] = p.copy
      /\ \A c \in Case : c # p.case => stored'[c] = stored[c]
  BY <1>1 DEF PostArrives, CaseTypeOK
<1>4. CaseTypeOK'
  BY <1>1, <1>2, <1>3 DEF CaseTypeOK
<1>5. AgreeAtFirst'
  BY <1>1, <1>2 DEF AgreeAtFirst, CaseTypeOK
<1>6. LatestIsUnderway'
  <2> SUFFICES ASSUME opening' = "settled", upset' = {}, ~Overtaken', NEW c \in DOMAIN held'
               PROVE  \/ held'[c] = stored'[c] /\ \A r \in posts' : r.case # c
                      \/ \E r \in posts' : /\ r.case = c /\ r.copy = held'[c]
                                           /\ \A q \in posts' : q.case = c => q.number <= r.number
    BY DEF LatestIsUnderway
  <2>1. \A q \in posts' : p.number < q.number
    BY <1>1, <1>2 DEF Overtaken, CaseTypeOK
  <2>2. ~Overtaken
    BY <1>1, <1>2, <2>1 DEF Overtaken, CaseTypeOK
  <2>3. CASE held[c] = stored[c] /\ \A r \in posts : r.case # c
    BY <1>1, <1>2, <1>3, <2>3 DEF CaseTypeOK
  <2>4. ASSUME NEW r \in posts, r.case = c, r.copy = held[c],
               \A q \in posts : q.case = c => q.number <= r.number
        PROVE  \/ held'[c] = stored'[c] /\ \A q \in posts' : q.case # c
               \/ r \in posts'
    BY <1>1, <1>2, <1>3, <2>1, <2>4 DEF CaseTypeOK
  <2> QED
    BY <1>1, <1>2, <2>2, <2>3, <2>4 DEF LatestIsUnderway
<1>7. NotesInv'
  <2>1. p.case \in Case /\ DOMAIN notes = Case
    BY <1>1 DEF CaseTypeOK, NotesInv, NotesTyped
  <2>2. DOMAIN notes' = Case /\ \A c \in Case : notes'[c] = notes[c] \/ (c = p.case /\ p.notes # {} /\ notes'[c] = UNION p.notes)
    BY <1>2, <2>1 DEF Bring
  <2>3. ASSUME NEW f \in fetched, p.notes # {} PROVE UNION p.notes = f[p.case]
    <3>1. p.notes = {f[p.case]}
      BY <1>1, <2>3 DEF NotesInv, NotesBrought
    <3> QED
      BY <3>1, Zenon
  <2>4. NotesTyped' /\ HasNotes' = HasNotes
    <3>1. UNCHANGED <<opening, fetched, noting, landed>>
      BY <1>2
    <3>2. HasNotes' = HasNotes
      BY <3>1 DEF HasNotes
    <3>3. NotesTyped
      BY <1>1 DEF NotesInv
    <3>4. NotesTyped'
      BY <2>2, <3>1, <3>3 DEF NotesTyped
    <3> QED
      BY <3>2, <3>4
  <2>5. NotesBrought'
    BY <1>1, <1>2, <2>4 DEF NotesInv, NotesBrought
  <2>6. NotesStay'
    <3> SUFFICES ASSUME "elsewhere" \notin upset'
                 PROVE  /\ \A f \in fetched : \A c \in Case : f[c] \subseteq notes'[c]
                        /\ \A n \in landed : n.number \in notes'[n.case] \/ HasNotes # {}
      BY <1>2, <2>4 DEF NotesStay
    <3>1. /\ \A f \in fetched : \A c \in Case : f[c] \subseteq notes[c]
          /\ \A n \in landed : n.number \in notes[n.case] \/ HasNotes # {}
      BY <1>1 DEF PostArrives, NotesInv, NotesStay
    <3>2. \A n \in landed : n.case \in Case
      BY <1>1 DEF NotesInv, NotesTyped
    <3>3. p.notes # {} => HasNotes # {}
      BY <1>1 DEF NotesInv, NotesBrought
    <3> QED
      BY <2>2, <2>3, <3>1, <3>2, <3>3
  <2> QED
    BY <2>4, <2>5, <2>6 DEF NotesInv
<1> QED
  BY <1>4, <1>5, <1>6, <1>7 DEF CaseInv

\* The health check and lost posts do not touch notes.
LEMMA NotesQuiet ==
  ASSUME NotesInv, UNCHANGED noteVars, posts' \subseteq posts, upset \subseteq upset',
         opening' = opening \/ (opening = "checking" /\ opening' \in {"fetching", "settled"})
  PROVE  NotesInv'
<1>1. HasNotes' = HasNotes /\ fetched' = fetched
  BY DEF NotesInv, NotesTyped, noteVars, HasNotes
<1>2. NotesTyped'
  BY DEF NotesInv, NotesTyped, noteVars
<1>3. NotesBrought'
  BY <1>1 DEF NotesInv, NotesBrought
<1>4. NotesStay'
  <2>1. "elsewhere" \notin upset' => "elsewhere" \notin upset
    OBVIOUS
  <2> QED
    BY <1>1, <2>1 DEF NotesInv, NotesStay, noteVars
<1> QED
  BY <1>2, <1>3, <1>4 DEF NotesInv

\* Only the arrival of the cases gives the page's copies notes.
LEMMA NotesTaken ==
  ASSUME NotesInv, UNCHANGED <<posts, notes, noted, noting, landed, elsewhere>>, upset \subseteq upset',
         \/ opening = "fetching" /\ opening' = "answered" /\ fetched' = {notes}
         \/ opening = "answered" /\ opening' = "settled" /\ fetched' = fetched
         \/ opening \in {"fetching", "answered"} /\ opening' = "settled" /\ fetched' = {}
  PROVE  NotesInv'
<1>1. HasNotes = {}
  BY DEF HasNotes
<1>2. \A p \in posts : p.notes = {}
  BY <1>1 DEF NotesInv, NotesBrought
<1>3. NotesTyped'
  BY DEF NotesInv, NotesTyped
<1>4. NotesBrought'
  BY <1>2 DEF NotesBrought
<1>5. NotesStay'
  <2> SUFFICES ASSUME "elsewhere" \notin upset'
               PROVE  /\ \A f \in fetched' : \A c \in Case : f[c] \subseteq notes[c]
                      /\ \A n \in landed : n.number \in notes[n.case]
    BY DEF NotesStay
  <2>1. /\ \A f \in fetched : \A c \in Case : f[c] \subseteq notes[c]
        /\ \A n \in landed : n.number \in notes[n.case]
    BY <1>1 DEF NotesInv, NotesStay
  <2> QED
    BY <2>1
<1> QED
  BY <1>3, <1>4, <1>5 DEF NotesInv

\* A note on its way arrives, is lost, or is sent.
LEMMA NotesSent ==
  ASSUME NotesInv, active \in Case, UNCHANGED <<posts, opening, upset, fetched, elsewhere>>,
         \/ noting' \subseteq noting \cup {[number |-> noted', case |-> active]} /\ UNCHANGED <<notes, landed>>
         \/ \E n \in noting : /\ noting' \subseteq noting /\ landed' = landed \cup {n}
                              /\ notes' = [notes EXCEPT ![n.case] = @ \cup {n.number}]
  PROVE  NotesInv'
<1>1. HasNotes' = HasNotes
  BY DEF HasNotes
<1>2. NotesBrought'
  BY <1>1 DEF NotesInv, NotesBrought
<1>3. CASE noting' \subseteq noting \cup {[number |-> noted', case |-> active]} /\ UNCHANGED <<notes, landed>>
  <2>1. NotesTyped'
    BY <1>3 DEF NotesInv, NotesTyped
  <2>2. NotesStay'
    BY <1>1, <1>3 DEF NotesInv, NotesStay
  <2> QED
    BY <1>2, <2>1, <2>2 DEF NotesInv
<1>4. ASSUME NEW n \in noting, noting' \subseteq noting, landed' = landed \cup {n},
             notes' = [notes EXCEPT ![n.case] = @ \cup {n.number}]
      PROVE  NotesInv'
  <2>1. n.case \in Case /\ DOMAIN notes = Case /\ \A m \in landed : m.case \in Case
    BY DEF NotesInv, NotesTyped
  <2>2. /\ DOMAIN notes' = Case /\ \A c \in Case : notes[c] \subseteq notes'[c]
        /\ n.number \in notes'[n.case]
    BY <1>4, <2>1
  <2>3. NotesTyped'
    BY <1>4, <2>2 DEF NotesInv, NotesTyped
  <2>4. NotesStay'
    <3> SUFFICES ASSUME "elsewhere" \notin upset
                 PROVE  /\ \A f \in fetched : \A c \in Case : f[c] \subseteq notes'[c]
                        /\ \A m \in landed' : m.number \in notes'[m.case] \/ HasNotes # {}
      BY <1>1 DEF NotesStay
    <3>1. /\ \A f \in fetched : \A c \in Case : f[c] \subseteq notes[c]
          /\ \A m \in landed : m.number \in notes[m.case] \/ HasNotes # {}
      BY DEF NotesInv, NotesStay
    <3> QED
      BY <1>4, <2>1, <2>2, <3>1
  <2> QED
    BY <1>2, <2>3, <2>4 DEF NotesInv
<1> QED
  BY <1>3, <1>4

\* What another page does is among the reasons for which copies may differ.
LEMMA ElsewhereKeeps ==
  ASSUME CaseInv, NEW c \in Case, NEW s, ChangeElsewhere(c, s)
  PROVE  CaseInv'
<1>0. CaseTypeOK /\ AgreeAtFirst /\ LatestIsUnderway /\ NotesInv
  BY DEF CaseInv
<1>1. /\ UNCHANGED <<held, active, opening, answer, posts, sent, arrived, fetched, noting, landed>>
      /\ "elsewhere" \in upset' /\ upset' # {} /\ DOMAIN stored' = DOMAIN stored
      /\ DOMAIN elsewhere'.cases = DOMAIN elsewhere.cases /\ DOMAIN notes' = DOMAIN notes
  BY DEF ChangeElsewhere, Bring
<1>2. CaseTypeOK'
  BY <1>0, <1>1 DEF CaseTypeOK
<1>3. AgreeAtFirst' /\ LatestIsUnderway'
  BY <1>0, <1>1 DEF AgreeAtFirst, LatestIsUnderway
<1>4. HasNotes' = HasNotes
  BY <1>1 DEF HasNotes
<1>5. NotesInv'
  BY <1>0, <1>1, <1>4 DEF NotesInv, NotesTyped, NotesBrought, NotesStay
<1> QED
  BY <1>2, <1>3, <1>5 DEF CaseInv

\* Every step of the page and of the server keeps the invariant.
LEMMA CaseStep == CaseInv /\ [CaseworkNext]_caseVars => CaseInv'
<1> SUFFICES ASSUME CaseInv, [CaseworkNext]_caseVars PROVE CaseInv'
  OBVIOUS
<1>0. CaseTypeOK /\ AgreeAtFirst /\ LatestIsUnderway /\ NotesInv
  BY DEF CaseInv
<1>1. ASSUME NEW healthy \in BOOLEAN, HealthAnswers(healthy) PROVE CaseInv'
  <2>1. NotesInv'
    BY <1>0, <1>1, NotesQuiet DEF HealthAnswers
  <2> QED
    BY <1>0, <1>1, <2>1 DEF HealthAnswers, CaseInv, CaseTypeOK, AgreeAtFirst, LatestIsUnderway, noteVars
<1>2. CASE ServeCases
  <2>1. NotesInv'
    BY <1>0, <1>2, NotesTaken DEF ServeCases
  <2> QED
    BY <1>0, <1>2, <2>1 DEF ServeCases, CaseInv, CaseTypeOK, AgreeAtFirst, LatestIsUnderway
<1>3. ASSUME NEW cases, NEW why, opening # "settled", TakeCases(cases, why), DOMAIN cases \subseteq Case,
             sent = 0 => why # {} \/ upset # {} \/ \A c \in DOMAIN cases : cases[c] = stored[c]
      PROVE CaseTypeOK' /\ AgreeAtFirst' /\ LatestIsUnderway' /\ upset \subseteq upset'
  <2>1. CaseTypeOK'
    BY <1>0, <1>3, CopiesDomain DEF TakeCases, CaseTypeOK
  <2>2. upset' = {} => sent = 0 /\ posts = {} /\ \A c \in DOMAIN cases : cases[c] = stored[c]
    BY <1>0, <1>3 DEF TakeCases, AgreeAtFirst
  <2> QED
    BY <1>0, <1>3, <2>1, <2>2 DEF TakeCases, AgreeAtFirst, LatestIsUnderway
<1>4. CASE CasesArrive
  <2>1. CaseTypeOK' /\ AgreeAtFirst' /\ LatestIsUnderway' /\ upset \subseteq upset'
    BY <1>0, <1>3, <1>4 DEF CasesArrive, CaseTypeOK, AgreeAtFirst
  <2>2. NotesInv'
    BY <1>0, <1>4, <2>1, NotesTaken DEF CasesArrive, TakeCases
  <2> QED
    BY <2>1, <2>2 DEF CaseInv
<1>5. CASE FetchFails
  <2>1. DOMAIN Copies(Range(Listed)) \subseteq Case
    BY CopiesDomain DEF Case
  <2>2. CaseTypeOK' /\ AgreeAtFirst' /\ LatestIsUnderway' /\ upset \subseteq upset'
    BY <1>0, <1>3, <1>5, <2>1 DEF FetchFails
  <2>3. NotesInv'
    BY <1>0, <1>5, <2>2, NotesTaken DEF FetchFails, TakeCases
  <2> QED
    BY <2>2, <2>3 DEF CaseInv
<1>6. ASSUME NEW i, AddToCase(i) PROVE CaseInv'
  BY <1>6, PostKeeps DEF AddToCase
<1>7. ASSUME NEW s, UpdateCaseStatus(s) PROVE CaseInv'
  BY <1>7, PostKeeps DEF UpdateCaseStatus
<1>8. ASSUME NEW p \in posts, PostArrives(p) PROVE CaseInv'
  BY <1>8, PostArrivesKeeps
<1>9. ASSUME NEW p \in posts, PostLost(p) PROVE CaseInv'
  <2>1. NotesInv'
    BY <1>0, <1>9, NotesQuiet DEF PostLost
  <2> QED
    BY <1>0, <1>9, <2>1 DEF PostLost, CaseInv, CaseTypeOK, AgreeAtFirst, LatestIsUnderway, noteVars
<1>10. ASSUME NEW c \in Case, OpenCase(c) PROVE CaseInv'
  <2>1. NotesInv'
    BY <1>0, <1>10, NotesQuiet DEF OpenCase
  <2> QED
    BY <1>0, <1>10, <2>1 DEF OpenCase, CaseInv, CaseTypeOK, AgreeAtFirst, LatestIsUnderway, Overtaken, noteVars
<1>11. CASE UNCHANGED caseVars
  <2>1. NotesInv'
    BY <1>0, <1>11, NotesQuiet DEF caseVars
  <2> QED
    BY <1>0, <1>11, <2>1 DEF caseVars, CaseInv, CaseTypeOK, AgreeAtFirst, LatestIsUnderway, Overtaken, noteVars
<1>12. ASSUME SaveNote \/ \E n \in noting : NoteArrives(n) \/ NoteLost(n) PROVE CaseInv'
  <2>1. active \in Case
    BY <1>0 DEF CaseTypeOK
  <2>2. NotesInv'
    BY <1>0, <1>12, <2>1, NotesSent DEF SaveNote, NoteArrives, NoteLost
  <2>3. UNCHANGED <<held, active, opening, answer, stored, posts, sent, arrived, upset, elsewhere>>
    BY <1>12 DEF SaveNote, NoteArrives, NoteLost
  <2> QED
    BY <1>0, <2>2, <2>3 DEF CaseInv, CaseTypeOK, AgreeAtFirst, LatestIsUnderway, Overtaken
<1>13. CASE OpenElsewhere
  <2>1. /\ UNCHANGED <<held, active, opening, answer, stored, posts, sent, arrived, upset, notes, fetched, noting, landed>>
        /\ elsewhere'.cases = stored
    BY <1>13 DEF OpenElsewhere
  <2>2. CaseTypeOK' /\ AgreeAtFirst' /\ LatestIsUnderway'
    BY <1>0, <2>1 DEF CaseTypeOK, AgreeAtFirst, LatestIsUnderway, Overtaken
  <2>3. HasNotes' = HasNotes
    BY <2>1 DEF HasNotes
  <2>4. NotesInv'
    BY <1>0, <2>1, <2>3 DEF NotesInv, NotesTyped, NotesBrought, NotesStay
  <2> QED
    BY <2>2, <2>4 DEF CaseInv
<1>14. ASSUME NEW c \in Case, NEW s, ChangeElsewhere(c, s) PROVE CaseInv'
  BY <1>14, ElsewhereKeeps
<1> QED
  BY <1>1, <1>2, <1>4, <1>5, <1>6, <1>7, <1>8, <1>9, <1>10, <1>11, <1>12, <1>13, <1>14 DEF CaseworkNext

\* For any cases and flows, the page and the server have the same cases once
\* nothing is under way, unless one of the named mishaps struck: App.jsx posts
\* the whole case at every change and the server replaces what it has.  No notes
\* are erased but those saved after a page fetched the cases that it changes.
THEOREM CopiesAgreeTheorem == CaseworkSpec => []CopiesAgree
<1>1. CaseworkInit => CaseInv
  BY CaseInitial
<1>2. CaseInv /\ [CaseworkNext]_caseVars => CaseInv'
  BY CaseStep
<1>3. CaseInv => CopiesAgree
  BY CaseInvariantSays
<1> QED
  BY <1>1, <1>2, <1>3, PTL DEF CaseworkSpec

-----------------------------------------------------------------------------
\* The steps that the first n events of the ledger make.
StepsOf(n) == [p \in (1 .. n) \X Int |-> After(p[2], Events[p[1]])]

\* The ledger is a finite sequence of events with amounts.
LEMMA EventsAre ==
  /\ Len(Events) \in Nat /\ DOMAIN Events = 1 .. Len(Events)
  /\ \A i \in 1 .. Len(Events) : Events[i].amount \in Int
<1> DEFINE E == [type : {"CashReserved", "CashReleased", "OrderAccepted", "FillReceived"}, amount : Int]
<1>1. Events \in Seq(E)
  BY LedgerAssumption
<1>2. \A e \in E : e.amount \in Int
  OBVIOUS
<1> HIDE DEF E
<1>3. Len(Events) \in Nat /\ DOMAIN Events = 1 .. Len(Events)
  BY <1>1
<1>4. \A i \in 1 .. Len(Events) : Events[i] \in E
  BY <1>1
<1> QED
  BY <1>2, <1>3, <1>4

\* An event leaves a number.
LEMMA AfterIs ==
  ASSUME NEW sum \in Int, NEW i \in 1 .. Len(Events)
  PROVE  After(sum, Events[i]) \in Int
BY EventsAre DEF After

\* The sum that the first n events make is a recursion over their positions.
LEMMA ReservedFolds ==
  ASSUME NEW n \in 0 .. Len(Events)
  PROVE  \E g : FoldsPrefixes(g, n, Int, 0, StepsOf(n)) /\ Reserved(n) = g[1 .. n]
<1> DEFINE seq == SubSeq(Events, 1, n)
           S == DOMAIN seq
           Equation(g) == g = [T \in SUBSET S |-> IF T = {} THEN 0 ELSE After(g[T \ {Max(T)}], seq[Max(T)])]
           it == CHOOSE g : Equation(g)
<1>0. Reserved(n) = it[S]
  BY DEF Reserved, FoldLeft, MapThenFoldSet
<1>1. S = 1 .. n /\ n \in Nat /\ \A i \in 1 .. n : i \in 1 .. Len(Events) /\ seq[i] = Events[i]
  BY LedgerAssumption
<1> HIDE DEF seq, S
<1> DEFINE st == StepsOf(n)
           ch == LastOf(n)
<1>2. /\ st \in [S \X Int -> Int]
      /\ \A i \in S, v \in Int : st[<<i, v>>] = After(v, seq[i])
  BY <1>1, AfterIs DEF StepsOf
<1>3. IsFiniteSet(S) /\ Picks(ch, S)
  BY <1>1, LastIn
<1>4. \A T \in SUBSET S : ch[T] = Max(T)
  BY <1>1 DEF LastOf
<1> HIDE DEF st, ch
<1>5. PICK g : Solves(g, S, 0, ch, st) /\ Steps(g, S, Int, ch, st)
  <2>1. 0 \in Int
    OBVIOUS
  <2> QED
    BY <1>2, <1>3, <2>1, RecursionSolved
<1>6. Equation(g)
  <2>1. ASSUME NEW T \in SUBSET S, T # {}
        PROVE  st[<<ch[T], g[T \ {ch[T]}]>>] = After(g[T \ {Max(T)}], seq[Max(T)])
    <3>1. ch[T] = Max(T) /\ Max(T) \in S /\ T \ {Max(T)} \in SUBSET S
      BY <1>3, <1>4, <2>1 DEF Picks
    <3>2. g[T \ {Max(T)}] \in Int
      BY <1>5, <3>1 DEF Steps
    <3> QED
      BY <1>2, <3>1, <3>2
  <2>2. \A T \in SUBSET S : T # {} => st[<<ch[T], g[T \ {ch[T]}]>>] = After(g[T \ {Max(T)}], seq[Max(T)])
    BY <2>1
  <2> QED
    BY <1>5, <2>2 DEF Solves
<1>7. Equation(it)
  BY <1>6
<1> HIDE DEF it
<1>8. Obeys(it, S, Int, 0, ch, st)
  <2>1. it[{}] = 0
    BY <1>7
  <2>2. ASSUME NEW T \in SUBSET S, T # {}, it[T \ {ch[T]}] \in Int
        PROVE  it[T] = st[<<ch[T], it[T \ {ch[T]}]>>]
    <3>1. ch[T] = Max(T) /\ Max(T) \in S
      BY <1>3, <1>4, <2>2 DEF Picks
    <3>2. it[T] = After(it[T \ {Max(T)}], seq[Max(T)])
      BY <1>7, <2>2
    <3> QED
      BY <1>2, <2>2, <3>1, <3>2
  <2> QED
    BY <2>1, <2>2 DEF Obeys
<1>9. FoldsPrefixes(it, n, Int, 0, st)
  <2>1. Obeys(it, 1 .. n, Int, 0, LastOf(n), st) /\ st \in [(1 .. n) \X Int -> Int] /\ 0 \in Int
    BY <1>1, <1>2, <1>8 DEF ch
  <2> QED
    BY <1>1, <2>1, LeftSteps
<1> QED
  BY <1>0, <1>1, <1>9 DEF st

\* So it starts with nothing and takes one event at a time.
LEMMA ReservedSteps ==
  /\ Reserved(0) = 0
  /\ \A n \in 0 .. Len(Events) : Reserved(n) \in Int
  /\ \A n \in 1 .. Len(Events) : Reserved(n) = After(Reserved(n - 1), Events[n])
<1>1. Reserved(0) = 0
  <2>1. 0 \in 0 .. Len(Events)
    BY EventsAre
  <2>2. PICK g : FoldsPrefixes(g, 0, Int, 0, StepsOf(0)) /\ Reserved(0) = g[1 .. 0]
    BY <2>1, ReservedFolds
  <2> QED
    BY <2>2 DEF FoldsPrefixes
<1>2. ASSUME NEW n \in 0 .. Len(Events)
      PROVE  Reserved(n) \in Int
  <2>1. PICK g : FoldsPrefixes(g, n, Int, 0, StepsOf(n)) /\ Reserved(n) = g[1 .. n]
    BY ReservedFolds
  <2>2. n \in 0 .. n
    BY EventsAre
  <2> QED
    BY <2>1, <2>2 DEF FoldsPrefixes
<1>3. ASSUME NEW n \in 1 .. Len(Events)
      PROVE  Reserved(n) = After(Reserved(n - 1), Events[n])
  <2>0. n \in 0 .. Len(Events) /\ n - 1 \in 0 .. Len(Events) /\ n \in Nat /\ n - 1 \in Nat /\ n - 1 <= n
    BY EventsAre
  <2> DEFINE m == n - 1
  <2>1. PICK g : FoldsPrefixes(g, m, Int, 0, StepsOf(m)) /\ Reserved(m) = g[1 .. m]
    BY <2>0, ReservedFolds
  <2>2. PICK h : FoldsPrefixes(h, n, Int, 0, StepsOf(n)) /\ Reserved(n) = h[1 .. n]
    BY <2>0, ReservedFolds
  <2>3. \A i \in 1 .. m : \A v \in Int : StepsOf(m)[<<i, v>>] = StepsOf(n)[<<i, v>>]
    <3>1. \A i \in 1 .. m : i \in 1 .. n
      BY <2>0
    <3> QED
      BY <3>1 DEF StepsOf
  <2>4. \A j \in 0 .. m : g[1 .. j] = h[1 .. j]
    <3>1. m \in Nat /\ n \in Nat /\ m <= n
      BY <2>0
    <3> HIDE DEF m
    <3> QED
      BY <2>1, <2>2, <2>3, <3>1, PrefixesAgree
  <2>5. h[1 .. n] = StepsOf(n)[<<n, h[1 .. n - 1]>>] /\ h[1 .. n - 1] \in Int
    <3>1. n \in 1 .. n /\ n - 1 \in 0 .. n
      BY <2>0
    <3> QED
      BY <2>2, <3>1 DEF FoldsPrefixes
  <2>6. StepsOf(n)[<<n, h[1 .. n - 1]>>] = After(h[1 .. n - 1], Events[n])
    <3>1. n \in 1 .. n
      BY <2>0
    <3> QED
      BY <2>5, <3>1 DEF StepsOf
  <2>7. g[1 .. m] = h[1 .. n - 1]
    BY <2>0, <2>4
  <2> QED
    BY <2>1, <2>2, <2>5, <2>6, <2>7
<1> QED
  BY <1>1, <1>2, <1>3

-----------------------------------------------------------------------------
\* The row is there once an event has made it, and holds nothing before.
RowIs ==
  /\ batch \in SUBSET DOMAIN Events
  /\ exists \in BOOLEAN /\ reserved \in Int /\ inOrder \in BOOLEAN
  /\ checkpoint \in 0 .. Len(Events) /\ rowSeq \in 0 .. checkpoint
  /\ ~exists => reserved = 0

FollowsSoFar ==
  inOrder /\ ReleasesFollow(checkpoint) =>
    /\ reserved = Reserved(checkpoint)
    /\ exists <=> \E j \in 1 .. checkpoint : MakesRow(Events[j])

ViewInv == RowIs /\ FollowsSoFar

\* A row that follows the ledger is reconciled as the ledger has it.
LEMMA ViewHolds == ViewInv => ViewFollowsLedger
<1> SUFFICES ASSUME ViewInv PROVE ViewFollowsLedger
  OBVIOUS
<1>1. rowSeq <= checkpoint /\ checkpoint \in 0 .. Len(Events) /\ Len(Events) \in Nat
  BY EventsAre DEF ViewInv, RowIs
<1>2. ASSUME inOrder, ReleasesFollow(checkpoint)
      PROVE  reserved = Reserved(checkpoint) /\ (exists <=> \E j \in 1 .. checkpoint : MakesRow(Events[j]))
  BY <1>2 DEF ViewInv, FollowsSoFar
<1>3. ASSUME inOrder, ReleasesFollow(checkpoint), checkpoint > 0
      PROVE  Reconciled(0, checkpoint) =
               IF \A j \in 1 .. checkpoint : ~MakesRow(Events[j]) THEN "missing"
               ELSE IF Expected(0, checkpoint) # Reserved(checkpoint) THEN "drifted" ELSE "matched"
  <2>1. 0 < Len(Events)
    BY <1>1, <1>3
  <2>2. reserved = Reserved(checkpoint)
    BY <1>2, <1>3
  <2>3. exists <=> ~\A j \in 1 .. checkpoint : ~MakesRow(Events[j])
    BY <1>2, <1>3
  <2>4. CASE exists
    BY <2>2, <2>3, <2>4 DEF Reconciled
  <2>5. CASE ~exists
    BY <1>3, <2>1, <2>3, <2>5 DEF Reconciled
  <2> QED
    BY <2>4, <2>5
<1> QED
  BY <1>1, <1>2, <1>3 DEF ViewFollowsLedger

\* No event, no row.
LEMMA ViewStarts == ViewInit => ViewInv
<1> SUFFICES ASSUME ViewInit PROVE ViewInv
  OBVIOUS
<1>1. RowIs
  <2>1. exists \in BOOLEAN /\ inOrder \in BOOLEAN
    BY DEF ViewInit
  <2>2. batch \in SUBSET DOMAIN Events /\ reserved \in Int /\ reserved = 0 /\ checkpoint \in 0 .. Len(Events)
    BY EventsAre DEF ViewInit
  <2>3. rowSeq \in 0 .. checkpoint
    BY DEF ViewInit
  <2> QED
    BY <2>1, <2>2, <2>3 DEF RowIs
<1>2. FollowsSoFar
  BY ReservedSteps DEF ViewInit, FollowsSoFar
<1> QED
  BY <1>1, <1>2 DEF ViewInv

\* A batch that arrives changes no row.
LEMMA DeliverKeeps ==
  ASSUME ViewInv, NEW numbers \in SUBSET DOMAIN Events, Deliver(numbers)
  PROVE  ViewInv'
<1>1. RowIs'
  BY DEF ViewInv, Deliver, RowIs
<1>2. FollowsSoFar'
  BY DEF ViewInv, Deliver, FollowsSoFar, ReleasesFollow
<1> QED
  BY <1>1, <1>2 DEF ViewInv

\* An event that fails to project leaves the row as it was and ends its batch.
LEMMA FailKeeps ==
  ASSUME ViewInv, NEW n \in DOMAIN Events, ProjectionFails(n)
  PROVE  ViewInv'
<1>1. RowIs'
  BY DEF ViewInv, ProjectionFails, RowIs
<1>2. FollowsSoFar'
  BY DEF ViewInv, ProjectionFails, FollowsSoFar, ReleasesFollow
<1> QED
  BY <1>1, <1>2 DEF ViewInv

\* What an event does to the row.
LEMMA EffectIs ==
  ASSUME ViewInv, NEW n \in 1 .. Len(Events), Effect(n)
  PROVE  /\ exists' \in BOOLEAN /\ reserved' \in Int /\ (~exists' => reserved' = 0)
         /\ exists' <=> exists \/ MakesRow(Events[n])
         /\ exists \/ Events[n].type # "CashReleased" => reserved' = After(reserved, Events[n])
         /\ rowSeq' \in {n, rowSeq}
<1>1. Events[n].amount \in Int /\ reserved \in Int /\ exists \in BOOLEAN /\ (~exists => reserved = 0)
  BY EventsAre DEF ViewInv, RowIs
<1>2. exists' <=> exists \/ MakesRow(Events[n])
  BY DEF Effect
<1>3. exists' \in BOOLEAN
  BY DEF Effect, MakesRow
<1>4. /\ reserved' \in Int
      /\ exists \/ Events[n].type # "CashReleased" => reserved' = After(reserved, Events[n])
      /\ ~exists /\ ~MakesRow(Events[n]) => reserved' = reserved
  BY <1>1 DEF Effect, After, MakesRow
<1>5. rowSeq' \in {n, rowSeq}
  BY DEF Effect
<1> QED
  BY <1>1, <1>2, <1>3, <1>4, <1>5

\* An event that is projected takes the row one event further.
LEMMA ProjectKeeps ==
  ASSUME ViewInv, NEW n \in DOMAIN Events, ProjectNext(n)
  PROVE  ViewInv'
<1>0. n \in 1 .. Len(Events) /\ Len(Events) \in Nat /\ checkpoint \in 0 .. Len(Events) /\ Effect(n)
  BY EventsAre DEF ViewInv, RowIs, ProjectNext
<1>1. /\ exists' \in BOOLEAN /\ reserved' \in Int /\ (~exists' => reserved' = 0)
      /\ exists' <=> exists \/ MakesRow(Events[n])
      /\ exists \/ Events[n].type # "CashReleased" => reserved' = After(reserved, Events[n])
      /\ rowSeq' \in {n, rowSeq}
  BY <1>0, EffectIs
<1>2. RowIs'
  <2>1. batch' \in SUBSET DOMAIN Events /\ inOrder' \in BOOLEAN
    BY DEF ViewInv, RowIs, ProjectNext
  <2>2. checkpoint' \in 0 .. Len(Events) /\ n <= checkpoint' /\ checkpoint <= checkpoint'
    BY <1>0 DEF ProjectNext
  <2>3. rowSeq \in 0 .. checkpoint
    BY DEF ViewInv, RowIs
  <2>4. rowSeq' \in 0 .. checkpoint'
    BY <1>0, <1>1, <2>2, <2>3
  <2> QED
    BY <1>1, <2>1, <2>2, <2>4 DEF RowIs
<1>3. FollowsSoFar'
  <2> SUFFICES ASSUME inOrder', ReleasesFollow(checkpoint')
               PROVE  /\ reserved' = Reserved(checkpoint')
                      /\ exists' <=> \E j \in 1 .. checkpoint' : MakesRow(Events[j])
    BY DEF FollowsSoFar, ReleasesFollow
  <2>0. inOrder /\ n = checkpoint + 1
    BY DEF ProjectNext
  <2>1. inOrder /\ n = checkpoint + 1 /\ checkpoint' = n
    BY <1>0, <2>0 DEF ProjectNext
  <2>2. ReleasesFollow(checkpoint)
    BY <1>0, <2>1 DEF ReleasesFollow
  <2>3. reserved = Reserved(checkpoint) /\ (exists <=> \E j \in 1 .. checkpoint : MakesRow(Events[j]))
    BY <2>1, <2>2 DEF ViewInv, FollowsSoFar
  <2>4. \A j \in 1 .. n : j = n \/ j \in 1 .. checkpoint
    BY <1>0, <2>1
  <2>5. 1 .. checkpoint \subseteq 1 .. n /\ n \in 1 .. n /\ 1 .. (n - 1) = 1 .. checkpoint
    BY <1>0, <2>1
  <2>6. exists' <=> \E j \in 1 .. n : MakesRow(Events[j])
    BY <1>1, <2>3, <2>4, <2>5
  <2>7. exists \/ Events[n].type # "CashReleased"
    BY <2>1, <2>3, <2>5 DEF ReleasesFollow
  <2>8. Reserved(n) = After(Reserved(n - 1), Events[n]) /\ n - 1 = checkpoint
    BY <1>0, <2>1, ReservedSteps
  <2> QED
    BY <1>1, <2>1, <2>3, <2>6, <2>7, <2>8
<1> QED
  BY <1>2, <1>3 DEF ViewInv

\* Every step of the projector keeps its invariant.
LEMMA ViewStep == ViewInv /\ [LedgerViewNext]_projectionVars => ViewInv'
<1> SUFFICES ASSUME ViewInv, [LedgerViewNext]_projectionVars PROVE ViewInv'
  OBVIOUS
<1>1. CASE UNCHANGED projectionVars
  BY <1>1 DEF projectionVars, ViewInv, RowIs, FollowsSoFar, ReleasesFollow
<1>2. CASE \E numbers \in SUBSET DOMAIN Events : Deliver(numbers)
  BY <1>2, DeliverKeeps
<1>3. CASE \E n \in DOMAIN Events : ProjectNext(n) \/ ProjectionFails(n)
  BY <1>3, ProjectKeeps, FailKeeps
<1> QED
  BY <1>1, <1>2, <1>3 DEF LedgerViewNext

\* For any ledger, wherever batches overlap, end or fail, the row never claims an
\* event past the checkpoint; events that are delivered once and in order leave
\* the sum of what they reserve and release in the row, when no release came
\* before the row, and reconciling what was projected finds the account missing,
\* drifted or matched as the ledger has it.
THEOREM LedgerViewTheorem == ViewSpec => []ViewFollowsLedger
<1>1. ViewInit => ViewInv
  BY ViewStarts
<1>2. ViewInv /\ [LedgerViewNext]_projectionVars => ViewInv'
  BY ViewStep
<1>3. ViewInv => ViewFollowsLedger
  BY ViewHolds
<1> QED
  BY <1>1, <1>2, <1>3, PTL DEF ViewSpec

-----------------------------------------------------------------------------
\* The total of finitely many orders is a sum of their amounts.
LEMMA TotalSums ==
  ASSUME NEW S, IsFiniteSet(S), NEW w, \A o \in S : w[o] \in Int /\ w[o] = o.amount,
         NEW ch, ch = [T \in SUBSET S |-> CHOOSE x \in T : TRUE]
  PROVE  Picks(ch, S) /\ \E g : Sums(g, S, ch, w) /\ Total(S) = g[S]
<1> DEFINE one(T) == CHOOSE x \in T : TRUE
           Equation(g) == g = [T \in SUBSET S |-> IF T = {} THEN 0 ELSE one(T).amount + g[T \ {one(T)}]]
           it == CHOOSE g : Equation(g)
           st == [p \in S \X Int |-> w[p[1]] + p[2]]
<1>0. Total(S) = it[S]
  BY DEF Total, MapThenSumSet, MapThenFoldSet
<1>1. \A T \in SUBSET S : T # {} => ch[T] = one(T) /\ ch[T] \in T /\ ch[T] \in S
  OBVIOUS
<1> HIDE DEF one
<1>2. Picks(ch, S)
  BY <1>1 DEF Picks
<1>3. st \in [S \X Int -> Int] /\ \A x \in S, v \in Int : st[<<x, v>>] = w[x] + v
  OBVIOUS
<1>4. 0 \in Int
  OBVIOUS
<1> HIDE DEF st
<1>5. PICK g : Solves(g, S, 0, ch, st) /\ Steps(g, S, Int, ch, st)
  BY <1>2, <1>3, <1>4, RecursionSolved
<1>6. ASSUME NEW T \in SUBSET S, T # {}
      PROVE  st[<<ch[T], g[T \ {ch[T]}]>>] = one(T).amount + g[T \ {one(T)}]
  <2>1. T \ {ch[T]} \in SUBSET S
    OBVIOUS
  <2>2. g[T \ {ch[T]}] \in Int /\ ch[T] \in S /\ ch[T] = one(T)
    BY <1>1, <1>5, <1>6, <2>1 DEF Steps
  <2>3. st[<<ch[T], g[T \ {ch[T]}]>>] = w[ch[T]] + g[T \ {ch[T]}] /\ w[ch[T]] = ch[T].amount
    BY <1>3, <2>2
  <2> QED
    BY <2>2, <2>3
<1>7. Equation(g)
  <2>1. g = [T \in SUBSET S |-> IF T = {} THEN 0 ELSE st[<<ch[T], g[T \ {ch[T]}]>>]]
    BY <1>5 DEF Solves
  <2>2. ASSUME NEW T \in SUBSET S
        PROVE  (IF T = {} THEN 0 ELSE st[<<ch[T], g[T \ {ch[T]}]>>])
                 = (IF T = {} THEN 0 ELSE one(T).amount + g[T \ {one(T)}])
    BY <1>6, Zenon
  <2>3. [T \in SUBSET S |-> IF T = {} THEN 0 ELSE st[<<ch[T], g[T \ {ch[T]}]>>]]
          = [T \in SUBSET S |-> IF T = {} THEN 0 ELSE one(T).amount + g[T \ {one(T)}]]
    BY <2>2, Zenon
  <2> QED
    BY <2>1, <2>3, Zenon
<1>8. Equation(it)
  BY <1>7
<1> HIDE DEF it
<1>9. Sums(it, S, ch, w)
  <2>1. it[{}] = 0
    BY <1>8
  <2>2. ASSUME NEW T \in SUBSET S, T # {}
        PROVE  it[T] = w[ch[T]] + it[T \ {ch[T]}]
    <3>1. it[T] = one(T).amount + it[T \ {one(T)}]
      BY <1>8, <2>2
    <3>2. ch[T] = one(T) /\ w[ch[T]] = ch[T].amount
      BY <1>1, <2>2
    <3> QED
      BY <3>1, <3>2
  <2> QED
    BY <2>1, <2>2 DEF Sums
<1> QED
  BY <1>0, <1>2, <1>9

\* Another order adds its amount to the total.
LEMMA TotalAdds ==
  ASSUME NEW S, IsFiniteSet(S), NEW e, e \notin S, \A o \in S \cup {e} : o.amount \in Int
  PROVE  Total(S) \in Int /\ Total(S \cup {e}) = e.amount + Total(S)
<1> DEFINE B == S \cup {e}
           w == [o \in B |-> o.amount]
           few == [T \in SUBSET S |-> CHOOSE x \in T : TRUE]
           all == [T \in SUBSET B |-> CHOOSE x \in T : TRUE]
<1>1. IsFiniteSet(B)
  BY FS_AddElement
<1>2. \A o \in B : w[o] \in Int /\ w[o] = o.amount
  OBVIOUS
<1>3. S \subseteq B /\ e \in B /\ B \ {e} = S /\ S \in SUBSET B /\ B \in SUBSET B /\ S \in SUBSET S
  OBVIOUS
<1>4. \A T \in SUBSET S : T # {} => few[T] = all[T]
  OBVIOUS
<1> HIDE DEF B, w
<1>5. Picks(few, S) /\ \E g : Sums(g, S, few, w) /\ Total(S) = g[S]
  BY <1>2, <1>3, TotalSums
<1>6. Picks(all, B) /\ \E g : Sums(g, B, all, w) /\ Total(B) = g[B]
  BY <1>1, <1>2, TotalSums
<1> HIDE DEF few, all
<1>7. PICK g : Sums(g, S, few, w) /\ Total(S) = g[S]
  BY <1>5
<1>8. PICK h : Sums(h, B, all, w) /\ Total(B) = h[B]
  BY <1>6
<1>9. g[S] = h[S]
  <2> DEFINE F == {T \in SUBSET S : g[T] # h[T]}
  <2> SUFFICES ASSUME F # {} PROVE FALSE
    BY <1>3
  <2>1. F \subseteq SUBSET S
    OBVIOUS
  <2> HIDE DEF F
  <2>2. PICK T \in F : \A U \in F : ~(U \subseteq T /\ U # T)
    BY <2>1, SmallestSubset
  <2>3. T \in SUBSET S /\ T \in SUBSET B /\ g[T] # h[T]
    BY <1>3, <2>1, <2>2 DEF F
  <2>4. T # {}
    BY <1>7, <1>8, <2>3 DEF Sums
  <2> DEFINE c == few[T]
  <2>5. c \in T /\ c = all[T]
    BY <1>4, <1>5, <2>3, <2>4 DEF Picks
  <2>6. g[T] = w[c] + g[T \ {c}] /\ h[T] = w[c] + h[T \ {c}]
    BY <1>7, <1>8, <2>3, <2>4, <2>5 DEF Sums
  <2> HIDE DEF c
  <2>7. g[T \ {c}] = h[T \ {c}]
    <3>1. T \ {c} \subseteq T /\ T \ {c} # T /\ T \ {c} \in SUBSET S
      BY <2>3, <2>5
    <3>2. T \ {c} \notin F
      BY <2>2, <3>1
    <3> QED
      BY <3>1, <3>2 DEF F
  <2> QED
    BY <2>3, <2>6, <2>7
<1>10. h[B] = w[e] + h[B \ {e}] /\ h[S] \in Int
  <2>1. \A o \in B : w[o] \in Int
    BY <1>2
  <2>2. /\ \A T \in SUBSET B : h[T] \in Int
        /\ \A T \in SUBSET B : \A x \in T : h[T] = w[x] + h[T \ {x}]
    BY <1>1, <1>6, <1>8, <2>1, SumTakesAny
  <2> QED
    BY <1>3, <2>2
<1>11. w[e] = e.amount
  BY <1>2, <1>3
<1> QED
  BY <1>3, <1>7, <1>8, <1>9, <1>10, <1>11 DEF B

\* No orders add up to nothing.
LEMMA TotalOfNone == Total({}) = 0
<1>1. IsFiniteSet({})
  BY FS_EmptySet
<1> DEFINE w == [o \in {} |-> 0]
           ch == [T \in SUBSET {} |-> CHOOSE x \in T : TRUE]
<1>2. \A o \in {} : w[o] \in Int /\ w[o] = o.amount
  OBVIOUS
<1> HIDE DEF w
<1>3. \E g : Sums(g, {}, ch, w) /\ Total({}) = g[{}]
  BY <1>1, <1>2, TotalSums
<1> QED
  BY <1>3 DEF Sums

-----------------------------------------------------------------------------
\* The accepted orders, one for a key; an accepted answer is that of an order.
OrdersAre ==
  /\ IsFiniteSet(orders) /\ \A o \in orders : o.amount \in Int
  /\ cash = Total(orders) /\ cash \in Int /\ cash <= CashLimit
  /\ \A o \in orders : o = [key |-> o.key, amount |-> o.amount]
  /\ \A o, p \in orders : o.key = p.key => o = p

AnswersAre ==
  \A x \in answers : /\ x = [key |-> x.key, status |-> x.status, amount |-> x.amount]
                     /\ x.status = "accepted" => [key |-> x.key, amount |-> x.amount] \in orders

\* A record that needed a second person and is approved has one, in time.
GivenFor(k) ==
  \E g \in given : /\ g.key = k /\ g.amount = records[k].amount
                   /\ g.submitter = records[k].submitter /\ g.approver # g.submitter
                   /\ g.expires = records[k].expires /\ g.at < g.expires

Submissions == [status : {"PENDING", "APPROVED"}, required : BOOLEAN, amount : Amount,
                submitter : Person, expires : Int]

ApprovalsAre ==
  /\ now \in Int /\ records \in [OrderKey -> {NoRecord} \cup Submissions]
  /\ \A k \in OrderKey : records[k].status = "APPROVED" /\ records[k].required => GivenFor(k)

\* The version that an invalidation required stays required until one is published.
PolicyIs == invalidated # NoVersion => required = invalidated

PaperInv == OrdersAre /\ AnswersAre /\ ApprovalsAre /\ PolicyIs

\* What the invariant says of orders, approvals and versions is what is promised.
LEMMA PaperHolds == PaperInv => ControlsHold
<1> SUFFICES ASSUME PaperInv PROVE ControlsHold
  OBVIOUS
<1>1. cash = Total(orders) /\ cash <= CashLimit
  BY DEF PaperInv, OrdersAre
<1>2. ASSUME NEW x \in answers, NEW y \in answers,
             x.status = "accepted", y.status = "accepted", x.key = y.key
      PROVE  x = y
  <2> DEFINE o == [key |-> x.key, amount |-> x.amount]
             p == [key |-> y.key, amount |-> y.amount]
  <2>1. o \in orders /\ p \in orders
    BY <1>2 DEF PaperInv, AnswersAre
  <2>2. o = p
    <3>1. o.key = p.key
      BY <1>2
    <3> HIDE DEF o, p
    <3> QED
      BY <2>1, <3>1 DEF PaperInv, OrdersAre
  <2>3. x.amount = y.amount
    <3>1. o.amount = x.amount /\ p.amount = y.amount
      OBVIOUS
    <3> HIDE DEF o, p
    <3> QED
      BY <2>2, <3>1
  <2>4. /\ x = [key |-> x.key, status |-> x.status, amount |-> x.amount]
        /\ y = [key |-> y.key, status |-> y.status, amount |-> y.amount]
    BY DEF PaperInv, AnswersAre
  <2> HIDE DEF o, p
  <2> QED
    BY <1>2, <2>3, <2>4
<1>3. \A k \in OrderKey : records[k].status = "APPROVED" /\ records[k].required => GivenFor(k)
  BY DEF PaperInv, ApprovalsAre
<1>4. invalidated # NoVersion /\ Valid4 => snapshot = invalidated
  BY DEF PaperInv, PolicyIs, Valid4
<1>5. \A x, y \in answers : x.status = "accepted" /\ y.status = "accepted" /\ x.key = y.key => x = y
  BY <1>2
<1> QED
  BY <1>1, <1>3, <1>4, <1>5 DEF ControlsHold, GivenFor

\* No order, no answer and no approval at first.
LEMMA PaperStarts == PaperInit => PaperInv
<1> SUFFICES ASSUME PaperInit PROVE PaperInv
  OBVIOUS
<1>1. OrdersAre
  <2>1. orders = {} /\ cash = 0
    BY DEF PaperInit
  <2>2. 0 <= CashLimit
    BY PaperAssumption
  <2> QED
    BY <2>1, <2>2, TotalOfNone, FS_EmptySet DEF OrdersAre
<1>2. AnswersAre
  BY DEF PaperInit, AnswersAre
<1>3. ApprovalsAre
  BY DEF PaperInit, ApprovalsAre, NoRecord
<1>4. PolicyIs
  BY DEF PaperInit, PolicyIs
<1> QED
  BY <1>1, <1>2, <1>3, <1>4 DEF PaperInv

\* An answer that is kept under its key keeps the answers.
LEMMA RepliedKeeps ==
  ASSUME AnswersAre, NEW k, NEW s, NEW n, Replied(k, s, n), orders \subseteq orders',
         s = "accepted" => [key |-> k, amount |-> n] \in orders'
  PROVE  AnswersAre'
<1> DEFINE z == [key |-> k, status |-> s, amount |-> n]
<1>1. answers' = answers \cup {z}
  BY DEF Replied
<1>2. ASSUME NEW x \in answers'
      PROVE  /\ x = [key |-> x.key, status |-> x.status, amount |-> x.amount]
             /\ x.status = "accepted" => [key |-> x.key, amount |-> x.amount] \in orders'
  <2>1. CASE x = z
    BY <2>1
  <2>2. CASE x \in answers
    BY <2>2 DEF AnswersAre
  <2> QED
    BY <1>1, <2>1, <2>2
<1> QED
  BY <1>2 DEF AnswersAre

\* A refusal takes no order and leaves every answer that was given.
LEMMA RejectedKeeps ==
  ASSUME PaperInv, NEW k, NEW why, why # "accepted", Rejected(k, why)
  PROVE  OrdersAre' /\ AnswersAre'
<1>1. orders' = orders /\ cash' = cash
  BY DEF Rejected
<1>2. OrdersAre'
  BY <1>1 DEF PaperInv, OrdersAre
<1>3. AnswersAre'
  BY <1>1, RepliedKeeps DEF PaperInv, Rejected
<1> QED
  BY <1>2, <1>3

\* An order that is accepted has an amount that the limits still allow.
LEMMA AcceptKeeps ==
  ASSUME PaperInv, NEW k \in OrderKey, NEW a \in Amount, Accept(k, a)
  PROVE  PaperInv'
<1> DEFINE same == {o \in orders : o.key = k}
           new == [key |-> k, amount |-> a]
<1>1. OrdersAre' /\ AnswersAre'
  <2>1. ASSUME NEW why, why \in {"halted", "invalid", "limit"}, Rejected(k, why)
        PROVE  OrdersAre' /\ AnswersAre'
    BY <2>1, RejectedKeeps
  <2>2. ASSUME NEW o \in same, Replied(k, "accepted", o.amount), UNCHANGED <<cash, orders>>
        PROVE  OrdersAre' /\ AnswersAre'
    <3>1. OrdersAre'
      BY <2>2 DEF PaperInv, OrdersAre
    <3>2. o \in orders /\ o = [key |-> o.key, amount |-> o.amount] /\ o.key = k
      BY DEF PaperInv, OrdersAre
    <3>3. [key |-> k, amount |-> o.amount] \in orders'
      BY <2>2, <3>2
    <3> QED
      BY <2>2, <3>1, <3>3, RepliedKeeps DEF PaperInv
  <2>3. ASSUME same = {}, cash + a <= CashLimit, Replied(k, "accepted", a), cash' = cash + a,
               orders' = orders \cup {new}
        PROVE  OrdersAre' /\ AnswersAre'
    <3>1. \A o \in orders : o.key # k
      BY <2>3
    <3>2. new \notin orders /\ new.amount = a /\ new.key = k /\ a \in Int
      BY <3>1, PaperAssumption
    <3>3. new = [key |-> new.key, amount |-> new.amount]
      OBVIOUS
    <3> HIDE DEF new
    <3>4. IsFiniteSet(orders) /\ cash = Total(orders) /\ cash \in Int /\ \A o \in orders : o.amount \in Int
      BY DEF PaperInv, OrdersAre
    <3>5. Total(orders \cup {new}) = new.amount + Total(orders)
      <4>1. \A o \in orders \cup {new} : o.amount \in Int
        BY <3>2, <3>4
      <4> QED
        BY <3>2, <3>4, <4>1, TotalAdds
    <3>6. cash' = Total(orders') /\ cash' \in Int /\ cash' <= CashLimit
      BY <2>3, <3>2, <3>4, <3>5
    <3>7. IsFiniteSet(orders') /\ \A o \in orders' : o.amount \in Int
      BY <2>3, <3>2, <3>4, FS_AddElement
    <3>8. \A o \in orders' : o = [key |-> o.key, amount |-> o.amount]
      BY <2>3, <3>3 DEF PaperInv, OrdersAre
    <3>9. \A o, p \in orders' : o.key = p.key => o = p
      BY <2>3, <3>1, <3>2 DEF PaperInv, OrdersAre
    <3>10. OrdersAre'
      BY <3>6, <3>7, <3>8, <3>9 DEF OrdersAre
    <3>11. AnswersAre'
      BY <2>3, RepliedKeeps DEF PaperInv, new
    <3> QED
      BY <3>10, <3>11
  <2> QED
    BY <2>1, <2>2, <2>3 DEF Accept
<1>2. ApprovalsAre' /\ PolicyIs'
  BY DEF PaperInv, Accept, approvalVars, policyVars, ApprovalsAre, GivenFor, PolicyIs
<1> QED
  BY <1>1, <1>2 DEF PaperInv

\* A submission is recorded under the person who makes it.
LEMMA SubmitKeeps ==
  ASSUME PaperInv, NEW k \in OrderKey, NEW a \in Amount, NEW who \in Person, SubmitForApproval(k, a, who)
  PROVE  PaperInv'
<1>1. OrdersAre' /\ AnswersAre' /\ PolicyIs'
  BY DEF PaperInv, SubmitForApproval, orderVars, policyVars, OrdersAre, AnswersAre, PolicyIs
<1> DEFINE r == [status |-> IF a > Threshold4 THEN "PENDING" ELSE "APPROVED", required |-> a > Threshold4,
                 amount |-> a, submitter |-> who, expires |-> now + Window]
<1>2. records' = [records EXCEPT ![k] = r] /\ now' = now /\ given' = given
  BY DEF SubmitForApproval
<1>3. r \in Submissions /\ ~(r.status = "APPROVED" /\ r.required)
  <2>1. now + Window \in Int
    BY PaperAssumption DEF PaperInv, ApprovalsAre
  <2>2. CASE a > Threshold4
    BY <2>1, <2>2 DEF Submissions
  <2>3. CASE ~(a > Threshold4)
    <3>1. (a > Threshold4) = FALSE
      BY <2>3
    <3>2. r = [status |-> "APPROVED", required |-> FALSE, amount |-> a, submitter |-> who, expires |-> now + Window]
      BY <2>3, <3>1, Zenon
    <3> HIDE DEF r
    <3> QED
      BY <2>1, <3>2 DEF Submissions
  <2> QED
    BY <2>2, <2>3
<1> HIDE DEF r
<1>4. now' \in Int /\ records' \in [OrderKey -> {NoRecord} \cup Submissions]
  BY <1>2, <1>3 DEF PaperInv, ApprovalsAre
<1>5. ASSUME NEW q \in OrderKey, records'[q].status = "APPROVED", records'[q].required
      PROVE  GivenFor(q)'
  <2>1. q # k
    BY <1>2, <1>3, <1>5 DEF PaperInv, ApprovalsAre
  <2>2. records'[q] = records[q]
    BY <1>2, <2>1 DEF PaperInv, ApprovalsAre
  <2> QED
    BY <1>2, <1>5, <2>2 DEF PaperInv, ApprovalsAre, GivenFor
<1>6. ApprovalsAre'
  BY <1>4, <1>5 DEF ApprovalsAre
<1> QED
  BY <1>1, <1>6 DEF PaperInv

\* An approval is by another person, and the order it lets through is the one
\* that was submitted.
LEMMA ApproveKeeps ==
  ASSUME PaperInv, NEW k \in OrderKey, NEW who \in Person, NEW scoped \in BOOLEAN, Approve(k, who, scoped)
  PROVE  PaperInv'
<1>1. OrdersAre' /\ AnswersAre' /\ PolicyIs'
  BY DEF PaperInv, Approve, orderVars, policyVars, OrdersAre, AnswersAre, PolicyIs
<1>2. now' = now
  BY DEF Approve
<1>3. CASE UNCHANGED <<records, given>>
  BY <1>1, <1>2, <1>3 DEF PaperInv, ApprovalsAre, GivenFor
<1>4. CASE ~UNCHANGED <<records, given>>
  <2> DEFINE r == records[k]
             new == [r EXCEPT !.status = "APPROVED"]
             mine == [key |-> k, amount |-> r.amount, submitter |-> r.submitter,
                      approver |-> who, expires |-> r.expires, at |-> now]
  <2>1. /\ r.status # "none" /\ r.submitter # who /\ ~(now >= r.expires)
        /\ records' = [records EXCEPT ![k] = new] /\ given' = given \cup {mine}
    BY <1>4 DEF Approve
  <2>2. r \in Submissions
    BY <2>1 DEF PaperInv, ApprovalsAre, NoRecord
  <2>3. /\ new \in Submissions /\ new.amount = r.amount /\ new.submitter = r.submitter
        /\ new.expires = r.expires
    BY <2>2 DEF Submissions
  <2>4. r.expires \in Int /\ now \in Int /\ now < r.expires
    BY <2>1, <2>2 DEF PaperInv, ApprovalsAre, Submissions
  <2>5. /\ mine.key = k /\ mine.amount = new.amount /\ mine.submitter = new.submitter
        /\ mine.approver # mine.submitter /\ mine.expires = new.expires /\ mine.at < mine.expires
    BY <2>1, <2>3, <2>4
  <2> HIDE DEF new, mine
  <2>6. records'[k] = new /\ \A q \in OrderKey : q # k => records'[q] = records[q]
    BY <2>1 DEF PaperInv, ApprovalsAre
  <2>7. ASSUME NEW q \in OrderKey, records'[q].status = "APPROVED", records'[q].required
        PROVE  GivenFor(q)'
    <3>1. CASE q = k
      BY <2>1, <2>5, <2>6, <3>1 DEF GivenFor
    <3>2. CASE q # k
      BY <2>1, <2>6, <2>7, <3>2 DEF PaperInv, ApprovalsAre, GivenFor
    <3> QED
      BY <3>1, <3>2
  <2>8. now' \in Int /\ records' \in [OrderKey -> {NoRecord} \cup Submissions]
    BY <1>2, <2>1, <2>3 DEF PaperInv, ApprovalsAre
  <2> QED
    BY <1>1, <2>7, <2>8 DEF PaperInv, ApprovalsAre
<1> QED
  BY <1>3, <1>4

\* Orders, approvals and policy snapshots keep the invariant.
LEMMA PaperStep == PaperInv /\ [OrdersNext \/ ApprovalsNext \/ PolicyNext]_paperVars => PaperInv'
<1> SUFFICES ASSUME PaperInv, [OrdersNext \/ ApprovalsNext \/ PolicyNext]_paperVars PROVE PaperInv'
  OBVIOUS
<1>1. CASE UNCHANGED paperVars
  BY <1>1 DEF paperVars, PaperInv, OrdersAre, AnswersAre, ApprovalsAre, GivenFor, PolicyIs
<1>2. ASSUME NEW k \in OrderKey, NEW a \in Amount, Accept(k, a)
      PROVE  PaperInv'
  BY <1>2, AcceptKeeps
<1>3. ASSUME NEW on \in BOOLEAN, KillSwitch(on)
      PROVE  PaperInv'
  BY <1>3 DEF KillSwitch, approvalVars, policyVars, PaperInv, OrdersAre, AnswersAre, ApprovalsAre, GivenFor, PolicyIs
<1>4. ASSUME NEW k \in OrderKey, NEW a \in Amount, NEW who \in Person, SubmitForApproval(k, a, who)
      PROVE  PaperInv'
  BY <1>4, SubmitKeeps
<1>5. ASSUME NEW k \in OrderKey, NEW who \in Person, NEW scoped \in BOOLEAN, Approve(k, who, scoped)
      PROVE  PaperInv'
  BY <1>5, ApproveKeeps
<1>6. CASE ApprovalClock
  <2>1. now' \in Int /\ UNCHANGED <<records, given, orderVars, policyVars>>
    BY <1>6 DEF ApprovalClock, PaperInv, ApprovalsAre
  <2> QED
    BY <2>1 DEF orderVars, policyVars, PaperInv, OrdersAre, AnswersAre, ApprovalsAre, GivenFor, PolicyIs
<1>7. ASSUME NEW v \in Version, PublishPolicy(v) \/ InvalidatePolicy(v)
      PROVE  PaperInv'
  <2>1. OrdersAre' /\ AnswersAre' /\ ApprovalsAre'
    BY <1>7 DEF PublishPolicy, InvalidatePolicy, orderVars, approvalVars, PaperInv, OrdersAre, AnswersAre, ApprovalsAre, GivenFor
  <2>2. PolicyIs'
    BY <1>7 DEF PublishPolicy, InvalidatePolicy, PolicyIs
  <2> QED
    BY <2>1, <2>2 DEF PaperInv
<1> QED
  BY <1>1, <1>2, <1>3, <1>4, <1>5, <1>6, <1>7 DEF OrdersNext, ApprovalsNext, PolicyNext

\* For any limits, people, keys and versions, what is reserved is the sum of the
\* accepted orders and within the limit, a key has one accepted answer, what is
\* approved was approved by another person in time for what was submitted, and
\* an invalidated version alone stays valid until another is published.
THEOREM PaperTheorem == PaperSpec => []ControlsHold
<1>1. PaperInit => PaperInv
  BY PaperStarts
<1>2. PaperInv /\ [OrdersNext \/ ApprovalsNext \/ PolicyNext]_paperVars => PaperInv'
  BY PaperStep
<1>3. PaperInv => ControlsHold
  BY PaperHolds
<1> QED
  BY <1>1, <1>2, <1>3, PTL DEF PaperSpec

-----------------------------------------------------------------------------
\* Openings are numbered from 1; the path holds different companies, a few.
PanelTypeOK ==
  /\ opened \in Nat /\ answeredUpTo \in 0 .. opened
  /\ \A o \in underway : o.number \in 1 .. opened /\ o.company \in Corporation
  /\ crumbs \in Seq(Corporation) /\ Len(crumbs) <= CrumbCap
  /\ modes \in [{"risk", "focus", "core"} -> BOOLEAN] /\ overtaken \in BOOLEAN
  /\ shown = NoGraph \/ /\ shown # NoGraph /\ shown.net \in Network
                        /\ shown.center \in Corporation /\ shown.center \in Range(shown.net.nodes)

CrumbsDiffer == \A i, j \in 1 .. Len(crumbs) : i # j => crumbs[i] # crumbs[j]

\* Each number is of one opening, and the last opening is under way or answered.
Numbered ==
  /\ \A o, p \in underway : o.number = p.number => o = p
  /\ \A o \in underway : o.number # answeredUpTo
  /\ last.number = opened
  /\ opened > 0 => /\ \A o \in underway : o.number = opened => o = last
                   /\ last \in underway \/ answeredUpTo = opened

\* What is shown is the answer to the highest number answered, if none came late.
ShowsHighest ==
  /\ answeredUpTo > 0 /\ ~overtaken => shown # NoGraph /\ shown.number = answeredUpTo
  /\ answeredUpTo = opened /\ opened > 0 /\ ~overtaken =>
       shown.center = last.company /\ shown.setting = last.setting

\* Only what is shown is opened again, and with what is set.
ReopensShown ==
  /\ crumbs # <<>> => shown # NoGraph
  /\ opened > 0 => last.append \/ (shown # NoGraph /\ last.setting = setting)

PanelInv == PanelTypeOK /\ CrumbsDiffer /\ Numbered /\ ShowsHighest /\ ReopensShown

-----------------------------------------------------------------------------
\* New openings take the next numbers.
Issued(os) == \A i \in 1 .. Len(os) : os[i].number = opened + i /\ os[i].company \in Corporation

\* What opening companies leaves of the invariant.
LEMMA OpenKeeps ==
  ASSUME PanelInv, NEW X, NEW os \in Seq(X), Issued(os), Open(os),
         UNCHANGED <<shown, answeredUpTo, overtaken>>
  PROVE  /\ opened' \in Nat /\ answeredUpTo' \in 0 .. opened'
         /\ \A o \in underway' : o.number \in 1 .. opened' /\ o.company \in Corporation
         /\ Numbered' /\ ShowsHighest'
<1>0. PanelTypeOK /\ Numbered /\ ShowsHighest
  BY DEF PanelInv
<1>1. Len(os) \in Nat /\ opened' = opened + Len(os) /\ opened \in Nat /\ opened' \in Nat
  BY <1>0 DEF Open, PanelTypeOK
<1>2. \A o \in underway' : o \in underway \/ \E i \in 1 .. Len(os) : o = os[i]
  BY DEF Open, Range
<1>3. \A i \in 1 .. Len(os) : os[i].number = opened + i /\ os[i].company \in Corporation
  BY DEF Issued
<1>4. /\ opened' \in Nat /\ answeredUpTo' \in 0 .. opened'
      /\ \A o \in underway' : o.number \in 1 .. opened' /\ o.company \in Corporation
  <2>1. \A o \in underway : o.number \in 1 .. opened'
    BY <1>0, <1>1 DEF PanelTypeOK
  <2>2. \A i \in 1 .. Len(os) : opened + i \in 1 .. opened'
    BY <1>1
  <2>3. answeredUpTo' \in 0 .. opened'
    BY <1>0, <1>1 DEF PanelTypeOK
  <2>4. \A o \in underway : o.company \in Corporation
    BY <1>0 DEF PanelTypeOK
  <2> QED
    BY <1>1, <1>2, <1>3, <2>1, <2>2, <2>3, <2>4
<1>5. CASE os = <<>>
  <2>1. Len(os) = 0 /\ Range(os) = {}
    BY <1>5 DEF Range
  <2>2. UNCHANGED <<opened, underway, last, answeredUpTo, overtaken, shown>>
    BY <1>0, <1>1, <1>5, <2>1 DEF Open
  <2> QED
    BY <1>0, <1>4, <2>2 DEF Numbered, ShowsHighest
<1>6. CASE os # <<>>
  <2>1. Len(os) > 0 /\ opened' > opened /\ Len(os) \in 1 .. Len(os)
    BY <1>1, <1>6
  <2>2. last' = os[Len(os)] /\ last'.number = opened' /\ last' \in underway'
    BY <1>1, <1>3, <1>6, <2>1 DEF Open, Last, Range
  <2>3. \A o \in underway : o.number \in Nat /\ o.number <= opened /\ o.number # answeredUpTo
    BY <1>0 DEF PanelTypeOK, Numbered
  <2>4. \A o \in underway' : o.number # answeredUpTo'
    <3>1. \A i \in 1 .. Len(os) : os[i].number # answeredUpTo
      BY <1>0, <1>1, <1>3 DEF PanelTypeOK
    <3> QED
      BY <1>2, <2>3, <3>1
  <2>5. \A o, p \in underway' : o.number = p.number => o = p
    <3>1. \A o \in underway : \A i \in 1 .. Len(os) : o.number # os[i].number
      BY <1>1, <1>3, <2>3
    <3>2. \A i, j \in 1 .. Len(os) : os[i].number = os[j].number => i = j
      BY <1>1, <1>3
    <3>3. \A o, p \in underway : o.number = p.number => o = p
      BY <1>0 DEF Numbered
    <3> QED
      BY <1>2, <3>1, <3>2, <3>3
  <2>6. \A o \in underway' : o.number = opened' => o = last'
    BY <2>2, <2>5
  <2>7. Numbered'
    BY <2>2, <2>4, <2>5, <2>6 DEF Numbered
  <2>8. answeredUpTo' # opened'
    BY <1>0, <1>1, <2>1 DEF PanelTypeOK
  <2>9. ShowsHighest'
    BY <1>0, <2>8 DEF ShowsHighest
  <2> QED
    BY <1>4, <2>7, <2>9
<1> QED
  BY <1>5, <1>6

\* Openings keep the invariant when they keep the path's start at most, and the
\* last of them is appended or of the shown company with what is set.
LEMMA OpeningsKeep ==
  ASSUME PanelInv, NEW X, NEW os \in Seq(X), Issued(os), Open(os),
         UNCHANGED <<shown, answeredUpTo, overtaken>>,
         modes' \in [{"risk", "focus", "core"} -> BOOLEAN],
         crumbs' = crumbs \/ (crumbs # <<>> /\ crumbs' = <<crumbs[1]>>),
         IF os = <<>> THEN setting' = setting \/ shown = NoGraph
         ELSE os[Len(os)].append \/ (shown # NoGraph /\ os[Len(os)].setting = setting')
  PROVE  PanelInv'
<1>0. PanelTypeOK /\ CrumbsDiffer /\ Numbered /\ ReopensShown
  BY DEF PanelInv
<1>1. /\ opened' \in Nat /\ answeredUpTo' \in 0 .. opened'
      /\ \A o \in underway' : o.number \in 1 .. opened' /\ o.company \in Corporation
      /\ Numbered' /\ ShowsHighest'
  BY OpenKeeps
<1>2. crumbs' \in Seq(Corporation) /\ Len(crumbs') <= CrumbCap /\ CrumbsDiffer'
      /\ (crumbs' # <<>> => crumbs # <<>>)
  <2>1. CASE crumbs' = crumbs
    BY <1>0, <2>1 DEF PanelTypeOK, CrumbsDiffer
  <2>2. CASE crumbs # <<>> /\ crumbs' = <<crumbs[1]>>
    <3>1. crumbs[1] \in Corporation
      BY <1>0, <2>2 DEF PanelTypeOK
    <3>2. Len(crumbs') = 1 /\ crumbs' \in Seq(Corporation)
      BY <2>2, <3>1
    <3> QED
      BY <2>2, <3>2, PanelAssumption DEF CrumbsDiffer
  <2> QED
    BY <2>1, <2>2
<1>3. PanelTypeOK'
  BY <1>0, <1>1, <1>2 DEF PanelTypeOK
<1>4. ReopensShown'
  <2>1. CASE os = <<>>
    <3>1. Len(os) = 0
      BY <2>1
    <3>2. opened' = opened /\ last' = last
      BY <1>0, <2>1, <3>1 DEF Open, PanelTypeOK
    <3> QED
      BY <1>0, <1>2, <2>1, <3>2 DEF ReopensShown
  <2>2. CASE os # <<>>
    <3>1. last' = os[Len(os)]
      BY <2>2 DEF Open, Last
    <3> QED
      BY <1>0, <1>2, <2>2, <3>1 DEF ReopensShown
  <2> QED
    BY <2>1, <2>2
<1> QED
  BY <1>1, <1>2, <1>3, <1>4 DEF PanelInv

\* A company in the path cuts it there, another is added, and the oldest goes.
LEMMA PathKeeps ==
  ASSUME crumbs \in Seq(Corporation), Len(crumbs) <= CrumbCap, CrumbsDiffer, NEW c \in Corporation
  PROVE  /\ Path(c) \in Seq(Corporation) /\ Len(Path(c)) <= CrumbCap
         /\ \A i, j \in 1 .. Len(Path(c)) : i # j => Path(c)[i] # Path(c)[j]
<1>0. Len(crumbs) \in Nat /\ CrumbCap \in Nat /\ CrumbCap >= 1 /\ DOMAIN crumbs = 1 .. Len(crumbs)
  BY PanelAssumption
<1>1. CASE c \in Range(crumbs)
  <2> DEFINE k == CHOOSE i \in DOMAIN crumbs : crumbs[i] = c
  <2>1. k \in 1 .. Len(crumbs)
    BY <1>0, <1>1 DEF Range
  <2> HIDE DEF k
  <2>2. Path(c) = SubSeq(crumbs, 1, k)
    BY <1>1 DEF Path, k
  <2> DEFINE l == SubSeq(crumbs, 1, k)
  <2>3. l \in Seq(Corporation) /\ Len(l) = k /\ \A i \in 1 .. k : l[i] = crumbs[i]
    BY <1>0, <2>1
  <2> HIDE DEF l
  <2>4. \A i, j \in 1 .. k : i # j => l[i] # l[j]
    BY <1>0, <2>1, <2>3 DEF CrumbsDiffer
  <2>5. k <= CrumbCap
    BY <1>0, <2>1
  <2> QED
    BY <2>2, <2>3, <2>4, <2>5 DEF l
<1>2. CASE c \notin Range(crumbs)
  <2> DEFINE all == Append(crumbs, c)
  <2>1. /\ all \in Seq(Corporation) /\ Len(all) = Len(crumbs) + 1
        /\ all[Len(crumbs) + 1] = c /\ \A i \in 1 .. Len(crumbs) : all[i] = crumbs[i]
    OBVIOUS
  <2>2. Path(c) = IF Len(all) > CrumbCap THEN Tail(all) ELSE all
    BY <1>2 DEF Path
  <2> HIDE DEF all
  <2>3. \A i \in 1 .. Len(crumbs) : crumbs[i] # c
    BY <1>0, <1>2 DEF Range
  <2>4. \A i, j \in 1 .. Len(all) : i # j => all[i] # all[j]
    <3>1. \A i \in 1 .. Len(all) : i \in 1 .. Len(crumbs) \/ i = Len(crumbs) + 1
      BY <1>0, <2>1
    <3> QED
      BY <2>1, <2>3, <3>1 DEF CrumbsDiffer
  <2>5. CASE Len(all) > CrumbCap
    <3> DEFINE l == Tail(all)
    <3>1. l \in Seq(Corporation) /\ Len(l) = Len(crumbs) /\ \A i \in 1 .. Len(l) : l[i] = all[i + 1]
      BY <1>0, <2>1
    <3> HIDE DEF l
    <3>2. \A i \in 1 .. Len(l) : i + 1 \in 1 .. Len(all)
      BY <1>0, <2>1, <3>1
    <3>3. \A i, j \in 1 .. Len(l) : i # j => i + 1 # j + 1
      OBVIOUS
    <3>4. \A i, j \in 1 .. Len(l) : i # j => l[i] # l[j]
      BY <2>4, <3>1, <3>2, <3>3
    <3> QED
      BY <2>2, <2>5, <3>1, <3>4 DEF l
  <2>6. CASE ~(Len(all) > CrumbCap)
    <3>1. Len(all) <= CrumbCap
      BY <1>0, <2>1, <2>6
    <3> QED
      BY <2>1, <2>2, <2>4, <2>6, <3>1
  <2> QED
    BY <2>5, <2>6
<1> QED
  BY <1>1, <1>2

\* An answer, early or late, keeps the invariant.
LEMMA PanelAnswerKeeps ==
  ASSUME PanelInv, NEW o \in underway, NEW net \in Network, NEW id, Answered(o, net, id)
  PROVE  PanelInv'
<1>0. PanelTypeOK /\ CrumbsDiffer /\ Numbered /\ ShowsHighest /\ ReopensShown
  BY DEF PanelInv
<1>1. /\ underway' = underway \ {o} /\ o.company \in Range(net.nodes)
      /\ shown' = [center |-> o.company, setting |-> o.setting, number |-> o.number, net |-> net]
      /\ answeredUpTo' = (IF o.number > answeredUpTo THEN o.number ELSE answeredUpTo)
      /\ overtaken' = (overtaken \/ o.number < answeredUpTo)
      /\ opened' = opened /\ modes' = modes /\ last' = last /\ setting' = setting
  BY DEF Answered
<1>2. /\ o.number \in 1 .. opened /\ o.company \in Corporation /\ opened \in Nat /\ answeredUpTo \in Nat
      /\ answeredUpTo <= opened /\ o.number # answeredUpTo /\ overtaken \in BOOLEAN
  BY <1>0 DEF PanelTypeOK, Numbered
<1>3. /\ shown'.center = o.company /\ shown'.setting = o.setting /\ shown'.number = o.number
      /\ shown'.net = net /\ shown' # NoGraph
  BY <1>1, <1>2, PanelAssumption DEF NoGraph
<1>4. crumbs' = Path(o.company) \/ crumbs' = crumbs
  BY DEF Answered
<1>5. crumbs' \in Seq(Corporation) /\ Len(crumbs') <= CrumbCap /\ CrumbsDiffer'
  <2>1. CASE crumbs' = crumbs
    BY <1>0, <2>1 DEF PanelTypeOK, CrumbsDiffer
  <2>2. CASE crumbs' = Path(o.company)
    <3>1. /\ Path(o.company) \in Seq(Corporation) /\ Len(Path(o.company)) <= CrumbCap
          /\ \A i, j \in 1 .. Len(Path(o.company)) : i # j => Path(o.company)[i] # Path(o.company)[j]
      BY <1>0, <1>2, PathKeeps DEF PanelTypeOK
    <3> QED
      BY <2>2, <3>1 DEF CrumbsDiffer
  <2> QED
    BY <1>4, <2>1, <2>2
<1>6. answeredUpTo' \in 0 .. opened
  BY <1>1, <1>2
<1>7. PanelTypeOK'
  <2>1. \A p \in underway' : p.number \in 1 .. opened' /\ p.company \in Corporation
    BY <1>0, <1>1 DEF PanelTypeOK
  <2>2. overtaken' \in BOOLEAN
    BY <1>1, <1>2
  <2> QED
    BY <1>0, <1>1, <1>2, <1>3, <1>5, <1>6, <2>1, <2>2 DEF PanelTypeOK
<1>8. Numbered'
  <2>1. \A p \in underway' : p \in underway /\ p.number # o.number /\ p.number # answeredUpTo
    BY <1>0, <1>1 DEF Numbered
  <2>2. opened > 0 => last \in underway' \/ answeredUpTo' = opened
    <3>1. CASE last = o
      <4>1. o.number = opened
        BY <1>0, <3>1 DEF Numbered
      <4> QED
        BY <1>1, <1>2, <4>1
    <3>2. CASE last # o /\ last \in underway
      BY <1>1, <3>2
    <3>3. CASE answeredUpTo = opened
      BY <1>1, <1>2, <3>3
    <3> QED
      BY <1>0, <3>1, <3>2, <3>3 DEF Numbered
  <2>3. \A p, q \in underway' : p.number = q.number => p = q
    BY <1>0, <2>1 DEF Numbered
  <2>4. \A p \in underway' : p.number # answeredUpTo'
    BY <1>1, <2>1
  <2> QED
    BY <1>0, <1>1, <2>1, <2>2, <2>3, <2>4 DEF Numbered
<1>9. ShowsHighest'
  <2> SUFFICES ASSUME ~overtaken'
               PROVE  ShowsHighest'
    BY DEF ShowsHighest
  <2>0. ~overtaken /\ ~(o.number < answeredUpTo)
    BY <1>1, Zenon
  <2>1. o.number > answeredUpTo
    BY <1>2, <2>0
  <2>2. answeredUpTo' = o.number
    BY <1>1, <2>1
  <2>3. answeredUpTo' = opened /\ opened > 0 => o = last
    BY <1>0, <2>2 DEF Numbered
  <2> QED
    BY <1>1, <1>3, <2>2, <2>3 DEF ShowsHighest
<1>10. ReopensShown'
  BY <1>0, <1>1, <1>3 DEF ReopensShown
<1> QED
  BY <1>5, <1>7, <1>8, <1>9, <1>10 DEF PanelInv

\* Looking around keeps it.
LEMMA PanelQuiet ==
  ASSUME PanelInv, modes' \in [{"risk", "focus", "core"} -> BOOLEAN],
         UNCHANGED <<setting, opened, underway, shown, crumbs, last, answeredUpTo, overtaken>>
  PROVE  PanelInv'
BY DEF PanelInv, PanelTypeOK, CrumbsDiffer, Numbered, ShowsHighest, ReopensShown

\* Every handler of the panel and every answer keep the invariant.
LEMMA PanelStep == PanelInv /\ [PanelNext]_panelVars => PanelInv'
<1> SUFFICES ASSUME PanelInv, [PanelNext]_panelVars PROVE PanelInv'
  OBVIOUS
<1>0. PanelTypeOK /\ ReopensShown
  BY DEF PanelInv
<1> DEFINE X == {Opening(c, s, append, n) : c \in Corporation, s \in {setting, setting'}, append \in BOOLEAN, n \in Nat}
<1>1. ASSUME NEW c \in Corporation, NEW append \in BOOLEAN, NEW kept, kept = crumbs \/ (crumbs # <<>> /\ kept = <<crumbs[1]>>),
             NEW s, s = setting', append \/ (shown # NoGraph /\ s = setting'),
             crumbs' = kept, Open(<<Opening(c, s, append, opened + 1)>>),
             UNCHANGED <<shown, modes, answeredUpTo, overtaken>>
      PROVE  PanelInv'
  <2> DEFINE os == <<Opening(c, s, append, opened + 1)>>
  <2>1. os \in Seq({Opening(c, s, append, opened + 1)}) /\ Len(os) = 1 /\ os # <<>>
        /\ os[1] = Opening(c, s, append, opened + 1) /\ Open(os)
    BY <1>1
  <2> HIDE DEF os
  <2>2. Issued(os)
    BY <2>1 DEF Issued, Opening
  <2>3. IF os = <<>> THEN setting' = setting \/ shown = NoGraph
        ELSE os[Len(os)].append \/ (shown # NoGraph /\ os[Len(os)].setting = setting')
    BY <1>1, <2>1 DEF Opening
  <2>4. modes' \in [{"risk", "focus", "core"} -> BOOLEAN]
    BY <1>0, <1>1 DEF PanelTypeOK
  <2> QED
    BY <1>1, <2>1, <2>2, <2>3, <2>4, OpeningsKeep
<1>2. ASSUME NEW c \in Corporation, OpenCompany(c, TRUE) PROVE PanelInv'
  BY <1>1, <1>2 DEF OpenCompany
<1>3. CASE Recenter
  BY <1>0, <1>1, <1>3 DEF Recenter, OpenCompany, PanelTypeOK
<1>4. ASSUME NEW i \in DOMAIN crumbs, OpenCrumb(i) PROVE PanelInv'
  <2>1. crumbs[i] \in Corporation /\ shown # NoGraph
    BY <1>0 DEF PanelTypeOK, ReopensShown
  <2> QED
    BY <1>1, <1>4, <2>1 DEF OpenCrumb, OpenCompany
<1>5. CASE ResetPath
  <2>1. crumbs[1] \in Corporation /\ crumbs # <<>> /\ shown # NoGraph
    BY <1>0, <1>5 DEF ResetPath, PanelTypeOK, ReopensShown
  <2> QED
    BY <1>1, <1>5, <2>1 DEF ResetPath
<1>6. CASE SearchAnswers
  BY <1>1, <1>6, PanelAssumption DEF SearchAnswers
<1>7. ASSUME NEW s \in Setting, ChangeSetting(s) PROVE PanelInv'
  <2>1. CASE shown = NoGraph
    <3>1. Open(<<>>) /\ Issued(<<>>) /\ <<>> \in Seq(Corporation)
      BY <1>7, <2>1 DEF ChangeSetting, Reopen, Issued
    <3>2. modes' \in [{"risk", "focus", "core"} -> BOOLEAN] /\ crumbs' = crumbs
          /\ UNCHANGED <<shown, answeredUpTo, overtaken>>
      BY <1>0, <1>7 DEF ChangeSetting, PanelTypeOK
    <3> QED
      BY <2>1, <3>1, <3>2, OpeningsKeep
  <2>2. CASE shown # NoGraph
    <3>1. shown.center \in Corporation
      BY <1>0, <2>2 DEF PanelTypeOK
    <3> QED
      BY <1>1, <1>7, <2>2, <3>1 DEF ChangeSetting, Reopen
  <2> QED
    BY <2>1, <2>2
<1>8. ASSUME NEW c \in Corporation, NEW s \in Setting, Intent(c, s, [modes EXCEPT !.risk = TRUE])
      PROVE  PanelInv'
  <2> DEFINE o == Opening(c, setting, TRUE, opened + 1)
             p == Opening(shown.center, s, FALSE, opened + 2)
  <2>1. /\ setting' = s /\ crumbs' = crumbs /\ UNCHANGED <<shown, answeredUpTo, overtaken>>
        /\ modes' \in [{"risk", "focus", "core"} -> BOOLEAN]
    BY <1>0, <1>8 DEF Intent, PanelTypeOK
  <2>2. CASE s = setting \/ shown = NoGraph
    <3>1. Open(<<o>> \o <<>>)
      BY <1>8, <2>2 DEF Intent, Reopen
    <3>2. <<o>> \o <<>> = <<o>>
      OBVIOUS
    <3>3. Open(<<o>>)
      BY <3>1, <3>2
    <3>4. <<o>> \in Seq({o}) /\ Len(<<o>>) = 1 /\ <<o>> # <<>> /\ <<o>>[1] = o
      OBVIOUS
    <3>5. o.append = TRUE /\ o.number = opened + 1 /\ o.company = c
      BY DEF Opening
    <3> HIDE DEF o
    <3>6. Issued(<<o>>)
      BY <3>4, <3>5 DEF Issued
    <3>7. IF <<o>> = <<>> THEN setting' = setting \/ shown = NoGraph
          ELSE <<o>>[Len(<<o>>)].append \/ (shown # NoGraph /\ <<o>>[Len(<<o>>)].setting = setting')
      BY <3>4, <3>5
    <3> QED
      BY <2>1, <3>3, <3>4, <3>6, <3>7, OpeningsKeep
  <2>3. CASE s # setting /\ shown # NoGraph
    <3>1. Open(<<o>> \o <<p>>)
      BY <1>8, <2>3 DEF Intent, Reopen
    <3>2. shown.center \in Corporation
      BY <1>0, <2>3 DEF PanelTypeOK
    <3>3. /\ o.number = opened + 1 /\ o.company = c
          /\ p.number = opened + 2 /\ p.company = shown.center /\ p.setting = s
      BY DEF Opening
    <3> DEFINE os == <<o>> \o <<p>>
    <3> HIDE DEF o, p
    <3>4. os \in Seq({o, p}) /\ Len(os) = 2 /\ os # <<>> /\ os[1] = o /\ os[2] = p
      <4> DEFINE a == <<o>>
                 b == <<p>>
      <4>1. /\ a \in Seq({o, p}) /\ Len(a) = 1 /\ a[1] = o
            /\ b \in Seq({o, p}) /\ Len(b) = 1 /\ b[1] = p
        OBVIOUS
      <4>2. os = a \o b
        OBVIOUS
      <4> HIDE DEF a, b, os
      <4>3. PICK S : S = {o, p}
        OBVIOUS
      <4>4. a \in Seq(S) /\ b \in Seq(S)
        BY <4>1, <4>3
      <4>5. os \in Seq(S) /\ Len(os) = Len(a) + Len(b)
        BY <4>2, <4>4
      <4>6. \A i \in 1 .. Len(os) : os[i] = IF i <= Len(a) THEN a[i] ELSE b[i - Len(a)]
        BY <4>2, <4>4
      <4>7. Len(os) = 2 /\ 1 \in 1 .. 2 /\ 2 \in 1 .. 2 /\ 1 <= 1 /\ ~(2 <= 1) /\ 2 - 1 = 1
        BY <4>1, <4>5
      <4>8. os[1] = a[1] /\ os[2] = b[1]
        BY <4>1, <4>6, <4>7
      <4> QED
        BY <4>1, <4>3, <4>5, <4>7, <4>8
    <3>. HIDE DEF os
    <3>5. Issued(os) /\ Open(os)
      <4>1. \A i \in 1 .. 2 : i = 1 \/ i = 2
        OBVIOUS
      <4>2. Issued(os)
        BY <1>8, <3>2, <3>3, <3>4, <4>1 DEF Issued
      <4> QED
        BY <3>1, <4>2 DEF os
    <3>6. IF os = <<>> THEN setting' = setting \/ shown = NoGraph
          ELSE os[Len(os)].append \/ (shown # NoGraph /\ os[Len(os)].setting = setting')
      BY <2>1, <2>3, <3>3, <3>4
    <3> QED
      BY <2>1, <3>4, <3>5, <3>6, OpeningsKeep
  <2> QED
    BY <2>2, <2>3
<1>9. ASSUME NEW o \in underway, NEW net \in Network, NEW id, Answered(o, net, id) PROVE PanelInv'
  BY <1>9, PanelAnswerKeeps
<1>10. ASSUME NEW n, Pick(n) PROVE PanelInv'
  BY <1>0, <1>10, PanelQuiet DEF Pick, PanelTypeOK
<1>11. CASE PickLink
  BY <1>0, <1>11, PanelQuiet DEF PickLink, PanelTypeOK
<1>12. ASSUME NEW m \in DOMAIN modes, Toggle(m) PROVE PanelInv'
  BY <1>0, <1>12, PanelQuiet DEF Toggle, PanelTypeOK
<1>13. ASSUME NEW g, ShowAs(g) PROVE PanelInv'
  BY <1>0, <1>13, PanelQuiet DEF ShowAs, PanelTypeOK
<1>14. CASE UNCHANGED panelVars
  BY <1>0, <1>14, PanelQuiet DEF panelVars, PanelTypeOK
<1> QED
  BY <1>2, <1>3, <1>4, <1>5, <1>6, <1>7, <1>8, <1>9, <1>10, <1>11, <1>12, <1>13, <1>14 DEF PanelNext

\* A panel that is opened has nothing yet.
LEMMA PanelStarts == PanelInit => PanelInv
<1> SUFFICES ASSUME PanelInit PROVE PanelInv
  OBVIOUS
<1>1. crumbs = <<>> /\ <<>> \in Seq(Corporation) /\ Len(<<>>) = 0 /\ CrumbCap \in Nat
  BY PanelAssumption DEF PanelInit
<1>2. PanelTypeOK
  <2>1. opened = 0 /\ answeredUpTo = 0 /\ underway = {} /\ shown = NoGraph /\ overtaken = FALSE
        /\ modes = [risk |-> FALSE, focus |-> FALSE, core |-> TRUE]
    BY DEF PanelInit
  <2>2. modes \in [{"risk", "focus", "core"} -> BOOLEAN]
    <3> DEFINE m == [risk |-> FALSE, focus |-> FALSE, core |-> TRUE]
    <3>1. DOMAIN m = {"risk", "focus", "core"} /\ m.risk \in BOOLEAN /\ m.focus \in BOOLEAN /\ m.core \in BOOLEAN
      OBVIOUS
    <3>2. m = [x \in {"risk", "focus", "core"} |-> m[x]]
      BY <3>1, Zenon
    <3> HIDE DEF m
    <3>3. \A x \in {"risk", "focus", "core"} : m[x] \in BOOLEAN
      BY <3>1
    <3> QED
      BY <2>1, <3>2, <3>3, Zenon DEF m
  <2>3. crumbs \in Seq(Corporation) /\ Len(crumbs) <= CrumbCap
    <3>1. Len(crumbs) = 0
      BY <1>1
    <3> QED
      BY <1>1, <3>1, PanelAssumption
  <2>4. answeredUpTo \in 0 .. opened
    BY <2>1
  <2> QED
    BY <2>1, <2>2, <2>3, <2>4 DEF PanelTypeOK
<1>3. CrumbsDiffer /\ Numbered
  BY <1>1 DEF PanelInit, CrumbsDiffer, Numbered, NoOpening
<1>4. ShowsHighest /\ ReopensShown
  BY <1>1 DEF PanelInit, ShowsHighest, ReopensShown
<1> QED
  BY <1>2, <1>3, <1>4 DEF PanelInv

-----------------------------------------------------------------------------
\* Of the nodes of a network the panel draws the center, and others only when
\* it draws all that are flagged.
LEMMA CoreIs ==
  ASSUME PanelTypeOK, shown # NoGraph, NEW nodes, nodes \subseteq Range(shown.net.nodes),
         shown.center \in nodes
  PROVE  /\ shown.center \in Core(nodes) /\ Core(nodes) \subseteq nodes
         /\ \/ nodes \cap shown.net.flagged \subseteq Core(nodes)
            \/ Core(nodes) \subseteq shown.net.flagged \cup {shown.center}
<1> DEFINE all == shown.net.nodes
           others == Kept(all, nodes \ {shown.center})
           marked == Kept(others, shown.net.flagged)
           rest == Kept(others, Range(others) \ shown.net.flagged)
           first == Upto(marked \o rest, CoreNodes - 1)
<1>1. CASE ~modes.core \/ Cardinality(nodes) <= CoreNodes
  BY <1>1 DEF Core
<1>2. CASE ~(~modes.core \/ Cardinality(nodes) <= CoreNodes)
  <2>1. Core(nodes) = nodes \cap ({shown.center} \cup Range(first))
    BY <1>2 DEF Core
  <2>2. all \in Seq(Range(all))
    BY PanelAssumption DEF PanelTypeOK
  <2>3. others \in Seq(Range(all)) /\ Range(others) = Range(all) \cap (nodes \ {shown.center})
    BY <2>2, KeptIs
  <2> HIDE DEF others
  <2>4. marked \in Seq(Range(all)) /\ Range(marked) = Range(others) \cap shown.net.flagged
    BY <2>3, KeptIs
  <2>5. rest \in Seq(Range(all))
    BY <2>3, KeptIs
  <2> HIDE DEF marked, rest
  <2>6. Range(marked) \subseteq Range(first) \/ Range(first) \subseteq Range(marked)
    <3>1. CoreNodes - 1 \in Nat
      BY PanelAssumption
    <3> QED
      BY <2>4, <2>5, <3>1, UptoOfJoin
  <2> HIDE DEF first, all
  <2>7. nodes \subseteq Range(all)
    BY DEF all
  <2> QED
    BY <2>1, <2>3, <2>4, <2>6, <2>7
<1> QED
  BY <1>1, <1>2

\* The invariant says what the panel shows.
LEMMA PanelInvariantSays == PanelInv => PanelShowsLast
<1> SUFFICES ASSUME PanelInv PROVE PanelShowsLast
  OBVIOUS
<1>0. PanelTypeOK /\ CrumbsDiffer /\ Numbered /\ ShowsHighest /\ ReopensShown
  BY DEF PanelInv
<1>1. underway = {} /\ ~overtaken /\ last.number > 0 =>
       /\ shown.center = last.company /\ shown.setting = last.setting
       /\ last.append \/ shown.setting = setting
  BY <1>0 DEF Numbered, ShowsHighest, ReopensShown
<1>2. /\ \A i, j \in DOMAIN crumbs : i # j => crumbs[i] # crumbs[j]
      /\ Len(crumbs) <= CrumbCap
  BY <1>0 DEF PanelTypeOK, CrumbsDiffer
<1>3. ASSUME shown # NoGraph, ~modes.focus
      PROVE  /\ shown.center \in Drawn /\ Inspected # {}
             /\ \/ Range(shown.net.nodes) \cap shown.net.flagged \subseteq Drawn
                \/ Drawn \subseteq shown.net.flagged \cup {shown.center}
  <2>1. Drawn = Core(Relevant)
    BY <1>3 DEF Drawn
  <2>2. /\ Relevant \subseteq Range(shown.net.nodes) /\ shown.center \in Relevant
        /\ Range(shown.net.nodes) \cap shown.net.flagged \subseteq Relevant
    BY <1>0, <1>3 DEF Relevant, PanelTypeOK
  <2>3. /\ shown.center \in Core(Relevant) /\ Core(Relevant) \subseteq Relevant
        /\ \/ Relevant \cap shown.net.flagged \subseteq Core(Relevant)
           \/ Core(Relevant) \subseteq shown.net.flagged \cup {shown.center}
    BY <1>0, <1>3, <2>2, CoreIs
  <2>4. Inspected # {}
    BY <2>1, <2>3 DEF Inspected
  <2> QED
    BY <2>1, <2>2, <2>3, <2>4
<1> QED
  BY <1>1, <1>2, <1>3 DEF PanelShowsLast

\* For any networks, companies and settings, and whatever order openings are
\* answered in: once all are, the panel shows the last, unless one was overtaken;
\* CompanyNetworkPanel.jsx never cancels one.
THEOREM PanelTheorem == PanelSpec => []PanelShowsLast
<1>1. PanelInit => PanelInv
  BY PanelStarts
<1>2. PanelInv /\ [PanelNext]_panelVars => PanelInv'
  BY PanelStep
<1>3. PanelInv => PanelShowsLast
  BY PanelInvariantSays
<1> QED
  BY <1>1, <1>2, <1>3, PTL DEF PanelSpec

-----------------------------------------------------------------------------
Routes(Nodes, Names) == [nodes : Seq(Nodes), edges : Seq(Names)]
Searches(Nodes, Names) == [queue : Seq(Routes(Nodes, Names)), seen : SUBSET Nodes]

\* The flows of a list are between nodes.
FlowsAmong(among, Nodes, Names) ==
  /\ among \in Seq(Range(among))
  /\ \A f \in Range(among) : f.id \in Names /\ f.source \in Nodes /\ f.target \in Nodes

\* A route starts at from and follows a flow at every step.
Leads(route, from, among) ==
  /\ Len(route.nodes) = Len(route.edges) + 1 /\ route.nodes[1] = from
  /\ \A k \in 1 .. Len(route.edges) : \E f \in Range(among) :
       f.id = route.edges[k] /\ f.source = route.nodes[k] /\ f.target = route.nodes[k + 1]

ClosedUnderFlows(C, among) == \A f \in Range(among) : f.source \in C => f.target \in C

\* One route to every node seen, and no node seen without need.
Explores(v, from, among) ==
  /\ \A i \in 1 .. Len(v.queue) : Leads(v.queue[i], from, among) /\ Last(v.queue[i].nodes) \in v.seen
  /\ \A e \in v.seen : \E i \in 1 .. Len(v.queue) : Last(v.queue[i].nodes) = e
  /\ \A i, j \in 1 .. Len(v.queue) : Last(v.queue[i].nodes) = Last(v.queue[j].nodes) => i = j
  /\ \A C : from \in C /\ ClosedUnderFlows(C, among) => v.seen \subseteq C

\* W[k] holds what k flows lead to, for k up to n.
Levels(W, n, from, among) ==
  /\ W[0] = {from}
  /\ \A k \in 1 .. n : W[k] = W[k - 1] \cup {f.target : f \in {g \in Range(among) : g.source \in W[k - 1]}}

\* A node is no more flows away than the queue is long before it.
Nearby(v, W, n) == \A i \in 1 .. Len(v.queue) : i <= n + 1 => Last(v.queue[i].nodes) \in W[i - 1]

Grown(v, u) ==
  /\ Len(v.queue) <= Len(u.queue) /\ v.seen \subseteq u.seen
  /\ \A i \in 1 .. Len(v.queue) : u.queue[i] = v.queue[i]

\* Extending a route by a flow leaves a search.
LEMMA ExtendType ==
  ASSUME NEW Nodes, NEW Names, NEW route \in Routes(Nodes, Names), NEW v \in Searches(Nodes, Names),
         NEW f, f.id \in Names, f.source \in Nodes, f.target \in Nodes
  PROVE  Extend(route, v, f) \in Searches(Nodes, Names)
<1>1. CASE f.source # Last(route.nodes) \/ f.target \in v.seen
  BY <1>1 DEF Extend
<1>2. CASE ~(f.source # Last(route.nodes) \/ f.target \in v.seen)
  <2> DEFINE r == [nodes |-> Append(route.nodes, f.target), edges |-> Append(route.edges, f.id)]
  <2>1. r \in Routes(Nodes, Names)
    BY DEF Routes
  <2> HIDE DEF r
  <2>2. Append(v.queue, r) \in Seq(Routes(Nodes, Names)) /\ v.seen \cup {f.target} \in SUBSET Nodes
    BY <2>1 DEF Searches
  <2>3. Extend(route, v, f) = [queue |-> Append(v.queue, r), seen |-> v.seen \cup {f.target}]
    BY <1>2 DEF Extend, r
  <2> QED
    BY <2>2, <2>3 DEF Searches
<1> QED
  BY <1>1, <1>2

\* What a flow adds to a route that is in the queue.
LEMMA ExtendExplores ==
  ASSUME NEW Nodes, NEW Names, NEW among, FlowsAmong(among, Nodes, Names), NEW from,
         NEW v \in Searches(Nodes, Names), Explores(v, from, among),
         NEW n \in Nat, NEW W, Levels(W, n, from, among), Nearby(v, W, n),
         NEW m \in 1 .. Len(v.queue), NEW f \in Range(among)
  PROVE  LET u == Extend(v.queue[m], v, f)
         IN /\ u \in Searches(Nodes, Names) /\ Explores(u, from, among) /\ Nearby(u, W, n) /\ Grown(v, u)
            /\ f.source = Last(v.queue[m].nodes) => f.target \in u.seen
<1> DEFINE route == v.queue[m]
           u == Extend(route, v, f)
<1>0. /\ v.queue \in Seq(Routes(Nodes, Names)) /\ v.seen \in SUBSET Nodes /\ Len(v.queue) \in Nat
      /\ f.id \in Names /\ f.source \in Nodes /\ f.target \in Nodes
  BY DEF Searches, FlowsAmong
<1>1. route \in Routes(Nodes, Names)
  BY <1>0
<1>2. u \in Searches(Nodes, Names)
  BY <1>0, <1>1, ExtendType
<1>3. CASE f.source # Last(route.nodes) \/ f.target \in v.seen
  <2>1. u = v
    BY <1>3 DEF Extend
  <2>2. Grown(v, v)
    BY <1>0 DEF Grown
  <2> HIDE DEF u
  <2> QED
    BY <1>2, <1>3, <2>1, <2>2 DEF u
<1>4. CASE f.source = Last(route.nodes) /\ f.target \notin v.seen
  <2> DEFINE r == [nodes |-> Append(route.nodes, f.target), edges |-> Append(route.edges, f.id)]
             q == Append(v.queue, r)
             k == Len(v.queue) + 1
  <2>1. u = [queue |-> q, seen |-> v.seen \cup {f.target}]
    BY <1>4 DEF Extend
  <2>2. u.queue = q /\ u.seen = v.seen \cup {f.target}
    BY <2>1
  <2> HIDE DEF u
  <2>3. /\ route.nodes \in Seq(Nodes) /\ route.edges \in Seq(Names)
        /\ r.nodes = Append(route.nodes, f.target) /\ r.edges = Append(route.edges, f.id)
    BY <1>1 DEF Routes
  <2>4. r \in Routes(Nodes, Names)
    BY <1>0, <2>3 DEF Routes
  <2>5. Leads(route, from, among)
    BY DEF Explores
  <2>6. Last(r.nodes) = f.target /\ Leads(r, from, among)
    <3>1. /\ Len(route.nodes) \in Nat /\ Len(route.edges) \in Nat /\ Len(route.nodes) = Len(route.edges) + 1
          /\ route.nodes[1] = from /\ Last(route.nodes) = route.nodes[Len(route.nodes)]
      BY <2>3, <2>5 DEF Leads, Last
    <3>2. /\ Len(r.nodes) = Len(route.nodes) + 1 /\ r.nodes[Len(route.nodes) + 1] = f.target
          /\ \A i \in 1 .. Len(route.nodes) : r.nodes[i] = route.nodes[i]
      BY <1>0, <2>3
    <3>3. /\ Len(r.edges) = Len(route.edges) + 1 /\ r.edges[Len(route.edges) + 1] = f.id
          /\ \A i \in 1 .. Len(route.edges) : r.edges[i] = route.edges[i]
      BY <1>0, <2>3
    <3> HIDE DEF r, route
    <3>4. Last(r.nodes) = f.target
      BY <3>1, <3>2 DEF Last
    <3>5. ASSUME NEW i \in 1 .. Len(r.edges)
          PROVE  \E g \in Range(among) :
                   g.id = r.edges[i] /\ g.source = r.nodes[i] /\ g.target = r.nodes[i + 1]
      <4>1. CASE i = Len(route.edges) + 1
        <5>1. i = Len(route.nodes) /\ i \in 1 .. Len(route.nodes) /\ i + 1 = Len(route.nodes) + 1
          BY <3>1, <4>1
        <5> QED
          BY <1>4, <3>1, <3>2, <3>3, <4>1, <5>1
      <4>2. CASE i # Len(route.edges) + 1
        <5>1. i \in 1 .. Len(route.edges) /\ i \in 1 .. Len(route.nodes) /\ i + 1 \in 1 .. Len(route.nodes)
          BY <3>1, <3>3, <4>2
        <5>2. PICK g \in Range(among) :
                g.id = route.edges[i] /\ g.source = route.nodes[i] /\ g.target = route.nodes[i + 1]
          BY <2>5, <5>1 DEF Leads
        <5> QED
          BY <3>2, <3>3, <5>1, <5>2
      <4> QED
        BY <4>1, <4>2
    <3>6. r.nodes[1] = from /\ Len(r.nodes) = Len(r.edges) + 1
      <4>1. 1 \in 1 .. Len(route.nodes)
        BY <3>1
      <4> QED
        BY <3>1, <3>2, <3>3, <4>1
    <3> QED
      BY <3>4, <3>5, <3>6 DEF Leads
  <2> HIDE DEF r
  <2>7. /\ Len(q) = k /\ q[k] = r /\ \A i \in 1 .. Len(v.queue) : q[i] = v.queue[i]
        /\ k \in 1 .. k /\ \A i \in 1 .. k : i = k \/ i \in 1 .. Len(v.queue)
        /\ \A i \in 1 .. Len(v.queue) : i \in 1 .. k /\ i # k
    BY <1>0, <2>4
  <2> HIDE DEF q, k, route
  <2>8. Explores(u, from, among)
    <3>1. \A i \in 1 .. k : Leads(q[i], from, among) /\ Last(q[i].nodes) \in u.seen
      BY <2>2, <2>6, <2>7 DEF Explores
    <3>2. \A e \in u.seen : \E i \in 1 .. k : Last(q[i].nodes) = e
      BY <2>2, <2>6, <2>7 DEF Explores
    <3>3. \A i, j \in 1 .. k : Last(q[i].nodes) = Last(q[j].nodes) => i = j
      <4>1. \A i \in 1 .. Len(v.queue) : Last(v.queue[i].nodes) # f.target
        BY <1>4 DEF Explores
      <4> QED
        BY <2>6, <2>7, <4>1 DEF Explores
    <3>4. ASSUME NEW C, from \in C, ClosedUnderFlows(C, among)
          PROVE  u.seen \subseteq C
      <4>1. v.seen \subseteq C
        BY <3>4 DEF Explores
      <4>2. f.source \in C
        BY <1>4, <4>1 DEF Explores, route
      <4> QED
        BY <2>2, <3>4, <4>1, <4>2 DEF ClosedUnderFlows
    <3> QED
      BY <2>2, <2>7, <3>1, <3>2, <3>3, <3>4 DEF Explores
  <2>9. Nearby(u, W, n)
    <3>1. ASSUME k <= n + 1
          PROVE  f.target \in W[k - 1]
      <4>1. k - 1 \in 1 .. n /\ k - 1 = Len(v.queue) /\ m - 1 \in 0 .. (k - 2) /\ k \in Nat /\ m <= n + 1
        BY <1>0, <3>1 DEF k
      <4>2. f.source \in W[m - 1]
        BY <1>4, <4>1 DEF Nearby, route
      <4> DEFINE B == {i \in Nat : i >= m - 1 /\ i <= n => f.source \in W[i]}
      <4>3. 0 \in B
        <5>1. CASE m = 1
          BY <4>2, <5>1
        <5>2. CASE m # 1
          BY <5>2
        <5> QED
          BY <5>1, <5>2
      <4>4. ASSUME NEW i \in 1 .. n, i - 1 \in B
            PROVE  i \in B
        <5>1. CASE i = m - 1
          BY <4>2, <5>1
        <5>2. CASE i >= m
          <6>1. i - 1 >= m - 1 /\ i - 1 <= n /\ i - 1 \in Nat /\ i \in Nat
            BY <5>2
          <6>2. f.source \in W[i - 1]
            BY <4>4, <6>1
          <6> QED
            BY <6>1, <6>2 DEF Levels
        <5>3. CASE i < m - 1
          BY <5>3
        <5> QED
          BY <5>1, <5>2, <5>3
      <4> HIDE DEF B
      <4>5. \A i \in 1 .. n : i - 1 \in B => i \in B
        BY <4>4
      <4>6. \A i \in 0 .. n : i \in B
        BY <4>3, <4>5, CountsUp
      <4>7. k - 2 \in 0 .. n /\ k - 2 >= m - 1 /\ k - 2 <= n /\ (k - 1) - 1 = k - 2 /\ k - 2 \in Nat
        BY <4>1
      <4>8. f.source \in W[k - 2]
        BY <4>6, <4>7 DEF B
      <4>9. W[k - 1] = W[k - 2] \cup {h.target : h \in {g \in Range(among) : g.source \in W[k - 2]}}
        BY <4>1, <4>7 DEF Levels
      <4> QED
        BY <4>8, <4>9
    <3> QED
      BY <2>2, <2>6, <2>7, <3>1 DEF Nearby
  <2>10. Grown(v, u)
    <3>1. Len(v.queue) <= k
      BY <1>0 DEF k
    <3> QED
      BY <2>2, <2>7, <3>1 DEF Grown
  <2> QED
    BY <1>2, <2>2, <2>8, <2>9, <2>10 DEF u, route
<1> QED
  BY <1>3, <1>4

\* What may become of a search while its m-th route is extended.
Underway(Nodes, Names, among, from, W, n, m, route) ==
  {v \in Searches(Nodes, Names) :
     Explores(v, from, among) /\ Nearby(v, W, n) /\ m <= Len(v.queue) /\ v.queue[m] = route}

\* Extending a route by flow after flow is a recursion over the flows.
Extends(x, route, v, among) ==
  /\ x[0] = v
  /\ \A i \in 1 .. Len(among) : x[i] = Extend(route, x[i - 1], among[i])

\* The recursion is solved, and at every flow the search keeps what a search is.
LEMMA ExpandExtends ==
  ASSUME NEW Nodes, NEW Names, NEW among, FlowsAmong(among, Nodes, Names), NEW from,
         NEW n \in Nat, NEW W, Levels(W, n, from, among), NEW m \in Nat, m >= 1, NEW route,
         NEW v \in Underway(Nodes, Names, among, from, W, n, m, route)
  PROVE  \E x : /\ Extends(x, route, v, among) /\ Expand(route, v, among) = x[Len(among)]
                /\ \A i \in 0 .. Len(among) : x[i] \in Underway(Nodes, Names, among, from, W, n, m, route)
<1> DEFINE k == Len(among)
           op(u, i) == Extend(route, u, among[i])
           Equation(x) == x = [i \in 0 .. k |-> IF i = 0 THEN v ELSE op(x[i - 1], i)]
           it == CHOOSE x : Equation(x)
           V == Underway(Nodes, Names, among, from, W, n, m, route)
           st == [p \in (1 .. k) \X V |-> op(p[2], p[1])]
<1>1. Expand(route, v, among) = it[k]
  BY DEF Expand
<1>2. k \in Nat /\ \A i \in 1 .. k : among[i] \in Range(among)
  BY DEF FlowsAmong, Range
<1>3. ASSUME NEW i \in 1 .. k, NEW u \in V
      PROVE  op(u, i) \in V
  <2> DEFINE w == Extend(u.queue[m], u, among[i])
  <2>1. /\ u \in Searches(Nodes, Names) /\ Explores(u, from, among) /\ Nearby(u, W, n)
        /\ m <= Len(u.queue) /\ u.queue[m] = route
    BY DEF Underway
  <2>2. u.queue \in Seq(Routes(Nodes, Names)) /\ Len(u.queue) \in Nat /\ m \in 1 .. Len(u.queue)
    BY <2>1 DEF Searches
  <2>3. /\ w \in Searches(Nodes, Names) /\ Explores(w, from, among) /\ Nearby(w, W, n) /\ Grown(u, w)
    BY <1>2, <2>1, <2>2, ExtendExplores
  <2> HIDE DEF w
  <2>4. w.queue \in Seq(Routes(Nodes, Names)) /\ Len(w.queue) \in Nat
    BY <2>3 DEF Searches
  <2>5. m <= Len(w.queue) /\ w.queue[m] = route
    BY <2>1, <2>2, <2>3, <2>4 DEF Grown
  <2>6. w \in V
    BY <2>3, <2>5 DEF Underway
  <2> QED
    BY <2>1, <2>6 DEF w
<1> HIDE DEF V, op, k
<1>4. st \in [(1 .. k) \X V -> V] /\ \A i \in 1 .. k, u \in V : st[<<i, u>>] = op(u, i)
  BY <1>3
<1> HIDE DEF st
<1>5. PICK x : Counts(x, k, V, v, st)
  <2>1. k \in Nat /\ v \in V /\ st \in [(1 .. k) \X V -> V]
    BY <1>2, <1>4 DEF V
  <2> QED
    BY <2>1, CountingRecursion
<1>6. \A i \in 0 .. k : i # 0 => i \in 1 .. k /\ i - 1 \in 0 .. k
  BY <1>2
<1>7. Equation(x)
  <2>1. \A i \in 0 .. k : i # 0 => st[<<i, x[i - 1]>>] = op(x[i - 1], i)
    BY <1>4, <1>5, <1>6 DEF Counts
  <2> QED
    BY <1>5, <2>1 DEF Counts
<1>8. Equation(it)
  BY <1>7
<1> HIDE DEF it
<1>9. it[0] = v /\ \A i \in 1 .. k : it[i] = op(it[i - 1], i)
  <2>1. 0 \in 0 .. k /\ \A i \in 1 .. k : i \in 0 .. k /\ i # 0
    BY <1>2
  <2> QED
    BY <1>8, <2>1
<1>10. \A i \in 0 .. k : it[i] \in V
  <2> DEFINE B == {i \in Nat : it[i] \in V}
  <2>1. 0 \in B
    BY <1>9 DEF V
  <2>2. \A i \in 1 .. k : i - 1 \in B => i \in B
    BY <1>3, <1>9
  <2> HIDE DEF B
  <2>3. \A i \in 0 .. k : i \in B
    BY <1>2, <2>1, <2>2, CountsUp
  <2> QED
    BY <2>3 DEF B
<1> QED
  BY <1>1, <1>9, <1>10 DEF Extends, op, k, V

\* When a route has been extended, what flows lead to from its end is seen.
LEMMA ExpandExplores ==
  ASSUME NEW Nodes, NEW Names, NEW among, FlowsAmong(among, Nodes, Names), NEW from,
         NEW v \in Searches(Nodes, Names), Explores(v, from, among),
         NEW n \in Nat, NEW W, Levels(W, n, from, among), Nearby(v, W, n), NEW m \in 1 .. Len(v.queue)
  PROVE  LET u == Expand(v.queue[m], v, among)
         IN /\ u \in Searches(Nodes, Names) /\ Explores(u, from, among) /\ Nearby(u, W, n) /\ Grown(v, u)
            /\ \A f \in Range(among) : f.source = Last(v.queue[m].nodes) => f.target \in u.seen
<1> DEFINE k == Len(among)
           route == v.queue[m]
           V == Underway(Nodes, Names, among, from, W, n, m, route)
<1>1. v.queue \in Seq(Routes(Nodes, Names)) /\ Len(v.queue) \in Nat /\ m \in Nat /\ m >= 1 /\ m <= Len(v.queue)
  BY DEF Searches
<1>2. v \in V
  BY <1>1 DEF Underway
<1> HIDE DEF route, V
<1>3. PICK x : /\ Extends(x, route, v, among) /\ Expand(route, v, among) = x[k]
               /\ \A i \in 0 .. k : x[i] \in V
  BY <1>1, <1>2, ExpandExtends DEF V
<1>4. k \in Nat /\ \A i \in 1 .. k : among[i] \in Range(among)
  BY DEF FlowsAmong, Range
<1>5. \A f \in Range(among) : \E i \in 1 .. k : among[i] = f
  BY DEF FlowsAmong, Range
<1> HIDE DEF k
<1>6. ASSUME NEW i \in 1 .. k
      PROVE  /\ Grown(x[i - 1], x[i])
             /\ among[i].source = Last(route.nodes) => among[i].target \in x[i].seen
  <2> DEFINE u == x[i - 1]
  <2>1. i - 1 \in 0 .. k /\ u \in V
    BY <1>3, <1>4
  <2>2. x[i] = Extend(route, u, among[i])
    BY <1>3, <1>4 DEF Extends, k
  <2> HIDE DEF u
  <2>3. /\ u \in Searches(Nodes, Names) /\ Explores(u, from, among) /\ Nearby(u, W, n)
        /\ m <= Len(u.queue) /\ u.queue[m] = route
    BY <2>1 DEF Underway, V
  <2>4. m \in 1 .. Len(u.queue) /\ among[i] \in Range(among)
    <3>1. u.queue \in Seq(Routes(Nodes, Names))
      BY <2>3 DEF Searches
    <3>2. Len(u.queue) \in Nat
      BY <3>1
    <3> QED
      BY <1>1, <1>4, <2>3, <3>2
  <2> DEFINE w == Extend(u.queue[m], u, among[i])
  <2>5. Grown(u, w) /\ (among[i].source = Last(u.queue[m].nodes) => among[i].target \in w.seen)
    BY <2>3, <2>4, ExtendExplores
  <2>6. w = x[i]
    BY <2>2, <2>3
  <2> HIDE DEF w
  <2> QED
    BY <2>3, <2>5, <2>6 DEF u
<1> DEFINE B == {i \in 0 .. k : /\ Grown(v, x[i])
                                /\ \A j \in 1 .. i : among[j].source = Last(route.nodes) => among[j].target \in x[i].seen}
<1>7. 0 \in B
  <2>1. Grown(v, v)
    BY <1>1 DEF Grown
  <2>2. x[0] = v /\ 0 \in 0 .. k
    BY <1>3, <1>4 DEF Extends
  <2> QED
    BY <2>1, <2>2
<1>8. ASSUME NEW i \in 1 .. k, i - 1 \in B
      PROVE  i \in B
  <2>1. Grown(v, x[i - 1]) /\ Grown(x[i - 1], x[i]) /\ i \in 0 .. k /\ i - 1 \in 0 .. k
    BY <1>4, <1>6, <1>8
  <2>2. /\ x[i - 1].queue \in Seq(Routes(Nodes, Names)) /\ x[i].queue \in Seq(Routes(Nodes, Names))
    BY <1>3, <2>1 DEF V, Underway, Searches
  <2>3. Len(x[i - 1].queue) \in Nat /\ Len(x[i].queue) \in Nat
    BY <2>2
  <2>4. Grown(v, x[i])
    <3> DEFINE a == x[i - 1]
               b == x[i]
    <3>1. Grown(v, a) /\ Grown(a, b) /\ Len(a.queue) \in Nat /\ Len(b.queue) \in Nat /\ Len(v.queue) \in Nat
      BY <1>1, <2>1, <2>3
    <3> HIDE DEF a, b
    <3>2. Len(v.queue) <= Len(b.queue) /\ v.seen \subseteq b.seen
      BY <3>1 DEF Grown
    <3>3. \A j \in 1 .. Len(v.queue) : j \in 1 .. Len(a.queue)
      BY <3>1 DEF Grown
    <3>4. Grown(v, b)
      BY <3>1, <3>2, <3>3 DEF Grown
    <3> QED
      BY <3>4 DEF b
  <2>5. ASSUME NEW j \in 1 .. i, among[j].source = Last(route.nodes)
        PROVE  among[j].target \in x[i].seen
    <3>1. CASE j = i
      BY <1>6, <2>5, <3>1
    <3>2. CASE j # i
      <4>1. j \in 1 .. (i - 1)
        BY <3>2
      <4>2. among[j].target \in x[i - 1].seen
        BY <1>8, <2>5, <4>1
      <4> QED
        BY <2>1, <4>2 DEF Grown
    <3> QED
      BY <3>1, <3>2
  <2> QED
    BY <2>1, <2>4, <2>5
<1> HIDE DEF B
<1>9. k \in B
  <2>1. \A i \in 1 .. k : i - 1 \in B => i \in B
    BY <1>8
  <2>2. \A i \in 0 .. k : i \in B
    BY <1>4, <1>7, <2>1, CountsUp
  <2> QED
    BY <1>4, <2>2
<1>10. /\ Grown(v, x[k]) /\ x[k] \in V
       /\ \A j \in 1 .. k : among[j].source = Last(route.nodes) => among[j].target \in x[k].seen
  BY <1>3, <1>4, <1>9 DEF B
<1>11. x[k] \in Searches(Nodes, Names) /\ Explores(x[k], from, among) /\ Nearby(x[k], W, n)
  BY <1>10 DEF V, Underway
<1>12. \A f \in Range(among) : f.source = Last(route.nodes) => f.target \in x[k].seen
  BY <1>5, <1>10
<1> QED
  BY <1>3, <1>10, <1>11, <1>12 DEF route

\* What may become of a search.
Sought(Nodes, Names, among, from, W, n) ==
  {v \in Searches(Nodes, Names) : Explores(v, from, among) /\ Nearby(v, W, n) /\ from \in v.seen}

NewSearch(from) == [queue |-> <<[nodes |-> <<from>>, edges |-> <<>>]>>, seen |-> {from}]

\* A search begins with the route that stays at its origin.
LEMMA NewSearchExplores ==
  ASSUME NEW Nodes, NEW Names, NEW among, NEW from \in Nodes, NEW n \in Nat, NEW W, Levels(W, n, from, among)
  PROVE  NewSearch(from) \in Sought(Nodes, Names, among, from, W, n)
<1> DEFINE r == [nodes |-> <<from>>, edges |-> <<>>]
           q == <<r>>
           v == NewSearch(from)
<1>1. r \in Routes(Nodes, Names)
  BY DEF Routes
<1>2. r.nodes = <<from>> /\ r.edges = <<>>
  OBVIOUS
<1>3. Last(r.nodes) = from /\ Leads(r, from, among)
  BY <1>2 DEF Last, Leads
<1>4. v = [queue |-> q, seen |-> {from}]
  BY DEF NewSearch
<1> HIDE DEF r, v
<1>5. q \in Seq(Routes(Nodes, Names)) /\ Len(q) = 1 /\ q[1] = r
  BY <1>1
<1>6. \A i \in 1 .. Len(q) : i = 1 /\ q[i] = r
  BY <1>5
<1> HIDE DEF q
<1>7. v.queue = q /\ v.seen = {from} /\ v \in Searches(Nodes, Names)
  BY <1>4, <1>5 DEF Searches
<1>8. Explores(v, from, among)
  <2>1. 1 \in 1 .. Len(q)
    BY <1>5
  <2> QED
    BY <1>3, <1>5, <1>6, <1>7, <2>1 DEF Explores
<1>9. Nearby(v, W, n)
  <2>1. \A i \in 1 .. Len(q) : Last(q[i].nodes) \in W[i - 1]
    BY <1>3, <1>6 DEF Levels
  <2> QED
    BY <1>7, <2>1 DEF Nearby
<1> QED
  BY <1>7, <1>8, <1>9 DEF Sought, v

\* One more route is taken from the queue.
Advances(x, n, from, among) ==
  /\ x[0] = NewSearch(from)
  /\ \A i \in 1 .. n : x[i] = IF i > Len(x[i - 1].queue) THEN x[i - 1]
                              ELSE Expand(x[i - 1].queue[i], x[i - 1], among)

\* The search solves its recursion, and keeps at every route what a search is.
LEMMA SearchAdvances ==
  ASSUME NEW Nodes, NEW Names, NEW among, FlowsAmong(among, Nodes, Names), NEW from \in Nodes,
         NEW n \in Nat, NEW W, Levels(W, n, from, among)
  PROVE  \E x : /\ Advances(x, n, from, among) /\ Searched(from, among, n) = x[n]
                /\ \A i \in 0 .. n : x[i] \in Sought(Nodes, Names, among, from, W, n)
<1> DEFINE v == NewSearch(from)
           op(u, i) == IF i > Len(u.queue) THEN u ELSE Expand(u.queue[i], u, among)
           Equation(x) == x = [i \in 0 .. n |-> IF i = 0 THEN v ELSE op(x[i - 1], i)]
           it == CHOOSE x : Equation(x)
           V == Sought(Nodes, Names, among, from, W, n)
           st == [p \in (1 .. n) \X V |-> op(p[2], p[1])]
<1>1. Searched(from, among, n) = it[n]
  BY DEF Searched, NewSearch
<1>2. v \in V
  BY NewSearchExplores
<1>3. ASSUME NEW i \in 1 .. n, NEW u \in V
      PROVE  op(u, i) \in V
  <2>1. /\ u \in Searches(Nodes, Names) /\ Explores(u, from, among) /\ Nearby(u, W, n) /\ from \in u.seen
    BY DEF Sought
  <2>2. u.queue \in Seq(Routes(Nodes, Names))
    BY <2>1 DEF Searches
  <2>3. Len(u.queue) \in Nat
    BY <2>2
  <2>4. CASE i > Len(u.queue)
    BY <2>4
  <2>5. CASE ~(i > Len(u.queue))
    <3> DEFINE w == Expand(u.queue[i], u, among)
    <3>1. i \in 1 .. Len(u.queue)
      BY <2>3, <2>5
    <3>2. /\ w \in Searches(Nodes, Names) /\ Explores(w, from, among) /\ Nearby(w, W, n) /\ Grown(u, w)
      BY <2>1, <3>1, ExpandExplores
    <3> HIDE DEF w
    <3>3. from \in w.seen
      BY <2>1, <3>2 DEF Grown
    <3>4. w \in V
      BY <3>2, <3>3 DEF Sought
    <3> QED
      BY <2>5, <3>4 DEF w
  <2> QED
    BY <2>4, <2>5
<1> HIDE DEF V, op, v
<1>4. st \in [(1 .. n) \X V -> V] /\ \A i \in 1 .. n, u \in V : st[<<i, u>>] = op(u, i)
  BY <1>3
<1> HIDE DEF st
<1>5. PICK x : Counts(x, n, V, v, st)
  BY <1>2, <1>4, CountingRecursion
<1>6. \A i \in 0 .. n : i # 0 => i \in 1 .. n /\ i - 1 \in 0 .. n
  OBVIOUS
<1>7. Equation(x)
  <2>1. \A i \in 0 .. n : i # 0 => st[<<i, x[i - 1]>>] = op(x[i - 1], i)
    BY <1>4, <1>5, <1>6 DEF Counts
  <2> QED
    BY <1>5, <2>1 DEF Counts
<1>8. Equation(it)
  BY <1>7
<1> HIDE DEF it
<1>9. it[0] = v /\ \A i \in 1 .. n : it[i] = op(it[i - 1], i)
  <2>1. 0 \in 0 .. n /\ \A i \in 1 .. n : i \in 0 .. n /\ i # 0
    OBVIOUS
  <2> QED
    BY <1>8, <2>1
<1>10. \A i \in 0 .. n : it[i] \in V
  <2> DEFINE B == {i \in Nat : it[i] \in V}
  <2>1. 0 \in B
    BY <1>2, <1>9
  <2>2. \A i \in 1 .. n : i - 1 \in B => i \in B
    BY <1>3, <1>9
  <2> HIDE DEF B
  <2>3. \A i \in 0 .. n : i \in B
    BY <2>1, <2>2, CountsUp
  <2> QED
    BY <2>3 DEF B
<1> QED
  BY <1>1, <1>9, <1>10 DEF Advances, op, v, V

\* The routes that were taken from the queue have been followed.
Followed(v, n, among) ==
  \A i \in 1 .. Len(v.queue) : i <= n =>
    \A f \in Range(among) : f.source = Last(v.queue[i].nodes) => f.target \in v.seen

\* After n routes what the first n lead to is seen.
LEMMA SearchFollows ==
  ASSUME NEW Nodes, NEW Names, NEW among, FlowsAmong(among, Nodes, Names), NEW from \in Nodes,
         NEW n \in Nat, NEW W, Levels(W, n, from, among)
  PROVE  /\ Searched(from, among, n) \in Sought(Nodes, Names, among, from, W, n)
         /\ Followed(Searched(from, among, n), n, among)
<1>1. PICK x : /\ Advances(x, n, from, among) /\ Searched(from, among, n) = x[n]
               /\ \A i \in 0 .. n : x[i] \in Sought(Nodes, Names, among, from, W, n)
  BY SearchAdvances
<1> DEFINE B == {i \in 0 .. n : Followed(x[i], i, among)}
<1>2. 0 \in B
  BY DEF Followed
<1>3. ASSUME NEW i \in 1 .. n, i - 1 \in B
      PROVE  i \in B
  <2> DEFINE u == x[i - 1]
             w == x[i]
  <2>1. i \in 0 .. n /\ i - 1 \in 0 .. n
    OBVIOUS
  <2>2. u \in Sought(Nodes, Names, among, from, W, n) /\ w \in Sought(Nodes, Names, among, from, W, n)
    BY <1>1, <2>1
  <2>3. w = IF i > Len(u.queue) THEN u ELSE Expand(u.queue[i], u, among)
    BY <1>1 DEF Advances
  <2>4. Followed(u, i - 1, among)
    BY <1>3
  <2> HIDE DEF u
  <2>5. /\ u \in Searches(Nodes, Names) /\ Explores(u, from, among) /\ Nearby(u, W, n)
        /\ u.queue \in Seq(Routes(Nodes, Names))
    BY <2>2 DEF Sought, Searches
  <2>6. Len(u.queue) \in Nat
    BY <2>5
  <2>7. CASE i > Len(u.queue)
    <3>1. w = u
      BY <2>3, <2>7
    <3>2. \A j \in 1 .. Len(u.queue) : j <= i => j <= i - 1
      BY <2>6, <2>7
    <3>3. Followed(u, i, among)
      BY <2>4, <3>2 DEF Followed
    <3> QED
      BY <2>1, <3>1, <3>3
  <2>8. CASE ~(i > Len(u.queue))
    <3>1. w = Expand(u.queue[i], u, among) /\ i \in 1 .. Len(u.queue)
      BY <2>3, <2>6, <2>8
    <3> HIDE DEF w
    <3>2. /\ Grown(u, w)
          /\ \A f \in Range(among) : f.source = Last(u.queue[i].nodes) => f.target \in w.seen
      BY <2>5, <3>1, ExpandExplores
    <3>3. ASSUME NEW j \in 1 .. Len(w.queue), j <= i, NEW f \in Range(among), f.source = Last(w.queue[j].nodes)
          PROVE  f.target \in w.seen
      <4>1. j \in 1 .. Len(u.queue) /\ w.queue[j] = u.queue[j] /\ u.seen \subseteq w.seen
        <5>1. w.queue \in Seq(Routes(Nodes, Names))
          BY <2>2 DEF w, Sought, Searches
        <5>2. Len(w.queue) \in Nat
          BY <5>1
        <5>3. j \in 1 .. Len(u.queue)
          BY <2>6, <3>1, <3>3, <5>2
        <5> QED
          BY <3>2, <5>3 DEF Grown
      <4>2. CASE j = i
        BY <3>2, <3>3, <4>1, <4>2
      <4>3. CASE j # i
        <5>1. j <= i - 1
          BY <3>3, <4>1, <4>3, <2>6
        <5> QED
          BY <2>4, <3>3, <4>1, <5>1 DEF Followed
      <4> QED
        BY <4>2, <4>3
    <3>4. Followed(w, i, among)
      BY <3>3 DEF Followed
    <3> QED
      BY <2>1, <3>4 DEF w
  <2> QED
    BY <2>7, <2>8
<1> HIDE DEF B
<1>4. n \in B
  <2>1. \A i \in 1 .. n : i - 1 \in B => i \in B
    BY <1>3
  <2>2. \A i \in 0 .. n : i \in B
    BY <1>2, <2>1, CountsUp
  <2> QED
    BY <2>2
<1>5. n \in 0 .. n
  OBVIOUS
<1> QED
  BY <1>1, <1>4, <1>5 DEF B

\* What flows lead to from a, with one more flow at a time.
LEMMA ReachableLevels ==
  ASSUME NEW Nodes, NEW Names, NEW among, FlowsAmong(among, Nodes, Names), NEW from \in Nodes,
         entities \in Seq(Range(entities))
  PROVE  \E W : Levels(W, Len(entities), from, among) /\ Reachable(from, among) = W[Len(entities)]
<1> DEFINE n == Len(entities)
           op(u) == u \cup {f.target : f \in {g \in Range(among) : g.source \in u}}
           Equation(x) == x = [i \in 0 .. n |-> IF i = 0 THEN {from} ELSE op(x[i - 1])]
           it == CHOOSE x : Equation(x)
           V == SUBSET Nodes
           st == [p \in (1 .. n) \X V |-> op(p[2])]
<1>1. Reachable(from, among) = it[n]
  BY DEF Reachable
<1>2. n \in Nat
  OBVIOUS
<1>3. {from} \in V /\ \A u \in V : op(u) \in V
  BY DEF FlowsAmong
<1> HIDE DEF V, op, n
<1>4. st \in [(1 .. n) \X V -> V] /\ \A i \in 1 .. n, u \in V : st[<<i, u>>] = op(u)
  BY <1>3
<1> HIDE DEF st
<1>5. PICK x : Counts(x, n, V, {from}, st)
  BY <1>2, <1>3, <1>4, CountingRecursion
<1>6. \A i \in 0 .. n : i # 0 => i \in 1 .. n /\ i - 1 \in 0 .. n
  BY <1>2
<1>7. Equation(x)
  <2>1. \A i \in 0 .. n : i # 0 => st[<<i, x[i - 1]>>] = op(x[i - 1])
    BY <1>4, <1>5, <1>6 DEF Counts
  <2> QED
    BY <1>5, <2>1 DEF Counts
<1>8. Equation(it)
  BY <1>7
<1> HIDE DEF it
<1>9. it[0] = {from} /\ \A i \in 1 .. n : it[i] = op(it[i - 1])
  <2>1. 0 \in 0 .. n /\ \A i \in 1 .. n : i \in 0 .. n /\ i # 0
    BY <1>2
  <2> QED
    BY <1>8, <2>1
<1> QED
  BY <1>1, <1>9 DEF Levels, op, n

\* The levels grow, and stay in whatever is closed.
LEMMA LevelsGrow ==
  ASSUME NEW n \in Nat, NEW W, NEW from, NEW among, Levels(W, n, from, among)
  PROVE  /\ \A i \in 0 .. n : W[i] \subseteq W[n]
         /\ \A C : from \in C /\ ClosedUnderFlows(C, among) => W[n] \subseteq C
<1>1. ASSUME NEW i \in 0 .. n
      PROVE  W[i] \subseteq W[n]
  <2> DEFINE B == {j \in Nat : j >= i => W[i] \subseteq W[j]}
  <2>1. 0 \in B
    OBVIOUS
  <2>2. ASSUME NEW j \in 1 .. n, j - 1 \in B
        PROVE  j \in B
    <3>1. CASE j = i
      BY <3>1
    <3>2. CASE j # i /\ j >= i
      <4>1. j - 1 >= i
        BY <3>2
      <4>2. W[i] \subseteq W[j - 1] /\ W[j - 1] \subseteq W[j]
        BY <2>2, <4>1 DEF Levels
      <4> QED
        BY <4>2
    <3>3. CASE ~(j >= i)
      BY <3>3
    <3> QED
      BY <3>1, <3>2, <3>3
  <2> HIDE DEF B
  <2>3. \A j \in 1 .. n : j - 1 \in B => j \in B
    BY <2>2
  <2>4. \A j \in 0 .. n : j \in B
    BY <2>1, <2>3, CountsUp
  <2> QED
    BY <2>4 DEF B
<1>2. ASSUME NEW C, from \in C, ClosedUnderFlows(C, among)
      PROVE  W[n] \subseteq C
  <2> DEFINE B == {j \in Nat : W[j] \subseteq C}
  <2>1. 0 \in B
    BY <1>2 DEF Levels
  <2>2. ASSUME NEW j \in 1 .. n, j - 1 \in B
        PROVE  j \in B
    <3>1. W[j - 1] \subseteq C /\ W[j] = W[j - 1] \cup {f.target : f \in {g \in Range(among) : g.source \in W[j - 1]}}
      BY <2>2 DEF Levels
    <3> QED
      BY <1>2, <3>1 DEF ClosedUnderFlows
  <2> HIDE DEF B
  <2>3. \A j \in 1 .. n : j - 1 \in B => j \in B
    BY <2>2
  <2>4. \A j \in 0 .. n : j \in B
    BY <2>1, <2>3, CountsUp
  <2> QED
    BY <2>4 DEF B
<1> QED
  BY <1>1, <1>2


\* The search as far as there are entities leaves nothing out: what it has
\* seen is what is reachable.
LEMMA SearchReaches ==
  ASSUME NEW among, among \in Seq(Range(among)), entities \in Seq(Range(entities)), NEW from,
         \A f \in Range(among) : Ends(f) \subseteq Range(entities)
  PROVE  \E Nodes, Names, v :
           /\ v = Searched(from, among, Len(entities)) /\ v \in Searches(Nodes, Names)
           /\ Explores(v, from, among) /\ v.seen = Reachable(from, among)
<1> DEFINE Nodes == Range(entities) \cup {from}
           Names == {f.id : f \in Range(among)}
           n == Len(entities)
           v == Searched(from, among, n)
<1>1. \A f \in Range(among) : f.source \in Range(entities) /\ f.target \in Range(entities)
  BY DEF Ends
<1>2. FlowsAmong(among, Nodes, Names) /\ from \in Nodes
  BY <1>1 DEF FlowsAmong
<1> HIDE DEF Nodes, Names
<1>3. n \in Nat
  OBVIOUS
<1>4. PICK W : Levels(W, n, from, among) /\ Reachable(from, among) = W[n]
  BY <1>2, ReachableLevels
<1> HIDE DEF n
<1>5. v \in Sought(Nodes, Names, among, from, W, n) /\ Followed(v, n, among)
  BY <1>2, <1>3, <1>4, SearchFollows
<1> HIDE DEF v
<1>6. /\ v \in Searches(Nodes, Names) /\ Explores(v, from, among) /\ Nearby(v, W, n) /\ from \in v.seen
      /\ v.queue \in Seq(Routes(Nodes, Names))
  BY <1>5 DEF Sought, Searches
<1>7. Len(v.queue) \in Nat
  BY <1>6
<1> DEFINE e == [i \in 1 .. Len(v.queue) |-> Last(v.queue[i].nodes)]
<1>8. /\ \A i \in 1 .. Len(v.queue) : e[i] = Last(v.queue[i].nodes) /\ e[i] \in v.seen
      /\ \A x \in v.seen : \E i \in 1 .. Len(v.queue) : e[i] = x
      /\ \A i, j \in 1 .. Len(v.queue) : e[i] = e[j] => i = j
  BY <1>6 DEF Explores
<1> HIDE DEF e
<1>9. ClosedUnderFlows(v.seen, among) /\ v.seen \subseteq W[n]
  <2>1. CASE from \in Range(entities)
    <3>1. v.seen \subseteq Range(entities)
      <4>1. Nodes = Range(entities)
        BY <2>1 DEF Nodes
      <4> QED
        BY <1>6, <4>1 DEF Searches
    <3>2. \A i \in 1 .. Len(v.queue) : e[i] \in Range(entities)
      BY <1>8, <3>1
    <3>3. Len(v.queue) <= n
      <4> DEFINE k == Len(v.queue)
      <4>1. k \in Nat /\ \A i \in 1 .. k : e[i] \in Range(entities)
        BY <1>7, <3>2
      <4>2. \A i, j \in 1 .. k : e[i] = e[j] => i = j
        BY <1>8
      <4> HIDE DEF k
      <4>3. k <= Len(entities)
        BY <4>1, <4>2, NoLonger
      <4> QED
        BY <4>3 DEF n, k
    <3>4. \A i \in 1 .. Len(v.queue) : i <= n /\ i <= n + 1 /\ i - 1 \in 0 .. n
      BY <1>3, <1>7, <3>3
    <3>5. ClosedUnderFlows(v.seen, among)
      BY <1>5, <1>8, <3>4 DEF Followed, ClosedUnderFlows
    <3>6. \A i \in 1 .. Len(v.queue) : e[i] \in W[i - 1]
      BY <1>6, <1>8, <3>4 DEF Nearby
    <3>7. \A i \in 0 .. n : W[i] \subseteq W[n]
      BY <1>3, <1>4, LevelsGrow
    <3>8. \A i \in 1 .. Len(v.queue) : e[i] \in W[n]
      BY <3>4, <3>6, <3>7
    <3> QED
      BY <1>8, <3>5, <3>8
  <2>2. CASE from \notin Range(entities)
    <3>1. ClosedUnderFlows({from}, among)
      BY <1>1, <2>2 DEF ClosedUnderFlows
    <3>2. v.seen = {from}
      <4>1. from \in {from}
        OBVIOUS
      <4>2. v.seen \subseteq {from}
        BY <1>6, <3>1, <4>1 DEF Explores
      <4> QED
        BY <1>6, <4>2
    <3>3. W[0] \subseteq W[n]
      <4>1. 0 \in 0 .. n
        BY <1>3
      <4>2. \A i \in 0 .. n : W[i] \subseteq W[n]
        BY <1>3, <1>4, LevelsGrow
      <4> QED
        BY <4>1, <4>2
    <3> QED
      BY <1>4, <3>1, <3>2, <3>3 DEF Levels
  <2> QED
    BY <2>1, <2>2
<1>10. W[n] \subseteq v.seen
  <2>1. \A C : from \in C /\ ClosedUnderFlows(C, among) => W[n] \subseteq C
    BY <1>3, <1>4, LevelsGrow
  <2> QED
    BY <1>6, <1>9, <2>1
<1>11. v = Searched(from, among, Len(entities)) /\ v.seen = Reachable(from, among)
  BY <1>4, <1>9, <1>10 DEF v, n
<1> QED
  BY <1>6, <1>11

\* A route that is found leads over the flows; there is one to what is reachable.
RouteSays(r, from, to, among) ==
  /\ IF to \in Reachable(from, among) THEN Head(r.nodes) = from /\ Last(r.nodes) = to ELSE r.nodes = <<>>
  /\ \A i \in DOMAIN r.edges : \E f \in Range(among) :
       f.id = r.edges[i] /\ f.source = r.nodes[i] /\ f.target = r.nodes[i + 1]

\* That is what the path that is found says.
LEMMA RouteFound ==
  ASSUME NEW among, among \in Seq(Range(among)), entities \in Seq(Range(entities)), NEW from, NEW to,
         \A f \in Range(among) : Ends(f) \subseteq Range(entities)
  PROVE  RouteSays(DirectedPath(from, to, among), from, to, among)
<1>1. PICK Nodes, Names, v :
        /\ v = Searched(from, among, Len(entities)) /\ v \in Searches(Nodes, Names)
        /\ Explores(v, from, among) /\ v.seen = Reachable(from, among)
  BY SearchReaches
<1> DEFINE q == v.queue
           hits == {i \in DOMAIN q : Last(q[i].nodes) = to}
           none == [nodes |-> <<>>, edges |-> <<>>]
           least == CHOOSE i \in hits : \A j \in hits : i <= j
           r == DirectedPath(from, to, among)
<1>2. r = IF hits = {} THEN none ELSE q[least]
  BY <1>1 DEF DirectedPath
<1>3. q \in Seq(Routes(Nodes, Names))
  BY <1>1 DEF Searches
<1>4. DOMAIN q = 1 .. Len(q) /\ Len(q) \in Nat
  BY <1>3
<1> HIDE DEF r
<1>5. CASE hits = {}
  <2>1. to \notin v.seen
    BY <1>1, <1>4, <1>5 DEF Explores
  <2>2. r = none
    BY <1>2, <1>5
  <2>3. r.nodes = <<>> /\ DOMAIN r.edges = {}
    BY <2>2
  <2> QED
    BY <1>1, <2>1, <2>3 DEF RouteSays, r
<1>6. CASE hits # {}
  <2>1. hits \subseteq Nat /\ hits \subseteq 1 .. Len(q)
    BY <1>4
  <2>2. least \in hits
    <3> HIDE DEF hits
    <3>1. \E i \in hits : \A j \in hits : i <= j
      BY <1>6, <2>1, LeastNat
    <3> QED
      BY <3>1
  <2>3. r = q[least]
    BY <1>2, <1>6
  <2>4. Last(r.nodes) = to /\ least \in 1 .. Len(q)
    BY <2>1, <2>2, <2>3
  <2> HIDE DEF hits, least
  <2>5. Leads(r, from, among) /\ to \in v.seen
    BY <1>1, <2>3, <2>4 DEF Explores
  <2>6. r \in Routes(Nodes, Names)
    BY <1>3, <2>3, <2>4
  <2>7. r.nodes \in Seq(Nodes) /\ r.edges \in Seq(Names)
    BY <2>6 DEF Routes
  <2>8. DOMAIN r.edges = 1 .. Len(r.edges) /\ Head(r.nodes) = r.nodes[1]
    BY <2>5, <2>7 DEF Leads
  <2>9. Head(r.nodes) = from
    BY <2>5, <2>8 DEF Leads
  <2>10. \A i \in DOMAIN r.edges : \E f \in Range(among) :
          f.id = r.edges[i] /\ f.source = r.nodes[i] /\ f.target = r.nodes[i + 1]
    BY <2>5, <2>8 DEF Leads
  <2> QED
    BY <1>1, <2>4, <2>5, <2>9, <2>10 DEF RouteSays, r
<1> QED
  BY <1>5, <1>6

OneEach(l) == \A i, j \in DOMAIN l : l[i].id = l[j].id => i = j


\* An entry that is put in replaces the one of its key, or is appended.
LEMMA PutIs ==
  ASSUME NEW A, NEW list \in Seq(A), NEW f \in A, OneEach(list)
  PROVE  Put(list, f) \in Seq(A) /\ OneEach(Put(list, f)) /\ Range(Put(list, f)) \subseteq Range(list) \cup {f}
<1> DEFINE p == Put(list, f)
<1>0. DOMAIN list = 1 .. Len(list) /\ Len(list) \in Nat /\ \A i \in DOMAIN list : list[i] \in A
  OBVIOUS
<1>1. CASE f.id \in Ids(list)
  <2>1. p = [i \in DOMAIN list |-> IF list[i].id = f.id THEN f ELSE list[i]]
    BY <1>1 DEF Put
  <2> HIDE DEF p
  <2>2. DOMAIN p = DOMAIN list /\ \A i \in DOMAIN list : p[i].id = list[i].id /\ p[i] \in {f, list[i]}
    BY <2>1
  <2>3. p \in Seq(A)
    BY <1>0, <2>1
  <2>4. OneEach(p)
    BY <2>2 DEF OneEach
  <2>5. Range(p) \subseteq Range(list) \cup {f}
    BY <2>2 DEF Range
  <2> QED
    BY <2>3, <2>4, <2>5 DEF p
<1>2. CASE f.id \notin Ids(list)
  <2>1. p = Append(list, f)
    BY <1>2 DEF Put
  <2> HIDE DEF p
  <2>2. /\ p \in Seq(A) /\ DOMAIN p = 1 .. Len(list) + 1 /\ p[Len(list) + 1] = f
        /\ \A i \in 1 .. Len(list) : p[i] = list[i]
    BY <2>1
  <2>3. \A i \in 1 .. Len(list) : list[i].id # f.id
    BY <1>0, <1>2 DEF Ids
  <2>4. \A i \in 1 .. Len(list) + 1 : i \in 1 .. Len(list) \/ i = Len(list) + 1
    BY <1>0
  <2>5. OneEach(p)
    BY <1>0, <2>2, <2>3, <2>4 DEF OneEach
  <2>6. Range(p) \subseteq Range(list) \cup {f}
    BY <2>1, AppendRange
  <2> QED
    BY <2>2, <2>5, <2>6 DEF p
<1> QED
  BY <1>1, <1>2

\* Merging a list keeps one entry for each key, and adds no others.
LEMMA MergeIs ==
  ASSUME NEW A, NEW list \in Seq(A), NEW new \in Seq(A), OneEach(list)
  PROVE  /\ Merge(list, new) \in Seq(A) /\ OneEach(Merge(list, new))
         /\ Range(Merge(list, new)) \subseteq Range(list) \cup Range(new)
<1> DEFINE n == Len(new)
           op(u, i) == Put(u, new[i])
           Equation(x) == x = [i \in 0 .. n |-> IF i = 0 THEN list ELSE op(x[i - 1], i)]
           it == CHOOSE x : Equation(x)
           V == {l \in Seq(A) : OneEach(l) /\ Range(l) \subseteq Range(list) \cup Range(new)}
           st == [p \in (1 .. n) \X V |-> op(p[2], p[1])]
<1>1. Merge(list, new) = it[n]
  BY DEF Merge
<1>2. n \in Nat /\ list \in V /\ \A i \in 1 .. n : new[i] \in A /\ new[i] \in Range(new)
  BY DEF Range
<1>3. ASSUME NEW i \in 1 .. n, NEW u \in V
      PROVE  op(u, i) \in V
  <2>1. u \in Seq(A) /\ OneEach(u) /\ new[i] \in A
    BY <1>2
  <2> DEFINE w == Put(u, new[i])
  <2>2. w \in Seq(A) /\ OneEach(w) /\ Range(w) \subseteq Range(u) \cup {new[i]}
    BY <2>1, PutIs
  <2> HIDE DEF w
  <2>3. w \in V
    BY <1>2, <2>2
  <2> QED
    BY <2>3 DEF w
<1> HIDE DEF V, op, n
<1>4. st \in [(1 .. n) \X V -> V] /\ \A i \in 1 .. n, u \in V : st[<<i, u>>] = op(u, i)
  BY <1>3
<1> HIDE DEF st
<1>5. PICK x : Counts(x, n, V, list, st)
  <2>1. n \in Nat /\ list \in V /\ st \in [(1 .. n) \X V -> V]
    BY <1>2, <1>4
  <2> QED
    BY <2>1, CountingRecursion
<1>6. \A i \in 0 .. n : i # 0 => i \in 1 .. n /\ i - 1 \in 0 .. n
  BY <1>2
<1>7. Equation(x)
  <2>1. \A i \in 0 .. n : i # 0 => st[<<i, x[i - 1]>>] = op(x[i - 1], i)
    BY <1>4, <1>5, <1>6 DEF Counts
  <2> QED
    BY <1>5, <2>1 DEF Counts
<1>8. Equation(it)
  BY <1>7
<1> HIDE DEF it
<1>9. it[0] = list /\ \A i \in 1 .. n : it[i] = op(it[i - 1], i)
  <2>1. 0 \in 0 .. n /\ \A i \in 1 .. n : i \in 0 .. n /\ i # 0
    BY <1>2
  <2> QED
    BY <1>8, <2>1
<1>10. it[n] \in V
  <2> DEFINE B == {i \in Nat : it[i] \in V}
  <2>1. 0 \in B
    BY <1>2, <1>9
  <2>2. \A i \in 1 .. n : i - 1 \in B => i \in B
    BY <1>3, <1>9
  <2> HIDE DEF B
  <2>3. \A i \in 0 .. n : i \in B
    BY <1>2, <2>1, <2>2, CountsUp
  <2>4. n \in B
    BY <1>2, <2>3
  <2> QED
    BY <2>4 DEF B
<1> QED
  BY <1>1, <1>10 DEF V

\* Merging entities loses none, and none of the new ones.
LEMMA MergeEntitiesIs ==
  ASSUME NEW A, NEW list \in Seq(A), NEW new \in Seq(A)
  PROVE  MergeEntities(list, new) \in Seq(A) /\ Range(list) \cup Range(new) \subseteq Range(MergeEntities(list, new))
<1> DEFINE n == Len(new)
           op(u, i) == IF new[i] \in Range(u) THEN u ELSE Append(u, new[i])
           Equation(x) == x = [i \in 0 .. n |-> IF i = 0 THEN list ELSE op(x[i - 1], i)]
           it == CHOOSE x : Equation(x)
           V == Seq(A)
           st == [p \in (1 .. n) \X V |-> op(p[2], p[1])]
<1>1. MergeEntities(list, new) = it[n]
  BY DEF MergeEntities
<1>2. n \in Nat /\ list \in V /\ \A i \in 1 .. n : new[i] \in A
  OBVIOUS
<1>3. ASSUME NEW i \in 1 .. n, NEW u \in V
      PROVE  op(u, i) \in V /\ Range(u) \cup {new[i]} \subseteq Range(op(u, i))
  <2>1. CASE new[i] \in Range(u)
    BY <2>1
  <2>2. CASE new[i] \notin Range(u)
    <3>1. Range(Append(u, new[i])) = Range(u) \cup {new[i]} /\ Append(u, new[i]) \in V
      BY <1>2, AppendRange
    <3> QED
      BY <2>2, <3>1
  <2> QED
    BY <2>1, <2>2
<1>30. \A x \in Range(new) : \E i \in 1 .. n : new[i] = x
  BY DEF Range
<1> HIDE DEF V, op, n
<1>4. st \in [(1 .. n) \X V -> V] /\ \A i \in 1 .. n, u \in V : st[<<i, u>>] = op(u, i)
  BY <1>3
<1> HIDE DEF st
<1>5. PICK x : Counts(x, n, V, list, st)
  <2>1. n \in Nat /\ list \in V /\ st \in [(1 .. n) \X V -> V]
    BY <1>2, <1>4
  <2> QED
    BY <2>1, CountingRecursion
<1>6. \A i \in 0 .. n : i # 0 => i \in 1 .. n /\ i - 1 \in 0 .. n
  BY <1>2
<1>7. Equation(x)
  <2>1. \A i \in 0 .. n : i # 0 => st[<<i, x[i - 1]>>] = op(x[i - 1], i)
    BY <1>4, <1>5, <1>6 DEF Counts
  <2> QED
    BY <1>5, <2>1 DEF Counts
<1>8. Equation(it)
  BY <1>7
<1> HIDE DEF it
<1>9. it[0] = list /\ \A i \in 1 .. n : it[i] = op(it[i - 1], i)
  <2>1. 0 \in 0 .. n /\ \A i \in 1 .. n : i \in 0 .. n /\ i # 0
    BY <1>2
  <2> QED
    BY <1>8, <2>1
<1> DEFINE B == {i \in Nat : /\ it[i] \in V /\ Range(list) \subseteq Range(it[i])
                             /\ \A j \in 1 .. i : new[j] \in Range(it[i])}
<1>10. n \in B
  <2>1. 0 \in B
    BY <1>2, <1>9
  <2>2. ASSUME NEW i \in 1 .. n, i - 1 \in B
        PROVE  i \in B
    <3>1. it[i] \in V /\ Range(it[i - 1]) \cup {new[i]} \subseteq Range(it[i])
      BY <1>3, <1>9, <2>2
    <3>2. \A j \in 1 .. i : j = i \/ j \in 1 .. (i - 1)
      OBVIOUS
    <3> QED
      BY <2>2, <3>1, <3>2
  <2> HIDE DEF B
  <2>3. \A i \in 1 .. n : i - 1 \in B => i \in B
    BY <2>2
  <2>4. \A i \in 0 .. n : i \in B
    BY <1>2, <2>1, <2>3, CountsUp
  <2> QED
    BY <1>2, <2>4
<1> QED
  BY <1>1, <1>10, <1>30 DEF V

-----------------------------------------------------------------------------
(* Of the workbench: the flows that are held have different keys and are    *)
(* between entities that are held; a file that is being read is compared   *)
(* with entities that are still held when it is merged.                    *)
DataOK ==
  /\ entities \in Seq(Range(entities)) /\ flows \in Seq(Range(flows)) /\ OneEach(flows)
  /\ \A f \in Range(flows) : Ends(f) \subseteq Range(entities)
  /\ \A file \in importing : file.batch \in Batch /\ file.known \subseteq Range(entities)

\* Sorting by risk adds nothing.
LEMMA ByRiskIs ==
  ASSUME NEW A, NEW s \in Seq(A)
  PROVE  ByRisk(s) \in Seq(A)
<1> DEFINE at(risk) == Kept(s, {f \in Range(s) : f.risk = risk})
<1>1. at(0) \in Seq(A) /\ at(1) \in Seq(A) /\ at(2) \in Seq(A)
  BY KeptIs
<1>2. ByRisk(s) = at(2) \o at(1) \o at(0)
  BY DEF ByRisk
<1> HIDE DEF at
<1>3. at(2) \o at(1) \in Seq(A)
  BY <1>1
<1>4. (at(2) \o at(1)) \o at(0) \in Seq(A)
  BY <1>1, <1>3
<1> QED
  BY <1>2, <1>4

\* What is visible is held, and the ends of a visible flow are visible.
LEMMA VisibleIs ==
  ASSUME DataOK
  PROVE  /\ Range(VisibleEntities) \subseteq Range(entities)
         /\ VisibleFlows \in Seq(Range(VisibleFlows)) /\ Range(VisibleFlows) \subseteq Range(flows)
         /\ \A f \in Range(VisibleFlows) : Ends(f) \subseteq Range(VisibleEntities)
<1>1. /\ entities \in Seq(Range(entities)) /\ flows \in Seq(Range(flows))
      /\ NodeCap \in Nat /\ FlowCap \in Nat
  BY WorkbenchAssumption DEF DataOK
<1>2. Range(VisibleEntities) \subseteq Range(entities)
  <2> DEFINE among == Kept(entities, CandidateEntities)
  <2>1. among \in Seq(Range(entities)) /\ Range(among) \subseteq Range(entities)
    BY <1>1, KeptIs
  <2>2. VisibleEntities = Upto(among, NodeCap)
    BY DEF VisibleEntities
  <2> HIDE DEF among
  <2>3. Range(Upto(among, NodeCap)) \subseteq Range(among)
    BY <1>1, <2>1, UptoIs
  <2> QED
    BY <2>1, <2>2, <2>3
<1> DEFINE between == {f \in Range(MatchingFlows) : Ends(f) \subseteq Range(VisibleEntities)}
           kept == Kept(MatchingFlows, between)
           F == Range(kept)
<1>3. MatchingFlows \in Seq(Range(flows)) /\ Range(MatchingFlows) \subseteq Range(flows)
  BY <1>1, KeptIs DEF MatchingFlows
<1>4. VisibleFlows = Upto(ByRisk(kept), FlowCap)
  BY DEF VisibleFlows
<1>5. \A f \in between : f \in Range(flows) /\ Ends(f) \subseteq Range(VisibleEntities)
  BY <1>3
<1> HIDE DEF between
<1>6. kept \in Seq(Range(flows)) /\ F \subseteq between
  BY <1>3, KeptIs
<1> HIDE DEF kept
<1>7. kept \in Seq(F)
  BY <1>6, OwnList
<1> HIDE DEF F
<1>8. ByRisk(kept) \in Seq(F)
  BY <1>7, ByRiskIs
<1>9. VisibleFlows \in Seq(F)
  BY <1>1, <1>4, <1>8, UptoIs
<1>10. VisibleFlows \in Seq(Range(VisibleFlows)) /\ Range(VisibleFlows) \subseteq F
  BY <1>9, OwnList
<1> QED
  BY <1>2, <1>5, <1>6, <1>10

\* There is one endpoint at most: flows have different keys.
LEMMA OneEndpoint ==
  ASSUME DataOK
  PROVE  \A a, b \in Endpoint : a = b
<1>1. CASE selected.type = "entity"
  BY <1>1 DEF Endpoint
<1>2. CASE selected.type # "entity"
  <2>1. \A f, g \in SelectedFlow : f = g
    <3> SUFFICES ASSUME NEW f \in SelectedFlow, NEW g \in SelectedFlow PROVE f = g
      OBVIOUS
    <3>1. f.id = g.id
      <4>1. [type |-> "flow", value |-> f.id] = [type |-> "flow", value |-> g.id]
        BY DEF SelectedFlow
      <4> QED
        BY <4>1
    <3>2. f \in Range(flows) /\ g \in Range(flows)
      BY DEF SelectedFlow
    <3>3. PICK i \in DOMAIN flows : flows[i] = f
      BY <3>2 DEF Range
    <3>4. PICK j \in DOMAIN flows : flows[j] = g
      BY <3>2 DEF Range
    <3> QED
      BY <3>1, <3>3, <3>4 DEF DataOK, OneEach
  <2> QED
    BY <1>2, <2>1 DEF Endpoint
<1> QED
  BY <1>1, <1>2

\* So what is shown is connected.
LEMMA ShownHolds == DataOK => ShownIsConnected
<1> SUFFICES ASSUME DataOK PROVE ShownIsConnected
  OBVIOUS
<1> DEFINE seen == VisibleFlows
<1>1. /\ entities \in Seq(Range(entities)) /\ seen \in Seq(Range(seen))
      /\ \A f \in Range(flows) : Ends(f) \subseteq Range(entities)
      /\ \A f \in Range(seen) : Ends(f) \subseteq Range(VisibleEntities)
      /\ Range(VisibleEntities) \subseteq Range(entities)
  BY VisibleIs DEF DataOK
<1> HIDE DEF seen
<1>2. \A f \in Range(seen) : Ends(f) \subseteq Range(entities)
  BY <1>1
<1>3. CASE traceMode /\ Endpoint # {}
  <2> DEFINE to == CHOOSE e \in Endpoint : TRUE
  <2>1. to \in Endpoint
    BY <1>3
  <2>2. \A e \in Endpoint : e = to
    BY <2>1, OneEndpoint
  <2>3. Trace = DirectedPath(traceOrigin, to, seen)
    BY <1>3 DEF Trace, seen
  <2> HIDE DEF to
  <2>4. RouteSays(Trace, traceOrigin, to, seen)
    BY <1>1, <1>2, <2>3, RouteFound
  <2>5. /\ \A i \in DOMAIN Trace.edges : \E f \in Range(seen) :
             f.id = Trace.edges[i] /\ f.source = Trace.nodes[i] /\ f.target = Trace.nodes[i + 1]
        /\ \A e \in Endpoint :
             IF e \in Reachable(traceOrigin, seen)
             THEN Head(Trace.nodes) = traceOrigin /\ Last(Trace.nodes) = e
             ELSE Trace.nodes = <<>>
    BY <2>2, <2>4 DEF RouteSays
  <2> QED
    BY <1>1, <2>5 DEF ShownIsConnected, seen
<1>4. CASE ~(traceMode /\ Endpoint # {})
  <2>1. Trace = [nodes |-> <<>>, edges |-> <<>>]
    BY <1>4 DEF Trace
  <2>2. DOMAIN Trace.edges = {}
    BY <2>1
  <2> QED
    BY <1>1, <1>4, <2>2 DEF ShownIsConnected, seen
<1> QED
  BY <1>3, <1>4

\* What neither imports nor opens the page anew leaves the data alone.
LEMMA DataStays == DataOK /\ UNCHANGED dataVars => DataOK'
  BY DEF DataOK, dataVars, Ends, OneEach

\* The page starts with data of this kind, and with no file underway.
LEMMA DataStarts == entities = GivenEntities /\ flows = GivenFlows /\ importing = {} => DataOK
  BY WorkbenchAssumption DEF DataOK, OneEach

\* A file that is chosen is compared with what is held.
LEMMA ChooseKeeps ==
  ASSUME DataOK, NEW b \in Batch, ChooseFile(b)
  PROVE  DataOK'
<1> DEFINE file == [batch |-> b, known |-> Range(entities)]
<1>1. entities' = entities /\ flows' = flows /\ importing' = importing \cup {file}
  BY DEF ChooseFile
<1>2. file.batch \in Batch /\ file.known \subseteq Range(entities)
  OBVIOUS
<1> HIDE DEF file
<1> QED
  BY <1>1, <1>2 DEF DataOK, Ends, OneEach

\* A file that is valid leaves no flow without its ends.
LEMMA ReadKeeps ==
  ASSUME DataOK, NEW file, BatchRead(file)
  PROVE  DataOK'
<1> DEFINE b == file.batch
           es == MergeEntities(entities, b.entities)
           fs == Merge(flows, b.flows)
<1>1. file \in importing /\ importing' \subseteq importing
  BY DEF BatchRead
<1>2. /\ b \in Batch /\ file.known \subseteq Range(entities)
      /\ entities \in Seq(Range(entities)) /\ flows \in Seq(Range(flows)) /\ OneEach(flows)
  BY <1>1 DEF DataOK
<1>3. CASE ~Valid(file)
  <2>1. entities' = entities /\ flows' = flows
    BY <1>3 DEF BatchRead
  <2> QED
    BY <1>1, <2>1 DEF DataOK, Ends, OneEach
<1>4. CASE Valid(file)
  <2>1. entities' = es /\ flows' = fs
    BY <1>4 DEF BatchRead
  <2> DEFINE A == Range(entities) \cup Range(b.entities)
             F == Range(flows) \cup Range(b.flows)
  <2>2. b.entities \in Seq(Range(b.entities)) /\ b.flows \in Seq(Range(b.flows))
    BY <1>2, WorkbenchAssumption
  <2>3. entities \in Seq(A) /\ b.entities \in Seq(A) /\ flows \in Seq(F) /\ b.flows \in Seq(F)
    BY <1>2, <2>2
  <2>4. es \in Seq(A) /\ A \subseteq Range(es)
    <3> HIDE DEF A
    <3>1. /\ es \in Seq(A) /\ Range(entities) \cup Range(b.entities) \subseteq Range(es)
      BY <2>3, MergeEntitiesIs
    <3> QED
      BY <3>1 DEF A
  <2>5. fs \in Seq(F) /\ OneEach(fs) /\ Range(fs) \subseteq F
    <3> HIDE DEF F
    <3>1. fs \in Seq(F) /\ OneEach(fs) /\ Range(fs) \subseteq Range(flows) \cup Range(b.flows)
      BY <1>2, <2>3, MergeIs
    <3> QED
      BY <3>1 DEF F
  <2> HIDE DEF es, fs
  <2>6. es \in Seq(Range(es)) /\ fs \in Seq(Range(fs))
    BY <2>4, <2>5, OwnList
  <2>7. \A f \in F : Ends(f) \subseteq A
    BY <1>2, <1>4 DEF DataOK, Valid
  <2>8. \A f \in Range(fs) : Ends(f) \subseteq Range(es)
    BY <2>4, <2>5, <2>7
  <2>9. \A x \in importing' : x.batch \in Batch /\ x.known \subseteq Range(es)
    BY <1>1, <2>4 DEF DataOK
  <2> HIDE DEF A, F
  <2> QED
    BY <2>1, <2>5, <2>6, <2>8, <2>9 DEF DataOK, Ends, OneEach
<1> QED
  BY <1>3, <1>4

\* A file that cannot be read changes nothing.
LEMMA UnreadableKeeps ==
  ASSUME DataOK, NEW file, BatchUnreadable(file)
  PROVE  DataOK'
  BY DEF DataOK, BatchUnreadable, Ends, OneEach

\* Looking around leaves the data alone.
LEMMA ViewStays == ViewNext => UNCHANGED dataVars
<1> SUFFICES ASSUME ViewNext PROVE UNCHANGED dataVars
  OBVIOUS
<1>1. ASSUME NEW f \in Filter, SetFilter(f) PROVE UNCHANGED dataVars
  BY <1>1 DEF SetFilter
<1>2. ASSUME NEW what \in Selectable, Select(what) PROVE UNCHANGED dataVars
  BY <1>2 DEF Select
<1>3. CASE ToggleTrace
  BY <1>3 DEF ToggleTrace
<1>4. ASSUME NEW e \in Endpoint, TraceFrom(e) PROVE UNCHANGED dataVars
  BY <1>4 DEF TraceFrom
<1>5. CASE SaveView
  BY <1>5 DEF SaveView
<1>6. CASE RestoreView
  BY <1>6 DEF RestoreView
<1> QED
  BY <1>1, <1>2, <1>3, <1>4, <1>5, <1>6 DEF ViewNext

\* So do the duties of the roles.
LEMMA DutyStays == DutyNext => UNCHANGED dataVars
<1> SUFFICES ASSUME DutyNext PROVE UNCHANGED dataVars
  OBVIOUS
<1>1. ASSUME NEW p \in Pages, GoTo(p) PROVE UNCHANGED dataVars
  BY <1>1 DEF GoTo
<1>2. ASSUME NEW r \in {"Analyst", "Investigator", "Admin"}, SwitchRole(r) PROVE UNCHANGED dataVars
  BY <1>2 DEF SwitchRole
<1>3. ASSUME NEW e \in Range(GivenEntities), PivotTo(e) PROVE UNCHANGED dataVars
  BY <1>3 DEF PivotTo
<1>4. ASSUME NEW what \in Selectable, Select(what) PROVE UNCHANGED dataVars
  BY <1>4 DEF Select
<1>5. CASE FlagForReview
  BY <1>5 DEF FlagForReview
<1>6. ASSUME NEW id \in Ids(flows), ResolveAlert(id) PROVE UNCHANGED dataVars
  BY <1>6 DEF ResolveAlert
<1> QED
  BY <1>1, <1>2, <1>3, <1>4, <1>5, <1>6 DEF DutyNext

\* Every step of the data keeps the invariant.
LEMMA DataKeeps == DataOK /\ DataNext => DataOK'
<1> SUFFICES ASSUME DataOK, DataNext PROVE DataOK'
  OBVIOUS
<1>1. CASE Reload
  BY <1>1, WorkbenchAssumption DEF Reload, DataOK, Ends, OneEach
<1>2. ASSUME NEW b \in Batch, ChooseFile(b) PROVE DataOK'
  BY <1>2, ChooseKeeps
<1>3. ASSUME NEW file \in importing, BatchRead(file) PROVE DataOK'
  BY <1>3, ReadKeeps
<1>4. ASSUME NEW file \in importing, BatchUnreadable(file) PROVE DataOK'
  BY <1>4, UnreadableKeeps
<1> QED
  BY <1>1, <1>2, <1>3, <1>4 DEF DataNext

(* Whatever is imported, filtered, restored or traced, for any entities,    *)
(* flows and files: both ends of a flow are known and those of a visible   *)
(* one visible, and the highlighted route leads from the origin to the     *)
(* selection whenever visible flows do.                                    *)
THEOREM ShownTheorem == WorkbenchSpec => []ShownIsConnected
<1>1. WorkbenchInit => DataOK
  BY DataStarts DEF WorkbenchInit, Opens
<1>2. DataOK /\ [ViewNext \/ DutyNext \/ DataNext]_workbenchVars => DataOK'
  <2>1. DataOK /\ ViewNext => DataOK'
    BY ViewStays, DataStays
  <2>2. DataOK /\ DutyNext => DataOK'
    BY DutyStays, DataStays
  <2>3. DataOK /\ UNCHANGED workbenchVars => DataOK'
    BY DataStays DEF workbenchVars
  <2> QED
    BY <2>1, <2>2, <2>3, DataKeeps
<1> QED
  BY <1>1, <1>2, ShownHolds, PTL DEF WorkbenchSpec

\* A flow that may be taken both ways still has its two ends.
LEMMA BothWaysIs ==
  ASSUME DataOK
  PROVE  BothWays \in Seq(Range(BothWays)) /\ \A f \in Range(BothWays) : Ends(f) \subseteq Range(entities)
<1> DEFINE all == VisibleFlows
           n == 2 * Len(all)
           at(i) == IF i % 2 = 1 THEN all[(i + 1) \div 2] ELSE Reverse1(all[(i + 1) \div 2])
           F == {at(i) : i \in 1 .. n}
<1>1. all \in Seq(Range(all)) /\ \A f \in Range(all) : Ends(f) \subseteq Range(entities)
  BY VisibleIs
<1>2. BothWays = [i \in 1 .. n |-> at(i)]
  BY DEF BothWays
<1> HIDE DEF all
<1>3. n \in Nat
  BY <1>1
<1>4. ASSUME NEW i \in 1 .. n
      PROVE  Ends(at(i)) \subseteq Range(entities)
  <2> DEFINE f == all[(i + 1) \div 2]
  <2>1. (i + 1) \div 2 \in 1 .. Len(all)
    BY <1>1
  <2>2. f \in Range(all)
    BY <1>1, <2>1 DEF Range
  <2> HIDE DEF f
  <2>3. Ends(f) \subseteq Range(entities) /\ Ends(Reverse1(f)) = Ends(f)
    BY <1>1, <2>2 DEF Ends, Reverse1
  <2>4. at(i) \in {f, Reverse1(f)}
    BY DEF f
  <2> HIDE DEF at
  <2> QED
    BY <2>3, <2>4
<1> HIDE DEF at, n
<1>5. BothWays \in Seq(F)
  BY <1>2, <1>3
<1>6. \A f \in F : Ends(f) \subseteq Range(entities)
  BY <1>4
<1> HIDE DEF F
<1>7. BothWays \in Seq(Range(BothWays)) /\ Range(BothWays) \subseteq F
  BY <1>5, OwnList
<1> QED
  BY <1>6, <1>7

\* An entity is reachable from itself.
LEMMA ReachesItself ==
  ASSUME NEW among, among \in Seq(Range(among)), entities \in Seq(Range(entities)), NEW from,
         \A f \in Range(among) : Ends(f) \subseteq Range(entities)
  PROVE  from \in Reachable(from, among)
<1>1. PICK Nodes, Names, v :
        /\ v = Searched(from, among, Len(entities)) /\ v \in Searches(Nodes, Names)
        /\ Explores(v, from, among) /\ v.seen = Reachable(from, among)
  BY SearchReaches
<1> DEFINE Everything == Range(entities) \cup {from}
           Names2 == {f.id : f \in Range(among)}
<1>2. FlowsAmong(among, Everything, Names2) /\ from \in Everything
  BY DEF FlowsAmong, Ends
<1> HIDE DEF Everything, Names2
<1>3. PICK W : Levels(W, Len(entities), from, among) /\ Reachable(from, among) = W[Len(entities)]
  BY <1>2, ReachableLevels
<1>4. Len(entities) \in Nat /\ 0 \in 0 .. Len(entities)
  OBVIOUS
<1>5. \A i \in 0 .. Len(entities) : W[i] \subseteq W[Len(entities)]
  BY <1>3, <1>4, LevelsGrow
<1>6. W[0] = {from}
  BY <1>3 DEF Levels
<1> QED
  BY <1>3, <1>4, <1>5, <1>6

\* The finder's route is one, in the direction of the flows or not.
LEMMA FoundIs ==
  ASSUME DataOK
  PROVE  RouteSays(Found, finder.from, finder.to, IF finder.mode = "any" THEN BothWays ELSE VisibleFlows)
<1> DEFINE among == IF finder.mode = "any" THEN BothWays ELSE VisibleFlows
<1>1. among \in Seq(Range(among)) /\ \A f \in Range(among) : Ends(f) \subseteq Range(entities)
  <2>1. CASE finder.mode = "any"
    BY <2>1, BothWaysIs
  <2>2. CASE finder.mode # "any"
    BY <2>2, VisibleIs
  <2> QED
    BY <2>1, <2>2
<1>2. entities \in Seq(Range(entities))
  BY DEF DataOK
<1>3. Found = IF finder.from = finder.to THEN [nodes |-> <<finder.from>>, edges |-> <<>>]
              ELSE DirectedPath(finder.from, finder.to, among)
  BY DEF Found
<1> HIDE DEF among
<1>4. CASE finder.from = finder.to
  <2>1. finder.to \in Reachable(finder.from, among)
    BY <1>1, <1>2, <1>4, ReachesItself
  <2>2. Found.nodes = <<finder.from>> /\ Found.edges = <<>>
    BY <1>3, <1>4
  <2>3. Head(Found.nodes) = finder.from /\ Last(Found.nodes) = finder.to
    BY <1>4, <2>2 DEF Last
  <2>4. DOMAIN Found.edges = {}
    BY <2>2
  <2> QED
    BY <2>1, <2>3, <2>4 DEF RouteSays, among
<1>5. CASE finder.from # finder.to
  <2>1. RouteSays(DirectedPath(finder.from, finder.to, among), finder.from, finder.to, among)
    BY <1>1, <1>2, RouteFound
  <2> QED
    BY <1>3, <1>5, <2>1 DEF among
<1> QED
  BY <1>4, <1>5

\* So the canvas and the finder leave nothing out.
LEMMA NeighboursHolds == DataOK => NeighboursShown
<1> SUFFICES ASSUME DataOK PROVE NeighboursShown
  OBVIOUS
<1>1. \A f \in Range(VisibleFlows) : Ends(f) \subseteq Range(VisibleEntities)
  BY VisibleIs
<1>2. UNION {Ends(f) : f \in CanvasFlows} \subseteq CanvasEntities
  BY DEF CanvasFlows
<1>3. ASSUME NEW f \in Range(VisibleFlows), NEW g \in Range(VisibleFlows),
             selected.value \in Ends(f), Ends(f) \cap Ends(g) # {}
      PROVE  {f, g} \subseteq CanvasFlows
  <2> DEFINE one == Hop({selected.value})
             two == Hop(one)
  <2>1. Ends(f) \subseteq one
    BY <1>3 DEF Hop
  <2>2. Ends(f) \subseteq two /\ Ends(g) \subseteq two
    <3> HIDE DEF one
    <3> QED
      BY <1>3, <2>1 DEF Hop
  <2>3. Ends(f) \subseteq CanvasEntities /\ Ends(g) \subseteq CanvasEntities
    <3>1. CanvasEntities = IF focusMode THEN two \cap Range(VisibleEntities) ELSE Range(VisibleEntities)
      BY DEF CanvasEntities
    <3> HIDE DEF two
    <3> QED
      BY <1>1, <2>2, <3>1
  <2> QED
    BY <2>3 DEF CanvasFlows
<1>4. \A f, g \in Range(VisibleFlows) :
        selected.value \in Ends(f) /\ Ends(f) \cap Ends(g) # {} => {f, g} \subseteq CanvasFlows
  BY <1>3
<1> DEFINE among == IF finder.mode = "any" THEN BothWays ELSE VisibleFlows
<1>5. RouteSays(Found, finder.from, finder.to, among)
  BY FoundIs
<1> HIDE DEF among
<1>6. /\ IF finder.to \in Reachable(finder.from, among)
         THEN Head(Found.nodes) = finder.from /\ Last(Found.nodes) = finder.to
         ELSE Found.nodes = <<>>
      /\ \A i \in DOMAIN Found.edges : \E f \in Range(among) :
           f.id = Found.edges[i] /\ f.source = Found.nodes[i] /\ f.target = Found.nodes[i + 1]
  BY <1>5 DEF RouteSays
<1> QED
  BY <1>2, <1>4, <1>6 DEF NeighboursShown, among

\* The canvas and the finder leave the data alone.
LEMMA GraphStays == GraphNext => UNCHANGED dataVars
<1> SUFFICES ASSUME GraphNext PROVE UNCHANGED dataVars
  OBVIOUS
<1>1. ASSUME NEW f, SetFinder(f) PROVE UNCHANGED dataVars
  BY <1>1 DEF SetFinder, workbenchVars
<1>2. CASE ToggleFocus
  BY <1>2 DEF ToggleFocus, workbenchVars
<1>3. ASSUME NEW what \in Selectable, Click(what) PROVE UNCHANGED dataVars
  BY <1>3 DEF Click, Select
<1>4. CASE SwapEnds
  BY <1>1, <1>4 DEF SwapEnds
<1>5. ASSUME NEW m \in {"any", "directed"}, SetMode(m) PROVE UNCHANGED dataVars
  BY <1>1, <1>5 DEF SetMode
<1>6. ASSUME NEW e \in Range(VisibleEntities), ChooseEnd(e) PROVE UNCHANGED dataVars
  BY <1>1, <1>6 DEF ChooseEnd
<1>7. CASE TraceFound
  BY <1>7 DEF TraceFound
<1> QED
  BY <1>2, <1>3, <1>4, <1>5, <1>6, <1>7 DEF GraphNext

\* So does the blotter.
LEMMA BlotterStays == BlotterNext => UNCHANGED dataVars
<1> SUFFICES ASSUME BlotterNext PROVE UNCHANGED dataVars
  OBVIOUS
<1>1. ASSUME NEW b, Blot(b) PROVE UNCHANGED dataVars
  BY <1>1 DEF Blot, workbenchVars
<1>2. ASSUME NEW p \in Pages, Visit(p) PROVE UNCHANGED dataVars
  BY <1>2 DEF Visit, GoTo
<1>3. ASSUME NEW t \in {"flows", "entities"}, ShowTab(t) PROVE UNCHANGED dataVars
  BY <1>1, <1>3 DEF ShowTab
<1>4. ASSUME NEW q \in {"all", "high_risk", "flagged", "cross_border"}, QuickFilter(q) PROVE UNCHANGED dataVars
  BY <1>1, <1>4 DEF QuickFilter
<1>5. ASSUME NEW id \in Ids(Rows), ToggleRow(id) \/ ToggleMenu(id) PROVE UNCHANGED dataVars
  BY <1>1, <1>5 DEF ToggleRow, ToggleMenu
<1>6. ASSUME NEW id \in Ids(Rows), DismissAlert(id) PROVE UNCHANGED dataVars
  BY <1>6 DEF DismissAlert
<1>7. ASSUME NEW f \in Range(Rows), Investigate(f) PROVE UNCHANGED dataVars
  BY <1>7 DEF Investigate
<1>8. ASSUME NEW what \in Selectable, Click(what) PROVE UNCHANGED dataVars
  BY <1>8 DEF Click, Select
<1>9. ASSUME NEW e \in Range(VisibleEntities), TraceEntity(e) PROVE UNCHANGED dataVars
  BY <1>9 DEF TraceEntity, TraceFrom
<1> QED
  BY <1>2, <1>3, <1>4, <1>5, <1>6, <1>7, <1>8, <1>9 DEF BlotterNext

\* Every step of the page with its views keeps the invariant.
LEMMA FlowViewsKeep == DataOK /\ FlowViewsNext => DataOK'
<1> SUFFICES ASSUME DataOK, FlowViewsNext PROVE DataOK'
  OBVIOUS
<1>1. CASE GraphNext
  BY <1>1, GraphStays, DataStays
<1>2. CASE BlotterNext
  BY <1>2, BlotterStays, DataStays
<1>3. CASE ViewNext
  BY <1>3, ViewStays, DataStays
<1>4. CASE DutyNext
  BY <1>4, DutyStays, DataStays
<1>5. CASE DataNext
  BY <1>5, DataKeeps
<1>6. GraphNext \/ BlotterNext \/ ViewNext \/ DutyNext \/ DataNext
  <2> USE DEF FlowViewsNext
  <2>1. CASE FlagForReview \/ \E r \in {"Analyst", "Investigator", "Admin"} : SwitchRole(r)
    BY <2>1 DEF DutyNext
  <2>2. CASE (\E id \in Ids(flows) : ResolveAlert(id)) \/ \E e \in Range(GivenEntities) : PivotTo(e)
    BY <2>2 DEF DutyNext
  <2>3. CASE (\E b \in Batch : ChooseFile(b)) \/ Reload
    BY <2>3 DEF DataNext
  <2>4. CASE \E file \in importing : BatchRead(file) \/ BatchUnreadable(file)
    BY <2>4 DEF DataNext
  <2> QED
    BY <2>1, <2>2, <2>3, <2>4
<1> QED
  BY <1>1, <1>2, <1>3, <1>4, <1>5, <1>6

(* For any entities, flows and files, and whatever is done on the page: the *)
(* canvas draws no flow without its ends and keeps the neighbours of the   *)
(* selection, and the finder shows a chain exactly when there is one.      *)
THEOREM NeighboursTheorem == FlowViewsSpec => []NeighboursShown
<1>1. WorkbenchInit => DataOK
  BY DataStarts DEF WorkbenchInit, Opens
<1>2. DataOK /\ [FlowViewsNext]_<<workbenchVars, viewsVars>> => DataOK'
  <2>1. DataOK /\ UNCHANGED <<workbenchVars, viewsVars>> => DataOK'
    BY DataStays DEF workbenchVars
  <2> QED
    BY <2>1, FlowViewsKeep
<1> QED
  BY <1>1, <1>2, NeighboursHolds, PTL DEF FlowViewsSpec
=============================================================================
