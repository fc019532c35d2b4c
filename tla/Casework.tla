------------------------------- MODULE Casework -------------------------------
(***************************************************************************)
(* The cases in App.jsx and their synchronization with the server          *)
(* (apiClient.js, /api/cases of server.mjs).  A page opens with the cases  *)
(* built into it, asks the server whether it is up and for its cases, and  *)
(* takes those when they come.  Every change posts the page's whole copy   *)
(* of one case, which replaces the server's; nothing waits for an answer,  *)
(* so posts may overtake each other, and one that fails is not repeated.   *)
(* A note is posted alone and added to the server's case.  The copies that *)
(* a page fetched have the notes of that time and bring them back with     *)
(* every change; the built-in copies have no field for notes, and the      *)
(* server keeps its own.  Another page works on the same cases: what it    *)
(* posts is a copy of some earlier time, so that its posts need no delay.  *)
(***************************************************************************)
EXTENDS Workbench

CONSTANTS
  Listed,     \* the cases built into the page and the server, in order
  Created,    \* cases that only the server has
  MaxPosts    \* bound: posts, of copies and notes, since the page was opened

ASSUME CaseAssumption == Listed \in Seq(Range(Listed)) /\ Listed # <<>>

Case == Range(Listed) \cup Created
Fresh == [items |-> {}, status |-> "Open"]

VARIABLES
  held,       \* caseItems: the page's copy, of the cases it has
  active,     \* activeCaseId
  opening,    \* how far the page is with the server's cases
  answer,     \* the cases in the server's answer, while it is on its way
  stored,     \* the server's cases
  posts,      \* cases on their way: [number, case, copy]
  sent, arrived,  \* posts sent; the highest number that has arrived
  upset,      \* why the copies may differ
  notes,      \* the server's notes of each case, by number
  fetched,    \* at most one: the notes in the copies that the page asked for
  noted,      \* notes that were saved on the page
  noting,     \* notes on their way: [number, case]
  landed,     \* those that the server has added
  elsewhere   \* the other page's copies, and their notes: [cases, notes]

noteVars == <<notes, fetched, noted, noting, landed, elsewhere>>
caseVars == <<held, active, opening, answer, stored, posts, sent, arrived, upset, noteVars>>

Copies(cases) == [c \in cases |-> Fresh]

CaseworkInit ==
  /\ held = Copies(Range(Listed))
  /\ \E i \in Ids(GivenFlows) :    \* of an earlier session
       stored = [Copies(Case) EXCEPT ![Listed[1]].items = {i}]
  /\ active \in {Listed[1]} \cup Created    \* as in a view restored from storage
  /\ opening = "checking" /\ answer = Copies({})
  /\ posts = {} /\ sent = 0 /\ arrived = 0 /\ upset = {}
  /\ notes = [c \in Case |-> {}] /\ fetched = {} /\ noted = 0 /\ noting = {} /\ landed = {}
  /\ elsewhere = [cases |-> Copies(Range(Listed)), notes |-> {}]

\* caseItems.find(...) || caseItems[0]
ActiveCase == IF active \in DOMAIN held THEN active ELSE Listed[1]

-----------------------------------------------------------------------------
\* checkServerHealth, then fetchCasesApi: a failure of the second gives back
\* the cases the page opened with.
HealthAnswers(healthy) ==
  /\ opening = "checking"
  /\ IF healthy THEN opening' = "fetching" /\ UNCHANGED upset
     ELSE opening' = "settled" /\ upset' = upset \cup {"offline"}
  /\ UNCHANGED <<held, active, answer, stored, posts, sent, arrived, noteVars, workbenchVars>>

ServeCases ==
  /\ opening = "fetching" /\ opening' = "answered" /\ answer' = stored /\ fetched' = {notes}
  /\ UNCHANGED <<held, active, stored, posts, sent, arrived, upset, workbenchVars>>
  /\ UNCHANGED <<notes, noted, noting, landed, elsewhere>>

TakeCases(cases, why) ==
  /\ held' = cases /\ opening' = "settled" /\ answer' = Copies({})
  /\ upset' = upset \cup why \cup IF sent = 0 THEN {} ELSE {"opening"}
  /\ UNCHANGED <<active, stored, posts, sent, arrived, workbenchVars>>
  /\ UNCHANGED <<notes, noted, noting, landed, elsewhere>>

CasesArrive == opening = "answered" /\ TakeCases(answer, {}) /\ UNCHANGED fetched
FetchFails ==
  /\ opening \in {"fetching", "answered"} /\ TakeCases(Copies(Range(Listed)), {"offline"})
  /\ fetched' = {}

\* The notes in the page's copies, if these are the server's.
HasNotes == IF opening = "settled" THEN fetched ELSE {}

\* What addToCase and updateCaseStatus share: the copy is made from the active
\* case, the one that is replaced in the page is the one with active's id.
Post(copy) ==
  /\ sent + noted < MaxPosts /\ sent' = sent + 1
  /\ held' = [c \in DOMAIN held |-> IF c = active THEN copy ELSE held[c]]
  /\ posts' = posts \cup {[number |-> sent', case |-> ActiveCase, copy |-> copy,
                           notes |-> {f[ActiveCase] : f \in HasNotes}]}
  /\ upset' = IF active = ActiveCase THEN upset ELSE upset \cup {"fallback"}
  /\ UNCHANGED <<active, opening, answer, stored, arrived, noteVars, workbenchVars>>

\* The ribbon offers the selection, flow or entity; the blotter any flow.
AddToCase(i) ==
  /\ role # "Analyst"
  /\ \/ OnInvestigation /\ i = selected.value
     \/ page = "blotter" /\ i \in Ids(VisibleFlows)
  /\ i \notin held[ActiveCase].items
  /\ Post([held[ActiveCase] EXCEPT !.items = @ \cup {i}])

UpdateCaseStatus(s) ==
  /\ role # "Analyst" /\ OnInvestigation /\ s # held[ActiveCase].status
  /\ Post([held[ActiveCase] EXCEPT !.status = s])

\* { ...db.cases[index], ...payload }: notes that the payload has replace those
\* that the case had.
Bring(c, brought) ==
  notes' = IF brought = {} THEN notes ELSE [notes EXCEPT ![c] = UNION brought]

\* A slip in reach of this code: the server takes the items only.
PostArrivesWithItems(p) ==
  /\ p \in posts /\ posts' = posts \ {p}
  /\ stored' = [stored EXCEPT ![p.case].items = p.copy.items]
  /\ arrived' = IF p.number > arrived THEN p.number ELSE arrived
  /\ upset' = IF p.number > arrived THEN upset ELSE upset \cup {"overtaken"}
  /\ UNCHANGED <<held, active, opening, answer, sent, noteVars, workbenchVars>>

\* The server replaces the fields of the case, or appends one it did not have.
PostArrives(p) ==
  /\ p \in posts /\ posts' = posts \ {p}
  /\ stored' = [stored EXCEPT ![p.case] = p.copy] /\ Bring(p.case, p.notes)
  /\ arrived' = IF p.number > arrived THEN p.number ELSE arrived
  /\ upset' = IF p.number > arrived THEN upset ELSE upset \cup {"overtaken"}
  /\ UNCHANGED <<held, active, opening, answer, sent, workbenchVars>>
  /\ UNCHANGED <<fetched, noted, noting, landed, elsewhere>>

PostLost(p) ==
  /\ p \in posts /\ posts' = posts \ {p} /\ upset' = upset \cup {"lost"}
  /\ UNCHANGED <<held, active, opening, answer, stored, sent, arrived, noteVars, workbenchVars>>

\* A note goes to the case that is active, whether or not the page has it.
SaveNote ==
  /\ role # "Analyst" /\ OnFlows
  /\ sent + noted < MaxPosts /\ noted' = noted + 1
  /\ noting' = noting \cup {[number |-> noted', case |-> active]}
  /\ UNCHANGED <<held, active, opening, answer, stored, posts, sent, arrived, upset, workbenchVars>>
  /\ UNCHANGED <<notes, fetched, landed, elsewhere>>

NoteArrives(n) ==
  /\ n \in noting /\ noting' = noting \ {n} /\ landed' = landed \cup {n}
  /\ notes' = [notes EXCEPT ![n.case] = @ \cup {n.number}]
  /\ UNCHANGED <<held, active, opening, answer, stored, posts, sent, arrived, upset, workbenchVars>>
  /\ UNCHANGED <<fetched, noted, elsewhere>>

NoteLost(n) ==
  /\ n \in noting /\ noting' = noting \ {n}
  /\ UNCHANGED <<held, active, opening, answer, stored, posts, sent, arrived, upset, workbenchVars>>
  /\ UNCHANGED <<notes, fetched, noted, landed, elsewhere>>

OpenElsewhere ==
  /\ elsewhere' = [cases |-> stored, notes |-> {notes}]
  /\ UNCHANGED <<held, active, opening, answer, stored, posts, sent, arrived, upset, workbenchVars>>
  /\ UNCHANGED <<notes, fetched, noted, noting, landed>>

ChangeElsewhere(c, s) ==
  /\ c \in DOMAIN elsewhere.cases /\ s # elsewhere.cases[c].status
  /\ elsewhere' = [elsewhere EXCEPT !.cases[c].status = s]
  /\ stored' = [stored EXCEPT ![c] = elsewhere'.cases[c]]
  /\ Bring(c, {f[c] : f \in elsewhere.notes})
  /\ upset' = upset \cup {"elsewhere"}
  /\ UNCHANGED <<held, active, opening, answer, posts, sent, arrived, workbenchVars>>
  /\ UNCHANGED <<fetched, noted, noting, landed>>

OpenCase(c) ==
  /\ c \in DOMAIN held /\ OnFlows /\ c # active /\ active' = c
  /\ UNCHANGED <<held, opening, answer, stored, posts, sent, arrived, upset, noteVars, workbenchVars>>

CaseworkNext ==
  \/ (\E healthy \in BOOLEAN : HealthAnswers(healthy)) \/ ServeCases \/ CasesArrive \/ FetchFails
  \/ (\E i \in {selected.value} \cup Ids(VisibleFlows) : AddToCase(i))
  \/ (\E s \in {"Open", "Closed"} : UpdateCaseStatus(s))
  \/ (\E p \in posts : PostArrives(p) \/ PostLost(p))
  \/ SaveNote \/ (\E n \in noting : NoteArrives(n) \/ NoteLost(n))
  \/ (\E c \in Case : OpenCase(c))
  \/ OpenElsewhere \/ (\E c \in Case, s \in {"Open", "Closed"} : ChangeElsewhere(c, s))

\* Whatever else happens on the page meanwhile.
CaseworkSpec == CaseworkInit /\ [][CaseworkNext]_caseVars

-----------------------------------------------------------------------------
(* When nothing is on its way, the page and the server have the same       *)
(* cases, unless a post was lost or overtaken, the server's cases could    *)
(* not be had, one was changed before they had come or on another page, or *)
(* a change went to the first case since the page did not have the active  *)
(* one.  Notes are another matter: a page that has fetched its cases       *)
(* erases those that were saved since with every change it posts, its own  *)
(* too.  But no other erases any: without another page, the notes there    *)
(* were when it fetched stay, and when it has not fetched, all do.         *)
CopiesAgree ==
  /\ opening = "settled" /\ posts = {} /\ upset = {} =>
       \A c \in DOMAIN held : held[c] = stored[c]
  /\ "elsewhere" \notin upset =>
       /\ \A f \in fetched, c \in Case : f[c] \subseteq notes[c]
       /\ \A n \in landed : n.number \in notes[n.case] \/ HasNotes # {}
=============================================================================
