----------------------------- MODULE VaultDaemon -----------------------------
(***************************************************************************)
(* obsidian_finance_daemon.py: four jobs refresh the notes of the vault    *)
(* and the graph export from public feeds.  A cycle runs the jobs that are *)
(* due on a thread pool and ends when the last of them does; the user      *)
(* edits the notes meanwhile, feeds fail, and the process may be killed.   *)
(*                                                                         *)
(* One note stands for each folder, one country for all.  A job advances   *)
(* through its Steps; between two of them any other job may run.           *)
(***************************************************************************)
EXTENDS Integers, Sequences, FiniteSets

CONSTANTS
  Teams,      \* the sets of jobs that an instance of the daemon is given
  UserNotes,  \* the notes the user writes in
  MaxRate,    \* bound: the versions of the exchange rate the feed publishes
  MaxEdits,   \* bound: how often the user saves a note
  MaxEvents   \* bound: new rates, saves and kills of the process together

\* The hubs are the notes per currency and the maps of content.
Note == {"country", "bank", "hub", "rail"}
Feed == {"population", "fx", "policy"}

\* What each job does, in order.  (The list of countries itself is always
\* found: live, cached or embedded in the program.)
Steps == [countries    |-> <<"population", "setCountries", "country", "bank",
                             "hub", "export">>,
          fx           |-> <<"fx", "getCountries", "country", "hub", "export">>,
          rail_status  |-> <<"rail", "export">>,
          policy_rates |-> <<"policy", "bank", "export">>]

ASSUME InstanceAssumption ==
  /\ Teams \subseteq SUBSET DOMAIN Steps /\ UserNotes \subseteq Note
  /\ MaxRate \in Nat \ {0} /\ MaxEdits \in Nat /\ MaxEvents \in Nat

Job == DOMAIN Steps

VARIABLES
  team,      \* the jobs of this instance; it never changes
  process,   \* "down", "boot" before the first cycle, "loop" after it
  pc,        \* the step each job is at, 0 when it does not run
  busy,      \* the jobs in the middle of their step: a save or a file write
  local,     \* what each job has read and not yet written
  populated, \* whether the countries held in memory carry a population
  feedRate,  \* the rate the feed publishes
  cache,     \* what the cache files hold, 0 for nothing
  torn,      \* the cache files that are truncated
  text,      \* the user's text in each note file, counted in saves
  saved,     \* what the user saved last in each
  raced,     \* the notes the user saved while a job was rewriting them
  shown,     \* the facts the note files show
  file,      \* whether each file is there and complete
  pending,   \* the files whose temporary file exists
  events     \* how often the world outside has interfered

diskVars == <<cache, torn, text, shown, file, pending>>
userVars == <<saved, raced>>
vars == <<team, process, pc, busy, local, populated, feedRate, diskVars, userVars, events>>

Blank == [fx |-> 0, population |-> 0, policy |-> 0, text |-> 0]

VaultTypeOK ==
  /\ team \in Teams
  /\ process \in {"down", "boot", "loop"}
  /\ pc \in [Job -> 0 .. 6] /\ busy \subseteq {j \in Job : pc[j] > 0}
  /\ local \in [Job -> [{"fx", "population", "policy", "text"} -> 0 .. MaxRate + MaxEdits]]
  /\ populated \in 0 .. 1
  /\ feedRate \in 1 .. MaxRate
  /\ cache \in [Feed -> 0 .. MaxRate] /\ torn \subseteq Feed
  /\ text \in [Note -> 0 .. MaxEdits] /\ saved \in [Note -> 0 .. MaxEdits]
  /\ raced \subseteq Note
  /\ shown \in [Feed -> 0 .. MaxRate]
  /\ file \in [Note \cup {"export"} -> {"absent", "whole", "partial"}]
  /\ pending \subseteq Note \cup {"export"}
  /\ events \in 0 .. MaxEvents

VaultInit ==
  /\ team \in Teams
  /\ process = "down" /\ pc = [j \in Job |-> 0] /\ busy = {}
  /\ local = [j \in Job |-> Blank] /\ populated = 0
  /\ feedRate = 1
  /\ cache = [f \in Feed |-> 0] /\ torn = {}
  /\ text = [n \in Note |-> 0] /\ saved = text /\ raced = {}
  /\ shown = [f \in Feed |-> 0]
  /\ file = [f \in Note \cup {"export"} |-> "absent"] /\ pending = {}
  /\ events = 0

-----------------------------------------------------------------------------
At(j, step) == pc[j] > 0 /\ Steps[j][pc[j]] = step

\* The job goes on to its next step, or is done with the cycle.
Advance(j) == pc' = [pc EXCEPT ![j] = IF @ = Len(Steps[j]) THEN 0 ELSE @ + 1]

Leave(j) == pc' = [pc EXCEPT ![j] = 0]

Keep(j, fact, value) == local' = [local EXCEPT ![j][fact] = value]

\* What job j has read goes into the first note it writes, and no further.
Forget(j) == local' = [local EXCEPT ![j] = Blank]

\* _load_cache: a missing or unparsable file reads as nothing.
LoadCache(f) == IF f \in torn THEN 0 ELSE cache[f]

\* A slip in reach of this code: an answer that was kept is never asked for again.
PublishedOnce(f) == 1

Published(f) == IF f = "fx" THEN feedRate ELSE 1

\* fetch(): the answer is used, and _save_cache truncates the file first.
FetchLive(j, f) ==
  /\ At(j, f) /\ j \notin busy
  /\ Keep(j, f, Published(f))
  /\ busy' = busy \cup {j} /\ torn' = torn \cup {f}
  /\ UNCHANGED <<team, process, pc, populated, feedRate, cache, text, shown, file, pending,
                 userVars, events>>

SaveCache(j) == \E f \in Feed :
  /\ At(j, f) /\ j \in busy
  /\ cache' = [cache EXCEPT ![f] = local[j][f]] /\ torn' = torn \ {f}
  /\ busy' = busy \ {j} /\ Advance(j)
  /\ UNCHANGED <<team, process, local, populated, feedRate, text, shown, file, pending,
                 userVars, events>>

FetchPopulation(j) == FetchLive(j, "population")
FetchFx(j) == FetchLive(j, "fx")
FetchPolicy(j) == FetchLive(j, "policy")
Fetch(j) == FetchPopulation(j) \/ FetchFx(j) \/ FetchPolicy(j)

\* After the retries of http_get_json the cache answers for the feed.
FetchFails(j) == \E f \in Feed :
  /\ At(j, f) /\ j \notin busy
  /\ Keep(j, f, LoadCache(f)) /\ Advance(j)
  /\ UNCHANGED <<team, process, busy, populated, feedRate, diskVars, userVars, events>>

\* job_countries: _set_countries, then the rates come from the cache.
SetCountries(j) ==
  /\ At(j, "setCountries")
  /\ populated' = local[j].population
  /\ Keep(j, "fx", LoadCache("fx")) /\ Advance(j)
  /\ UNCHANGED <<team, process, busy, feedRate, diskVars, userVars, events>>

\* job_fx: what _set_countries left, else a list without populations.
GetCountries(j) ==
  /\ At(j, "getCountries")
  /\ Keep(j, "population", populated) /\ Advance(j)
  /\ UNCHANGED <<team, process, busy, populated, feedRate, diskVars, userVars, events>>

\* The facts of the notes that job j renders.
CountryNote(j) ==
  [shown EXCEPT !["fx"] = local[j].fx, !["population"] = local[j].population]

\* A slip in reach of this code: every build ignores the override.
BankNoteIgnoresOverride(j) == [shown EXCEPT !["policy"] = 0]

\* _build_central_banks, called by job_countries, looks the country up in the
\* wrapper that the cache file holds and not in its rates: no override.
BankNote(j) ==
  [shown EXCEPT !["policy"] = IF j = "policy_rates" THEN local[j].policy ELSE 0]

Render(j, n) == CASE n = "country" -> CountryNote(j)
                  [] n = "bank" -> BankNote(j)
                  [] OTHER -> shown

Writing(f) == {j \in busy : At(j, f)}

\* A slip in reach of this code: no lock.
LockForgotten(n) == TRUE

\* ManagedFileWriter._lock_for: one job at a time in a note.
LockFree(n) == Writing(n) = {}

\* ManagedFileWriter.write under its lock: the user's text is what follows the
\* sentinel of the file, the default when there is none; then the temporary
\* file is opened.
BeginNote(j) == \E n \in Note :
  /\ At(j, n) /\ j \notin busy /\ LockFree(n)
  /\ Keep(j, "text", IF file[n] = "whole" THEN text[n] ELSE 0)
  /\ busy' = busy \cup {j} /\ pending' = pending \cup {n}
  /\ UNCHANGED <<team, process, pc, populated, feedRate, cache, torn, text, shown, file,
                 userVars, events>>

\* The text is identical: nothing is written.  A rendering carries the minute,
\* so this needs equal facts within one minute.  A country or rail note that
\* did not change ends its job early, unless job_countries finds no hub.
Unchanged(j) == \E n \in Note :
  /\ At(j, n) /\ j \notin busy /\ LockFree(n)
  /\ file[n] = "whole" /\ Render(j, n) = shown
  /\ IF n \in {"country", "rail"} /\ (j = "countries" => file["hub"] # "absent")
     THEN Leave(j) ELSE Advance(j)
  /\ Forget(j)
  /\ UNCHANGED <<team, process, busy, populated, feedRate, diskVars, userVars, events>>

\* Another writer's open descriptor can leave any mixture of the two texts.
Publish(f, others) == \E state \in {"whole", "partial"} :
  /\ others = {} => state = "whole"
  /\ file' = [file EXCEPT ![f] = state]

\* The temporary file replaces the note.
ReplaceNote(j) == \E n \in Note :
  /\ At(j, n) /\ j \in busy /\ n \in pending
  /\ text' = [text EXCEPT ![n] = local[j].text] /\ shown' = Render(j, n)
  /\ Publish(n, Writing(n) \ {j}) /\ pending' = pending \ {n}
  /\ busy' = busy \ {j} /\ Advance(j) /\ Forget(j)
  /\ UNCHANGED <<team, process, populated, feedRate, cache, torn, userVars, events>>

\* write_json_atomic: the same two steps on one temporary name, with no lock.
BeginExport(j) ==
  /\ At(j, "export") /\ j \notin busy
  /\ busy' = busy \cup {j} /\ pending' = pending \cup {"export"}
  /\ UNCHANGED <<team, process, pc, local, populated, feedRate, cache, torn, text, shown, file,
                 userVars, events>>

ReplaceExport(j) ==
  /\ At(j, "export") /\ j \in busy /\ "export" \in pending
  /\ Publish("export", Writing("export") \ {j}) /\ pending' = pending \ {"export"}
  /\ busy' = busy \ {j} /\ Advance(j)
  /\ UNCHANGED <<team, process, local, populated, feedRate, cache, torn, text, shown,
                 userVars, events>>

\* Another job took the temporary file: its late bytes are in the published
\* one, replace() raises, and the scheduler logs the job's exception.
ReplaceRaises(j) == \E f \in DOMAIN file :
  /\ At(j, f) /\ j \in busy /\ f \notin pending
  /\ Publish(f, {j}) /\ busy' = busy \ {j} /\ Leave(j)
  /\ UNCHANGED <<team, process, local, populated, feedRate, cache, torn, text, shown, pending,
                 userVars, events>>

-----------------------------------------------------------------------------
\* DashboardDataServer reads the export anew for every request.
Served == file["export"]

Idle == \A j \in Job : pc[j] = 0

\* main, and cmd_start of scripts/service.py; launchd keeps the daemon alive.
Start ==
  /\ process = "down"
  /\ process' = "boot" /\ populated' = 0
  /\ UNCHANGED <<team, pc, busy, local, feedRate, diskVars, userVars, events>>

Run(due) ==
  /\ Idle /\ pc' = [j \in Job |-> IF j \in due THEN 1 ELSE 0]
  /\ local' = [j \in Job |-> Blank] /\ process' = "loop"
  /\ UNCHANGED <<team, busy, populated, feedRate, diskVars, userVars, events>>

\* run_once_all on startup, then the jobs whose time has come.
RunOnceAll == process = "boot" /\ Run(team)
RunDue(due) == process = "loop" /\ due # {} /\ Run(due)

\* A signal is honoured between cycles; launchctl unload sends one.
StopCleanly ==
  /\ process = "loop" /\ Idle
  /\ process' = "down"
  /\ UNCHANGED <<team, pc, busy, local, populated, feedRate, diskVars, userVars, events>>

Kill ==
  /\ process # "down" /\ events < MaxEvents
  /\ process' = "down" /\ events' = events + 1
  /\ pc' = [j \in Job |-> 0] /\ busy' = {} /\ local' = [j \in Job |-> Blank]
  /\ pending' = {}   \* the next writer truncates what it finds
  /\ UNCHANGED <<team, populated, feedRate, cache, torn, text, shown, file, userVars>>

\* The user's editor saves one more line below the sentinel.
Edit(n) ==
  /\ file[n] # "absent" /\ saved[n] < MaxEdits /\ events < MaxEvents /\ events' = events + 1
  /\ text' = [text EXCEPT ![n] = saved[n] + 1] /\ saved' = [saved EXCEPT ![n] = @ + 1]
  /\ raced' = IF Writing(n) = {} THEN raced ELSE raced \cup {n}
  /\ UNCHANGED <<team, process, pc, busy, local, populated, feedRate, cache, torn, shown, file,
                 pending>>

FeedMoves ==
  /\ feedRate < MaxRate /\ events < MaxEvents
  /\ feedRate' = feedRate + 1 /\ events' = events + 1
  /\ UNCHANGED <<team, process, pc, busy, local, populated, diskVars, userVars>>

JobStep(j) ==
  \/ Fetch(j) \/ SaveCache(j) \/ FetchFails(j) \/ SetCountries(j) \/ GetCountries(j)
  \/ BeginNote(j) \/ Unchanged(j) \/ ReplaceNote(j)
  \/ BeginExport(j) \/ ReplaceExport(j) \/ ReplaceRaises(j)

VaultNext ==
  \/ Start \/ RunOnceAll \/ StopCleanly \/ Kill \/ FeedMoves
  \/ \E due \in SUBSET team : RunDue(due)
  \/ \E j \in Job : JobStep(j)
  \/ \E n \in UserNotes : Edit(n)

\* launchd restarts the daemon, threads run, every job falls due again and no
\* feed is out for ever.
VaultFairness ==
  /\ WF_vars(Start) /\ WF_vars(RunOnceAll)
  /\ \A j \in UNION Teams : WF_vars(JobStep(j)) /\ SF_vars(Fetch(j)) /\ SF_vars(\E due \in SUBSET team : j \in due /\ RunDue(due))

VaultSpec == VaultInit /\ [][VaultNext]_vars /\ VaultFairness

-----------------------------------------------------------------------------
(* The module's contract for the notes (lines 17-20): a note keeps what    *)
(* the user saved below the sentinel, whatever the jobs interleave and     *)
(* wherever the process dies, except a save that falls between a job's     *)
(* reading of the file and its replacement.                                *)
NotesKept == \A n \in Note : text[n] = saved[n] \/ n \in raced

(* The docstring of write_json_atomic: no partially written document is    *)
(* exposed.                                                                *)
ExportWhole == Served # "partial"

(* The daemon refreshes the vault: as long as the feeds answer now and     *)
(* then, a country's note shows the published rate and the population      *)
(* again and again, whatever stale or blank note a race has put there.     *)
NotesCatchUp == {"countries", "fx"} \subseteq team =>
  []<>(shown["fx"] = feedRate /\ shown["population"] = 1)

(* The live policy rate returns to a central bank's note again and again,  *)
(* although each rebuild of job_countries puts the curated one back.       *)
OverrideReturns == "policy_rates" \in team => []<>(shown["policy"] = 1)

=============================================================================
