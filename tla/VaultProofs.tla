---------------------------- MODULE VaultProofs -----------------------------
(***************************************************************************)
(* The vault, for any number of rates, saves, kills, pages and keys.  The  *)
(* per-path lock makes a job that has read a note its only writer; what it *)
(* holds is then what the user saved, or a save has raced it.  A token     *)
(* that the server has deleted is in use for one more lifetime at most, by *)
(* a page that had it, unless that page had asked for it again.            *)
(***************************************************************************)
EXTENDS VaultDaemon, TokenVault, TLAPS

File == Note \cup {"export"}

NotesTypeOK ==
  /\ pc \in [Job -> Nat] /\ busy \subseteq Job
  /\ local \in [Job -> [{"fx", "population", "policy", "text"} -> Nat]]
  /\ populated \in Nat /\ feedRate \in Nat /\ cache \in [Feed -> Nat]
  /\ text \in [Note -> Nat] /\ saved \in [Note -> Nat]
  /\ file \in [File -> {"absent", "whole", "partial"}]

\* A busy job fetches or writes; a note has one writer, whose temporary file
\* is there.
OneWriter ==
  /\ \A j \in busy : \E s \in Feed \cup File : At(j, s)
  /\ \A n \in Note, i, j \in Job : i \in Writing(n) /\ j \in Writing(n) => i = j
  /\ \A n \in Note : Writing(n) # {} => n \in pending

\* What a writer holds is what was saved; a note that is not there was never
\* saved, and none is half written.
HoldsSaved ==
  /\ \A n \in Note, j \in Job : j \in Writing(n) => local[j].text = saved[n] \/ n \in raced
  /\ \A n \in Note : file[n] # "partial" /\ (file[n] = "absent" => saved[n] = 0)

NotesInv == NotesTypeOK /\ OneWriter /\ HoldsSaved /\ NotesKept

-----------------------------------------------------------------------------
\* A job is at one step only, and the kinds of steps are different.
LEMMA StepsDiffer ==
  /\ \A j \in Job : \A s, t : At(j, s) /\ At(j, t) => s = t
  /\ \A n \in Note : n \notin Feed /\ n \notin {"export", "setCountries", "getCountries"}
  /\ \A f \in Feed : f \notin {"export", "setCountries", "getCountries"}
  BY DEF At, Note, Feed

\* What a job does away from the notes leaves them and their writers alone.
LEMMA OtherWork ==
  ASSUME NotesInv, NotesTypeOK', NEW j \in Job,
         UNCHANGED <<text, saved, raced>>,
         \A n \in Note : file'[n] = file[n] /\ (n \in pending => n \in pending'),
         \A i \in Job \ {j} : pc'[i] = pc[i] /\ local'[i] = local[i] /\ (i \in busy' <=> i \in busy),
         j \in busy' => \E s \in Feed \cup {"export"} : At(j, s)'
  PROVE  NotesInv'
<1>1. NotesTypeOK /\ OneWriter /\ HoldsSaved /\ NotesKept
  BY DEF NotesInv
<1>2. \A n \in Note : Writing(n)' \subseteq Writing(n) \ {j}
  <2>1. \A n \in Note : j \notin Writing(n)'
    <3>1. \A n \in Note : \A s : At(j, n)' /\ At(j, s)' => s = n
      BY DEF At
    <3> QED
      BY <3>1, StepsDiffer DEF Writing
  <2>2. \A n \in Note, i \in Job \ {j} : i \in Writing(n)' => i \in Writing(n)
    BY DEF Writing, At
  <2> QED
    BY <2>1, <2>2 DEF Writing, NotesTypeOK
<1>3. OneWriter'
  <2>1. \A i \in busy' : \E s \in Feed \cup File : At(i, s)'
    <3> SUFFICES ASSUME NEW i \in busy'
                 PROVE  \E s \in Feed \cup File : At(i, s)'
      OBVIOUS
    <3>1. CASE i = j
      BY <3>1 DEF File
    <3>2. CASE i # j
      <4>1. i \in Job \ {j} /\ i \in busy
        BY <3>2 DEF NotesTypeOK
      <4>2. PICK s \in Feed \cup File : At(i, s)
        BY <1>1, <4>1 DEF OneWriter
      <4> QED
        BY <4>1, <4>2 DEF At
    <3> QED
      BY <3>1, <3>2
  <2>2. \A n \in Note, i, k \in Job : i \in Writing(n)' /\ k \in Writing(n)' => i = k
    BY <1>1, <1>2 DEF OneWriter
  <2>3. \A n \in Note : Writing(n)' # {} => n \in pending'
    BY <1>1, <1>2 DEF OneWriter
  <2> QED
    BY <2>1, <2>2, <2>3 DEF OneWriter
<1>4. HoldsSaved'
  BY <1>1, <1>2 DEF HoldsSaved
<1>5. NotesKept'
  BY <1>1 DEF NotesKept
<1> QED
  BY <1>3, <1>4, <1>5 DEF NotesInv

\* The steps of a job that write no note.
LEMMA FetchKeeps ==
  ASSUME NotesInv, NEW j \in Job,
         Fetch(j) \/ SaveCache(j) \/ FetchFails(j) \/ SetCountries(j) \/ GetCountries(j)
  PROVE  NotesInv'
<1>1. NotesTypeOK /\ OneWriter
  BY DEF NotesInv
<1>2. UNCHANGED <<text, saved, raced, file, pending>>
  BY DEF Fetch, FetchPopulation, FetchFx, FetchPolicy, FetchLive, SaveCache, FetchFails,
         SetCountries, GetCountries, diskVars, userVars
<1>3. CASE Fetch(j)
  <2>1. PICK f \in Feed : FetchLive(j, f)
    BY <1>3 DEF Fetch, FetchPopulation, FetchFx, FetchPolicy, Feed
  <2>2. Published(f) \in Nat /\ f \in {"fx", "population", "policy", "text"}
    BY <1>1 DEF Published, NotesTypeOK, Feed
  <2>3. NotesTypeOK'
    BY <1>1, <1>2, <2>1, <2>2 DEF NotesTypeOK, FetchLive, Keep
  <2>4. At(j, f)'
    BY <2>1 DEF FetchLive, At
  <2>5. \A i \in Job \ {j} : pc'[i] = pc[i] /\ local'[i] = local[i] /\ (i \in busy' <=> i \in busy)
    BY <1>1, <2>1 DEF FetchLive, Keep, NotesTypeOK
  <2> QED
    BY <1>2, <2>3, <2>4, <2>5, OtherWork
<1>4. CASE SaveCache(j)
  <2>1. PICK f \in Feed : /\ cache' = [cache EXCEPT ![f] = local[j][f]] /\ busy' = busy \ {j}
                          /\ Advance(j) /\ UNCHANGED <<local, populated, feedRate>>
    BY <1>4 DEF SaveCache
  <2>2. local[j][f] \in Nat
    BY <1>1 DEF NotesTypeOK, Feed
  <2>3. NotesTypeOK'
    <3>1. pc' \in [Job -> Nat]
      BY <1>1, <2>1 DEF NotesTypeOK, Advance
    <3>2. cache' \in [Feed -> Nat]
      BY <1>1, <2>1, <2>2 DEF NotesTypeOK
    <3> QED
      BY <1>1, <1>2, <2>1, <3>1, <3>2 DEF NotesTypeOK
  <2>4. j \notin busy' /\ \A i \in Job \ {j} :
          pc'[i] = pc[i] /\ local'[i] = local[i] /\ (i \in busy' <=> i \in busy)
    BY <1>1, <2>1 DEF Advance, NotesTypeOK
  <2> QED
    BY <1>2, <2>3, <2>4, OtherWork
<1>5. CASE FetchFails(j) \/ SetCountries(j) \/ GetCountries(j)
  <2>1. \A f \in Feed : LoadCache(f) \in Nat
    BY <1>1 DEF LoadCache, NotesTypeOK
  <2>2. "fx" \in Feed /\ Feed \subseteq {"fx", "population", "policy", "text"}
    BY DEF Feed
  <2>3. local[j].population \in Nat
    BY <1>1 DEF NotesTypeOK
  <2>4. /\ Advance(j) /\ UNCHANGED <<busy, cache, feedRate>> /\ populated' \in Nat
        /\ \E fact \in {"fx", "population", "policy", "text"}, value \in Nat : Keep(j, fact, value)
    BY <1>1, <1>5, <2>1, <2>2, <2>3
       DEF FetchFails, SetCountries, GetCountries, NotesTypeOK, diskVars
  <2>5. j \notin busy
    BY <1>1, <1>5, StepsDiffer DEF FetchFails, SetCountries, GetCountries, OneWriter, File
  <2>6. NotesTypeOK'
    BY <1>1, <1>2, <2>4 DEF NotesTypeOK, Advance, Keep
  <2>7. \A i \in Job \ {j} : pc'[i] = pc[i] /\ local'[i] = local[i] /\ (i \in busy' <=> i \in busy)
    BY <1>1, <2>4 DEF Advance, Keep, NotesTypeOK
  <2> QED
    BY <1>2, <2>4, <2>5, <2>6, <2>7, OtherWork
<1> QED
  BY <1>3, <1>4, <1>5

\* Steps that find a note unchanged or write the export.
LEMMA ExportKeeps ==
  ASSUME NotesInv, NEW j \in Job,
         Unchanged(j) \/ BeginExport(j) \/ ReplaceExport(j) \/ ReplaceRaises(j)
  PROVE  NotesInv'
<1>1. NotesTypeOK /\ OneWriter
  BY DEF NotesInv
<1>2. UNCHANGED <<text, saved, raced, populated, feedRate, cache>>
  BY DEF Unchanged, BeginExport, ReplaceExport, ReplaceRaises, diskVars, userVars
<1>3. "export" \in File /\ \A n \in Note : n # "export"
  BY StepsDiffer DEF File
<1>4. CASE Unchanged(j)
  <2>1. j \notin busy /\ Forget(j) /\ (Leave(j) \/ Advance(j)) /\ UNCHANGED <<busy, file, pending>>
    BY <1>4 DEF Unchanged, diskVars
  <2>2. NotesTypeOK'
    <3>1. pc' \in [Job -> Nat]
      <4>1. pc \in [Job -> Nat] /\ (pc' = [pc EXCEPT ![j] = 0] \/ pc' = [pc EXCEPT ![j] = @ + 1])
        BY <1>1, <2>1 DEF NotesTypeOK, Leave, Advance
      <4> QED
        BY <4>1
    <3>2. Blank \in [{"fx", "population", "policy", "text"} -> Nat]
      BY DEF Blank
    <3>3. local' = [local EXCEPT ![j] = Blank] /\ local \in [Job -> [{"fx", "population", "policy", "text"} -> Nat]]
      BY <1>1, <2>1 DEF NotesTypeOK, Forget
    <3>4. local' \in [Job -> [{"fx", "population", "policy", "text"} -> Nat]]
      BY <3>2, <3>3, Zenon
    <3> QED
      BY <1>1, <1>2, <2>1, <3>1, <3>4 DEF NotesTypeOK
  <2>3. \A i \in Job \ {j} : pc'[i] = pc[i] /\ local'[i] = local[i]
    BY <1>1, <2>1 DEF Forget, Leave, Advance, NotesTypeOK
  <2> QED
    BY <1>2, <2>1, <2>2, <2>3, OtherWork
<1>5. CASE BeginExport(j)
  <2>1. /\ At(j, "export") /\ busy' = busy \cup {j} /\ pending' = pending \cup {"export"}
        /\ UNCHANGED <<pc, local, file>>
    BY <1>5 DEF BeginExport
  <2>2. NotesTypeOK' /\ At(j, "export")'
    BY <1>1, <1>2, <2>1 DEF NotesTypeOK, At
  <2> QED
    BY <1>2, <2>1, <2>2, OtherWork
<1>6. CASE ReplaceExport(j)
  <2>1. /\ \E state \in {"whole", "partial"} : file' = [file EXCEPT !["export"] = state]
        /\ pending' = pending \ {"export"} /\ busy' = busy \ {j} /\ Advance(j) /\ UNCHANGED local
    BY <1>6 DEF ReplaceExport, Publish
  <2>2. NotesTypeOK'
    <3>1. pc' \in [Job -> Nat]
      BY <1>1, <2>1 DEF NotesTypeOK, Advance
    <3>2. file' \in [File -> {"absent", "whole", "partial"}]
      BY <1>1, <2>1 DEF NotesTypeOK
    <3> QED
      BY <1>1, <1>2, <2>1, <3>1, <3>2 DEF NotesTypeOK
  <2>3. \A n \in Note : file'[n] = file[n] /\ (n \in pending => n \in pending')
    BY <1>1, <1>3, <2>1 DEF NotesTypeOK, File
  <2>4. \A i \in Job \ {j} : pc'[i] = pc[i] /\ local'[i] = local[i] /\ (i \in busy' <=> i \in busy)
    BY <1>1, <2>1 DEF Advance, NotesTypeOK
  <2> QED
    BY <1>2, <2>1, <2>2, <2>3, <2>4, OtherWork
<1>7. CASE ReplaceRaises(j)
  <2>1. PICK f \in DOMAIN file :
          /\ At(j, f) /\ j \in busy /\ f \notin pending
          /\ \E state \in {"whole", "partial"} : file' = [file EXCEPT ![f] = state]
          /\ busy' = busy \ {j} /\ Leave(j) /\ UNCHANGED <<local, pending>>
    BY <1>7 DEF ReplaceRaises, Publish
  <2>2. f = "export"
    BY <1>1, <2>1 DEF NotesTypeOK, OneWriter, Writing, File
  <2>3. NotesTypeOK'
    BY <1>1, <1>2, <2>1 DEF NotesTypeOK, Leave
  <2>4. \A n \in Note : file'[n] = file[n]
    BY <1>1, <1>3, <2>1, <2>2 DEF NotesTypeOK, File
  <2>5. \A i \in Job \ {j} : pc'[i] = pc[i] /\ local'[i] = local[i] /\ (i \in busy' <=> i \in busy)
    BY <1>1, <2>1 DEF Leave, NotesTypeOK
  <2> QED
    BY <1>2, <2>1, <2>3, <2>4, <2>5, OtherWork
<1> QED
  BY <1>4, <1>5, <1>6, <1>7

\* The lock is free, so the job becomes the note's one writer, and what it
\* reads is what was saved.
LEMMA BeginNoteKeeps ==
  ASSUME NotesInv, NEW j \in Job, BeginNote(j)
  PROVE  NotesInv'
<1>1. NotesTypeOK /\ OneWriter /\ HoldsSaved /\ NotesKept
  BY DEF NotesInv
<1>2. PICK n \in Note :
        /\ At(j, n) /\ j \notin busy /\ Writing(n) = {}
        /\ Keep(j, "text", IF file[n] = "whole" THEN text[n] ELSE 0)
        /\ busy' = busy \cup {j} /\ pending' = pending \cup {n}
        /\ UNCHANGED <<pc, populated, feedRate, cache, text, file, saved, raced>>
  BY DEF BeginNote, LockFree, userVars
<1>3. NotesTypeOK'
  BY <1>1, <1>2 DEF NotesTypeOK, Keep
<1>4. /\ local'[j].text = IF file[n] = "whole" THEN text[n] ELSE 0
      /\ \A i \in Job \ {j} : local'[i] = local[i]
  BY <1>1, <1>2 DEF NotesTypeOK, Keep
<1>5. Writing(n)' = {j} /\ \A m \in Note \ {n} : Writing(m)' = Writing(m)
  <2>1. \A i, s : At(i, s)' <=> At(i, s)
    BY <1>2 DEF At
  <2>2. \A m \in Note \ {n} : ~At(j, m)
    BY <1>2, StepsDiffer
  <2> QED
    BY <1>2, <2>1, <2>2 DEF Writing
<1>6. OneWriter'
  <2>1. \A i \in busy' : \E s \in Feed \cup File : At(i, s)'
    BY <1>1, <1>2 DEF OneWriter, At, File
  <2>2. \A m \in Note, i, k \in Job : i \in Writing(m)' /\ k \in Writing(m)' => i = k
    BY <1>1, <1>5 DEF OneWriter
  <2>3. \A m \in Note : Writing(m)' # {} => m \in pending'
    BY <1>1, <1>2, <1>5 DEF OneWriter
  <2> QED
    BY <2>1, <2>2, <2>3 DEF OneWriter
<1>7. HoldsSaved'
  <2>1. local'[j].text = saved[n] \/ n \in raced
    BY <1>1, <1>4 DEF HoldsSaved, NotesKept, NotesTypeOK, File
  <2>2. \A m \in Note \ {n}, i \in Job : i \in Writing(m) => i # j
    BY <1>2 DEF Writing
  <2>3. \A m \in Note, i \in Job : i \in Writing(m)' => local'[i].text = saved'[m] \/ m \in raced'
    BY <1>1, <1>2, <1>4, <1>5, <2>1, <2>2 DEF HoldsSaved
  <2>4. \A m \in Note : file'[m] # "partial" /\ (file'[m] = "absent" => saved'[m] = 0)
    BY <1>1, <1>2 DEF HoldsSaved
  <2> QED
    BY <2>3, <2>4 DEF HoldsSaved
<1>8. NotesKept'
  BY <1>1, <1>2 DEF NotesKept
<1> QED
  BY <1>3, <1>6, <1>7, <1>8 DEF NotesInv

\* The one writer puts back what was saved, in a whole file.
LEMMA ReplaceNoteKeeps ==
  ASSUME NotesInv, NEW j \in Job, ReplaceNote(j)
  PROVE  NotesInv'
<1>1. NotesTypeOK /\ OneWriter /\ HoldsSaved /\ NotesKept
  BY DEF NotesInv
<1>2. PICK n \in Note :
        /\ At(j, n) /\ j \in busy /\ text' = [text EXCEPT ![n] = local[j].text]
        /\ Publish(n, Writing(n) \ {j}) /\ pending' = pending \ {n}
        /\ busy' = busy \ {j} /\ Advance(j) /\ Forget(j)
        /\ UNCHANGED <<populated, feedRate, cache, saved, raced>>
  BY DEF ReplaceNote, userVars
<1>3. Writing(n) = {j} /\ local[j].text \in Nat
  BY <1>1, <1>2 DEF Writing, OneWriter, NotesTypeOK
<1>4. file' = [file EXCEPT ![n] = "whole"]
  BY <1>2, <1>3 DEF Publish
<1>5. NotesTypeOK'
  <2>1. pc' \in [Job -> Nat] /\ busy' \subseteq Job
    BY <1>1, <1>2 DEF NotesTypeOK, Advance
  <2>2. local' \in [Job -> [{"fx", "population", "policy", "text"} -> Nat]]
    BY <1>1, <1>2 DEF NotesTypeOK, Forget, Blank
  <2>3. /\ text' \in [Note -> Nat]
        /\ file' \in [File -> {"absent", "whole", "partial"}]
    BY <1>1, <1>2, <1>3, <1>4 DEF NotesTypeOK
  <2> QED
    BY <1>1, <1>2, <2>1, <2>2, <2>3 DEF NotesTypeOK
<1>6. \A i \in Job \ {j} : pc'[i] = pc[i] /\ local'[i] = local[i] /\ (i \in busy' <=> i \in busy)
  BY <1>1, <1>2 DEF NotesTypeOK, Advance, Forget
<1>7. \A m \in Note : Writing(m)' \subseteq Writing(m) \ {j}
  BY <1>1, <1>2, <1>6 DEF Writing, At, NotesTypeOK
<1>8. OneWriter'
  <2>1. \A i \in busy' : \E s \in Feed \cup File : At(i, s)'
    BY <1>1, <1>2, <1>6 DEF OneWriter, At, NotesTypeOK
  <2>2. \A m \in Note, i, k \in Job : i \in Writing(m)' /\ k \in Writing(m)' => i = k
    BY <1>1, <1>7 DEF OneWriter
  <2>3. \A m \in Note : Writing(m)' # {} => m \in pending'
    BY <1>1, <1>2, <1>3, <1>7 DEF OneWriter
  <2> QED
    BY <2>1, <2>2, <2>3 DEF OneWriter
<1>9. HoldsSaved'
  <2>1. \A m \in Note, i \in Job : i \in Writing(m)' => local'[i].text = saved'[m] \/ m \in raced'
    BY <1>1, <1>2, <1>6, <1>7 DEF HoldsSaved
  <2>2. \A m \in Note : file'[m] # "partial" /\ (file'[m] = "absent" => saved'[m] = 0)
    BY <1>1, <1>2, <1>4 DEF HoldsSaved, NotesTypeOK, File
  <2> QED
    BY <2>1, <2>2 DEF HoldsSaved
<1>10. NotesKept'
  <2>1. local[j].text = saved[n] \/ n \in raced
    BY <1>1, <1>3 DEF HoldsSaved
  <2> QED
    BY <1>1, <1>2, <2>1 DEF NotesKept, NotesTypeOK
<1> QED
  BY <1>5, <1>8, <1>9, <1>10 DEF NotesInv

\* A save races exactly the jobs that have read the note.
LEMMA EditKeeps ==
  ASSUME NotesInv, NEW n \in Note, Edit(n)
  PROVE  NotesInv'
<1>1. NotesTypeOK /\ OneWriter /\ HoldsSaved /\ NotesKept
  BY DEF NotesInv
<1>2. /\ file[n] # "absent" /\ text' = [text EXCEPT ![n] = saved[n] + 1]
      /\ saved' = [saved EXCEPT ![n] = @ + 1]
      /\ raced \subseteq raced' /\ (Writing(n) # {} => n \in raced')
      /\ UNCHANGED <<pc, busy, local, populated, feedRate, cache, file, pending>>
  BY DEF Edit
<1>3. /\ text'[n] = saved'[n]
      /\ \A m \in Note \ {n} : text'[m] = text[m] /\ saved'[m] = saved[m]
  BY <1>1, <1>2 DEF NotesTypeOK
<1>4. \A m \in Note : Writing(m)' = Writing(m)
  BY <1>2 DEF Writing, At
<1>5. NotesTypeOK'
  BY <1>1, <1>2 DEF NotesTypeOK
<1>6. OneWriter'
  BY <1>1, <1>2, <1>4 DEF OneWriter, At
<1>7. HoldsSaved'
  BY <1>1, <1>2, <1>3, <1>4 DEF HoldsSaved
<1>8. NotesKept'
  BY <1>1, <1>2, <1>3 DEF NotesKept
<1> QED
  BY <1>5, <1>6, <1>7, <1>8 DEF NotesInv

\* Nobody writes when no job is busy: before a cycle and after a kill.
LEMMA NobodyWrites ==
  ASSUME NotesInv, NotesTypeOK', busy' = {}, UNCHANGED <<text, saved, raced, file>>
  PROVE  NotesInv'
<1>1. \A n \in Note : Writing(n)' = {}
  BY DEF Writing
<1>2. OneWriter'
  BY <1>1 DEF OneWriter
<1>3. HoldsSaved'
  BY <1>1 DEF HoldsSaved, NotesInv
<1>4. NotesKept'
  BY DEF NotesKept, NotesInv
<1> QED
  BY <1>2, <1>3, <1>4 DEF NotesInv

\* Starting, stopping, killing, the schedule and the feeds.
LEMMA RunnerKeeps ==
  ASSUME NotesInv, \/ Start \/ RunOnceAll \/ StopCleanly \/ Kill \/ FeedMoves
                   \/ \E due \in SUBSET team : RunDue(due)
  PROVE  NotesInv'
<1>1. NotesTypeOK /\ OneWriter /\ HoldsSaved /\ NotesKept
  BY DEF NotesInv
<1>2. CASE Start \/ StopCleanly \/ FeedMoves
  <2>1. /\ UNCHANGED <<text, saved, raced, file, pc, busy, local, cache, pending>>
        /\ populated' \in Nat /\ feedRate' \in Nat
    BY <1>1, <1>2 DEF Start, StopCleanly, FeedMoves, diskVars, userVars, NotesTypeOK
  <2>2. NotesTypeOK'
    BY <1>1, <2>1 DEF NotesTypeOK
  <2>3. \A n \in Note : Writing(n)' = Writing(n)
    BY <2>1 DEF Writing, At
  <2>4. OneWriter'
    BY <1>1, <2>1, <2>3 DEF OneWriter, At
  <2>5. HoldsSaved' /\ NotesKept'
    BY <1>1, <2>1, <2>3 DEF HoldsSaved, NotesKept
  <2> QED
    BY <2>2, <2>4, <2>5 DEF NotesInv
<1>3. CASE RunOnceAll \/ \E due \in SUBSET team : RunDue(due)
  <2>1. PICK due : Run(due)
    BY <1>3 DEF RunOnceAll, RunDue
  <2>2. busy = {}
    BY <1>1, <2>1 DEF Run, Idle, OneWriter, At, NotesTypeOK
  <2>3. NotesTypeOK'
    BY <1>1, <2>1 DEF NotesTypeOK, Run, Blank, diskVars, userVars
  <2> QED
    BY <2>1, <2>2, <2>3, NobodyWrites DEF Run, diskVars, userVars
<1>4. CASE Kill
  <2>1. NotesTypeOK'
    BY <1>1, <1>4 DEF NotesTypeOK, Kill, Blank, userVars
  <2> QED
    BY <1>4, <2>1, NobodyWrites DEF Kill, userVars
<1> QED
  BY <1>2, <1>3, <1>4

(* The daemon's contract for the notes: whatever jobs interleave and       *)
(* wherever the process dies, a note keeps what the user saved, except a   *)
(* save between a job's reading of the file and its replacement.           *)
THEOREM NotesAreKept == VaultSpec => []NotesKept
<1>1. VaultInit => NotesInv
  BY StepsDiffer
     DEF VaultInit, NotesInv, NotesTypeOK, OneWriter, HoldsSaved, NotesKept, Writing, At, Blank, File
<1>2. NotesInv /\ [VaultNext]_vars => NotesInv'
  <2> SUFFICES ASSUME NotesInv, [VaultNext]_vars
               PROVE  NotesInv'
    OBVIOUS
  <2>1. ASSUME NEW j \in Job, JobStep(j)
        PROVE  NotesInv'
    BY <2>1, FetchKeeps, ExportKeeps, BeginNoteKeeps, ReplaceNoteKeeps DEF JobStep
  <2>2. ASSUME NEW n \in UserNotes, Edit(n)
        PROVE  NotesInv'
    BY <2>2, EditKeeps, InstanceAssumption
  <2>3. CASE \/ Start \/ RunOnceAll \/ StopCleanly \/ Kill \/ FeedMoves
             \/ \E due \in SUBSET team : RunDue(due)
    BY <2>3, RunnerKeeps
  <2>4. CASE UNCHANGED vars
    BY <2>4 DEF vars, diskVars, userVars, NotesInv, NotesTypeOK, OneWriter, HoldsSaved, NotesKept,
                Writing, At
  <2> QED
    BY <2>1, <2>2, <2>3, <2>4 DEF VaultNext
<1>3. NotesInv => NotesKept
  BY DEF NotesInv
<1> QED
  BY <1>1, <1>2, <1>3, PTL DEF VaultSpec

-----------------------------------------------------------------------------
TokenTypeOK ==
  /\ clock \in Nat /\ stores \subseteq Token /\ deletes \subseteq Page
  /\ vault \in {NoToken, NoVault} \/ vault \in [token : Token, till : Nat]
  /\ vaultFile \in {NoToken, NoVault} \/ vaultFile \in [token : Token, till : Nat]
  /\ behind \in BOOLEAN /\ reverted \in BOOLEAN
  /\ cached \in [Page -> [token : Token \cup {Sandbox, None}, till : Nat]]
  /\ fetches \subseteq [page : Page, token : Token \cup {Sandbox}, left : 0 .. Ttl]
  /\ dead \subseteq [token : Token, at : Nat, by : Page]

\* A token that the server has deleted comes back to it only through a file that
\* a failed save had left behind; a token under way to it is new to it.
DeadStayDead ==
  /\ \A t \in stores : t # vault.token /\ t # vaultFile.token /\ \A d \in dead : d.token # t
  /\ \A d \in dead : vault.token = d.token => reverted
  /\ \A d \in dead : vaultFile.token = d.token => reverted \/ behind

\* Who held a dead token when it died, or was about to, is known.
StraysAreKnown ==
  /\ \A p \in deletes : cached[p].token \in Token => <<p, cached[p].token>> \in stray
  /\ ~reverted => \A f \in fetches, d \in dead : f.token = d.token => <<f.page, f.token>> \in stray
  /\ ~reverted => \A p \in Page : \A d \in dead : cached[p].token = d.token =>
       /\ cached[p].till <= d.at + Ttl \/ <<p, d.token>> \in stray
       /\ d.by = p => <<p, d.token>> \in stray

\* Nothing outlives a full lifetime from now.
CopiesExpire ==
  /\ vault.till <= clock + Ttl /\ vaultFile.till <= clock + Ttl
  /\ \A p \in Page : cached[p].token # None => cached[p].till <= clock + Ttl

TokenInv == TokenTypeOK /\ DeadStayDead /\ StraysAreKnown /\ CopiesExpire

\* A page that uses a dead token past its time or its own revocation had fetched
\* it while the revocation was on its way.
LEMMA InvariantRevokes == TokenInv => TokensStayRevoked
  BY TokenAssumption DEF TokenInv, TokenTypeOK, DeadStayDead, StraysAreKnown, TokensStayRevoked, InUse

\* The outcomes of a save.
LEMMA SavesSay ==
  ASSUME NEW v, SaveVault(v)
  PROVE  /\ behind' \in BOOLEAN
         /\ vaultFile' = v \/ vaultFile' = NoVault \/ (vaultFile' = vaultFile /\ behind')
<1>1. behind' \in BOOLEAN
  BY Zenon DEF SaveVault
<1> QED
  BY <1>1 DEF SaveVault

\* What a deletion leaves in the server and in its file.
LEMMA DeletionSays ==
  ASSUME NEW p \in Page, behind \in BOOLEAN, DeleteArrives(p)
  PROVE  /\ vault' \in {NoToken, NoVault} /\ behind' \in BOOLEAN
         /\ \/ vaultFile' \in {NoToken, NoVault}
            \/ vaultFile' = vaultFile /\ (behind' \/ (vault = NoVault /\ behind' = behind))
<1>1. CASE vault = NoVault
  BY <1>1, Zenon DEF DeleteArrives
<1>2. CASE vault # NoVault
  <2>1. vault' = NoToken /\ SaveVault(NoToken)
    BY <1>2, Zenon DEF DeleteArrives
  <2>2. behind' \in BOOLEAN /\ (vaultFile' = NoToken \/ vaultFile' = NoVault \/ (vaultFile' = vaultFile /\ behind'))
    BY <2>1, SavesSay
  <2> QED
    BY <2>1, <2>2, Zenon
<1> QED
  BY <1>1, <1>2

\* Storing, reading, revoking, saving, starting again and the passing of time
\* keep the invariant.
LEMMA TokenStep == TokenInv /\ [TokenNext]_tokenVars => TokenInv'
<1> SUFFICES ASSUME TokenInv, [TokenNext]_tokenVars PROVE TokenInv'
  OBVIOUS
<1> USE TokenAssumption DEF TokenInv, TokenTypeOK, NoToken, NoVault, serverSide
<1>1. ASSUME NEW t \in Token, StoreToken(t) PROVE TokenInv'
  BY <1>1 DEF StoreToken, DeadStayDead, StraysAreKnown, CopiesExpire
<1>2. ASSUME NEW t \in Token, StoreArrives(t) PROVE TokenInv'
  <2>1. vault' = [token |-> t, till |-> clock + Ttl] /\ t \in stores /\ stores' = stores \ {t}
        /\ UNCHANGED <<clock, reverted, cached, fetches, deletes, dead, stray>>
    BY <1>2 DEF StoreArrives
  <2>2. behind' \in BOOLEAN /\ (vaultFile' = vault' \/ vaultFile' = NoVault \/ (vaultFile' = vaultFile /\ behind'))
    BY <1>2, SavesSay DEF StoreArrives
  <2>3. TokenTypeOK'
    BY <2>1, <2>2
  <2>4. DeadStayDead'
    BY <2>1, <2>2 DEF DeadStayDead
  <2>5. StraysAreKnown' /\ CopiesExpire'
    BY <2>1, <2>2 DEF StraysAreKnown, CopiesExpire
  <2> QED
    BY <2>3, <2>4, <2>5
<1>3. ASSUME NEW t \in Token, StoreRefused(t) PROVE TokenInv'
  BY <1>3 DEF StoreRefused, DeadStayDead, StraysAreKnown, CopiesExpire
<1>4. ASSUME NEW p \in Page, Access(p) PROVE TokenInv'
  <2> DEFINE left == IF vault.till > clock THEN vault.till - clock ELSE 0
             f == IF vault.token \notin Token THEN [page |-> p, token |-> Sandbox, left |-> Ttl]
                  ELSE [page |-> p, token |-> vault.token, left |-> left]
  <2>1. left \in 0 .. Ttl
    BY DEF CopiesExpire
  <2>2. f \in [page : Page, token : Token \cup {Sandbox}, left : 0 .. Ttl]
    BY <2>1
  <2>3. fetches' = fetches \cup {f} /\ (~reverted => \A d \in dead : f.token # d.token)
    BY <1>4 DEF Access, DeadStayDead
  <2>4. UNCHANGED <<clock, vault, vaultFile, behind, reverted, cached, stores, deletes, dead, stray>>
    BY <1>4 DEF Access
  <2> QED
    BY <2>2, <2>3, <2>4 DEF DeadStayDead, StraysAreKnown, CopiesExpire
<1>5. ASSUME NEW p \in Page, Revoke(p) PROVE TokenInv'
  BY <1>5 DEF Revoke, DeadStayDead, StraysAreKnown, CopiesExpire
<1>6. ASSUME NEW p \in Page, DeleteArrives(p) PROVE TokenInv'
  <2>1. /\ p \in deletes /\ deletes' = deletes \ {p}
        /\ dead' = IF vault.token \in Token
                   THEN dead \cup {[token |-> vault.token, at |-> clock, by |-> p]} ELSE dead
        /\ stray' = stray \cup {<<q, vault.token>> : q \in
             {f.page : f \in {g \in fetches : g.token = vault.token}}}
        /\ UNCHANGED <<clock, reverted, cached, fetches, stores>>
    BY <1>6 DEF DeleteArrives
  <2>2. /\ vault' \in {NoToken, NoVault} /\ behind' \in BOOLEAN
        /\ \/ vaultFile' \in {NoToken, NoVault}
           \/ vaultFile' = vaultFile /\ (behind' \/ (vault = NoVault /\ behind' = behind))
    BY <1>6, DeletionSays
  <2>3. TokenTypeOK'
    BY <2>1, <2>2
  <2>4. DeadStayDead'
    <3>1. \A d \in dead' : d \in dead \/ (vault.token \in Token /\ d.token = vault.token)
      BY <2>1
    <3>2. vault'.token \notin Token
      BY <2>2
    <3> QED
      BY <2>1, <2>2, <3>1, <3>2 DEF DeadStayDead
  <2>5. StraysAreKnown'
    BY <2>1 DEF StraysAreKnown, DeadStayDead, CopiesExpire
  <2>6. CopiesExpire'
    BY <2>1, <2>2 DEF CopiesExpire
  <2> QED
    BY <2>3, <2>4, <2>5, <2>6
<1>7. ASSUME NEW p \in Page, DeleteLost(p) PROVE TokenInv'
  BY <1>7 DEF DeleteLost, DeadStayDead, StraysAreKnown, CopiesExpire
<1>8. ASSUME NEW f \in fetches, AccessArrives(f) PROVE TokenInv'
  BY <1>8 DEF AccessArrives, DeadStayDead, StraysAreKnown, CopiesExpire
<1>9. ASSUME NEW f \in fetches, AccessFails(f) PROVE TokenInv'
  BY <1>9 DEF AccessFails, DeadStayDead, StraysAreKnown, CopiesExpire
<1>10. CASE SaveElsewhere
  <2>1. behind' \in BOOLEAN /\ (vaultFile' = vault \/ vaultFile' = NoVault \/ (vaultFile' = vaultFile /\ behind'))
    BY <1>10, SavesSay DEF SaveElsewhere
  <2>2. UNCHANGED <<clock, vault, reverted, cached, fetches, stores, deletes, dead, stray>>
    BY <1>10 DEF SaveElsewhere
  <2>3. TokenTypeOK' /\ DeadStayDead'
    BY <2>1, <2>2 DEF DeadStayDead
  <2>4. StraysAreKnown' /\ CopiesExpire'
    BY <2>1, <2>2 DEF StraysAreKnown, CopiesExpire
  <2> QED
    BY <2>3, <2>4
<1>11. CASE ServerRestarts
  BY <1>11 DEF ServerRestarts, DeadStayDead, StraysAreKnown, CopiesExpire
<1>12. CASE TokenClock
  BY <1>12 DEF TokenClock, DeadStayDead, StraysAreKnown, CopiesExpire
<1>13. CASE UNCHANGED tokenVars
  BY <1>13 DEF tokenVars, DeadStayDead, StraysAreKnown, CopiesExpire
<1> QED
  BY <1>1, <1>2, <1>3, <1>4, <1>5, <1>6, <1>7, <1>8, <1>9, <1>10, <1>11, <1>12, <1>13
  DEF TokenNext

\* For any pages and tokens: what the server has deleted comes back to it only
\* through a file that a failed save had left behind, and its copies in the pages
\* last no longer than one lifetime, but for those that crossed the revocation.
THEOREM RevocationHolds == TokenSpec => []TokensStayRevoked
<1>1. VaultTokensInit => TokenInv
  <2> SUFFICES ASSUME VaultTokensInit PROVE TokenInv
    OBVIOUS
  <2> USE TokenAssumption DEF VaultTokensInit, NoToken, NoVault
  <2>1. TokenTypeOK
    BY DEF TokenTypeOK
  <2>2. DeadStayDead /\ StraysAreKnown
    BY DEF DeadStayDead, StraysAreKnown
  <2>3. CopiesExpire
    BY DEF CopiesExpire
  <2> QED
    BY <2>1, <2>2, <2>3 DEF TokenInv
<1>2. TokenInv /\ [TokenNext]_tokenVars => TokenInv'
  BY TokenStep
<1>3. TokenInv => TokensStayRevoked
  BY InvariantRevokes
<1> QED
  BY <1>1, <1>2, <1>3, PTL DEF TokenSpec
=============================================================================
