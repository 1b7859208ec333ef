--------------------------- MODULE JournalRepair ---------------------------
(***************************************************************************)
(* How the agent replaces a damaged journal (StateStore::open_recovered    *)
(* and finish_pending_state_repair in vonk-agent state.rs): a durable      *)
(* marker announces the repair, the database and its write-ahead log are   *)
(* renamed away, and the marker is retired before a new journal is opened. *)
(* A rename is seen at once and durable only after the directory is        *)
(* synchronized; a power loss keeps any part of what was not.              *)
(***************************************************************************)
EXTENDS Integers

CONSTANTS
    MaxJournals,  \* bound on the journals created
    MaxFaults     \* bound on crashes and failing renames

\* What the values of the constants must satisfy.
Assumed == MaxJournals \in Nat \ {0} /\ MaxFaults \in Nat

Journals == 1 .. MaxJournals

VARIABLES
    dir,        \* the directory as the running system sees it
    disk,       \* the directory that survives a power loss
    damaged,    \* the journals whose stored bytes cannot be read
    committed,  \* the journals with committed rows in their log
    step,       \* where open_recovered is
    faults

vars == <<dir, disk, damaged, committed, step, faults>>

\* Which journal the database and the log file belong to (0: no file), and
\* whether the repair marker is there.
Directory == [main : 0 .. MaxJournals, wal : 0 .. MaxJournals, marker : BOOLEAN]

Steps == {"start", "opening", "announced", "repair", "moved-main", "moved-wal", "moved",
          "retired", "open"}

TypeOK ==
    /\ dir \in Directory /\ disk \in Directory
    /\ damaged \subseteq Journals /\ committed \subseteq Journals
    /\ step \in {"announced", "repair", "moved-main", "moved-wal", "moved"} => dir.marker
    /\ step \in Steps /\ faults \in 0 .. MaxFaults

Init ==
    /\ dir = [main |-> 0, wal |-> 0, marker |-> FALSE] /\ disk = dir
    /\ damaged = {} /\ committed = {} /\ step = "start" /\ faults = 0

Goto(s) == step' = s /\ UNCHANGED <<damaged, committed, faults>>
Renamed(d) == dir' = d /\ UNCHANGED disk
sync_state_directory == disk' = dir /\ UNCHANGED dir

-----------------------------------------------------------------------------

\* Bug: the journal is opened whatever a repair left behind.
Bug_finish_pending == /\ step = "start" /\ Goto("opening") /\ UNCHANGED <<dir, disk>>

\* A repair that was announced is finished before anything is opened.
finish_pending ==
    /\ step = "start" /\ Goto(IF dir.marker THEN "repair" ELSE "opening")
    /\ UNCHANGED <<dir, disk>>

\* The next identity of a journal: renamed files keep theirs elsewhere.
Created == {j \in Journals : j \in damaged \cup committed \/ dir.main = j}
Fresh == {j \in Journals : \A k \in Created : k < j}

\* Damage is met while the log is there; without its log the database may
\* look sound.
Readable == dir.main \notin damaged \/ dir.wal # dir.main

\* open: a missing file is created empty.
open ==
    /\ step = "opening" /\ Readable
    /\ \/ dir.main # 0 /\ UNCHANGED dir
       \/ /\ dir.main = 0 /\ Fresh # {}
          /\ \E j \in Fresh : (\A k \in Fresh : j <= k) /\ dir' = [dir EXCEPT !.main = j]
    /\ Goto("open") /\ UNCHANGED disk

\* open fails on damaged bytes: the intent is renamed into place, and only
\* then made durable.
Announce ==
    /\ step = "opening" /\ dir.main \in damaged
    /\ Renamed([dir EXCEPT !.marker = TRUE]) /\ Goto("announced")

Announced == step = "announced" /\ sync_state_directory /\ Goto("repair")

MoveMain ==
    /\ step = "repair" /\ Renamed([dir EXCEPT !.main = 0]) /\ Goto("moved-main")

MoveWal ==
    /\ step = "moved-main" /\ Renamed([dir EXCEPT !.wal = 0]) /\ Goto("moved-wal")

Moved == step = "moved-wal" /\ sync_state_directory /\ Goto("moved")

Bug_Retire == step = "moved" /\ UNCHANGED <<dir, disk>> /\ Goto("retired")

Retire ==
    /\ step = "moved" /\ Renamed([dir EXCEPT !.marker = FALSE]) /\ Goto("retired")

Retired == step = "retired" /\ sync_state_directory /\ Goto("opening")

\* Creating a file or a rename fails: the pass ends and a later one starts
\* from what is there.  A synchronization is taken not to fail.
Fail ==
    /\ step \in {"opening", "repair", "moved-main", "moved"}
    /\ faults < MaxFaults /\ faults' = faults + 1
    /\ step' = "start" /\ UNCHANGED <<dir, disk, damaged, committed>>

-----------------------------------------------------------------------------
(* The journal in use, and what happens to it.                             *)

\* A commit writes the log, and its first one makes the file names durable.
Commit ==
    /\ step = "open" /\ dir.main \notin committed
    /\ dir' = [dir EXCEPT !.wal = dir.main] /\ disk' = dir'
    /\ committed' = committed \cup {dir.main}
    /\ UNCHANGED <<damaged, step, faults>>

\* Stored bytes go bad; restore_custody meets them on its next pass.
Damage ==
    /\ step = "open" /\ dir.main \notin damaged
    /\ damaged' = damaged \cup {dir.main} /\ step' = "start"
    /\ UNCHANGED <<dir, disk, committed, faults>>

\* Every pass closes the journal and opens it again.
restore_custody == step = "open" /\ Goto("start") /\ UNCHANGED <<dir, disk>>

\* The process ends, or the power is lost: each name is as it was or as it
\* was last made durable.
Crash ==
    /\ faults < MaxFaults /\ faults' = faults + 1
    /\ \E main \in {dir.main, disk.main}, wal \in {dir.wal, disk.wal},
          marker \in {dir.marker, disk.marker} :
         dir' = [main |-> main, wal |-> wal, marker |-> marker]
    /\ disk' = dir' /\ step' = "start"
    /\ UNCHANGED <<damaged, committed>>

open_recovered ==
    \/ finish_pending \/ open \/ Announce \/ Announced \/ MoveMain \/ MoveWal \/ Moved
    \/ Retire \/ Retired

Next == open_recovered \/ Fail \/ Commit \/ Damage \/ restore_custody \/ Crash

Spec == Init /\ [][Next]_vars

\* Each step of a pass is taken; the faults are bounded.
FairSpec == Spec /\ WF_vars(open_recovered)

-----------------------------------------------------------------------------

\* A journal is never used without the log that holds its committed rows,
\* nor beside the log of another, wherever a crash interrupted the repair.
NeverTorn ==
    step = "open" =>
        dir.wal \in {dir.main} \cup (IF dir.main \in committed THEN {} ELSE {0})

\* A journal with committed rows and readable bytes is never moved away: a
\* finished repair does not start again over its replacement.
KeptWhileReadable ==
    [][\A j \in committed \ damaged : dir.main = j => dir'.main = j]_vars

\* A journal is opened again after damage and faults, while another can be
\* created.
OpenedAgain == (step = "start" /\ Fresh # {}) ~> step = "open"
=============================================================================
