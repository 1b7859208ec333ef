---------------------------- MODULE MCController ----------------------------
(***************************************************************************)
(* The machinery that drives the controller's work, for TLC: the durable   *)
(* jobs, the worker loop and the due-wait backstop.  They share no state,  *)
(* so that their interleavings add nothing: a behaviour moves one part and *)
(* leaves the others as they start.                                        *)
(***************************************************************************)
EXTENDS DurableJobs

CONSTANTS S, RETRY_FIRST, RETRY_CAP, Horizon, MaxRestarts  \* of WorkerLoop
CONSTANTS N, K, batch_limit, WAIT_STEP                     \* of DueWaits

VARIABLES cursor, offset, running, failure, restarts             \* of WorkerLoop
VARIABLES due, owner_cursor, row_cursors, retry_at, pass         \* of DueWaits
VARIABLE part                                                    \* what moves

Loop == INSTANCE WorkerLoop
Waits == INSTANCE DueWaits

ASSUME ControllerAssumption == Loop!Assumed /\ Waits!Assumed

\* One source with two rows and one with a single row.
TwoAndOne == <<2, 1>>

loopVars == <<cursor, offset, running, failure, restarts>>
waitVars == <<due, owner_cursor, row_cursors, retry_at, pass>>
all == <<part, vars, loopVars, waitVars>>

PartsInit ==
    /\ part \in {"jobs", "loop", "waits"}
    /\ Init /\ Loop!Init /\ Waits!Init
    /\ part # "jobs" => /\ job.state = NoJob /\ job.request = CHOOSE r \in Requests : TRUE
                        /\ \A c \in Clients : client[c].request = job.request
    /\ part # "loop" => failure = [s \in Loop!Src |-> Loop!NoFailure]
    /\ part # "waits" => due = [i \in Waits!Index |-> {}]

Jobs(A) == part = "jobs" /\ A /\ UNCHANGED <<part, loopVars, waitVars>>
Looped(A) == part = "loop" /\ A /\ UNCHANGED <<part, vars, waitVars>>
Waited(A) == part = "waits" /\ A /\ UNCHANGED <<part, vars, loopVars>>

PartsNext == Jobs(Next) \/ Looped(Loop!Next) \/ Waited(Waits!Next)

\* The fairness of each part's FairSpec.
FairParts ==
    /\ WF_all(Jobs(Elapse)) /\ WF_all(Jobs(\E w \in Workers : Select(w)))
    /\ SF_all(Jobs(\E w \in Workers : CommitClaim(w)))
    /\ \A w \in Workers :
         WF_all(Jobs(Decide(w) \/ Commit(w) \/ Conflict(w) \/ Abandon(w)))
    /\ WF_all(Looped(Loop!Pass)) /\ WF_all(Looped(Loop!Elapse))
    /\ WF_all(Waited(Waits!Tick)) /\ WF_all(Waited(Waits!Elapse))

PartsSpec == PartsInit /\ [][PartsNext]_all /\ FairParts

\* A definite fault that persists is tried again no sooner than the doubling
\* schedule allows, whether the rotation or the backstop runs the source
\* (CoordinatorFailures._write).
BacksOff == Loop!TypeOK /\ Loop!BacksOff

\* No row has a second turn in a pass, no pass exceeds its batch, and a source a
\* pass is done with has given a turn to each of its rows that was due
\* throughout the pass (DueWaitBackstop.tick).
FairPass == Waits!FairPass

\* Nothing waits for ever on the others: the job of a worker that died is
\* claimed again (JobService.claim), every source has its turn although others
\* always progress or always fail (Worker.run_once), and a row that stays due is
\* handled again and again (DueWaitBackstop.tick).  Each is asked of the
\* behaviours that move its part, which no step changes.
NobodyStarves ==
    /\ []<>(part # "jobs") \/ LapsedIsClaimedAgain
    /\ []<>(part # "loop") \/ Loop!NoSourceStarves
    /\ []<>(part # "waits") \/ Waits!NoRowStarves
=============================================================================
