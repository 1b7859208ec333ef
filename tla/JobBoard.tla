------------------------------ MODULE JobBoard ------------------------------
(***************************************************************************)
(* What jobs.JobService promises its callers and its workers: one job per  *)
(* request key, given to one worker at a time, and ended once, by the      *)
(* worker that holds it.  There are no versions, locks, attempt rows or    *)
(* second decisions here: every call is one step.  DurableJobs is shown to *)
(* implement this.                                                         *)
(***************************************************************************)
EXTENDS Naturals

CONSTANTS Workers, Clients, Requests

Nobody == "nobody"
Outcomes == {"succeeded", "failed"}

VARIABLES
    job,     \* absent, parked, waiting, held, or its outcome
    request, \* what the job is for
    holder,  \* the worker the job was last given to
    fence,   \* how often it was given out
    record,  \* the outcome recorded under the newest fence
    live,    \* whether the holder's time still runs
    wants,   \* what each caller asks for under the key
    answer,  \* what each caller was told
    valid    \* whether the evidence behind a guarded request still holds

vars == <<job, request, holder, fence, record, live, wants, answer, valid>>

Init ==
    /\ job \in {"absent", "parked"} /\ request \in Requests
    /\ holder = Nobody /\ fence = 0 /\ record = "none" /\ live = FALSE
    /\ wants \in [Clients -> Requests]
    /\ answer = [c \in Clients |-> "none"]
    /\ valid = TRUE

Told(c, word) == answer[c] = "none" /\ answer' = [answer EXCEPT ![c] = word]

\* The first request under the key is stored; every later one is compared.
Submit(c) ==
    /\ \/ /\ job = "absent" /\ valid
          /\ Told(c, "accepted")
          /\ job' = "waiting" /\ request' = wants[c]
       \/ /\ job # "absent"
          /\ Told(c, IF wants[c] = request THEN "accepted" ELSE "conflict")
          /\ UNCHANGED <<job, request>>
       \/ /\ job = "absent" /\ ~valid
          /\ Told(c, "superseded")
          /\ UNCHANGED <<job, request>>
    /\ UNCHANGED <<holder, fence, record, live, wants, valid>>

Invalidate ==
    /\ valid /\ valid' = FALSE
    /\ UNCHANGED <<job, request, holder, fence, record, live, wants, answer>>

Release ==
    /\ job = "parked" /\ job' = "waiting"
    /\ UNCHANGED <<request, holder, fence, record, live, wants, answer, valid>>

\* A job is given out when it waits, or again when its holder let it lapse.
Take(w) ==
    /\ job = "waiting" \/ (job = "held" /\ ~live)
    /\ job' = "held" /\ holder' = w /\ fence' = fence + 1 /\ live' = TRUE
    /\ UNCHANGED <<request, record, wants, answer, valid>>

\* Until it is given to another, the holder may renew it and may end it.
Renew(w) ==
    /\ job = "held" /\ holder = w
    /\ live' = TRUE
    /\ UNCHANGED <<job, request, holder, fence, record, wants, answer, valid>>

Finish(w, outcome) ==
    /\ job = "held" /\ holder = w
    /\ job' = outcome /\ record' = outcome /\ live' = FALSE
    /\ UNCHANGED <<request, holder, fence, wants, answer, valid>>

Lapse ==
    /\ job = "held" /\ live /\ live' = FALSE
    /\ UNCHANGED <<job, request, holder, fence, record, wants, answer, valid>>

Next ==
    \/ Invalidate \/ Release \/ Lapse
    \/ \E c \in Clients : Submit(c)
    \/ \E w \in Workers : Take(w) \/ Renew(w) \/ \E o \in Outcomes : Finish(w, o)

Spec == Init /\ [][Next]_vars
=============================================================================
