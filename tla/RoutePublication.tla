--------------------------- MODULE RoutePublication ---------------------------
(***************************************************************************)
(* The publication of recipe routes to the LiteLLM gateway: the claim,     *)
(* effect and completion of recipe_routes/service.py and withdrawal.py,    *)
(* the file lock and the activation marker of recipe_routes/publisher.py   *)
(* and route_runtime.py, the worker that publishes and maintains, the Stop *)
(* that withdraws before it dispatches, and the supervisor that runs       *)
(* LiteLLM with the live bundle and acknowledges it.                       *)
(*                                                                         *)
(* A claim is made in a transaction under the owner row and replaces the   *)
(* claim in flight; the marker is replaced under a file lock with no       *)
(* transaction open; the result is recorded in a second transaction, only  *)
(* while the claim is still current.  A bundle is the set of runs it       *)
(* lists.  Claim ordinals and generations only serve to tell a claim or a  *)
(* marker from its successors, so the model keeps who owns the claim and   *)
(* which records still name the live marker.                               *)
(***************************************************************************)
EXTENDS Naturals, FiniteSets

CONSTANTS
    Runs,        \* recipe runs
    MayEnd,      \* runs that can end by another way than a Stop
    MayStop,     \* runs an operator may stop
    MayFail,     \* runs with a rank that can fail
    Fresh,       \* whether no publication was ever recorded
    MaxFaults    \* bound on deaths, lost acknowledgements, failed
                 \* writes, failed ranks, ended runs and
                 \* publications outrun

ASSUME RouteAssumption == /\ MayEnd \cup MayStop \cup MayFail \subseteq Runs
                          /\ Fresh \in BOOLEAN /\ MaxFaults \in Nat

Publishers == {"worker", "api"}

VARIABLES
    run,      \* RecipeRun.state: running, stopping, ended
    route,    \* RecipeRun.route_state
    accepted, \* runs with a route_generation
    why,      \* RecipeRun.route_error of a withdrawn run: none, stop, health
    rank,     \* whether every rank runs or one stopped
    stop,     \* the Stop of a run: none, accepted, dispatched, dropped
    listed,   \* the pending runs the worker read
    op,       \* the publication a publisher executes
    claim,    \* the publisher of the pending claim; dead when it died
    pub,      \* the RoutePublication row: state and plan digest
    same,     \* whether that row names the live marker
    live,     \* the bundle of the activation marker
    marked,   \* whether a marker was ever written
    sup,      \* the supervisor's child: bundle, marker it was read from, health
    ack,      \* the marker of the acknowledgement file: none, live, old
    faults

runvars == <<run, route, accepted, why, rank, stop>>
gateway == <<live, marked, sup, ack>>
record == <<pub, same>>
vars == <<runvars, listed, op, claim, record, gateway, faults>>

NoOp == [at |-> "idle", kind |-> "none", cand |-> {}, excl |-> {}, for |-> {},
         why |-> "none", mine |-> FALSE]

TypeOK ==
    /\ run \in [Runs -> {"running", "stopping", "ended"}]
    /\ route \in [Runs -> {"pending", "published", "withdrawn", "failed"}]
    /\ accepted \subseteq Runs
    /\ why \in [Runs -> {"none", "stop", "health"}]
    /\ rank \in [Runs -> {"up", "down"}]
    /\ stop \in [Runs -> {"none", "accepted", "dispatched", "dropped"}]
    /\ listed \subseteq Runs
    /\ op \in [Publishers ->
                [at : {"idle", "claimed", "locked", "activated", "acked",
                       "superseded", "withdrawn"},
                 kind : {"none", "publish", "withdraw", "refresh"},
                 cand : SUBSET Runs, excl : SUBSET Runs, for : SUBSET Runs,
                 why : {"none", "stop", "health"}, mine : BOOLEAN]]
    /\ claim \in Publishers \cup {"none", "dead"}
    /\ pub \in [state : {"none", "completed", "routes_withdrawn",
                         "withdrawal_pending"}, digest : SUBSET Runs]
    /\ same \in BOOLEAN /\ live \subseteq Runs /\ marked \in BOOLEAN
    /\ sup \in [cfg : SUBSET Runs, req : {"none", "live", "old"}, up : BOOLEAN]
    /\ ack \in {"none", "live", "old"} /\ faults \in 0..MaxFaults

\* Every run was just started.  Either nothing was ever published and LiteLLM
\* runs its bootstrap configuration, or every earlier route was withdrawn.
Init ==
    /\ run = [r \in Runs |-> "running"] /\ route = [r \in Runs |-> "pending"]
    /\ accepted = {} /\ why = [r \in Runs |-> "none"]
    /\ rank = [r \in Runs |-> "up"] /\ stop = [r \in Runs |-> "none"]
    /\ listed = {} /\ op = [p \in Publishers |-> NoOp] /\ claim = "none"
    /\ pub = [state |-> IF Fresh THEN "none" ELSE "routes_withdrawn", digest |-> {}]
    /\ same = ~Fresh /\ live = {} /\ marked = ~Fresh
    /\ sup = [cfg |-> {}, req |-> IF Fresh THEN "none" ELSE "live", up |-> TRUE]
    /\ ack = (IF Fresh THEN "none" ELSE "live") /\ faults = 0

-----------------------------------------------------------------------------
(* Candidates *)

\* _candidate_once: the running runs with an accepted route, and the run that
\* is to be published.
Included(include) ==
    {r \in Runs : /\ run[r] = "running"
                  /\ \/ route[r] = "published" \/ r \in include
                     \/ route[r] = "failed" /\ r \in accepted}
RankStopped(cand) == {r \in cand : rank[r] = "down"}

\* prepare_withdrawal_in_session: runs with a stopped rank are excluded too.
Without(excl) == Included({}) \ (excl \cup RankStopped(Included({})))
Excluded(excl) == excl \cup RankStopped(Included({}) \ excl)

\* withdrawal_complete_in_session: the completed publication is still the live
\* marker and is the one a candidate without the runs would produce.
withdrawal_complete(rs) ==
    IF pub.state = "none" THEN \A r \in rs : route[r] # "published"
    ELSE /\ pub.state \in {"completed", "routes_withdrawn"}
         /\ pub.digest = Without(rs) /\ same

-----------------------------------------------------------------------------
(* Claim *)

\* _claim_in_session: the claim replaces the one in flight.
Claim(p, kind, cand, excl, for, reason) ==
    /\ claim' = p
    /\ op' = [op EXCEPT ![p] = [at |-> "claimed", kind |-> kind, cand |-> cand,
                excl |-> excl, for |-> for, why |-> reason, mine |-> FALSE]]

\* _withdrawal_publication: the intent is durable with the claim.
ClaimWithdrawal(p, excl, for, reason) ==
    /\ Claim(p, "withdraw", Without(excl), Excluded(excl), for, reason)
    /\ route' = [r \in Runs |-> IF r \in Excluded(excl) THEN "withdrawn" ELSE route[r]]
    /\ why' = [r \in Runs |-> IF r \in for /\ run[r] = "running" /\ reason # "none"
                              THEN reason ELSE why[r]]

\* _publish_routes reads the pending runs, _publish_runs claims one of them in
\* a later transaction, whatever its route state is by then.
ListPending ==
    /\ op["worker"].at = "idle" /\ listed = {}
    /\ listed' = {r \in Runs : run[r] = "running" /\ route[r] = "pending"}
    /\ listed' # {}
    /\ UNCHANGED <<runvars, op, claim, record, gateway, faults>>

\* _defer_publication: a pending run stays pending or ends the observation.
Deferred(r) ==
    \/ UNCHANGED route
    \/ /\ route[r] = "pending"
       /\ route' = [route EXCEPT ![r] = "failed"]

_claim_run(r) ==
    /\ op["worker"].at = "idle" /\ r \in listed
    /\ LET cand == Included({r}) IN
       IF run[r] = "running" /\ RankStopped(cand) = {}
       THEN /\ Claim("worker", "publish", cand, {}, {r}, "none")
            /\ UNCHANGED <<route, listed>>
       ELSE /\ IF run[r] = "running" THEN Deferred(r) ELSE UNCHANGED route
            /\ listed' = listed \ {r} /\ UNCHANGED <<op, claim>>
    /\ UNCHANGED <<run, accepted, why, rank, stop, record, gateway, faults>>

\* _maintenance_step_in_session: one decision of the maintenance pass.
Abandoned == {r \in Runs : /\ run[r] = "running" /\ route[r] = "withdrawn"
                           /\ why[r] = "stop" /\ stop[r] # "accepted"}
Recovering == {r \in Runs : /\ run[r] = "running" /\ route[r] = "withdrawn"
                            /\ why[r] = "health"}
Served == {r \in Runs : route[r] \in {"published", "failed"}}

\* _restore_abandoned_stop_withdrawals and the recovering runs.
Restore(rs) ==
    /\ route' = [r \in Runs |-> IF r \in rs THEN "pending" ELSE route[r]]
    /\ why' = [r \in Runs |-> IF r \in rs /\ why[r] = "stop" THEN "none" ELSE why[r]]
    /\ UNCHANGED <<op, claim>>

\* The live bundle is compared with what the database says is live.
\* Bug: the database is believed without a look at the marker.
Bug_durable_current == pub.state = "completed"
durable_current == pub.state = "completed" /\ same

MaintainServed ==
    LET ended == {r \in Served : run[r] # "running"}
        down == RankStopped(Included({})) IN
    CASE ended # {} -> ClaimWithdrawal("worker", ended, {}, "none")
      [] ended = {} /\ down # {} ->
            \E r \in down : ClaimWithdrawal("worker", {r}, Excluded({r}), "health")
      [] OTHER ->
            /\ ~durable_current \/ pub.digest # Included({})
            /\ Claim("worker", "refresh", Included({}), {}, {}, "none")
            /\ UNCHANGED <<route, why>>

\* _maintain_empty_routes
MaintainEmpty ==
    pub.state = "completed" /\ ClaimWithdrawal("worker", {}, {}, "none")

maintain ==
    /\ op["worker"].at = "idle" /\ listed = {}
    /\ CASE Abandoned # {} -> Restore(Abandoned)
         [] Abandoned = {} /\ pub.state = "withdrawal_pending" ->
               ClaimWithdrawal("worker", {}, {}, "none")
         [] Abandoned = {} /\ pub.state # "withdrawal_pending"
              /\ Recovering # {} -> Restore(Recovering)
         [] OTHER -> IF Served = {} THEN MaintainEmpty ELSE MaintainServed
    /\ UNCHANGED <<run, accepted, rank, stop, listed, record, gateway, faults>>

-----------------------------------------------------------------------------
(* Effect: the marker *)

FileLockFree == \A p \in Publishers : op[p].at # "locked"

\* _activate_once takes the file lock and looks at the claim under it.
\* Bug: the claim is not looked at again before the marker is replaced.
Bug_CheckClaim(p) ==
    /\ op[p].at = "claimed" /\ FileLockFree
    /\ op' = [op EXCEPT ![p].at = "locked"]
    /\ UNCHANGED <<runvars, listed, claim, record, gateway, faults>>
CheckClaim(p) ==
    /\ op[p].at = "claimed" /\ FileLockFree /\ claim = p
    /\ op' = [op EXCEPT ![p].at = "locked"]
    /\ UNCHANGED <<runvars, listed, claim, record, gateway, faults>>

\* The exact live bundle is adopted.
Adopt(p) ==
    /\ op[p].at = "locked" /\ live = op[p].cand /\ marked
    /\ op' = [op EXCEPT ![p].at = "activated", ![p].mine = TRUE]
    /\ UNCHANGED <<runvars, listed, claim, record, gateway, faults>>

\* A new generation is staged and the marker replaced.  When the directory
\* cannot be synchronized the marker is in place and the caller does not know.
Aged(marker) == IF marker = "live" THEN "old" ELSE marker
Replace(p) ==
    /\ op[p].at = "locked"
    /\ live' = op[p].cand /\ marked' = TRUE /\ same' = FALSE
    /\ sup' = [sup EXCEPT !.req = Aged(@)] /\ ack' = Aged(ack)
    /\ \E at \in {"activated", "claimed"} :
        /\ at = "claimed" => faults < MaxFaults
        /\ faults' = IF at = "claimed" THEN faults + 1 ELSE faults
        /\ op' = [q \in Publishers |->
                 IF q = p THEN [op[p] EXCEPT !.at = at, !.mine = at = "activated"]
                 ELSE [op[q] EXCEPT !.mine = FALSE]]
    /\ UNCHANGED <<runvars, listed, claim, pub>>

\* FileSupervisorAcknowledger: only the acknowledgement of the exact marker
\* counts.
Acknowledged(p) ==
    /\ op[p].at = "activated" /\ op[p].mine /\ ack = "live"
    /\ op' = [op EXCEPT ![p].at = "acked"]
    /\ UNCHANGED <<runvars, listed, claim, record, gateway, faults>>

\* A newer claim replaced this one: the worker goes on with the next run, the
\* Stop looks whether the newer publication withdrew its run.
Superseded(p) ==
    /\ op[p].at \in {"claimed", "activated", "acked"} /\ claim # p
    /\ op' = [op EXCEPT ![p] = IF p = "worker" THEN NoOp
                               ELSE [@ EXCEPT !.at = "superseded"]]
    /\ listed' = IF p = "worker" THEN listed \ op[p].for ELSE listed
    /\ UNCHANGED <<runvars, claim, record, gateway, faults>>

\* The attempts are spent without an acknowledgement: _execute marks its claim
\* failed, the worker defers the run and a request its accepted Stop.
GiveUp(p) ==
    /\ op[p].at \in {"claimed", "activated"} /\ claim = p
    /\ faults < MaxFaults /\ faults' = faults + 1
    /\ claim' = "none" /\ op' = [op EXCEPT ![p] = NoOp]
    /\ listed' = IF p = "worker" THEN listed \ op[p].for ELSE listed
    /\ IF op[p].kind = "publish" THEN \E r \in op[p].for : Deferred(r)
       ELSE UNCHANGED route
    /\ UNCHANGED <<run, accepted, why, rank, stop, record, gateway>>

-----------------------------------------------------------------------------
(* Completion *)

\* projection_in_session
Project(p, state) ==
    /\ pub' = [state |-> state, digest |-> op[p].cand] /\ same' = op[p].mine

_complete_run_publication(p) ==
    LET gone == {r \in op[p].cand : run[r] # "running"}
        done == IF op[p].for \cap gone # {} THEN {} ELSE op[p].cand \ gone IN
    /\ Project(p, IF gone = {} THEN "completed" ELSE "withdrawal_pending")
    /\ route' = [r \in Runs |-> IF r \in done THEN "published" ELSE route[r]]
    /\ why' = [r \in Runs |-> IF r \in done THEN "none" ELSE why[r]]
    /\ accepted' = accepted \cup done

_record_withdrawal(p) ==
    /\ Project(p, IF op[p].cand = {} THEN "routes_withdrawn" ELSE "completed")
    /\ route' = [r \in Runs |-> IF r \in op[p].cand THEN "published"
                                ELSE IF r \in op[p].excl THEN "withdrawn" ELSE route[r]]
    /\ why' = [r \in Runs |->
                 IF r \in op[p].for /\ run[r] = "running" /\ op[p].why # "none"
                 THEN op[p].why
                 ELSE IF r \in op[p].cand \cup op[p].excl THEN "none" ELSE why[r]]
    /\ accepted' = accepted \cup op[p].cand \cup op[p].excl

_record_refresh(p) ==
    /\ Project(p, "completed") /\ accepted' = accepted \cup op[p].cand
    /\ why' = [r \in Runs |-> IF r \in op[p].cand THEN "none" ELSE why[r]]
    /\ UNCHANGED route

\* _record_completion: the claim is still current, or nothing is recorded.
_record_completion(p) ==
    /\ op[p].at = "acked" /\ claim = p
    /\ claim' = "none"
    /\ CASE op[p].kind = "publish" -> _complete_run_publication(p)
         [] op[p].kind = "withdraw" -> _record_withdrawal(p)
         [] OTHER -> _record_refresh(p)
    /\ op' = [op EXCEPT ![p] = IF p = "worker" THEN NoOp
                               ELSE [@ EXCEPT !.at = "withdrawn"]]
    /\ listed' = IF p = "worker" THEN {} ELSE listed
    /\ UNCHANGED <<run, rank, stop, gateway, faults>>

-----------------------------------------------------------------------------
(* The Stop *)

AcceptStop(r) ==
    /\ r \in MayStop /\ run[r] = "running" /\ stop[r] = "none"
    /\ stop' = [stop EXCEPT ![r] = "accepted"]
    /\ UNCHANGED <<run, route, accepted, why, rank, listed, op, claim, record,
                   gateway, faults>>

\* withdraw_run with claim_withdrawal, also after the dispatch was sent back.
\* A Stop that was superseded waits a random time for the newer publication;
\* how often it outruns that publication is bounded with the faults.
Outruns(r) == claim = "worker" /\ route[r] = "withdrawn" /\ why[r] = "stop"
withdraw_run(r) ==
    /\ stop[r] = "accepted" /\ run[r] = "running"
    /\ \/ op["api"].at = "idle"
       \/ op["api"].at \in {"superseded", "withdrawn"} /\ r \in op["api"].for
            /\ ~withdrawal_complete({r})
    /\ Outruns(r) => faults < MaxFaults
    /\ faults' = IF Outruns(r) THEN faults + 1 ELSE faults
    /\ ClaimWithdrawal("api", {r}, {r}, "stop")
    /\ UNCHANGED <<run, accepted, rank, stop, listed, record, gateway>>

\* _withdrawn_after_backoff: a newer publication withdrew the run for us.
WithdrawnByAnother(r) ==
    /\ op["api"].at = "superseded" /\ r \in op["api"].for /\ withdrawal_complete({r})
    /\ op' = [op EXCEPT !["api"].at = "withdrawn"]
    /\ UNCHANGED <<runvars, listed, claim, record, gateway, faults>>

\* _dispatch_stop_after_withdrawal, in its own transaction under the owner row.
\* Bug: the dispatch trusts the withdrawal it made.
Bug_Dispatch(r) ==
    /\ op["api"].at \in {"superseded", "withdrawn"} /\ r \in op["api"].for
    /\ run[r] = "running" /\ stop[r] = "accepted"
    /\ run' = [run EXCEPT ![r] = "stopping"]
    /\ route' = [route EXCEPT ![r] = "withdrawn"]
    /\ stop' = [stop EXCEPT ![r] = "dispatched"] /\ op' = [op EXCEPT !["api"] = NoOp]
    /\ why' = [why EXCEPT ![r] = "none"]
    /\ UNCHANGED <<accepted, rank, listed, claim, record, gateway, faults>>
Dispatch(r) ==
    /\ op["api"].at = "withdrawn" /\ r \in op["api"].for
    /\ run[r] = "running" /\ stop[r] = "accepted" /\ withdrawal_complete({r})
    /\ run' = [run EXCEPT ![r] = "stopping"]
    /\ route' = [route EXCEPT ![r] = "withdrawn"]
    /\ stop' = [stop EXCEPT ![r] = "dispatched"] /\ op' = [op EXCEPT !["api"] = NoOp]
    /\ why' = [why EXCEPT ![r] = "none"]
    /\ UNCHANGED <<accepted, rank, listed, claim, record, gateway, faults>>

\* The request defers its accepted Stop, or the Stop is ended undispatched.
DeferStop(r) ==
    /\ op["api"].at \in {"superseded", "withdrawn"} /\ r \in op["api"].for
    /\ stop' \in {stop, [stop EXCEPT ![r] = "dropped"]}
    /\ op' = [op EXCEPT !["api"] = NoOp]
    /\ UNCHANGED <<run, route, accepted, why, rank, listed, claim, record,
                   gateway, faults>>

-----------------------------------------------------------------------------
(* Runs, supervisor and deaths *)

\* A run ends by its own account (settle_absent_run_in_session,
\* _settle_unrecoverable, a failed Start): its route is withdrawn in the
\* database only.
EndRun(r) ==
    /\ r \in MayEnd /\ run[r] = "running"
    /\ faults < MaxFaults /\ faults' = faults + 1
    /\ run' = [run EXCEPT ![r] = "ended"]
    /\ route' = [route EXCEPT ![r] = "withdrawn"] /\ why' = [why EXCEPT ![r] = "none"]
    /\ UNCHANGED <<accepted, rank, stop, listed, op, claim, record, gateway>>

RankFails(r) ==
    /\ r \in MayFail /\ run[r] = "running" /\ rank[r] = "up"
    /\ faults < MaxFaults /\ faults' = faults + 1
    /\ rank' = [rank EXCEPT ![r] = "down"]
    /\ UNCHANGED <<run, route, accepted, why, stop, listed, op, claim, record,
                   gateway>>
RankRecovers(r) ==
    /\ rank[r] = "down" /\ rank' = [rank EXCEPT ![r] = "up"]
    /\ UNCHANGED <<run, route, accepted, why, stop, listed, op, claim, record,
                   gateway, faults>>

\* _supervise: another configuration restarts the child with the bundle of the
\* marker that was read; the same one under a newer marker is acknowledged as
\* it is.
Reload ==
    /\ marked /\ (live # sup.cfg \/ sup.req = "none" \/ (~sup.up /\ sup.req = "old"))
    /\ ack' = "none" /\ sup' = [cfg |-> live, req |-> "live", up |-> FALSE]
    /\ UNCHANGED <<runvars, listed, op, claim, record, live, marked, faults>>
Healthy ==
    /\ ~sup.up /\ sup' = [sup EXCEPT !.up = TRUE] /\ ack' = sup.req
    /\ UNCHANGED <<runvars, listed, op, claim, record, live, marked, faults>>
Reacknowledge ==
    /\ marked /\ sup.up /\ live = sup.cfg /\ sup.req # "none" /\ ack # "live"
    /\ sup' = [sup EXCEPT !.req = "live"] /\ ack' = "live"
    /\ UNCHANGED <<runvars, listed, op, claim, record, live, marked, faults>>
\* The child answers no health probe for a moment.
Unhealthy ==
    /\ sup.up /\ ack # "none" /\ ack' = "none"
    /\ faults < MaxFaults /\ faults' = faults + 1
    /\ UNCHANGED <<runvars, listed, op, claim, record, live, marked, sup>>

Crash(p) ==
    /\ op[p].at # "idle" /\ faults < MaxFaults /\ faults' = faults + 1
    /\ op' = [op EXCEPT ![p] = NoOp]
    /\ claim' = IF claim = p THEN "dead" ELSE claim
    /\ listed' = IF p = "worker" THEN {} ELSE listed
    /\ UNCHANGED <<runvars, record, gateway>>

Execute(p) ==
    \/ CheckClaim(p) \/ Adopt(p) \/ Replace(p) \/ Acknowledged(p)
    \/ Superseded(p) \/ _record_completion(p)
Worker == ListPending \/ maintain \/ \E r \in Runs : _claim_run(r)
Stop(r) == withdraw_run(r) \/ WithdrawnByAnother(r) \/ Dispatch(r)
Supervise == Reload \/ Healthy \/ Reacknowledge

Next ==
    \/ Worker \/ Supervise \/ Unhealthy
    \/ \E p \in Publishers : Execute(p) \/ GiveUp(p) \/ Crash(p)
    \/ \E r \in Runs : \/ Stop(r) \/ AcceptStop(r) \/ DeferStop(r)
                       \/ EndRun(r) \/ RankFails(r) \/ RankRecovers(r)

Spec == Init /\ [][Next]_vars

\* The worker and the supervisor poll, every pass of the worker maintains after
\* it published (reconcile_routes), an accepted Stop is continued until it is
\* dispatched, and each publisher comes to its next step.
Fairness ==
    /\ WF_vars(Worker) /\ SF_vars(maintain) /\ WF_vars(Supervise)
    /\ \A p \in Publishers : WF_vars(Execute(p))
    /\ \A r \in Runs : WF_vars(Stop(r)) /\ SF_vars(Dispatch(r))
FairSpec == Spec /\ Fairness

-----------------------------------------------------------------------------
(* Properties *)

\* What a completion records as the published bundle is the bundle that is live
\* at that moment, although the marker was replaced with no transaction open
\* and other publishers claim and activate meanwhile (service.py,
\* _record_completion).
RecordedIsLive ==
    [][\A p \in Publishers : _record_completion(p) => pub'.digest = live /\ same']_vars

\* A Stop is dispatched only while neither the live bundle nor the LiteLLM child
\* lists the run, whatever competing publication ran since its withdrawal
\* (stop_dispatch.py, withdrawal_complete_in_session).
DispatchSeesRouteGone ==
    [][\A r \in Runs : stop[r] # "dispatched" /\ stop'[r] = "dispatched"
          => r \notin live /\ (sup.up => r \notin sup.cfg)]_vars

\* A dispatched Stop's run leaves the gateway for good: neither a late
\* publication, a crash between effect and completion nor a lost
\* acknowledgement leaves it listed, unless nothing is served any more: the
\* maintenance then looks at the recorded state only (withdrawal.py, maintain,
\* _maintain_empty_routes).
StoppedLeavesGateway ==
    \/ <>[](Served = {})
    \/ \A r \in MayStop : (stop[r] = "dispatched") ~> [](r \notin sup.cfg)

\* While no rank fails, a running run that no Stop claims is listed, or its
\* publication ended with its cause (_defer_publication).  (A Stop that meets a
\* run with a failed rank withdraws it too, without the reason that brings a
\* recovered run back.)
PendingIsPublished ==
    \/ <>(\E r \in Runs : rank[r] = "down")
    \/ \A r \in Runs : (run[r] = "running" /\ route[r] = "pending")
          ~> (route[r] \in {"published", "failed"} \/ stop[r] # "none"
              \/ run[r] # "running")

\* The gateway converges on the runs that should be served: a stopped one
\* leaves it and a pending one is published (reconcile_routes).
GatewayConverges == []TypeOK /\ StoppedLeavesGateway /\ PendingIsPublished
=============================================================================
