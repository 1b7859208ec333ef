-------------------------- MODULE PackageActivation --------------------------
(***************************************************************************)
(* How one Spark replaces its own agent package: the privileged helper     *)
(* arms a rollback transaction and runs dpkg, the pre-install script       *)
(* leaves an intent that a recovery unit finishes, the controller confirms *)
(* the running candidate, and a watchdog restores the captured source when *)
(* that confirmation does not come (rust/crates/vonk-agent-helper/src/     *)
(* package_rollback, operations/packages.rs, packaging/debian/preinst).    *)
(*                                                                         *)
(* The helper, the recovery unit, the watchdog and the agent are processes *)
(* of their own; power may fail between any two steps.  A build is a       *)
(* number, a newer one is larger.  The package is two files, the agent and *)
(* the helper, and dpkg replaces one after the other.                      *)
(***************************************************************************)
EXTENDS Integers, FiniteSets

CONSTANTS
    Requests,   \* 1 .. n: the signed install requests, in their order
    Source,     \* [Requests -> builds]: the captured source of a request
    Candidate,  \* [Requests -> builds]: the build it installs
    PrepareFaults,  \* may a command of prepare fail once the watchdog is stopped
    DEADLINE,   \* activation_deadline, in clock steps from the arming
    RETRY,      \* ROLLBACK_RETRY_TIMEOUT
    MaxFaults   \* bound on power failures and failing commands

Builds == {Source[i] : i \in Requests} \cup {Candidate[i] : i \in Requests}

\* What the values of the constants must satisfy.
Assumed ==
    /\ Cardinality(Requests) \in Nat \ {0} /\ Requests = 1 .. Cardinality(Requests)
    /\ \A i \in Requests : Source[i] \in Nat /\ Candidate[i] \in Nat
    /\ \A i \in Requests : Source[i] # Candidate[i]
    /\ PrepareFaults \in BOOLEAN
    /\ {DEADLINE, RETRY} \subseteq Nat \ {0} /\ MaxFaults \in Nat

Down == -1      \* no agent process, no captured source
Phases == {"armed", "activation_failed", "acknowledged", "rolling_back",
           "rolled_back", "rollback_failed"}
Final == {"acknowledged", "rolled_back"}

VARIABLES
    tx,       \* transaction.json: request, phase, steps to deadline and to its retry end
    receipt,  \* package-activation.receipt.json: request and phase
    custody,  \* the build of source.deb in the transaction directory
    disk,     \* the installed files: agent and helper
    agent,    \* the build of the agent process
    inst,     \* the helper's install: where it is and for which request
    intent,   \* the request of the durable upgrade intent, 0: none
    blocker,  \* does agent-blocked keep the agent from starting
    rec,      \* the recovery unit
    dog,      \* the rollback watchdog
    grant,    \* the request whose confirmation grant the agent holds, 0: none
    up,       \* is the Spark powered
    faults    \* faults so far

vars == <<tx, receipt, custody, disk, agent, inst, intent, blocker, rec, dog,
          grant, up, faults>>

Files(b) == [agent |-> b, helper |-> b]
Idle == [pc |-> "idle", req |-> 0]
None == [req |-> 0, phase |-> "acknowledged", deadline |-> 0, budget |-> 0]

\* The journals name requests and phases, every process is at one of its
\* steps, and the counters stay within their bounds.
TypeOK ==
    /\ tx \in [req : Requests \cup {0}, phase : Phases,
               deadline : 0 .. DEADLINE, budget : 0 .. DEADLINE + RETRY]
    /\ receipt \in [req : Requests \cup {0}, phase : Phases]
    /\ custody \in Builds \cup {Down}
    /\ disk \in [agent : Builds, helper : Builds]
    /\ agent \in Builds \cup {Down}
    /\ inst \in [pc : {"idle", "verified", "fenced", "copied", "armed", "dpkg", "half"},
                 req : Requests \cup {0}]
    /\ intent \in Requests \cup {0}
    /\ blocker \in BOOLEAN
    /\ rec \in {"off", "wait", "stopped", "half", "installed", "released"}
    /\ dog \in {"off", "watch", "restore", "checked", "stopped", "half", "installed"}
    /\ grant \in Requests \cup {0}
    /\ up \in BOOLEAN
    /\ faults \in 0 .. MaxFaults

Init ==
    /\ tx = None
    /\ receipt = [req |-> 0, phase |-> "acknowledged"]
    /\ custody = Down
    /\ disk = Files(Source[1])
    /\ agent = Source[1]
    /\ inst = Idle
    /\ intent = 0
    /\ blocker = FALSE
    /\ rec = "off"
    /\ dog = "off"
    /\ grant = 0
    /\ up = TRUE
    /\ faults = 0

(***************************************************************************)
(* The transaction directory.  Its flock is held by the watchdog while it  *)
(* restores and by prepare while it replaces the custody.  A write         *)
(* publishes the transaction first and the receipt second, and power may   *)
(* fail between the two.                                                   *)
(***************************************************************************)
Restoring == dog \in {"restore", "checked", "stopped", "half", "installed"}
LockFree == ~Restoring /\ inst.pc # "copied"

Fault == faults < MaxFaults /\ faults' = faults + 1

PowerLost ==
    /\ up' = FALSE
    /\ inst' = Idle
    /\ rec' = "off"
    /\ dog' = "off"
    /\ agent' = Down
    /\ grant' = 0

\* Store.write of t, and then the rest of the step unless power failed.
Written(t, Rest) ==
    /\ tx' = t
    /\ \/ /\ receipt' = [req |-> t.req, phase |-> t.phase]
          /\ UNCHANGED <<up, faults>>
          /\ Rest
       \/ /\ UNCHANGED receipt
          /\ Fault
          /\ PowerLost

InPhase(phase) == [tx EXCEPT !.phase = phase]

(***************************************************************************)
(* The helper's install (install_package, Store::prepare).                 *)
(***************************************************************************)
\* A request was planned from the build the agent runs; one install at a
\* time; both packages are verified before anything is touched.
Verified(i) ==
    /\ up /\ inst = Idle /\ tx.req < i
    /\ agent = Source[i]
    /\ inst' = [pc |-> "verified", req |-> i]
    /\ UNCHANGED <<tx, receipt, custody, disk, agent, intent, blocker, rec, dog, grant,
                   up, faults>>

\* The previous watchdog is stopped, wherever it is.
Fenced ==
    /\ inst.pc = "verified"
    /\ inst' = [inst EXCEPT !.pc = "fenced"]
    /\ dog' = "off"
    /\ UNCHANGED <<tx, receipt, custody, disk, agent, intent, blocker, rec, grant, up, faults>>

Copied ==
    /\ inst.pc = "fenced" /\ LockFree
    /\ custody' = Source[inst.req]
    /\ inst' = [inst EXCEPT !.pc = "copied"]
    /\ UNCHANGED <<tx, receipt, disk, agent, intent, blocker, rec, dog, grant, up, faults>>

Armed ==
    /\ inst.pc = "copied"
    /\ Written([req |-> inst.req, phase |-> "armed", deadline |-> DEADLINE,
                budget |-> DEADLINE + RETRY],
               /\ inst' = [inst EXCEPT !.pc = "armed"]
               /\ UNCHANGED <<agent, rec, dog, grant>>)
    /\ UNCHANGED <<custody, disk, intent, blocker>>

\* A step of prepare fails: the install is refused.
PrepareFails ==
    /\ PrepareFaults /\ inst.pc \in {"fenced", "copied", "armed"}
    /\ Fault
    /\ inst' = Idle
    /\ UNCHANGED <<tx, receipt, custody, disk, agent, intent, blocker, rec, dog, grant, up>>

\* The watchdog is started, and dpkg runs the pre-install script.  It leaves
\* an intent, unless there is one already (one for the same package has its
\* recovery unit started) or leaving it fails.
InstallStarts ==
    /\ inst.pc = "armed"
    /\ inst' = [inst EXCEPT !.pc = "dpkg"]
    /\ dog' = "watch"
    /\ \/ /\ intent = 0
          /\ intent' = inst.req
          /\ blocker' = TRUE
          /\ rec' = "wait"
       \/ /\ rec' = IF intent # 0 /\ Candidate[intent] = Candidate[inst.req] /\ rec = "off"
                   THEN "wait" ELSE rec
          /\ UNCHANGED <<intent, blocker>>
    /\ UNCHANGED <<tx, receipt, custody, disk, agent, grant, up, faults>>

AgentReplaced ==
    /\ inst.pc = "dpkg"
    /\ disk' = [disk EXCEPT !.agent = Candidate[inst.req]]
    /\ inst' = [inst EXCEPT !.pc = "half"]
    /\ UNCHANGED <<tx, receipt, custody, agent, intent, blocker, rec, dog, grant, up, faults>>

\* dpkg is done.  Without an intent its finisher restarts the services.
HelperReplaced ==
    /\ inst.pc = "half"
    /\ disk' = [disk EXCEPT !.helper = Candidate[inst.req]]
    /\ agent' = IF intent = 0 THEN Candidate[inst.req] ELSE agent
    /\ inst' = Idle
    /\ UNCHANGED <<tx, receipt, custody, intent, blocker, rec, dog, grant, up, faults>>

\* dpkg fails; activation_failed, which gives up when the lock is held and is
\* not called when dpkg could not be run to its end.
InstallFails ==
    /\ inst.pc \in {"dpkg", "half"}
    /\ Fault
    /\ inst' = Idle
    /\ \/ /\ tx.phase = "armed" /\ LockFree
          /\ tx' = InPhase("activation_failed")
          /\ receipt' = [receipt EXCEPT !.phase = "activation_failed"]
       \/ UNCHANGED <<tx, receipt>>
    /\ UNCHANGED <<custody, disk, agent, intent, blocker, rec, dog, grant, up>>

(***************************************************************************)
(* The recovery unit (preinst recover).                                    *)
(***************************************************************************)
StopServices == agent' = Down /\ inst' = Idle /\ grant' = 0

DpkgOfIntent == inst.pc \in {"dpkg", "half"} /\ inst.req = intent

\* It waits for the dpkg that left the intent, then stops both services.
RecoveryStops ==
    /\ rec = "wait" /\ intent # 0
    /\ ~DpkgOfIntent
    /\ rec' = "stopped"
    /\ StopServices
    /\ UNCHANGED <<tx, receipt, custody, disk, intent, blocker, dog, up, faults>>

\* abandon_intent: a newer package is installed.
RecoveryAbandons ==
    /\ rec = "stopped" /\ disk.helper > Candidate[intent]
    /\ intent' = 0
    /\ blocker' = FALSE
    /\ agent' = disk.agent
    /\ rec' = "off"
    /\ UNCHANGED <<tx, receipt, custody, disk, inst, dog, grant, up, faults>>

RecoveryReplacesAgent ==
    /\ rec = "stopped" /\ disk.helper <= Candidate[intent]
    /\ disk' = [disk EXCEPT !.agent = Candidate[intent]]
    /\ rec' = "half"
    /\ UNCHANGED <<tx, receipt, custody, agent, inst, intent, blocker, dog, grant, up, faults>>

RecoveryReplacesHelper ==
    /\ rec = "half"
    /\ disk' = [disk EXCEPT !.helper = Candidate[intent]]
    /\ rec' = "installed"
    /\ UNCHANGED <<tx, receipt, custody, agent, inst, intent, blocker, dog, grant, up, faults>>

\* The helper is proved, the gates are retired and the agent is restarted.
RecoveryReleases ==
    /\ rec = "installed"
    /\ disk = Files(Candidate[intent])
    /\ blocker' = FALSE
    /\ agent' = disk.agent
    /\ rec' = "released"
    /\ UNCHANGED <<tx, receipt, custody, disk, inst, intent, dog, grant, up, faults>>

RecoveryRetires ==
    /\ rec = "released"
    /\ agent = Candidate[intent]
    /\ intent' = 0
    /\ rec' = "off"
    /\ UNCHANGED <<tx, receipt, custody, disk, agent, inst, blocker, dog, grant, up, faults>>

\* temporary_failure: systemd starts it again.
RecoveryFails ==
    /\ rec \in {"stopped", "half", "installed", "released"}
    /\ Fault
    /\ rec' = "wait"
    /\ UNCHANGED <<tx, receipt, custody, disk, agent, inst, intent, blocker, dog, grant, up>>

(***************************************************************************)
(* The confirmation: the agent that runs the armed candidate asks the      *)
(* controller for a grant and hands it to the helper.                      *)
(***************************************************************************)
\* package_activation::acknowledge, up to the controller's grant.  The
\* controller refuses one it no longer has an order for: no step.
Granted ==
    /\ up /\ grant = 0 /\ receipt.req # 0
    /\ receipt.phase = "armed" /\ agent = Candidate[receipt.req]
    /\ grant' = receipt.req
    /\ UNCHANGED <<tx, receipt, custody, disk, agent, inst, intent, blocker, rec, dog, up, faults>>

check_acknowledgement ==
    /\ tx.req = grant /\ tx.phase \in {"armed", "acknowledged"} /\ tx.deadline > 0
    /\ disk = Files(Candidate[tx.req])

\* Store::acknowledge.
Acknowledged ==
    /\ grant # 0 /\ LockFree /\ check_acknowledgement
    /\ Written(InPhase("acknowledged"),
               grant' = 0 /\ UNCHANGED <<agent, inst, rec, dog>>)
    /\ UNCHANGED <<custody, disk, intent, blocker>>

\* The helper refuses, or the grant expires on the way.
GrantLost ==
    /\ grant # 0
    /\ grant' = 0
    /\ UNCHANGED <<tx, receipt, custody, disk, agent, inst, intent, blocker, rec, dog, up, faults>>

(***************************************************************************)
(* The watchdog (Store::watch, Store::restore).                            *)
(***************************************************************************)
\* It waits while the candidate may still be confirmed.
WatchEnds ==
    /\ dog = "watch" /\ LockFree /\ tx.phase \in Final
    /\ dog' = "off"
    /\ UNCHANGED <<tx, receipt, custody, disk, agent, inst, intent, blocker, rec, grant, up, faults>>

Overdue == tx.phase \notin Final /\ ~(tx.phase = "armed" /\ tx.deadline > 0)

RollbackStarts ==
    /\ dog = "watch" /\ LockFree /\ Overdue /\ tx.budget > 0
    /\ Written(InPhase("rolling_back"),
               dog' = "restore" /\ UNCHANGED <<agent, inst, rec, grant>>)
    /\ UNCHANGED <<custody, disk, intent, blocker>>

\* The time to restore is over: only what is there is recorded.
Restored == disk = Files(Source[tx.req]) /\ agent = Source[tx.req]

RollbackExpires ==
    /\ dog = "watch" /\ LockFree /\ Overdue /\ tx.budget = 0
    /\ Written(InPhase(IF Restored THEN "rolled_back" ELSE "rollback_failed"),
               dog' = "off" /\ UNCHANGED <<agent, inst, rec, grant>>)
    /\ UNCHANGED <<custody, disk, intent, blocker>>

\* The captured source is intact and no third build is installed.
RestoreAllowed ==
    /\ custody = Source[tx.req]
    /\ {disk.agent, disk.helper} \subseteq {Source[tx.req], Candidate[tx.req]}

RestoreChecks ==
    /\ dog = "restore" /\ RestoreAllowed
    /\ dog' = "checked"
    /\ UNCHANGED <<tx, receipt, custody, disk, agent, inst, intent, blocker, rec, grant, up, faults>>

\* The recovery unit and both services are stopped, and the candidate's own
\* intent is retired.
RestoreStops ==
    /\ dog = "checked"
    /\ dog' = "stopped"
    /\ rec' = "off"
    /\ StopServices
    /\ IF intent # 0 /\ Candidate[intent] = Candidate[tx.req]
       THEN intent' = 0 /\ blocker' = FALSE
       ELSE UNCHANGED <<intent, blocker>>
    /\ UNCHANGED <<tx, receipt, custody, disk, up, faults>>

RestoreReplacesAgent ==
    /\ dog = "stopped"
    /\ disk' = [disk EXCEPT !.agent = custody]
    /\ dog' = "half"
    /\ UNCHANGED <<tx, receipt, custody, agent, inst, intent, blocker, rec, grant, up, faults>>

RestoreReplacesHelper ==
    /\ dog = "half"
    /\ disk' = [disk EXCEPT !.helper = custody]
    /\ dog' = "installed"
    /\ UNCHANGED <<tx, receipt, custody, agent, inst, intent, blocker, rec, grant, up, faults>>

\* Bug: the agent may start while an upgrade is being recovered.
Bug_AllowAgentStart == TRUE

\* allow_agent_start.
AllowAgentStart ==
    intent # 0 => ~blocker /\ disk = Files(Candidate[intent])

\* The socket is restarted, which starts a recovery that is still wanted.
SocketRestarts == rec' = IF intent # 0 THEN "wait" ELSE rec

RestoreProves ==
    /\ dog = "installed" /\ disk = Files(Source[tx.req]) /\ AllowAgentStart
    /\ Written(InPhase("rolled_back"),
               /\ agent' = disk.agent
               /\ dog' = "off"
               /\ SocketRestarts
               /\ UNCHANGED <<inst, grant>>)
    /\ UNCHANGED <<custody, disk, intent, blocker>>

\* A restore that is refused is tried again until its time is over; then it
\* is a failure, and systemd starts the watchdog again.
RestoreRefused ==
    /\ dog = "restore" /\ ~RestoreAllowed /\ tx.budget = 0
    /\ Written(InPhase("rollback_failed"),
               dog' = "watch" /\ UNCHANGED <<agent, inst, rec, grant>>)
    /\ UNCHANGED <<custody, disk, intent, blocker>>

\* One that fails is tried again.
RestoreFails ==
    /\ dog \in {"stopped", "half", "installed"} /\ tx.budget > 0
    /\ Fault
    /\ dog' = "restore"
    /\ UNCHANGED <<tx, receipt, custody, disk, agent, inst, intent, blocker, rec, grant, up>>

(***************************************************************************)
(* Power and time.                                                         *)
(***************************************************************************)
PowerFails ==
    /\ up /\ Fault
    /\ PowerLost
    /\ UNCHANGED <<tx, receipt, custody, disk, intent, blocker>>

\* Bug: the watchdog's unit is not enabled at boot.
Bug_Boots ==
    /\ ~up
    /\ up' = TRUE
    /\ dog' = "off"
    /\ rec' = IF intent # 0 THEN "wait" ELSE "off"
    /\ agent' = IF AllowAgentStart THEN disk.agent ELSE Down
    /\ UNCHANGED <<tx, receipt, custody, disk, inst, intent, blocker, grant, faults>>

\* Both units are enabled: they start at boot when their journals are there.
Boots ==
    /\ ~up
    /\ up' = TRUE
    /\ dog' = IF tx.req # 0 THEN "watch" ELSE "off"
    /\ rec' = IF intent # 0 THEN "wait" ELSE "off"
    /\ agent' = IF AllowAgentStart THEN disk.agent ELSE Down
    /\ UNCHANGED <<tx, receipt, custody, disk, inst, intent, blocker, grant, faults>>

\* A clock step stands for minutes.  The watchdog looks every second and the
\* recovery unit ten times a second, and dpkg is killed after 180 seconds, so
\* none of them outlasts the time to restore.
Prompt ==
    /\ ~(dog = "watch" /\ LockFree /\ Overdue)
    /\ ~(rec = "wait" /\ ~DpkgOfIntent)
    /\ inst.pc \in {"armed", "dpkg", "half"} => tx.budget > 1

ClockTicks ==
    /\ tx.budget > 0 /\ Prompt
    /\ tx' = [tx EXCEPT !.deadline = IF @ > 0 THEN @ - 1 ELSE 0, !.budget = @ - 1]
    /\ UNCHANGED <<receipt, custody, disk, agent, inst, intent, blocker, rec, dog, grant,
                   up, faults>>

Install ==
    \/ \E i \in Requests : Verified(i)
    \/ Fenced \/ Copied \/ Armed \/ PrepareFails
    \/ InstallStarts \/ AgentReplaced \/ HelperReplaced \/ InstallFails

Recovery ==
    \/ RecoveryStops \/ RecoveryAbandons \/ RecoveryReplacesAgent
    \/ RecoveryReplacesHelper \/ RecoveryReleases \/ RecoveryRetires \/ RecoveryFails

Confirmation == Granted \/ Acknowledged \/ GrantLost

Watchdog ==
    \/ WatchEnds \/ RollbackStarts \/ RollbackExpires
    \/ RestoreChecks \/ RestoreStops \/ RestoreReplacesAgent
    \/ RestoreReplacesHelper \/ RestoreProves \/ RestoreRefused
    \/ RestoreFails

Next == Install \/ Recovery \/ Confirmation \/ Watchdog \/ PowerFails \/ Boots \/ ClockTicks

Spec == Init /\ [][Next]_vars

\* Processes run on, a unit that is enabled starts, and time passes.  The
\* controller need not confirm and nothing asks for an install.
InstallGoesOn ==
    Fenced \/ Copied \/ Armed \/ InstallStarts \/ AgentReplaced \/ HelperReplaced

Fairness ==
    /\ WF_vars(InstallGoesOn)
    /\ WF_vars(Recovery)
    /\ WF_vars(Watchdog)
    /\ WF_vars(Boots)
    /\ WF_vars(ClockTicks)

FairSpec == Spec /\ Fairness

(***************************************************************************)
(* Properties.                                                             *)
(***************************************************************************)
\* What a settled transaction says is what is installed: the candidate once
\* it is acknowledged, the captured source once it is rolled back.  No
\* recovery unit, dpkg or watchdog that was still under way changes it.
SettledIsInstalled ==
    tx.req # 0 =>
       /\ tx.phase = "acknowledged" => disk = Files(Candidate[tx.req])
       /\ tx.phase = "rolled_back" => disk = Files(Source[tx.req])

\* The watchdog installs nothing but the source its own transaction captured,
\* although a later install may have replaced the retained package since.
RestoresItsSource ==
    [][(dog \in {"stopped", "half"} /\ disk' # disk) =>
          /\ disk'.agent \in {disk.agent, Source[tx.req]}
          /\ disk'.helper \in {disk.helper, Source[tx.req]}]_vars

\* Every transaction ends: acknowledged, restored, or recorded as a failed
\* restoration, and the Spark is left with a running agent unless the
\* restoration failed.
ActivationConcludes ==
    \A i \in Requests :
       (tx.req = i) ~> (tx.req # i \/ tx.phase = "rollback_failed"
                          \/ (tx.phase \in Final /\ agent # Down))
=============================================================================
