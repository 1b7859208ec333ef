------------------------ MODULE RoutePublicationProofs ------------------------
(***************************************************************************)
(* What the publication of routes keeps for any set of runs and any number *)
(* of faults: a completion records the bundle that is live, and a Stop is  *)
(* dispatched only when its run left the gateway.                          *)
(***************************************************************************)
EXTENDS RoutePublication, TLAPS

Publication == [at : {"idle", "claimed", "locked", "activated", "acked",
                      "superseded", "withdrawn"},
                kind : {"none", "publish", "withdraw", "refresh"},
                cand : SUBSET Runs, excl : SUBSET Runs, for : SUBSET Runs,
                why : {"none", "stop", "health"}, mine : BOOLEAN]

\* A publisher whose claim is current and that replaced or adopted the marker.
Placed(p) == claim = p /\ op[p].at \in {"activated", "acked"}

\* The file lock: a publisher that took it under an older claim keeps the owner
\* of the newer one before it.
LockOk ==
    \A p, q \in Publishers :
        p # q /\ op[q].at = "locked" =>
            op[p].at # "locked" /\ ~Placed(p)

\* The bundle of the current claim stays live until its completion, and the
\* supervisor runs it once it is acknowledged.
PlacedOk ==
    \A p \in Publishers :
        Placed(p) => /\ op[p].mine /\ op[p].cand = live
                     /\ op[p].at = "acked" => sup.req = "live"

\* A recorded or acknowledged marker is the live one.
LiveOk ==
    /\ same => pub.digest = live /\ sup.req = "live"
    /\ ack = "live" => sup.req = "live"
    /\ sup.req = "live" => sup.cfg = live
    /\ Fresh \/ pub.state # "none"

\* The inductive invariant.
Inv == TypeOK /\ LockOk /\ PlacedOk /\ LiveOk

(***************************************************************************)
(* The records of the publishers.                                          *)
(***************************************************************************)
\* The candidates are runs.
LEMMA CandidateFacts ==
  /\ \A rs : Included(rs) \in SUBSET Runs /\ Without(rs) \in SUBSET Runs
  /\ \A rs \in SUBSET Runs : Excluded(rs) \in SUBSET Runs
  /\ \A r : r \notin Without({r})
BY DEF Included, Without, Excluded, RankStopped

\* The claims _claim_in_session records.
Claims == [at : {"claimed"}, kind : {"publish", "withdraw", "refresh"},
           cand : SUBSET Runs, excl : SUBSET Runs, for : SUBSET Runs,
           why : {"none", "stop", "health"}, mine : {FALSE}]

\* The empty record, a claim and a record that only moves on.
LEMMA RecordFacts ==
  /\ NoOp \in Publication /\ NoOp.at = "idle"
  /\ \A x \in Claims : x \in Publication /\ x.at = "claimed"
  /\ \A x \in Publication :
       /\ \A at \in {"locked", "acked", "superseded", "withdrawn"} :
            LET y == [x EXCEPT !.at = at] IN
            y \in Publication /\ y.at = at /\ y.mine = x.mine /\ y.cand = x.cand
       /\ \A at \in {"activated", "claimed"}, mine \in BOOLEAN :
            LET y == [x EXCEPT !.at = at, !.mine = mine] IN
            y \in Publication /\ y.at = at /\ y.mine = mine /\ y.cand = x.cand
       /\ LET y == [x EXCEPT !.mine = FALSE] IN
          y \in Publication /\ y.at = x.at /\ y.cand = x.cand
<1>1. NoOp \in Publication /\ NoOp.at = "idle"
  BY DEF NoOp, Publication
<1>2. \A x \in Claims : x \in Publication /\ x.at = "claimed"
  BY Zenon DEF Claims, Publication
<1>3. ASSUME NEW x \in Publication, NEW at \in {"locked", "acked", "superseded", "withdrawn"}
      PROVE  LET y == [x EXCEPT !.at = at] IN
             y \in Publication /\ y.at = at /\ y.mine = x.mine /\ y.cand = x.cand
  BY DEF Publication
<1>4. ASSUME NEW x \in Publication, NEW at \in {"activated", "claimed"}, NEW mine \in BOOLEAN
      PROVE  LET y == [x EXCEPT !.at = at, !.mine = mine] IN
             y \in Publication /\ y.at = at /\ y.mine = mine /\ y.cand = x.cand
  BY Zenon DEF Publication
<1>5. ASSUME NEW x \in Publication
      PROVE  LET y == [x EXCEPT !.mine = FALSE] IN
             y \in Publication /\ y.at = x.at /\ y.cand = x.cand
  BY Zenon DEF Publication
<1>6. QED
  BY <1>1, <1>2, <1>3, <1>4, <1>5, ZenonT(60)

\* The columns of the runs, and the records of the publishers and the gateway.
RunTypes ==
    /\ run \in [Runs -> {"running", "stopping", "ended"}]
    /\ route \in [Runs -> {"pending", "published", "withdrawn", "failed"}]
    /\ accepted \subseteq Runs
    /\ why \in [Runs -> {"none", "stop", "health"}]
    /\ rank \in [Runs -> {"up", "down"}]
    /\ stop \in [Runs -> {"none", "accepted", "dispatched", "dropped"}]
    /\ listed \subseteq Runs /\ faults \in 0 .. MaxFaults
GateTypes ==
    /\ op \in [Publishers -> Publication]
    /\ claim \in Publishers \cup {"none", "dead"}
    /\ pub \in [state : {"none", "completed", "routes_withdrawn",
                         "withdrawal_pending"}, digest : SUBSET Runs]
    /\ same \in BOOLEAN /\ live \subseteq Runs /\ marked \in BOOLEAN
    /\ sup \in [cfg : SUBSET Runs, req : {"none", "live", "old"}, up : BOOLEAN]
    /\ ack \in {"none", "live", "old"}

\* Together they are the types.
LEMMA TypeParts == (TypeOK <=> RunTypes /\ GateTypes) /\ (TypeOK <=> RunTypes /\ GateTypes)'
BY DEF TypeOK, RunTypes, GateTypes, Publication

\* A publisher that claims, ends or is set back holds neither the lock nor a
\* bundle, and takes the claim from the other one at most.
LEMMA SetBack ==
  ASSUME Inv, NEW p \in Publishers, NEW x \in Publication,
         op' = [op EXCEPT ![p] = x], x.at \notin {"locked", "activated", "acked"},
         claim' \in {claim, p, "none", "dead"}, UNCHANGED gateway
  PROVE  LockOk' /\ PlacedOk' /\ op' \in [Publishers -> Publication]
<1>1. op \in [Publishers -> Publication]
  BY TypeParts DEF Inv, GateTypes
<1>2. /\ op'[p] = x /\ \A q \in Publishers : q # p => op'[q] = op[q]
      /\ op' \in [Publishers -> Publication]
  BY <1>1
<1>3. \A q \in Publishers : Placed(q)' => q # p /\ Placed(q) /\ op'[q] = op[q]
  BY <1>2 DEF Placed, Publishers
<1>4. \A q \in Publishers : op'[q].at = "locked" => q # p /\ op[q].at = "locked"
  BY <1>2
<1>5. LockOk'
  BY <1>3, <1>4 DEF Inv, LockOk
<1>6. PlacedOk'
  BY <1>3 DEF Inv, PlacedOk, gateway
<1>7. QED
  BY <1>2, <1>5, <1>6

\* Such a step keeps the invariant when it leaves the record alone.
LEMMA SetBackStep ==
  ASSUME Inv, RunTypes', NEW p \in Publishers, NEW x \in Publication,
         op' = [op EXCEPT ![p] = x], x.at \notin {"locked", "activated", "acked"},
         claim' \in {claim, p, "none", "dead"}, UNCHANGED <<record, gateway>>
  PROVE  Inv'
<1>1. LockOk' /\ PlacedOk' /\ op' \in [Publishers -> Publication]
  BY Zenon, SetBack
<1>2. LiveOk'
  BY DEF Inv, LiveOk, record, gateway
<1>3. GateTypes'
  BY <1>1, TypeParts DEF Inv, GateTypes, record, gateway
<1>4. QED
  BY <1>1, <1>2, <1>3, TypeParts DEF Inv

\* So does a step of neither the publishers nor the gateway.
LEMMA ApartStep ==
  ASSUME Inv, RunTypes', UNCHANGED <<op, claim, record, gateway>>
  PROVE  Inv'
<1>1. LockOk' /\ PlacedOk' /\ LiveOk'
  BY DEF Inv, LockOk, PlacedOk, LiveOk, Placed, record, gateway
<1>2. GateTypes'
  BY TypeParts DEF Inv, GateTypes, record, gateway
<1>3. QED
  BY <1>1, <1>2, TypeParts DEF Inv

(***************************************************************************)
(* The effect.                                                             *)
(***************************************************************************)
\* The lock is taken under the current claim, by one publisher.
LEMMA CheckClaimStep ==
  ASSUME Inv, NEW p \in Publishers, CheckClaim(p)
  PROVE  Inv'
<1>1. /\ claim = p /\ op[p].at = "claimed" /\ \A q \in Publishers : op[q].at # "locked"
      /\ UNCHANGED <<runvars, listed, claim, record, gateway, faults>>
      /\ op \in [Publishers -> Publication]
  BY DEF CheckClaim, FileLockFree, Inv, TypeOK, Publication
<1>2. op' = [op EXCEPT ![p] = [op[p] EXCEPT !.at = "locked"]]
  BY <1>1 DEF CheckClaim
<1>3. LET y == [op[p] EXCEPT !.at = "locked"] IN y \in Publication /\ y.at = "locked"
  BY ZenonT(60), <1>1, RecordFacts
<1>4. /\ op'[p].at = "locked" /\ \A q \in Publishers : q # p => op'[q] = op[q]
      /\ op' \in [Publishers -> Publication]
  BY <1>1, <1>2, <1>3
<1>5. TypeOK'
  BY <1>1, <1>4 DEF Inv, TypeOK, Publication, runvars, record, gateway
<1>6. LockOk'
  BY <1>1, <1>4 DEF LockOk, Placed, Publishers
<1>7. PlacedOk' /\ LiveOk'
  BY <1>1, <1>4 DEF Inv, PlacedOk, LiveOk, Placed, record, gateway
<1>8. QED
  BY <1>5, <1>6, <1>7 DEF Inv

\* The live bundle is adopted under the lock.
LEMMA AdoptStep ==
  ASSUME Inv, NEW p \in Publishers, Adopt(p)
  PROVE  Inv'
<1>1. /\ op[p].at = "locked" /\ live = op[p].cand
      /\ UNCHANGED <<runvars, listed, claim, record, gateway, faults>>
      /\ op \in [Publishers -> Publication]
  BY DEF Adopt, Inv, TypeOK, Publication
<1>2. op' = [op EXCEPT ![p] = [op[p] EXCEPT !.at = "activated", !.mine = TRUE]]
  BY Zenon, <1>1 DEF Adopt
<1>3. LET y == [op[p] EXCEPT !.at = "activated", !.mine = TRUE] IN
      y \in Publication /\ y.at = "activated" /\ y.mine /\ y.cand = op[p].cand
  BY ZenonT(60), <1>1, RecordFacts
<1>4. /\ op'[p].at = "activated" /\ op'[p].mine /\ op'[p].cand = live
      /\ \A q \in Publishers : q # p => op'[q] = op[q]
      /\ op' \in [Publishers -> Publication]
  BY <1>1, <1>2, <1>3
<1>5. TypeOK'
  BY <1>1, <1>4 DEF Inv, TypeOK, Publication, runvars, record, gateway
<1>6. LockOk'
  BY <1>1, <1>4 DEF Inv, LockOk, Placed
<1>7. PlacedOk' /\ LiveOk'
  BY <1>1, <1>4 DEF Inv, PlacedOk, LiveOk, Placed, record, gateway
<1>8. QED
  BY <1>5, <1>6, <1>7 DEF Inv

\* The marker is replaced under the lock: no other bundle is placed under the
\* current claim.
LEMMA ReplaceStep ==
  ASSUME Inv, NEW p \in Publishers, Replace(p)
  PROVE  Inv'
<1>1. /\ op[p].at = "locked" /\ live' = op[p].cand /\ marked' = TRUE /\ same' = FALSE
      /\ sup' = [sup EXCEPT !.req = Aged(sup.req)] /\ ack' = Aged(ack)
      /\ UNCHANGED <<runvars, listed, claim, pub>> /\ op \in [Publishers -> Publication]
      /\ TypeOK
  BY DEF Replace, Inv, TypeOK, Publication
<1>2. PICK at \in {"activated", "claimed"} :
        /\ at = "claimed" => faults < MaxFaults
        /\ faults' = IF at = "claimed" THEN faults + 1 ELSE faults
        /\ op' = [q \in Publishers |->
                 IF q = p THEN [op[p] EXCEPT !.at = at, !.mine = at = "activated"]
                 ELSE [op[q] EXCEPT !.mine = FALSE]]
  BY Zenon DEF Replace
<1>3. /\ op' \in [Publishers -> Publication]
      /\ op'[p].at = at /\ op'[p].cand = op[p].cand /\ (at = "activated" => op'[p].mine)
      /\ \A q \in Publishers : q # p => op'[q].at = op[q].at
  <2>1. op'[p] \in Publication /\ op'[p].at = at /\ op'[p].cand = op[p].cand
        /\ (at = "activated" => op'[p].mine)
    <3>1. op'[p] = [op[p] EXCEPT !.at = at, !.mine = (at = "activated")]
      BY <1>2
    <3>2. op[p] \in Publication
      BY <1>1
    <3>3. CASE at = "activated"
      <4>1. op'[p] = [op[p] EXCEPT !.at = "activated", !.mine = TRUE]
        BY Zenon, <3>1, <3>3
      <4>2. QED
        BY Zenon, <3>2, <3>3, <4>1 DEF Publication
    <3>4. CASE at = "claimed"
      <4>1. op'[p] = [op[p] EXCEPT !.at = "claimed", !.mine = FALSE]
        BY Zenon, <3>1, <3>4
      <4>2. QED
        BY Zenon, <3>2, <3>4, <4>1 DEF Publication
    <3>5. QED
      BY <3>3, <3>4
  <2>2. ASSUME NEW q \in Publishers, q # p PROVE op'[q] \in Publication /\ op'[q].at = op[q].at
    BY ZenonT(60), <1>1, <1>2, <2>2, RecordFacts
  <2>3. op' = [q \in Publishers |-> op'[q]]
    BY <1>2
  <2>4. QED
    BY <2>1, <2>2, <2>3
<1>4. \A q \in Publishers : q # p => ~Placed(q) /\ op[q].at # "locked"
  BY <1>1 DEF Inv, LockOk
<1>5. /\ sup' \in [cfg : SUBSET Runs, req : {"none", "live", "old"}, up : BOOLEAN]
      /\ sup'.req # "live" /\ ack' \in {"none", "live", "old"} /\ ack' # "live"
  BY Zenon, <1>1 DEF TypeOK, Aged
<1>6. live' \in SUBSET Runs /\ faults' \in 0 .. MaxFaults
  <2>1. faults \in 0 .. MaxFaults /\ op[p] \in Publication
    BY <1>1 DEF TypeOK
  <2>2. faults' \in 0 .. MaxFaults
    BY <1>2, <2>1, RouteAssumption
  <2>3. QED
    BY <1>1, <2>1, <2>2 DEF Publication
<1>7. TypeOK'
  BY Zenon, <1>1, <1>3, <1>5, <1>6 DEF TypeOK, Publication, runvars
<1>8. LockOk'
  BY <1>1, <1>2, <1>3, <1>4 DEF LockOk, Placed
<1>9. PlacedOk'
  BY Zenon, <1>1, <1>2, <1>3, <1>4 DEF PlacedOk, Placed
<1>10. LiveOk'
  BY <1>1, <1>5, Zenon DEF Inv, LiveOk
<1>11. QED
  BY <1>7, <1>8, <1>9, <1>10 DEF Inv

\* Only the acknowledgement of the marker that is live counts.
LEMMA AcknowledgedStep ==
  ASSUME Inv, NEW p \in Publishers, Acknowledged(p)
  PROVE  Inv'
<1>1. /\ op[p].at = "activated" /\ op[p].mine /\ ack = "live"
      /\ UNCHANGED <<runvars, listed, claim, record, gateway, faults>>
      /\ op \in [Publishers -> Publication]
  BY DEF Acknowledged, Inv, TypeOK, Publication
<1>2. op' = [op EXCEPT ![p] = [op[p] EXCEPT !.at = "acked"]]
  BY <1>1 DEF Acknowledged
<1>3. LET y == [op[p] EXCEPT !.at = "acked"] IN
      y \in Publication /\ y.at = "acked" /\ y.mine = op[p].mine /\ y.cand = op[p].cand
  BY ZenonT(60), <1>1, RecordFacts
<1>4. /\ op'[p].at = "acked" /\ op'[p].mine = op[p].mine /\ op'[p].cand = op[p].cand
      /\ \A q \in Publishers : q # p => op'[q] = op[q]
      /\ op' \in [Publishers -> Publication]
  BY Zenon, <1>1, <1>2, <1>3
<1>5. TypeOK'
  BY <1>1, <1>4 DEF Inv, TypeOK, Publication, runvars, record, gateway
<1>6. LockOk'
  BY <1>1, <1>4 DEF Inv, LockOk, Placed
<1>7. PlacedOk' /\ LiveOk'
  BY Zenon, <1>1, <1>4 DEF Inv, PlacedOk, LiveOk, Placed, record, gateway
<1>8. QED
  BY <1>5, <1>6, <1>7 DEF Inv

\* The supervisor acknowledges what it runs.
LEMMA SuperviseStep ==
  ASSUME Inv, Supervise \/ Unhealthy
  PROVE  Inv'
<1>1. /\ UNCHANGED <<runvars, listed, op, claim, record, live, marked>> /\ TypeOK /\ LiveOk
  BY DEF Supervise, Reload, Healthy, Reacknowledge, Unhealthy, Inv
<1>2. /\ sup' \in [cfg : SUBSET Runs, req : {"none", "live", "old"}, up : BOOLEAN]
      /\ ack' \in {"none", "live", "old"} /\ faults' \in 0 .. MaxFaults
      /\ sup.req = "live" => sup'.req = "live"
      /\ ack' = "live" => sup'.req = "live"
      /\ sup'.req = "live" => sup'.cfg = live
  <2>1. CASE Reload
    BY <1>1, <2>1 DEF Reload, TypeOK
  <2>2. CASE Healthy
    BY Zenon, <1>1, <2>2 DEF Healthy, TypeOK, LiveOk
  <2>3. CASE Reacknowledge
    BY <1>1, <2>3 DEF Reacknowledge, TypeOK
  <2>4. CASE Unhealthy
    <3>1. faults \in 0 .. MaxFaults /\ faults < MaxFaults /\ faults' = faults + 1
          /\ ack' = "none" /\ sup' = sup
      BY <1>1, <2>4 DEF Unhealthy, TypeOK
    <3>2. faults' \in 0 .. MaxFaults
      BY <3>1, RouteAssumption
    <3>3. QED
      BY <1>1, <3>1, <3>2 DEF TypeOK, LiveOk
  <2>5. QED
    BY <2>1, <2>2, <2>3, <2>4 DEF Supervise
<1>3. TypeOK'
  BY <1>1, <1>2 DEF TypeOK, runvars, record
<1>4. LockOk'
  BY <1>1 DEF Inv, LockOk, Placed
<1>5. PlacedOk'
  BY <1>1, <1>2 DEF Inv, PlacedOk, Placed
<1>6. LiveOk'
  BY <1>1, <1>2 DEF LiveOk, record
<1>7. QED
  BY <1>3, <1>4, <1>5, <1>6 DEF Inv

\* A completion records the bundle of its own marker, which is still live.
LEMMA RecordsLive ==
  ASSUME Inv, NEW p \in Publishers, _record_completion(p)
  PROVE  /\ pub'.digest = live /\ same' = TRUE /\ sup.req = "live"
         /\ pub' \in [state : {"completed", "routes_withdrawn", "withdrawal_pending"},
                      digest : SUBSET Runs]
<1>1. /\ op[p].mine = TRUE /\ op[p].cand = live /\ sup.req = "live" /\ op[p] \in Publication
  BY DEF _record_completion, Inv, PlacedOk, Placed, TypeOK, Publication
<1>2. \E state \in {"completed", "routes_withdrawn", "withdrawal_pending"} :
        pub' = [state |-> state, digest |-> op[p].cand] /\ same' = op[p].mine
  <2>1. CASE _complete_run_publication(p)
    BY <2>1 DEF _complete_run_publication, Project
  <2>2. CASE _record_withdrawal(p)
    BY <2>2 DEF _record_withdrawal, Project
  <2>3. CASE _record_refresh(p)
    BY <2>3 DEF _record_refresh, Project
  <2>4. QED
    BY <2>1, <2>2, <2>3 DEF _record_completion
<1>3. op[p].cand \in SUBSET Runs
  BY <1>1 DEF Publication
<1>4. QED
  BY <1>1, <1>2, <1>3

(***************************************************************************)
(* The other steps.                                                        *)
(***************************************************************************)
\* A completion.
LEMMA CompletionStep ==
  ASSUME Inv, NEW p \in Publishers, _record_completion(p)
  PROVE  Inv'
<1>1. /\ claim' = "none" /\ UNCHANGED <<run, rank, stop, gateway, faults>>
      /\ op' = [op EXCEPT ![p] = IF p = "worker" THEN NoOp ELSE [op[p] EXCEPT !.at = "withdrawn"]]
      /\ listed' = IF p = "worker" THEN {} ELSE listed
      /\ RunTypes /\ GateTypes
  BY TypeParts DEF _record_completion, Inv
<1>2. PICK x \in Publication : x.at \notin {"locked", "activated", "acked"}
                               /\ op' = [op EXCEPT ![p] = x]
  BY Zenon, <1>1, RecordFacts DEF GateTypes
<1>3. LockOk' /\ PlacedOk' /\ op' \in [Publishers -> Publication]
  BY Zenon, <1>1, <1>2, SetBack
<1>4. /\ pub'.digest = live /\ same' = TRUE /\ sup.req = "live"
      /\ pub' \in [state : {"completed", "routes_withdrawn", "withdrawal_pending"},
                   digest : SUBSET Runs]
  BY Zenon, RecordsLive
<1>5. LiveOk'
  <2>1. pub'.state # "none"
    BY <1>4
  <2>2. QED
    BY <1>1, <1>4, <2>1 DEF Inv, LiveOk, gateway
<1>6. GateTypes'
  BY <1>1, <1>3, <1>4 DEF GateTypes, gateway
<1>7. /\ route' \in [Runs -> {"pending", "published", "withdrawn", "failed"}]
      /\ why' \in [Runs -> {"none", "stop", "health"}]
      /\ accepted' \subseteq Runs
  <2>1. /\ op[p].cand \subseteq Runs /\ op[p].excl \subseteq Runs
        /\ op[p].why \in {"none", "stop", "health"}
    BY <1>1 DEF GateTypes, Publication
  <2>2. CASE _complete_run_publication(p)
    BY <1>1, <2>1, <2>2 DEF _complete_run_publication, RunTypes
  <2>3. CASE _record_withdrawal(p)
    BY <1>1, <2>1, <2>3 DEF _record_withdrawal, RunTypes
  <2>4. CASE _record_refresh(p)
    BY <1>1, <2>1, <2>4 DEF _record_refresh, RunTypes
  <2>5. QED
    BY <2>2, <2>3, <2>4 DEF _record_completion
<1>8. RunTypes'
  BY <1>1, <1>7 DEF RunTypes
<1>9. QED
  BY <1>3, <1>5, <1>6, <1>8, TypeParts DEF Inv

\* A publisher whose claim was replaced, that gives up or that dies.
LEMMA EndsStep ==
  ASSUME Inv, NEW p \in Publishers, Superseded(p) \/ GiveUp(p) \/ Crash(p)
  PROVE  Inv'
<1>1. /\ RunTypes /\ op[p] \in Publication
      /\ UNCHANGED <<run, accepted, why, rank, stop, record, gateway>>
      /\ claim' \in {claim, p, "none", "dead"}
  BY TypeParts DEF Superseded, GiveUp, Crash, Inv, GateTypes, runvars
<1>2. PICK x \in Publication : x.at \notin {"locked", "activated", "acked"}
                               /\ op' = [op EXCEPT ![p] = x]
  <2>1. op' = [op EXCEPT ![p] = NoOp] \/ op' = [op EXCEPT ![p] = [op[p] EXCEPT !.at = "superseded"]]
    BY DEF Superseded, GiveUp, Crash
  <2>2. QED
    BY Zenon, <1>1, <2>1, RecordFacts
<1>3. RunTypes'
  <2>1. faults \in 0 .. MaxFaults /\ (faults' = faults \/ (faults < MaxFaults /\ faults' = faults + 1))
    BY <1>1 DEF Superseded, GiveUp, Crash, RunTypes
  <2>2. faults' \in 0 .. MaxFaults
    BY <2>1, RouteAssumption
  <2>3. listed' \subseteq Runs
    BY <1>1 DEF Superseded, GiveUp, Crash, RunTypes
  <2>4. route' \in [Runs -> {"pending", "published", "withdrawn", "failed"}]
    <3>1. route' = route \/ \E r : route' = [route EXCEPT ![r] = "failed"]
      BY DEF Superseded, GiveUp, Crash, Deferred, runvars
    <3>2. QED
      BY <1>1, <3>1 DEF RunTypes
  <2>5. QED
    BY <1>1, <2>2, <2>3, <2>4 DEF RunTypes
<1>4. QED
  BY Zenon, <1>1, <1>2, <1>3, SetBackStep

\* A claim of the worker or of a Stop, with what it writes of the runs.
LEMMA ClaimStep ==
  ASSUME Inv, RunTypes', NEW p \in Publishers, NEW kind \in {"publish", "withdraw", "refresh"},
         NEW cand \in SUBSET Runs, NEW excl \in SUBSET Runs, NEW for \in SUBSET Runs,
         NEW reason \in {"none", "stop", "health"},
         claim' = p,
         op' = [op EXCEPT ![p] = [at |-> "claimed", kind |-> kind, cand |-> cand,
                  excl |-> excl, for |-> for, why |-> reason, mine |-> FALSE]],
         UNCHANGED <<record, gateway>>
  PROVE  Inv'
<1> DEFINE x == [at |-> "claimed", kind |-> kind, cand |-> cand, excl |-> excl,
                 for |-> for, why |-> reason, mine |-> FALSE]
<1>1. x \in Publication /\ x.at = "claimed"
  BY DEF Publication
<1>2. op' = [op EXCEPT ![p] = x]
  OBVIOUS
<1> HIDE DEF x
<1>3. QED
  BY Zenon, <1>1, <1>2, SetBackStep

\* The worker reads the pending runs and claims the publication of one.
LEMMA PublishStep ==
  ASSUME Inv, ListPending \/ \E r \in Runs : _claim_run(r)
  PROVE  Inv'
<1>1. RunTypes /\ "worker" \in Publishers
  BY TypeParts DEF Inv, Publishers
<1>2. CASE ListPending
  <2>1. RunTypes' /\ UNCHANGED <<op, claim, record, gateway>>
    BY <1>1, <1>2 DEF ListPending, RunTypes, runvars
  <2>2. QED
    BY <2>1, ApartStep
<1>3. ASSUME NEW r \in Runs, _claim_run(r) PROVE Inv'
  <2>1. UNCHANGED <<run, accepted, why, rank, stop, record, gateway, faults>>
    BY <1>3 DEF _claim_run
  <2>2. CASE run[r] = "running" /\ RankStopped(Included({r})) = {}
    <3>1. /\ claim' = "worker" /\ UNCHANGED <<route, listed>>
          /\ op' = [op EXCEPT !["worker"] = [at |-> "claimed", kind |-> "publish",
               cand |-> Included({r}), excl |-> {}, for |-> {r}, why |-> "none", mine |-> FALSE]]
      BY <1>3, <2>2 DEF _claim_run, Claim
    <3>2. RunTypes'
      BY <1>1, <2>1, <3>1 DEF RunTypes
    <3>3. Included({r}) \in SUBSET Runs /\ {} \in SUBSET Runs /\ {r} \in SUBSET Runs
      BY CandidateFacts
    <3>4. QED
      BY ZenonT(60), <1>1, <2>1, <3>1, <3>2, <3>3, ClaimStep
  <2>3. CASE ~(run[r] = "running" /\ RankStopped(Included({r})) = {})
    <3>1. /\ UNCHANGED <<op, claim>> /\ listed' = listed \ {r}
          /\ Deferred(r) \/ UNCHANGED route
      BY ZenonT(60), <1>3, <2>3 DEF _claim_run
    <3>2. route' \in [Runs -> {"pending", "published", "withdrawn", "failed"}]
      BY <1>1, <3>1 DEF Deferred, RunTypes
    <3>3. RunTypes'
      BY SMTT(60), <1>1, <2>1, <3>1, <3>2 DEF RunTypes
    <3>4. QED
      BY ZenonT(60), <2>1, <3>1, <3>3, ApartStep
  <2>4. QED
    BY SMTT(60), <2>2, <2>3
<1>4. QED
  BY <1>2, <1>3

\* A withdrawal claim of publisher p keeps the invariant.
LEMMA WithdrawalStep ==
  ASSUME Inv, NEW p \in Publishers, NEW excl \in SUBSET Runs, NEW for \in SUBSET Runs,
         NEW reason \in {"none", "stop", "health"}, faults' \in 0 .. MaxFaults,
         claim' = p,
         op' = [op EXCEPT ![p] = [at |-> "claimed", kind |-> "withdraw",
                  cand |-> Without(excl), excl |-> Excluded(excl), for |-> for,
                  why |-> reason, mine |-> FALSE]],
         route' = [r \in Runs |-> IF r \in Excluded(excl) THEN "withdrawn" ELSE route[r]],
         why' = [r \in Runs |-> IF r \in for /\ run[r] = "running" /\ reason # "none"
                                THEN reason ELSE why[r]],
         UNCHANGED <<run, accepted, rank, stop, listed, record, gateway>>
  PROVE  Inv'
<1>1. RunTypes
  BY ZenonT(60), TypeParts DEF Inv
<1>2. /\ route' \in [Runs -> {"pending", "published", "withdrawn", "failed"}]
      /\ why' \in [Runs -> {"none", "stop", "health"}]
  BY ZenonT(60), <1>1 DEF RunTypes
<1>3. RunTypes'
  BY ZenonT(60), <1>1, <1>2 DEF RunTypes
<1>4. Without(excl) \in SUBSET Runs /\ Excluded(excl) \in SUBSET Runs
  BY ZenonT(60), CandidateFacts
<1>5. QED
  BY ZenonT(60), <1>3, <1>4, ClaimStep

\* A Stop withdraws its run, again when a newer publication undid it.
LEMMA WithdrawRunStep ==
  ASSUME Inv, NEW r \in Runs, withdraw_run(r)
  PROVE  Inv'
<1>1. faults' \in 0 .. MaxFaults
  <2>1. faults \in 0 .. MaxFaults
    BY ZenonT(60) DEF Inv, TypeOK
  <2>2. QED
    BY <2>1, RouteAssumption DEF withdraw_run
<1>2. /\ claim' = "api"
      /\ op' = [op EXCEPT !["api"] = [at |-> "claimed", kind |-> "withdraw",
                  cand |-> Without({r}), excl |-> Excluded({r}), for |-> {r},
                  why |-> "stop", mine |-> FALSE]]
      /\ route' = [q \in Runs |-> IF q \in Excluded({r}) THEN "withdrawn" ELSE route[q]]
      /\ why' = [q \in Runs |-> IF q \in {r} /\ run[q] = "running" /\ "stop" # "none"
                                THEN "stop" ELSE why[q]]
      /\ UNCHANGED <<run, accepted, rank, stop, listed, record, gateway>>
  BY DEF withdraw_run, ClaimWithdrawal, Claim
<1>3. "api" \in Publishers /\ {r} \in SUBSET Runs /\ "stop" \in {"none", "stop", "health"}
  BY DEF Publishers
<1>4. QED
  BY ZenonT(60), <1>1, <1>2, <1>3, WithdrawalStep

\* One decision of the maintenance pass.
LEMMA MaintainStep ==
  ASSUME Inv, maintain
  PROVE  Inv'
<1>1. /\ UNCHANGED <<run, accepted, rank, stop, listed, record, gateway, faults>>
      /\ RunTypes /\ "worker" \in Publishers /\ faults' \in 0 .. MaxFaults
  BY TypeParts DEF maintain, Inv, RunTypes, Publishers
<1>2. ASSUME NEW rs, Restore(rs) PROVE Inv'
  <2>1. /\ route' \in [Runs -> {"pending", "published", "withdrawn", "failed"}]
        /\ why' \in [Runs -> {"none", "stop", "health"}]
    BY <1>1, <1>2 DEF Restore, RunTypes
  <2>2. RunTypes' /\ UNCHANGED <<op, claim>>
    BY <1>1, <1>2, <2>1 DEF RunTypes, Restore
  <2>3. QED
    BY <1>1, <2>2, ApartStep
<1>3. ASSUME NEW excl \in SUBSET Runs, NEW for \in SUBSET Runs,
             NEW reason \in {"none", "stop", "health"},
             ClaimWithdrawal("worker", excl, for, reason)
      PROVE  Inv'
  BY ZenonT(60), <1>1, <1>3, WithdrawalStep DEF ClaimWithdrawal, Claim
<1>4. {} \in SUBSET Runs /\ "none" \in {"none", "stop", "health"} /\ "health" \in {"none", "stop", "health"}
  OBVIOUS
<1>5. CASE MaintainEmpty
  <2>1. ClaimWithdrawal("worker", {}, {}, "none")
    BY <1>5 DEF MaintainEmpty
  <2>2. QED
    BY <1>3, <1>4, <2>1
<1>6. CASE MaintainServed
  <2> DEFINE ended == {r \in Served : run[r] # "running"}
             down == RankStopped(Included({}))
  <2>1. ended \in SUBSET Runs /\ down \in SUBSET Runs
    BY CandidateFacts DEF Served, RankStopped
  <2>2. CASE ClaimWithdrawal("worker", ended, {}, "none")
    BY <1>3, <1>4, <2>1, <2>2
  <2>3. CASE \E r \in down : ClaimWithdrawal("worker", {r}, Excluded({r}), "health")
    <3>1. PICK r \in down : ClaimWithdrawal("worker", {r}, Excluded({r}), "health")
      BY ZenonT(60), <2>3
    <3>2. {r} \in SUBSET Runs /\ Excluded({r}) \in SUBSET Runs
      BY <2>1, CandidateFacts
    <3>3. QED
      BY <1>3, <1>4, <3>1, <3>2
  <2>4. CASE Claim("worker", "refresh", Included({}), {}, {}, "none") /\ UNCHANGED <<route, why>>
    <3>1. RunTypes'
      BY <1>1, <2>4 DEF RunTypes
    <3>2. /\ claim' = "worker"
          /\ op' = [op EXCEPT !["worker"] = [at |-> "claimed", kind |-> "refresh",
               cand |-> Included({}), excl |-> {}, for |-> {}, why |-> "none", mine |-> FALSE]]
      BY <2>4 DEF Claim
    <3>3. Included({}) \in SUBSET Runs
      BY CandidateFacts
    <3>4. QED
      BY Zenon, <1>1, <1>4, <3>1, <3>2, <3>3, ClaimStep
  <2>5. QED
    BY <1>6, <2>2, <2>3, <2>4 DEF MaintainServed
<1>7. \/ Restore(Abandoned) \/ Restore(Recovering)
      \/ ClaimWithdrawal("worker", {}, {}, "none") \/ MaintainEmpty \/ MaintainServed
  BY DEF maintain
<1>8. QED
  BY <1>2, <1>3, <1>4, <1>5, <1>6, <1>7

\* The Stop goes on, or is deferred; a run ends by another way, or a rank
\* fails or recovers.
LEMMA RunStep ==
  ASSUME Inv, NEW r \in Runs,
         \/ WithdrawnByAnother(r) \/ Dispatch(r) \/ AcceptStop(r) \/ DeferStop(r)
         \/ EndRun(r) \/ RankFails(r) \/ RankRecovers(r)
  PROVE  Inv'
<1>1. /\ RunTypes /\ op \in [Publishers -> Publication] /\ "api" \in Publishers
      /\ op["api"] \in Publication /\ NoOp \in Publication /\ NoOp.at = "idle"
  BY Zenon, TypeParts, RecordFacts DEF Inv, GateTypes, Publishers
<1>2. CASE WithdrawnByAnother(r)
  <2>1. /\ RunTypes' /\ UNCHANGED <<claim, record, gateway>>
        /\ op' = [op EXCEPT !["api"] = [op["api"] EXCEPT !.at = "withdrawn"]]
    BY <1>1, <1>2 DEF WithdrawnByAnother, RunTypes, runvars
  <2>2. LET y == [op["api"] EXCEPT !.at = "withdrawn"] IN
        y \in Publication /\ y.at = "withdrawn"
    BY Zenon, <1>1, RecordFacts
  <2>3. QED
    BY Zenon, <1>1, <2>1, <2>2, SetBackStep
<1>3. CASE Dispatch(r) \/ DeferStop(r)
  <2>1. op' = [op EXCEPT !["api"] = NoOp] /\ UNCHANGED <<claim, record, gateway>>
    BY <1>3 DEF Dispatch, DeferStop
  <2>2. RunTypes'
    <3>1. CASE Dispatch(r)
      BY ZenonT(60), <1>1, <3>1 DEF Dispatch, RunTypes
    <3>2. CASE DeferStop(r)
      BY <1>1, <3>2 DEF DeferStop, RunTypes
    <3>3. QED
      BY SMTT(60), <1>3, <3>1, <3>2
  <2>3. QED
    BY Zenon, <1>1, <2>1, <2>2, SetBackStep
<1>4. CASE AcceptStop(r) \/ EndRun(r) \/ RankFails(r) \/ RankRecovers(r)
  <2>1. UNCHANGED <<op, claim, record, gateway>>
    BY <1>4 DEF AcceptStop, EndRun, RankFails, RankRecovers
  <2>2. faults' \in 0 .. MaxFaults
    <3>1. /\ faults \in 0 .. MaxFaults
          /\ faults' = faults \/ (faults < MaxFaults /\ faults' = faults + 1)
      BY ZenonT(60), <1>1, <1>4 DEF AcceptStop, EndRun, RankFails, RankRecovers, RunTypes
    <3>2. QED
      BY <3>1, RouteAssumption
  <2>3. RunTypes'
    BY <1>1, <1>4, <2>2 DEF AcceptStop, EndRun, RankFails, RankRecovers, RunTypes
  <2>4. QED
    BY <2>1, <2>3, ApartStep
<1>5. QED
  BY <1>2, <1>3, <1>4

(***************************************************************************)
(* The theorems.                                                           *)
(***************************************************************************)
\* Nothing is published yet, or everything was withdrawn.
LEMMA InitHolds == Init => Inv
<1> SUFFICES ASSUME Init PROVE Inv
  OBVIOUS
<1>1. RunTypes
  <2>1. faults \in 0 .. MaxFaults
    BY RouteAssumption DEF Init
  <2>2. /\ run \in [Runs -> {"running", "stopping", "ended"}]
        /\ route \in [Runs -> {"pending", "published", "withdrawn", "failed"}]
        /\ why \in [Runs -> {"none", "stop", "health"}]
    BY DEF Init
  <2>3. /\ rank \in [Runs -> {"up", "down"}]
        /\ stop \in [Runs -> {"none", "accepted", "dispatched", "dropped"}]
        /\ accepted \subseteq Runs /\ listed \subseteq Runs
    BY DEF Init
  <2>4. QED
    BY <2>1, <2>2, <2>3, Zenon DEF RunTypes
<1>2. op \in [Publishers -> Publication] /\ \A p \in Publishers : op[p].at = "idle"
  BY Zenon, RecordFacts DEF Init
<1>3. GateTypes
  BY <1>2, RouteAssumption DEF Init, GateTypes
<1>4. LockOk /\ PlacedOk
  BY <1>2 DEF LockOk, PlacedOk, Placed
<1>5. LiveOk
  BY Zenon, RouteAssumption DEF Init, LiveOk
<1>6. QED
  BY <1>1, <1>3, <1>4, <1>5, TypeParts DEF Inv

\* Every step keeps the invariant.
LEMMA NextKeeps == Inv /\ [Next]_vars => Inv'
<1> SUFFICES ASSUME Inv, [Next]_vars PROVE Inv'
  OBVIOUS
<1>1. CASE Worker
  BY <1>1, PublishStep, MaintainStep DEF Worker
<1>2. CASE Supervise \/ Unhealthy
  BY <1>2, SuperviseStep
<1>3. ASSUME NEW p \in Publishers, Execute(p) \/ GiveUp(p) \/ Crash(p) PROVE Inv'
  BY <1>3, CheckClaimStep, AdoptStep, ReplaceStep, AcknowledgedStep, EndsStep, CompletionStep
     DEF Execute
<1>4. ASSUME NEW r \in Runs,
             \/ Stop(r) \/ AcceptStop(r) \/ DeferStop(r)
             \/ EndRun(r) \/ RankFails(r) \/ RankRecovers(r)
      PROVE  Inv'
  BY <1>4, WithdrawRunStep, RunStep DEF Stop
<1>5. CASE UNCHANGED vars
  <2>1. RunTypes'
    BY <1>5, TypeParts DEF Inv, RunTypes, vars, runvars
  <2>2. QED
    BY <1>5, <2>1, ApartStep DEF vars
<1>6. QED
  BY <1>1, <1>2, <1>3, <1>4, <1>5 DEF Next

\* The inductive invariant holds for every set of runs, whichever of them end,
\* stop or fail, and any number of faults.
THEOREM Invariance == Spec => []Inv
<1>1. QED
  BY InitHolds, NextKeeps, PTL DEF Spec

\* The claim, looked at again under the file lock, keeps the marker of the
\* current claim live until _record_completion records it.
THEOREM CompletionRecordsLive == Spec => RecordedIsLive
<1>1. Inv => (\A p \in Publishers : _record_completion(p) => pub'.digest = live /\ same')
  BY Zenon, RecordsLive
<1>2. QED
  BY <1>1, Invariance, PTL DEF RecordedIsLive

\* After the first publication, a Stop is dispatched only when neither the live
\* bundle nor the LiteLLM child lists its run: withdrawal_complete_in_session
\* looks at a record that names the live marker.  (Before it there is no record
\* to look at, and the property does not hold.)
THEOREM DispatchAfterWithdrawal == ~Fresh => (Spec => DispatchSeesRouteGone)
<1> SUFFICES ASSUME ~Fresh PROVE Spec => DispatchSeesRouteGone
  OBVIOUS
<1> DEFINE A == \A r \in Runs : stop[r] # "dispatched" /\ stop'[r] = "dispatched"
                  => r \notin live /\ (sup.up => r \notin sup.cfg)
<1>1. Inv /\ [Next]_vars => [A]_vars
  <2> SUFFICES ASSUME Inv, Next, NEW r \in Runs,
                      stop[r] # "dispatched", stop'[r] = "dispatched"
               PROVE  r \notin live /\ r \notin sup.cfg
    OBVIOUS
  <2>1. stop \in [Runs -> {"none", "accepted", "dispatched", "dropped"}]
    BY DEF Inv, TypeOK
  <2>2. \E q \in Runs : Dispatch(q) /\ q = r
    <3>1. ASSUME stop' = stop PROVE FALSE
      BY <3>1
    <3>2. ASSUME NEW q \in Runs, AcceptStop(q) \/ DeferStop(q) PROVE FALSE
      BY <2>1, <3>2 DEF AcceptStop, DeferStop
    <3>3. ASSUME NEW q \in Runs, Dispatch(q) PROVE q = r
      BY <2>1, <3>3 DEF Dispatch
    <3>4. CASE Worker \/ Supervise \/ Unhealthy
      BY Zenon, <3>1, <3>4 DEF Worker, ListPending, maintain, _claim_run, Supervise, Reload,
           Healthy, Reacknowledge, Unhealthy, runvars
    <3>5. ASSUME NEW p \in Publishers, Execute(p) \/ GiveUp(p) \/ Crash(p) PROVE FALSE
      BY <3>1, <3>5 DEF Execute, CheckClaim, Adopt, Replace, Acknowledged, Superseded,
           _record_completion, GiveUp, Crash, runvars
    <3>6. ASSUME NEW q \in Runs, \/ withdraw_run(q) \/ WithdrawnByAnother(q) \/ EndRun(q)
                                 \/ RankFails(q) \/ RankRecovers(q)
          PROVE  FALSE
      BY <3>1, <3>6 DEF withdraw_run, WithdrawnByAnother, EndRun, RankFails, RankRecovers,
           runvars
    <3>7. QED
      BY <3>2, <3>3, <3>4, <3>5, <3>6 DEF Next, Stop
  <2>3. withdrawal_complete({r})
    BY <2>2 DEF Dispatch
  <2>4. pub.digest = Without({r}) /\ same
    BY <2>3 DEF withdrawal_complete, Inv, LiveOk
  <2>5. live = Without({r}) /\ sup.cfg = live
    BY <2>4 DEF Inv, LiveOk
  <2>6. QED
    BY <2>5, CandidateFacts
<1>2. QED
  BY <1>1, Invariance, PTL DEF Spec, DispatchSeesRouteGone
===============================================================================
