------------------------------ MODULE BlobStore ------------------------------
(***************************************************************************)
(* The artifact blob store of the controller (artifact_blob_store.py) with *)
(* the two callers that put references to its objects in the database:     *)
(* the uploads of artifact_jobs/inputs.py and outputs.py and the retention *)
(* pass of artifact_jobs/service.py.                                       *)
(*                                                                         *)
(* An upload reserves its bytes against one quota, writes them to a        *)
(* temporary file that carries the reservation's token, renames that file  *)
(* to the content address, drops the reservation and attaches the object   *)
(* to its job.  The whole of it runs under a shared hold of the reference  *)
(* fence; the retention pass holds the fence exclusively.  Reservation     *)
(* files and the fence are kernel file locks: a process that dies gives    *)
(* them back and leaves its files behind.  A request that is cancelled     *)
(* gives up the fence too, but what it awaited in a thread goes on.        *)
(* Everything that reads the accounts runs under the exclusive quota lock  *)
(* and is one step here; the removals of the retention pass are one step   *)
(* per file, since the pass can die between two of them.                   *)
(***************************************************************************)
EXTENDS Naturals, FiniteSets, FiniteSetsExt

CONSTANTS
    Uploads,          \* uploads; each has its own token
    Digests,          \* content addresses
    Jobs,             \* artifact jobs
    DigestOf, JobOf,  \* what an upload carries and the job that declared it
    Size,             \* bytes of an object
    max_stored_bytes, \* the quota
    batch_limit,      \* expired jobs and removals of one reconcile
    MaxFaults         \* bound on the faults of a behaviour

ASSUME BlobAssumption ==
    /\ DigestOf \in [Uploads -> Digests] /\ JobOf \in [Uploads -> Jobs]
    /\ Size \in [Digests -> Nat \ {0}]
    /\ {max_stored_bytes, batch_limit} \subseteq Nat \ {0}

VARIABLES
    pc,        \* where an upload stands
    ok,        \* whether put_stream will return the object
    fenced,    \* uploads that hold the reference fence, shared
    straggler, \* the thread that outlived an upload's cancellation
    res,       \* <token>.reserve: none, held by its uploader, free, torn
    tmp,       \* 1 + bytes of the temporary file, 0 when there is none
    stored,    \* the object at a content address: none, intact, damaged
    young,     \* objects within the orphan grace
    job,       \* live, ended, expired (ended and past its retention), gone
    refs,      \* ArtifactJobFile rows: <<job, digest>>
    late,      \* history: rows written by a thread whose fence was given up
    pass,      \* the retention pass
    faults     \* what went wrong so far, each at most once

upload == <<pc, ok, fenced, straggler>>
files == <<res, tmp, stored, young>>
rows == <<job, refs, late>>
vars == <<upload, files, rows, pass, faults>>

\* An uploader or the pass dies; an upload is cancelled while it cleans up; a
\* stored object is cut short; a Stop receipt comes for an ended job.
FaultKinds == {"crash", "cancel", "damage", "renewal"}
Fault(kind) ==
    /\ kind \notin faults /\ Cardinality(faults) < MaxFaults
    /\ faults' = faults \cup {kind}

Idle == [at |-> "idle", budget |-> 0, left |-> FALSE, expired |-> {},
         reclaimable |-> {}, active |-> {}]
InQuota == {"reservations", "temporary", "objects"}   \* the pass has the lock

TypeOK ==
    /\ pc \in [Uploads -> {"idle", "reserve", "reading", "open", "writing",
                           "commit", "cleanup", "release", "attach", "done", "dead"}]
    /\ ok \in [Uploads -> BOOLEAN]
    /\ fenced \subseteq Uploads
    /\ straggler \in [Uploads -> {"none", "reserve", "open", "commit", "attach"}]
    /\ res \in [Uploads -> {"none", "held", "free", "torn"}]
    /\ \A u \in Uploads : tmp[u] \in 0..(1 + Size[DigestOf[u]])
    /\ stored \in [Digests -> {"none", "intact", "damaged"}]
    /\ young \subseteq Digests
    /\ job \in [Jobs -> {"live", "ended", "expired", "gone"}]
    /\ refs \subseteq Jobs \X Digests /\ late \subseteq refs
    /\ pass \in [at : {"idle", "rows"} \cup InQuota, budget : 0..batch_limit,
                 left : BOOLEAN, expired : SUBSET Jobs,
                 reclaimable : SUBSET Digests, active : SUBSET Uploads]
    /\ faults \subseteq FaultKinds

Init ==
    /\ pc = [u \in Uploads |-> "idle"] /\ ok = [u \in Uploads |-> FALSE]
    /\ fenced = {} /\ straggler = [u \in Uploads |-> "none"]
    /\ res = [u \in Uploads |-> "none"] /\ tmp = [u \in Uploads |-> 0]
    /\ stored = [d \in Digests |-> "none"] /\ young = {}
    /\ job = [j \in Jobs |-> "live"] /\ refs = {} /\ late = {}
    /\ pass = Idle
    /\ faults = {}

-----------------------------------------------------------------------------
(* The accounts *)

Bytes(u) == Size[DigestOf[u]]
Written(u) == IF tmp[u] = 0 THEN 0 ELSE tmp[u] - 1
Total(S, f(_)) == FoldSet(LAMBDA x, sum : sum + f(x), 0, S)

\* A damaged object was cut short by one byte.
ObjectBytes(d) == CASE stored[d] = "none" -> 0 [] stored[d] = "intact" -> Size[d]
                    [] OTHER -> Size[d] - 1
_stored_bytes == Total(Digests, ObjectBytes)

\* The reservations that can be read: one whose writer died before its size
\* was written is skipped.
_reservation_entries(r) == {u \in Uploads : r[u] \in {"held", "free"}}
_unreserved_temporary_bytes(r, t) ==
    Total({u \in Uploads : t[u] > 0 /\ u \notin _reservation_entries(r)},
          LAMBDA u : t[u] - 1)
\* Bug: temporary bytes that lost their reservation are nobody's.
Bug_accounted(r, t) == _stored_bytes + Total(_reservation_entries(r), Bytes)
accounted(r, t) ==
    _stored_bytes + Total(_reservation_entries(r), Bytes)
      + _unreserved_temporary_bytes(r, t)

quota_free == pass.at \notin InQuota

-----------------------------------------------------------------------------
(* Uploads *)

\* reference_attachment: the fence is claimed shared, for as long as no
\* retention pass has it.
Begin(u) ==
    /\ pc[u] = "idle" /\ job[JobOf[u]] = "live" /\ pass.at = "idle"
    /\ pc' = [pc EXCEPT ![u] = "reserve"] /\ fenced' = fenced \cup {u}
    /\ UNCHANGED <<ok, straggler, files, rows, pass, faults>>

\* The upload ends without the object and gives up the fence.
Abandon(u) ==
    /\ pc' = [pc EXCEPT ![u] = "done"] /\ fenced' = fenced \ {u}
    /\ UNCHANGED <<ok, straggler, files, rows, pass, faults>>

\* _reap_abandoned_uploads: reservations whose lock can be taken go, and their
\* temporary files with them.
Abandoned == {u \in Uploads : res[u] \in {"free", "torn"}}
reaped(f, none) == [u \in Uploads |-> IF u \in Abandoned THEN none ELSE f[u]]

fits(u, r, t) == accounted(r, t) + Bytes(u) <= max_stored_bytes

\* What _reserve_once finds under the quota lock: an intact object, which needs
\* no bytes; otherwise the abandoned uploads are reaped and the bytes are
\* refused or put on record.
Intact(u) == stored[DigestOf[u]] = "intact" /\ UNCHANGED <<res, tmp>>
Refused(u) ==
    /\ stored[DigestOf[u]] # "intact"
    /\ ~fits(u, reaped(res, "none"), reaped(tmp, 0))
    /\ res' = reaped(res, "none") /\ tmp' = reaped(tmp, 0)
Recorded(u, record) ==
    /\ stored[DigestOf[u]] # "intact"
    /\ fits(u, reaped(res, "none"), reaped(tmp, 0))
    /\ res' = [reaped(res, "none") EXCEPT ![u] = record] /\ tmp' = reaped(tmp, 0)

\* _reserve_once for an upload that waits for it; the uploader can die with the
\* reservation file still empty.
_reserve_once(u) ==
    /\ pc[u] = "reserve" /\ quota_free
    /\ \/ /\ Intact(u) /\ pc' = [pc EXCEPT ![u] = "reading"]
          /\ UNCHANGED <<fenced, faults>>
       \/ /\ Refused(u) /\ pc' = [pc EXCEPT ![u] = "done"] /\ fenced' = fenced \ {u}
          /\ UNCHANGED faults
       \/ /\ Recorded(u, "held") /\ pc' = [pc EXCEPT ![u] = "open"]
          /\ UNCHANGED <<fenced, faults>>
       \/ /\ Recorded(u, "torn") /\ Fault("crash")
          /\ pc' = [pc EXCEPT ![u] = "dead"] /\ fenced' = fenced \ {u}
    /\ UNCHANGED <<ok, straggler, stored, young, rows, pass>>

\* The quota lock was busy on every attempt of the request: another upload, a
\* reading of the usage or the pass of another process had it.
ReserveBusy(u) == pc[u] = "reserve" /\ Abandon(u)

\* A request cancelled at an await outside put_stream's own try: the fence is
\* given up and the thread goes on, with the reservation or the attachment.
CancelAwait(u) ==
    /\ pc[u] \in {"reserve", "attach"}
    /\ straggler' = [straggler EXCEPT ![u] = pc[u]]
    /\ pc' = [pc EXCEPT ![u] = "done"] /\ fenced' = fenced \ {u}
    /\ UNCHANGED <<ok, files, rows, pass, faults>>

\* _reserve_once in the thread of a cancelled request: the reservation it
\* returns reaches nobody, and its lock is held until the process ends.
ReserveInThread(u) ==
    /\ straggler[u] = "reserve" /\ quota_free
    /\ straggler' = [straggler EXCEPT ![u] = "none"]
    /\ Intact(u) \/ Refused(u) \/ Recorded(u, "held")
    /\ UNCHANGED <<pc, ok, fenced, stored, young, rows, pass, faults>>

\* The object is there: the upload is read to its end and compared.
ReadExisting(u) ==
    /\ pc[u] = "reading"
    /\ pc' = [pc EXCEPT ![u] = "attach"]
    /\ UNCHANGED <<ok, fenced, straggler, files, rows, pass, faults>>
MismatchedExisting(u) == pc[u] = "reading" /\ Abandon(u)

\* tempfile.mkstemp with the token in the name.
OpenTemporary(u) ==
    /\ pc[u] = "open"
    /\ tmp' = [tmp EXCEPT ![u] = 1] /\ pc' = [pc EXCEPT ![u] = "writing"]
    /\ UNCHANGED <<ok, fenced, straggler, res, stored, young, rows, pass, faults>>

\* One byte arrives; the last one is synchronized and the digest compared.
WriteChunk(u) ==
    /\ pc[u] = "writing" /\ Written(u) < Bytes(u)
    /\ tmp' = [tmp EXCEPT ![u] = @ + 1]
    /\ pc' = [pc EXCEPT ![u] = IF tmp'[u] = 1 + Bytes(u) THEN "commit" ELSE @]
    /\ UNCHANGED <<ok, fenced, straggler, res, stored, young, rows, pass, faults>>

\* The sender stops short, sends too much or other bytes, or is cancelled; a
\* cancelled mkstemp or commit goes on in its thread.
StopUpload(u) ==
    /\ pc[u] \in {"open", "writing", "commit"}
    /\ pc' = [pc EXCEPT ![u] = "cleanup"]
    /\ \/ /\ pc[u] \in {"open", "commit"}
          /\ straggler' = [straggler EXCEPT ![u] = pc[u]]
       \/ UNCHANGED straggler
    /\ UNCHANGED <<ok, fenced, files, rows, pass, faults>>

\* A cancellation while the upload cleans up, its second one when the first one
\* stopped it: the shielded clean-up goes on, the fence is given up before it is
\* done and nothing is attached.
CancelCleanup(u) ==
    /\ pc[u] \in {"cleanup", "release"} /\ u \in fenced
    /\ Fault("cancel")
    /\ fenced' = fenced \ {u} /\ ok' = [ok EXCEPT ![u] = FALSE]
    /\ UNCHANGED <<pc, straggler, files, rows, pass>>

\* os.replace of the temporary file over the content address.
Replace(u) ==
    /\ stored[DigestOf[u]] # "intact" /\ tmp[u] > 0
    /\ accounted(res, tmp) <= max_stored_bytes
    /\ stored' = [stored EXCEPT ![DigestOf[u]] = "intact"]
    /\ young' = young \cup {DigestOf[u]}
    /\ tmp' = [tmp EXCEPT ![u] = 0]
    /\ UNCHANGED res

\* _commit_once of an upload still waiting for it: the object is there, or it
\* is put there, or the rename is not known to have reached the disk and the
\* commit is tried again.
_commit_once(u) ==
    /\ pc[u] = "commit" /\ quota_free
    /\ \/ /\ stored[DigestOf[u]] = "intact" /\ UNCHANGED files
          /\ pc' = [pc EXCEPT ![u] = "release"] /\ ok' = [ok EXCEPT ![u] = TRUE]
       \/ /\ Replace(u)
          /\ pc' = [pc EXCEPT ![u] = "release"] /\ ok' = [ok EXCEPT ![u] = TRUE]
       \/ Replace(u) /\ UNCHANGED <<pc, ok>>
    /\ UNCHANGED <<fenced, straggler, rows, pass, faults>>

\* The temporary file of an upload cancelled before the file was named: nobody
\* but the retention pass removes it.
OpenInThread(u) ==
    /\ straggler[u] = "open" /\ straggler' = [straggler EXCEPT ![u] = "none"]
    /\ tmp' = [tmp EXCEPT ![u] = 1]
    /\ UNCHANGED <<pc, ok, fenced, res, stored, young, rows, pass, faults>>

\* The commit of a cancelled upload, in the thread the cancellation left.
CommitInThread(u) ==
    /\ straggler[u] = "commit" /\ quota_free
    /\ straggler' = [straggler EXCEPT ![u] = "none"]
    /\ Replace(u) \/ UNCHANGED files
    /\ UNCHANGED <<pc, ok, fenced, rows, pass, faults>>

\* _cleanup_upload: the temporary file is removed, when it can be.
_cleanup_upload(u) ==
    /\ pc[u] = "cleanup"
    /\ tmp' = [tmp EXCEPT ![u] = 0] \/ UNCHANGED tmp
    /\ pc' = [pc EXCEPT ![u] = "release"]
    /\ UNCHANGED <<ok, fenced, straggler, res, stored, young, rows, pass, faults>>

\* _release_reservation: the record stays for as long as bytes carry its
\* token; the lock is given up in any case.
\* Bug: the record goes with the lock and the lock is forgotten.
Bug_released(u) == "held"
released(u) ==
    IF res[u] = "none" \/ tmp[u] = 0 THEN "none" ELSE "free"
_release_reservation(u) ==
    /\ pc[u] = "release"
    /\ res' = [res EXCEPT ![u] = released(u)]
    /\ pc' = [pc EXCEPT ![u] = IF ok[u] THEN "attach" ELSE "done"]
    /\ fenced' = IF ok[u] THEN fenced ELSE fenced \ {u}
    /\ UNCHANGED <<ok, straggler, tmp, stored, young, rows, pass, faults>>

\* _attach_input, _attach_output: the reference is committed under the fence,
\* for a job that still takes files.
Reference(u) ==
    IF job[JobOf[u]] = "live" THEN {<<JobOf[u], DigestOf[u]>>} ELSE {}
Attach(u) ==
    /\ pc[u] = "attach"
    /\ refs' = refs \cup Reference(u)
    /\ pc' = [pc EXCEPT ![u] = "done"] /\ fenced' = fenced \ {u}
    /\ UNCHANGED <<ok, straggler, files, job, late, pass, faults>>

\* The same in the thread of a cancelled request, whose fence is given up.
AttachInThread(u) ==
    /\ straggler[u] = "attach" /\ straggler' = [straggler EXCEPT ![u] = "none"]
    /\ refs' = refs \cup Reference(u)
    /\ late' = late \cup (Reference(u) \ refs)
    /\ UNCHANGED <<pc, ok, fenced, files, job, pass, faults>>

\* The process of an upload dies, with its threads: the locks are free, the
\* files stay.
Crash(u) ==
    /\ pc[u] \notin {"idle", "dead"} /\ Fault("crash")
    /\ pc[u] = "done" => straggler[u] # "none" \/ res[u] = "held"
    /\ pc' = [pc EXCEPT ![u] = "dead"] /\ fenced' = fenced \ {u}
    /\ straggler' = [straggler EXCEPT ![u] = "none"]
    /\ res' = [res EXCEPT ![u] = IF @ = "held" THEN "free" ELSE @]
    /\ UNCHANGED <<ok, tmp, stored, young, rows, pass>>

-----------------------------------------------------------------------------
(* The retention pass *)

DigestsOf(js) == {r[2] : r \in {q \in refs : q[1] \in js}}

\* reconcile_storage takes the fence exclusively, reads some batch of the expired
\* jobs and which of their objects no other job refers to, and takes the quota
\* lock.
\* Bug: what the expired jobs referred to goes, shared or not.
Bug_reclaimable(expired) == DigestsOf(expired)
reclaimable(expired) == DigestsOf(expired) \ DigestsOf(Jobs \ expired)
Expired == {j \in Jobs : job[j] = "expired"}
reconcile_storage ==
    /\ pass.at = "idle" /\ fenced = {}
    /\ \E expired \in SUBSET Expired :
       /\ expired = Expired \/ Cardinality(expired) = batch_limit
       /\ Cardinality(expired) <= batch_limit
       /\ pass' = [at |-> "reservations", budget |-> batch_limit, left |-> FALSE,
                   expired |-> expired, reclaimable |-> reclaimable(expired),
                   active |-> {u \in Uploads : res[u] = "held"}]
    /\ UNCHANGED <<upload, files, rows, faults>>

FreeReservations == {u \in Uploads \ pass.active : res[u] # "none"}
FreeTemporary == {u \in Uploads \ pass.active : tmp[u] > 0}
FreeObjects == {d \in pass.reclaimable : stored[d] # "none" /\ d \notin young}

SweepReservation(u) ==
    /\ pass.at = "reservations" /\ u \in FreeReservations /\ pass.budget > 0
    /\ res' = [res EXCEPT ![u] = "none"]
    /\ pass' = [pass EXCEPT !.budget = @ - 1]
    /\ UNCHANGED <<upload, tmp, stored, young, rows, faults>>
SweepTemporary(u) ==
    /\ pass.at = "temporary" /\ u \in FreeTemporary /\ pass.budget > 0
    /\ tmp' = [tmp EXCEPT ![u] = 0]
    /\ pass' = [pass EXCEPT !.budget = @ - 1]
    /\ UNCHANGED <<upload, res, stored, young, rows, faults>>
SweepObject(d) ==
    /\ pass.at = "objects" /\ d \in FreeObjects /\ pass.budget > 0
    /\ stored' = [stored EXCEPT ![d] = "none"]
    /\ pass' = [pass EXCEPT !.budget = @ - 1]
    /\ UNCHANGED <<upload, res, tmp, young, rows, faults>>

\* A directory is done when nothing removable is left in it or the budget is
\* spent; what a spent budget or the orphan grace leaves is remaining work.
\* Bug: what is left is not remembered.
Bug_NextDirectory(at, removable, then, kept) ==
    /\ pass.at = at /\ (pass.budget = 0 \/ removable = {})
    /\ pass' = [pass EXCEPT !.at = then]
    /\ UNCHANGED <<upload, files, rows, faults>>
NextDirectory(at, removable, then, kept) ==
    /\ pass.at = at /\ (pass.budget = 0 \/ removable = {})
    /\ pass' = [pass EXCEPT !.at = then,
                            !.left = @ \/ removable # {} \/ kept # {}]
    /\ UNCHANGED <<upload, files, rows, faults>>
YoungObjects == {d \in pass.reclaimable : stored[d] # "none" /\ d \in young}
AfterReservations ==
    NextDirectory("reservations", FreeReservations, "temporary", {})
AfterTemporary == NextDirectory("temporary", FreeTemporary, "objects", {})
AfterObjects == NextDirectory("objects", FreeObjects, "rows", YoungObjects)

\* Only a pass that left nothing behind removes the expired jobs and their
\* references: until then they are its authority to delete.  The rows of the
\* reclaimed objects go in the same transaction, which the database refuses while
\* another job's file refers to one (ondelete="RESTRICT").
Restricted == \E r \in refs : r[1] \notin pass.expired /\ r[2] \in pass.reclaimable
DeleteRows ==
    /\ pass.at = "rows"
    /\ IF pass.left \/ Restricted THEN UNCHANGED rows
       ELSE /\ job' = [j \in Jobs |-> IF j \in pass.expired THEN "gone" ELSE job[j]]
            /\ refs' = {r \in refs : r[1] \notin pass.expired}
            /\ late' = {r \in late : r[1] \notin pass.expired}
    /\ pass' = Idle
    /\ UNCHANGED <<upload, files, faults>>

CrashPass ==
    /\ pass.at # "idle" /\ Fault("crash")
    /\ pass' = Idle
    /\ UNCHANGED <<upload, files, rows>>

-----------------------------------------------------------------------------
(* Around the store *)

EndJob(j) ==
    /\ job[j] = "live" /\ job' = [job EXCEPT ![j] = "ended"]
    /\ UNCHANGED <<upload, files, refs, late, pass, faults>>

\* completed_at and updated_at fall behind the retention cutoff.
ExpireJob(j) ==
    /\ job[j] = "ended" /\ job' = [job EXCEPT ![j] = "expired"]
    /\ UNCHANGED <<upload, files, refs, late, pass, faults>>

\* confirm_stopped: the exact Stop receipt of an ended job resolves its residue
\* and moves updated_at.
confirm_stopped(j) ==
    /\ job[j] = "expired" /\ Fault("renewal")
    /\ job' = [job EXCEPT ![j] = "ended"]
    /\ UNCHANGED <<upload, files, refs, late, pass>>

\* An object leaves its orphan grace.
Age(d) ==
    /\ d \in young /\ young' = young \ {d}
    /\ UNCHANGED <<upload, res, tmp, stored, rows, pass, faults>>

\* The file system loses the end of an object.
Damage(d) ==
    /\ stored[d] = "intact" /\ Fault("damage")
    /\ stored' = [stored EXCEPT ![d] = "damaged"]
    /\ UNCHANGED <<upload, res, tmp, young, rows, pass>>

UploadStep(u) ==
    \/ _reserve_once(u) \/ ReserveBusy(u) \/ CancelAwait(u)
    \/ ReadExisting(u) \/ MismatchedExisting(u)
    \/ OpenTemporary(u) \/ WriteChunk(u) \/ StopUpload(u) \/ _commit_once(u)
    \/ _cleanup_upload(u) \/ _release_reservation(u) \/ Attach(u)

PassStep ==
    \/ \E u \in Uploads : SweepReservation(u) \/ SweepTemporary(u)
    \/ \E d \in Digests : SweepObject(d)
    \/ AfterReservations \/ AfterTemporary \/ AfterObjects \/ DeleteRows

Next ==
    \/ \E u \in Uploads : \/ Begin(u) \/ UploadStep(u) \/ CancelCleanup(u)
                          \/ ReserveInThread(u) \/ OpenInThread(u)
                          \/ CommitInThread(u) \/ AttachInThread(u) \/ Crash(u)
    \/ reconcile_storage \/ PassStep \/ CrashPass
    \/ \E j \in Jobs : EndJob(j) \/ ExpireJob(j) \/ confirm_stopped(j)
    \/ \E d \in Digests : Age(d) \/ Damage(d)

Spec == Init /\ [][Next]_vars

\* An upload that runs ends, the worker's housekeeping starts the pass on its
\* interval, and time passes.
Fairness ==
    /\ \A u \in Uploads : WF_vars(UploadStep(u))
    /\ WF_vars(reconcile_storage) /\ WF_vars(PassStep)
    /\ \A d \in Digests : WF_vars(Age(d))
    /\ \A j \in Jobs : WF_vars(ExpireJob(j))

FairSpec == Spec /\ Fairness

-----------------------------------------------------------------------------
(* Properties *)

\* The bytes under the store's root, published, temporary or left behind, and
\* the bytes that uploads with a reservation have still to write never exceed
\* the quota (_reserve_once): uploads that run at once, uploaders that died and
\* temporary files that lost their reservation to a budgeted pass share it.
OnDisk == _stored_bytes + Total(Uploads, Written)
Outstanding(u) == IF pc[u] \in {"open", "writing"} THEN Bytes(u) - Written(u) ELSE 0
WithinQuota == OnDisk + Total(Uploads, Outstanding) <= max_stored_bytes

\* An object a job within its retention refers to is never removed: an upload
\* that found it there, or put it there, and attached it under the shared fence
\* never loses it to a pass that read the references before.  (Two references
\* come too late, for the pass goes by the rows it read: one that the thread of
\* a cancelled request writes after its fence was given up, and those of an
\* expired job that a Stop receipt renews while the pass runs.)
ReferencedStays ==
    "renewal" \notin faults =>
    \A r \in refs \ late : job[r[1]] \in {"live", "ended"} => stored[r[2]] # "none"

\* The same, for an upload that is about to attach: what put_stream returned is
\* still there when the reference is written.
ReturnedIsThere ==
    \A u \in Uploads : pc[u] = "attach" => stored[DigestOf[u]] # "none"

\* The files of an upload that runs are its own: neither the next reservation
\* nor the pass removes its record or its bytes, so that every accepted byte
\* reaches the commit (_reap_abandoned_uploads, reconcile).
LiveUploadKeepsFiles ==
    \A u \in Uploads :
        /\ pc[u] \in {"open", "writing"} => res[u] = "held"
        /\ pc[u] = "writing" => tmp[u] > 0
        /\ pc[u] = "commit" => tmp[u] > 0 \/ stored[DigestOf[u]] # "none"

\* An object's last reference goes only after the object: the rows of expired
\* jobs are the pass's authority to remove it, and a pass that leaves it behind,
\* within its grace or beyond the budget, keeps them (_reconcile_storage_fenced).
\* (A commit whose fence a cancelled clean-up gave up may come in between.)
Attached(d) == \E r \in refs : r[2] = d
EvidenceOutlivesObject ==
    [][\A d \in Digests : Attached(d) /\ ~Attached(d)' /\ "cancel" \notin faults =>
            stored'[d] = "none"]_vars

\* What a dead or cancelled upload left behind is removed in the end, whatever
\* the budget of one pass is, except the reservation of a request cancelled while
\* its thread reserved: that one is locked for as long as the process lives.
Leaked(u) == pc[u] = "done" /\ res[u] = "held"
AbandonedIsReclaimed ==
    \A u \in Uploads :
        []<>(\/ pc[u] \notin {"done", "dead"}
             \/ tmp[u] = 0 /\ (res[u] = "none" \/ Leaked(u)))

\* A job past its retention is removed in the end, over passes that die, take
\* other jobs first, spend their budget or meet an object within its grace.
ExpiredIsCollected == \A j \in Jobs : []<>(job[j] \in {"live", "gone"})

\* Nothing in use is removed: neither an object a job or a returning upload
\* relies on nor the files of an upload that runs (reconcile,
\* _reap_abandoned_uploads).
InUseIsKept == TypeOK /\ ReferencedStays /\ ReturnedIsThere /\ LiveUploadKeepsFiles

\* What is abandoned or expired is removed in the end (reconcile_storage).
ReclaimedInTheEnd == AbandonedIsReclaimed /\ ExpiredIsCollected
=============================================================================
