--------------------------- MODULE BlobStoreProofs ---------------------------
(***************************************************************************)
(* What the blob store keeps for any number of uploads, jobs and objects,  *)
(* any quota and any budget of the retention pass: nothing in use is       *)
(* removed, and no object outlives the rows that authorize its removal.    *)
(***************************************************************************)
EXTENDS BlobStore, TLAPS

\* An upload that may still attach its object, or put it there.
Sharing == {"reserve", "reading", "open", "writing", "commit", "attach"}
\* One that has a reservation.
Reserving == {"open", "writing", "commit"}

\* Whoever may still refer to an object holds the fence; unless one is cancelled
\* so does a clean-up.  Whoever leaves a thread behind is done, or cleans up after
\* a temporary file.
FenceOk(u) ==
    /\ pc[u] \in Sharing \/ (pc[u] = "release" /\ ok[u]) => u \in fenced
    /\ pc[u] \in {"cleanup", "release"} /\ "cancel" \notin faults => u \in fenced
    /\ ok[u] => pc[u] \in {"release", "attach", "done", "dead"}
    /\ straggler[u] \in {"open", "commit"} =>
         pc[u] \in {"cleanup", "release", "done"} /\ ~ok[u]
    /\ straggler[u] \in {"reserve", "attach"} => pc[u] = "done"

\* An upload that runs has its reservation and its bytes, and what it found or
\* put in the store is there.  A reservation is held by an upload that runs or
\* leaked by one whose thread reserved after it was cancelled.
FilesOk(u) ==
    /\ pc[u] \in Reserving => res[u] = "held"
    /\ res[u] = "held" =>
         \/ pc[u] \in Reserving \cup {"cleanup", "release"}
         \/ pc[u] = "done" /\ straggler[u] \notin {"open", "commit"}
    /\ pc[u] = "writing" => tmp[u] > 0
    /\ pc[u] = "commit" => tmp[u] > 0 \/ stored[DigestOf[u]] # "none"
    /\ pc[u] \in {"reading", "attach"} \/ (pc[u] = "release" /\ ok[u])
         => stored[DigestOf[u]] # "none"

\* No upload shares the fence while the pass runs: the references it read lack
\* only those that threads without the fence write, the uploads it spares have
\* no commit to come, and its jobs stay expired unless a late receipt renews one.
PassReads ==
    pass.at # "idle" =>
      /\ fenced = {} /\ reclaimable(pass.expired) \subseteq pass.reclaimable
      /\ \A r \in refs \ late : r[1] \in pass.expired \/ r[2] \notin pass.reclaimable
      /\ "cancel" \notin faults => \A v \in pass.active : straggler[v] # "commit"
      /\ \A j \in pass.expired : job[j] # "live"
      /\ "renewal" \notin faults => \A j \in pass.expired : job[j] = "expired"

\* A pass that leaves nothing behind has met no bytes a thread could still
\* commit, and has removed every object it may.
PassClears ==
    ~pass.left /\ "cancel" \notin faults =>
      /\ pass.at \in {"objects", "rows"} =>
           \A u \in Uploads : straggler[u] = "commit" => tmp[u] = 0
      /\ pass.at = "rows" => \A d \in pass.reclaimable : stored[d] = "none"

\* The types of the variables, the temporary files as a function.
Types == TypeOK /\ tmp \in [Uploads -> Nat]

\* The types in five groups, for the steps that change one of them.
UploadTypes ==
    /\ pc \in [Uploads -> {"idle", "reserve", "reading", "open", "writing",
                           "commit", "cleanup", "release", "attach", "done", "dead"}]
    /\ ok \in [Uploads -> BOOLEAN]
    /\ fenced \subseteq Uploads
    /\ straggler \in [Uploads -> {"none", "reserve", "open", "commit", "attach"}]
TmpTypes ==
    /\ tmp \in [Uploads -> Nat]
    /\ \A u \in Uploads : tmp[u] \in 0..(1 + Size[DigestOf[u]])
FileTypes ==
    /\ res \in [Uploads -> {"none", "held", "free", "torn"}]
    /\ stored \in [Digests -> {"none", "intact", "damaged"}] /\ young \subseteq Digests
RowTypes ==
    /\ job \in [Jobs -> {"live", "ended", "expired", "gone"}]
    /\ refs \subseteq Jobs \X Digests /\ late \subseteq refs
    /\ faults \subseteq FaultKinds
PassTypes ==
    pass \in [at : {"idle", "rows"} \cup InQuota, budget : 0..batch_limit,
              left : BOOLEAN, expired : SUBSET Jobs,
              reclaimable : SUBSET Digests, active : SUBSET Uploads]

\* The inductive invariant.
Inv ==
    /\ Types /\ PassReads /\ PassClears /\ ReferencedStays
    /\ \A u \in Uploads : FenceOk(u) /\ FilesOk(u)

\* The groups are the types, of a state and of its successor.
LEMMA TypeGroups ==
  /\ Types <=> UploadTypes /\ TmpTypes /\ FileTypes /\ RowTypes /\ PassTypes
  /\ Types' <=> UploadTypes' /\ TmpTypes' /\ FileTypes' /\ RowTypes' /\ PassTypes'
BY Zenon DEF Types, TypeOK, UploadTypes, TmpTypes, FileTypes, RowTypes, PassTypes

\* The parts of the inductive invariant, each to be opened on its own.
LEMMA Parts ==
  ASSUME Inv
  PROVE  /\ UploadTypes /\ TmpTypes /\ FileTypes /\ RowTypes /\ PassTypes
         /\ PassReads /\ PassClears /\ ReferencedStays
         /\ \A u \in Uploads : FenceOk(u) /\ FilesOk(u)
BY TypeGroups DEF Inv

(***************************************************************************)
(* The initial state.                                                      *)
(***************************************************************************)
\* The initial state satisfies it.
LEMMA InitInv == Init => Inv
<1> SUFFICES ASSUME Init PROVE Inv
  OBVIOUS
<1>1. Types
  BY BlobAssumption DEF Init, Types, TypeOK, Idle, InQuota, FaultKinds
<1>2. PassReads /\ PassClears /\ ReferencedStays
  BY DEF Init, PassReads, PassClears, ReferencedStays, Idle
<1>3. \A u \in Uploads : FenceOk(u) /\ FilesOk(u)
  BY DEF Init, FenceOk, FilesOk, Sharing, Reserving
<1>4. QED
  BY <1>1, <1>2, <1>3 DEF Inv

(***************************************************************************)
(* The steps of an upload.                                                 *)
(***************************************************************************)
\* An upload that takes the fence (reference_attachment) keeps it.
LEMMA BeginStep ==
  ASSUME Inv, NEW u \in Uploads, Begin(u)
  PROVE  Inv'
<1> USE BlobAssumption DEF Begin, files, rows
<1>1. Types'
  BY DEF Inv, Types, TypeOK, InQuota, FaultKinds
<1>2. ASSUME NEW v \in Uploads PROVE FenceOk(v)'
  BY DEF Inv, Types, TypeOK, FenceOk, Sharing
<1>3. ASSUME NEW v \in Uploads PROVE FilesOk(v)'
  BY DEF Inv, Types, TypeOK, FenceOk, FilesOk, Sharing, Reserving, PassReads
<1>4. PassReads'
  BY DEF Inv, Types, TypeOK, PassReads, FenceOk, Sharing, reclaimable, DigestsOf
<1>5. PassClears'
  BY DEF Inv, Types, TypeOK, PassReads, PassClears, FenceOk, FilesOk, Sharing, InQuota
<1>6. ReferencedStays'
  BY DEF Inv, Types, TypeOK, ReferencedStays, FilesOk
<1>7. QED
  BY <1>1, <1>2, <1>3, <1>4, <1>5, <1>6 DEF Inv

\* Reserving bytes reaps only what no running upload holds (_reserve_once,
\* _reap_abandoned_uploads).
LEMMA ReserveStep ==
  ASSUME Inv, NEW u \in Uploads, _reserve_once(u)
  PROVE  Inv'
<1> USE BlobAssumption DEF _reserve_once, Intact, Refused, Recorded, Fault, reaped, Abandoned,
    rows
<1>0. Types /\ UploadTypes /\ TmpTypes /\ FileTypes /\ RowTypes /\ PassTypes
  BY TypeGroups DEF Inv
<1>1. Types'
  <2>1. UploadTypes'
    BY <1>0 DEF UploadTypes
  <2>2. TmpTypes'
    BY <1>0 DEF TmpTypes
  <2>3. FileTypes'
    BY <1>0 DEF FileTypes
  <2>4. RowTypes'
    BY <1>0 DEF RowTypes, FaultKinds
  <2>5. PassTypes'
    BY <1>0 DEF PassTypes, InQuota
  <2>6. QED
    BY <2>1, <2>2, <2>3, <2>4, <2>5, TypeGroups
<1>2. ASSUME NEW v \in Uploads PROVE FenceOk(v)'
  BY SMTT(60) DEF Inv, Types, TypeOK, FenceOk, Sharing
<1>3. ASSUME NEW v \in Uploads PROVE FilesOk(v)'
  BY SMTT(60) DEF Inv, Types, TypeOK, FenceOk, FilesOk, Sharing, Reserving, PassReads
<1>4. PassReads'
  BY SMTT(60) DEF Inv, Types, TypeOK, PassReads, FenceOk, Sharing, reclaimable, DigestsOf
<1>5. PassClears'
  BY DEF Inv, Types, TypeOK, PassReads, PassClears, FenceOk, FilesOk, Sharing, InQuota
<1>6. ReferencedStays'
  BY DEF Inv, Types, TypeOK, ReferencedStays, FilesOk
<1>7. QED
  BY ZenonT(60), <1>1, <1>2, <1>3, <1>4, <1>5, <1>6 DEF Inv

\* An upload that gives up before it has a reservation has no files to lose.
LEMMA AbandonStep ==
  ASSUME Inv, NEW u \in Uploads, ReserveBusy(u) \/ MismatchedExisting(u)
  PROVE  Inv'
<1> USE BlobAssumption DEF ReserveBusy, MismatchedExisting, Abandon, files, rows
<1>1. Types'
  BY ZenonT(60) DEF Inv, Types, TypeOK, InQuota, FaultKinds
<1>2. ASSUME NEW v \in Uploads PROVE FenceOk(v)'
  BY DEF Inv, Types, TypeOK, FenceOk, Sharing
<1>3. ASSUME NEW v \in Uploads PROVE FilesOk(v)'
  BY DEF Inv, Types, TypeOK, FenceOk, FilesOk, Sharing, Reserving, PassReads
<1>4. PassReads'
  BY DEF Inv, Types, TypeOK, PassReads, FenceOk, Sharing, reclaimable, DigestsOf
<1>5. PassClears'
  BY DEF Inv, Types, TypeOK, PassReads, PassClears, FenceOk, FilesOk, Sharing, InQuota
<1>6. ReferencedStays'
  BY DEF Inv, Types, TypeOK, ReferencedStays, FilesOk
<1>7. QED
  BY <1>1, <1>2, <1>3, <1>4, <1>5, <1>6 DEF Inv

\* A request cancelled while it reserves or attaches gives up the fence and leaves
\* its thread behind.
LEMMA CancelAwaitStep ==
  ASSUME Inv, NEW u \in Uploads, CancelAwait(u)
  PROVE  Inv'
<1> USE BlobAssumption DEF CancelAwait, files, rows
<1>0. Types /\ UploadTypes /\ TmpTypes /\ FileTypes /\ RowTypes /\ PassTypes
  BY TypeGroups DEF Inv
<1>1. Types'
  <2>1. UploadTypes'
    BY <1>0 DEF UploadTypes
  <2>2. TmpTypes'
    BY <1>0 DEF TmpTypes
  <2>3. FileTypes'
    BY <1>0 DEF FileTypes
  <2>4. RowTypes'
    BY <1>0 DEF RowTypes, FaultKinds
  <2>5. PassTypes'
    BY <1>0 DEF PassTypes, InQuota
  <2>6. QED
    BY <2>1, <2>2, <2>3, <2>4, <2>5, TypeGroups
<1>2. ASSUME NEW v \in Uploads PROVE FenceOk(v)'
  BY DEF Inv, Types, TypeOK, FenceOk, Sharing
<1>3. ASSUME NEW v \in Uploads PROVE FilesOk(v)'
  BY DEF Inv, Types, TypeOK, FenceOk, FilesOk, Sharing, Reserving, PassReads
<1>4. PassReads'
  BY DEF Inv, Types, TypeOK, PassReads, FenceOk, Sharing, reclaimable, DigestsOf
<1>5. PassClears'
  BY DEF Inv, Types, TypeOK, PassReads, PassClears, FenceOk, FilesOk, Sharing, InQuota
<1>6. ReferencedStays'
  BY DEF Inv, Types, TypeOK, ReferencedStays, FilesOk
<1>7. QED
  BY <1>1, <1>2, <1>3, <1>4, <1>5, <1>6 DEF Inv

\* The thread a cancelled request left reserves late: the reservation is held and
\* nobody's, and what is reaped belongs to no upload that runs.
LEMMA ReserveThreadStep ==
  ASSUME Inv, NEW u \in Uploads, ReserveInThread(u)
  PROVE  Inv'
<1> USE BlobAssumption DEF ReserveInThread, Intact, Refused, Recorded, reaped, Abandoned, rows
<1>0. Types /\ UploadTypes /\ TmpTypes /\ FileTypes /\ RowTypes /\ PassTypes
  BY TypeGroups DEF Inv
<1>1. Types'
  <2>1. UploadTypes'
    BY <1>0 DEF UploadTypes
  <2>2. TmpTypes'
    BY <1>0 DEF TmpTypes
  <2>3. FileTypes'
    BY <1>0 DEF FileTypes
  <2>4. RowTypes'
    BY <1>0 DEF RowTypes, FaultKinds
  <2>5. PassTypes'
    BY SMTT(60), <1>0 DEF PassTypes, InQuota
  <2>6. QED
    BY SMTT(60), <2>1, <2>2, <2>3, <2>4, <2>5, TypeGroups
<1>2. ASSUME NEW v \in Uploads PROVE FenceOk(v)'
  BY SMTT(60) DEF Inv, Types, TypeOK, FenceOk, Sharing
<1>3. ASSUME NEW v \in Uploads PROVE FilesOk(v)'
  BY SMTT(60) DEF Inv, Types, TypeOK, FenceOk, FilesOk, Sharing, Reserving, PassReads
<1>4. PassReads'
  BY SMTT(60) DEF Inv, Types, TypeOK, PassReads, FenceOk, Sharing, reclaimable, DigestsOf
<1>5. PassClears'
  BY SMTT(60) DEF Inv, Types, TypeOK, PassReads, PassClears, FenceOk, FilesOk, Sharing, InQuota
<1>6. ReferencedStays'
  BY DEF Inv, Types, TypeOK, ReferencedStays, FilesOk
<1>7. QED
  BY SMTT(60), <1>1, <1>2, <1>3, <1>4, <1>5, <1>6 DEF Inv

\* The object an upload found is still there when it was read to its end.
LEMMA ReadStep ==
  ASSUME Inv, NEW u \in Uploads, ReadExisting(u)
  PROVE  Inv'
<1> USE BlobAssumption DEF ReadExisting, files, rows
<1>1. Types'
  BY DEF Inv, Types, TypeOK, InQuota, FaultKinds
<1>2. ASSUME NEW v \in Uploads PROVE FenceOk(v)'
  BY DEF Inv, Types, TypeOK, FenceOk, Sharing
<1>3. ASSUME NEW v \in Uploads PROVE FilesOk(v)'
  BY SMTT(60) DEF Inv, Types, TypeOK, FenceOk, FilesOk, Sharing, Reserving, PassReads
<1>4. PassReads'
  BY DEF Inv, Types, TypeOK, PassReads, FenceOk, Sharing, reclaimable, DigestsOf
<1>5. PassClears'
  BY DEF Inv, Types, TypeOK, PassReads, PassClears, FenceOk, FilesOk, Sharing, InQuota
<1>6. ReferencedStays'
  BY DEF Inv, Types, TypeOK, ReferencedStays, FilesOk
<1>7. QED
  BY SMTT(60), <1>1, <1>2, <1>3, <1>4, <1>5, <1>6 DEF Inv

\* The temporary file of an upload (tempfile.mkstemp).
LEMMA OpenStep ==
  ASSUME Inv, NEW u \in Uploads, OpenTemporary(u)
  PROVE  Inv'
<1> USE BlobAssumption DEF OpenTemporary, rows
<1>0. Types /\ UploadTypes /\ TmpTypes /\ FileTypes /\ RowTypes /\ PassTypes
  BY TypeGroups DEF Inv
<1>1. Types'
  <2>1. UploadTypes'
    BY <1>0 DEF UploadTypes
  <2>2. TmpTypes'
    BY <1>0 DEF TmpTypes
  <2>3. FileTypes'
    BY <1>0 DEF FileTypes
  <2>4. RowTypes'
    BY <1>0 DEF RowTypes, FaultKinds
  <2>5. PassTypes'
    BY SMTT(60), <1>0 DEF PassTypes, InQuota
  <2>6. QED
    BY <2>1, <2>2, <2>3, <2>4, <2>5, TypeGroups
<1>2. ASSUME NEW v \in Uploads PROVE FenceOk(v)'
  BY SMTT(60) DEF Inv, Types, TypeOK, FenceOk, Sharing
<1>3. ASSUME NEW v \in Uploads PROVE FilesOk(v)'
  BY SMTT(60) DEF Inv, Types, TypeOK, FenceOk, FilesOk, Sharing, Reserving, PassReads
<1>4. PassReads'
  BY DEF Inv, Types, TypeOK, PassReads, FenceOk, Sharing, reclaimable, DigestsOf
<1>5. PassClears'
  BY DEF Inv, Types, TypeOK, PassReads, PassClears, FenceOk, FilesOk, Sharing, InQuota
<1>6. ReferencedStays'
  BY DEF Inv, Types, TypeOK, ReferencedStays, FilesOk
<1>7. QED
  BY <1>1, <1>2, <1>3, <1>4, <1>5, <1>6 DEF Inv

\* A byte more, never beyond the size of the object.
LEMMA WriteStep ==
  ASSUME Inv, NEW u \in Uploads, WriteChunk(u)
  PROVE  Inv'
<1> USE BlobAssumption DEF WriteChunk, Written, Bytes, rows
<1>0. Types /\ UploadTypes /\ TmpTypes /\ FileTypes /\ RowTypes /\ PassTypes
  BY TypeGroups DEF Inv
<1>1. Types'
  <2>1. UploadTypes'
    BY <1>0 DEF UploadTypes
  <2>2. TmpTypes'
    BY <1>0 DEF TmpTypes
  <2>3. FileTypes'
    BY <1>0 DEF FileTypes
  <2>4. RowTypes'
    BY <1>0 DEF RowTypes, FaultKinds
  <2>5. PassTypes'
    BY <1>0 DEF PassTypes, InQuota
  <2>6. QED
    BY <2>1, <2>2, <2>3, <2>4, <2>5, TypeGroups
<1>2. ASSUME NEW v \in Uploads PROVE FenceOk(v)'
  BY SMTT(60) DEF Inv, Types, TypeOK, FenceOk, Sharing
<1>3. ASSUME NEW v \in Uploads PROVE FilesOk(v)'
  BY SMTT(60) DEF Inv, Types, TypeOK, FenceOk, FilesOk, Sharing, Reserving, PassReads
<1>4. PassReads'
  BY SMTT(60) DEF Inv, Types, TypeOK, PassReads, FenceOk, Sharing, reclaimable, DigestsOf
<1>5. PassClears'
  BY DEF Inv, Types, TypeOK, PassReads, PassClears, FenceOk, FilesOk, Sharing, InQuota
<1>6. ReferencedStays'
  BY DEF Inv, Types, TypeOK, ReferencedStays, FilesOk
<1>7. QED
  BY <1>1, <1>2, <1>3, <1>4, <1>5, <1>6 DEF Inv

\* A cancelled upload may leave its thread behind, and goes on to clean up.
LEMMA StopStep ==
  ASSUME Inv, NEW u \in Uploads, StopUpload(u)
  PROVE  Inv'
<1> USE BlobAssumption DEF StopUpload, files, rows
<1>1. Types'
  BY DEF Inv, Types, TypeOK, InQuota, FaultKinds
<1>2. ASSUME NEW v \in Uploads PROVE FenceOk(v)'
  BY SMTT(60) DEF Inv, Types, TypeOK, FenceOk, Sharing
<1>3. ASSUME NEW v \in Uploads PROVE FilesOk(v)'
  BY SMTT(60) DEF Inv, Types, TypeOK, FenceOk, FilesOk, Sharing, Reserving, PassReads
<1>4. PassReads'
  BY SMTT(60) DEF Inv, Types, TypeOK, PassReads, FenceOk, Sharing, reclaimable, DigestsOf
<1>5. PassClears'
  BY DEF Inv, Types, TypeOK, PassReads, PassClears, FenceOk, FilesOk, Sharing, InQuota
<1>6. ReferencedStays'
  BY ZenonT(60) DEF Inv, Types, TypeOK, ReferencedStays, FilesOk
<1>7. QED
  BY ZenonT(60), <1>1, <1>2, <1>3, <1>4, <1>5, <1>6 DEF Inv

\* A cancelled clean-up gives up the fence and attaches nothing.
LEMMA CancelStep ==
  ASSUME Inv, NEW u \in Uploads, CancelCleanup(u)
  PROVE  Inv'
<1> USE BlobAssumption DEF CancelCleanup, Fault, files, rows
<1>1. Types'
  BY SMTT(60) DEF Inv, Types, TypeOK, InQuota, FaultKinds
<1>2. ASSUME NEW v \in Uploads PROVE FenceOk(v)'
  BY SMTT(60) DEF Inv, Types, TypeOK, FenceOk, Sharing
<1>3. ASSUME NEW v \in Uploads PROVE FilesOk(v)'
  BY SMTT(60) DEF Inv, Types, TypeOK, FenceOk, FilesOk, Sharing, Reserving, PassReads
<1>4. PassReads'
  BY SMTT(60) DEF Inv, Types, TypeOK, PassReads, FenceOk, Sharing, reclaimable, DigestsOf
<1>5. PassClears'
  BY DEF Inv, Types, TypeOK, PassReads, PassClears, FenceOk, FilesOk, Sharing, InQuota
<1>6. ReferencedStays'
  BY DEF Inv, Types, TypeOK, ReferencedStays, FilesOk
<1>7. QED
  BY SMTT(60), <1>1, <1>2, <1>3, <1>4, <1>5, <1>6 DEF Inv

\* A commit publishes the object or finds it (_commit_once).
LEMMA CommitStep ==
  ASSUME Inv, NEW u \in Uploads, _commit_once(u)
  PROVE  Inv'
<1> USE BlobAssumption DEF _commit_once, Replace, quota_free, files, rows
<1>0. Types /\ UploadTypes /\ TmpTypes /\ FileTypes /\ RowTypes /\ PassTypes
  BY TypeGroups DEF Inv
<1>1. Types'
  <2>1. UploadTypes'
    BY Zenon, <1>0 DEF UploadTypes
  <2>2. TmpTypes'
    BY <1>0 DEF TmpTypes
  <2>3. FileTypes'
    BY <1>0 DEF FileTypes
  <2>4. RowTypes'
    BY <1>0 DEF RowTypes, FaultKinds
  <2>5. PassTypes'
    BY ZenonT(60), <1>0 DEF PassTypes, InQuota
  <2>6. QED
    BY <2>1, <2>2, <2>3, <2>4, <2>5, TypeGroups
<1>2. ASSUME NEW v \in Uploads PROVE FenceOk(v)'
  BY SMTT(60) DEF Inv, Types, TypeOK, FenceOk, Sharing
<1>3. ASSUME NEW v \in Uploads PROVE FilesOk(v)'
  BY SMTT(60) DEF Inv, Types, TypeOK, FenceOk, FilesOk, Sharing, Reserving, PassReads
<1>4. PassReads'
  BY ZenonT(60) DEF Inv, Types, TypeOK, PassReads, FenceOk, Sharing, reclaimable, DigestsOf
<1>5. PassClears'
  BY SMTT(60) DEF Inv, Types, TypeOK, PassReads, PassClears, FenceOk, FilesOk, Sharing, InQuota
<1>6. ReferencedStays'
  BY DEF Inv, Types, TypeOK, ReferencedStays, FilesOk
<1>7. QED
  BY SMTT(60), <1>1, <1>2, <1>3, <1>4, <1>5, <1>6 DEF Inv

\* The thread a cancelled upload left opens its temporary file late.
LEMMA OpenThreadStep ==
  ASSUME Inv, NEW u \in Uploads, OpenInThread(u)
  PROVE  Inv'
<1> USE BlobAssumption DEF OpenInThread, rows
<1>0. Types /\ UploadTypes /\ TmpTypes /\ FileTypes /\ RowTypes /\ PassTypes
  BY TypeGroups DEF Inv
<1>1. Types'
  <2>1. UploadTypes'
    BY <1>0 DEF UploadTypes
  <2>2. TmpTypes'
    BY <1>0 DEF TmpTypes
  <2>3. FileTypes'
    BY <1>0 DEF FileTypes
  <2>4. RowTypes'
    BY <1>0 DEF RowTypes, FaultKinds
  <2>5. PassTypes'
    BY SMTT(60), <1>0 DEF PassTypes, InQuota
  <2>6. QED
    BY <2>1, <2>2, <2>3, <2>4, <2>5, TypeGroups
<1>2. ASSUME NEW v \in Uploads PROVE FenceOk(v)'
  BY SMTT(60) DEF Inv, Types, TypeOK, FenceOk, Sharing
<1>3. ASSUME NEW v \in Uploads PROVE FilesOk(v)'
  BY SMTT(60) DEF Inv, Types, TypeOK, FenceOk, FilesOk, Sharing, Reserving, PassReads
<1>4. PassReads'
  BY SMTT(60) DEF Inv, Types, TypeOK, PassReads, FenceOk, Sharing, reclaimable, DigestsOf
<1>5. PassClears'
  BY SMTT(60) DEF Inv, Types, TypeOK, PassReads, PassClears, FenceOk, FilesOk, Sharing, InQuota
<1>6. ReferencedStays'
  BY DEF Inv, Types, TypeOK, ReferencedStays, FilesOk
<1>7. QED
  BY <1>1, <1>2, <1>3, <1>4, <1>5, <1>6 DEF Inv

\* The thread a cancelled upload left commits late: it takes no file of an
\* upload that runs.
LEMMA CommitThreadStep ==
  ASSUME Inv, NEW u \in Uploads, CommitInThread(u)
  PROVE  Inv'
<1> USE BlobAssumption DEF CommitInThread, Replace, quota_free, files, rows
<1>0. Types /\ UploadTypes /\ TmpTypes /\ FileTypes /\ RowTypes /\ PassTypes
  BY TypeGroups DEF Inv
<1>1. Types'
  <2>1. UploadTypes'
    BY <1>0 DEF UploadTypes
  <2>2. TmpTypes'
    BY <1>0 DEF TmpTypes
  <2>3. FileTypes'
    BY <1>0 DEF FileTypes
  <2>4. RowTypes'
    BY <1>0 DEF RowTypes, FaultKinds
  <2>5. PassTypes'
    BY SMTT(60), <1>0 DEF PassTypes, InQuota
  <2>6. QED
    BY SMTT(60), <2>1, <2>2, <2>3, <2>4, <2>5, TypeGroups
<1>2. ASSUME NEW v \in Uploads PROVE FenceOk(v)'
  BY SMTT(60) DEF Inv, Types, TypeOK, FenceOk, Sharing
<1>3. ASSUME NEW v \in Uploads PROVE FilesOk(v)'
  <2>1. FilesOk(v) /\ FenceOk(u) /\ pc' = pc /\ ok' = ok /\ res' = res
    BY DEF Inv
  <2>2. stored[DigestOf[v]] # "none" => stored'[DigestOf[v]] # "none"
    BY <1>0 DEF FileTypes
  <2>3. v # u => tmp'[v] = tmp[v]
    BY <1>0 DEF TmpTypes
  <2>4. pc[u] \notin {"writing", "commit"}
    BY SMTT(60), <2>1 DEF FenceOk
  <2>5. QED
    BY <2>1, <2>2, <2>3, <2>4 DEF FilesOk
<1>4. PassReads'
  BY SMTT(60) DEF Inv, Types, TypeOK, PassReads, FenceOk, Sharing, reclaimable, DigestsOf
<1>5. PassClears'
  BY SMTT(60) DEF Inv, Types, TypeOK, PassReads, PassClears, FenceOk, FilesOk, Sharing, InQuota
<1>6. ReferencedStays'
  BY DEF Inv, Types, TypeOK, ReferencedStays, FilesOk
<1>7. QED
  BY SMTT(60), <1>1, <1>2, <1>3, <1>4, <1>5, <1>6 DEF Inv

\* The clean-up of an upload takes its own temporary file (_cleanup_upload).
LEMMA CleanupStep ==
  ASSUME Inv, NEW u \in Uploads, _cleanup_upload(u)
  PROVE  Inv'
<1> USE BlobAssumption DEF _cleanup_upload, rows
<1>0. Types /\ UploadTypes /\ TmpTypes /\ FileTypes /\ RowTypes /\ PassTypes
  BY TypeGroups DEF Inv
<1>1. Types'
  <2>1. UploadTypes'
    BY <1>0 DEF UploadTypes
  <2>2. TmpTypes'
    BY <1>0 DEF TmpTypes
  <2>3. FileTypes'
    BY <1>0 DEF FileTypes
  <2>4. RowTypes'
    BY <1>0 DEF RowTypes, FaultKinds
  <2>5. PassTypes'
    BY SMTT(60), <1>0 DEF PassTypes, InQuota
  <2>6. QED
    BY <2>1, <2>2, <2>3, <2>4, <2>5, TypeGroups
<1>2. ASSUME NEW v \in Uploads PROVE FenceOk(v)'
  BY SMTT(60) DEF Inv, Types, TypeOK, FenceOk, Sharing
<1>3. ASSUME NEW v \in Uploads PROVE FilesOk(v)'
  BY SMTT(60) DEF Inv, Types, TypeOK, FenceOk, FilesOk, Sharing, Reserving, PassReads
<1>4. PassReads'
  BY SMTT(60) DEF Inv, Types, TypeOK, PassReads, FenceOk, Sharing, reclaimable, DigestsOf
<1>5. PassClears'
  BY DEF Inv, Types, TypeOK, PassReads, PassClears, FenceOk, FilesOk, Sharing, InQuota
<1>6. ReferencedStays'
  BY ZenonT(60) DEF Inv, Types, TypeOK, ReferencedStays, FilesOk
<1>7. QED
  BY <1>1, <1>2, <1>3, <1>4, <1>5, <1>6 DEF Inv

\* The reservation is given up and the object stays (_release_reservation).
LEMMA ReleaseStep ==
  ASSUME Inv, NEW u \in Uploads, _release_reservation(u)
  PROVE  Inv'
<1> USE BlobAssumption DEF _release_reservation, released, rows
<1>1. Types'
  BY SMTT(60) DEF Inv, Types, TypeOK, InQuota, FaultKinds
<1>2. ASSUME NEW v \in Uploads PROVE FenceOk(v)'
  BY SMTT(60) DEF Inv, Types, TypeOK, FenceOk, Sharing
<1>3. ASSUME NEW v \in Uploads PROVE FilesOk(v)'
  BY SMTT(60) DEF Inv, Types, TypeOK, FenceOk, FilesOk, Sharing, Reserving, PassReads
<1>4. PassReads'
  BY SMTT(60) DEF Inv, Types, TypeOK, PassReads, FenceOk, Sharing, reclaimable, DigestsOf
<1>5. PassClears'
  BY SMTT(60) DEF Inv, Types, TypeOK, PassReads, PassClears, FenceOk, FilesOk, Sharing, InQuota
<1>6. ReferencedStays'
  BY DEF Inv, Types, TypeOK, ReferencedStays, FilesOk
<1>7. QED
  BY ZenonT(60), <1>1, <1>2, <1>3, <1>4, <1>5, <1>6 DEF Inv

\* A reference is written to an object that is there (_attach_input,
\* _attach_output).
LEMMA AttachStep ==
  ASSUME Inv, NEW u \in Uploads, Attach(u)
  PROVE  Inv'
<1> USE BlobAssumption DEF Attach, Reference, files
<1>0. Types /\ UploadTypes /\ TmpTypes /\ FileTypes /\ RowTypes /\ PassTypes
  BY TypeGroups DEF Inv
<1>1. Types'
  <2>1. UploadTypes'
    BY <1>0 DEF UploadTypes
  <2>2. TmpTypes'
    BY <1>0 DEF TmpTypes
  <2>3. FileTypes'
    BY <1>0 DEF FileTypes
  <2>4. RowTypes'
    BY <1>0 DEF RowTypes, FaultKinds
  <2>5. PassTypes'
    BY SMTT(60), <1>0 DEF PassTypes, InQuota
  <2>6. QED
    BY <2>1, <2>2, <2>3, <2>4, <2>5, TypeGroups
<1>2. ASSUME NEW v \in Uploads PROVE FenceOk(v)'
  BY SMTT(60) DEF Inv, Types, TypeOK, FenceOk, Sharing
<1>3. ASSUME NEW v \in Uploads PROVE FilesOk(v)'
  BY SMTT(60) DEF Inv, Types, TypeOK, FenceOk, FilesOk, Sharing, Reserving, PassReads
<1>4. PassReads'
  BY SMTT(60) DEF Inv, Types, TypeOK, PassReads, FenceOk, Sharing, reclaimable, DigestsOf
<1>5. PassClears'
  BY SMTT(60) DEF Inv, Types, TypeOK, PassReads, PassClears, FenceOk, FilesOk, Sharing, InQuota
<1>6. ReferencedStays'
  BY DEF Inv, Types, TypeOK, ReferencedStays, FilesOk
<1>7. QED
  BY <1>1, <1>2, <1>3, <1>4, <1>5, <1>6 DEF Inv

\* The thread a cancelled request left writes its reference without the fence: the
\* pass that runs does not know it, and it is on record as late.
LEMMA AttachThreadStep ==
  ASSUME Inv, NEW u \in Uploads, AttachInThread(u)
  PROVE  Inv'
<1> USE BlobAssumption DEF AttachInThread, Reference, files
<1>0. Types /\ UploadTypes /\ TmpTypes /\ FileTypes /\ RowTypes /\ PassTypes
  BY TypeGroups DEF Inv
<1>1. Types'
  <2>1. UploadTypes'
    BY <1>0 DEF UploadTypes
  <2>2. TmpTypes'
    BY <1>0 DEF TmpTypes
  <2>3. FileTypes'
    BY <1>0 DEF FileTypes
  <2>4. RowTypes'
    BY <1>0 DEF RowTypes, FaultKinds
  <2>5. PassTypes'
    BY SMTT(60), <1>0 DEF PassTypes, InQuota
  <2>6. QED
    BY <2>1, <2>2, <2>3, <2>4, <2>5, TypeGroups
<1>2. ASSUME NEW v \in Uploads PROVE FenceOk(v)'
  BY SMTT(60) DEF Inv, Types, TypeOK, FenceOk, Sharing
<1>3. ASSUME NEW v \in Uploads PROVE FilesOk(v)'
  BY SMTT(60) DEF Inv, Types, TypeOK, FenceOk, FilesOk, Sharing, Reserving, PassReads
<1>4. PassReads'
  BY SMTT(60) DEF Inv, Types, TypeOK, PassReads, FenceOk, Sharing, reclaimable, DigestsOf
<1>5. PassClears'
  BY SMTT(60) DEF Inv, Types, TypeOK, PassReads, PassClears, FenceOk, FilesOk, Sharing, InQuota
<1>6. ReferencedStays'
  BY DEF Inv, Types, TypeOK, ReferencedStays, FilesOk
<1>7. QED
  BY SMTT(60), <1>1, <1>2, <1>3, <1>4, <1>5, <1>6 DEF Inv

\* An uploader dies: its locks are free and its files stay.
LEMMA CrashStep ==
  ASSUME Inv, NEW u \in Uploads, Crash(u)
  PROVE  Inv'
<1> USE BlobAssumption DEF Crash, Fault, rows
<1>1. Types'
  BY SMTT(60) DEF Inv, Types, TypeOK, InQuota, FaultKinds
<1>2. ASSUME NEW v \in Uploads PROVE FenceOk(v)'
  BY SMTT(60) DEF Inv, Types, TypeOK, FenceOk, Sharing
<1>3. ASSUME NEW v \in Uploads PROVE FilesOk(v)'
  BY SMTT(60) DEF Inv, Types, TypeOK, FenceOk, FilesOk, Sharing, Reserving, PassReads
<1>4. PassReads'
  BY SMTT(60) DEF Inv, Types, TypeOK, PassReads, FenceOk, Sharing, reclaimable, DigestsOf
<1>5. PassClears'
  BY SMTT(60) DEF Inv, Types, TypeOK, PassReads, PassClears, FenceOk, FilesOk, Sharing, InQuota
<1>6. ReferencedStays'
  BY SMTT(60) DEF Inv, Types, TypeOK, ReferencedStays, FilesOk
<1>7. QED
  BY ZenonT(60), <1>1, <1>2, <1>3, <1>4, <1>5, <1>6 DEF Inv

(***************************************************************************)
(* The steps of the retention pass and around the store.                   *)
(***************************************************************************)
\* The pass starts alone and reads the references it goes by
\* (reconcile_storage).
LEMMA PassStartStep ==
  ASSUME Inv, reconcile_storage
  PROVE  Inv'
<1> USE BlobAssumption DEF reconcile_storage, upload, files, rows
<1>0. Types /\ UploadTypes /\ TmpTypes /\ FileTypes /\ RowTypes /\ PassTypes
  BY SMTT(60), TypeGroups DEF Inv
<1>1. Types'
  <2>1. UploadTypes'
    BY <1>0 DEF UploadTypes
  <2>2. TmpTypes'
    BY SMTT(60), <1>0 DEF TmpTypes
  <2>3. FileTypes'
    BY <1>0 DEF FileTypes
  <2>4. RowTypes'
    BY SMTT(60), <1>0 DEF RowTypes, FaultKinds
  <2>5. PassTypes'
    <3>1. \A E \in SUBSET Jobs : reclaimable(E) \subseteq Digests
      BY SMTT(60), <1>0 DEF RowTypes, reclaimable, DigestsOf
    <3>2. Expired \subseteq Jobs
      BY Zenon DEF Expired
    <3>3. QED
      BY SMTT(60), <1>0, <3>1, <3>2 DEF PassTypes, InQuota
  <2>6. QED
    BY SMTT(60), <2>1, <2>2, <2>3, <2>4, <2>5, TypeGroups
<1>2. ASSUME NEW v \in Uploads PROVE FenceOk(v)' /\ FilesOk(v)'
  BY SMTT(60) DEF Inv, Types, TypeOK, FenceOk, FilesOk, Sharing, Reserving, PassReads
<1>4. PassReads'
  <2>1. PICK E \in SUBSET Expired :
          pass' = [at |-> "reservations", budget |-> batch_limit, left |-> FALSE,
                   expired |-> E, reclaimable |-> reclaimable(E),
                   active |-> {v \in Uploads : res[v] = "held"}]
    BY Zenon
  <2>2. fenced' = {} /\ pass'.expired = E /\ pass'.reclaimable = reclaimable(E)
        /\ pass'.active = {v \in Uploads : res[v] = "held"}
        /\ refs' = refs /\ late' = late /\ job' = job /\ straggler' = straggler
    BY <2>1
  <2>3. reclaimable(pass.expired)' = reclaimable(E)
    BY ZenonT(60), <2>2 DEF reclaimable, DigestsOf
  <2>4. ASSUME NEW r \in refs \ late PROVE r[1] \in E \/ r[2] \notin reclaimable(E)
    <3>1. r \in refs /\ r[1] \in Jobs
      BY SMTT(60), <1>0, <2>4 DEF RowTypes
    <3>2. QED
      BY SMTT(60), <3>1 DEF reclaimable, DigestsOf
  <2>5. ASSUME NEW v \in Uploads, res[v] = "held", straggler[v] = "commit"
        PROVE  "cancel" \in faults
    BY SMTT(60), <2>5 DEF Inv, FenceOk, FilesOk, Reserving, Sharing
  <2>6. \A j \in E : job[j] = "expired"
    BY SMTT(60) DEF Expired
  <2>7. "cancel" \notin faults' => \A v \in pass'.active : straggler'[v] # "commit"
    BY SMTT(60), <2>2, <2>5
  <2>8. QED
    BY <2>2, <2>3, <2>4, <2>6, <2>7 DEF PassReads
<1>5. PassClears'
  BY SMTT(60) DEF Inv, Types, TypeOK, PassReads, PassClears, InQuota, Idle
<1>6. ReferencedStays'
  BY DEF Inv, Types, TypeOK, PassReads, ReferencedStays, reclaimable, DigestsOf
<1>7. QED
  BY SMTT(60), <1>1, <1>2, <1>4, <1>5, <1>6 DEF Inv

\* The pass removes reservations nobody held when it started.
LEMMA SweepReservationStep ==
  ASSUME Inv, NEW u \in Uploads, SweepReservation(u)
  PROVE  Inv'
<1> USE BlobAssumption DEF SweepReservation, FreeReservations, upload, rows
<1>1. Types'
  BY DEF Inv, Types, TypeOK, InQuota, FaultKinds, Idle
<1>2. ASSUME NEW v \in Uploads PROVE FenceOk(v)' /\ FilesOk(v)'
  BY DEF Inv, Types, TypeOK, FenceOk, FilesOk, Sharing, Reserving, PassReads
<1>4. PassReads'
  BY DEF Inv, Types, TypeOK, PassReads, FenceOk, FilesOk, Reserving, reclaimable, DigestsOf, Idle
<1>5. PassClears'
  BY DEF Inv, Types, TypeOK, PassReads, PassClears, InQuota, Idle
<1>6. ReferencedStays'
  BY DEF Inv, Types, TypeOK, PassReads, ReferencedStays, reclaimable, DigestsOf
<1>7. QED
  BY <1>1, <1>2, <1>4, <1>5, <1>6 DEF Inv

\* The pass removes temporary files of uploads that do not run.
LEMMA SweepTemporaryStep ==
  ASSUME Inv, NEW u \in Uploads, SweepTemporary(u)
  PROVE  Inv'
<1> USE BlobAssumption DEF SweepTemporary, FreeTemporary, upload, rows
<1>0. Types /\ UploadTypes /\ TmpTypes /\ FileTypes /\ RowTypes /\ PassTypes
  BY TypeGroups DEF Inv
<1>1. Types'
  <2>1. UploadTypes'
    BY <1>0 DEF UploadTypes
  <2>2. TmpTypes'
    BY <1>0 DEF TmpTypes
  <2>3. FileTypes'
    BY <1>0 DEF FileTypes
  <2>4. RowTypes'
    BY <1>0 DEF RowTypes, FaultKinds
  <2>5. PassTypes'
    BY <1>0 DEF PassTypes, InQuota
  <2>6. QED
    BY <2>1, <2>2, <2>3, <2>4, <2>5, TypeGroups
<1>2. ASSUME NEW v \in Uploads PROVE FenceOk(v)' /\ FilesOk(v)'
  BY DEF Inv, Types, TypeOK, FenceOk, FilesOk, Sharing, Reserving, PassReads
<1>4. PassReads'
  BY DEF Inv, Types, TypeOK, PassReads, FenceOk, FilesOk, Reserving, reclaimable, DigestsOf, Idle
<1>5. PassClears'
  BY DEF Inv, Types, TypeOK, PassReads, PassClears, InQuota, Idle
<1>6. ReferencedStays'
  BY DEF Inv, Types, TypeOK, PassReads, ReferencedStays, reclaimable, DigestsOf
<1>7. QED
  BY <1>1, <1>2, <1>4, <1>5, <1>6 DEF Inv

\* The pass removes only objects no job within its retention refers to.
LEMMA SweepObjectStep ==
  ASSUME Inv, NEW d \in Digests, SweepObject(d)
  PROVE  Inv'
<1> USE BlobAssumption DEF SweepObject, FreeObjects, upload, rows
<1>1. Types'
  BY SMTT(60) DEF Inv, Types, TypeOK, InQuota, FaultKinds, Idle
<1>2. ASSUME NEW v \in Uploads PROVE FenceOk(v)' /\ FilesOk(v)'
  BY DEF Inv, Types, TypeOK, FenceOk, FilesOk, Sharing, Reserving, PassReads
<1>4. PassReads'
  BY DEF Inv, Types, TypeOK, PassReads, FenceOk, FilesOk, Reserving, reclaimable, DigestsOf, Idle
<1>5. PassClears'
  BY DEF Inv, Types, TypeOK, PassReads, PassClears, InQuota, Idle
<1>6. ReferencedStays'
  BY DEF Inv, Types, TypeOK, PassReads, ReferencedStays, reclaimable, DigestsOf
<1>7. QED
  BY <1>1, <1>2, <1>4, <1>5, <1>6 DEF Inv

\* A pass that goes on to the next directory knows whether it left anything.
LEMMA NextDirectoryStep ==
  ASSUME Inv, AfterReservations \/ AfterTemporary \/ AfterObjects
  PROVE  Inv'
<1> USE BlobAssumption DEF AfterReservations, AfterTemporary, AfterObjects, NextDirectory,
    FreeReservations, FreeTemporary, FreeObjects, YoungObjects, upload, files, rows
<1>0. Types /\ UploadTypes /\ TmpTypes /\ FileTypes /\ RowTypes /\ PassTypes
  BY TypeGroups DEF Inv
<1>1. Types'
  <2>1. UploadTypes'
    BY <1>0 DEF UploadTypes
  <2>2. TmpTypes'
    BY <1>0 DEF TmpTypes
  <2>3. FileTypes'
    BY <1>0 DEF FileTypes
  <2>4. RowTypes'
    BY <1>0 DEF RowTypes, FaultKinds
  <2>5. PassTypes'
    BY ZenonT(60), <1>0 DEF PassTypes, InQuota
  <2>6. QED
    BY <2>1, <2>2, <2>3, <2>4, <2>5, TypeGroups
<1>2. ASSUME NEW v \in Uploads PROVE FenceOk(v)' /\ FilesOk(v)'
  BY DEF Inv, Types, TypeOK, FenceOk, FilesOk, Sharing, Reserving, PassReads
<1>3. pass.at # "idle" /\ pass'.expired = pass.expired /\ pass'.active = pass.active
      /\ pass'.reclaimable = pass.reclaimable
  BY Zenon, <1>0 DEF PassTypes
<1>4. PassReads'
  <2>1. reclaimable(pass.expired)' = reclaimable(pass.expired)
    BY <1>3 DEF reclaimable, DigestsOf
  <2>2. PassReads
    BY DEF Inv
  <2>3. QED
    BY <1>3, <2>1, <2>2 DEF PassReads
<1>5. PassClears'
  <2>1. PassReads /\ PassClears
    BY DEF Inv
  <2>2. CASE AfterReservations
    BY <1>0, <2>2 DEF PassTypes, PassClears
  <2>3. CASE AfterTemporary
    <3>1. SUFFICES ASSUME ~pass'.left, "cancel" \notin faults
                   PROVE  \A v \in Uploads : straggler[v] = "commit" => tmp[v] = 0
      BY <1>0, <2>3 DEF PassTypes, PassClears
    <3>2. FreeTemporary = {}
      BY Zenon, <1>0, <2>3, <3>1 DEF PassTypes
    <3>3. \A v \in pass.active : straggler[v] # "commit"
      BY <1>3, <2>1, <3>1 DEF PassReads
    <3>4. QED
      BY <1>0, <3>2, <3>3 DEF TmpTypes
  <2>4. CASE AfterObjects
    BY Zenon, <1>0, <1>3, <2>1, <2>4 DEF PassTypes, PassClears
  <2>5. QED
    BY <2>2, <2>3, <2>4
<1>6. ReferencedStays'
  BY DEF Inv, Types, TypeOK, PassReads, ReferencedStays, reclaimable, DigestsOf
<1>7. QED
  BY <1>1, <1>2, <1>4, <1>5, <1>6 DEF Inv

\* The rows of expired jobs go with their references only.
LEMMA DeleteStep ==
  ASSUME Inv, DeleteRows
  PROVE  Inv'
<1> USE BlobAssumption DEF DeleteRows, upload, files, rows
<1>1. Types'
  BY SMTT(60) DEF Inv, Types, TypeOK, InQuota, FaultKinds, Idle
<1>2. ASSUME NEW v \in Uploads PROVE FenceOk(v)' /\ FilesOk(v)'
  BY ZenonT(60) DEF Inv, Types, TypeOK, FenceOk, FilesOk, Sharing, Reserving, PassReads
<1>4. PassReads'
  BY SMTT(60) DEF Inv, Types, TypeOK, PassReads, FenceOk, FilesOk, Reserving, reclaimable, DigestsOf, Idle
<1>5. PassClears'
  BY SMTT(60) DEF Inv, Types, TypeOK, PassReads, PassClears, InQuota, Idle
<1>6. ReferencedStays'
  BY DEF Inv, Types, TypeOK, PassReads, ReferencedStays, reclaimable, DigestsOf
<1>7. QED
  BY ZenonT(60), <1>1, <1>2, <1>4, <1>5, <1>6 DEF Inv

\* The pass dies and forgets what it read.
LEMMA CrashPassStep ==
  ASSUME Inv, CrashPass
  PROVE  Inv'
<1> USE BlobAssumption DEF CrashPass, Fault, upload, files, rows
<1>1. Types'
  BY SMTT(60) DEF Inv, Types, TypeOK, InQuota, FaultKinds, Idle
<1>2. ASSUME NEW v \in Uploads PROVE FenceOk(v)' /\ FilesOk(v)'
  BY ZenonT(60) DEF Inv, Types, TypeOK, FenceOk, FilesOk, Sharing, Reserving, PassReads
<1>4. PassReads'
  BY SMTT(60) DEF Inv, Types, TypeOK, PassReads, FenceOk, FilesOk, Reserving, reclaimable,
     DigestsOf, Idle
<1>5. PassClears'
  BY SMTT(60) DEF Inv, Types, TypeOK, PassReads, PassClears, InQuota, Idle
<1>6. ReferencedStays'
  BY SMTT(60) DEF Inv, Types, TypeOK, PassReads, ReferencedStays, reclaimable, DigestsOf
<1>7. QED
  BY ZenonT(60), <1>1, <1>2, <1>4, <1>5, <1>6 DEF Inv

\* A job ends, expires, or is renewed by a late receipt.
LEMMA JobStep ==
  ASSUME Inv, NEW j \in Jobs, EndJob(j) \/ ExpireJob(j) \/ confirm_stopped(j)
  PROVE  Inv'
<1> USE BlobAssumption DEF EndJob, ExpireJob, confirm_stopped, Fault, upload, files
<1>0. Types /\ UploadTypes /\ TmpTypes /\ FileTypes /\ RowTypes /\ PassTypes
  BY SMTT(60), TypeGroups DEF Inv
<1>1. Types'
  <2>1. UploadTypes'
    BY SMTT(60), <1>0 DEF UploadTypes
  <2>2. TmpTypes'
    BY <1>0 DEF TmpTypes
  <2>3. FileTypes'
    BY <1>0 DEF FileTypes
  <2>4. RowTypes'
    BY Zenon, <1>0 DEF RowTypes, FaultKinds
  <2>5. PassTypes'
    BY ZenonT(60), <1>0 DEF PassTypes, InQuota
  <2>6. QED
    BY SMTT(60), <2>1, <2>2, <2>3, <2>4, <2>5, TypeGroups
<1>2. ASSUME NEW v \in Uploads PROVE FenceOk(v)' /\ FilesOk(v)'
  BY SMTT(60) DEF Inv, Types, TypeOK, FenceOk, FilesOk, Sharing, Reserving, PassReads
<1>4. PassReads'
  BY SMTT(60) DEF Inv, Types, TypeOK, PassReads, FenceOk, FilesOk, Reserving, reclaimable, DigestsOf, Idle
<1>5. PassClears'
  BY SMTT(60) DEF Inv, Types, TypeOK, PassReads, PassClears, InQuota, Idle
<1>6. ReferencedStays'
  BY DEF Inv, Types, TypeOK, PassReads, ReferencedStays, reclaimable, DigestsOf
<1>7. QED
  BY SMTT(60), <1>1, <1>2, <1>4, <1>5, <1>6 DEF Inv

\* An object leaves its grace or is cut short.
LEMMA ObjectStep ==
  ASSUME Inv, NEW d \in Digests, Age(d) \/ Damage(d)
  PROVE  Inv'
<1> USE BlobAssumption DEF Age, Damage, Fault, upload, rows
<1>0. Types /\ UploadTypes /\ TmpTypes /\ FileTypes /\ RowTypes /\ PassTypes
  BY TypeGroups DEF Inv
<1>1. Types'
  <2>1. UploadTypes'
    BY <1>0 DEF UploadTypes
  <2>2. TmpTypes'
    BY SMTT(60), <1>0 DEF TmpTypes
  <2>3. FileTypes'
    BY <1>0 DEF FileTypes
  <2>4. RowTypes'
    BY Zenon, <1>0 DEF RowTypes, FaultKinds
  <2>5. PassTypes'
    BY ZenonT(60), <1>0 DEF PassTypes, InQuota
  <2>6. QED
    BY SMTT(60), <2>1, <2>2, <2>3, <2>4, <2>5, TypeGroups
<1>2. ASSUME NEW v \in Uploads PROVE FenceOk(v)' /\ FilesOk(v)'
  BY SMTT(60) DEF Inv, Types, TypeOK, FenceOk, FilesOk, Sharing, Reserving, PassReads
<1>4. PassReads'
  BY SMTT(60) DEF Inv, Types, TypeOK, PassReads, FenceOk, FilesOk, Reserving, reclaimable, DigestsOf, Idle
<1>5. PassClears'
  BY SMTT(60) DEF Inv, Types, TypeOK, PassReads, PassClears, InQuota, Idle
<1>6. ReferencedStays'
  BY DEF Inv, Types, TypeOK, PassReads, ReferencedStays, reclaimable, DigestsOf
<1>7. QED
  BY SMTT(60), <1>1, <1>2, <1>4, <1>5, <1>6 DEF Inv

\* A step that changes nothing.
LEMMA StutterStep ==
  ASSUME Inv, UNCHANGED vars
  PROVE  Inv'
<1> USE BlobAssumption DEF vars, upload, files, rows
<1>1. Types'
  BY ZenonT(60) DEF Inv, Types, TypeOK, InQuota, FaultKinds, Idle
<1>2. ASSUME NEW v \in Uploads PROVE FenceOk(v)' /\ FilesOk(v)'
  BY ZenonT(60) DEF Inv, Types, TypeOK, FenceOk, FilesOk, Sharing, Reserving, PassReads
<1>4. PassReads'
  BY SMTT(60) DEF Inv, Types, TypeOK, PassReads, FenceOk, FilesOk, Reserving, reclaimable,
     DigestsOf, Idle
<1>5. PassClears'
  BY SMTT(60) DEF Inv, Types, TypeOK, PassReads, PassClears, InQuota, Idle
<1>6. ReferencedStays'
  BY DEF Inv, Types, TypeOK, PassReads, ReferencedStays, reclaimable, DigestsOf
<1>7. QED
  BY SMTT(60), <1>1, <1>2, <1>4, <1>5, <1>6 DEF Inv

\* Every step keeps the invariant.
LEMMA NextInv == Inv /\ [Next]_vars => Inv'
<1> SUFFICES ASSUME Inv, [Next]_vars PROVE Inv'
  OBVIOUS
<1>1. ASSUME NEW u \in Uploads,
             \/ Begin(u) \/ UploadStep(u) \/ CancelCleanup(u)
             \/ ReserveInThread(u) \/ OpenInThread(u)
             \/ CommitInThread(u) \/ AttachInThread(u) \/ Crash(u)
      PROVE  Inv'
  BY <1>1, BeginStep, ReserveStep, AbandonStep, CancelAwaitStep, ReserveThreadStep, ReadStep,
     OpenStep, WriteStep, StopStep, CancelStep, CommitStep, OpenThreadStep, CommitThreadStep,
     CleanupStep, ReleaseStep, AttachStep, AttachThreadStep, CrashStep, Zenon DEF UploadStep
<1>2. CASE PassStep
  BY <1>2, SweepReservationStep, SweepTemporaryStep, SweepObjectStep, NextDirectoryStep,
     DeleteStep, Zenon DEF PassStep
<1>3. CASE reconcile_storage \/ CrashPass
  BY <1>3, PassStartStep, CrashPassStep, Zenon
<1>4. ASSUME NEW j \in Jobs, EndJob(j) \/ ExpireJob(j) \/ confirm_stopped(j) PROVE Inv'
  BY <1>4, JobStep, Zenon
<1>5. ASSUME NEW d \in Digests, Age(d) \/ Damage(d) PROVE Inv'
  BY <1>5, ObjectStep, Zenon
<1>6. CASE UNCHANGED vars
  BY <1>6, StutterStep, Zenon
<1>7. QED
  BY <1>1, <1>2, <1>3, <1>4, <1>5, <1>6, Zenon DEF Next

\* The inductive invariant holds in every reachable state.
THEOREM Invariance == Spec => []Inv
BY InitInv, NextInv, PTL DEF Spec

\* Nothing in use is removed: for any number of uploads, jobs and objects, every
\* object that a job within its retention attached under the fence or a returning
\* upload relies on is there, and an upload that runs keeps its record and its
\* bytes, whatever the threads of cancelled requests still do (reconcile,
\* _reap_abandoned_uploads).
THEOREM InUseStays == Spec => []InUseIsKept
<1>1. Inv => InUseIsKept
  BY SMTT(60) DEF Inv, Types, FilesOk, Reserving, InUseIsKept, ReturnedIsThere, LiveUploadKeepsFiles
<1>2. QED
  BY <1>1, Invariance, PTL

\* Only DeleteRows takes a reference away, and only of an object that is gone.
LEMMA RemovalStep ==
  ASSUME Inv, [Next]_vars, NEW d \in Digests,
         Attached(d), ~Attached(d)', "cancel" \notin faults
  PROVE  stored'[d] = "none"
<1>1. PICK r \in refs : r[2] = d
  BY DEF Attached
<1>2. r \notin refs'
  BY SMTT(60), <1>1 DEF Attached
<1>3. DeleteRows /\ ~pass.left /\ ~Restricted
  BY Zenon, <1>1, <1>2 DEF Next, vars, upload, files, rows, Begin, UploadStep, _reserve_once,
     ReserveBusy, Abandon, ReadExisting, MismatchedExisting, OpenTemporary, WriteChunk,
     StopUpload, _commit_once, _cleanup_upload, _release_reservation, Attach, CancelAwait,
     CancelCleanup, ReserveInThread, OpenInThread, CommitInThread, AttachInThread, Crash,
     reconcile_storage, PassStep, SweepReservation, SweepTemporary, SweepObject,
     AfterReservations, AfterTemporary, AfterObjects, NextDirectory, DeleteRows, CrashPass,
     EndJob, ExpireJob, confirm_stopped, Age, Damage
<1>4. \A q \in refs : q[2] = d => q[1] \in pass.expired
  BY <1>3 DEF DeleteRows, Attached
<1>5. d \in reclaimable(pass.expired)
  BY SMTT(60), <1>1, <1>4 DEF reclaimable, DigestsOf
<1>6. d \in pass.reclaimable /\ stored[d] = "none"
  BY <1>3, <1>5 DEF Inv, PassReads, PassClears, DeleteRows
<1>7. QED
  BY <1>3, <1>6 DEF DeleteRows, files

\* An object's last reference goes only after the object: the rows of expired
\* jobs stay for as long as a pass has left an object behind
\* (_reconcile_storage_fenced).
THEOREM EvidenceStays == Spec => EvidenceOutlivesObject
<1>1. Inv /\ [Next]_vars =>
        [\A d \in Digests : Attached(d) /\ ~Attached(d)' /\ "cancel" \notin faults =>
            stored'[d] = "none"]_vars
  BY RemovalStep, Zenon
<1>2. QED
  BY <1>1, Invariance, PTL DEF Spec, EvidenceOutlivesObject
=============================================================================
