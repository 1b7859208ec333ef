------------------------ MODULE CertificateRotation ------------------------
(***************************************************************************)
(* Renewal of the client certificate of one Spark.                         *)
(*                                                                         *)
(* The agent keeps three things on disk: the identity it uses, a staged    *)
(* replacement and the key of the replacement it is asking for.  The       *)
(* Controller keeps one row per certificate, one renewal intent per node   *)
(* and a list of issuances it ended without knowing their effect.  The     *)
(* certificate authority keeps a journal of what it signed and a           *)
(* revocation list.  A renewal crosses all three: several Controller       *)
(* requests for the same node can be under way at once, because the agent  *)
(* gives up on a request that the Controller goes on serving.              *)
(*                                                                         *)
(* Serials stand for issuance bindings: a binding's serial is drawn at     *)
(* random and never reused.  Serial 1 is the certificate the node has when *)
(* the model starts.  Enrollment itself, damaged projections and expired   *)
(* certificates are left out.                                              *)
(***************************************************************************)
EXTENDS Integers, FiniteSets

CONSTANTS
    Handlers,    \* renewal requests the Controller serves at a time
    Keys,        \* keys the agent may generate, with the one it started with
    FirstKey,    \* the key of certificate 1
    NoKey,       \* no pending key
    Nobody,      \* no request asked
    MaxSerial,   \* bindings the authority can prepare
    Attempts,    \* attempts of one request (four in the code)
    Rounds,      \* how often the certificate comes due
    MaxFaults    \* crashes, lost messages, failed transactions, lost keys
                 \* and the operator's revocation

NoSerial == 0

ASSUME RotationAssumption ==
    /\ IsFiniteSet(Handlers) /\ Nobody \notin Handlers
    /\ FirstKey \in Keys /\ NoKey \notin Keys
    /\ MaxSerial \in Nat \ {0} /\ Attempts \in Nat \ {0}
    /\ Rounds \in Nat /\ MaxFaults \in Nat

Serials == 1..MaxSerial

VARIABLES
    bind,       \* serial -> the binding prepared for it
    cert,       \* serial -> state of the Controller's certificate row
    confirmed,  \* rows whose revocation the authority has confirmed
    evidence,   \* serial -> issuance ended without knowing its effect
    intent,     \* the node's renewal intent
    retired,    \* the node was revoked by the operator
    journal,    \* serial -> what the authority signed
    crl,        \* serials on the authority's revocation list
    handlers,   \* the requests being served
    sweeper,    \* the serial the worker is revoking
    operator,   \* the serials a node revocation has yet to revoke, and the
                \* one whose confirmation it is about to record
    agent,      \* the Spark's identity files and what it is doing
    rounds,     \* renewals still to come due
    faults

ctrl == <<bind, cert, confirmed, evidence, intent, retired>>
ca == <<journal, crl>>
vars == <<bind, cert, confirmed, evidence, intent, retired, journal, crl,
          handlers, sweeper, operator, agent, rounds, faults>>

Unbound == [key |-> NoKey, src |-> NoSerial, gen |-> 0]
NoIntent == [serial |-> NoSerial, state |-> "none", fresh |-> TRUE]
Idle == [todo |-> {}, at |-> NoSerial]
Free == [pc |-> "free", key |-> NoKey, src |-> NoSerial, claim |-> NoSerial,
         competing |-> FALSE, retiring |-> NoSerial, end |-> FALSE,
         tries |-> 0, answer |-> NoSerial]

HandlerPcs == {"free", "read", "claim", "observe", "sign", "commit", "persist",
               "revoke", "confirm", "end", "prepare", "retire", "finish",
               "close", "reply"}
\* Answers that are no certificate: the outcome is unknown, or it is refused.
Failed == -1
Refused == -2

TypeOK ==
    /\ bind \in [Serials -> [key : Keys \cup {NoKey},
                             src : Serials \cup {NoSerial}, gen : 0..MaxSerial]]
    /\ cert \in [Serials -> {"none", "staged", "active", "revoked"}]
    /\ confirmed \subseteq Serials
    /\ evidence \in [Serials -> {"none", "owed", "done"}]
    /\ intent \in [serial : Serials \cup {NoSerial}, fresh : BOOLEAN,
                   state : {"none", "issuing", "revocation-pending"}]
    /\ retired \in BOOLEAN
    /\ journal \in [Serials -> {"absent", "pending", "signed"}]
    /\ crl \subseteq Serials
    /\ handlers \in [Handlers ->
          [pc : HandlerPcs, key : Keys \cup {NoKey},
           src : Serials \cup {NoSerial}, claim : Serials \cup {NoSerial},
           competing : BOOLEAN, retiring : Serials \cup {NoSerial},
           end : BOOLEAN, tries : 0..Attempts,
           answer : Serials \cup {NoSerial, Failed, Refused}]]
    /\ sweeper \in Serials \cup {NoSerial}
    /\ operator \in [todo : SUBSET Serials, at : Serials \cup {NoSerial}]
    /\ agent \in [pc : {"idle", "waiting", "stage", "activate", "publish",
                        "unstage", "clear", "refused", "down"},
                  active : Serials, staged : Serials \cup {NoSerial},
                  pending : Keys \cup {NoKey}, asked : Handlers \cup {Nobody},
                  issued : Serials \cup {NoSerial}]
    /\ rounds \in 0..Rounds
    /\ faults \in 0..MaxFaults

Init ==
    /\ bind = [s \in Serials |->
                 IF s = 1 THEN [Unbound EXCEPT !.key = FirstKey, !.gen = 1]
                 ELSE Unbound]
    /\ cert = [s \in Serials |-> IF s = 1 THEN "active" ELSE "none"]
    /\ confirmed = {} /\ crl = {}
    /\ evidence = [s \in Serials |-> "none"]
    /\ intent = NoIntent
    /\ retired = FALSE
    /\ journal = [s \in Serials |-> IF s = 1 THEN "signed" ELSE "absent"]
    /\ handlers = [h \in Handlers |-> Free]
    /\ sweeper = NoSerial
    /\ operator = Idle
    /\ agent = [pc |-> "idle", active |-> 1, staged |-> NoSerial,
                pending |-> NoKey, asked |-> Nobody, issued |-> NoSerial]
    /\ rounds = Rounds
    /\ faults = 0

Spend == faults < MaxFaults /\ faults' = faults + 1

(***************************************************************************)
(* Bookkeeping shared by the requests.                                     *)
(***************************************************************************)

Rows == {s \in Serials : cert[s] # "none"}
Staged == {s \in Serials : cert[s] = "staged"}

\* The binding of the next random serial for a key, source and generation.
prepare_request(k, src, gen) ==
    LET s == CHOOSE t \in Serials : /\ bind[t] = Unbound
                                    /\ \A u \in 1..(t - 1) : bind[u] # Unbound
    IN  [serial |-> s,
         bind |-> [bind EXCEPT ![s] = [key |-> k, src |-> src, gen |-> gen]]]

Preparable == \E s \in Serials : bind[s] = Unbound

require_rotation_source(src) == ~retired /\ cert[src] = "active"

\* An ended issuance is kept as one to be revoked, unless its certificate is
\* the credential in use.
retain_ended_effect(s) ==
    IF cert[s] = "active" \/ evidence[s] # "none" THEN evidence
    ELSE [evidence EXCEPT ![s] = "owed"]

\* Bug: the intent is deleted and what it may have issued forgotten.
Bug_ending(s) == [intent |-> NoIntent, evidence |-> evidence]

\* The intent is deleted, with what it may have issued retained.
ending(s) == [intent |-> NoIntent, evidence |-> retain_ended_effect(s)]

\* What a request does after an error.  A follower's wait is no reason to end
\* the intent; an uncertain effect is.
raised(r, kind) ==
    IF r.competing THEN [r EXCEPT !.pc = "end"]
    ELSE IF kind = "denied" THEN [r EXCEPT !.pc = "reply", !.answer = Refused]
    ELSE LET e == [r EXCEPT !.end = @ \/ kind = "uncertain",
                            !.claim = NoSerial, !.retiring = NoSerial]
         IN  IF r.tries > 1 THEN [e EXCEPT !.pc = "read", !.tries = @ - 1]
             ELSE IF e.end THEN [e EXCEPT !.pc = "close"]
             ELSE [e EXCEPT !.pc = "reply", !.answer = Failed]

Goto(h, r) == handlers' = [handlers EXCEPT ![h] = r]
At(h, pc) == handlers[h].pc = pc

(***************************************************************************)
(* A renewal request at the Controller.                                    *)
(***************************************************************************)

\* _renew_once looks at the intent and the staged row outside any lock, and
\* takes the recovery road when either belongs to another request.  Recovery
\* authenticates the source and first drives a competing issuance.
renew_read(h) ==
    LET r == handlers[h]
        other == intent.serial # NoSerial /\ bind[intent.serial].key # r.key
        competing ==
            \/ /\ intent.serial # NoSerial
               /\ \/ other
                  \/ bind[intent.serial].src # r.src
                  \/ intent.state # "issuing"
            \/ \E s \in Staged : bind[s].key # r.key
    IN  /\ At(h, "read")
        /\ Goto(h, IF ~competing THEN [r EXCEPT !.pc = "claim"]
                   ELSE IF ~require_rotation_source(r.src)
                        THEN raised(r, "denied")
                   ELSE IF other /\ intent.state = "issuing"
                        THEN [r EXCEPT !.pc = "observe", !.competing = TRUE,
                                       !.claim = intent.serial]
                   ELSE [r EXCEPT !.pc = "prepare"])
        /\ UNCHANGED <<ctrl, ca, sweeper, operator, agent, rounds, faults>>

\* The staged certificate of this key answers a repeated request.
replay_staged(h) ==
    /\ \E s \in Staged :
         Goto(h, [handlers[h] EXCEPT !.pc = "reply", !.answer = s])
    /\ UNCHANGED ctrl

\* One transaction: replay the staged certificate of this key, follow the
\* intent of this key, or write a new intent with its exact binding.  Another
\* request's intent is live here whatever its age: the attempt took its clock
\* before it looked, and found no such intent then.
_claim_rotation(h) ==
    LET r == handlers[h]
        mine == /\ intent.serial # NoSerial
                /\ bind[intent.serial].key = r.key
                /\ bind[intent.serial].src = r.src
        gen == 1 + (CHOOSE g \in 0..MaxSerial :
                      /\ \E s \in Rows : bind[s].gen = g
                      /\ \A s \in Rows : bind[s].gen <= g)
        fresh == prepare_request(r.key, r.src, gen)
    IN  /\ At(h, "claim")
        /\ IF ~require_rotation_source(r.src)
           THEN Goto(h, raised(r, "denied")) /\ UNCHANGED ctrl
           ELSE IF \E s \in Staged : bind[s].key # r.key
           THEN Goto(h, raised(r, "in-progress")) /\ UNCHANGED ctrl
           ELSE IF Staged # {}
           THEN replay_staged(h)
           ELSE IF mine
           THEN /\ intent' = [intent EXCEPT !.state = "issuing", !.fresh = TRUE]
                /\ Goto(h, [r EXCEPT !.pc = "observe", !.claim = intent.serial])
                /\ UNCHANGED <<bind, cert, confirmed, evidence, retired>>
           ELSE IF intent.serial # NoSerial
           THEN Goto(h, raised(r, "in-progress")) /\ UNCHANGED ctrl
           ELSE /\ Preparable
                /\ bind' = fresh.bind
                /\ intent' = [serial |-> fresh.serial, state |-> "issuing",
                              fresh |-> TRUE]
                /\ Goto(h, [r EXCEPT !.pc = "observe", !.claim = fresh.serial])
                /\ UNCHANGED <<cert, confirmed, evidence, retired>>
        /\ UNCHANGED <<ca, sweeper, operator, agent, rounds, faults>>

\* The authority's checks of a request for serial s, the same when it
\* observes, reserves and commits.
SourceRevoked(s) == bind[s].src \in crl \cup confirmed

\* observe_node: a signed request is replayed, a reserved one is reported
\* pending, an unknown one is signed next.
observe_node(h) ==
    LET r == handlers[h]
        s == r.claim
    IN  /\ At(h, "observe")
        /\ Goto(h, IF journal[s] # "absent" /\ s \in crl
                   THEN raised(r, "denied")
                   ELSE IF journal[s] = "signed"
                   THEN [r EXCEPT !.pc = "persist"]
                   ELSE IF SourceRevoked(s) THEN raised(r, "denied")
                   ELSE IF journal[s] = "pending" THEN raised(r, "in-progress")
                   ELSE IF cert[s] # "none" THEN raised(r, "uncertain")
                   ELSE [r EXCEPT !.pc = "sign"])
        /\ UNCHANGED <<ctrl, ca, sweeper, operator, agent, rounds, faults>>

\* renew_node, first transaction: the request is reserved in the journal.
sign_reserve(h) ==
    LET r == handlers[h]
        s == r.claim
        refused == \/ journal[s] # "absent" /\ s \in crl
                   \/ journal[s] = "absent" /\ cert[s] # "none"
                   \/ journal[s] # "signed" /\ SourceRevoked(s)
    IN  /\ At(h, "sign")
        /\ Goto(h, IF refused THEN raised(r, "denied")
                   ELSE IF journal[s] = "signed" THEN [r EXCEPT !.pc = "persist"]
                   ELSE [r EXCEPT !.pc = "commit"])
        /\ journal' = IF refused \/ journal[s] # "absent" THEN journal
                      ELSE [journal EXCEPT ![s] = "pending"]
        /\ UNCHANGED <<ctrl, crl, sweeper, operator, agent, rounds, faults>>

\* renew_node, second transaction: the signature is kept unless its serial or
\* its source was revoked meanwhile.
sign_commit(h) ==
    LET r == handlers[h]
        s == r.claim
        refused == s \in crl \/ (journal[s] # "signed" /\ SourceRevoked(s))
    IN  /\ At(h, "commit")
        /\ Goto(h, IF refused THEN raised(r, "denied")
                   ELSE [r EXCEPT !.pc = "persist"])
        /\ journal' = IF refused THEN journal
                      ELSE [journal EXCEPT ![s] = "signed"]
        /\ UNCHANGED <<ctrl, crl, sweeper, operator, agent, rounds, faults>>

\* What follows when the issuance of the claim succeeded: a competing one is
\* only recovered, another key's recovered one is left for the next attempt.
issued_next(r) ==
    IF r.competing THEN [r EXCEPT !.pc = "prepare", !.competing = FALSE,
                                  !.claim = NoSerial]
    ELSE IF bind[r.claim].key # r.key THEN raised(r, "in-progress")
    ELSE [r EXCEPT !.pc = "reply", !.answer = r.claim]

\* _persist_rotation: the result becomes the staged row only under the very
\* intent that asked for it; when the node or the source was revoked meanwhile
\* it is recorded as revoked, with the revocation at the authority to follow.
_persist_rotation(h) ==
    LET r == handlers[h]
        s == r.claim
        denied == ~require_rotation_source(bind[s].src)
    IN  /\ At(h, "persist")
        /\ IF intent.serial # s
           THEN /\ Goto(h, IF cert[s] \in {"staged", "active"}
                           THEN issued_next(r) ELSE raised(r, "in-progress"))
                /\ UNCHANGED ctrl
           ELSE IF intent.state # "issuing"
           THEN Goto(h, raised(r, "in-progress")) /\ UNCHANGED ctrl
           ELSE /\ cert' = [cert EXCEPT ![s] = IF denied THEN "revoked" ELSE "staged"]
                /\ intent' = IF denied
                             THEN [intent EXCEPT !.state = "revocation-pending",
                                                 !.fresh = TRUE]
                             ELSE NoIntent
                /\ Goto(h, IF denied THEN [r EXCEPT !.pc = "revoke"]
                           ELSE issued_next(r))
                /\ UNCHANGED <<bind, confirmed, evidence, retired>>
        /\ UNCHANGED <<ca, sweeper, operator, agent, rounds, faults>>

\* A denied result is revoked at the authority at once ...
_revoke_denied_rotation(h) ==
    LET r == handlers[h]
    IN  /\ At(h, "revoke")
        /\ crl' = crl \cup {r.claim}
        /\ Goto(h, [r EXCEPT !.pc = "confirm"])
        /\ UNCHANGED <<ctrl, journal, sweeper, operator, agent, rounds, faults>>

\* Bug: only the certificate row is brought up to date.
Bug_Confirmation(s) ==
    /\ confirmed' = IF cert[s] = "none" THEN confirmed ELSE confirmed \cup {s}
    /\ UNCHANGED <<evidence, intent>>

\* The rows after the authority confirmed the revocation of serial s.
Confirmation(s) ==
    /\ confirmed' = IF cert[s] = "none" THEN confirmed ELSE confirmed \cup {s}
    /\ evidence' = IF evidence[s] = "none" THEN evidence
                   ELSE [evidence EXCEPT ![s] = "done"]
    /\ intent' = IF /\ cert[s] # "none"
                    /\ intent.state = "revocation-pending"
                    /\ bind[intent.serial].gen = bind[s].gen
                 THEN NoIntent ELSE intent

\* ... and the confirmation recorded, which ends the intent.
_confirm_remote_revocation(h) ==
    LET r == handlers[h]
    IN  /\ At(h, "confirm")
        /\ Confirmation(r.claim)
        /\ Goto(h, raised(r, IF retired THEN "denied" ELSE "in-progress"))
        /\ UNCHANGED <<bind, cert, retired, ca, sweeper, operator, agent,
                       rounds, faults>>

\* _end_rotation without a CSR: the obsolete competing intent, whichever it is
\* by now, no longer holds up the newer request.
end_competing(h) ==
    LET r == handlers[h]
    IN  /\ At(h, "end")
        /\ IF intent.serial = NoSerial THEN UNCHANGED <<intent, evidence>>
           ELSE /\ intent' = ending(intent.serial).intent
                /\ evidence' = ending(intent.serial).evidence
        /\ Goto(h, [r EXCEPT !.pc = "prepare", !.competing = FALSE,
                             !.claim = NoSerial])
        /\ UNCHANGED <<bind, cert, confirmed, retired, ca, sweeper, operator,
                       agent,
                       rounds, faults>>

\* The revoked row a revocation-pending intent is waiting for.
Retiring == {s \in Serials : /\ cert[s] = "revoked" /\ s \notin confirmed
                             /\ bind[s].gen \in {bind[intent.serial].gen - 1,
                                                 bind[intent.serial].gen}}

\* One transaction of the recovery: end an intent of another source, resume a
\* pending revocation, or deny the staged certificate of another key and
\* record the replacement to be issued once it is revoked.
_prepare_rotation_recovery(h) ==
    LET r == handlers[h]
        i == intent.serial
        other == Staged # {} /\ \A s \in Staged : bind[s].key # r.key
        old == CHOOSE s \in Staged : TRUE
        fresh == prepare_request(r.key, r.src, bind[old].gen + 1)
    IN  /\ At(h, "prepare")
        /\ IF ~require_rotation_source(r.src)
           THEN Goto(h, raised(r, "denied")) /\ UNCHANGED ctrl
           ELSE IF i # NoSerial /\ bind[i].src # r.src
           THEN /\ intent' = ending(i).intent
                /\ evidence' = ending(i).evidence
                /\ Goto(h, [r EXCEPT !.pc = "read"])
                /\ UNCHANGED <<bind, cert, confirmed, retired>>
           ELSE IF i # NoSerial /\ intent.state = "issuing"
           THEN /\ Goto(h, IF bind[i].key = r.key THEN [r EXCEPT !.pc = "read"]
                           ELSE raised(r, "uncertain"))
                /\ UNCHANGED ctrl
           ELSE IF i # NoSerial /\ Retiring = {}
           THEN /\ intent' = NoIntent
                /\ Goto(h, [r EXCEPT !.pc = "read"])
                /\ UNCHANGED <<bind, cert, confirmed, evidence, retired>>
           ELSE IF i # NoSerial
           THEN /\ \E s \in Retiring :
                     Goto(h, [r EXCEPT !.pc = "retire", !.claim = i,
                                       !.retiring = s])
                /\ UNCHANGED ctrl
           ELSE IF ~other
           THEN Goto(h, [r EXCEPT !.pc = "read"]) /\ UNCHANGED ctrl
           ELSE /\ Preparable
                /\ cert' = [cert EXCEPT ![old] = "revoked"]
                /\ bind' = fresh.bind
                /\ intent' = [serial |-> fresh.serial, fresh |-> TRUE,
                              state |-> "revocation-pending"]
                /\ Goto(h, [r EXCEPT !.pc = "retire", !.claim = fresh.serial,
                                     !.retiring = old])
                /\ UNCHANGED <<confirmed, evidence, retired>>
        /\ UNCHANGED <<ca, sweeper, operator, agent, rounds, faults>>

\* The authority revokes the denied certificate.
retire_staged(h) ==
    LET r == handlers[h]
    IN  /\ At(h, "retire")
        /\ crl' = crl \cup {r.retiring}
        /\ Goto(h, [r EXCEPT !.pc = "finish"])
        /\ UNCHANGED <<ctrl, journal, sweeper, operator, agent, rounds, faults>>

\* The revocation is recorded and the replacement may be issued, unless
\* another request got there first or the intent changed.
_finish_rotation_recovery(h) ==
    LET r == handlers[h]
        same == intent.serial = r.claim
    IN  /\ At(h, "finish")
        /\ IF same /\ intent.state = "revocation-pending"
           THEN /\ confirmed' = confirmed \cup {r.retiring}
                /\ intent' = [intent EXCEPT !.state = "issuing", !.fresh = TRUE]
                /\ Goto(h, [r EXCEPT !.pc = "observe", !.retiring = NoSerial])
                /\ UNCHANGED <<bind, cert, evidence, retired>>
           ELSE /\ Goto(h, IF same /\ r.retiring \in confirmed
                           THEN [r EXCEPT !.pc = "read", !.claim = NoSerial,
                                          !.retiring = NoSerial]
                           ELSE raised(r, "uncertain"))
                /\ UNCHANGED ctrl
        /\ UNCHANGED <<ca, sweeper, operator, agent, rounds, faults>>

\* The bounded attempts are over and one of them was uncertain: the request
\* ends its own intent, so that the next request starts a new binding.
_end_rotation(h) ==
    LET r == handlers[h]
        mine == /\ intent.serial # NoSerial
                /\ bind[intent.serial].key = r.key
                /\ bind[intent.serial].src = r.src
    IN  /\ At(h, "close")
        /\ IF ~mine THEN UNCHANGED <<intent, evidence>>
           ELSE /\ intent' = ending(intent.serial).intent
                /\ evidence' = ending(intent.serial).evidence
        /\ Goto(h, [r EXCEPT !.pc = "reply", !.answer = Failed])
        /\ UNCHANGED <<bind, cert, confirmed, retired, ca, sweeper, operator,
                       agent,
                       rounds, faults>>

\* The answer reaches the agent if it still waits for it.
reply(h) ==
    LET r == handlers[h]
    IN  /\ At(h, "reply")
        /\ Goto(h, Free)
        /\ agent' = IF agent.pc # "waiting" \/ agent.asked # h THEN agent
                    ELSE [agent EXCEPT !.asked = Nobody,
                           !.issued = IF r.answer \in Serials THEN r.answer
                                      ELSE NoSerial,
                           !.pc = IF r.answer \in Serials THEN "stage"
                                  ELSE IF r.answer = Refused THEN "refused"
                                  ELSE "idle"]
        /\ UNCHANGED <<ctrl, ca, sweeper, operator, rounds, faults>>

CaPcs == {"observe", "sign", "commit", "retire", "revoke"}

\* A transaction or a call of the authority fails: the effect is uncertain.
\* _mark_rotation_uncertain touches the intent of a failed issuance, unless
\* that fails too.  A failed bookkeeping step after a competing issuance, which
\* the recovery does not catch, fails the attempt instead.
Unavailable(h) ==
    LET r == handlers[h]
        issuing == /\ r.pc \in {"observe", "sign", "commit", "persist"}
                   /\ intent.serial = r.claim /\ intent.state = "issuing"
    IN  /\ r.pc \in HandlerPcs \ {"free", "reply", "close"}
        /\ Goto(h, raised([r EXCEPT !.competing = @ /\ r.pc \notin {"end", "confirm"}],
                          "uncertain"))
        /\ \/ UNCHANGED intent
           \/ issuing /\ intent' = [intent EXCEPT !.fresh = TRUE]
        /\ Spend
        /\ UNCHANGED <<bind, cert, confirmed, evidence, retired, ca, sweeper,
                       operator, agent, rounds>>

\* The authority's advisory locks are held by another request: the call is
\* answered as a pending issuance.
LockBusy(h) ==
    /\ handlers[h].pc \in {"observe", "sign", "commit"}
    /\ \/ sweeper # NoSerial \/ operator # Idle
       \/ \E g \in Handlers \ {h} : handlers[g].pc \in CaPcs
    /\ Goto(h, raised(handlers[h], "in-progress"))
    /\ Spend
    /\ UNCHANGED <<ctrl, ca, sweeper, operator, agent, rounds>>

\* The API process dies: the requests it served are gone, what they committed
\* stays.
CrashController ==
    /\ operator # Idle \/ \E h \in Handlers : ~At(h, "free")
    /\ handlers' = [h \in Handlers |-> Free]
    /\ operator' = Idle
    /\ agent' = IF agent.pc = "waiting"
                THEN [agent EXCEPT !.pc = "idle", !.asked = Nobody] ELSE agent
    /\ Spend
    /\ UNCHANGED <<ctrl, ca, sweeper, rounds>>

(***************************************************************************)
(* The worker's sweep and the operator.                                    *)
(***************************************************************************)

\* No renewal touched the intent for ISSUANCE_WINDOW.  A connected agent asks
\* at least once a minute, so this takes one that is away or was refused.  A
\* request that is served for all that time is a fault.
Lapse ==
    /\ intent.serial # NoSerial /\ intent.fresh
    /\ agent.pc \in {"refused", "down"} \/ retired
    /\ intent' = [intent EXCEPT !.fresh = FALSE]
    /\ IF \A h \in Handlers : At(h, "free") THEN UNCHANGED faults ELSE Spend
    /\ UNCHANGED <<bind, cert, confirmed, evidence, retired, ca, handlers,
                   sweeper, operator, agent, rounds>>

\* reconcile_revocations, first transaction: an abandoned intent is ended.
EndAbandoned ==
    /\ intent.serial # NoSerial /\ ~intent.fresh
    /\ intent' = ending(intent.serial).intent
    /\ evidence' = ending(intent.serial).evidence
    /\ UNCHANGED <<bind, cert, confirmed, retired, ca, handlers, sweeper,
                   operator,
                   agent, rounds, faults>>

RevocationOwed(s) == \/ cert[s] = "revoked" /\ s \notin confirmed
                     \/ evidence[s] = "owed"

\* One owed revocation goes to the authority; evidence about the certificate
\* in use is dropped instead.
_confirm_revocation_once(s) ==
    /\ sweeper = NoSerial /\ RevocationOwed(s)
    /\ IF evidence[s] = "owed" /\ cert[s] = "active"
       THEN /\ evidence' = [evidence EXCEPT ![s] = "none"]
            /\ UNCHANGED <<sweeper, operator, crl>>
       ELSE sweeper' = s /\ crl' = crl \cup {s} /\ UNCHANGED evidence
    /\ UNCHANGED <<bind, cert, confirmed, intent, retired, journal, handlers,
                   operator, agent, rounds, faults>>

\* The confirmation is recorded ...
SweepConfirm ==
    /\ sweeper # NoSerial
    /\ Confirmation(sweeper)
    /\ sweeper' = NoSerial
    /\ UNCHANGED <<bind, cert, retired, ca, handlers, operator, agent, rounds,
                   faults>>

\* ... or the worker dies first and the row is due again.
CrashWorker ==
    /\ sweeper # NoSerial
    /\ sweeper' = NoSerial
    /\ Spend
    /\ UNCHANGED <<ctrl, ca, handlers, operator, agent, rounds>>

\* _revoke_node_once: the node and all its rows are denied in one transaction,
\* which also lists what the authority has yet to be told.
_revoke_node_once ==
    /\ ~retired /\ Spend
    /\ retired' = TRUE
    /\ cert' = [s \in Serials |-> IF cert[s] = "none" THEN "none" ELSE "revoked"]
    /\ operator' = [operator EXCEPT !.todo = {s \in Serials :
                      s \in Rows \ confirmed \/ evidence[s] = "owed"}]
    /\ UNCHANGED <<bind, confirmed, evidence, intent, ca, handlers, sweeper,
                   agent, rounds>>

\* It then revokes them one by one ...
revoke_listed(s) ==
    /\ operator.at = NoSerial /\ s \in operator.todo
    /\ crl' = crl \cup {s}
    /\ operator' = [todo |-> operator.todo \ {s}, at |-> s]
    /\ UNCHANGED <<ctrl, journal, handlers, sweeper, agent, rounds, faults>>

\* ... and records each ...
confirm_listed ==
    /\ operator.at # NoSerial
    /\ Confirmation(operator.at)
    /\ operator' = [operator EXCEPT !.at = NoSerial]
    /\ UNCHANGED <<bind, cert, retired, ca, handlers, sweeper, agent, rounds,
                   faults>>

\* ... until its bounded attempts end uncertain: the rest is left to the sweep.
RevocationUncertain ==
    /\ operator # Idle
    /\ operator' = Idle
    /\ Spend
    /\ UNCHANGED <<ctrl, ca, handlers, sweeper, agent, rounds>>

(***************************************************************************)
(* The agent.                                                              *)
(***************************************************************************)

\* Keys no certificate was ever asked for.
NewKeys == Keys \ {bind[s].key : s \in Serials}

\* rotate_if_due with no staged identity: the pending key is made durable
\* before the request is sent under the identity in use.
rotate_if_due(h, k) ==
    /\ agent.pc = "idle" /\ agent.staged = NoSerial /\ rounds > 0
    /\ At(h, "free")
    /\ IF agent.pending # NoKey THEN k = agent.pending ELSE k \in NewKeys
    /\ IF ~require_rotation_source(agent.active)
       THEN /\ agent' = [agent EXCEPT !.pc = "refused", !.pending = k]
            /\ UNCHANGED handlers
       ELSE /\ agent' = [agent EXCEPT !.pc = "waiting", !.pending = k, !.asked = h]
            /\ Goto(h, [Free EXCEPT !.pc = "read", !.key = k,
                                    !.src = agent.active, !.tries = Attempts])
    /\ UNCHANGED <<ctrl, ca, sweeper, operator, rounds, faults>>

\* The request times out at the agent; the Controller goes on serving it.
GiveUp ==
    /\ agent.pc = "waiting"
    /\ agent' = [agent EXCEPT !.pc = "idle", !.asked = Nobody]
    /\ Spend
    /\ UNCHANGED <<ctrl, ca, handlers, sweeper, operator, rounds>>

\* Bug: the staged pointer is written only once the replacement is in use.
Bug_stage_identity ==
    /\ agent.pc = "stage"
    /\ agent' = [agent EXCEPT !.pc = "activate"]
    /\ UNCHANGED <<ctrl, ca, handlers, sweeper, operator, rounds, faults>>

\* validate_issued, then stage_identity: the answer must be for the pending
\* key, which is fatal otherwise, and of a later generation than the identity
\* in use; the replacement is on disk before it is activated.
stage_identity ==
    /\ agent.pc = "stage"
    /\ agent' = IF bind[agent.issued].key # agent.pending
                THEN [agent EXCEPT !.pc = "refused", !.issued = NoSerial]
                ELSE IF bind[agent.issued].gen <= bind[agent.active].gen
                THEN [agent EXCEPT !.pc = "idle", !.issued = NoSerial]
                ELSE [agent EXCEPT !.pc = "activate", !.staged = agent.issued]
    /\ UNCHANGED <<ctrl, ca, handlers, sweeper, operator, rounds, faults>>

\* rotate_if_due with a staged identity on disk: activate it.
resume_staged ==
    /\ agent.pc = "idle" /\ agent.staged # NoSerial
    /\ agent' = [agent EXCEPT !.pc = "activate", !.issued = agent.staged]
    /\ UNCHANGED <<ctrl, ca, handlers, sweeper, operator, rounds, faults>>

\* The Controller's rows after the activation of serial s.
Activation(s) ==
    [t \in Serials |-> IF t = s THEN "active"
                       ELSE IF cert[t] # "none" /\ bind[t].gen < bind[s].gen
                       THEN "revoked" ELSE cert[t]]

\* Bug: an activation whose answer was lost is refused when it is repeated.
Bug_activate_replacement ==
    LET s == agent.issued
        admitted == ~retired /\ cert[s] = "staged"
    IN  /\ agent.pc = "activate"
        /\ cert' = IF admitted THEN Activation(s) ELSE cert
        /\ \/ /\ agent' = [agent EXCEPT !.pc = IF admitted THEN "publish"
                                               ELSE "refused"]
              /\ UNCHANGED faults
           \/ /\ Spend
              /\ agent' = [agent EXCEPT !.pc = "idle", !.issued = NoSerial]
        /\ UNCHANGED <<bind, confirmed, evidence, intent, retired, ca,
                       handlers, sweeper, operator, rounds>>

\* _activate_once, asked for under the replacement's own identity.  Repeating
\* it is harmless; the answer may be lost.
activate_replacement ==
    LET s == agent.issued
        admitted == ~retired /\ cert[s] \in {"staged", "active"}
    IN  /\ agent.pc = "activate"
        /\ cert' = IF admitted /\ cert[s] = "staged" THEN Activation(s) ELSE cert
        /\ \/ /\ agent' = [agent EXCEPT !.pc = IF admitted THEN "publish"
                                               ELSE "refused"]
              /\ UNCHANGED faults
           \/ /\ Spend
              /\ agent' = [agent EXCEPT !.pc = "idle", !.issued = NoSerial]
        /\ UNCHANGED <<bind, confirmed, evidence, intent, retired, ca,
                       handlers, sweeper, operator, rounds>>

\* publish_staged, file by file: the pointer to the identity in use ...
publish_active ==
    /\ agent.pc = "publish"
    /\ agent' = [agent EXCEPT !.pc = "unstage", !.active = agent.issued]
    /\ rounds' = IF agent.active # agent.issued /\ rounds > 0
                 THEN rounds - 1 ELSE rounds
    /\ UNCHANGED <<ctrl, ca, handlers, sweeper, operator, faults>>

\* ... the staged pointer ...
unstage ==
    /\ agent.pc = "unstage"
    /\ agent' = [agent EXCEPT !.pc = "clear", !.staged = NoSerial]
    /\ UNCHANGED <<ctrl, ca, handlers, sweeper, operator, rounds, faults>>

\* ... and the pending key.
clear_pending ==
    /\ agent.pc = "clear"
    /\ agent' = [agent EXCEPT !.pc = "idle", !.pending = NoKey,
                              !.issued = NoSerial]
    /\ UNCHANGED <<ctrl, ca, handlers, sweeper, operator, rounds, faults>>

\* A refused agent asks again after its backoff.
RefusedAgain ==
    /\ agent.pc = "refused"
    /\ agent' = [agent EXCEPT !.pc = "idle", !.issued = NoSerial]
    /\ UNCHANGED <<ctrl, ca, handlers, sweeper, operator, rounds, faults>>

\* The agent dies wherever it is; its files stay.
CrashAgent ==
    /\ agent.pc # "down"
    /\ agent' = [agent EXCEPT !.pc = "down", !.asked = Nobody,
                              !.issued = NoSerial]
    /\ Spend
    /\ UNCHANGED <<ctrl, ca, handlers, sweeper, operator, rounds>>

\* It returns.  An unreadable pending key is set aside and replaced.
RestartAgent ==
    /\ agent.pc = "down"
    /\ \/ agent' = [agent EXCEPT !.pc = "idle"] /\ UNCHANGED faults
       \/ /\ agent.pending # NoKey /\ agent.staged = NoSerial
          /\ \E k \in NewKeys \ {agent.pending} :
               agent' = [agent EXCEPT !.pc = "idle", !.pending = k]
          /\ Spend
    /\ UNCHANGED <<ctrl, ca, handlers, sweeper, operator, rounds>>

(***************************************************************************)
(* The specification.                                                      *)
(***************************************************************************)

Serve(h) ==
    \/ renew_read(h) \/ _claim_rotation(h)
    \/ observe_node(h) \/ sign_reserve(h) \/ sign_commit(h)
    \/ _persist_rotation(h) \/ _revoke_denied_rotation(h)
    \/ _confirm_remote_revocation(h)
    \/ end_competing(h) \/ _prepare_rotation_recovery(h) \/ retire_staged(h)
    \/ _finish_rotation_recovery(h) \/ _end_rotation(h) \/ reply(h)

Sweep ==
    \/ EndAbandoned \/ SweepConfirm
    \/ \E s \in Serials : _confirm_revocation_once(s)

Rotate ==
    \/ \E h \in Handlers, k \in Keys : rotate_if_due(h, k)
    \/ stage_identity \/ resume_staged \/ activate_replacement
    \/ publish_active \/ unstage \/ clear_pending \/ RefusedAgain

Next ==
    \/ \E h \in Handlers : Serve(h) \/ Unavailable(h) \/ LockBusy(h)
    \/ Sweep \/ Rotate \/ RestartAgent
    \/ Lapse \/ _revoke_node_once \/ confirm_listed \/ RevocationUncertain
    \/ \E s \in Serials : revoke_listed(s)
    \/ GiveUp \/ CrashController \/ CrashWorker \/ CrashAgent

Spec == Init /\ [][Next]_vars

\* Every request, the worker's sweep and the agent's loop keep running, and a
\* host that went down comes back.  The clock runs while no renewal touches
\* an intent.
Fairness ==
    /\ \A h \in Handlers : WF_vars(Serve(h))
    /\ WF_vars(EndAbandoned) /\ WF_vars(SweepConfirm)
    /\ WF_vars(\E s \in Serials : _confirm_revocation_once(s))
    /\ WF_vars(Rotate) /\ WF_vars(RestartAgent)
    /\ WF_vars(Lapse /\ retired)

FairSpec == Spec /\ Fairness

(***************************************************************************)
(* Properties.                                                             *)
(***************************************************************************)

\* A crash or a lost answer between the signature and its row never leaves a
\* certificate nobody will revoke: what the authority signed and has not
\* revoked is an admitted row, is bound by the intent, or is owed a revocation.
EffectOwned ==
    \A s \in Serials : journal[s] = "signed" /\ s \notin crl =>
        \/ cert[s] \in {"staged", "active"}
        \/ intent.serial = s
        \/ RevocationOwed(s)

\* The certificate the Controller admits for the node is on the agent's disk:
\* a crash or a lost answer around the activation never leaves the node with
\* files the Controller no longer accepts.
KeepsIdentity ==
    \A s \in Serials : cert[s] = "active" => s \in {agent.active, agent.staged}

\* A certificate that can be activated or used is never revoked at the
\* authority: the sweep only revokes what can no longer be adopted.
AdmittedIsNotRevoked ==
    \A s \in Serials : cert[s] \in {"staged", "active"} => s \notin crl

\* The replacement on the agent's disk can be activated until the node itself is
\* revoked, as long as the agent keeps its pending key: neither a late request
\* nor the sweep denies it.  (A request that outlived the loss of its key can.)
KeyReplaced == Cardinality({bind[s].key : s \in Serials} \ {NoKey, FirstKey}) > 1
StagedCanBeActivated ==
    agent.staged # NoSerial /\ ~retired /\ ~KeyReplaced =>
        cert[agent.staged] \in {"staged", "active"}

\* The node never has two certificates to choose from: one is active at a
\* time and at most one replacement is staged, of a later generation.
OneSuccessor ==
    /\ ~retired => \E s \in Serials :
                     /\ {t \in Serials : cert[t] = "active"} = {s}
                     /\ \A t \in Staged : bind[t].gen > bind[s].gen
    /\ Cardinality(Staged) <= 1

\* A due renewal is eventually completed, whatever was lost on the way, unless
\* the node is revoked, the agent lost its pending key, or a signing was torn
\* between its two transactions: the authority then reports the binding pending
\* for good (observe_node).  The last disjunct is the model's bound on serials.
RotationCompletes ==
    []<>(\/ rounds = 0 \/ retired \/ KeyReplaced
         \/ \E s \in Serials : journal[s] = "pending"
         \/ ~Preparable)

\* What was signed and then denied, displaced or ended is eventually revoked at
\* the authority, and the Controller knows it: no certificate is left that is
\* neither admitted, nor bound by the intent, nor revoked.
Stray(s) == /\ journal[s] = "signed" /\ cert[s] \notin {"staged", "active"}
            /\ intent.serial # s
EndedIsRevoked ==
    []<>(\A s \in Serials : Stray(s) => s \in crl /\ ~RevocationOwed(s))

\* The Controller's rows account for what the authority signed: nothing is left
\* that nobody will revoke, nothing in use is revoked, and the node has one
\* credential and at most one successor (_persist_rotation, _activate_once,
\* _end_rotation, reconcile_revocations).
RecordsAreSound == TypeOK /\ EffectOwned /\ AdmittedIsNotRevoked /\ OneSuccessor

\* The agent is never locked out: what is admitted is on its disk, and what is
\* staged there can be activated (stage_identity, publish_staged).
AgentKeepsAccess == KeepsIdentity /\ StagedCanBeActivated
=============================================================================
