----------------------------- MODULE SecretLedger -----------------------------
(***************************************************************************)
(* One secret of one environment: its header row (05_fct_secrets), its     *)
(* version rows (06_fct_secret_versions), the success rows of the audit    *)
(* log and one attribute, driven by clients whose calls run statement by   *)
(* statement inside Postgres transactions (READ COMMITTED).                *)
(*                                                                         *)
(* The atomic step is one SQL statement together with the code up to the   *)
(* next one.  A transaction's writes are kept in the client's own          *)
(* variables (view, row) until its commit step copies them to the tables;  *)
(* an error return drops them, which is what dropping a sqlx transaction   *)
(* does.  lock is the row lock on the header, or, while the header is a    *)
(* row not yet committed, the unique-index entry others wait for.          *)
(***************************************************************************)
EXTENDS Integers

CONSTANTS
  Clients,     \* callers of the store: one call each at a time
  Kinds,       \* operations offered: a subset of {"put", "rollback", "delete", "get"}
  Modes,       \* "audited": the *_audited methods; "plain": the DataStore trait's
  Args,        \* version numbers a call may name (cas, to_version, version)
  MasterKeys,  \* master KEKs of the pods that serve the calls
  MaxOps,      \* bound: calls begun in a behaviour
  None         \* "no client" and "argument not given"

ASSUME KindsAssumption == Kinds \subseteq {"put", "rollback", "delete", "get"}
ASSUME ModesAssumption == Modes \subseteq {"audited", "plain"}
ASSUME ArgsAssumption  == Args \subseteq Nat
ASSUME BoundAssumption == MaxOps \in Nat
ASSUME NoneAssumption  == None \notin Nat \cup Clients \cup MasterKeys

VARIABLES
  hdr,    \* committed header row
  vers,   \* committed version rows, by version number
  audit,  \* committed success events of the audited methods
  attr,   \* the call that last wrote the secret's attribute (0: nobody)
  lock,   \* client whose transaction holds the header row
  ops,    \* calls begun so far
  pc,     \* next statement of each client's call
  req,    \* each client's call
  view,   \* the header as each client's transaction sees or will write it
  row,    \* the version row each client's call is writing or has read
  out     \* each call's result

vars == <<hdr, vers, audit, attr, lock, ops, pc, req, view, row, out>>

Header == [st: {"absent", "live", "deleted"}, cur: Nat, casReq: BOOLEAN]
NoHeader    == [st |-> "absent", cur |-> 0, casReq |-> FALSE]
\* Faulty variant for mutation testing: a new header points at the version still to come.
FreshHeader_AtOne == [st |-> "live", cur |-> 1, casReq |-> FALSE]
FreshHeader == [st |-> "live",   cur |-> 0, casReq |-> FALSE]

\* op and via identify the call that wrote the row; they stand for its plaintext.
Version == [aad: Nat, key: MasterKeys, op: Nat, via: Modes]
Event   == [op: Nat, kind: Kinds]

Draft   == [v: Nat, aad: Nat, key: MasterKeys \cup {None}]
NoDraft == [v |-> 0, aad |-> 0, key |-> None]

Request == [id: Nat, kind: Kinds \cup {"none"}, mode: Modes \cup {"none"},
            arg: Args \cup {None}, attrs: BOOLEAN, key: MasterKeys \cup {None}]
NoRequest == [id |-> 0, kind |-> "none", mode |-> "none",
              arg |-> None, attrs |-> FALSE, key |-> None]

Stages == {"idle", "begin", "headed", "select", "insert", "update",
           "check", "fetch", "audit", "commit", "decrypt", "attrs", "done"}
Results == {"none", "Ok", "NotFound", "Conflict", "Crypto", "Audit", "Attrs", "Lost"}

Init ==
  /\ hdr = NoHeader
  /\ vers = [v \in {} |-> NoDraft]
  /\ audit = {}
  /\ attr = 0
  /\ lock = None
  /\ ops = 0
  /\ pc   = [p \in Clients |-> "idle"]
  /\ req  = [p \in Clients |-> NoRequest]
  /\ view = [p \in Clients |-> NoHeader]
  /\ row  = [p \in Clients |-> NoDraft]
  /\ out  = [p \in Clients |-> "none"]

-------------------------------------------------------------------------------
\* Postgres, as the store's statements use it.

\* The header row as p's transaction reads it: its own write, else the committed row.
Row(p) == IF lock = p THEN view[p] ELSE hdr

\* A locking statement of p need not wait.
MayLock(p) == lock \in {None, p}

\* Faulty variant for mutation testing: a dropped transaction keeps its row lock.
Unlock_Leaks(p) == lock' = lock

Unlock(p) == lock' = IF lock = p THEN None ELSE lock

\* p's transaction holds a version row it has inserted and not committed.
HasInserted(p) == req[p].kind = "put" /\ pc[p] \in {"update", "audit", "commit"}

\* Faulty variant for mutation testing: statements that ran on the pool survive the abort.
Abort_KeepsVersion(p, err) ==
  /\ Unlock(p)
  /\ pc'   = [pc EXCEPT ![p] = "done"]
  /\ out'  = [out EXCEPT ![p] = err]
  /\ view' = [view EXCEPT ![p] = NoHeader]
  /\ row'  = [row EXCEPT ![p] = NoDraft]
  /\ vers' = IF HasInserted(p)
             THEN [v \in DOMAIN vers \cup {row[p].v} |->
                     IF v = row[p].v
                     THEN [aad |-> row[p].aad, key |-> row[p].key,
                           op |-> req[p].id, via |-> req[p].mode]
                     ELSE vers[v]]
             ELSE vers
  /\ UNCHANGED <<hdr, audit, attr, ops, req>>

\* An early return: the transaction is dropped, so nothing of it is kept.
Abort(p, err) ==
  /\ Unlock(p)
  /\ pc'   = [pc EXCEPT ![p] = "done"]
  /\ out'  = [out EXCEPT ![p] = err]
  /\ view' = [view EXCEPT ![p] = NoHeader]
  /\ row'  = [row EXCEPT ![p] = NoDraft]
  /\ UNCHANGED <<hdr, vers, audit, attr, ops, req>>

At(p, stage, kind, mode) ==
  pc[p] = stage /\ req[p].kind = kind /\ req[p].mode = mode

Goto(p, stage) == pc' = [pc EXCEPT ![p] = stage]

\* Audited methods record the event before they commit, the others just commit.
Finish(p, mode) == Goto(p, IF mode = "audited" THEN "audit" ELSE "commit")

\* The answer to a COMMIT: it arrives, or the connection is lost after the commit has
\* taken effect, and the caller gets an error for what is stored.
Acknowledged(p, stage) ==
  \/ Goto(p, stage) /\ out' = IF stage = "done" THEN [out EXCEPT ![p] = "Ok"] ELSE out
  \/ Goto(p, "done") /\ out' = [out EXCEPT ![p] = "Lost"]

Logged(p, mode) ==
  IF mode = "audited" THEN audit \cup {[op |-> req[p].id, kind |-> req[p].kind]} ELSE audit

-------------------------------------------------------------------------------
\* Writing: the header upsert and the version ledger.

Begin(p) ==
  /\ pc[p] = "idle" /\ ops < MaxOps
  /\ ops' = ops + 1
  /\ \E k \in Kinds, m \in Modes, a \in Args \cup {None}, t \in BOOLEAN, key \in MasterKeys :
       /\ k = "rollback" => a # None
       /\ k = "delete" => a = None
       /\ k # "put" => ~t
       /\ req' = [req EXCEPT ![p] = [id |-> ops + 1, kind |-> k, mode |-> m,
                                     arg |-> a, attrs |-> t, key |-> key]]
  /\ Goto(p, "begin")
  /\ UNCHANGED <<hdr, vers, audit, attr, lock, view, row, out>>

\* The environment named in the call is not one of the tenant's.
PutEnvMissing(p, mode) == At(p, "begin", "put", mode) /\ Abort(p, "NotFound")

\* Faulty variant for mutation testing: the upsert revives a deleted row as it was.
UpsertHeader_Revives(p, mode) ==
  /\ At(p, "begin", "put", mode)
  /\ MayLock(p)
  /\ lock' = p
  /\ view' = [view EXCEPT ![p] =
                IF hdr.st = "absent" THEN FreshHeader ELSE [hdr EXCEPT !.st = "live"]]
  /\ Goto(p, IF mode = "plain" THEN "headed" ELSE "select")
  /\ UNCHANGED <<hdr, vers, audit, attr, ops, req, row, out>>

\* INSERT ... ON CONFLICT DO UPDATE SET updated_at: a row that is already there,
\* deleted or not, is locked and returned as it is.
UpsertHeader(p, mode) ==
  /\ At(p, "begin", "put", mode)
  /\ MayLock(p)
  /\ lock' = p
  /\ view' = [view EXCEPT ![p] = IF hdr.st = "absent" THEN FreshHeader ELSE hdr]
  /\ Goto(p, IF mode = "plain" THEN "headed" ELSE "select")
  /\ UNCHANGED <<hdr, vers, audit, attr, ops, req, row, out>>

\* The trait's put commits the header in a transaction of its own; the row it got
\* back (view) is then no more than a memory of it.
CommitUpsert(p) ==
  /\ At(p, "headed", "put", "plain")
  /\ hdr' = view[p]
  /\ Unlock(p)
  /\ Acknowledged(p, "select")
  /\ UNCHANGED <<vers, audit, attr, ops, req, view, row>>

\* Faulty variant for mutation testing: cas is looked at only when the header demands it.
CasHolds_OnlyIfRequired(arg, h) == h.casReq => arg = h.cur

CasHolds(arg, h) == IF arg = None THEN ~h.casReq ELSE arg = h.cur

\* The version number the ciphertext is bound to; chosen under the row lock.
NextVersion(h) == h.cur + 1

\* Faulty variant for mutation testing: the AAD is built from the row the upsert returned.
SelectForUpdate_EarlyAad(p, mode) ==
  /\ At(p, "select", "put", mode)
  /\ Row(p).st = "live" /\ MayLock(p) /\ CasHolds(req[p].arg, Row(p))
  /\ lock' = p
  /\ view' = [view EXCEPT ![p] = Row(p)]
  /\ row'  = [row EXCEPT ![p] = [v   |-> NextVersion(Row(p)),
                                 aad |-> NextVersion(view[p]),
                                 key |-> req[p].key]]
  /\ Goto(p, "insert")
  /\ UNCHANGED <<hdr, vers, audit, attr, ops, req, out>>

\* Faulty variant for mutation testing: is_deleted is not looked at again after the upsert.
SelectForUpdate_NoRecheck(p, mode) ==
  /\ At(p, "select", "put", mode)
  /\ MayLock(p) /\ CasHolds(req[p].arg, Row(p))
  /\ lock' = p
  /\ view' = [view EXCEPT ![p] = Row(p)]
  /\ row'  = [row EXCEPT ![p] = [v   |-> NextVersion(Row(p)),
                                 aad |-> NextVersion(Row(p)),
                                 key |-> req[p].key]]
  /\ Goto(p, "insert")
  /\ UNCHANGED <<hdr, vers, audit, attr, ops, req, out>>

SelectForUpdate(p, mode) ==
  /\ At(p, "select", "put", mode)
  /\ \/ Row(p).st # "live" /\ Abort(p, "NotFound")
     \/ /\ Row(p).st = "live" /\ MayLock(p)
        /\ \/ ~CasHolds(req[p].arg, Row(p)) /\ Abort(p, "Conflict")
           \/ CasHolds(req[p].arg, Row(p)) /\ Abort(p, "Crypto")
           \/ /\ CasHolds(req[p].arg, Row(p))
              /\ lock' = p
              /\ view' = [view EXCEPT ![p] = Row(p)]
              /\ row'  = [row EXCEPT ![p] = [v   |-> NextVersion(Row(p)),
                                             aad |-> NextVersion(Row(p)),
                                             key |-> req[p].key]]
              /\ Goto(p, "insert")
              /\ UNCHANGED <<hdr, vers, audit, attr, ops, req, out>>

\* UNIQUE (secret_id, version): an uncommitted duplicate is waited for, a committed
\* one is error 23505, which map_sqlx turns into Conflict.
InsertVersion(p, mode) ==
  /\ At(p, "insert", "put", mode)
  /\ \A q \in Clients \ {p} : ~(HasInserted(q) /\ row[q].v = row[p].v)
  /\ \/ row[p].v \in DOMAIN vers /\ Abort(p, "Conflict")
     \/ /\ row[p].v \notin DOMAIN vers
        /\ Goto(p, "update")
        /\ UNCHANGED <<hdr, vers, audit, attr, lock, ops, req, view, row, out>>

PointAtVersion(p, mode) ==
  /\ At(p, "update", "put", mode)
  /\ MayLock(p)
  /\ lock' = p
  /\ view' = [view EXCEPT ![p] = [Row(p) EXCEPT !.cur = row[p].v]]
  /\ Finish(p, mode)
  /\ UNCHANGED <<hdr, vers, audit, attr, ops, req, row, out>>

\* Faulty variant for mutation testing: record() on the pool instead of record_in_tx().
RecordAudit_OwnTx(p, kind) ==
  /\ At(p, "audit", kind, "audited")
  /\ Goto(p, "commit")
  /\ audit' = Logged(p, "audited")
  /\ UNCHANGED <<hdr, vers, attr, lock, ops, req, view, row, out>>

\* The audit row of any operation, inside its transaction.
RecordAudit(p, kind) ==
  /\ At(p, "audit", kind, "audited")
  /\ \/ Abort(p, "Audit")
     \/ /\ Goto(p, "commit")
        /\ UNCHANGED <<hdr, vers, audit, attr, lock, ops, req, view, row, out>>

CommitPut(p, mode) ==
  /\ At(p, "commit", "put", mode)
  /\ hdr' = Row(p)
  /\ vers' = [v \in DOMAIN vers \cup {row[p].v} |->
                IF v = row[p].v
                THEN [aad |-> row[p].aad, key |-> row[p].key,
                      op |-> req[p].id, via |-> mode]
                ELSE vers[v]]
  /\ audit' = Logged(p, mode)
  /\ Unlock(p)
  /\ Acknowledged(p, IF req[p].attrs THEN "attrs" ELSE "done")
  /\ view' = [view EXCEPT ![p] = NoHeader]
  /\ row'  = [row EXCEPT ![p] = NoDraft]
  /\ UNCHANGED <<attr, ops, req>>

\* After the commit, in a transaction of its own: it may be refused by the attribute
\* whitelist, and the caller then gets an error for a version that is stored.
SetAttrs(p, mode) ==
  /\ At(p, "attrs", "put", mode)
  /\ \/ Abort(p, "Attrs")
     \/ /\ attr' = req[p].id
        /\ Goto(p, "done")
        /\ out' = [out EXCEPT ![p] = "Ok"]
        /\ UNCHANGED <<hdr, vers, audit, lock, ops, req, view, row>>

AdvanceSecretVersionInTx(p) ==
  \/ SelectForUpdate(p, "audited") \/ InsertVersion(p, "audited")
  \/ PointAtVersion(p, "audited")  \/ RecordAudit(p, "put")

AdvanceSecretVersion(p) ==
  \/ SelectForUpdate(p, "plain") \/ InsertVersion(p, "plain")
  \/ PointAtVersion(p, "plain")  \/ CommitPut(p, "plain")

PutSecretAudited(p) ==
  \/ PutEnvMissing(p, "audited") \/ UpsertHeader(p, "audited")
  \/ AdvanceSecretVersionInTx(p)
  \/ CommitPut(p, "audited") \/ SetAttrs(p, "audited")

PutSecret(p) ==
  \/ PutEnvMissing(p, "plain") \/ UpsertHeader(p, "plain") \/ CommitUpsert(p)
  \/ AdvanceSecretVersion(p)
  \/ SetAttrs(p, "plain")

-------------------------------------------------------------------------------
\* Moving the pointer, deleting and reading.

\* SELECT ... FOR UPDATE of the live header.
LockForRollback(p, mode) ==
  /\ At(p, "begin", "rollback", mode)
  /\ \/ Row(p).st # "live" /\ Abort(p, "NotFound")
     \/ /\ Row(p).st = "live" /\ MayLock(p)
        /\ lock' = p
        /\ view' = [view EXCEPT ![p] = Row(p)]
        /\ Goto(p, "check")
        /\ UNCHANGED <<hdr, vers, audit, attr, ops, req, row, out>>

\* Faulty variant for mutation testing: the target version is not looked up.
MovePointer_NoLookup(p, mode) ==
  /\ At(p, "check", "rollback", mode)
  /\ MayLock(p)
  /\ lock' = p
  /\ view' = [view EXCEPT ![p] = [Row(p) EXCEPT !.cur = req[p].arg]]
  /\ Finish(p, mode)
  /\ UNCHANGED <<hdr, vers, audit, attr, ops, req, row, out>>

\* The target is looked up under the lock, then the pointer moves.
MovePointer(p, mode) ==
  /\ At(p, "check", "rollback", mode)
  /\ \/ req[p].arg \notin DOMAIN vers /\ Abort(p, "NotFound")
     \/ /\ req[p].arg \in DOMAIN vers
        /\ MayLock(p)
        /\ lock' = p
        /\ view' = [view EXCEPT ![p] = [Row(p) EXCEPT !.cur = req[p].arg]]
        /\ Finish(p, mode)
        /\ UNCHANGED <<hdr, vers, audit, attr, ops, req, row, out>>

\* UPDATE ... SET is_deleted = true WHERE is_deleted = false: no row, no effect.
MarkDeleted(p, mode) ==
  /\ At(p, "begin", "delete", mode)
  /\ \/ Row(p).st # "live" /\ Abort(p, "NotFound")
     \/ /\ Row(p).st = "live" /\ MayLock(p)
        /\ lock' = p
        /\ view' = [view EXCEPT ![p] = [Row(p) EXCEPT !.st = "deleted"]]
        /\ Finish(p, mode)
        /\ UNCHANGED <<hdr, vers, audit, attr, ops, req, row, out>>

CommitHeader(p, kind, mode) ==
  /\ At(p, "commit", kind, mode)
  /\ hdr' = Row(p)
  /\ audit' = Logged(p, mode)
  /\ Unlock(p)
  /\ view' = [view EXCEPT ![p] = NoHeader]
  /\ Acknowledged(p, "done")
  /\ UNCHANGED <<vers, attr, ops, req, row>>

RollbackSecretAudited(p) ==
  \/ LockForRollback(p, "audited") \/ MovePointer(p, "audited")
  \/ RecordAudit(p, "rollback") \/ CommitHeader(p, "rollback", "audited")

RollbackSecret(p) ==
  \/ LockForRollback(p, "plain") \/ MovePointer(p, "plain")
  \/ CommitHeader(p, "rollback", "plain")

DeleteSecretAudited(p) ==
  \/ MarkDeleted(p, "audited") \/ RecordAudit(p, "delete")
  \/ CommitHeader(p, "delete", "audited")

DeleteSecret(p) == MarkDeleted(p, "plain") \/ CommitHeader(p, "delete", "plain")

\* The header is read without a lock: the pointer may move before the next statement.
ReadHeader(p, mode) ==
  /\ At(p, "begin", "get", mode)
  /\ \/ hdr.st # "live" /\ Abort(p, "NotFound")
     \/ /\ hdr.st = "live"
        /\ row' = [row EXCEPT ![p].v = IF req[p].arg = None THEN hdr.cur ELSE req[p].arg]
        /\ Goto(p, "fetch")
        /\ UNCHANGED <<hdr, vers, audit, attr, lock, ops, req, view, out>>

ReadVersion(p, mode) ==
  /\ At(p, "fetch", "get", mode)
  /\ \/ row[p].v \notin DOMAIN vers /\ Abort(p, "NotFound")
     \/ /\ row[p].v \in DOMAIN vers
        /\ row' = [row EXCEPT ![p].aad = vers[row[p].v].aad, ![p].key = vers[row[p].v].key]
        /\ Finish(p, mode)
        /\ UNCHANGED <<hdr, vers, audit, attr, lock, ops, req, view, out>>

\* The audited read logs a success and commits before it tries to decrypt.
CommitRead(p, mode) ==
  /\ At(p, "commit", "get", mode)
  /\ audit' = Logged(p, mode)
  /\ Acknowledged(p, "decrypt")
  /\ UNCHANGED <<hdr, vers, attr, lock, ops, req, view, row>>

\* decrypt_checked: the AAD names the version asked for and the KEK unwraps the DEK.
Decrypts(p) == row[p].aad = row[p].v /\ row[p].key = req[p].key

Decrypt(p, mode) ==
  /\ At(p, "decrypt", "get", mode)
  /\ Goto(p, "done")
  /\ out' = [out EXCEPT ![p] = IF Decrypts(p) THEN "Ok" ELSE "Crypto"]
  /\ row' = [row EXCEPT ![p] = NoDraft]
  /\ UNCHANGED <<hdr, vers, audit, attr, lock, ops, req, view>>

GetSecretAudited(p) ==
  \/ ReadHeader(p, "audited") \/ ReadVersion(p, "audited")
  \/ RecordAudit(p, "get") \/ CommitRead(p, "audited") \/ Decrypt(p, "audited")

GetSecret(p) ==
  \/ ReadHeader(p, "plain") \/ ReadVersion(p, "plain")
  \/ CommitRead(p, "plain") \/ Decrypt(p, "plain")

-------------------------------------------------------------------------------
\* The caller goes away, the pod dies or the connection drops: the future and its
\* open transaction are dropped, what is already committed stays.
Cancel(p) == pc[p] \notin {"idle", "done"} /\ Abort(p, "Lost")

Return(p) ==
  /\ pc[p] = "done"
  /\ Goto(p, "idle")
  /\ req' = [req EXCEPT ![p] = NoRequest]
  /\ out' = [out EXCEPT ![p] = "none"]
  /\ UNCHANGED <<hdr, vers, audit, attr, lock, ops, view, row>>

\* No code path sets cas_required; an operator can, by SQL, on a row nobody holds.
RequireCas ==
  /\ hdr.st = "live" /\ ~hdr.casReq /\ lock = None
  /\ hdr' = [hdr EXCEPT !.casReq = TRUE]
  /\ UNCHANGED <<vers, audit, attr, lock, ops, pc, req, view, row, out>>

Serve(p) ==
  \/ PutSecretAudited(p) \/ RollbackSecretAudited(p)
  \/ DeleteSecretAudited(p) \/ GetSecretAudited(p)
  \/ PutSecret(p) \/ RollbackSecret(p) \/ DeleteSecret(p) \/ GetSecret(p)
  \/ Return(p)

\* The bound on calls is used up and none is in progress.
Quiescent == ops = MaxOps /\ (\A p \in Clients : pc[p] = "idle") /\ UNCHANGED vars

Next == RequireCas \/ Quiescent \/ \E p \in Clients : Begin(p) \/ Serve(p) \/ Cancel(p)

Spec == Init /\ [][Next]_vars

\* A pod that is up drives each call to its end.
FairSpec == Spec /\ \A p \in Clients : WF_vars(Serve(p))

-------------------------------------------------------------------------------
TypeOK ==
  /\ hdr \in Header
  /\ DOMAIN vers \subseteq Nat /\ vers \in [DOMAIN vers -> Version]
  /\ audit \subseteq Event
  /\ attr \in Nat
  /\ lock \in Clients \cup {None}
  /\ ops \in Nat
  /\ pc   \in [Clients -> Stages]
  /\ req  \in [Clients -> Request]
  /\ view \in [Clients -> Header]
  /\ row  \in [Clients -> Draft]
  /\ out  \in [Clients -> Results]

\* The version rows are numbered 1..n without a gap, and a header that points at 0 is
\* one that no version has been written for.  (put_secret*, rollback_secret* and the
\* crash between the plain path's transactions.)
PointerNamesAVersion ==
  /\ \A v \in DOMAIN vers : v > 0 /\ (v = 1 \/ v - 1 \in DOMAIN vers)
  /\ hdr.cur \in DOMAIN vers \/ (hdr.cur = 0 /\ DOMAIN vers = {})

\* An unversioned read that found the header finds the row it points at, although
\* the two SELECTs of get_secret* see different snapshots.
ReadNeverDangles ==
  \A p \in Clients :
    pc[p] = "fetch" /\ req[p].arg = None => row[p].v \in DOMAIN vers \cup {0}

\* QW-5: every stored ciphertext is bound to the number of its own row, whatever ran
\* between the caller's upsert and its SELECT FOR UPDATE.
AadMatchesVersion == \A v \in DOMAIN vers : vers[v].aad = v

\* An audited put is in the log exactly when its version row exists, and the log holds
\* one deletion at most, of a secret that is deleted.
AuditIffEffect ==
  /\ \A v \in DOMAIN vers :
       vers[v].via = "audited" <=> [op |-> vers[v].op, kind |-> "put"] \in audit
  /\ \A e \in audit : e.kind = "put" => \E v \in DOMAIN vers : vers[v].op = e.op
  /\ \A e, f \in audit : e.kind = "delete" /\ f.kind = "delete" => e = f /\ hdr.st = "deleted"

Stored(id) == \E v \in DOMAIN vers : vers[v].op = id

\* What the caller is told is what happened: Ok means stored, an error before the
\* commit means neither a version nor an event, and an attribute error means the
\* version is stored all the same (a retry will store it again).  A read that fails
\* to decrypt is the exception: see ErrorLeavesNoEvent.
AnswerIsTruthful ==
  \A p \in Clients : pc[p] = "done" =>
    /\ req[p].kind = "put" /\ out[p] \in {"Ok", "Attrs"} => Stored(req[p].id)
    /\ out[p] \in {"NotFound", "Conflict", "Audit"} \/ (out[p] = "Crypto" /\ req[p].kind = "put") =>
         ~Stored(req[p].id) /\ \A e \in audit : e.op # req[p].id

\* The attribute always comes from a call whose version was committed before it.
AttrsFollowCommit == attr # 0 => Stored(attr)

\* Version rows are append-only: never rewritten, never removed (init schema, 06).
VersionsAppendOnly ==
  [][\A v \in DOMAIN vers : v \in DOMAIN vers' /\ vers'[v] = vers[v]]_vars

\* No lost update: a version is committed only on top of the version the caller
\* expected, or, if it expected none, on a header that does not demand one.
NoLostUpdate ==
  [][\A v \in DOMAIN vers' \ DOMAIN vers :
       /\ hdr'.cur = v /\ v = hdr.cur + 1
       /\ \E p \in Clients :
            /\ vers'[v].op = req[p].id
            /\ req[p].arg = hdr.cur \/ (req[p].arg = None /\ ~hdr.casReq)]_vars

\* Once a deletion is committed, no put or rollback that was already under way
\* changes the header or adds a version.
DeletedIsFrozen ==
  [][hdr.st = "deleted" => hdr' = hdr /\ vers' = vers]_vars

\* Every call that is begun is answered: nobody waits for the row lock for ever.
EveryCallEnds == \A p \in Clients : pc[p] # "idle" ~> pc[p] = "idle"

\* The version rows as the sequence of the calls that wrote them.
History == [v \in DOMAIN vers |-> vers[v].op]

\* The statements, locks and aborts above implement the one-step calls.
Entry == INSTANCE VersionedSecret WITH
  Calls <- 1 .. MaxOps,
  st <- hdr.st, ptr <- hdr.cur, casReq <- hdr.casReq,
  hist <- History, log <- audit

ImplementsVersionedSecret == Entry!Spec

-------------------------------------------------------------------------------
\* Statements of the docs that the code does not keep.

\* "creates or updates the secret at `path`" (store.rs:87): a put without cas, on a
\* secret that does not demand one, is not refused as a conflict.
PutNeedsNoExpectation ==
  \A p \in Clients :
    pc[p] = "done" /\ req[p].kind = "put" /\ req[p].arg = None /\ ~hdr.casReq
      => out[p] # "Conflict"

\* The same sentence, on a deleted path: past the environment check, the put creates
\* the secret again.
PutRevives ==
  [][\A p \in Clients : pc[p] = "select" /\ pc'[p] = "done" => out'[p] # "NotFound"]_vars

\* "A storage op that errors/rolls back leaves no audit row"
\* (docs/ATOMIC-AUDIT-PLAN.md:121).
ErrorLeavesNoEvent ==
  \A p \in Clients :
    pc[p] = "done" /\ out[p] \notin {"Ok", "Attrs", "Lost"} => \A e \in audit : e.op # req[p].id
===============================================================================
