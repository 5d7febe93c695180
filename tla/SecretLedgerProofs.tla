-------------------------- MODULE SecretLedgerProofs ---------------------------
(***************************************************************************)
(* Theorems about SecretLedger, for every set of clients, keys, arguments  *)
(* and every bound on the calls: its invariants, that it implements        *)
(* VersionedSecret, and that the audit log, the version rows and the       *)
(* answers agree.                                                          *)
(***************************************************************************)
EXTENDS SecretLedger, SequenceTheorems, TLAPS

\* The header a transaction that upserts it starts from.
Base == IF hdr.st = "absent" THEN FreshHeader ELSE hdr

\* p's transaction holds the header row.
Holds(p) ==
  /\ req[p].kind # "get"
  /\ \/ pc[p] \in {"headed", "insert", "update", "check", "audit", "commit"}
     \/ pc[p] = "select" /\ req[p].mode = "audited"

\* The row lock and the stages of the transactions agree.
LockInv == \A p \in Clients : lock = p <=> Holds(p)

\* The version rows are exactly 1..n and the pointer is one of them.
LedgerInv ==
  /\ \E n \in Nat : DOMAIN vers = 1 .. n /\ hdr.cur \in 0 .. n /\ (hdr.cur = 0 => n = 0)
  /\ hdr.st = "absent" => hdr = NoHeader /\ DOMAIN vers = {}
  /\ AadMatchesVersion

\* A call in progress is one of those begun, and comes from a pod with a key.
BegunInv(p) ==
  pc[p] # "idle" =>
    /\ req[p].id \in 1 .. ops /\ req[p].kind \in Kinds
    /\ req[p].mode \in Modes /\ req[p].key \in MasterKeys

\* What a put is about to insert: the next version of the row it has locked.
DraftOK(p) ==
  /\ Base.st = "live" /\ CasHolds(req[p].arg, Base)
  /\ row[p].v = NextVersion(Base) /\ row[p].aad = row[p].v /\ row[p].key \in MasterKeys

\* The header a put is about to commit.
Repointed(p) == [st |-> Base.st, cur |-> row[p].v, casReq |-> Base.casReq]

PutInv(p) ==
  req[p].kind = "put" =>
    /\ pc[p] = "headed" => view[p] = Base
    /\ pc[p] = "select" /\ req[p].mode = "audited" => view[p] = Base
    /\ pc[p] \in {"insert", "update"} => view[p] = Base /\ DraftOK(p)
    /\ pc[p] \in {"audit", "commit"} => view[p] = Repointed(p) /\ DraftOK(p)
    /\ pc[p] \in {"update", "audit", "commit"} => row[p].v \notin DOMAIN vers

RollbackInv(p) ==
  req[p].kind = "rollback" =>
    /\ pc[p] = "check" => hdr.st = "live" /\ view[p] = hdr
    /\ pc[p] \in {"audit", "commit"} =>
         /\ hdr.st = "live" /\ req[p].arg \in DOMAIN vers
         /\ view[p] = [hdr EXCEPT !.cur = req[p].arg]

DeleteInv(p) ==
  req[p].kind = "delete" /\ pc[p] \in {"audit", "commit"} =>
    hdr.st = "live" /\ view[p] = [hdr EXCEPT !.st = "deleted"]

GetInv(p) ==
  req[p].kind = "get" =>
    /\ pc[p] = "fetch" /\ req[p].arg = None => row[p].v \in DOMAIN vers \cup {0}
    /\ pc[p] \in {"audit", "commit"} => row[p].v \in DOMAIN vers

StageInv(p) == pc[p] \in {"fetch", "decrypt"} => req[p].kind = "get"

ClientInv(p) == BegunInv(p) /\ StageInv(p) /\ PutInv(p) /\ RollbackInv(p) /\ DeleteInv(p) /\ GetInv(p)

\* The inductive invariant.
IInv ==
  /\ TypeOK /\ LockInv /\ LedgerInv /\ ops <= MaxOps
  /\ \A p \in Clients : ClientInv(p)

-------------------------------------------------------------------------------
\* Types of the records the steps build.

\* The initial records have their types.
LEMMA Defaults ==
  /\ NoHeader \in Header /\ FreshHeader \in Header
  /\ NoDraft \in Draft /\ NoRequest \in Request
BY DEF NoHeader, FreshHeader, NoDraft, NoRequest, Header, Draft, Request

\* What the fields of a header are.
LEMMA HeaderFields ==
  ASSUME NEW h \in Header
  PROVE  h.cur \in Nat /\ NextVersion(h) \in Nat
BY DEF Header, NextVersion

\* A header with a field replaced is a header.
LEMMA HeaderUpdates ==
  ASSUME NEW h \in Header
  PROVE  /\ \A n \in Nat : [h EXCEPT !.cur = n] \in Header
         /\ [h EXCEPT !.st = "deleted"] \in Header
BY DEF Header

\* What the fields of a draft are, and what makes one.
LEMMA DraftUpdates ==
  /\ \A d \in Draft : d.v \in Nat /\ d.aad \in Nat /\ d.key \in MasterKeys \cup {None}
  /\ \A v \in Nat, a \in Nat, k \in MasterKeys \cup {None} :
       [v |-> v, aad |-> a, key |-> k] \in Draft
BY DEF Draft

\* What the fields of a request are.
LEMMA RequestFields ==
  ASSUME NEW r \in Request
  PROVE  /\ r.id \in Nat /\ r.kind \in Kinds \cup {"none"} /\ r.mode \in Modes \cup {"none"}
         /\ r.arg \in Args \cup {None} /\ r.key \in MasterKeys \cup {None}
BY DEF Request

\* p reads its own write while it holds the row, and the committed row otherwise.
LEMMA RowTyped ==
  ASSUME IInv, NEW p \in Clients
  PROVE  /\ Row(p) \in Header
         /\ Holds(p) => Row(p) = view[p]
         /\ ~Holds(p) => Row(p) = hdr
BY DEF IInv, TypeOK, LockInv, Row

\* The row an upsert starts from is a header.
LEMMA BaseTyped ==
  ASSUME TypeOK
  PROVE  Base \in Header
BY Defaults DEF TypeOK, Base

-------------------------------------------------------------------------------
\* A step of one client leaves the invariant of the others: those that hold the row
\* see it unchanged, the rest claim nothing about it.

Frame(p) ==
  /\ \A q \in Clients \ {p} :
       /\ pc'[q] = pc[q] /\ req'[q] = req[q]
       /\ view'[q] = view[q] /\ row'[q] = row[q]
  /\ (hdr' = hdr /\ vers' = vers) \/ lock = p
  /\ DOMAIN vers \subseteq DOMAIN vers'
  /\ ops' \in ops .. MaxOps
  /\ lock' = lock \/ (lock = p /\ lock' = None) \/ (lock = None /\ lock' = p)

\* So a step of p need only be shown to keep the shared parts and p's own.
LEMMA OneClientMoves ==
  ASSUME IInv, NEW p \in Clients, Frame(p),
         TypeOK', LedgerInv', lock' = p <=> Holds(p)', ClientInv(p)'
  PROVE  IInv'
<1>1. LockInv'
  BY NoneAssumption DEF IInv, LockInv, Holds, Frame
<1>2. ASSUME NEW q \in Clients, q # p
      PROVE  ClientInv(q)'
  <2>1. Holds(q) => hdr' = hdr /\ vers' = vers
    BY <1>2 DEF IInv, LockInv, Frame
  <2>2. ClientInv(q)
    BY DEF IInv
  <2>3. BegunInv(q)' /\ StageInv(q)' /\ GetInv(q)'
    BY <1>2, <2>2, BoundAssumption DEF ClientInv, BegunInv, StageInv, GetInv, Frame, IInv, TypeOK
  <2>4. PutInv(q)'
    BY <1>2, <2>1, <2>2 DEF ClientInv, PutInv, Holds, Frame, Base, DraftOK, Repointed
  <2>5. RollbackInv(q)' /\ DeleteInv(q)'
    BY <1>2, <2>1, <2>2 DEF ClientInv, RollbackInv, DeleteInv, Holds, Frame
  <2> QED BY <2>3, <2>4, <2>5 DEF ClientInv
<1> QED BY <1>1, <1>2, BoundAssumption DEF IInv, Frame, TypeOK

-------------------------------------------------------------------------------
\* One lemma per action.

\* A dropped transaction leaves the tables as they were.
LEMMA AbortKeepsIInv ==
  ASSUME IInv, NEW p \in Clients, NEW err \in Results, pc[p] # "idle", Abort(p, err)
  PROVE  IInv'
<1>1. TypeOK'
  BY Defaults DEF IInv, TypeOK, Abort, Unlock, Stages
<1>2. Frame(p)
  BY BoundAssumption DEF IInv, TypeOK, Frame, Abort, Unlock
<1>3. lock' = p <=> Holds(p)'
  BY NoneAssumption DEF IInv, TypeOK, Holds, Abort, Unlock
<1>4. LedgerInv'
  BY DEF IInv, LedgerInv, AadMatchesVersion, Abort
<1>5. ClientInv(p)'
  BY DEF IInv, TypeOK, ClientInv, BegunInv, StageInv, PutInv, RollbackInv, DeleteInv, GetInv,
     Abort
<1> QED BY <1>1, <1>2, <1>3, <1>4, <1>5, OneClientMoves

\* A new call takes the next number and touches no table.
LEMMA BeginKeepsIInv ==
  ASSUME IInv, NEW p \in Clients, Begin(p)
  PROVE  IInv'
<1>1. req' \in [Clients -> Request] /\ ops + 1 <= MaxOps
  BY BoundAssumption DEF IInv, TypeOK, Request, Begin
<1>2. TypeOK'
  BY <1>1, Defaults DEF IInv, TypeOK, Stages, At, Goto, Begin
<1>3. Frame(p)
  BY BoundAssumption DEF IInv, TypeOK, LockInv, Holds, Frame, At, Goto, Begin
<1>4. lock' = p <=> Holds(p)'
  BY NoneAssumption DEF IInv, TypeOK, LockInv, Holds, At, Goto, Begin
<1>5. LedgerInv'
  BY DEF IInv, LedgerInv, AadMatchesVersion, Begin
<1>6. ClientInv(p)'
  BY NoneAssumption DEF IInv, TypeOK, ClientInv, BegunInv, StageInv, PutInv, RollbackInv,
         DeleteInv, GetInv, At, Goto, Begin
<1> QED BY <1>2, <1>3, <1>4, <1>5, <1>6, OneClientMoves

\* The upsert takes the row lock and starts from the committed row.
LEMMA UpsertHeaderKeepsIInv ==
  ASSUME IInv, NEW p \in Clients, NEW mode, UpsertHeader(p, mode)
  PROVE  IInv'
<1>1. view' = [view EXCEPT ![p] = Base]
  BY DEF Base, UpsertHeader
<1>2. TypeOK'
  BY <1>1, Defaults, BaseTyped DEF IInv, TypeOK, Stages, At, Goto, UpsertHeader
<1>3. Frame(p)
  BY BoundAssumption DEF IInv, TypeOK, LockInv, Holds, Frame, At, Goto, MayLock, UpsertHeader
<1>4. lock' = p <=> Holds(p)'
  BY NoneAssumption, ModesAssumption DEF IInv, TypeOK, LockInv, Holds, At, Goto, ClientInv,
         BegunInv, UpsertHeader
<1>5. LedgerInv'
  BY DEF IInv, LedgerInv, AadMatchesVersion, UpsertHeader
<1>6. ClientInv(p)'
  BY <1>1 DEF IInv, TypeOK, ClientInv, BegunInv, StageInv, PutInv, RollbackInv, DeleteInv,
         GetInv, At, Goto, Base, UpsertHeader
<1> QED BY <1>2, <1>3, <1>4, <1>5, <1>6, OneClientMoves

\* The trait's put publishes a header that points at no version yet.
LEMMA CommitUpsertKeepsIInv ==
  ASSUME IInv, NEW p \in Clients, CommitUpsert(p)
  PROVE  IInv'
<1>1. lock = p /\ hdr' = Base /\ Base \in Header
  BY BaseTyped DEF IInv, LockInv, Holds, ClientInv, PutInv, At, CommitUpsert, Acknowledged
<1>2. TypeOK'
  BY <1>1, Defaults DEF IInv, TypeOK, Stages, At, Goto, Unlock, Results, CommitUpsert,
         Acknowledged
<1>3. Frame(p)
  BY <1>1, BoundAssumption DEF IInv, TypeOK, LockInv, Holds, Frame, At, Goto, Unlock,
         CommitUpsert, Acknowledged
<1>4. lock' = p <=> Holds(p)'
  BY NoneAssumption DEF IInv, TypeOK, LockInv, Holds, At, Goto, Unlock, CommitUpsert,
         Acknowledged
<1>5. LedgerInv'
  BY <1>1 DEF IInv, LedgerInv, AadMatchesVersion, Base, FreshHeader, NoHeader, CommitUpsert
<1>6. ClientInv(p)'
  BY <1>1 DEF IInv, TypeOK, ClientInv, BegunInv, StageInv, PutInv, RollbackInv, DeleteInv,
         GetInv, At, Goto, Unlock, CommitUpsert, Acknowledged
<1> QED BY <1>2, <1>3, <1>4, <1>5, <1>6, OneClientMoves

\* The version is numbered from the row under the lock.
LEMMA SelectForUpdateKeepsIInv ==
  ASSUME IInv, NEW p \in Clients, NEW mode, SelectForUpdate(p, mode)
  PROVE  IInv'
<1>1. CASE \E err \in Results : Abort(p, err)
  BY <1>1, AbortKeepsIInv DEF SelectForUpdate, At
<1>2. CASE \A err \in Results : ~Abort(p, err)
  <2>0. /\ At(p, "select", "put", mode) /\ MayLock(p)
        /\ Row(p).st = "live" /\ CasHolds(req[p].arg, Row(p))
        /\ lock' = p /\ view' = [view EXCEPT ![p] = Row(p)]
        /\ row' = [row EXCEPT ![p] = [v |-> NextVersion(Row(p)), aad |-> NextVersion(Row(p)),
                                      key |-> req[p].key]]
        /\ Goto(p, "insert")
        /\ UNCHANGED <<hdr, vers, audit, attr, ops, req, out>>
    BY <1>2 DEF SelectForUpdate, Results
  <2>1. Row(p) \in Header /\ Row(p) = Base
    BY <2>0, RowTyped DEF IInv, ClientInv, PutInv, Holds, Base, At
  <2>2. NextVersion(Row(p)) \in Nat
    BY <2>0, <2>1, HeaderFields
  <2>3. row'[p] \in Draft /\ req[p].key \in MasterKeys
    BY <2>0, <2>2, DraftUpdates DEF IInv, TypeOK, ClientInv, BegunInv, At
  <2>4. TypeOK'
    BY <2>0, <2>1, <2>2, <2>3, Defaults DEF IInv, TypeOK, Stages, At, Goto
  <2>5. Frame(p)
    BY <2>0, BoundAssumption DEF IInv, TypeOK, LockInv, Holds, Frame, At, Goto, MayLock
  <2>6. lock' = p <=> Holds(p)'
    BY <2>0, NoneAssumption DEF IInv, TypeOK, LockInv, Holds, At, Goto
  <2>7. LedgerInv'
    BY <2>0 DEF IInv, LedgerInv, AadMatchesVersion
  <2>8. ClientInv(p)'
    BY <2>0, <2>1, <2>3 DEF IInv, TypeOK, ClientInv, BegunInv, StageInv, PutInv, RollbackInv,
           DeleteInv, GetInv, At, Goto, DraftOK, Base
  <2> QED BY <2>4, <2>5, <2>6, <2>7, <2>8, OneClientMoves
<1> QED BY <1>1, <1>2

\* Only a number that no committed row has is inserted.
LEMMA InsertVersionKeepsIInv ==
  ASSUME IInv, NEW p \in Clients, NEW mode, InsertVersion(p, mode)
  PROVE  IInv'
<1>1. CASE \E err \in Results : Abort(p, err)
  BY <1>1, AbortKeepsIInv DEF InsertVersion, At
<1>2. CASE \A err \in Results : ~Abort(p, err)
  <2>0. /\ At(p, "insert", "put", mode) /\ row[p].v \notin DOMAIN vers
        /\ Goto(p, "update")
        /\ UNCHANGED <<hdr, vers, audit, attr, lock, ops, req, view, row, out>>
    BY <1>2 DEF InsertVersion, Results
  <2>1. TypeOK'
    BY <2>0, Defaults DEF IInv, TypeOK, Stages, At, Goto
  <2>2. Frame(p)
    BY <2>0, BoundAssumption DEF IInv, TypeOK, LockInv, Holds, Frame, At, Goto
  <2>3. lock' = p <=> Holds(p)'
    BY <2>0, NoneAssumption DEF IInv, TypeOK, LockInv, Holds, At, Goto
  <2>4. LedgerInv'
    BY <2>0 DEF IInv, LedgerInv, AadMatchesVersion
  <2>5. ClientInv(p)'
    BY <2>0 DEF IInv, TypeOK, ClientInv, BegunInv, StageInv, PutInv, RollbackInv, DeleteInv,
           GetInv, At, Goto, DraftOK, Base
  <2> QED BY <2>1, <2>2, <2>3, <2>4, <2>5, OneClientMoves
<1> QED BY <1>1, <1>2

\* The header is pointed at the inserted version, still under the lock.
LEMMA PointAtVersionKeepsIInv ==
  ASSUME IInv, NEW p \in Clients, NEW mode, PointAtVersion(p, mode)
  PROVE  IInv'
<1>1. Row(p) = Base /\ Base \in Header /\ row[p].v \in Nat
  BY RowTyped, BaseTyped, DraftUpdates DEF IInv, TypeOK, ClientInv, PutInv, Holds, At,
         PointAtVersion
<1>2. [Base EXCEPT !.cur = row[p].v] = Repointed(p) /\ Repointed(p) \in Header
  BY <1>1 DEF Repointed, Header, PointAtVersion
<1>3. view' = [view EXCEPT ![p] = Repointed(p)]
  BY <1>1, <1>2 DEF PointAtVersion
<1>4. TypeOK'
  BY <1>1, <1>2, <1>3, Defaults DEF IInv, TypeOK, Stages, At, Goto, Finish, PointAtVersion
<1>5. Frame(p)
  BY BoundAssumption DEF IInv, TypeOK, LockInv, Holds, Frame, At, Goto, MayLock, Finish,
         PointAtVersion
<1>6. lock' = p <=> Holds(p)'
  BY NoneAssumption DEF IInv, TypeOK, LockInv, Holds, At, Goto, MayLock, Finish,
         PointAtVersion
<1>7. LedgerInv'
  BY DEF IInv, LedgerInv, AadMatchesVersion, PointAtVersion
<1>8. ClientInv(p)'
  BY <1>3 DEF IInv, TypeOK, ClientInv, BegunInv, StageInv, PutInv, RollbackInv, DeleteInv,
         GetInv, At, Goto, Finish, DraftOK, Base, Repointed, PointAtVersion
<1> QED BY <1>4, <1>5, <1>6, <1>7, <1>8, OneClientMoves

\* The audit row changes nothing the invariant speaks of.
LEMMA RecordAuditKeepsIInv ==
  ASSUME IInv, NEW p \in Clients, NEW kind, RecordAudit(p, kind)
  PROVE  IInv'
<1>1. CASE \E err \in Results : Abort(p, err)
  BY <1>1, AbortKeepsIInv DEF RecordAudit, At
<1>2. CASE \A err \in Results : ~Abort(p, err)
  <2>0. /\ At(p, "audit", kind, "audited")
        /\ Goto(p, "commit")
        /\ UNCHANGED <<hdr, vers, audit, attr, lock, ops, req, view, row, out>>
    BY <1>2 DEF RecordAudit, Results
  <2>1. TypeOK'
    BY <2>0, Defaults DEF IInv, TypeOK, Stages, At, Goto
  <2>2. Frame(p)
    BY <2>0, BoundAssumption DEF IInv, TypeOK, LockInv, Holds, Frame, At, Goto
  <2>3. lock' = p <=> Holds(p)'
    BY <2>0, NoneAssumption DEF IInv, TypeOK, LockInv, Holds, At, Goto
  <2>4. LedgerInv'
    BY <2>0 DEF IInv, LedgerInv, AadMatchesVersion
  <2>5. ClientInv(p)'
    BY <2>0 DEF IInv, TypeOK, ClientInv, BegunInv, StageInv, PutInv, RollbackInv, DeleteInv,
           GetInv, At, Goto, DraftOK, Base, Repointed
  <2> QED BY <2>1, <2>2, <2>3, <2>4, <2>5, OneClientMoves
<1> QED BY <1>1, <1>2

\* The commit of a put appends version n + 1 and points at it.
LEMMA CommitPutKeepsIInv ==
  ASSUME IInv, NEW p \in Clients, NEW mode, CommitPut(p, mode)
  PROVE  IInv'
<1>1. /\ lock = p /\ DraftOK(p) /\ hdr' = Repointed(p) /\ hdr' \in Header
      /\ row[p].v \in Nat /\ row[p].v \notin DOMAIN vers
  BY RowTyped, DraftUpdates DEF IInv, TypeOK, LockInv, Holds, ClientInv, PutInv, At,
         CommitPut, Acknowledged
<1>2. [aad |-> row[p].aad, key |-> row[p].key, op |-> req[p].id, via |-> mode] \in Version
  BY <1>1, RequestFields, DraftUpdates DEF IInv, TypeOK, ClientInv, BegunInv, DraftOK,
         Version, At, CommitPut, Acknowledged
<1>3. vers' \in [DOMAIN vers' -> Version] /\ DOMAIN vers' \subseteq Nat
  BY <1>1, <1>2 DEF IInv, TypeOK, CommitPut, Acknowledged
<1>4. audit' \subseteq Event
  BY RequestFields DEF IInv, TypeOK, ClientInv, BegunInv, Logged, Event, At, CommitPut,
         Acknowledged
<1>5. TypeOK'
  BY <1>1, <1>2, <1>3, <1>4, Defaults DEF IInv, TypeOK, Stages, At, Goto, Unlock, Results,
         CommitPut, Acknowledged
<1>6. Frame(p)
  BY <1>1, BoundAssumption DEF IInv, TypeOK, LockInv, Holds, Frame, At, Goto, Unlock,
         CommitPut, Acknowledged
<1>7. lock' = p <=> Holds(p)'
  BY NoneAssumption DEF IInv, TypeOK, LockInv, Holds, At, Goto, Unlock, CommitPut,
         Acknowledged
<1>8. LedgerInv'
  <2>1. PICK n \in Nat : DOMAIN vers = 1 .. n /\ hdr.cur \in 0 .. n /\ (hdr.cur = 0 => n = 0)
    BY DEF IInv, LedgerInv
  <2>2. row[p].v = n + 1
    BY <1>1, <2>1 DEF IInv, LedgerInv, DraftOK, NextVersion, Base, FreshHeader, NoHeader
  <2>3. DOMAIN vers' = 1 .. (n + 1) /\ hdr'.cur = n + 1 /\ hdr'.st = "live"
    BY <1>1, <2>1, <2>2 DEF CommitPut, Repointed, DraftOK
  <2>4. AadMatchesVersion'
    BY <1>1 DEF IInv, LedgerInv, AadMatchesVersion, CommitPut, DraftOK
  <2> QED BY <2>1, <2>3, <2>4 DEF LedgerInv
<1>9. ClientInv(p)'
  BY DEF IInv, TypeOK, ClientInv, BegunInv, StageInv, PutInv, RollbackInv, DeleteInv, GetInv,
         At, Goto, CommitPut, Acknowledged
<1> QED BY <1>5, <1>6, <1>7, <1>8, <1>9, OneClientMoves

\* The attribute is written after the transaction has ended.
LEMMA SetAttrsKeepsIInv ==
  ASSUME IInv, NEW p \in Clients, NEW mode, SetAttrs(p, mode)
  PROVE  IInv'
<1>1. CASE \E err \in Results : Abort(p, err)
  BY <1>1, AbortKeepsIInv DEF SetAttrs, At
<1>2. CASE \A err \in Results : ~Abort(p, err)
  <2>0. /\ At(p, "attrs", "put", mode) /\ attr' = req[p].id
        /\ Goto(p, "done") /\ out' = [out EXCEPT ![p] = "Ok"]
        /\ UNCHANGED <<hdr, vers, audit, lock, ops, req, view, row>>
    BY <1>2 DEF SetAttrs, Results
  <2>1. TypeOK'
    BY <2>0, Defaults, RequestFields DEF IInv, TypeOK, Stages, At, Goto, Results
  <2>2. Frame(p)
    BY <2>0, BoundAssumption DEF IInv, TypeOK, LockInv, Holds, Frame, At, Goto
  <2>3. lock' = p <=> Holds(p)'
    BY <2>0, NoneAssumption DEF IInv, TypeOK, LockInv, Holds, At, Goto
  <2>4. LedgerInv'
    BY <2>0 DEF IInv, LedgerInv, AadMatchesVersion
  <2>5. ClientInv(p)'
    BY <2>0 DEF IInv, TypeOK, ClientInv, BegunInv, StageInv, PutInv, RollbackInv, DeleteInv,
           GetInv, At, Goto
  <2> QED BY <2>1, <2>2, <2>3, <2>4, <2>5, OneClientMoves
<1> QED BY <1>1, <1>2

\* A rollback starts from the committed live row.
LEMMA LockForRollbackKeepsIInv ==
  ASSUME IInv, NEW p \in Clients, NEW mode, LockForRollback(p, mode)
  PROVE  IInv'
<1>1. CASE \E err \in Results : Abort(p, err)
  BY <1>1, AbortKeepsIInv DEF LockForRollback, At
<1>2. CASE \A err \in Results : ~Abort(p, err)
  <2>0. /\ At(p, "begin", "rollback", mode) /\ Row(p).st = "live" /\ MayLock(p)
        /\ lock' = p /\ view' = [view EXCEPT ![p] = Row(p)]
        /\ Goto(p, "check")
        /\ UNCHANGED <<hdr, vers, audit, attr, ops, req, row, out>>
    BY <1>2 DEF LockForRollback, Results
  <2>1. Row(p) \in Header /\ Row(p) = hdr
    BY <2>0, RowTyped DEF Holds, At
  <2>2. TypeOK'
    BY <2>0, <2>1, Defaults DEF IInv, TypeOK, Stages, At, Goto
  <2>3. Frame(p)
    BY <2>0, BoundAssumption DEF IInv, TypeOK, LockInv, Holds, Frame, At, Goto, MayLock
  <2>4. lock' = p <=> Holds(p)'
    BY <2>0, NoneAssumption DEF IInv, TypeOK, LockInv, Holds, At, Goto
  <2>5. LedgerInv'
    BY <2>0 DEF IInv, LedgerInv, AadMatchesVersion
  <2>6. ClientInv(p)'
    BY <2>0, <2>1 DEF IInv, TypeOK, ClientInv, BegunInv, StageInv, PutInv, RollbackInv,
           DeleteInv, GetInv, At, Goto
  <2> QED BY <2>2, <2>3, <2>4, <2>5, <2>6, OneClientMoves
<1> QED BY <1>1, <1>2

\* The pointer moves only to a stored version.
LEMMA MovePointerKeepsIInv ==
  ASSUME IInv, NEW p \in Clients, NEW mode, MovePointer(p, mode)
  PROVE  IInv'
<1>1. CASE \E err \in Results : Abort(p, err)
  BY <1>1, AbortKeepsIInv DEF MovePointer, At
<1>2. CASE \A err \in Results : ~Abort(p, err)
  <2>0. /\ At(p, "check", "rollback", mode) /\ MayLock(p)
        /\ req[p].arg \in DOMAIN vers
        /\ lock' = p /\ view' = [view EXCEPT ![p] = [Row(p) EXCEPT !.cur = req[p].arg]]
        /\ Finish(p, mode)
        /\ UNCHANGED <<hdr, vers, audit, attr, ops, req, row, out>>
    BY <1>2 DEF MovePointer, Results
  <2>1. /\ Row(p) = hdr /\ hdr.st = "live"
        /\ view' = [view EXCEPT ![p] = [hdr EXCEPT !.cur = req[p].arg]]
        /\ view'[p] \in Header
    BY <2>0, RowTyped, HeaderUpdates DEF IInv, TypeOK, ClientInv, RollbackInv, Holds, At
  <2>2. TypeOK'
    BY <2>0, <2>1, Defaults DEF IInv, TypeOK, Stages, At, Goto, Finish
  <2>3. Frame(p)
    BY <2>0, BoundAssumption DEF IInv, TypeOK, LockInv, Holds, Frame, At, Goto, MayLock,
           Finish
  <2>4. lock' = p <=> Holds(p)'
    BY <2>0, NoneAssumption DEF IInv, TypeOK, LockInv, Holds, At, Goto, Finish
  <2>5. LedgerInv'
    BY <2>0 DEF IInv, LedgerInv, AadMatchesVersion
  <2>6. ClientInv(p)'
    BY <2>0, <2>1 DEF IInv, TypeOK, ClientInv, BegunInv, StageInv, PutInv, RollbackInv,
           DeleteInv, GetInv, At, Goto, Finish
  <2> QED BY <2>2, <2>3, <2>4, <2>5, <2>6, OneClientMoves
<1> QED BY <1>1, <1>2

\* A deletion marks a live row and keeps its pointer.
LEMMA MarkDeletedKeepsIInv ==
  ASSUME IInv, NEW p \in Clients, NEW mode, MarkDeleted(p, mode)
  PROVE  IInv'
<1>1. CASE \E err \in Results : Abort(p, err)
  BY <1>1, AbortKeepsIInv DEF MarkDeleted, At
<1>2. CASE \A err \in Results : ~Abort(p, err)
  <2>0. /\ At(p, "begin", "delete", mode) /\ Row(p).st = "live" /\ MayLock(p)
        /\ lock' = p /\ view' = [view EXCEPT ![p] = [Row(p) EXCEPT !.st = "deleted"]]
        /\ Finish(p, mode)
        /\ UNCHANGED <<hdr, vers, audit, attr, ops, req, row, out>>
    BY <1>2 DEF MarkDeleted, Results
  <2>1. /\ Row(p) = hdr /\ hdr.st = "live"
        /\ view' = [view EXCEPT ![p] = [hdr EXCEPT !.st = "deleted"]]
        /\ view'[p] \in Header
    BY <2>0, RowTyped, HeaderUpdates DEF IInv, TypeOK, Holds, At
  <2>2. TypeOK'
    BY <2>0, <2>1, Defaults DEF IInv, TypeOK, Stages, At, Goto, Finish
  <2>3. Frame(p)
    BY <2>0, BoundAssumption DEF IInv, TypeOK, LockInv, Holds, Frame, At, Goto, MayLock,
           Finish
  <2>4. lock' = p <=> Holds(p)'
    BY <2>0, NoneAssumption DEF IInv, TypeOK, LockInv, Holds, At, Goto, Finish
  <2>5. LedgerInv'
    BY <2>0 DEF IInv, LedgerInv, AadMatchesVersion
  <2>6. ClientInv(p)'
    BY <2>0, <2>1 DEF IInv, TypeOK, ClientInv, BegunInv, StageInv, PutInv, RollbackInv,
           DeleteInv, GetInv, At, Goto, Finish
  <2> QED BY <2>2, <2>3, <2>4, <2>5, <2>6, OneClientMoves
<1> QED BY <1>1, <1>2

\* The commit of a rollback or a deletion.
LEMMA CommitHeaderKeepsIInv ==
  ASSUME IInv, NEW p \in Clients, NEW kind \in {"rollback", "delete"}, NEW mode, CommitHeader(p, kind, mode)
  PROVE  IInv'
<1>1. kind \in {"rollback", "delete"} /\ lock = p /\ hdr' = view[p] /\ hdr' \in Header
  BY RowTyped DEF IInv, TypeOK, LockInv, Holds, At, CommitHeader, Acknowledged
<1>2. audit' \subseteq Event
  BY RequestFields DEF IInv, TypeOK, ClientInv, BegunInv, Logged, Event, At, CommitHeader,
         Acknowledged
<1>3. TypeOK'
  BY <1>1, <1>2, Defaults DEF IInv, TypeOK, Stages, At, Goto, Unlock, Results, CommitHeader,
         Acknowledged
<1>4. Frame(p)
  BY <1>1, BoundAssumption DEF IInv, TypeOK, LockInv, Holds, Frame, At, Goto, Unlock,
         CommitHeader, Acknowledged
<1>5. lock' = p <=> Holds(p)'
  BY NoneAssumption, <1>1 DEF IInv, TypeOK, LockInv, Holds, At, Goto, Unlock, CommitHeader,
         Acknowledged
<1>6. LedgerInv'
  <2>1. CASE kind = "rollback"
    <3>1. /\ hdr' = [hdr EXCEPT !.cur = req[p].arg] /\ hdr \in Header
          /\ req[p].arg \in DOMAIN vers /\ hdr.st = "live"
      BY <1>1, <2>1 DEF IInv, TypeOK, ClientInv, RollbackInv, At, CommitHeader
    <3>2. hdr'.st = "live" /\ hdr'.cur = req[p].arg
      BY <3>1 DEF Header
    <3> QED BY <3>1, <3>2 DEF IInv, LedgerInv, AadMatchesVersion, CommitHeader
  <2>2. CASE kind = "delete"
    <3>1. hdr' = [hdr EXCEPT !.st = "deleted"] /\ hdr \in Header
      BY <1>1, <2>2 DEF IInv, TypeOK, ClientInv, DeleteInv, At, CommitHeader
    <3>2. hdr'.st = "deleted" /\ hdr'.cur = hdr.cur
      BY <3>1 DEF Header
    <3> QED BY <3>2 DEF IInv, LedgerInv, AadMatchesVersion, CommitHeader
  <2> QED BY <1>1, <2>1, <2>2
<1>7. ClientInv(p)'
  BY DEF IInv, TypeOK, ClientInv, BegunInv, StageInv, PutInv, RollbackInv, DeleteInv, GetInv,
         At, Goto, CommitHeader, Acknowledged
<1> QED BY <1>3, <1>4, <1>5, <1>6, <1>7, OneClientMoves

\* A read remembers the pointer, which names a stored version.
LEMMA ReadHeaderKeepsIInv ==
  ASSUME IInv, NEW p \in Clients, NEW mode, ReadHeader(p, mode)
  PROVE  IInv'
<1>1. CASE \E err \in Results : Abort(p, err)
  BY <1>1, AbortKeepsIInv DEF ReadHeader, At
<1>2. CASE \A err \in Results : ~Abort(p, err)
  <2>0. /\ At(p, "begin", "get", mode) /\ hdr.st = "live"
        /\ row' = [row EXCEPT ![p].v = IF req[p].arg = None THEN hdr.cur ELSE req[p].arg]
        /\ Goto(p, "fetch")
        /\ UNCHANGED <<hdr, vers, audit, attr, lock, ops, req, view, out>>
    BY <1>2 DEF ReadHeader, Results
  <2>1. (IF req[p].arg = None THEN hdr.cur ELSE req[p].arg) \in Nat
    BY <2>0, RequestFields, ArgsAssumption, HeaderFields DEF IInv, TypeOK
  <2>2. row' \in [Clients -> Draft]
    BY <2>0, <2>1 DEF IInv, TypeOK, Draft
  <2>3. hdr.cur \in DOMAIN vers \cup {0}
    BY <2>0 DEF IInv, LedgerInv
  <2>4. TypeOK'
    BY <2>0, <2>1, <2>2, <2>3, Defaults DEF IInv, TypeOK, Stages, At, Goto
  <2>5. Frame(p)
    BY <2>0, BoundAssumption DEF IInv, TypeOK, LockInv, Holds, Frame, At, Goto
  <2>6. lock' = p <=> Holds(p)'
    BY <2>0, NoneAssumption DEF IInv, TypeOK, LockInv, Holds, At, Goto
  <2>7. LedgerInv'
    BY <2>0 DEF IInv, LedgerInv, AadMatchesVersion
  <2>8. ClientInv(p)'
    BY <2>0, <2>3 DEF IInv, TypeOK, ClientInv, BegunInv, StageInv, PutInv, RollbackInv,
           DeleteInv, GetInv, At, Goto
  <2> QED BY <2>4, <2>5, <2>6, <2>7, <2>8, OneClientMoves
<1> QED BY <1>1, <1>2

\* A read fetches the row it remembered.
LEMMA ReadVersionKeepsIInv ==
  ASSUME IInv, NEW p \in Clients, NEW mode, ReadVersion(p, mode)
  PROVE  IInv'
<1>1. CASE \E err \in Results : Abort(p, err)
  BY <1>1, AbortKeepsIInv DEF ReadVersion, At
<1>2. CASE \A err \in Results : ~Abort(p, err)
  <2>0. /\ At(p, "fetch", "get", mode) /\ row[p].v \in DOMAIN vers
        /\ row' = [row EXCEPT ![p].aad = vers[row[p].v].aad, ![p].key = vers[row[p].v].key]
        /\ Finish(p, mode)
        /\ UNCHANGED <<hdr, vers, audit, attr, lock, ops, req, view, out>>
    BY <1>2 DEF ReadVersion, Results
  <2>1. row' \in [Clients -> Draft]
    BY <2>0 DEF IInv, TypeOK, Draft, Version
  <2>2. TypeOK'
    BY <2>0, <2>1, Defaults DEF IInv, TypeOK, Stages, At, Goto, Finish
  <2>3. Frame(p)
    BY <2>0, BoundAssumption DEF IInv, TypeOK, LockInv, Holds, Frame, At, Goto, Finish
  <2>4. lock' = p <=> Holds(p)'
    BY <2>0, NoneAssumption DEF IInv, TypeOK, LockInv, Holds, At, Goto, Finish
  <2>5. LedgerInv'
    BY <2>0 DEF IInv, LedgerInv, AadMatchesVersion
  <2>6. ClientInv(p)'
    BY <2>0 DEF IInv, TypeOK, ClientInv, BegunInv, StageInv, PutInv, RollbackInv, DeleteInv,
           GetInv, At, Goto, Finish
  <2> QED BY <2>2, <2>3, <2>4, <2>5, <2>6, OneClientMoves
<1> QED BY <1>1, <1>2

\* The commit of a read adds at most an event.
LEMMA CommitReadKeepsIInv ==
  ASSUME IInv, NEW p \in Clients, NEW mode, CommitRead(p, mode)
  PROVE  IInv'
<1>1. audit' \subseteq Event
  BY RequestFields DEF IInv, TypeOK, ClientInv, BegunInv, Logged, Event, At, CommitRead,
         Acknowledged
<1>2. TypeOK'
  BY <1>1, Defaults DEF IInv, TypeOK, Stages, At, Goto, Results, CommitRead, Acknowledged
<1>3. Frame(p)
  BY BoundAssumption DEF IInv, TypeOK, LockInv, Holds, Frame, At, Goto, CommitRead,
         Acknowledged
<1>4. lock' = p <=> Holds(p)'
  BY NoneAssumption DEF IInv, TypeOK, LockInv, Holds, At, Goto, CommitRead, Acknowledged
<1>5. LedgerInv'
  BY DEF IInv, LedgerInv, AadMatchesVersion, CommitRead, Acknowledged
<1>6. ClientInv(p)'
  BY DEF IInv, TypeOK, ClientInv, BegunInv, StageInv, PutInv, RollbackInv, DeleteInv, GetInv,
         At, Goto, CommitRead, Acknowledged
<1> QED BY <1>2, <1>3, <1>4, <1>5, <1>6, OneClientMoves

\* Decryption touches no table.
LEMMA DecryptKeepsIInv ==
  ASSUME IInv, NEW p \in Clients, NEW mode, Decrypt(p, mode)
  PROVE  IInv'
<1>1. TypeOK'
  BY Defaults DEF IInv, TypeOK, Stages, At, Goto, Results, Decrypt
<1>2. Frame(p)
  BY BoundAssumption DEF IInv, TypeOK, LockInv, Holds, Frame, At, Goto, Decrypt
<1>3. lock' = p <=> Holds(p)'
  BY NoneAssumption DEF IInv, TypeOK, LockInv, Holds, At, Goto, Decrypt
<1>4. LedgerInv'
  BY DEF IInv, LedgerInv, AadMatchesVersion, Decrypt
<1>5. ClientInv(p)'
  BY DEF IInv, TypeOK, ClientInv, BegunInv, StageInv, PutInv, RollbackInv, DeleteInv, GetInv,
         At, Goto, Decrypt
<1> QED BY <1>1, <1>2, <1>3, <1>4, <1>5, OneClientMoves

\* The caller has its answer.
LEMMA ReturnKeepsIInv ==
  ASSUME IInv, NEW p \in Clients, Return(p)
  PROVE  IInv'
<1>1. TypeOK'
  BY Defaults DEF IInv, TypeOK, Stages, At, Goto, Results, Return
<1>2. Frame(p)
  BY BoundAssumption DEF IInv, TypeOK, LockInv, Holds, Frame, At, Goto, Return
<1>3. lock' = p <=> Holds(p)'
  BY NoneAssumption DEF IInv, TypeOK, LockInv, Holds, At, Goto, NoRequest, Return
<1>4. LedgerInv'
  BY DEF IInv, LedgerInv, AadMatchesVersion, Return
<1>5. ClientInv(p)'
  BY DEF IInv, TypeOK, ClientInv, BegunInv, StageInv, PutInv, RollbackInv, DeleteInv, GetInv,
         At, Goto, NoRequest, Return
<1> QED BY <1>1, <1>2, <1>3, <1>4, <1>5, OneClientMoves

\* An operator's cas_required is set on a row that no transaction holds.
LEMMA RequireCasKeepsIInv ==
  ASSUME IInv, RequireCas
  PROVE  IInv'
<1>1. TypeOK'
  BY DEF IInv, TypeOK, RequireCas, Header
<1>2. \A p \in Clients : ~Holds(p)
  BY NoneAssumption DEF IInv, LockInv, RequireCas
<1>3. LockInv'
  BY DEF IInv, LockInv, Holds, RequireCas
<1>4. hdr'.cur = hdr.cur /\ hdr'.st = "live"
  BY DEF IInv, TypeOK, RequireCas, Header
<1>5. LedgerInv'
  BY <1>4 DEF IInv, LedgerInv, AadMatchesVersion, RequireCas
<1>6. ASSUME NEW p \in Clients
      PROVE  ClientInv(p)'
  <2>1. ~Holds(p) /\ ClientInv(p)
    BY <1>2 DEF IInv
  <2>2. PutInv(p)' /\ RollbackInv(p)' /\ DeleteInv(p)'
    BY <2>1 DEF Holds, PutInv, RollbackInv, DeleteInv, RequireCas
  <2>3. BegunInv(p)' /\ StageInv(p)' /\ GetInv(p)'
    BY <2>1 DEF ClientInv, BegunInv, StageInv, GetInv, RequireCas
  <2> QED BY <2>2, <2>3 DEF ClientInv
<1> QED BY <1>1, <1>3, <1>5, <1>6 DEF IInv, RequireCas

\* Nothing is stored and nobody is connected at first.
LEMMA InitIInv ==
  ASSUME Init
  PROVE  IInv
<1>1. TypeOK
  BY Defaults DEF Init, TypeOK, Stages, Results
<1>2. LockInv /\ \A p \in Clients : ClientInv(p)
  BY NoneAssumption DEF Init, LockInv, Holds, ClientInv, BegunInv, StageInv, PutInv,
     RollbackInv, DeleteInv, GetInv, NoRequest
<1>3. hdr.cur = 0 /\ hdr = NoHeader /\ DOMAIN vers = 1 .. 0
  BY DEF Init, NoHeader
<1>4. LedgerInv
  BY <1>3 DEF LedgerInv, AadMatchesVersion
<1> QED BY <1>1, <1>2, <1>4, BoundAssumption DEF IInv, Init

\* The actions of one client, with the methods that share them merged.
ClientStep(p) ==
  \/ Begin(p) \/ CommitUpsert(p) \/ Cancel(p) \/ Return(p)
  \/ \E mode \in {"audited", "plain"} :
       \/ PutEnvMissing(p, mode)   \/ UpsertHeader(p, mode)   \/ SelectForUpdate(p, mode)
       \/ InsertVersion(p, mode)   \/ PointAtVersion(p, mode) \/ CommitPut(p, mode)
       \/ SetAttrs(p, mode)        \/ LockForRollback(p, mode) \/ MovePointer(p, mode)
       \/ MarkDeleted(p, mode)     \/ ReadHeader(p, mode)     \/ ReadVersion(p, mode)
       \/ CommitRead(p, mode)      \/ Decrypt(p, mode)
       \/ \E kind \in {"rollback", "delete"} : CommitHeader(p, kind, mode)
  \/ \E kind \in {"put", "rollback", "delete", "get"} : RecordAudit(p, kind)

\* Next is one of these actions.
LEMMA NextCases ==
  ASSUME Next
  PROVE  RequireCas \/ UNCHANGED vars \/ \E p \in Clients : ClientStep(p)
<1>1. ASSUME NEW p \in Clients, Serve(p)
      PROVE  ClientStep(p)
  <2>1. CASE PutSecretAudited(p) \/ PutSecret(p)
    BY <2>1 DEF ClientStep, PutSecretAudited, PutSecret, AdvanceSecretVersionInTx,
       AdvanceSecretVersion
  <2>2. CASE RollbackSecretAudited(p) \/ RollbackSecret(p)
    BY <2>2 DEF ClientStep, RollbackSecretAudited, RollbackSecret
  <2>3. CASE DeleteSecretAudited(p) \/ DeleteSecret(p)
    BY <2>3 DEF ClientStep, DeleteSecretAudited, DeleteSecret
  <2>4. CASE GetSecretAudited(p) \/ GetSecret(p)
    BY <2>4 DEF ClientStep, GetSecretAudited, GetSecret
  <2>5. CASE Return(p)
    BY <2>5 DEF ClientStep
  <2> QED BY <1>1, <2>1, <2>2, <2>3, <2>4, <2>5 DEF Serve
<1>2. ASSUME NEW p \in Clients, Begin(p) \/ Cancel(p)
      PROVE  ClientStep(p)
  BY <1>2 DEF ClientStep
<1> QED BY <1>1, <1>2 DEF Next, Quiescent

\* Every step keeps the invariant.
LEMMA NextKeepsIInv ==
  ASSUME IInv, [Next]_vars
  PROVE  IInv'
<1>1. CASE UNCHANGED vars
  BY <1>1 DEF vars, IInv, TypeOK, LockInv, Holds, LedgerInv, AadMatchesVersion, ClientInv,
     BegunInv, StageInv, PutInv, RollbackInv, DeleteInv, GetInv, Base, DraftOK, Repointed
<1>2. CASE RequireCas
  BY <1>2, RequireCasKeepsIInv
<1>3. ASSUME NEW p \in Clients, ClientStep(p)
      PROVE  IInv'
  <2>1. CASE Begin(p) \/ Return(p)
    BY <2>1, BeginKeepsIInv, ReturnKeepsIInv
  <2>2. CASE Cancel(p)
    BY <2>2, AbortKeepsIInv DEF Cancel, Results
  <2>3. CASE CommitUpsert(p)
    BY <2>3, CommitUpsertKeepsIInv
  <2>4. ASSUME NEW kind, RecordAudit(p, kind)
        PROVE  IInv'
    BY <2>4, RecordAuditKeepsIInv
  <2>5. ASSUME NEW mode,
               \/ PutEnvMissing(p, mode) \/ UpsertHeader(p, mode) \/ SelectForUpdate(p, mode)
               \/ InsertVersion(p, mode) \/ PointAtVersion(p, mode) \/ CommitPut(p, mode)
               \/ SetAttrs(p, mode)
        PROVE  IInv'
    <3>1. CASE PutEnvMissing(p, mode)
      BY <3>1, AbortKeepsIInv DEF PutEnvMissing, At, Results
    <3> QED BY <2>5, <3>1, UpsertHeaderKeepsIInv, SelectForUpdateKeepsIInv,
               InsertVersionKeepsIInv, PointAtVersionKeepsIInv, CommitPutKeepsIInv,
               SetAttrsKeepsIInv
  <2>6. ASSUME NEW mode,
               \/ LockForRollback(p, mode) \/ MovePointer(p, mode) \/ MarkDeleted(p, mode)
               \/ ReadHeader(p, mode) \/ ReadVersion(p, mode) \/ CommitRead(p, mode)
               \/ Decrypt(p, mode)
        PROVE  IInv'
    BY <2>6, LockForRollbackKeepsIInv, MovePointerKeepsIInv, MarkDeletedKeepsIInv,
       ReadHeaderKeepsIInv, ReadVersionKeepsIInv, CommitReadKeepsIInv, DecryptKeepsIInv
  <2>7. ASSUME NEW kind \in {"rollback", "delete"}, NEW mode, CommitHeader(p, kind, mode)
        PROVE  IInv'
    BY <2>7, CommitHeaderKeepsIInv
  <2> QED BY <1>3, <2>1, <2>2, <2>3, <2>4, <2>5, <2>6, <2>7 DEF ClientStep
<1> QED BY <1>1, <1>2, <1>3, NextCases

\* The invariant holds in every reachable state.
LEMMA IInvHolds == Spec => []IInv
<1>1. Init => IInv
  BY InitIInv
<1>2. IInv /\ [Next]_vars => IInv'
  BY NextKeepsIInv
<1> QED BY <1>1, <1>2, PTL DEF Spec

-------------------------------------------------------------------------------
\* The invariants.

\* Every variable keeps its type, whatever the transactions interleave.
THEOREM TypeCorrect == Spec => []TypeOK
<1>1. IInv => TypeOK
  BY DEF IInv
<1> QED BY <1>1, IInvHolds, PTL

\* put_secret*, rollback_secret* and delete_secret* keep the version numbers 1..n
\* without a gap and the pointer on one of them.
THEOREM PointerCorrect == Spec => []PointerNamesAVersion
<1>1. ASSUME IInv
      PROVE  PointerNamesAVersion
  <2>1. PICK n \in Nat : DOMAIN vers = 1 .. n /\ hdr.cur \in 0 .. n /\ (hdr.cur = 0 => n = 0)
    BY <1>1 DEF IInv, LedgerInv
  <2> QED BY <2>1 DEF PointerNamesAVersion
<1> QED BY <1>1, IInvHolds, PTL

\* The two unlocked SELECTs of get_secret* find the row the header pointed at.
THEOREM ReadsFindTheirRow == Spec => []ReadNeverDangles
<1>1. IInv => ReadNeverDangles
  BY DEF IInv, ClientInv, StageInv, GetInv, ReadNeverDangles
<1> QED BY <1>1, IInvHolds, PTL

\* A ciphertext is stored under the version number its AAD names (QW-5).
THEOREM AadCorrect == Spec => []AadMatchesVersion
<1>1. IInv => AadMatchesVersion
  BY DEF IInv, LedgerInv
<1> QED BY <1>1, IInvHolds, PTL

-------------------------------------------------------------------------------
\* The action properties.

\* The steps that can change the header, the version rows or the audit log.
LEMMA TableWrites ==
  ASSUME [Next]_vars
  PROVE  \/ UNCHANGED <<hdr, vers, audit>>
         \/ RequireCas
         \/ \E p \in Clients :
              \/ CommitUpsert(p)
              \/ \E mode \in {"audited", "plain"} :
                   \/ CommitPut(p, mode) \/ CommitRead(p, mode)
                   \/ \E kind \in {"rollback", "delete"} : CommitHeader(p, kind, mode)
<1>1. ASSUME NEW p \in Clients, NEW mode,
             \/ PutEnvMissing(p, mode)   \/ UpsertHeader(p, mode)   \/ SelectForUpdate(p, mode)
             \/ InsertVersion(p, mode)   \/ PointAtVersion(p, mode) \/ SetAttrs(p, mode)
             \/ LockForRollback(p, mode) \/ MovePointer(p, mode)    \/ MarkDeleted(p, mode)
             \/ ReadHeader(p, mode)      \/ ReadVersion(p, mode)    \/ Decrypt(p, mode)
      PROVE  UNCHANGED <<hdr, vers, audit>>
  BY <1>1 DEF PutEnvMissing, UpsertHeader, SelectForUpdate, InsertVersion, PointAtVersion,
     SetAttrs, LockForRollback, MovePointer, MarkDeleted, ReadHeader, ReadVersion,
     Decrypt, Abort
<1>2. ASSUME NEW p \in Clients, Begin(p) \/ Cancel(p) \/ Return(p) \/ \E kind : RecordAudit(p, kind)
      PROVE  UNCHANGED <<hdr, vers, audit>>
  BY <1>2 DEF Begin, Cancel, Return, RecordAudit, Abort
<1>3. CASE UNCHANGED vars
  BY <1>3 DEF vars
<1>4. ASSUME NEW p \in Clients, ClientStep(p)
      PROVE  \/ UNCHANGED <<hdr, vers, audit>>
             \/ CommitUpsert(p)
             \/ \E mode \in {"audited", "plain"} :
                  \/ CommitPut(p, mode) \/ CommitRead(p, mode)
                  \/ \E kind \in {"rollback", "delete"} : CommitHeader(p, kind, mode)
  BY <1>1, <1>2, <1>4 DEF ClientStep
<1> QED BY <1>3, <1>4, NextCases

\* The trait's upsert commits an empty header, or the one that is there.
LEMMA CommitUpsertWrites ==
  ASSUME IInv, NEW p \in Clients, CommitUpsert(p)
  PROVE  hdr' = Base /\ vers' = vers
BY DEF IInv, ClientInv, PutInv, CommitUpsert, At

\* A put commits one new version, the next of the row it locked.
LEMMA CommitPutWrites ==
  ASSUME IInv, NEW p \in Clients, NEW mode, CommitPut(p, mode)
  PROVE  /\ DraftOK(p) /\ hdr' = Repointed(p) /\ row[p].v \notin DOMAIN vers
         /\ DOMAIN vers' = DOMAIN vers \cup {row[p].v}
         /\ \A v \in DOMAIN vers : vers'[v] = vers[v]
         /\ vers'[row[p].v].op = req[p].id
<1>1. Holds(p) /\ DraftOK(p) /\ view[p] = Repointed(p) /\ row[p].v \notin DOMAIN vers
  BY DEF IInv, ClientInv, PutInv, CommitPut, At, Holds
<1>2. hdr' = view[p]
  BY <1>1, RowTyped DEF CommitPut
<1> QED BY <1>1, <1>2 DEF CommitPut

\* A rollback or a deletion commits on a live header and leaves the versions alone.
LEMMA CommitHeaderWrites ==
  ASSUME IInv, NEW p \in Clients, NEW kind \in {"rollback", "delete"}, NEW mode,
         CommitHeader(p, kind, mode)
  PROVE  /\ hdr.st = "live" /\ vers' = vers
         /\ kind = "rollback" => req[p].arg \in DOMAIN vers /\ hdr' = [hdr EXCEPT !.cur = req[p].arg]
         /\ kind = "delete" => hdr' = [hdr EXCEPT !.st = "deleted"]
<1>1. Holds(p) /\ hdr' = view[p]
  BY RowTyped DEF CommitHeader, At, Holds
<1> QED BY <1>1 DEF IInv, ClientInv, RollbackInv, DeleteInv, CommitHeader, At

\* A stored version is never rewritten and never removed.
THEOREM VersionsAreAppendOnly == Spec => VersionsAppendOnly
<1>1. ASSUME IInv, [Next]_vars
      PROVE  \A v \in DOMAIN vers : v \in DOMAIN vers' /\ vers'[v] = vers[v]
  <2>1. CASE UNCHANGED <<hdr, vers>>
    BY <2>1
  <2>6. ASSUME NEW p \in Clients, NEW mode, CommitRead(p, mode)
        PROVE  vers' = vers
    BY <2>6 DEF CommitRead
  <2>2. CASE RequireCas
    BY <2>2 DEF RequireCas
  <2>3. ASSUME NEW p \in Clients, CommitUpsert(p)
        PROVE  vers' = vers
    BY <1>1, <2>3, CommitUpsertWrites
  <2>4. ASSUME NEW p \in Clients, NEW mode, CommitPut(p, mode)
        PROVE  \A v \in DOMAIN vers : v \in DOMAIN vers' /\ vers'[v] = vers[v]
    BY <1>1, <2>4, CommitPutWrites
  <2>5. ASSUME NEW p \in Clients, NEW mode, NEW kind \in {"rollback", "delete"},
               CommitHeader(p, kind, mode)
        PROVE  vers' = vers
    BY <1>1, <2>5, CommitHeaderWrites
  <2> QED BY <1>1, <2>1, <2>2, <2>3, <2>4, <2>5, <2>6, TableWrites
<1> QED BY <1>1, IInvHolds, PTL DEF VersionsAppendOnly, Spec

\* A put or rollback that was under way when the deletion committed changes nothing.
THEOREM DeletionIsFinal == Spec => DeletedIsFrozen
<1>1. ASSUME IInv, [Next]_vars, hdr.st = "deleted"
      PROVE  hdr' = hdr /\ vers' = vers
  <2>1. CASE RequireCas
    BY <1>1, <2>1 DEF RequireCas
  <2>2. ASSUME NEW p \in Clients, CommitUpsert(p)
        PROVE  hdr' = hdr /\ vers' = vers
    BY <1>1, <2>2, CommitUpsertWrites DEF Base
  <2>3. ASSUME NEW p \in Clients, NEW mode, CommitPut(p, mode)
        PROVE  FALSE
    BY <1>1, <2>3, CommitPutWrites DEF DraftOK, Base
  <2>4. ASSUME NEW p \in Clients, NEW mode, NEW kind \in {"rollback", "delete"},
               CommitHeader(p, kind, mode)
        PROVE  FALSE
    BY <1>1, <2>4, CommitHeaderWrites
  <2>5. ASSUME NEW p \in Clients, NEW mode, CommitRead(p, mode)
        PROVE  hdr' = hdr /\ vers' = vers
    BY <2>5 DEF CommitRead
  <2> QED BY <1>1, <2>1, <2>2, <2>3, <2>4, <2>5, TableWrites
<1> QED BY <1>1, IInvHolds, PTL DEF DeletedIsFrozen, Spec

\* A version is committed only on top of the version its caller expected.
THEOREM NoUpdateIsLost == Spec => NoLostUpdate
<1>1. ASSUME IInv, [Next]_vars
      PROVE  \A v \in DOMAIN vers' \ DOMAIN vers :
               /\ hdr'.cur = v /\ v = hdr.cur + 1
               /\ \E p \in Clients :
                    /\ vers'[v].op = req[p].id
                    /\ req[p].arg = hdr.cur \/ (req[p].arg = None /\ ~hdr.casReq)
  <2>0. TAKE v \in DOMAIN vers' \ DOMAIN vers
  <2>1. PICK p \in Clients : \E mode : CommitPut(p, mode)
    <3>1. ~RequireCas /\ ~UNCHANGED <<hdr, vers>>
      BY <1>1 DEF RequireCas
    <3>2. \A p \in Clients : ~CommitUpsert(p)
      BY <1>1, CommitUpsertWrites
    <3>3. \A p \in Clients, kind \in {"rollback", "delete"} : \A mode : ~CommitHeader(p, kind, mode)
      BY <1>1, CommitHeaderWrites
    <3>4. \A p \in Clients : \A mode : ~CommitRead(p, mode)
      BY <1>1 DEF CommitRead
    <3> QED BY <1>1, <3>1, <3>2, <3>3, <3>4, TableWrites
  <2>2. v = row[p].v /\ DraftOK(p) /\ hdr' = Repointed(p) /\ vers'[v].op = req[p].id
    BY <1>1, <2>1, CommitPutWrites
  <2>3. Base.cur = hdr.cur /\ Base.casReq = hdr.casReq
    <3>1. CASE hdr.st = "absent"
      <4>1. hdr = NoHeader /\ Base = FreshHeader
        BY <1>1, <3>1 DEF IInv, LedgerInv, Base
      <4> QED BY <4>1 DEF FreshHeader, NoHeader
    <3>2. CASE hdr.st # "absent"
      BY <3>2 DEF Base
    <3> QED BY <3>1, <3>2
  <2>4. v = hdr.cur + 1 /\ hdr'.cur = v
    BY <2>2, <2>3 DEF DraftOK, Repointed, NextVersion
  <2>5. req[p].arg = hdr.cur \/ (req[p].arg = None /\ ~hdr.casReq)
    BY <2>2, <2>3 DEF DraftOK, CasHolds
  <2> QED BY <2>2, <2>4, <2>5
<1> QED BY <1>1, IInvHolds, PTL DEF NoLostUpdate, Spec

(***************************************************************************)
(* SecretLedger implements VersionedSecret: a header and its version rows, *)
(* written statement by statement under a row lock, behave as one entry    *)
(* whose calls take one step each.                                         *)
(***************************************************************************)

\* The version rows read in the order of their numbers are a sequence of calls.
LEMMA HistoryIsSeq ==
  ASSUME TypeOK, NEW n \in Nat, DOMAIN vers = 1 .. n
  PROVE  History \in Seq(Nat) /\ Len(History) = n
<1>1. History \in [1 .. n -> Nat]
  BY DEF TypeOK, History, Version
<1>2. History \in Seq(Nat)
  BY <1>1, SeqDef
<1>3. DOMAIN History = 1 .. n /\ DOMAIN History = 1 .. Len(History) /\ Len(History) \in Nat
  BY <1>1, <1>2, LenProperties
<1> QED BY <1>2, <1>3

\* A put under way is one of the calls.
LEMMA CallInRange ==
  ASSUME IInv, NEW p \in Clients, pc[p] # "idle"
  PROVE  req[p].id \in 1 .. MaxOps
BY BoundAssumption DEF IInv, TypeOK, ClientInv, BegunInv

\* The commit of a put is a Write.
LEMMA CommitPutRefines ==
  ASSUME IInv, IInv', NEW p \in Clients, NEW mode, CommitPut(p, mode)
  PROVE  Entry!Next
<1>1. PICK n \in Nat : DOMAIN vers = 1 .. n /\ hdr.cur \in 0 .. n /\ (hdr.cur = 0 => n = 0)
  BY DEF IInv, LedgerInv
<1>2. /\ DraftOK(p) /\ hdr' = Repointed(p) /\ row[p].v \notin DOMAIN vers
      /\ DOMAIN vers' = DOMAIN vers \cup {row[p].v}
      /\ \A v \in DOMAIN vers : vers'[v] = vers[v]
      /\ vers'[row[p].v].op = req[p].id
  BY CommitPutWrites
<1>3. /\ Base.cur = hdr.cur /\ Base.casReq = hdr.casReq /\ hdr.st # "deleted"
      /\ Base.st = "live"
  <2>1. CASE hdr.st = "absent"
    <3>1. hdr = NoHeader /\ Base = FreshHeader
      BY <2>1 DEF IInv, LedgerInv, Base
    <3> QED BY <3>1 DEF FreshHeader, NoHeader
  <2>2. CASE hdr.st # "absent"
    BY <1>2, <2>2 DEF Base, DraftOK
  <2> QED BY <2>1, <2>2
<1>4. row[p].v = n + 1 /\ hdr.cur = n
  BY <1>1, <1>2, <1>3 DEF DraftOK, NextVersion
<1>5. hdr'.st = "live" /\ hdr'.cur = hdr.cur + 1 /\ hdr'.casReq = hdr.casReq
  BY <1>2, <1>3, <1>4 DEF Repointed
<1>6. History \in Seq(Nat) /\ Len(History) = n
  BY <1>1, HistoryIsSeq DEF IInv
<1>7. req[p].id \in 1 .. MaxOps /\ req[p].mode = mode /\ mode \in Modes
      /\ req[p].arg \in Args \cup {None} /\ req[p].kind = "put"
  BY CallInRange, RequestFields DEF IInv, TypeOK, ClientInv, BegunInv, CommitPut, At
<1>8. History' = Append(History, req[p].id)
  <2>1. DOMAIN vers' = 1 .. (n + 1)
    BY <1>1, <1>2, <1>4
  <2>2. History' \in Seq(Nat) /\ Len(History') = n + 1
    <3>1. TypeOK' => History' \in [1 .. n + 1 -> Nat]
      BY <2>1 DEF TypeOK, History, Version
    <3>2. History' \in Seq(Nat)
      BY <3>1, SeqDef DEF IInv
    <3>3. DOMAIN History' = 1 .. n + 1
      BY <3>1 DEF IInv
    <3>4. DOMAIN History' = 1 .. Len(History') /\ Len(History') \in Nat
      BY <3>2, LenProperties
    <3> QED BY <3>2, <3>3, <3>4
  <2>3. /\ Append(History, req[p].id) \in Seq(Nat)
        /\ Len(Append(History, req[p].id)) = n + 1
        /\ \A i \in 1 .. n : Append(History, req[p].id)[i] = History[i]
        /\ Append(History, req[p].id)[n + 1] = req[p].id
    BY <1>6, <1>7, AppendProperties
  <2>4. \A i \in 1 .. n + 1 : History'[i] = Append(History, req[p].id)[i]
    BY <1>1, <1>2, <1>4, <2>1, <2>3 DEF History
  <2> QED BY <2>2, <2>3, <2>4, SeqEqual
<1>9. Entry!Log(req[p].id, "put", mode)
  BY <1>7 DEF Entry!Log, CommitPut, Logged
<1>10. IF req[p].arg = None THEN ~hdr.casReq ELSE req[p].arg = hdr.cur
  BY <1>2, <1>3 DEF DraftOK, CasHolds
<1>11. Entry!Write(req[p].id, req[p].arg, mode)
  BY <1>3, <1>4, <1>5, <1>6, <1>8, <1>9, <1>10 DEF Entry!Write
<1> QED BY <1>7, <1>11 DEF Entry!Next

\* The commit of a rollback or a deletion is a Rollback or a Delete.
LEMMA CommitHeaderRefines ==
  ASSUME IInv, NEW p \in Clients, NEW kind \in {"rollback", "delete"}, NEW mode,
         CommitHeader(p, kind, mode)
  PROVE  Entry!Next
<1>1. /\ hdr \in Header /\ hdr.st = "live" /\ vers' = vers
      /\ kind = "rollback" => req[p].arg \in DOMAIN vers /\ hdr' = [hdr EXCEPT !.cur = req[p].arg]
      /\ kind = "delete" => hdr' = [hdr EXCEPT !.st = "deleted"]
  BY CommitHeaderWrites DEF IInv, TypeOK
<1>2. /\ req[p].id \in 1 .. MaxOps /\ mode \in Modes
      /\ req[p].arg \in Args \cup {None}
  BY CallInRange, RequestFields DEF IInv, TypeOK, ClientInv, BegunInv, CommitHeader, At
<1>3. Entry!Log(req[p].id, kind, mode) /\ History' = History
  BY <1>1 DEF Entry!Log, CommitHeader, Logged, At, History
<1>4. CASE kind = "rollback"
  <2>1. PICK n \in Nat : DOMAIN vers = 1 .. n
    BY DEF IInv, LedgerInv
  <2>2. req[p].arg \in 1 .. Len(History) /\ req[p].arg \in Args
    BY <1>1, <1>2, <1>4, <2>1, HistoryIsSeq, NoneAssumption DEF IInv
  <2>3. hdr'.st = hdr.st /\ hdr'.cur = req[p].arg /\ hdr'.casReq = hdr.casReq
    BY <1>1, <1>4 DEF Header
  <2>4. Entry!Rollback(req[p].id, req[p].arg, mode)
    BY <1>1, <1>3, <1>4, <2>2, <2>3 DEF Entry!Rollback
  <2> QED BY <1>2, <2>2, <2>4 DEF Entry!Next
<1>5. CASE kind = "delete"
  <2>1. hdr'.st = "deleted" /\ hdr'.cur = hdr.cur /\ hdr'.casReq = hdr.casReq
    BY <1>1, <1>5 DEF Header
  <2>2. Entry!Delete(req[p].id, mode)
    BY <1>1, <1>3, <1>5, <2>1 DEF Entry!Delete
  <2> QED BY <1>2, <2>2 DEF Entry!Next
<1> QED BY <1>4, <1>5

\* The commit of an audited read is a Read; the trait's read changes nothing.
LEMMA CommitReadRefines ==
  ASSUME IInv, NEW p \in Clients, NEW mode, CommitRead(p, mode)
  PROVE  Entry!Next \/ UNCHANGED <<hdr.st, hdr.cur, hdr.casReq, History, audit>>
<1>1. hdr' = hdr /\ vers' = vers /\ History' = History
  BY DEF CommitRead, History
<1>2. hdr.st # "absent" /\ req[p].id \in 1 .. MaxOps
  BY CallInRange DEF IInv, LedgerInv, ClientInv, GetInv, CommitRead, At
<1>3. CASE mode = "audited"
  <2>1. Entry!Log(req[p].id, "get", "audited")
    BY <1>3 DEF Entry!Log, CommitRead, Logged, At
  <2>2. Entry!Read(req[p].id)
    BY <1>1, <1>2, <2>1 DEF Entry!Read
  <2> QED BY <1>2, <2>2 DEF Entry!Next
<1>4. CASE mode # "audited"
  BY <1>1, <1>4 DEF CommitRead, Logged
<1> QED BY <1>3, <1>4

\* The trait's upsert is a Create, or a stutter if the header is there.
LEMMA CommitUpsertRefines ==
  ASSUME IInv, NEW p \in Clients, CommitUpsert(p)
  PROVE  Entry!Next \/ UNCHANGED <<hdr.st, hdr.cur, hdr.casReq, History, audit>>
<1>1. hdr' = Base /\ History' = History /\ audit' = audit
  BY CommitUpsertWrites DEF CommitUpsert, History
<1>2. CASE hdr.st = "absent"
  <2>1. hdr = NoHeader /\ hdr' = FreshHeader
    BY <1>1, <1>2 DEF IInv, LedgerInv, Base
  <2>2. Entry!Create
    BY <1>1, <2>1 DEF Entry!Create, NoHeader, FreshHeader
  <2> QED BY <2>2 DEF Entry!Next
<1>3. CASE hdr.st # "absent"
  BY <1>1, <1>3 DEF Base
<1> QED BY <1>2, <1>3

\* The operator's statement is a RequireCas.
LEMMA RequireCasRefines ==
  ASSUME IInv, RequireCas
  PROVE  Entry!Next
<1>1. hdr.st = "live" /\ hdr'.st = hdr.st /\ hdr'.cur = hdr.cur /\ hdr'.casReq = TRUE
  BY DEF IInv, TypeOK, RequireCas, Header
<1>2. History' = History /\ audit' = audit
  BY DEF RequireCas, History
<1>3. Entry!RequireCas
  BY <1>1, <1>2 DEF Entry!RequireCas
<1> QED BY <1>3 DEF Entry!Next

\* Whatever the clients' statements interleave, what they do to the stored secret is
\* what the one-step calls of VersionedSecret do.
THEOREM LedgerImplementsEntry == Spec => ImplementsVersionedSecret
<1>1. Init => Entry!Init
  <2> SUFFICES ASSUME Init
               PROVE  Entry!Init
    OBVIOUS
  <2>1. DOMAIN vers = 1 .. 0 /\ hdr = NoHeader /\ audit = {} /\ IInv
    BY InitIInv DEF Init
  <2>2. History \in Seq(Nat) /\ Len(History) = 0
    BY <2>1, HistoryIsSeq DEF IInv
  <2>3. History = <<>>
    BY <2>2, EmptySeq
  <2> QED BY <2>1, <2>3 DEF Entry!Init, NoHeader
<1>2. ASSUME IInv, IInv', [Next]_vars
      PROVE  [Entry!Next]_(Entry!avars)
  <2>1. CASE UNCHANGED <<hdr, vers, audit>>
    BY <2>1 DEF Entry!avars, History
  <2>2. CASE RequireCas
    BY <1>2, <2>2, RequireCasRefines
  <2>3. ASSUME NEW p \in Clients, CommitUpsert(p)
        PROVE  [Entry!Next]_(Entry!avars)
    BY <1>2, <2>3, CommitUpsertRefines DEF Entry!avars
  <2>4. ASSUME NEW p \in Clients, NEW mode, CommitPut(p, mode)
        PROVE  Entry!Next
    BY <1>2, <2>4, CommitPutRefines
  <2>5. ASSUME NEW p \in Clients, NEW mode, CommitRead(p, mode)
        PROVE  [Entry!Next]_(Entry!avars)
    BY <1>2, <2>5, CommitReadRefines DEF Entry!avars
  <2>6. ASSUME NEW p \in Clients, NEW mode, NEW kind \in {"rollback", "delete"},
               CommitHeader(p, kind, mode)
        PROVE  Entry!Next
    BY <1>2, <2>6, CommitHeaderRefines
  <2> QED BY <1>2, <2>1, <2>2, <2>3, <2>4, <2>5, <2>6, TableWrites
<1> QED BY <1>1, <1>2, IInvHolds, PTL DEF ImplementsVersionedSecret, Spec, Entry!Spec

(***************************************************************************)
(* The audit log, the version rows and the answers agree, for every        *)
(* interleaving: proved from the identity of the call that wrote each row. *)
(***************************************************************************)

\* The stages of a call whose transaction has not committed.
Open == {"begin", "headed", "select", "insert", "update", "check", "fetch", "audit", "commit"}

NoTrace(id) == ~Stored(id) /\ \A e \in audit : e.op # id

\* Calls in progress are distinct, and what is stored comes from calls that began.
IdInv ==
  /\ \A p, q \in Clients :
       p # q /\ pc[p] # "idle" /\ pc[q] # "idle" => req[p].id # req[q].id
  /\ \A v \in DOMAIN vers : vers[v].op \in 1 .. ops
  /\ \A e \in audit : e.op \in 1 .. ops

\* A call leaves a trace when it commits and not before.
TraceInv(p) ==
  /\ pc[p] \in Open => NoTrace(req[p].id)
  /\ pc[p] = "attrs" => Stored(req[p].id)

\* A logged deletion is a deletion.
DeletionInv == \A e \in audit : e.kind = "delete" => hdr.st = "deleted"

AInv ==
  /\ IdInv /\ DeletionInv /\ AuditIffEffect /\ AnswerIsTruthful /\ AttrsFollowCommit
  /\ \A p \in Clients : TraceInv(p)

\* Nothing has happened yet.
LEMMA InitAInv ==
  ASSUME Init
  PROVE  AInv
BY DEF Init, AInv, IdInv, TraceInv, DeletionInv, AuditIffEffect, AnswerIsTruthful,
   AttrsFollowCommit, Open

\* p's answer, once it has one, is the truth.
Truthful(p) ==
  pc[p] = "done" =>
    /\ req[p].kind = "put" /\ out[p] \in {"Ok", "Attrs"} => Stored(req[p].id)
    /\ out[p] \in {"NotFound", "Conflict", "Audit"} \/ (out[p] = "Crypto" /\ req[p].kind = "put") =>
         NoTrace(req[p].id)

\* Steps of p that write none of the tables.
Quiet(p) ==
  /\ UNCHANGED <<hdr, vers, audit, ops, req>>
  /\ \A q \in Clients \ {p} : pc'[q] = pc[q] /\ out'[q] = out[q]
  /\ attr' = attr \/ (attr' = req[p].id /\ pc[p] = "attrs")
  /\ pc'[p] # "idle" => pc[p] # "idle"

\* A quiet step keeps the invariant if p's own part is kept.
LEMMA QuietKeepsAInv ==
  ASSUME AInv, NEW p \in Clients, Quiet(p), TraceInv(p)', Truthful(p)'
  PROVE  AInv'
<1>1. IdInv' /\ DeletionInv' /\ AuditIffEffect'
  BY DEF AInv, IdInv, DeletionInv, AuditIffEffect, Quiet
<1>2. AnswerIsTruthful'
  BY DEF AInv, AnswerIsTruthful, Truthful, Stored, NoTrace, Quiet
<1>3. AttrsFollowCommit'
  BY DEF AInv, AttrsFollowCommit, Stored, TraceInv, Quiet
<1>4. \A q \in Clients : TraceInv(q)'
  BY DEF AInv, TraceInv, Stored, NoTrace, Quiet
<1> QED BY <1>1, <1>2, <1>3, <1>4 DEF AInv

\* An error return says that nothing happened, and nothing has.
LEMMA AbortKeepsAInv ==
  ASSUME IInv, AInv, NEW p \in Clients, NEW err, Abort(p, err), pc[p] # "idle",
         \/ pc[p] \in Open /\ err \in {"NotFound", "Conflict", "Crypto", "Audit", "Lost"}
         \/ pc[p] = "attrs" /\ err = "Attrs"
         \/ err = "Lost"
  PROVE  AInv'
<1>1. Quiet(p) /\ pc'[p] = "done" /\ out'[p] = err
  BY DEF Abort, IInv, TypeOK, Quiet
<1>2. TraceInv(p)'
  BY <1>1 DEF TraceInv, Open
<1>3. (pc[p] \in Open => NoTrace(req[p].id)) /\ (pc[p] = "attrs" => Stored(req[p].id))
  BY DEF AInv, TraceInv
<1>4. NoTrace(req[p].id)' = NoTrace(req[p].id) /\ Stored(req[p].id)' = Stored(req[p].id)
  BY <1>1 DEF Quiet, NoTrace, Stored
<1>5. Truthful(p)'
  BY <1>1, <1>3, <1>4 DEF Truthful, Quiet
<1> QED BY <1>1, <1>2, <1>5, QuietKeepsAInv

\* Within a transaction nothing shows.
LEMMA OpenKeepsAInv ==
  ASSUME IInv, AInv, NEW p \in Clients, Quiet(p), pc[p] \in Open, pc'[p] \in Open
  PROVE  AInv'
<1>1. NoTrace(req[p].id)'
  BY DEF AInv, TraceInv, Quiet, NoTrace, Stored
<1>2. TraceInv(p)' /\ Truthful(p)'
  BY <1>1 DEF TraceInv, Truthful, Open, Quiet
<1> QED BY <1>2, QuietKeepsAInv

\* An error return inside those statements.
LEMMA RefusalsKeepAInv ==
  ASSUME IInv, AInv, NEW p \in Clients, NEW mode,
         NEW err \in {"NotFound", "Conflict", "Crypto", "Audit"}, Abort(p, err),
         \/ PutEnvMissing(p, mode) \/ SelectForUpdate(p, mode) \/ InsertVersion(p, mode)
         \/ LockForRollback(p, mode) \/ MovePointer(p, mode) \/ MarkDeleted(p, mode)
         \/ ReadHeader(p, mode) \/ ReadVersion(p, mode) \/ (\E kind : RecordAudit(p, kind))
  PROVE  AInv'
<1>1. pc[p] \in Open
  BY DEF Open, PutEnvMissing, SelectForUpdate, InsertVersion, LockForRollback, MovePointer,
     MarkDeleted, ReadHeader, ReadVersion, RecordAudit, At
<1> QED BY <1>1, AbortKeepsAInv DEF Open

\* The attribute step: refused, or done; the version is stored either way.
LEMMA SetAttrsKeepsAInv ==
  ASSUME IInv, AInv, NEW p \in Clients, NEW mode, SetAttrs(p, mode)
  PROVE  AInv'
<1>1. CASE Abort(p, "Attrs")
  BY <1>1, AbortKeepsAInv DEF SetAttrs, At
<1>2. CASE ~Abort(p, "Attrs")
  <2>1. /\ Quiet(p) /\ pc'[p] = "done" /\ out'[p] = "Ok" /\ pc[p] = "attrs"
    BY <1>2 DEF IInv, TypeOK, SetAttrs, At, Goto, Quiet
  <2>2. Stored(req[p].id)' /\ req' = req
    BY <2>1 DEF AInv, TraceInv, Quiet, Stored
  <2> QED BY <2>1, <2>2, QuietKeepsAInv DEF TraceInv, Truthful, Open
<1> QED BY <1>1, <1>2

\* The trait's upsert writes a header, live or as it was.
LEMMA CommitUpsertKeepsAInv ==
  ASSUME IInv, AInv, NEW p \in Clients, CommitUpsert(p)
  PROVE  AInv'
<1>1. /\ UNCHANGED <<vers, audit, ops, req, attr>> /\ pc[p] \in Open /\ pc'[p] \in Open \cup {"done"}
      /\ \A q \in Clients \ {p} : pc'[q] = pc[q] /\ out'[q] = out[q]
      /\ pc'[p] = "done" => out'[p] = "Lost"
      /\ hdr.st = "deleted" => hdr'.st = "deleted"
  BY CommitUpsertWrites DEF IInv, TypeOK, CommitUpsert, At, Goto, Acknowledged, Open, Base
<1>2. IdInv' /\ AuditIffEffect' /\ DeletionInv'
  BY <1>1 DEF AInv, IdInv, AuditIffEffect, DeletionInv, Open
<1>3. AnswerIsTruthful' /\ AttrsFollowCommit'
  BY <1>1 DEF AInv, AnswerIsTruthful, AttrsFollowCommit, Stored, Open
<1>4. \A q \in Clients : TraceInv(q)'
  BY <1>1 DEF AInv, TraceInv, NoTrace, Stored, Open
<1> QED BY <1>2, <1>3, <1>4 DEF AInv

\* A new call has a number of its own.
LEMMA BeginKeepsAInv ==
  ASSUME IInv, AInv, NEW p \in Clients, Begin(p)
  PROVE  AInv'
<1>1. /\ UNCHANGED <<hdr, vers, audit, attr, out>> /\ ops' = ops + 1 /\ ops \in Nat
      /\ \A q \in Clients \ {p} : pc'[q] = pc[q] /\ req'[q] = req[q]
      /\ pc'[p] = "begin" /\ req'[p].id = ops + 1
  BY DEF IInv, TypeOK, Begin, Goto
<1>2. \A q \in Clients : pc[q] # "idle" => req[q].id \in 1 .. ops
  BY DEF IInv, ClientInv, BegunInv
<1>3. IdInv'
  BY <1>1, <1>2 DEF AInv, IdInv
<1>4. AuditIffEffect' /\ DeletionInv'
  BY <1>1 DEF AInv, AuditIffEffect, DeletionInv
<1>5. AnswerIsTruthful' /\ AttrsFollowCommit'
  BY <1>1 DEF AInv, AnswerIsTruthful, AttrsFollowCommit, Stored
<1>6. \A q \in Clients : TraceInv(q)'
  BY <1>1 DEF AInv, TraceInv, IdInv, NoTrace, Stored
<1> QED BY <1>3, <1>4, <1>5, <1>6 DEF AInv

\* The caller forgets its call.
LEMMA ReturnKeepsAInv ==
  ASSUME IInv, AInv, NEW p \in Clients, Return(p)
  PROVE  AInv'
<1>1. /\ UNCHANGED <<hdr, vers, audit, attr, ops>> /\ pc'[p] = "idle"
      /\ \A q \in Clients \ {p} : pc'[q] = pc[q] /\ req'[q] = req[q] /\ out'[q] = out[q]
  BY DEF IInv, TypeOK, Return, Goto
<1>2. IdInv' /\ AuditIffEffect' /\ DeletionInv'
  BY <1>1 DEF AInv, IdInv, AuditIffEffect, DeletionInv
<1>3. AnswerIsTruthful' /\ AttrsFollowCommit'
  BY <1>1 DEF AInv, AnswerIsTruthful, AttrsFollowCommit, Stored
<1>4. \A q \in Clients : TraceInv(q)'
  BY <1>1 DEF AInv, TraceInv, NoTrace, Stored, Open
<1> QED BY <1>2, <1>3, <1>4 DEF AInv

\* Decryption decides the answer of a read only.
LEMMA DecryptKeepsAInv ==
  ASSUME IInv, AInv, NEW p \in Clients, NEW mode, Decrypt(p, mode)
  PROVE  AInv'
<1>1. Quiet(p) /\ pc'[p] = "done" /\ out'[p] \in {"Ok", "Crypto"} /\ req'[p].kind = "get"
  BY DEF IInv, TypeOK, Decrypt, At, Goto, Quiet
<1> QED BY <1>1, QuietKeepsAInv DEF TraceInv, Truthful, Open, Quiet

\* What a commit adds: the event of its call if it is audited, and nothing else.
LEMMA CommitPutKeepsAInv ==
  ASSUME IInv, IInv', AInv, NEW p \in Clients, NEW mode, CommitPut(p, mode)
  PROVE  AInv'
<1> DEFINE id == req[p].id
           v0 == row[p].v
<1>1. /\ UNCHANGED <<attr, ops, req>> /\ pc[p] = "commit" /\ pc'[p] \in {"attrs", "done"}
      /\ \A q \in Clients \ {p} : pc'[q] = pc[q] /\ out'[q] = out[q]
      /\ pc'[p] = "done" => out'[p] \in {"Ok", "Lost"}
      /\ req[p].kind = "put" /\ req[p].mode = mode
      /\ audit' = IF mode = "audited" THEN audit \cup {[op |-> id, kind |-> "put"]} ELSE audit
  BY DEF IInv, TypeOK, CommitPut, Acknowledged, At, Goto, Logged
<1>2. /\ DOMAIN vers' = DOMAIN vers \cup {v0} /\ v0 \notin DOMAIN vers
      /\ \A v \in DOMAIN vers : vers'[v] = vers[v]
      /\ vers'[v0].op = id /\ vers'[v0].via = mode /\ hdr.st # "deleted"
  BY CommitPutWrites DEF CommitPut, DraftOK, Base
<1>3. NoTrace(id) /\ id \in 1 .. ops /\ \A e \in audit : e.kind # "delete"
  BY <1>1, <1>2 DEF AInv, TraceInv, Open, DeletionInv, IInv, ClientInv, BegunInv
<1>4. IdInv'
  BY <1>1, <1>2, <1>3 DEF AInv, IdInv
<1>5. DeletionInv'
  BY <1>1, <1>3 DEF DeletionInv
<1>6. AuditIffEffect'
  <2>1. \A v \in DOMAIN vers' :
          vers'[v].via = "audited" <=> [op |-> vers'[v].op, kind |-> "put"] \in audit'
    BY <1>1, <1>2, <1>3 DEF AInv, AuditIffEffect, NoTrace, Stored
  <2>2. \A e \in audit' : e.kind = "put" => \E v \in DOMAIN vers' : vers'[v].op = e.op
    BY <1>1, <1>2 DEF AInv, AuditIffEffect
  <2>3. \A e \in audit' : e.kind # "delete"
    BY <1>1, <1>3
  <2> QED BY <2>1, <2>2, <2>3 DEF AuditIffEffect
<1>7. Stored(id)' /\ \A i : Stored(i) => Stored(i)'
  BY <1>1, <1>2 DEF Stored
<1>8. \A i : i # id /\ NoTrace(i) => NoTrace(i)'
  BY <1>1, <1>2 DEF NoTrace, Stored
<1>9. \A q \in Clients \ {p} : pc[q] # "idle" => req[q].id # id
  BY <1>1 DEF AInv, IdInv
<1>10. \A q \in Clients : TraceInv(q)'
  BY <1>1, <1>7, <1>8, <1>9 DEF AInv, TraceInv, Open
<1>11. AnswerIsTruthful' /\ AttrsFollowCommit'
  <2>1. \A q \in Clients : Truthful(q)'
    BY <1>1, <1>7, <1>8, <1>9 DEF AInv, AnswerIsTruthful, Truthful, NoTrace
  <2> QED BY <1>1, <1>7, <2>1 DEF AInv, AnswerIsTruthful, Truthful, NoTrace, AttrsFollowCommit
<1> QED BY <1>4, <1>5, <1>6, <1>10, <1>11 DEF AInv

\* The commit of a rollback, a deletion or a read adds its event and no version.
LEMMA OtherCommitsKeepAInv ==
  ASSUME IInv, AInv, NEW p \in Clients, NEW mode,
         NEW kind \in {"rollback", "delete", "get"},
         IF kind = "get" THEN CommitRead(p, mode) ELSE CommitHeader(p, kind, mode)
  PROVE  AInv'
<1> DEFINE id == req[p].id
<1>1. /\ UNCHANGED <<vers, attr, ops, req>> /\ pc[p] = "commit" /\ pc'[p] \in {"decrypt", "done"}
      /\ \A q \in Clients \ {p} : pc'[q] = pc[q] /\ out'[q] = out[q]
      /\ pc'[p] = "done" => out'[p] \in {"Ok", "Lost"}
      /\ req[p].kind = kind /\ kind # "put"
      /\ audit' = IF mode = "audited" THEN audit \cup {[op |-> id, kind |-> kind]} ELSE audit
  <2>1. CASE kind = "get"
    BY <2>1 DEF IInv, TypeOK, CommitRead, Acknowledged, At, Goto, Logged
  <2>2. CASE kind # "get"
    BY <2>2 DEF IInv, TypeOK, CommitHeader, Acknowledged, At, Goto, Logged
  <2> QED BY <2>1, <2>2
<1>2. /\ hdr.st = "deleted" => hdr' = hdr
      /\ kind = "delete" => hdr.st = "live" /\ hdr'.st = "deleted"
  <2>1. CASE kind = "get"
    BY <2>1 DEF CommitRead
  <2>2. CASE kind # "get"
    <3>1. hdr \in Header /\ hdr.st = "live" /\ (kind = "delete" => hdr' = [hdr EXCEPT !.st = "deleted"])
      BY <2>2, CommitHeaderWrites DEF IInv, TypeOK
    <3> QED BY <3>1 DEF Header
  <2> QED BY <2>1, <2>2
<1>3. NoTrace(id) /\ id \in 1 .. ops
  BY <1>1 DEF AInv, TraceInv, Open, IInv, ClientInv, BegunInv
<1>4. kind = "delete" => \A e \in audit : e.kind # "delete"
  BY <1>2 DEF AInv, DeletionInv
<1>5. IdInv'
  BY <1>1, <1>3 DEF AInv, IdInv
<1>6. DeletionInv'
  BY <1>1, <1>2 DEF AInv, DeletionInv
<1>7. AuditIffEffect'
  <2>1. \A v \in DOMAIN vers' :
          vers'[v].via = "audited" <=> [op |-> vers'[v].op, kind |-> "put"] \in audit'
    BY <1>1 DEF AInv, AuditIffEffect
  <2>2. \A e \in audit' : e.kind = "put" => \E v \in DOMAIN vers' : vers'[v].op = e.op
    BY <1>1 DEF AInv, AuditIffEffect
  <2>3. \A e, f \in audit' : e.kind = "delete" /\ f.kind = "delete" => e = f /\ hdr'.st = "deleted"
    BY <1>1, <1>2, <1>4, <1>6 DEF AInv, AuditIffEffect, DeletionInv
  <2> QED BY <2>1, <2>2, <2>3 DEF AuditIffEffect
<1>8. \A i : (Stored(i) <=> Stored(i)') /\ (i # id /\ NoTrace(i) => NoTrace(i)')
  BY <1>1 DEF NoTrace, Stored
<1>9. \A q \in Clients \ {p} : pc[q] # "idle" => req[q].id # id
  BY <1>1 DEF AInv, IdInv
<1>10. \A q \in Clients : TraceInv(q)'
  BY <1>1, <1>8, <1>9 DEF AInv, TraceInv, Open
<1>11. AnswerIsTruthful' /\ AttrsFollowCommit'
  <2>1. \A q \in Clients : Truthful(q)'
    BY <1>1, <1>8, <1>9 DEF AInv, AnswerIsTruthful, Truthful, NoTrace
  <2> QED BY <1>1, <1>8, <2>1 DEF AInv, AnswerIsTruthful, Truthful, NoTrace, AttrsFollowCommit
<1> QED BY <1>5, <1>6, <1>7, <1>10, <1>11 DEF AInv

\* The operator's statement keeps the state of the header.
LEMMA RequireCasKeepsAInv ==
  ASSUME IInv, AInv, RequireCas
  PROVE  AInv'
<1>1. UNCHANGED <<vers, audit, attr, ops, pc, req, out>> /\ hdr.st = "live"
  BY DEF RequireCas
<1>2. \A e \in audit : e.kind # "delete"
  BY <1>1 DEF AInv, DeletionInv
<1> QED BY <1>1, <1>2 DEF AInv, IdInv, DeletionInv, AuditIffEffect, AnswerIsTruthful,
           AttrsFollowCommit, TraceInv, NoTrace, Stored

\* A method's statement is either a refusal or one of the steps above.
LEMMA MethodsKeepAInv ==
  ASSUME IInv, IInv', AInv, NEW p \in Clients, NEW mode,
         \/ PutEnvMissing(p, mode) \/ UpsertHeader(p, mode) \/ PointAtVersion(p, mode)
         \/ SelectForUpdate(p, mode) \/ InsertVersion(p, mode) \/ LockForRollback(p, mode)
         \/ MovePointer(p, mode) \/ MarkDeleted(p, mode) \/ ReadHeader(p, mode)
         \/ ReadVersion(p, mode) \/ (\E kind : RecordAudit(p, kind))
  PROVE  AInv'
<1>1. CASE \E err \in {"NotFound", "Conflict", "Crypto", "Audit"} : Abort(p, err)
  <2>1. CASE UpsertHeader(p, mode) \/ PointAtVersion(p, mode)
    <3>1. Quiet(p) /\ pc[p] \in Open /\ pc'[p] \in Open
      BY <2>1 DEF IInv, TypeOK, Quiet, Open, UpsertHeader, PointAtVersion, At, Goto, Finish
    <3> QED BY <3>1, OpenKeepsAInv
  <2>2. CASE ~(UpsertHeader(p, mode) \/ PointAtVersion(p, mode))
    BY <1>1, <2>2, RefusalsKeepAInv DEF Results
  <2> QED BY <2>1, <2>2
<1>2. CASE ~\E err \in {"NotFound", "Conflict", "Crypto", "Audit"} : Abort(p, err)
  <2>1. ~PutEnvMissing(p, mode)
    BY <1>2 DEF PutEnvMissing
  <2>2. Quiet(p) /\ pc[p] \in Open /\ pc'[p] \in Open
    BY <1>2, <2>1 DEF IInv, TypeOK, Quiet, Open, UpsertHeader, PointAtVersion, SelectForUpdate,
       InsertVersion, LockForRollback, MovePointer, MarkDeleted, ReadHeader, ReadVersion,
       RecordAudit, At, Goto, Finish
  <2> QED BY <2>2, OpenKeepsAInv
<1> QED BY <1>1, <1>2

\* Every step keeps the invariant.
LEMMA NextKeepsAInv ==
  ASSUME IInv, IInv', AInv, [Next]_vars
  PROVE  AInv'
<1>1. CASE UNCHANGED vars
  BY <1>1 DEF vars, AInv, IdInv, DeletionInv, AuditIffEffect, AnswerIsTruthful,
     AttrsFollowCommit, TraceInv, NoTrace, Stored
<1>2. CASE RequireCas
  BY <1>2, RequireCasKeepsAInv
<1>3. ASSUME NEW p \in Clients, ClientStep(p)
      PROVE  AInv'
  <2>1. CASE Begin(p) \/ Return(p) \/ CommitUpsert(p)
    BY <2>1, BeginKeepsAInv, ReturnKeepsAInv, CommitUpsertKeepsAInv
  <2>2. CASE Cancel(p)
    BY <2>2, AbortKeepsAInv DEF Cancel
  <2>3. ASSUME NEW mode, CommitPut(p, mode) \/ SetAttrs(p, mode) \/ Decrypt(p, mode)
        PROVE  AInv'
    BY <2>3, CommitPutKeepsAInv, SetAttrsKeepsAInv, DecryptKeepsAInv
  <2>4. ASSUME NEW mode, NEW kind \in {"rollback", "delete"}, CommitHeader(p, kind, mode)
        PROVE  AInv'
    BY <2>4, OtherCommitsKeepAInv
  <2>5. ASSUME NEW mode, CommitRead(p, mode)
        PROVE  AInv'
    BY <2>5, OtherCommitsKeepAInv
  <2> QED BY <1>3, <2>1, <2>2, <2>3, <2>4, <2>5, MethodsKeepAInv DEF ClientStep
<1> QED BY <1>1, <1>2, <1>3, NextCases

\* The invariant holds in every reachable state.
LEMMA AInvHolds == Spec => []AInv
<1>1. Init => AInv
  BY InitAInv
<1>2. IInv /\ IInv' /\ AInv /\ [Next]_vars => AInv'
  BY NextKeepsAInv
<1> QED BY <1>1, <1>2, IInvHolds, PTL DEF Spec

\* A put is in the log exactly when its version is stored, and a deletion at most once.
THEOREM AuditIsAtomic == Spec => []AuditIffEffect
<1>1. AInv => AuditIffEffect
  BY DEF AInv
<1> QED BY <1>1, AInvHolds, PTL

\* What a caller is told of a put is what happened to it.
THEOREM AnswersAreTruthful == Spec => []AnswerIsTruthful
<1>1. AInv => AnswerIsTruthful
  BY DEF AInv
<1> QED BY <1>1, AInvHolds, PTL

\* No attribute is written for a version that is not stored.
THEOREM AttrsComeAfter == Spec => []AttrsFollowCommit
<1>1. AInv => AttrsFollowCommit
  BY DEF AInv
<1> QED BY <1>1, AInvHolds, PTL
===============================================================================
