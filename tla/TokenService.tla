----------------------------- MODULE TokenService -----------------------------
(***************************************************************************)
(* The token table (11_fct_auth_tokens), the pods that fill it when they   *)
(* boot, and the requests that use and change it.                          *)
(*                                                                         *)
(* Pods boot in any order against one database and may die at any step.    *)
(* A boot's INSERT ... WHERE NOT EXISTS is three steps, because in READ    *)
(* COMMITTED another pod may commit between the subquery and the insert    *)
(* and between the insert and the commit.  A request is two transactions:  *)
(* the look-up of its token and the handler's own.                         *)
(*                                                                         *)
(* A token is a number: 0 is the value of SOMA_ROOT_TOKEN, the others are  *)
(* the random values in the order they were generated.                     *)
(***************************************************************************)
EXTENDS Integers

CONSTANTS
  Pods,         \* server processes, each with its own token file
  Users,        \* HTTP clients: one request each at a time
  MaxRequests,  \* bound: requests begun
  MaxCrashes,   \* bound: pods that die
  None          \* no token

ASSUME BoundsAssumption == MaxRequests \in Nat /\ MaxCrashes \in Nat
ASSUME NoneAssumption   == None \notin Nat

VARIABLES
  seeded,   \* SOMA_ROOT_TOKEN is set (for every pod, for good)
  rows,     \* committed token rows, by token
  log,      \* committed success events of the token operations
  minted,   \* random tokens generated so far (one by a boot, one by a request, at most)
  pc,       \* where each pod is in its boot
  tok,      \* the root token each booting pod has chosen
  disk,     \* the token in each pod's token file
  told,     \* tokens that create_token has handed out
  req,      \* each user's request
  begun,    \* requests begun so far
  crashes   \* pods that have died so far

vars == <<seeded, rows, log, minted, pc, tok, disk, told, req, begun, crashes>>

Tokens == Nat
\* name: "root", or any other.  standing: what role and expires_at say.
TokenRow == [name: {"root", "other"}, standing: {"admin", "lower", "expired"}, revoked: BOOLEAN]
Event == [id: Nat, kind: {"create", "revoke"}, token: Tokens]

Request == [id: Nat, stage: {"idle", "auth", "handle"}, pod: Pods \cup {None},
            token: Tokens \cup {None}, op: {"none", "create", "revoke"},
            target: Tokens \cup {None}, admin: BOOLEAN, entitled: BOOLEAN]
NoRequest == [id |-> 0, stage |-> "idle", pod |-> None, token |-> None, op |-> "none",
              target |-> None, admin |-> FALSE, entitled |-> FALSE]

Init ==
  /\ seeded \in BOOLEAN
  /\ rows = [t \in {} |-> None]
  /\ log = {}
  /\ minted = 0
  /\ pc   = [p \in Pods |-> "down"]
  /\ tok  = [p \in Pods |-> None]
  /\ disk = [p \in Pods |-> None]
  /\ told = {}
  /\ req = [u \in Users |-> NoRequest]
  /\ begun = 0
  /\ crashes = 0

Live(t) == t \in DOMAIN rows /\ ~rows[t].revoked
Usable(t) == Live(t) /\ rows[t].standing # "expired"
IsAdmin(t) == rows[t].standing = "admin"

\* Tokens whose plaintext somebody outside the process can have.
Known == ((IF seeded THEN {0} ELSE {}) \cup {disk[p] : p \in Pods} \cup told) \ {None}

AddRow(t, name) ==
  rows' = [x \in DOMAIN rows \cup {t} |->
             IF x = t THEN [name |-> name, standing |-> "admin", revoked |-> FALSE] ELSE rows[x]]

-------------------------------------------------------------------------------
\* A pod boots.

Step(p, from, to) == pc[p] = from /\ pc' = [pc EXCEPT ![p] = to]

Boot(p) ==
  /\ Step(p, "down", "count")
  /\ UNCHANGED <<seeded, rows, log, minted, tok, disk, told, req, begun, crashes>>

\* Tokens that are not revoked (expired ones count): the pod serves.  None: it chooses a
\* root token.
CountTokens(p) ==
  \/ /\ \E t \in DOMAIN rows : Live(t)
     /\ Step(p, "count", "serving")
     /\ UNCHANGED <<seeded, rows, log, minted, tok, disk, told, req, begun, crashes>>
  \/ /\ \A t \in DOMAIN rows : ~Live(t)
     /\ Step(p, "count", "exists")
     /\ tok' = [tok EXCEPT ![p] = IF seeded THEN 0 ELSE minted + 1]
     /\ minted' = IF seeded THEN minted ELSE minted + 1
     /\ UNCHANGED <<seeded, rows, log, disk, told, req, begun, crashes>>

\* Faulty variant for mutation testing: a revoked root token does not count as existing.
NameExists_LiveOnly == \E t \in DOMAIN rows : rows[t].name = "root" /\ Live(t)

NameExists == \E t \in DOMAIN rows : rows[t].name = "root"

\* The subquery sees committed rows, revoked ones included.  If it finds one the
\* INSERT is a no-op and the row found is returned, whatever its hash.
CheckName(p) ==
  /\ Step(p, "exists", IF NameExists THEN "file" ELSE "insert")
  /\ UNCHANGED <<seeded, rows, log, minted, tok, disk, told, req, begun, crashes>>

\* Faulty variant for mutation testing: ON CONFLICT (token_hash) DO UPDATE.
InsertRoot_Revives(p) ==
  /\ \A q \in Pods \ {p} : ~(pc[q] = "commit" /\ tok[q] = tok[p])
  /\ Step(p, "insert", "commit")
  /\ UNCHANGED <<seeded, rows, log, minted, tok, disk, told, req, begun, crashes>>

\* UNIQUE (token_hash): an uncommitted row with the same hash is waited for; a
\* committed one fails the boot, and the process exits.
InsertRoot(p) ==
  /\ \A q \in Pods \ {p} : ~(pc[q] = "commit" /\ tok[q] = tok[p])
  /\ Step(p, "insert", IF tok[p] \in DOMAIN rows THEN "down" ELSE "commit")
  /\ tok' = IF tok[p] \in DOMAIN rows THEN [tok EXCEPT ![p] = None] ELSE tok
  /\ UNCHANGED <<seeded, rows, log, minted, disk, told, req, begun, crashes>>

\* Faulty variant for mutation testing: the transaction is dropped, not committed.
CommitRoot_Dropped(p) ==
  /\ Step(p, "commit", "file")
  /\ UNCHANGED <<seeded, rows, log, minted, tok, disk, told, req, begun, crashes>>

CommitRoot(p) ==
  /\ Step(p, "commit", "file")
  /\ AddRow(tok[p], "root")
  /\ UNCHANGED <<seeded, log, minted, tok, disk, told, req, begun, crashes>>

\* The file is truncated when it is opened and written afterwards.
OpenFile(p) ==
  /\ Step(p, "file", "write")
  /\ disk' = [disk EXCEPT ![p] = None]
  /\ UNCHANGED <<seeded, rows, log, minted, tok, told, req, begun, crashes>>

\* Faulty variant for mutation testing: the error of writing the file is not returned.
WriteFile_Unreported(p) ==
  /\ Step(p, "write", "serving")
  /\ UNCHANGED <<seeded, rows, log, minted, tok, disk, told, req, begun, crashes>>

WriteFile(p) ==
  /\ Step(p, "write", "serving")
  /\ disk' = [disk EXCEPT ![p] = tok[p]]
  /\ UNCHANGED <<seeded, rows, log, minted, tok, told, req, begun, crashes>>

BootStep(p) ==
  \/ Boot(p) \/ CountTokens(p) \/ CheckName(p) \/ InsertRoot(p) \/ CommitRoot(p)
  \/ OpenFile(p) \/ WriteFile(p)

\* The pod dies: an open transaction is rolled back, its requests get no answer, its
\* token file stays.
Crash(p) ==
  /\ pc[p] # "down" /\ crashes < MaxCrashes
  /\ crashes' = crashes + 1
  /\ pc'  = [pc EXCEPT ![p] = "down"]
  /\ tok' = [tok EXCEPT ![p] = None]
  /\ req' = [u \in Users |-> IF req[u].pod = p THEN NoRequest ELSE req[u]]
  /\ UNCHANGED <<seeded, rows, log, minted, disk, told, begun>>

-------------------------------------------------------------------------------
\* A request: look-up of the token, then the handler.

\* entitled remembers whether the token was a live administrator's when the request
\* began; the code keeps no such thing.
Ask(u) ==
  /\ req[u].stage = "idle" /\ begun < MaxRequests
  /\ begun' = begun + 1
  /\ \E p \in Pods, t \in Known, op \in {"create", "revoke"}, x \in DOMAIN rows \cup {None} :
       /\ pc[p] = "serving"
       /\ x = None <=> op = "create"
       /\ req' = [req EXCEPT ![u] =
            [id |-> begun + 1, stage |-> "auth", pod |-> p, token |-> t, op |-> op,
             target |-> x, admin |-> FALSE, entitled |-> Usable(t) /\ IsAdmin(t)]]
  /\ UNCHANGED <<seeded, rows, log, minted, pc, tok, disk, told, crashes>>

Answer(u) == req' = [req EXCEPT ![u] = NoRequest]

\* Faulty variant for mutation testing: is_revoked = false is missing from the look-up.
Authenticate_AnyRow(u) ==
  /\ req[u].stage = "auth"
  /\ IF req[u].token \in DOMAIN rows
     THEN req' = [req EXCEPT ![u].stage = "handle", ![u].admin = IsAdmin(req[u].token)]
     ELSE Answer(u)
  /\ UNCHANGED <<seeded, rows, log, minted, pc, tok, disk, told, begun, crashes>>

\* find_token_by_plaintext, 401 on a miss; the role found is kept for the handler.
Authenticate(u) ==
  /\ req[u].stage = "auth"
  /\ IF Usable(req[u].token)
     THEN req' = [req EXCEPT ![u].stage = "handle", ![u].admin = IsAdmin(req[u].token)]
     ELSE Answer(u)
  /\ UNCHANGED <<seeded, rows, log, minted, pc, tok, disk, told, begun, crashes>>

\* 403, or a failed transaction: no effect (the denied event is best-effort, not kept here).
Refuse(u) ==
  /\ req[u].stage = "handle"
  /\ Answer(u)
  /\ UNCHANGED <<seeded, rows, log, minted, pc, tok, disk, told, begun, crashes>>

Allowed(u, op) == req[u].stage = "handle" /\ req[u].op = op /\ req[u].admin

Record(u, t) == log' = log \cup {[id |-> req[u].id, kind |-> req[u].op, token |-> t]}

\* Any name will do, "root" too.  The role asked for is ignored: every token is an
\* administrator's.  If the answer is lost the token exists and nobody has it.
CreateToken(u) ==
  /\ Allowed(u, "create")
  /\ minted' = minted + 1
  /\ \E name \in {"root", "other"} : AddRow(minted + 1, name)
  /\ Record(u, minted + 1)
  /\ told' \in {told, told \cup {minted + 1}}
  /\ Answer(u)
  /\ UNCHANGED <<seeded, pc, tok, disk, begun, crashes>>

\* Faulty variant for mutation testing: rows_affected is not looked at.
RevokeToken_Again(u) ==
  /\ Allowed(u, "revoke")
  /\ rows' = [rows EXCEPT ![req[u].target].revoked = TRUE]
  /\ Record(u, req[u].target)
  /\ Answer(u)
  /\ UNCHANGED <<seeded, minted, pc, tok, disk, told, begun, crashes>>

\* UPDATE ... WHERE is_revoked = false: no row means 404 and no event.
RevokeToken(u) ==
  /\ Allowed(u, "revoke")
  /\ Live(req[u].target)
  /\ rows' = [rows EXCEPT ![req[u].target].revoked = TRUE]
  /\ Record(u, req[u].target)
  /\ Answer(u)
  /\ UNCHANGED <<seeded, minted, pc, tok, disk, told, begun, crashes>>

Handle(u) == Authenticate(u) \/ Refuse(u) \/ CreateToken(u) \/ RevokeToken(u)

\* No code path writes role or expires_at; an operator can, by SQL.
Weaken(t) ==
  /\ IsAdmin(t)
  /\ \E s \in {"lower", "expired"} : rows' = [rows EXCEPT ![t].standing = s]
  /\ UNCHANGED <<seeded, log, minted, pc, tok, disk, told, req, begun, crashes>>

\* Every pod serves and no bound leaves anything to do.
Quiescent ==
  /\ \A p \in Pods : pc[p] = "serving"
  /\ \A u \in Users : req[u].stage = "idle"
  /\ UNCHANGED vars

Next ==
  \/ Quiescent
  \/ \E p \in Pods : BootStep(p) \/ Crash(p)
  \/ \E u \in Users : Ask(u) \/ Handle(u)
  \/ \E t \in DOMAIN rows : Weaken(t)

Spec == Init /\ [][Next]_vars

\* The supervisor restarts a pod that exits, and a process that is up makes progress.
FairSpec == Spec /\ \A p \in Pods : WF_vars(BootStep(p))

-------------------------------------------------------------------------------
TypeOK ==
  /\ seeded \in BOOLEAN
  /\ DOMAIN rows \subseteq Tokens /\ rows \in [DOMAIN rows -> TokenRow]
  /\ log \subseteq Event
  /\ minted \in Tokens
  /\ pc \in [Pods -> {"down", "count", "exists", "insert", "commit", "file", "write", "serving"}]
  /\ tok  \in [Pods -> Tokens \cup {None}]
  /\ disk \in [Pods -> Tokens \cup {None}]
  /\ told \subseteq Tokens
  /\ req \in [Users -> Request]
  /\ begun \in Nat /\ crashes \in Nat

\* A pod that serves in a deployment with SOMA_ROOT_TOKEN has that token in the table,
\* whichever pod stored it and whoever lost the race (bootstrap_root_token).
SeedIsStored ==
  seeded /\ (\E p \in Pods : pc[p] \in {"file", "write", "serving"}) => 0 \in DOMAIN rows

\* Somebody holds a token of the table, or a pod is about to write one to its file.
Held ==
  \E t \in DOMAIN rows : t \in Known \/ \E p \in Pods : pc[p] \in {"file", "write"} /\ tok[p] = t

\* Unless a pod died or somebody revoked a token or let it expire, a vault that serves has
\* a live token that is held: cold start does not lock everybody out (bootstrap_root_token,
\* create_token_with_value).
KeyIsKnown ==
  crashes = 0 /\ (\A t \in DOMAIN rows : Usable(t)) /\ (\E p \in Pods : pc[p] = "serving")
  => Held

\* Whatever died before and boots again, the last token that is held is lost only where
\* nothing can help it: by the death of the very pod that has stored it and not yet written
\* it to its file.  No later boot stores a token over it, truncates the file it stands in,
\* or writes another one there, while every token of the table is usable
\* (bootstrap_root_token, count_tokens, write_token_file).
OnlyDeathLosesTheKey ==
  [][(\A t \in DOMAIN rows : Usable(t)) /\ (DOMAIN rows # {} => Held) =>
       \/ DOMAIN rows' # {} => Held'
       \/ \E p \in Pods :
            pc[p] \in {"file", "write"} /\ tok[p] \in DOMAIN rows /\ pc'[p] = "down"]_vars

\* The log and the table agree: a token under another name than the boot's has one
\* creation event, a revoked one has one revocation event, and every event is of a row
\* (create_token_audited, revoke_token_audited).
LogMatchesTable ==
  /\ \A t \in DOMAIN rows :
       /\ rows[t].name # "root" => \E e \in log : e.kind = "create" /\ e.token = t
       /\ rows[t].revoked <=> \E e \in log : e.kind = "revoke" /\ e.token = t
  /\ \A e, f \in log : e.kind = f.kind /\ e.token = f.token => e = f
  /\ \A e \in log : e.token \in DOMAIN rows

\* No step takes a token out of the table, gives it another name, or takes a revocation
\* back: not a boot, not a racing boot, not a second revocation.
RevocationIsFinal ==
  [][\A t \in DOMAIN rows :
       /\ t \in DOMAIN rows' /\ rows'[t].name = rows[t].name
       /\ rows[t].revoked => rows'[t].revoked]_vars

\* A token or a revocation is committed only for a request whose token was a live
\* administrator's when the request began: one revoked, expired or demoted before can do
\* nothing (auth_middleware, Principal::require).
EntitledWhenAsked ==
  [][\A e \in log' \ log : \E u \in Users : req[u].id = e.id /\ req[u].entitled]_vars

\* Pods that race, and pods that die, all end up serving: the pod that loses the race for
\* SOMA_ROOT_TOKEN exits once and then finds the winner's row (main, bootstrap_root_token).
EveryPodServes == \A p \in Pods : <>[](pc[p] = "serving")

-------------------------------------------------------------------------------
\* Statements of the docs that the code does not keep.

\* "if a token with this (tenant_key, name) already exists (e.g. two pods racing at cold
\* start) the INSERT is a no-op" (pg/mod.rs:2344): there is one root token at most.
OneRootToken ==
  \A t, x \in DOMAIN rows : rows[t].name = "root" /\ rows[x].name = "root" => t = x

\* "Get the root token (written to /tmp/soma-root-token on first boot)"
\* (deploy/helm/templates/NOTES.txt:3): what a token file holds is a token of the table.
WrittenTokenIsStored == \A p \in Pods : disk[p] # None => disk[p] \in DOMAIN rows
===============================================================================
