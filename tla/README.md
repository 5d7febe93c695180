# soma-vault, specified

TLA+ modules, TLC configurations and TLAPS proofs for soma-vault, a multi-tenant store of versioned
secrets and configuration (Rust, axum, Postgres, a Leptos dashboard). Paths below are relative to the
repository; `pg/mod.rs`, `pg/ledger.rs` and `pg/attrs.rs` are under `crates/soma-storage/src/`, `API` is
`crates/soma-api/src/lib.rs`, `CLI` is `crates/soma-cli/src/main.rs`, the server is
`crates/soma-server/src/main.rs`, pages are under `dashboard/src/pages/`.

## 1. The system

| component | state | operations | hard because |
|---|---|---|---|
| Secret version ledger (`pg/mod.rs`, `pg/ledger.rs`) | header row per path (`05_fct_secrets`), append-only version rows (`06_…`), audit rows, attributes | put, get, rollback, delete; each twice: `*_audited` (one transaction, used by the API) and the `DataStore` trait's (two or three) | statements of concurrent READ COMMITTED transactions interleave; `FOR UPDATE`, unique keys and soft deletes are the only protection; commits whose answer is lost; a second transaction after the commit |
| Config version ledger | `07_fct_config_keys`, `08_fct_config_versions` | the same four for typed values, `secret_ref` among the types | as above; the header keeps a type of its own |
| Attributes and registry (`pg/attrs.rs`) | `09_…`, `10_…`, definitions `02_…` | set, get; create, edit, delete a definition | one transaction per attribute, after the version's; definitions are edited from stale pages |
| Environment inheritance | `parent_env_id` links | create with parent, inherited reads, reference resolution | a walk is many transactions; the depth check and the walks must agree |
| Export | none | `export`, `export_effective` | statements and environments read at different times; single values fail |
| Envelope encryption (`soma-crypto`) | none | seal, open, derive the tenant KEK | ciphertext is bound to (secret id, version) chosen inside the transaction |
| Server boot | pods, one token file each | migrate, install the audit schema, create the root token, write the file | pods race, and die between the steps |
| Tokens and RBAC (API) | `11_fct_auth_tokens` | look-up, create, revoke, role checks | look-up and effect are separate transactions |
| Sessions and rate limiter (API) | cookie in the browser; map from address to window and count | sign in, sign out, check | time, a map that is cleared, late answers |
| Listing | none | keyset pages, audit page | pages read at different times, loads overlap |
| Dashboard | signals of a page, tasks under way | list, save, roll back, reveal, delete | answers overtake each other, no button waits |
| CLI, SDKs | `.env` files, `.gitignore`, a process environment | import, export, run, inject | partial failure; names and paths do not correspond one to one |

How they interact: a request passes the rate limiter (sign-in and sign-out only), `auth_middleware` (a token
look-up of its own), the handler's role check and environment check (another transaction), then one store
method, which writes its audit row inside its own transaction. Boot runs before any of that, and only
shares the database. There is no in-process shared state between requests except the rate limiter's
map and the connection pool, so everything concurrent on the server happens in Postgres; on the client
side it happens in the tasks of a page, and between the steps of a command.

What would make each part wrong: a version lost, overwritten, or bound to the wrong number; a pointer
to nothing; an effect without its event or the other way round; an answer that is not what happened
(ledgers). A value answered from the wrong environment or project, or missed (inheritance), or put together
from what nobody stored (export). A vault that nobody can enter, a revoked token that works, a log that
disagrees with the table (tokens). More calls let through than promised, or fewer (limiter). A row listed
twice or never (listing). A page that shows what is no longer so, or never what was saved (dashboard). A
file deleted whose lines are not in the vault (CLI). `PROJECT.json` lists all of it under `hazards`, at
the line where it bites.

## 2. Modules

| module | what it is |
|---|---|
| `SecretLedger`, `MCSecretLedger` | one secret, its clients' calls statement by statement |
| `VersionedSecret` | what one entry promises, a call in one step; implemented by both ledgers, used by `Console` as its store |
| `SecretLedgerProofs` | theorems about the two above |
| `ConfigLedger`, `MCConfigLedger`, `ConfigLedgerProofs` | one config key, its attributes, the registry |
| `EnvInheritance`, `MCEnvInheritance`, `EnvInheritanceProofs` | environments and the reads that climb them |
| `Export`, `ExportProofs` | exports of an environment and its ancestors |
| `TokenService`, `MCTokenService`, `TokenServiceProofs` | boots, the token table and the requests that use it |
| `AuthSession`, `MCAuthSession`, `AuthSessionProofs` | signing in and out behind the limiter |
| `Listing`, `ClientProofs` | lists read page by page |
| `Console`, `ConsoleProofs` | the dashboard's pages about an entry |
| `EnvFile`, `ClientProofs` | `.env` files, import, export, run, inject |

A definition marked "Faulty variant" stands beside the one it varies; `PROJECT.json` says which property
it breaks in which run.

### SecretLedger and VersionedSecret

`hdr`, `vers`, `audit` and `attr` are what is committed. A call in progress keeps its place (`pc`), its
arguments (`req`), the header as its transaction sees it (`view`), the version row it writes or has
read (`row`) and its result (`out`). A step is one SQL statement with the Rust code up to the next;
a commit copies `view` and `row` into the tables, an early return (`Abort`) drops them, as dropping
a sqlx transaction does. `lock` is the row lock on the header: taken by the upsert or by
`SELECT … FOR UPDATE`, awaited by other locking statements, not by plain reads. While the header is a
row not yet committed the unique index makes others wait in the same way, so one variable serves both.
`PutSecretAudited`, `RollbackSecretAudited`, `DeleteSecretAudited`, `GetSecretAudited`
and the plain four are the store's methods; `AdvanceSecretVersion(InTx)` the ledger's. `Acknowledged`
lets the connection be lost after a commit took effect; `Cancel` drops a call anywhere. `op`
identifies a plaintext, `aad` the version number a ciphertext is bound to, `key` the master KEK of
the pod that sealed it. `RequireCas` is an operator's SQL: no code sets `cas_required`.

`VersionedSecret` is the abstract entry: a history that only grows, a pointer, a life that ends
with deletion, a log. `Entry` in `SecretLedger` maps `hdr`, `audit` and the version rows (`History`)
onto it; `ImplementsVersionedSecret` says that locks, drafts, aborts and lost answers are stutters and
every commit is one abstract call. `Write` requires the pointer to be at the newest version: the code
refuses the others (section 5).

### ConfigLedger

`WriteVersion` is `put_config_audited` up to its COMMIT, one step because it holds the header's lock
from its upsert on (`SecretLedger` takes the same sequence apart); so are `Rollback` and the deletion, and the
refinement shows the conditions under which they take effect, not their atomicity. What follows is not one step:
`SetAttr` stores one attribute per transaction, in any order (a HashMap's), without a lock; `RefuseAttr` is the foreign
key, `Drop` a client that hangs up in between. `attrs` names for each code the put whose value it holds. `defs` is the
registry; `page` is the row an administrator has open, by code and id, and `UpdateDef` and `DeleteDef` go by
id. `over` remembers which puts were finished when one committed. The trait's plain
`put_config`, which no handler calls, commits the header alone first and could leave one with
`current_version` 0 whose type is not version 1's; `EnvInheritance` has it (`PutHeader`), this module does not.

### EnvInheritance

A write is one step here: `SecretLedger` shows that the statements of a write implement one. The walks
are modelled transaction by transaction: `probe` (a `get_config` or `get_secret`), `climb`
(`get_parent_env_id`), and creating environments and writing values come in between. `path` holds the
environments looked into; `source` the environment a `secret_ref` was found in. `had` and `own` only
serve the properties: what held the wanted value when the walk began. Environments are numbered
by age because the code never deletes one nor changes a link; `HasAncestors` and `AtOrAbove` are about
the links and use no order. `MaxDepth` is 5 in the code, in the check and in both walks.
`RowSecurity` says whether the database role is subject to the policies of `20260626_04_enable-rls.sql`:
`docker-compose`'s role is a superuser and is not; the role the data model document recommends is.

### Export

Environment 1 is exported and `e + 1` is the parent of `e`. `ReadConfigs` and `ReadSecrets` are the two statements
of `export`, each a snapshot of its own; the second ends with what `ExportBundle::values` and the loop of
`export_effective` do with them, farthest ancestor first. `KeepEntry` and `Dereference` are one
`get_config_resolved` per path, one step each (`EnvInheritance` takes it apart). A value is told by where and when it was
stored (`Source`); `sound` says whether the pod can decrypt it. `seen` and `steady` remember what was current at some
time, and all the time, of the call.

### TokenService

A boot is `Boot`, `CountTokens`, `CheckName`, `InsertRoot`, `CommitRoot`, `OpenFile`, `WriteFile`. The
single `INSERT … WHERE NOT EXISTS` is three of these because another pod may commit after the subquery
and before the insert, and an uncommitted row with the same hash is waited for. A token is a number: 0
is the value of `SOMA_ROOT_TOKEN`, the others are the random values in the order of their generation. A
pod that dies (`Crash`) rolls back, keeps its file, and boots again. A request is the look-up
(`Authenticate`) and then the handler's transaction; between the two anything may happen to the
token. `entitled` remembers, for the property only, what the token was when the request began.
`Weaken` is an operator's SQL on `role` or `expires_at`, which no code writes.
The denied events of a 403 are best-effort, in a transaction of their own, and not kept.

### AuthSession

`hits` is the limiter's map and `Check` its critical section: clear a map that grew too large, start or
read the address's window, decide. `Limit` is the middleware, `Login` and `Logout` the handlers, `Answer` the
browser's side: the cookie and the page. `Lose` breaks a connection at any stage. A host is a browser with
an address; its tabs share the cookie. `Visit` opens or reloads a page, whose first request answers 401
to a dead cookie. `admitted` remembers when each address was let through since the map was cleared. Time is a
counter that `Tick` raises up to `Horizon`.

### Listing

`rows` are ids: random ones for a table (an insert may fall anywhere), growing ones for the audit log. `Serve` is one
keyset statement with its clamped limit and its cursor; a full page carries one. The client is a script that asks page
after page and again after a failure, or the audit page, whose "Load more" and "Apply" send a load whatever
is under way. The repository has no such script (its CLI and dashboard read the first page of those lists only); that it goes
on is assumed, where the cursors lead it is the server's doing. `times` counts how often the list holds each row (up to twice), `clean` remembers that no two loads of
this list were under way together.

### Console

The pages `secrets.rs`, `config.rs` (lists), `secret_detail.rs`, `config_detail.rs`. Every click sends a call and a task
waits for its answer (`AnswerSave`, `AnswerChange`, `AnswerReveal`, `AnswerLoad`); `Reload` makes older loads of the tab
`stale`, as `LocalResource` does. The store is `VersionedSecret`, by INSTANCE; `Elsewhere` is any client
that is no dashboard. `timers` are the 30 second tasks a reveal leaves.

### EnvFile

`file` is the lines of a `.env`, `vault` the current value of each path, `cmd` the command under way. Import is
`StartImport`, `PutLine` once per line, `EndPuts`, `RemoveFile`, `AppendIgnore`, with the prompts between; `Leave` is an answer of no or
Ctrl-C anywhere. `PathOf` and `NameOf` are `env_var_to_path` and `env_var_name` on three names and
three paths chosen so that neither is injective. A value is ordinary, or holds a quote or newline
(`"odd"`), or is what is read back of that one. `Run` is `soma run`, `InjectOne` the Rust SDK's `inject`, which goes over a HashMap.
`Parsed` keeps each pair at its line, so the loop's place is a line number and `Ahead` the pairs not put yet. The names of this module that
`Listing` has too are prefixed, for `ClientProofs` extends both.

## 3. What TLC checks

All runs are exhaustive within the bounds.

| run | instance | shows |
|---|---|---|
| `ledger` | 2 clients, audited methods, 4 calls, arguments 1 and 2 (1.5 million states) | reads find their row, audit atomicity, truthful answers, no lost update, refinement of `VersionedSecret` |
| `ledger_mixed` | 2 clients, both paths, 2 calls, 2 master KEKs, fairness (197 000) | AAD binding under the trait's separate transactions (QW-5), the header a death leaves between them misleads nobody, refinement of `VersionedSecret` under both paths, every call ends |
| `config` | 2 puts, 2 types, 2 codes, 2 administrators, 3 definitions (620 000) | which attribute write wins, the whitelist under deletions, edits reach the row seen, refinement of `VersionedSecret` |
| `inherit` | 4 environments of 2 projects, `MaxDepth` 2, 1 reader, 2 writes (2.7 million) | chains end, walks stay in their project, steady values are found, references resolve at their source |
| `export` | an environment and its parent, any contents, 1 write during the export (5.1 million) | values handed out were stored, untouched ones stand where promised, nothing unreadable or dangling is silent |
| `tokens` | 2 pods, 2 users, 2 requests, 1 death, fairness (2.6 million) | seeded token stored, no boot loses the last key that is held, log and table agree, revocation is final, only the entitled act, every pod ends up serving |
| `session` | 2 browsers, 3 tabs, 5 calls, limit 2 per window of 2, 4 instants (1.7 million) | bursts are bounded, refusals are earned, an answered sign-out ends the session |
| `listing` | 5 row ids, pages of 1 to 3, 2 clicks, 1 failure, fairness (430 000) | no row twice, none missed that stayed, the cursors lead to the end |
| `console` | 1 tab of any page, 2 clicks, 1 foreign call, fairness (1.6 million) | saves are listed, the view never goes back, revealed values are masked |
| `envfile` | 2 lines, 3 commands, 1 fault, 1 foreign write or edit (7.6 million) | a file is removed only when stored, a complete import comes back from export (shown, and written and parsed again), run and inject, run and inject agree |
| `put_after_rollback`, `config_latest` | as `ledger`, `console` | the disagreements of section 5 |

Why the bounds are enough. *Ledger*: a race needs two calls; put, put, rollback, put is the
shortest history in which pointer and newest version differ and are written on, hence four calls and two
version numbers; deletions against a call under way need three. Two clients suffice because there is one
lock and one row, and a third caller sees nothing but what the second left; the theorems remove this
restriction. In `ledger_mixed` two calls, one a trait put and one anything, reach the window between the
trait put's two transactions; the first may end there (`Cancel`) and leave its header to the second. *Config*: two puts that each bring both codes already store them in every order, and a
third definition is one created again under a deleted one's code while a page shows the old. *Inherit*: with `MaxDepth` 2
a chain at the limit has three environments
and the fourth is refused, or belongs to the other project; one reader, since reads do not change anything another
sees; two writes give a value that moves under a walk. The theorems hold for every depth, 5 included.
*Export*: an environment and one ancestor give every case of the overlay, whose step is the same for each further
ancestor; the initial contents are arbitrary, so one write suffices to fall between any two reads. *Tokens*: two pods race for one row; two requests let one revoke the other's token, or its own
successor's, between look-up and effect; one death between any two steps of a boot. *Session*: five calls
of one address spend two budgets of two around the end of a window and are refused the next, two addresses overfill a map
of one, and two tabs of one browser have answers under way together. *Listing*: five rows are two full
pages and a rest, or five pages of one. *Console*: a save and its reload overtake the first load or another click's; a foreign call falls between.
Two tabs share nothing but the store, which the foreign call already changes, and the theorems hold for any number. *EnvFile*: two lines share a path or do not; an import that failed half way,
the same one again and an export are three commands.

The bounds are guards, named `Max…`, `Horizon` and `LastKey`, or the sizes of constant sets (`Depth`, the paths);
`Counted` of `Listing` is one on a counter.
`ledger` and `config` use the symmetry of clients, puts, codes and administrators, `inherit` of projects; runs that
check liveness use none. When the bounds leave nothing to do, `Quiescent` stutters, so that any
other deadlock is reported.

Fairness. `SecretLedger`: `WF_vars(Serve(p))`, a pod that is up runs each call's next statement.
A call waiting for the lock is not enabled, so this demands nothing of it: `EveryCallEnds` holds because
whoever has the lock goes on and lets go. `Cancel` and `Begin` are not fair. `TokenService`:
`WF_vars(BootStep(p))`, a process makes progress and its supervisor (the Helm deployment, compose's
restart policy) restarts one that exits. Nothing is assumed of requests, deaths or operators. `Listing`: a load
that was sent is served or fails and is answered, and the script, which is no code of the repository, asks for the next page whenever it
has a cursor and again after a failure. `ScriptEnds` shows of the server that this is enough: with a cursor that is not passed, or a
last page that carries one, the same script would go on for ever. `Console`: `WF_vars(Mask(t))`, the browser's
timers fire; answers and loads owe nothing. The other modules state no fairness.

## 4. What is proved

TLAPS proves these for every value of the constants, from the named ASSUMEs of the modules only (bounds are
naturals, `None` is none of the values it is told from, `Kinds`, `Modes` and `Args` are drawn from the
operations, `RowSecurity` is a Boolean, the sets of puts and of tabs are finite); TLC evaluates the same assumptions in the runs.

*Secret ledger.* `IInv` of `SecretLedgerProofs` joins the types, `LockInv` (who holds the lock is decided by
where the client is in its call), `LedgerInv` (version rows are exactly `1..n`, the pointer is in
`1..n`, or `0` while `n = 0`, each ciphertext bound to its number) and a part per client that says what its `view`
and `row` contain at each stage. The last is what makes it inductive: that a put may commit follows
only from what it saw when it took the lock still being so, and that follows from `LockInv`. From it
come `TypeCorrect`, `PointerCorrect`, `ReadsFindTheirRow`, `AadCorrect` and the action properties
`VersionsAreAppendOnly`, `DeletionIsFinal`, `NoUpdateIsLost`. `LedgerImplementsEntry`
shows under the same invariant that each step maps to one of
`VersionedSecret` or a stutter. The last part of the module adds `AInv`, which ties each call's identity to
the rows and events it may have left at its stage: calls have different ids, so that rows of one call are not
taken for another's. It yields `AuditIsAtomic`, `AnswersAreTruthful` and `AttrsComeAfter`.

*Config ledger.* `IInv` of `ConfigLedgerProofs` is the types, `HeaderInv` (the pointer names a row, the declared
type is row 1's), `VersionsInv` (a put wrote one row at most), `PutInv` of each put, `WhitelistHolds` and
`DefsInv`. `PutInv` is what `LaterPutWins` lacks to be inductive: while a put is still storing, the attributes it has
stored hold its own value or one of a put that was not over when it committed, and puts that were over stay over. Theorems:
`NoLostAttributes`, `WhitelistAlwaysHolds`, `EditsHitTheRowSeen`, `DeclaredTypeNeverChanges`, `TypeCorrect` and
the refinement `ConfigImplementsEntry`.

*Inheritance.* `IInv` of `EnvInheritanceProofs`: links go to existing environments of the same project with
smaller numbers (`ForestOK`), chains are short (`ChainsEnd`), and every walk is a chain of links from where it started
(`WalkOK`), has passed no environment that still holds what it held at the start (`PassedOK`), and when
it has missed, stands at a root (`RootOK`). `RootOK` is where the depth check and the walks
meet: a walk that gives up after `MaxDepth` parents would otherwise have one more to look into, which `ChainsEnd`
excludes. Theorems: `EveryChainEnds`, `WalksAreInTheirProject`, `SteadyValuesAreFound` (if
`RowSecurity = FALSE`; without that it is false, see section 5), `RefsAreResolvedAtSource`,
`ConfigPointerCorrect`, `TypeCorrect`.

*Tokens.* `IInv` of `TokenServiceProofs`: the log matches the table; if `SOMA_ROOT_TOKEN` is set and there is any
row, its token has one; two booting pods have the same token only if it is that one (`Apart`); and
every token that a file or a request carries is *settled*: it is in the table, or it is a random one that no pod will ever
store (`Dead`). Without the last, a request could begin with a token that a pod stores
only afterwards, and the look-up would find an administrator where none was. Theorems: `SeedAlwaysStored`,
`LogAlwaysMatches`, `RevocationsAreFinal`, `OnlyTheEntitledAct`, `TypeCorrect`. `NobodyIsLockedOut` (`KeyIsKnown`) needs
`KeyInv` beside it: while no pod has died a file belongs to a pod that serves, so no boot truncates the file that holds the
only plaintext, and from the first row on some token of the table is in a file, in the configuration, with a
user, or with a pod that is about to write it. `OnlyDeathsLoseTheKey` (`OnlyDeathLosesTheKey`) is about the deaths that it leaves out. A pod that dies between storing
its token and writing it does lose the only key: the next boot counts the row and serves. The theorem says that nothing else does,
while every token is usable. `DiskInv` is what it needs: a boot that chose a token of its own has nothing of the table in its
file, because it counted when the table was empty and the token of its older file is `Dead`; so it truncates and overwrites nothing that opens the vault.
A file that cannot be written ends the process, which is `Crash`.

*Sessions.* `AuthSessionProofs` has two parts. `LimiterInv` ties each map entry to the history: the entry's
count is the number of the last admissions in the window that its start begins, all earlier ones are
older than the start, and an address without an entry has no history. `BurstsAreBounded` and `RefusalIsEarned` follow for every limit and window;
that clearing the map keeps the invariant is a lemma of its own (`ClearedInv`). `SessionInv` adds that a successful answer
on its way carries a token that was found live for that host: `CookiesAreGranted`, `SignOutIsFinal`.

*Listing.* `IInv` of `ClientProofs`: while loads have not overlapped there is one at most, the list holds exactly once
every row at or before the cursor that stayed (`ListInv`), and a load under way starts at the cursor, its page being all that stayed up to its last
row (`LoadInv`). Theorems `NoRowTwice`, `NoStayerMissed`, `TypeCorrect`, for every page size and every limit asked for.

*Export.* `IInv` of `ExportProofs` is about the environments that are already laid over one another (`Covered`: those
farther than the one being read). `HistoryOK`: what is stored now was seen, what is steady is still stored, and no stamp is ahead
of the clock, so that a row put again is never taken for the one before. `ValuesOK`: every entry was seen, and a reference comes from
a config at its path. `ConfigsOK`: between the two statements of one environment its configs that stay are all there.
`OverlayOK` and `ErrorsOK` are `SteadyValuesAreOverlaid` and `NothingIsDroppedSilently` for the covered environments
only; `RefsOK` is `DanglingIsReported` for the paths no longer in `todo`. When the call is done every environment is covered
(`DoneCoversAll`) and nothing is to do, which gives `SteadyValuesOverlay`, `NothingDropped`, `DanglingAlwaysReported`,
with `ValuesWereCurrent` and `TypeCorrect`, for every number of ancestors. `OwnSecretsWinUnresolved` proves the sentence that
section 5 refutes for exports without `resolve_refs`: references are its only exception.

*Env files.* `FileInv` of `ClientProofs`, for files of any length and any number of commands, faults and other writers: an import
without a failure has stored every pair it is past (`StoredOK`), and while nobody else wrote the vault holds, of those that share a
path, the last (`HoldsOK`, and `Holds(last)` once the import is over); an answer to an export is true until somebody writes (`GotOK`); what
a process has been given so far comes from the paths that are no longer in `todo` (`RanOK`, `InjectOK`). `HoldsOK` is what `RoundTrip` lacks to be inductive: it speaks of the pairs
behind the loop, of which the next put either replaces one or joins them, and nothing is ahead when the loop ends. That a name reads back rests
on `MapOfShown`: a shown name's own path sorts last of those shown under it; that its line is in the file written, and is parsed to the pair it was, on
`RenderedHolds` and on the value's being ordinary (`Plain`). Theorems: `RemovedOnlyStored`, `ImportComesBack`, `RunAndInject`, `FileTypeCorrect`.

*Dashboard.* `IInv` of `ConsoleProofs` orders the lists by `Grew` (versions are never rewritten, and what was listed as gone does not come
back). The answer to a load lies between what its tab shows and what is stored, and holds all that the tab has saved,
*unless* a newer load replaces it (`CallsOK`); of a tab's loads at most one is not replaced (`OneNewest`); a tab lists
what it saved or such a load is under way (`ListsOK`); what was answered "saved" is a row (`SavedOK`). `OneNewest` is why
the answers may come in any order: the one that is shown is the only one of which `CallsOK` speaks. A save's answer adds to what must
be listed while loads sent before it are on their way, and `Reload` marks just those as replaced. Theorems:
`OwnSavesAlwaysListed`, `ViewsNeverGoBack`, `TypeCorrect`, and `ShownIsTimed`: whatever plaintext is shown, a timer runs
that will mask it, the part of `RevealedIsMasked` that is not liveness.

Type correctness of most proved modules is a theorem and not part of a run; so are a few plainer invariants
(`PointerCorrect`, `VersionsAreAppendOnly`, `DeletionIsFinal`, `NobodyIsLockedOut`, `AttrsComeAfter`, `ConfigPointerCorrect`,
`DeclaredTypeNeverChanges`, `CookiesAreGranted`, `ShownIsTimed`).

Only model-checked: the liveness properties `EveryCallEnds`, `EveryPodServes`, `ScriptEnds`
and `RevealedIsMasked`, because the prover does not treat fairness. Every invariant and action property of the passing runs has a
theorem; the violated ones have none, of course. The three names, paths and four values of `EnvFile` are definitions and not parameters:
its theorems hold for every file and history over them.

## 5. Where code and documents disagree

Two are runs that end in a violation, with the quotation in `PROJECT.json`.

* `put_after_rollback`: a put after a rollback is refused as a conflict until the pointer is back at the newest version.
* `config_latest`: the page of a config key takes version 1 for the latest: it shows and copies it and fills its edit form with it.

The next ones are stated in the modules as the definitions named here and have no run of their own;
added to the run in brackets, each is violated.

* `PutRevives` (`ledger`, an action property): a deleted path can never be written again (`pg/mod.rs:816`), although a put "creates or updates" (`store.rs:87`).
* `ErrorLeavesNoEvent` (`ledger_mixed`): a read that fails to decrypt has already committed a success event
  (`pg/mod.rs:553`), against `docs/ATOMIC-AUDIT-PLAN.md:121`.
* `OneRootToken` (`tokens`): two pods at cold start store two root tokens: `WHERE NOT EXISTS` (`pg/mod.rs:2348`) does not see an uncommitted row; the comment above it says that it does.
* `WrittenTokenIsStored` (`tokens`): a pod that did not store its token writes it to the token file (server `main.rs:93`), against the
  chart's `NOTES.txt:3`.
* `InheritsOnlyUnset` (`inherit`, with `MaxWrites` 3): reading version n of a key whose local history is shorter answers with the parent's version n
  (`pg/mod.rs:1093`), against `20260626_06_env-inheritance.sql:3-4`.
* `MissMeansNobodyHasIt` (`inherit`, with `RowSecurity` TRUE): the parent link is read outside `tenant_tx` (`pg/mod.rs:1056`);
  under row level security inheritance finds nothing (`store.rs:102`).
* `OwnSecretsWin` (`export`): a `secret_ref` config at the path, in the same environment or an ancestor, replaces an environment's
  own secret in an effective export with `resolve_refs`, although "secrets win on key collision" (`store.rs:308`) and "own values overlaid" (`:312`).
* `ImportIgnoresFile` (`envfile`, an action property): an import glues the file's name to the last line of a `.gitignore` that does not end
  in a newline (CLI `:1131`), and git goes on seeing the file, against "Delete the .env and add it to .gitignore" (`:1099`).

Read and not stated. *Store*: `max_versions` is documented and nothing prunes; `docs/02`, `03` and `05` describe a
rollback as a re-encryption where the code moves a pointer; the depth limit is 3 in `docs/02` and `03` and
5 in the code; `create_token` ignores the role it is given; a version's `value_type` is called a snapshot of the declared type
and is independent of it; `is_required` is enforced nowhere; one broken secret that a reference names fails a whole effective export,
and the API offers none; a value moved between a secret and a config during an export may be in neither statement; the server
and the CLI take their migration lock under different keys. *Dashboard*: two clicks on "Load more"
list a page twice, and an answer for an old filter extends the new list; the list pages and `soma init` read the first page only; an edit
of a definition overwrites `is_pii` and `is_required` with what the page loaded; the edit dialog offers a data type that
it does not send; the audit filter lacks `config.rollback`. *CLI*: a value that is a lone quotation mark panics the parser;
lines that are no pair are skipped with a warning and deleted with the file, as are edits saved during the import; values with a quotation mark
come back escaped; names that are not uppercase lose their case; of two paths with one name `run` takes the later and `inject` any; `fetch_export_map`
ignores reported errors; a value that begins with a newline is exported as a line that panics the parser; `--replace-env` lets the vault
set `PATH` and `HOME`; the server written to `.soma.toml` is not used.

## 6. What is left out, and why

* Tenants: every statement carries the tenant and every policy compares it; one tenant is modelled. Cross-tenant
  isolation is a property of SQL text that these modules would assume, not show.
* Cryptography: key derivation, nonces and `rewrap_dek` are pure functions with unit tests; `Decrypts` keeps the
  two conditions that depend on state.
* Weaker roles than the administrator and the denied events: stateless checks, and a best-effort write.
* Single calls: the CLI's `init`, `projects`, `envs`, `migrate`, `secrets` and `config` commands, the SDKs' other methods,
  the TypeScript SDK, and the dashboard's project, access and settings pages hold no state between steps.
* Wording, HTTP codes beyond the store's results, telemetry, deployment.
* The external crates soma-schema, soma-audit-pg, soma-infra: the audit sink is a statement that may fail.
* Serialization failures and deadlock aborts by Postgres appear only as a statement that fails; READ COMMITTED is
  assumed, the default that the code does not change.
* In `Export`, `Console` and `EnvFile` a call of another writer is one step; `SecretLedger` and `ConfigLedger` justify it.

## 7. What could come next

The weaker roles composed with `TokenService`; two tabs of a page with two foreign calls under a faster store;
any names and paths in `EnvFile`, from assumptions about `PathOf` and `NameOf`; a walk of `EnvInheritance` inside `Export`'s `Dereference`.
