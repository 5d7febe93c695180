---------------------------- MODULE EnvInheritance ----------------------------
(***************************************************************************)
(* Environments and their parents, one config key and one secret path in   *)
(* every environment, and the reads that walk from an environment to its   *)
(* ancestors: get_config_resolved and get_secret_inherited.                *)
(*                                                                         *)
(* A write is one transaction (SecretLedger shows that its statements      *)
(* behave like one) and one step here.  A read is a transaction for every  *)
(* environment it looks into and one for every parent link, so writes and  *)
(* new environments come in between.                                       *)
(*                                                                         *)
(* Environments are numbered in the order they are created; the code's     *)
(* UUIDs have no order it relies on.  0 is no parent.                      *)
(***************************************************************************)
EXTENDS Integers, Sequences

CONSTANTS
  Projects,     \* projects that exist
  Readers,      \* clients, one read each at a time
  MaxDepth,     \* 5 in the code, for the check and for every walk
  RowSecurity,  \* the server's role is subject to row level security
  MaxEnvs,      \* bound: environments
  MaxWrites     \* bound: writes of keys and secrets

ASSUME DepthAssumption == MaxDepth \in Nat
ASSUME BoundsAssumption == MaxEnvs \in Nat /\ MaxWrites \in Nat
ASSUME RowSecurityAssumption == RowSecurity \in BOOLEAN

VARIABLES
  envs,    \* environments: project and parent
  config,  \* the config key in each environment: header and version rows
  secret,  \* the secret in each environment
  read,    \* each reader's read
  writes   \* writes so far

vars == <<envs, config, secret, read, writes>>

EnvIds == 1..MaxEnvs
Env == [project: Projects, parent: Nat]
Types == {"plain", "ref"}  \* value_type: secret_ref, or any of the others
States == {"absent", "live", "deleted"}

\* A version is its value_type; the header's own value_type decides nothing here.
Key == [state: States, current: Nat, versions: Seq(Types)]
NoKey == [state |-> "absent", current |-> 0, versions |-> <<>>]

\* env: the environment asked for.  version 0 asks for the current one.  source: where the
\* config value was found, for a read that goes on to the secret it refers to.  path:
\* environments looked into, the last one maybe about to be.  had, own: kept for the
\* properties only, which environments held the wanted version when the walk began, and
\* whether the first one had any value.
Read == [stage: {"idle", "probe", "climb", "done"}, what: {"config", "secret"},
         env: {0} \cup EnvIds, version: Nat, resolve: BOOLEAN,
         path: Seq(EnvIds), source: {0} \cup EnvIds,
         answer: {"none", "value", "miss", "dangling", "error"},
         had: SUBSET EnvIds, own: BOOLEAN]
NoRead == [stage |-> "idle", what |-> "config", env |-> 0, version |-> 0, resolve |-> FALSE,
           path |-> <<>>, source |-> 0, answer |-> "none", had |-> {}, own |-> FALSE]

Init ==
  /\ envs = <<>>
  /\ config = [e \in EnvIds |-> NoKey]
  /\ secret = [e \in EnvIds |-> "absent"]
  /\ read = [r \in Readers |-> NoRead]
  /\ writes = 0

-------------------------------------------------------------------------------
\* Creating environments.

Parents == {envs[e].parent : e \in DOMAIN envs} \ {0}

\* e has n ancestors at least.
HasAncestors(e, n) ==
  \E c \in [1..n -> Parents] :
    \A i \in 1..n : c[i] = envs[IF i = 1 THEN e ELSE c[i-1]].parent

\* Faulty variant for mutation testing: depth > 5 in the loop.
DepthOk_OffByOne(parent) == ~HasAncestors(parent, MaxDepth + 1)

\* check_env_chain_depth fails as soon as it has found MaxDepth ancestors of the parent.
DepthOk(parent) == ~HasAncestors(parent, MaxDepth)

\* Faulty variant for mutation testing: the parent's project is not compared.
ParentOk_AnyProject(project, parent) == parent \in DOMAIN envs

ParentOk(project, parent) == parent \in DOMAIN envs /\ envs[parent].project = project

\* The links of existing environments never change, so what the checks have seen is
\* still so when the transaction commits.
CreateEnvironment(project, parent) ==
  /\ Len(envs) < MaxEnvs
  /\ parent # 0 => ParentOk(project, parent) /\ DepthOk(parent)
  /\ envs' = Append(envs, [project |-> project, parent |-> parent])
  /\ UNCHANGED <<config, secret, read, writes>>

-------------------------------------------------------------------------------
\* Writes.

Write == writes < MaxWrites /\ writes' = writes + 1 /\ UNCHANGED <<envs, read>>

WriteKey(e, key) == Write /\ config' = [config EXCEPT ![e] = key] /\ UNCHANGED secret

\* The upsert of the header alone, as put_config commits it.
PutHeader(e) ==
  /\ config[e].state = "absent"
  /\ WriteKey(e, [NoKey EXCEPT !.state = "live"])

\* The version is numbered current_version + 1: taken, after a rollback, and refused.
\* A deleted key is refused too.
PutConfig(e, type) ==
  /\ config[e].state # "deleted"
  /\ config[e].current = Len(config[e].versions)
  /\ WriteKey(e, [state |-> "live",
                  current |-> config[e].current + 1,
                  versions |-> Append(config[e].versions, type)])

RollbackConfig(e, v) ==
  /\ config[e].state = "live"
  /\ v \in DOMAIN config[e].versions
  /\ WriteKey(e, [config[e] EXCEPT !.current = v])

DeleteConfig(e) ==
  /\ config[e].state = "live"
  /\ WriteKey(e, [config[e] EXCEPT !.state = "deleted"])

\* Of a secret only its presence matters here: the first put, and the delete.
PutSecret(e) ==
  /\ secret[e] = "absent"
  /\ Write /\ secret' = [secret EXCEPT ![e] = "live"] /\ UNCHANGED config

DeleteSecret(e) ==
  /\ secret[e] = "live"
  /\ Write /\ secret' = [secret EXCEPT ![e] = "deleted"] /\ UNCHANGED config

WriteSomething ==
  \E e \in DOMAIN envs :
    \/ PutHeader(e)
    \/ \E type \in Types : PutConfig(e, type)
    \/ \E v \in 0..MaxWrites : RollbackConfig(e, v)
    \/ DeleteConfig(e) \/ PutSecret(e) \/ DeleteSecret(e)

-------------------------------------------------------------------------------
\* Reads.

Wanted(e, version) == IF version = 0 THEN config[e].current ELSE version

\* What get_config, or get_secret, finds in e.
HasConfig(e, version) ==
  config[e].state = "live" /\ Wanted(e, version) \in DOMAIN config[e].versions
HasSecret(e) == secret[e] = "live"
Holds(what, e, version) == IF what = "config" THEN HasConfig(e, version) ELSE HasSecret(e)

At(rd) == rd.path[Len(rd.path)]
Set(r, rd) == read' = [read EXCEPT ![r] = rd] /\ UNCHANGED <<envs, config, secret, writes>>

Holders(what, version) == {e \in EnvIds : Holds(what, e, version)}

\* check_env_project has found the environment.
Begin(r) ==
  /\ read[r].stage = "idle"
  /\ \E e \in DOMAIN envs, what \in {"config", "secret"}, v \in 0..MaxWrites, resolve \in BOOLEAN :
       /\ what = "secret" => v = 0 /\ ~resolve
       /\ Set(r, [NoRead EXCEPT !.stage = "probe", !.what = what, !.env = e, !.version = v,
                                !.resolve = resolve, !.path = <<e>>, !.had = Holders(what, v),
                                !.own = what = "config" /\ HasConfig(e, 0)])

Answer(r, answer) == Set(r, [read[r] EXCEPT !.stage = "done", !.answer = answer])

\* Nothing found on the whole walk.
Miss(r) == Answer(r, IF read[r].source = 0 THEN "miss" ELSE "dangling")

\* Faulty variant for mutation testing: the reference is resolved where the caller asked.
RefEnv_Asked(rd) == rd.env

\* source_env: where the config value came from.
RefEnv(rd) == At(rd)

\* Faulty variant for mutation testing: one parent less is walked.
MayClimb_OneLess(rd) == Len(rd.path) < MaxDepth

\* for _ in 0..5: MaxDepth parents are walked.
MayClimb(rd) == Len(rd.path) <= MaxDepth

Found(rd) == Holds(rd.what, At(rd), rd.version)
IsRef(rd) == config[At(rd)].versions[Wanted(At(rd), rd.version)] = "ref"

ProbeHit(r) ==
  LET rd == read[r] IN
  /\ rd.stage = "probe" /\ Found(rd)
  /\ IF rd.what = "config" /\ rd.resolve /\ IsRef(rd)
     THEN Set(r, [rd EXCEPT !.what = "secret", !.source = At(rd), !.path = <<RefEnv(rd)>>,
                            !.had = Holders("secret", 0)])
     ELSE Answer(r, "value")

ProbeMiss(r) ==
  LET rd == read[r] IN
  /\ rd.stage = "probe" /\ ~Found(rd)
  /\ IF MayClimb(rd) THEN Set(r, [rd EXCEPT !.stage = "climb"]) ELSE Miss(r)

\* get_parent_env_id sets no app.tenant_id: under row level security the parent's row is
\* not seen, as if there were none.  (On a connection that has had a tenant the setting is
\* '' by now and its cast to uuid fails: Fail.)
Climb(r) ==
  LET rd == read[r]
      parent == IF RowSecurity THEN 0 ELSE envs[At(rd)].parent IN
  /\ rd.stage = "climb"
  /\ IF parent = 0 THEN Miss(r)
     ELSE Set(r, [rd EXCEPT !.stage = "probe", !.path = Append(rd.path, parent)])

\* A statement or a decryption fails.
Fail(r) == read[r].stage \in {"probe", "climb"} /\ Answer(r, "error")

Return(r) == read[r].stage = "done" /\ Set(r, NoRead)

ReadStep(r) == Begin(r) \/ ProbeHit(r) \/ ProbeMiss(r) \/ Climb(r) \/ Fail(r) \/ Return(r)

Next ==
  \/ \E project \in Projects, parent \in {0} \cup DOMAIN envs : CreateEnvironment(project, parent)
  \/ WriteSomething
  \/ \E r \in Readers : ReadStep(r)

Spec == Init /\ [][Next]_vars

-------------------------------------------------------------------------------
TypeOK ==
  /\ envs \in Seq(Env) /\ Len(envs) <= MaxEnvs
  /\ config \in [EnvIds -> Key]
  /\ secret \in [EnvIds -> States]
  /\ read \in [Readers -> Read]
  /\ writes \in Nat

\* No environment has more ancestors than a walk visits: the depth check that is made when
\* an environment is created and the loops that read agree on the bound
\* (check_env_chain_depth against build_env_chain and the two inherited reads).
ChainsEnd == \A e \in DOMAIN envs : ~HasAncestors(e, MaxDepth + 1)

\* A walk never leaves the project of the environment that was asked for: nobody who may
\* use one project reads another's values through a parent link.
WalksStayInProject ==
  \A r \in Readers :
    LET rd == read[r] IN
    rd.stage # "idle" =>
      \A i \in DOMAIN rd.path : envs[rd.path[i]].project = envs[rd.env].project

\* Environments that have held what rd looks for ever since its walk began.
Steady(rd) == {e \in rd.had : Holds(rd.what, e, rd.version)}

\* A walk passes no environment that has held the value since the walk began, and a
\* miss has looked into every ancestor up to the root: a value that nobody touches is
\* found, and from the nearest environment, whatever is written meanwhile
\* ("walks the parent chain (depth <= 5) and returns the first ancestor that has the
\* secret", store.rs:102).
SteadyValueIsFound ==
  \A r \in Readers :
    LET rd == read[r]
        missed == rd.answer \in {"miss", "dangling"} IN
    /\ \A i \in DOMAIN rd.path :
         i < Len(rd.path) \/ rd.stage = "climb" \/ missed => rd.path[i] \notin Steady(rd)
    /\ missed => envs[At(rd)].parent = 0

\* e is a, or one of its ancestors.
AtOrAbove(e, a) ==
  e = a \/ \E n \in 1..MaxDepth : \E c \in [1..n -> Parents] :
              c[n] = e /\ \A i \in 1..n : c[i] = envs[IF i = 1 THEN a ELSE c[i-1]].parent

\* A reference is followed from the environment its config value came from, never from a
\* child that inherits it: a child cannot put its own secret under a parent's reference
\* (get_config_resolved, source_env).
RefsResolveAtSource ==
  \A r \in Readers :
    LET rd == read[r] IN
    rd.source # 0 => \A i \in DOMAIN rd.path : AtOrAbove(rd.path[i], rd.source)

\* A key's pointer names one of its versions, or 0 while there is none, so that an
\* unversioned read of a live key with versions finds a row (put_config_audited,
\* rollback_config_audited).
ConfigPointerNamesAVersion ==
  \A e \in EnvIds :
    LET key == config[e] IN
    IF key.versions = <<>> THEN key.current = 0 ELSE key.current \in DOMAIN key.versions

-------------------------------------------------------------------------------
\* "A non-NULL parent means this environment inherits values from the parent when a key is
\* not set locally" (20260626_06_env-inheritance.sql:3): a key that has had a value in the
\* environment since the read began is not answered from an ancestor.
InheritsOnlyUnset ==
  \A r \in Readers :
    LET rd == read[r] IN
    rd.what = "config" /\ rd.answer = "value" /\ rd.own /\ HasConfig(rd.env, 0)
    => Len(rd.path) = 1

\* "walks the parent chain (depth <= 5) and returns the first ancestor that has the secret"
\* (store.rs:102): a miss means that no environment of the chain has held the value since
\* the read began.
MissMeansNobodyHasIt ==
  \A r \in Readers :
    LET rd == read[r] IN
    rd.answer = "miss" => \A e \in Steady(rd) : ~AtOrAbove(e, rd.env)
===============================================================================
