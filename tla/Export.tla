-------------------------------- MODULE Export --------------------------------
(***************************************************************************)
(* Everything an environment holds, as one map from path to value: export, *)
(* and export_effective, which lays the exports of an environment and its  *)
(* ancestors over one another and then replaces references.                *)
(*                                                                         *)
(* An export is two statements, each with a snapshot of its own; an        *)
(* effective export is one export after the other, from the farthest       *)
(* ancestor down, and one resolving read per key.  Writers go on between   *)
(* them.  Environment 1 is the one exported and e + 1 the parent of e: a   *)
(* parent link never changes.  (EnvInheritance takes the resolving read    *)
(* apart; here it is one step.)                                            *)
(***************************************************************************)
EXTENDS Naturals, FiniteSets

CONSTANTS
  Depth,        \* bound: the environment exported and its ancestors
  ConfigPaths,  \* keys that configs are put at
  SecretPaths,  \* paths that secrets are put at
  Targets,      \* paths that secret_ref configs name
  MaxWrites,    \* bound: writes while the export runs
  None          \* no row, no entry

ASSUME BoundsAssumption == Depth \in Nat \ {0} /\ MaxWrites \in Nat

Envs  == 1 .. Depth
Paths == ConfigPaths \cup SecretPaths

VARIABLES
  config,  \* the row of each key in each environment
  secret,  \* the row of each secret in each environment
  writes,  \* writes so far; the last one's stamp
  call,    \* the export
  seen,    \* history: what was current at some time of the call
  steady   \* history: what was current all the time

vars == <<config, secret, writes, call, seen, steady>>

Stamps == 0 .. MaxWrites
\* ref: the path that a secret_ref's value names, None for another type.
Config == [live: BOOLEAN, stamp: Stamps, ref: Targets \cup {None}]
\* sound: the pod can decrypt the current version.
Secret == [live: BOOLEAN, stamp: Stamps, sound: BOOLEAN]
\* A value, by where it was stored, and what a reference refers to.
Source == [what: {"config", "secret"}, env: Envs, path: Paths, stamp: Stamps,
           ref: Targets \cup {None}]
\* from: inherited_from, with 1 for None.
Entry == [value: Source, from: Envs]
Bundle == [Paths -> Entry \cup {None}]

ASSUME NoneAssumption == None \notin Entry

Call == [stage: {"configs", "secrets", "resolve", "done", "failed"},
         resolve: BOOLEAN, top: Envs, env: Envs, configs: Bundle, values: Bundle,
         errors: SUBSET Paths, todo: SUBSET Paths]

TypeOK ==
  /\ config \in [Envs \X ConfigPaths -> Config \cup {None}]
  /\ secret \in [Envs \X SecretPaths -> Secret \cup {None}]
  /\ writes \in Stamps
  /\ call \in Call
  /\ seen \subseteq Source /\ steady \subseteq seen

-------------------------------------------------------------------------------
\* What is stored.

\* Faulty variant for mutation testing: no is_deleted = false in the WHERE clause.
HasConfig_Deleted(e, p) == p \in ConfigPaths /\ config[<<e, p>>] # None

HasConfig(e, p) == p \in ConfigPaths /\ config[<<e, p>>] # None /\ config[<<e, p>>].live
HasSecret(e, p) == p \in SecretPaths /\ secret[<<e, p>>] # None /\ secret[<<e, p>>].live
IsSound(e, p)   == HasSecret(e, p) /\ secret[<<e, p>>].sound
IsBroken(e, p)  == HasSecret(e, p) /\ ~secret[<<e, p>>].sound

ConfigAt(e, p) == [what |-> "config", env |-> e, path |-> p, stamp |-> config[<<e, p>>].stamp,
                   ref |-> config[<<e, p>>].ref]
SecretAt(e, p) == [what |-> "secret", env |-> e, path |-> p, stamp |-> secret[<<e, p>>].stamp,
                   ref |-> None]

\* The values a reader could be given now.
Current ==
  {ConfigAt(c[1], c[2]) : c \in {d \in Envs \X ConfigPaths : config[d] # None /\ config[d].live}}
    \cup
  {SecretAt(c[1], c[2]) : c \in {d \in Envs \X SecretPaths : secret[d] # None /\ secret[d].live}}

Note == seen' = seen \cup Current' /\ steady' = steady \cap Current'

NoBundle == [p \in Paths |-> None]

Init ==
  /\ config \in [Envs \X ConfigPaths -> {c \in Config : c.stamp = 0} \cup {None}]
  /\ secret \in [Envs \X SecretPaths -> {s \in Secret : s.stamp = 0} \cup {None}]
  /\ writes = 0
  /\ \E effective, resolve \in BOOLEAN :
       /\ resolve => effective
       /\ LET top == IF effective THEN Depth ELSE 1 IN
          call = [stage |-> "configs", resolve |-> resolve, top |-> top, env |-> top,
                  configs |-> NoBundle, values |-> NoBundle, errors |-> {}, todo |-> {}]
  /\ seen = Current /\ steady = Current

-------------------------------------------------------------------------------
\* Writers.  A put is refused on a row that was deleted.

Running == call.stage \notin {"done", "failed"}

Write ==
  /\ Running /\ writes < MaxWrites /\ writes' = writes + 1
  /\ UNCHANGED call
  /\ Note

PutConfig(e, p, ref) ==
  /\ config[<<e, p>>] # None => config[<<e, p>>].live
  /\ config' = [config EXCEPT ![<<e, p>>] = [live |-> TRUE, stamp |-> writes + 1, ref |-> ref]]
  /\ UNCHANGED secret
  /\ Write

PutSecret(e, p, sound) ==
  /\ secret[<<e, p>>] # None => secret[<<e, p>>].live
  /\ secret' = [secret EXCEPT ![<<e, p>>] = [live |-> TRUE, stamp |-> writes + 1, sound |-> sound]]
  /\ UNCHANGED config
  /\ Write

DeleteConfig(e, p) ==
  /\ config[<<e, p>>] # None /\ config[<<e, p>>].live
  /\ config' = [config EXCEPT ![<<e, p>>].live = FALSE]
  /\ UNCHANGED secret
  /\ Write

DeleteSecret(e, p) ==
  /\ secret[<<e, p>>] # None /\ secret[<<e, p>>].live
  /\ secret' = [secret EXCEPT ![<<e, p>>].live = FALSE]
  /\ UNCHANGED config
  /\ Write

WriteSomething ==
  \E e \in Envs :
    \/ \E p \in ConfigPaths, ref \in Targets \cup {None} : PutConfig(e, p, ref)
    \/ \E p \in SecretPaths, sound \in BOOLEAN : PutSecret(e, p, sound)
    \/ \E p \in ConfigPaths : DeleteConfig(e, p)
    \/ \E p \in SecretPaths : DeleteSecret(e, p)

-------------------------------------------------------------------------------
\* The export.

Go(c) == call' = c /\ UNCHANGED <<config, secret, writes, seen, steady>>

\* export, statement 1: the live configs of one environment.
ReadConfigs ==
  /\ call.stage = "configs"
  /\ Go([call EXCEPT !.stage = "secrets",
                     !.configs = [p \in Paths |->
                       IF HasConfig(call.env, p)
                       THEN [value |-> ConfigAt(call.env, p), from |-> call.env] ELSE None]])

\* Faulty variant for mutation testing: a config at the path keeps its place.
Exported_ConfigWins(p) ==
  IF call.configs[p] = None /\ IsSound(call.env, p)
  THEN [value |-> SecretAt(call.env, p), from |-> call.env]
  ELSE call.configs[p]

\* ExportBundle.values: a secret that can be decrypted overwrites the config at its path.
Exported(p) ==
  IF IsSound(call.env, p)
  THEN [value |-> SecretAt(call.env, p), from |-> call.env]
  ELSE call.configs[p]

\* The environments come farthest first, and insert overwrites.
Overlaid(p) == IF Exported(p) = None THEN call.values[p] ELSE Exported(p)

\* Faulty variant for mutation testing: the errors of one environment replace the others'.
Errors_Last == {p \in Paths : IsBroken(call.env, p)}

\* decrypt_errors.extend
Errors == call.errors \cup {p \in Paths : IsBroken(call.env, p)}

\* The environment that is exported comes last.
IsLast == call.env = 1

\* export, statement 2: the live secrets, decrypted after the commit, and on to the next
\* environment or to the references.
ReadSecrets ==
  LET values == [p \in Paths |-> Overlaid(p)] IN
  /\ call.stage = "secrets"
  /\ IF IsLast
     THEN Go([call EXCEPT !.stage = IF call.resolve THEN "resolve" ELSE "done",
                          !.values = values, !.errors = Errors,
                          !.todo = {p \in Paths : values[p] # None}])
     ELSE Go([call EXCEPT !.stage = "configs", !.env = @ - 1, !.values = values, !.errors = Errors])

IsNearest(e, holders) == e \in holders /\ \A d \in holders : e <= d

ConfigHolders(p)     == {e \in Envs : HasConfig(e, p)}
SecretHolders(p, up) == {e \in Envs : e >= up /\ HasSecret(e, p)}

Resolved(p) == [call EXCEPT !.todo = @ \ {p}]

\* get_config_resolved finds no config key, or one that is no reference: the entry stays.
KeepEntry(p) ==
  /\ call.stage = "resolve" /\ p \in call.todo
  /\ \A e \in Envs : IsNearest(e, ConfigHolders(p)) => config[<<e, p>>].ref = None
  /\ Go(Resolved(p))

\* Faulty variant for mutation testing: a dangling reference is passed over.
Dangling_Silent(p) == [call EXCEPT !.todo = @ \ {p}]

\* No secret of the reference's name: reported, and the entry stays.
Dangling(p) == [Resolved(p) EXCEPT !.errors = @ \cup {p}]

\* It finds a reference, and the secret that it names, from the reference's environment up.
Dereference(p) ==
  /\ call.stage = "resolve" /\ p \in call.todo
  /\ \E e \in Envs :
       /\ IsNearest(e, ConfigHolders(p)) /\ config[<<e, p>>].ref # None
       /\ LET target == config[<<e, p>>].ref IN
          IF SecretHolders(target, e) = {}
          THEN Go(Dangling(p))
          ELSE \E d \in Envs :
                 /\ IsNearest(d, SecretHolders(target, e))
                 /\ IF IsSound(d, target)
                    THEN Go([Resolved(p) EXCEPT !.values[p].value = SecretAt(d, target)])
                    ELSE Go([call EXCEPT !.stage = "failed"])

Finish == call.stage = "resolve" /\ call.todo = {} /\ Go([call EXCEPT !.stage = "done"])

\* A statement fails.
Fail == Running /\ Go([call EXCEPT !.stage = "failed"])

\* The map has been handed out.
Quiescent == ~Running /\ UNCHANGED vars

Next ==
  \/ WriteSomething
  \/ ReadConfigs \/ ReadSecrets
  \/ \E p \in Paths : KeepEntry(p) \/ Dereference(p)
  \/ Finish \/ Fail \/ Quiescent

Spec == Init /\ [][Next]_vars

-------------------------------------------------------------------------------
\* What is checked.

Done == call.stage = "done"

\* Each value handed out was current, where it says it was, at some time of the call: two
\* statements per environment and one read per reference never put a value together that
\* nobody stored, and never bring a deleted one back.
ExportedWasCurrent ==
  Done => \A p \in Paths : call.values[p] # None => call.values[p].value \in seen

Reported(p) == p \in call.errors

\* The rows of the chain that nobody touched and the pod can read, and those it cannot.
Readable(s) == s.what = "config" \/ secret[<<s.env, s.path>>].sound
Untouched   == {s \in steady : s.env <= call.top /\ Readable(s)}
Unreadable  == {s \in steady : s.env <= call.top /\ ~Readable(s)}

\* A reference for p was there at some time of the call.
MayBeReplaced(p) == call.resolve /\ \E s \in seen : s.path = p /\ s.ref # None

\* What nobody touches is overlaid as promised: it stands behind nothing but a nearer
\* environment's, and in one environment the secret stands before the config ("own values
\* overlaid on the inherited parent chain", "secrets win on key collision"), whatever is
\* written beside it.  Where a reference may have replaced the entry, only its provenance
\* is that of the overlay: see OwnSecretsWin.
SteadyValuesAreOverlaid ==
  Done => \A s \in Untouched :
    /\ call.values[s.path] # None
    /\ call.values[s.path].from <= s.env
    /\ s.what = "secret" /\ call.values[s.path].from = s.env /\ ~MayBeReplaced(s.path)
         => call.values[s.path].value = s

\* A secret that cannot be decrypted is named in decrypt_errors, whichever environment of
\* the chain holds it: an ancestor's value, or a config's, that shows through in its place
\* never does so silently.
NothingIsDroppedSilently == Done => \A s \in Unreadable : Reported(s.path)

\* A reference whose secret nobody holds is reported as well, and leaves the path that it
\* names as the value ("report as a decrypt error rather than aborting").
DanglingIsReported ==
  Done /\ call.resolve =>
    \A p \in Paths :
      LET value == call.values[p].value IN
      ( /\ call.values[p] # None /\ value.ref # None /\ value \in steady
        /\ \A s \in seen : s.what = "config" /\ s.path = p => s.env >= value.env )
        => Reported(p)

\* Violated, see the README: an environment's own secret is what the export hands out for
\* its path.  A reference at that path, in the same environment or an ancestor, replaces it.
OwnSecretsWin ==
  Done => \A s \in Untouched :
    s.what = "secret" /\ s.env = 1 => call.values[s.path].value = s
===============================================================================
