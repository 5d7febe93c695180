----------------------------- MODULE ExportProofs ------------------------------
(***************************************************************************)
(* Theorems about Export, for every number of ancestors, every set of      *)
(* paths and any number of writes during the export.                       *)
(***************************************************************************)
EXTENDS Export, TLAPS

\* The environments whose exports are laid over one another in call.values already.
Covered == {e \in Envs : e <= call.top /\ (call.stage \in {"resolve", "done"} \/ e > call.env)}

\* The history variables bracket what is stored, and a row changes its stamp with its value.
HistoryOK ==
  /\ Current \subseteq seen /\ steady \subseteq Current
  /\ \A e \in Envs, p \in SecretPaths : secret[<<e, p>>] # None => secret[<<e, p>>].stamp <= writes

\* An entry's value was stored; if it is a reference it comes from a config at its path.
IsOf(entry, p) ==
  /\ entry.value \in seen
  /\ entry.value.ref # None => entry.value.what = "config" /\ entry.value.path = p

ValuesOK == \A p \in Paths : call.values[p] # None => IsOf(call.values[p], p)

\* Between the two statements of an environment's export: its configs, as read, with all
\* those that stay.
ConfigsOK ==
  call.stage = "secrets" =>
    /\ \A p \in Paths : call.configs[p] # None =>
         IsOf(call.configs[p], p) /\ call.configs[p].from = call.env
    /\ \A s \in steady : s.what = "config" /\ s.env = call.env => call.configs[s.path] # None

\* What stays in a covered environment stands behind nothing but a nearer environment's.
OverlayOK ==
  \A s \in steady : s.env \in Covered /\ Readable(s) =>
    /\ call.values[s.path] # None
    /\ call.values[s.path].from <= s.env
    /\ s.what = "secret" /\ call.values[s.path].from = s.env /\ ~MayBeReplaced(s.path)
         => call.values[s.path].value = s

ErrorsOK == \A s \in steady : s.env \in Covered /\ ~Readable(s) => Reported(s.path)

\* p's entry is a reference that nothing touched, and no nearer config ever hid it.
StaysReference(p) ==
  LET value == call.values[p].value IN
  /\ call.values[p] # None /\ value.ref # None /\ value \in steady
  /\ \A s \in seen : s.what = "config" /\ s.path = p => s.env >= value.env

\* The references that are done with: those that remain are reported.
RefsOK ==
  /\ call.stage = "resolve" => call.resolve
  /\ call.stage = "resolve" => \A p \in call.todo : call.values[p] # None
  /\ call.stage = "done" /\ call.resolve => call.todo = {}
  /\ call.stage \in {"resolve", "done"} /\ call.resolve =>
       \A p \in Paths \ call.todo : StaysReference(p) => Reported(p)

IInv ==
  /\ TypeOK /\ HistoryOK /\ ValuesOK /\ ConfigsOK /\ OverlayOK /\ ErrorsOK /\ RefsOK

-------------------------------------------------------------------------------
\* What is stored.

\* A row that a reader may be given is a current source.
LEMMA RowIsCurrent ==
  \A e \in Envs : \A p :
    /\ HasConfig(e, p) => ConfigAt(e, p) \in Current
    /\ HasSecret(e, p) => SecretAt(e, p) \in Current
<1>. SUFFICES ASSUME NEW e \in Envs, NEW p
              PROVE  /\ HasConfig(e, p) => ConfigAt(e, p) \in Current
                     /\ HasSecret(e, p) => SecretAt(e, p) \in Current
  OBVIOUS
<1>. DEFINE c == <<e, p>>
<1>1. c[1] = e /\ c[2] = p
  OBVIOUS
<1>2. ASSUME HasConfig(e, p) PROVE ConfigAt(e, p) \in Current
  <2>1. c \in {d \in Envs \X ConfigPaths : config[d] # None /\ config[d].live}
    BY <1>2 DEF HasConfig
  <2>. QED
    BY <1>1, <2>1 DEF Current
<1>3. ASSUME HasSecret(e, p) PROVE SecretAt(e, p) \in Current
  <2>1. c \in {d \in Envs \X SecretPaths : secret[d] # None /\ secret[d].live}
    BY <1>3 DEF HasSecret
  <2>. QED
    BY <1>1, <2>1 DEF Current
<1>. QED
  BY <1>2, <1>3

\* s is what the row at its place says.
Stands(s) ==
  /\ s.env \in Envs
  /\ \/ s.what = "config" /\ HasConfig(s.env, s.path) /\ s = ConfigAt(s.env, s.path)
     \/ s.what = "secret" /\ HasSecret(s.env, s.path) /\ s = SecretAt(s.env, s.path)

\* A current source names its row.
LEMMA CurrentStands == \A x \in Current : Stands(x)
<1>. SUFFICES ASSUME NEW s \in Current PROVE Stands(s)
  OBVIOUS
<1>1. CASE \E c \in {d \in Envs \X ConfigPaths : config[d] # None /\ config[d].live} :
             s = ConfigAt(c[1], c[2])
  <2>1. PICK c \in Envs \X ConfigPaths :
               config[c] # None /\ config[c].live /\ s = ConfigAt(c[1], c[2])
    BY <1>1
  <2>2. c[1] \in Envs /\ c[2] \in ConfigPaths /\ c = <<c[1], c[2]>>
    OBVIOUS
  <2>3. HasConfig(c[1], c[2])
    BY <2>1, <2>2 DEF HasConfig
  <2>4. s.what = "config" /\ s.env = c[1] /\ s.path = c[2]
    BY <2>1 DEF ConfigAt
  <2>. QED
    BY <2>1, <2>2, <2>3, <2>4 DEF Stands
<1>2. CASE \E c \in {d \in Envs \X SecretPaths : secret[d] # None /\ secret[d].live} :
             s = SecretAt(c[1], c[2])
  <2>1. PICK c \in Envs \X SecretPaths :
               secret[c] # None /\ secret[c].live /\ s = SecretAt(c[1], c[2])
    BY <1>2
  <2>2. c[1] \in Envs /\ c[2] \in SecretPaths /\ c = <<c[1], c[2]>>
    OBVIOUS
  <2>3. HasSecret(c[1], c[2])
    BY <2>1, <2>2 DEF HasSecret
  <2>4. s.what = "secret" /\ s.env = c[1] /\ s.path = c[2]
    BY <2>1 DEF SecretAt
  <2>. QED
    BY <2>1, <2>2, <2>3, <2>4 DEF Stands
<1>. QED
  BY <1>1, <1>2 DEF Current

\* Rows of the right types are sources.
LEMMA CurrentTyped ==
  /\ config \in [Envs \X ConfigPaths -> Config \cup {None}]
  /\ secret \in [Envs \X SecretPaths -> Secret \cup {None}]
  => Current \subseteq Source
<1>. SUFFICES ASSUME config \in [Envs \X ConfigPaths -> Config \cup {None}],
                     secret \in [Envs \X SecretPaths -> Secret \cup {None}],
                     NEW s \in Current
              PROVE  s \in Source
  OBVIOUS
<1>1. Stands(s)
  BY CurrentStands
<1>2. CASE s.what = "config"
  <2>1. s.path \in ConfigPaths /\ config[<<s.env, s.path>>] \in Config /\ s = ConfigAt(s.env, s.path)
    BY <1>1, <1>2 DEF Stands, HasConfig
  <2>. QED
    BY <1>1, <2>1 DEF Stands, ConfigAt, Config, Source, Paths
<1>3. CASE s.what = "secret"
  <2>1. s.path \in SecretPaths /\ secret[<<s.env, s.path>>] \in Secret /\ s = SecretAt(s.env, s.path)
    BY <1>1, <1>3 DEF Stands, HasSecret
  <2>. QED
    BY <1>1, <2>1 DEF Stands, SecretAt, Secret, Source, Paths
<1>. QED
  BY <1>1, <1>2, <1>3 DEF Stands

\* An entry put together from a source is not None.
LEMMA EntryIsSome ==
  ASSUME NEW v \in Source, NEW e \in Envs
  PROVE  [value |-> v, from |-> e] \in Entry /\ [value |-> v, from |-> e] # None
BY NoneAssumption DEF Entry

-------------------------------------------------------------------------------
\* Writes.

\* What a write does to the rows: a put gives the row a new stamp, a deletion hides it.
LEMMA WriteEffects ==
  ASSUME IInv, WriteSomething
  PROVE  /\ call' = call /\ seen' = seen \cup Current' /\ steady' = steady \cap Current'
         /\ writes \in Nat /\ writes' = writes + 1 /\ writes' \in Stamps
         /\ config' \in [Envs \X ConfigPaths -> Config \cup {None}]
         /\ secret' \in [Envs \X SecretPaths -> Secret \cup {None}]
         /\ \A e \in Envs, p \in SecretPaths :
              \/ secret'[<<e, p>>] = secret[<<e, p>>]
              \/ secret'[<<e, p>>].stamp = writes + 1
              \/ /\ ~secret'[<<e, p>>].live /\ secret[<<e, p>>] # None
                 /\ secret'[<<e, p>>].stamp = secret[<<e, p>>].stamp
<1>1. /\ config \in [Envs \X ConfigPaths -> Config \cup {None}]
      /\ secret \in [Envs \X SecretPaths -> Secret \cup {None}]
      /\ writes \in 0 .. MaxWrites
  BY DEF IInv, TypeOK, Stamps
<1>2. /\ call' = call /\ seen' = seen \cup Current' /\ steady' = steady \cap Current'
      /\ writes < MaxWrites /\ writes' = writes + 1
  BY DEF WriteSomething, PutConfig, PutSecret, DeleteConfig, DeleteSecret, Write, Note
<1>3. writes \in Nat /\ writes + 1 \in Stamps
  BY <1>1, <1>2, BoundsAssumption DEF Stamps
<1>. DEFINE Ok == /\ config' \in [Envs \X ConfigPaths -> Config \cup {None}]
                  /\ secret' \in [Envs \X SecretPaths -> Secret \cup {None}]
                  /\ \A e \in Envs, p \in SecretPaths :
                       \/ secret'[<<e, p>>] = secret[<<e, p>>]
                       \/ secret'[<<e, p>>].stamp = writes + 1
                       \/ /\ ~secret'[<<e, p>>].live /\ secret[<<e, p>>] # None
                          /\ secret'[<<e, p>>].stamp = secret[<<e, p>>].stamp
<1>4. ASSUME NEW e \in Envs, NEW p \in ConfigPaths, NEW ref \in Targets \cup {None},
             PutConfig(e, p, ref)
      PROVE  Ok
  <2>1. [live |-> TRUE, stamp |-> writes + 1, ref |-> ref] \in Config
    BY <1>3 DEF Config
  <2>. QED
    BY <1>1, <1>4, <2>1 DEF PutConfig
<1>5. ASSUME NEW e \in Envs, NEW p \in SecretPaths, NEW sound \in BOOLEAN, PutSecret(e, p, sound)
      PROVE  Ok
  <2>. DEFINE r == [live |-> TRUE, stamp |-> writes + 1, sound |-> sound]
  <2>1. r \in Secret /\ r.stamp = writes + 1
    BY <1>3 DEF Secret
  <2>2. config' = config /\ secret' = [secret EXCEPT ![<<e, p>>] = r]
    BY <1>5 DEF PutSecret
  <2>3. secret' \in [Envs \X SecretPaths -> Secret \cup {None}]
    BY <1>1, <2>1, <2>2
  <2>4. ASSUME NEW d \in Envs, NEW x \in SecretPaths
        PROVE  secret'[<<d, x>>] = secret[<<d, x>>] \/ secret'[<<d, x>>].stamp = writes + 1
    BY <1>1, <2>1, <2>2
  <2>. QED
    BY <1>1, <2>2, <2>3, <2>4
<1>6. ASSUME NEW e \in Envs, NEW p \in ConfigPaths, DeleteConfig(e, p)
      PROVE  Ok
  <2>. DEFINE r == [config[<<e, p>>] EXCEPT !.live = FALSE]
  <2>1. config[<<e, p>>] \in Config
    BY <1>1, <1>6 DEF DeleteConfig
  <2>2. r \in Config
    BY <2>1 DEF Config
  <2>3. secret' = secret /\ config' = [config EXCEPT ![<<e, p>>] = r]
    BY <1>6 DEF DeleteConfig
  <2>. QED
    BY <1>1, <2>2, <2>3
<1>7. ASSUME NEW e \in Envs, NEW p \in SecretPaths, DeleteSecret(e, p)
      PROVE  Ok
  <2>. DEFINE r == [secret[<<e, p>>] EXCEPT !.live = FALSE]
  <2>1. secret[<<e, p>>] \in Secret /\ secret[<<e, p>>] # None
    BY <1>1, <1>7 DEF DeleteSecret
  <2>2. r \in Secret /\ ~r.live /\ r.stamp = secret[<<e, p>>].stamp
    BY <2>1 DEF Secret
  <2>3. config' = config /\ secret' = [secret EXCEPT ![<<e, p>>] = r]
    BY <1>7 DEF DeleteSecret
  <2>4. secret' \in [Envs \X SecretPaths -> Secret \cup {None}]
    BY <1>1, <2>2, <2>3
  <2>5. ASSUME NEW d \in Envs, NEW x \in SecretPaths
        PROVE  \/ secret'[<<d, x>>] = secret[<<d, x>>]
               \/ /\ ~secret'[<<d, x>>].live /\ secret[<<d, x>>] # None
                  /\ secret'[<<d, x>>].stamp = secret[<<d, x>>].stamp
    <3>1. CASE d = e /\ x = p
      BY <1>1, <2>1, <2>2, <2>3, <3>1
    <3>2. CASE ~(d = e /\ x = p)
      BY <1>1, <2>3, <3>2
    <3>. QED
      BY <3>1, <3>2
  <2>. QED
    BY <1>1, <2>3, <2>4, <2>5
<1>8. Ok
  BY <1>4, <1>5, <1>6, <1>7 DEF WriteSomething
<1>. QED
  BY <1>2, <1>3, <1>8

\* What nobody has touched is as readable as it was: had the row been put again it would
\* have another stamp.
LEMMA SteadyRowsStay ==
  ASSUME IInv, WriteSomething
  PROVE  \A s \in steady' : s \in steady /\ Readable(s)' = Readable(s)
<1>0. (\A x \in Current : Stands(x))'
  BY CurrentStands, PTL
<1>. SUFFICES ASSUME NEW s \in steady'
              PROVE  s \in steady /\ Readable(s)' = Readable(s)
  OBVIOUS
<1>1. s \in steady /\ s \in Current /\ s \in Current'
  BY WriteEffects DEF IInv, HistoryOK
<1>2. Stands(s)
  BY <1>1, CurrentStands
<1>3. Stands(s)'
  BY <1>0, <1>1 DEF Stands, HasConfig, HasSecret, ConfigAt, SecretAt
<1>4. CASE s.what = "config"
  BY <1>1, <1>4 DEF Readable
<1>5. CASE s.what = "secret"
  <2>. DEFINE c == <<s.env, s.path>>
  <2>1. /\ s.env \in Envs /\ s.path \in SecretPaths /\ secret[c] # None
        /\ s.stamp = secret[c].stamp
    BY <1>2, <1>5 DEF Stands, HasSecret, SecretAt
  <2>2. s.stamp = secret'[c].stamp /\ secret'[c].live
    BY <1>3, <1>5 DEF Stands, HasSecret, SecretAt
  <2>3. secret[c].stamp <= writes /\ secret[c].stamp \in Nat
    BY <2>1, BoundsAssumption DEF IInv, HistoryOK, TypeOK, Secret, Stamps
  <2>4. secret'[c] = secret[c]
    BY <2>1, <2>2, <2>3, WriteEffects
  <2>. QED
    BY <1>1, <2>4 DEF Readable
<1>. QED
  BY <1>2, <1>4, <1>5 DEF Stands

LEMMA WriteKeeps == ASSUME IInv, WriteSomething PROVE IInv'
<1>1. call' = call /\ seen \subseteq seen' /\ steady' \subseteq steady
  BY WriteEffects
<1>2. TypeOK'
  <2>1. Current' \subseteq Source
    <3>1. (/\ config \in [Envs \X ConfigPaths -> Config \cup {None}]
           /\ secret \in [Envs \X SecretPaths -> Secret \cup {None}]
           => Current \subseteq Source)'
      BY CurrentTyped, PTL
    <3>. QED
      BY <3>1, WriteEffects
  <2>2. steady' \subseteq seen' /\ seen' \subseteq Source
    BY <1>1, <2>1, WriteEffects DEF IInv, TypeOK
  <2>. QED
    BY <2>2, WriteEffects DEF IInv, TypeOK
<1>3. HistoryOK'
  <2>1. ASSUME NEW e \in Envs, NEW p \in SecretPaths, secret'[<<e, p>>] # None
        PROVE  secret'[<<e, p>>].stamp <= writes'
    <3>1. secret'[<<e, p>>] \in Secret
      BY <2>1, WriteEffects
    <3>2. secret[<<e, p>>] # None => secret[<<e, p>>].stamp <= writes /\ secret[<<e, p>>].stamp \in Nat
      BY BoundsAssumption DEF IInv, HistoryOK, TypeOK, Secret, Stamps
    <3>. QED
      BY <2>1, <3>1, <3>2, WriteEffects
  <2>. QED
    BY <2>1, WriteEffects DEF HistoryOK
<1>4. ValuesOK'
  BY <1>1 DEF IInv, ValuesOK, IsOf
<1>5. ConfigsOK'
  BY <1>1 DEF IInv, ConfigsOK, IsOf
<1>6. OverlayOK'
  <2>1. Covered' = Covered
    BY <1>1 DEF Covered
  <2>2. \A p : ~MayBeReplaced(p)' => ~MayBeReplaced(p)
    BY <1>1 DEF MayBeReplaced
  <2>3. ASSUME NEW s \in steady', s.env \in Covered', Readable(s)'
        PROVE  /\ call'.values[s.path] # None
               /\ call'.values[s.path].from <= s.env
               /\ s.what = "secret" /\ call'.values[s.path].from = s.env /\ ~MayBeReplaced(s.path)'
                    => call'.values[s.path].value = s
    <3>1. s \in steady /\ Readable(s)
      BY <2>3, SteadyRowsStay
    <3>. QED
      BY <1>1, <2>1, <2>2, <2>3, <3>1 DEF IInv, OverlayOK
  <2>. QED
    BY <2>3 DEF OverlayOK, Readable, MayBeReplaced
<1>7. ErrorsOK'
  <2>1. Covered' = Covered
    BY <1>1 DEF Covered
  <2>2. ASSUME NEW s \in steady', s.env \in Covered', ~Readable(s)'
        PROVE  s.path \in call'.errors
    BY <1>1, <2>1, <2>2, SteadyRowsStay DEF IInv, ErrorsOK, Reported
  <2>. QED
    BY <2>2 DEF ErrorsOK, Readable, Reported
<1>8. RefsOK'
  <2>1. \A p : StaysReference(p)' => StaysReference(p)
    BY <1>1 DEF StaysReference
  <2>. QED
    BY <1>1, <2>1 DEF IInv, RefsOK, Reported
<1>. QED
  BY <1>2, <1>3, <1>4, <1>5, <1>6, <1>7, <1>8 DEF IInv

-------------------------------------------------------------------------------
\* The export.

\* A step of the export leaves what is stored, and its history, alone.
LEMMA GoEffects ==
  ASSUME IInv, NEW c \in Call, Go(c)
  PROVE  /\ call' = c /\ UNCHANGED <<config, secret, writes, seen, steady>>
         /\ TypeOK' /\ HistoryOK'
         /\ \A s : Readable(s)' = Readable(s)
         /\ (\A e \in Envs : \A p : HasConfig(e, p) => ConfigAt(e, p) \in seen)
         /\ (\A e \in Envs : \A p : HasSecret(e, p) => SecretAt(e, p) \in seen)
         /\ seen \subseteq Source
<1>1. call' = c /\ UNCHANGED <<config, secret, writes, seen, steady>>
  BY DEF Go
<1>2. TypeOK'
  BY <1>1 DEF IInv, TypeOK
<1>3. Current' = Current
  BY <1>1 DEF Current, ConfigAt, SecretAt
<1>4. HistoryOK'
  BY <1>1, <1>3 DEF IInv, HistoryOK
<1>5. \A s : Readable(s)' = Readable(s)
  BY <1>1 DEF Readable
<1>. QED
  BY <1>1, <1>2, <1>4, <1>5, RowIsCurrent DEF IInv, HistoryOK, TypeOK

\* Steps that change no value and forget no error.
LEMMA ValuesGoOn ==
  ASSUME IInv, NEW c \in Call, Go(c), c.values = call.values, call.errors \subseteq c.errors,
         c.resolve = call.resolve, Covered' \subseteq Covered
  PROVE  ValuesOK' /\ OverlayOK' /\ ErrorsOK'
<1>1. call' = c /\ UNCHANGED <<seen, steady>> /\ \A s : Readable(s)' = Readable(s)
  BY GoEffects
<1>2. ValuesOK'
  BY <1>1 DEF IInv, ValuesOK, IsOf
<1>3. \A p : MayBeReplaced(p)' = MayBeReplaced(p)
  BY <1>1 DEF MayBeReplaced
<1>4. OverlayOK'
  <2>1. ASSUME NEW s \in steady, s.env \in Covered', Readable(s)'
        PROVE  /\ c.values[s.path] # None
               /\ c.values[s.path].from <= s.env
               /\ s.what = "secret" /\ c.values[s.path].from = s.env /\ ~MayBeReplaced(s.path)'
                    => c.values[s.path].value = s
    BY <1>1, <1>3, <2>1 DEF IInv, OverlayOK
  <2>. QED
    BY <1>1, <2>1 DEF OverlayOK, Readable, MayBeReplaced
<1>5. ErrorsOK'
  <2>1. ASSUME NEW s \in steady, s.env \in Covered', ~Readable(s)'
        PROVE  s.path \in c.errors
    BY <1>1, <2>1 DEF IInv, ErrorsOK, Reported
  <2>. QED
    BY <1>1, <2>1 DEF ErrorsOK, Readable, Reported
<1>. QED
  BY <1>2, <1>4, <1>5

\* All configs of the environment are in the bundle after the first statement.
LEMMA ReadConfigsKeeps == ASSUME IInv, ReadConfigs PROVE IInv'
<1>. DEFINE configs == [p \in Paths |->
                          IF HasConfig(call.env, p)
                          THEN [value |-> ConfigAt(call.env, p), from |-> call.env] ELSE None]
            c == [call EXCEPT !.stage = "secrets", !.configs = configs]
<1>1. call.stage = "configs" /\ Go(c) /\ call \in Call
  BY DEF ReadConfigs, IInv, TypeOK
<1>2. /\ call.env \in Envs
      /\ \A p : HasConfig(call.env, p) => ConfigAt(call.env, p) \in Source
  BY <1>1, RowIsCurrent DEF Call, IInv, HistoryOK, TypeOK
<1>3. configs \in Bundle
  BY <1>2, EntryIsSome DEF Bundle
<1>. HIDE DEF configs
<1>4. /\ c \in Call /\ c.stage = "secrets" /\ c.configs = configs
      /\ c.values = call.values /\ c.errors = call.errors /\ c.resolve = call.resolve
      /\ c.env = call.env /\ c.top = call.top
  BY <1>1, <1>3 DEF Call
<1>. HIDE DEF c
<1>5. call' = c /\ UNCHANGED <<seen, steady>> /\ TypeOK' /\ HistoryOK'
  BY <1>1, <1>4, GoEffects
<1>6. Covered' = Covered
  BY <1>1, <1>4, <1>5 DEF Covered
<1>7. ValuesOK' /\ OverlayOK' /\ ErrorsOK'
  BY <1>1, <1>4, <1>6, ValuesGoOn
<1>8. ConfigsOK'
  <2>1. ASSUME NEW p \in Paths, configs[p] # None
        PROVE  IsOf(configs[p], p) /\ configs[p].from = call.env
    <3>1. /\ HasConfig(call.env, p)
          /\ configs[p].value = ConfigAt(call.env, p) /\ configs[p].from = call.env
      BY <2>1 DEF configs
    <3>2. ConfigAt(call.env, p) \in seen
      BY <1>2, <3>1, RowIsCurrent DEF IInv, HistoryOK
    <3>3. ConfigAt(call.env, p).what = "config" /\ ConfigAt(call.env, p).path = p
      BY DEF ConfigAt
    <3>. QED
      BY <3>1, <3>2, <3>3 DEF IsOf
  <2>2. ASSUME NEW s \in steady, s.what = "config", s.env = call.env
        PROVE  configs[s.path] # None
    <3>1. HasConfig(call.env, s.path)
      BY <2>2, CurrentStands DEF IInv, HistoryOK, Stands
    <3>2. s.path \in Paths
      BY <3>1 DEF HasConfig, Paths
    <3>. QED
      BY <1>2, <3>1, <3>2, EntryIsSome DEF configs
  <2>. QED
    BY <1>4, <1>5, <2>1, <2>2 DEF ConfigsOK, IsOf
<1>9. RefsOK'
  BY <1>4, <1>5 DEF RefsOK
<1>. QED
  BY <1>5, <1>7, <1>8, <1>9 DEF IInv

\* What the second statement adds at one path: the environment's secret if the pod can read
\* it, the config read before otherwise, and what was there if there is neither.
LEMMA OverlaidIs ==
  ASSUME IInv, call.stage = "secrets", NEW p \in Paths
  PROVE  /\ Overlaid(p) \in Entry \cup {None}
         /\ Overlaid(p) # None => IsOf(Overlaid(p), p)
         /\ call.values[p] # None => Overlaid(p) # None
         /\ call.configs[p] # None => Overlaid(p) # None /\ Overlaid(p).from = call.env
         /\ IsSound(call.env, p) =>
              /\ Overlaid(p) # None /\ Overlaid(p).from = call.env
              /\ Overlaid(p).value = SecretAt(call.env, p)
         /\ Overlaid(p) = call.values[p] \/ (Overlaid(p) # None /\ Overlaid(p).from = call.env)
<1>. DEFINE x == [value |-> SecretAt(call.env, p), from |-> call.env]
<1>1. call.env \in Envs /\ call.values[p] \in Entry \cup {None} /\ call.configs[p] \in Entry \cup {None}
  BY DEF IInv, TypeOK, Call, Bundle
<1>2. call.configs[p] # None => IsOf(call.configs[p], p) /\ call.configs[p].from = call.env
  BY DEF IInv, ConfigsOK
<1>3. CASE IsSound(call.env, p)
  <2>1. SecretAt(call.env, p) \in seen /\ SecretAt(call.env, p) \in Source
    BY <1>1, <1>3, RowIsCurrent DEF IsSound, IInv, HistoryOK, TypeOK
  <2>2. x \in Entry /\ x # None
    BY <1>1, <2>1, EntryIsSome
  <2>3. Overlaid(p) = x
    BY <1>3, <2>2 DEF Overlaid, Exported
  <2>4. SecretAt(call.env, p).ref = None
    BY DEF SecretAt
  <2>5. x.value = SecretAt(call.env, p) /\ x.from = call.env
    OBVIOUS
  <2>. HIDE DEF x
  <2>6. IsOf(x, p)
    BY <2>1, <2>4, <2>5 DEF IsOf
  <2>. QED
    BY <2>2, <2>3, <2>5, <2>6
<1>4. CASE ~IsSound(call.env, p)
  <2>1. Overlaid(p) = IF call.configs[p] = None THEN call.values[p] ELSE call.configs[p]
    BY <1>4 DEF Overlaid, Exported
  <2>2. call.values[p] # None => IsOf(call.values[p], p)
    BY DEF IInv, ValuesOK
  <2>. QED
    BY <1>1, <1>2, <1>4, <2>1, <2>2
<1>. QED
  BY <1>3, <1>4

\* The environment whose secrets have been read is covered.
LEMMA ReadSecretsKeeps == ASSUME IInv, ReadSecrets PROVE IInv'
<1>. DEFINE values == [p \in Paths |-> Overlaid(p)]
            last == [call EXCEPT !.stage = IF call.resolve THEN "resolve" ELSE "done",
                                 !.values = values, !.errors = Errors,
                                 !.todo = {p \in Paths : values[p] # None}]
            next == [call EXCEPT !.stage = "configs", !.env = @ - 1, !.values = values,
                                 !.errors = Errors]
            c == IF call.env = 1 THEN last ELSE next
<1>1. call.stage = "secrets" /\ Go(c) /\ call \in Call
  BY DEF ReadSecrets, IsLast, IInv, TypeOK
<1>2. call.env \in Envs /\ call.errors \subseteq Paths /\ Depth \in Nat
  BY <1>1, BoundsAssumption DEF Call
<1>3. values \in Bundle /\ \A p \in Paths : values[p] = Overlaid(p)
  BY <1>1, OverlaidIs DEF Bundle
<1>. HIDE DEF values
<1>4. Errors \subseteq Paths /\ call.errors \subseteq Errors
  BY <1>2 DEF Errors
<1>5. c \in Call /\ c.values = values /\ c.errors = Errors /\ c.top = call.top
  <2>1. CASE call.env = 1
    BY <1>1, <1>3, <1>4, <2>1 DEF Call
  <2>2. CASE call.env # 1
    <3>1. call.env - 1 \in Envs
      BY <1>2, <2>2 DEF Envs
    <3>. QED
      BY <1>1, <1>3, <1>4, <2>2, <3>1 DEF Call
  <2>. QED
    BY <2>1, <2>2
<1>6. /\ c.stage \in {"configs", "resolve", "done"}
      /\ c.stage = "configs" => c.env = call.env - 1
      /\ c.stage = "resolve" => c.resolve
      /\ c.stage = "done" => ~c.resolve
      /\ c.stage \in {"resolve", "done"} => call.env = 1 /\ c.todo = {p \in Paths : values[p] # None}
  BY <1>1 DEF Call
<1>. HIDE DEF c
<1>7. /\ call' = c /\ UNCHANGED <<seen, steady>> /\ TypeOK' /\ HistoryOK'
      /\ \A s : Readable(s)' = Readable(s)
  BY <1>1, <1>5, GoEffects
<1>8. \A e \in Covered' : e \in Covered \/ e = call.env
  BY <1>1, <1>2, <1>5, <1>6, <1>7 DEF Covered, Envs
<1>9. \A e \in Covered : e > call.env /\ e \in Nat
  BY <1>1 DEF Covered, Envs
<1>10. \A s \in steady : Stands(s) /\ s.path \in Paths
  BY CurrentStands DEF IInv, HistoryOK, Stands, HasConfig, HasSecret, Paths
<1>11. ValuesOK'
  BY <1>1, <1>3, <1>5, <1>7, OverlaidIs DEF ValuesOK, IsOf
<1>12. ConfigsOK'
  BY <1>6, <1>7 DEF ConfigsOK
<1>13. OverlayOK'
  <2>1. ASSUME NEW s \in steady, s.env \in Covered', Readable(s)
        PROVE  /\ values[s.path] # None
               /\ values[s.path].from <= s.env
               /\ s.what = "secret" /\ values[s.path].from = s.env /\ ~MayBeReplaced(s.path)'
                    => values[s.path].value = s
    <3>. DEFINE p == s.path
    <3>1. Stands(s) /\ p \in Paths /\ values[p] = Overlaid(p) /\ s.env \in Envs
      BY <1>3, <1>10 DEF Stands
    <3>2. CASE s.env = call.env
      <4>1. CASE s.what = "secret"
        <5>1. IsSound(call.env, p) /\ s = SecretAt(call.env, p)
          BY <2>1, <3>1, <3>2, <4>1 DEF Stands, IsSound, Readable
        <5>. QED
          BY <1>1, <1>2, <3>1, <3>2, <5>1, OverlaidIs DEF Envs
      <4>2. CASE s.what = "config"
        <5>1. call.configs[p] # None
          BY <1>1, <3>2, <4>2 DEF IInv, ConfigsOK
        <5>. QED
          BY <1>1, <1>2, <3>1, <3>2, <4>2, <5>1, OverlaidIs DEF Envs
      <4>. QED
        BY <3>1, <4>1, <4>2 DEF Stands
    <3>3. CASE s.env # call.env
      <4>1. s.env \in Covered /\ s.env > call.env /\ s.env \in Nat /\ call.env \in Nat
        BY <1>2, <1>8, <1>9, <2>1, <3>3 DEF Envs
      <4>2. /\ call.values[p] # None /\ call.values[p].from <= s.env
            /\ s.what = "secret" /\ call.values[p].from = s.env /\ ~MayBeReplaced(p)
                 => call.values[p].value = s
        BY <2>1, <4>1 DEF IInv, OverlayOK
      <4>3. MayBeReplaced(p)' = MayBeReplaced(p)
        <5>1. c.resolve = call.resolve
          BY <1>1 DEF c, Call
        <5>. QED
          BY <1>7, <5>1 DEF MayBeReplaced
      <4>4. CASE Overlaid(p) = call.values[p]
        BY <3>1, <4>2, <4>3, <4>4
      <4>5. CASE Overlaid(p) # None /\ Overlaid(p).from = call.env
        BY <3>1, <4>1, <4>5
      <4>. QED
        BY <1>1, <3>1, <4>4, <4>5, OverlaidIs
    <3>. QED
      BY <3>2, <3>3
  <2>. QED
    BY <1>5, <1>7, <2>1 DEF OverlayOK, Readable, MayBeReplaced
<1>14. ErrorsOK'
  <2>1. ASSUME NEW s \in steady, s.env \in Covered', ~Readable(s)
        PROVE  s.path \in Errors
    <3>1. CASE s.env = call.env
      BY <1>10, <2>1, <3>1 DEF Stands, Readable, IsBroken, Errors
    <3>2. CASE s.env # call.env
      BY <1>4, <1>8, <2>1, <3>2 DEF IInv, ErrorsOK, Reported
    <3>. QED
      BY <3>1, <3>2
  <2>. QED
    BY <1>5, <1>7, <2>1 DEF ErrorsOK, Readable, Reported
<1>15. RefsOK'
  BY <1>3, <1>5, <1>6, <1>7 DEF RefsOK, StaysReference
<1>. QED
  BY <1>7, <1>11, <1>12, <1>13, <1>14, <1>15 DEF IInv

\* A reference that stays is the nearest config of its path: the resolving read finds it.
LEMMA StayingRefIsFound ==
  ASSUME IInv, NEW p \in Paths, StaysReference(p)
  PROVE  \E e \in Envs : IsNearest(e, ConfigHolders(p)) /\ config[<<e, p>>].ref # None
<1>. DEFINE v == call.values[p].value
<1>1. /\ call.values[p] # None /\ v.ref # None /\ v \in steady
      /\ \A s \in seen : s.what = "config" /\ s.path = p => s.env >= v.env
  BY DEF StaysReference
<1>2. v.what = "config" /\ v.path = p /\ Stands(v)
  BY <1>1, CurrentStands DEF IInv, ValuesOK, IsOf, HistoryOK
<1>3. HasConfig(v.env, p) /\ v = ConfigAt(v.env, p) /\ v.env \in Envs
  BY <1>2 DEF Stands
<1>4. config[<<v.env, p>>].ref # None
  <2>1. ConfigAt(v.env, p).ref = config[<<v.env, p>>].ref
    BY DEF ConfigAt
  <2>. QED
    BY <1>1, <1>3, <2>1
<1>5. ASSUME NEW d \in ConfigHolders(p) PROVE v.env <= d
  <2>1. d \in Envs /\ ConfigAt(d, p) \in seen
    BY RowIsCurrent DEF ConfigHolders, IInv, HistoryOK
  <2>2. ConfigAt(d, p).what = "config" /\ ConfigAt(d, p).path = p /\ ConfigAt(d, p).env = d
    BY DEF ConfigAt
  <2>3. ConfigAt(d, p).env >= v.env
    BY <1>1, <2>1, <2>2
  <2>. QED
    BY <1>3, <2>1, <2>2, <2>3 DEF Envs
<1>6. IsNearest(v.env, ConfigHolders(p))
  BY <1>3, <1>5 DEF IsNearest, ConfigHolders
<1>. QED
  BY <1>3, <1>4, <1>6

\* One reference is done with; no value changes, and it is reported or was none.
LEMMA LeaveEntryKeeps ==
  ASSUME IInv, call.stage = "resolve", NEW p \in Paths, NEW c \in Call, Go(c),
         (c = Resolved(p) /\ ~StaysReference(p)) \/ c = Dangling(p)
  PROVE  IInv'
<1>1. call \in Call
  BY DEF IInv, TypeOK
<1>2. /\ c.stage = "resolve" /\ c.todo = call.todo \ {p} /\ c.values = call.values
      /\ call.errors \subseteq c.errors /\ c.resolve = call.resolve /\ c.env = call.env
      /\ c.top = call.top /\ (p \in c.errors \/ ~StaysReference(p))
  <2>. DEFINE r == Resolved(p)
  <2>1. /\ r \in Call /\ r.stage = "resolve" /\ r.todo = call.todo \ {p}
        /\ r.values = call.values /\ r.errors = call.errors /\ r.resolve = call.resolve
        /\ r.env = call.env /\ r.top = call.top
    BY <1>1 DEF Resolved, Call
  <2>2. CASE c = r /\ ~StaysReference(p)
    BY <2>1, <2>2
  <2>3. CASE c = Dangling(p)
    <3>1. c = [r EXCEPT !.errors = r.errors \cup {p}]
      BY <2>3 DEF Dangling
    <3>. HIDE DEF r
    <3>. QED
      BY <2>1, <3>1 DEF Call
  <2>. QED
    BY <2>2, <2>3
<1>3. call' = c /\ UNCHANGED <<seen, steady>> /\ TypeOK' /\ HistoryOK'
  BY GoEffects
<1>4. Covered' = Covered
  BY <1>2, <1>3 DEF Covered
<1>5. ValuesOK' /\ OverlayOK' /\ ErrorsOK'
  BY <1>2, <1>4, ValuesGoOn
<1>6. ConfigsOK'
  BY <1>2, <1>3 DEF ConfigsOK
<1>7. RefsOK'
  <2>1. \A q : StaysReference(q)' = StaysReference(q)
    BY <1>2, <1>3 DEF StaysReference
  <2>2. call.resolve /\ \A q \in call.todo : call.values[q] # None
    BY DEF IInv, RefsOK
  <2>3. ASSUME NEW q \in Paths \ c.todo, StaysReference(q) PROVE q \in c.errors
    <3>1. CASE q = p
      BY <1>2, <2>3, <3>1
    <3>2. CASE q # p
      BY <1>2, <2>2, <2>3, <3>2 DEF IInv, RefsOK, Reported
    <3>. QED
      BY <3>1, <3>2
  <2>. QED
    BY <1>2, <1>3, <2>1, <2>2, <2>3 DEF RefsOK, Reported
<1>. QED
  BY <1>3, <1>5, <1>6, <1>7 DEF IInv

\* An entry stays because the nearest config is no reference; so it is none that stayed.
LEMMA KeepEntryKeeps == ASSUME IInv, NEW p \in Paths, KeepEntry(p) PROVE IInv'
<1>1. call.stage = "resolve" /\ Go(Resolved(p)) /\ call \in Call
  BY DEF KeepEntry, IInv, TypeOK
<1>2. Resolved(p) \in Call
  BY <1>1 DEF Resolved, Call
<1>3. ~StaysReference(p)
  BY StayingRefIsFound DEF KeepEntry
<1>. QED
  BY <1>1, <1>2, <1>3, LeaveEntryKeeps

\* The reference's secret takes the entry's place: it was stored, and the path is one that
\* a reference was seen at.
LEMMA ReplaceKeeps ==
  ASSUME IInv, call.stage = "resolve", NEW p \in Paths, p \in call.todo,
         NEW e \in Envs, IsNearest(e, ConfigHolders(p)), config[<<e, p>>].ref # None,
         NEW d \in Envs, NEW target, HasSecret(d, target),
         Go([Resolved(p) EXCEPT !.values[p].value = SecretAt(d, target)])
  PROVE  IInv'
<1>. DEFINE x == [call.values[p] EXCEPT !.value = SecretAt(d, target)]
            values == [call.values EXCEPT ![p] = x]
            c == [call EXCEPT !.todo = @ \ {p}, !.values = values]
<1>1. /\ call \in Call /\ call.resolve /\ call.values[p] # None /\ call.values \in Bundle
      /\ call.values[p] \in Entry
  BY DEF IInv, TypeOK, RefsOK, Call, Bundle
<1>2. SecretAt(d, target) \in seen /\ SecretAt(d, target) \in Source
  BY RowIsCurrent DEF IInv, HistoryOK, TypeOK
<1>3. x \in Entry /\ x.value = SecretAt(d, target) /\ x.from = call.values[p].from
  BY <1>1, <1>2 DEF Entry
<1>4. SecretAt(d, target).ref = None
  BY DEF SecretAt
<1>5. x # None
  BY <1>3, NoneAssumption
<1>6. Go(c)
  BY <1>1 DEF Resolved, Call
<1>. HIDE DEF x
<1>7. /\ values \in Bundle /\ values[p] = x
      /\ \A q \in Paths \ {p} : values[q] = call.values[q]
  BY <1>1, <1>3 DEF Bundle
<1>. HIDE DEF values
<1>8. /\ c \in Call /\ c.stage = "resolve" /\ c.todo = call.todo \ {p} /\ c.values = values
      /\ c.errors = call.errors /\ c.resolve = call.resolve /\ c.env = call.env
      /\ c.top = call.top
  BY <1>1, <1>7 DEF Call
<1>. HIDE DEF c
<1>9. /\ call' = c /\ UNCHANGED <<seen, steady>> /\ TypeOK' /\ HistoryOK'
      /\ \A s : Readable(s)' = Readable(s)
  BY <1>6, <1>8, GoEffects
<1>10. Covered' = Covered
  BY <1>8, <1>9 DEF Covered
<1>11. ValuesOK'
  <2>1. IsOf(x, p)
    BY <1>2, <1>3, <1>4 DEF IsOf
  <2>. QED
    BY <1>7, <1>8, <1>9, <2>1 DEF IInv, ValuesOK, IsOf
<1>12. ConfigsOK'
  BY <1>8, <1>9 DEF ConfigsOK
<1>13. OverlayOK'
  <2>1. MayBeReplaced(p)
    <3>1. HasConfig(e, p)
      BY DEF IsNearest, ConfigHolders
    <3>2. ConfigAt(e, p) \in seen
      BY <3>1, RowIsCurrent DEF IInv, HistoryOK
    <3>3. ConfigAt(e, p).path = p /\ ConfigAt(e, p).ref # None
      BY DEF ConfigAt
    <3>. QED
      BY <1>1, <3>2, <3>3 DEF MayBeReplaced
  <2>2. \A q : MayBeReplaced(q)' = MayBeReplaced(q)
    BY <1>8, <1>9 DEF MayBeReplaced
  <2>3. ASSUME NEW s \in steady, s.env \in Covered, Readable(s)
        PROVE  /\ values[s.path] # None
               /\ values[s.path].from <= s.env
               /\ s.what = "secret" /\ values[s.path].from = s.env /\ ~MayBeReplaced(s.path)
                    => values[s.path].value = s
    <3>1. s.path \in Paths
      BY CurrentStands DEF IInv, HistoryOK, Stands, HasConfig, HasSecret, Paths
    <3>2. CASE s.path = p
      BY <1>3, <1>5, <1>7, <2>1, <2>3, <3>2 DEF IInv, OverlayOK
    <3>3. CASE s.path # p
      BY <1>7, <2>3, <3>1, <3>3 DEF IInv, OverlayOK
    <3>. QED
      BY <3>2, <3>3
  <2>. QED
    BY <1>8, <1>9, <1>10, <2>2, <2>3 DEF OverlayOK, Readable, MayBeReplaced
<1>14. ErrorsOK'
  BY <1>8, <1>9, <1>10 DEF IInv, ErrorsOK, Reported
<1>15. RefsOK'
  <2>1. \A q \in c.todo : values[q] # None
    BY <1>1, <1>5, <1>7, <1>8 DEF IInv, RefsOK, Call
  <2>2. ASSUME NEW q \in Paths \ c.todo, StaysReference(q)' PROVE q \in c.errors
    <3>1. CASE q = p
      <4>1. call'.values[p].value.ref = None
        BY <1>3, <1>4, <1>7, <1>8, <1>9
      <4>. QED
        BY <2>2, <3>1, <4>1 DEF StaysReference
    <3>2. CASE q # p
      <4>1. StaysReference(q)
        BY <1>7, <1>8, <1>9, <2>2, <3>2 DEF StaysReference
      <4>. QED
        BY <1>1, <1>8, <2>2, <3>2, <4>1 DEF IInv, RefsOK, Reported
    <3>. QED
      BY <3>1, <3>2
  <2>. QED
    BY <1>1, <1>8, <1>9, <2>1, <2>2 DEF RefsOK, Reported
<1>. QED
  BY <1>9, <1>11, <1>12, <1>13, <1>14, <1>15 DEF IInv

\* An export that stops hands nothing out, and one that ends has no reference left.
LEMMA StopKeeps ==
  ASSUME IInv, NEW stage \in {"done", "failed"}, Go([call EXCEPT !.stage = stage]),
         stage = "done" => call.stage = "resolve" /\ call.todo = {}
  PROVE  IInv'
<1>. DEFINE c == [call EXCEPT !.stage = stage]
<1>1. call \in Call
  BY DEF IInv, TypeOK
<1>2. /\ c \in Call /\ c.stage = stage /\ c.todo = call.todo /\ c.values = call.values
      /\ c.errors = call.errors /\ c.resolve = call.resolve /\ c.env = call.env
      /\ c.top = call.top
  BY <1>1 DEF Call
<1>3. Go(c)
  OBVIOUS
<1>. HIDE DEF c
<1>4. call' = c /\ UNCHANGED <<seen, steady>> /\ TypeOK' /\ HistoryOK'
  BY <1>2, <1>3, GoEffects
<1>5. Covered' \subseteq Covered
  BY <1>2, <1>4 DEF Covered
<1>6. ValuesOK' /\ OverlayOK' /\ ErrorsOK'
  BY <1>2, <1>3, <1>5, ValuesGoOn
<1>7. ConfigsOK'
  BY <1>2, <1>4 DEF ConfigsOK
<1>8. RefsOK'
  <2>1. \A q : StaysReference(q)' = StaysReference(q)
    BY <1>2, <1>4 DEF StaysReference
  <2>. QED
    BY <1>2, <1>4, <2>1 DEF IInv, RefsOK, Reported
<1>. QED
  BY <1>4, <1>6, <1>7, <1>8 DEF IInv

LEMMA DereferenceKeeps == ASSUME IInv, NEW p \in Paths, Dereference(p) PROVE IInv'
<1>1. call.stage = "resolve" /\ p \in call.todo /\ call \in Call
  BY DEF Dereference, IInv, TypeOK
<1>2. PICK e \in Envs :
        /\ IsNearest(e, ConfigHolders(p)) /\ config[<<e, p>>].ref # None
        /\ LET target == config[<<e, p>>].ref IN
           IF SecretHolders(target, e) = {}
           THEN Go(Dangling(p))
           ELSE \E d \in Envs :
                  /\ IsNearest(d, SecretHolders(target, e))
                  /\ IF IsSound(d, target)
                     THEN Go([Resolved(p) EXCEPT !.values[p].value = SecretAt(d, target)])
                     ELSE Go([call EXCEPT !.stage = "failed"])
  BY DEF Dereference
<1>. DEFINE target == config[<<e, p>>].ref
<1>3. CASE Go(Dangling(p))
  <2>1. Dangling(p) \in Call
    <3>1. Resolved(p) \in Call
      BY <1>1 DEF Resolved, Call
    <3>. QED
      BY <3>1 DEF Dangling, Call
  <2>. QED
    BY <1>1, <1>3, <2>1, LeaveEntryKeeps
<1>4. ASSUME NEW d \in Envs, IsSound(d, target),
             Go([Resolved(p) EXCEPT !.values[p].value = SecretAt(d, target)])
      PROVE  IInv'
  <2>1. HasSecret(d, target)
    BY <1>4 DEF IsSound
  <2>. QED
    BY <1>1, <1>2, <1>4, <2>1, ReplaceKeeps
<1>5. CASE Go([call EXCEPT !.stage = "failed"])
  BY <1>5, StopKeeps
<1>. QED
  BY <1>2, <1>3, <1>4, <1>5

-------------------------------------------------------------------------------
\* The theorems.

\* Before the export nothing is covered, and the histories are what is stored.
LEMMA InitIInv == Init => IInv
<1>. SUFFICES ASSUME Init PROVE IInv
  OBVIOUS
<1>1. PICK effective \in BOOLEAN, resolve \in BOOLEAN :
        LET top == IF effective THEN Depth ELSE 1 IN
        call = [stage |-> "configs", resolve |-> resolve, top |-> top, env |-> top,
                configs |-> NoBundle, values |-> NoBundle, errors |-> {}, todo |-> {}]
  BY DEF Init
<1>. DEFINE top == IF effective THEN Depth ELSE 1
<1>2. top \in Envs
  BY BoundsAssumption DEF Envs
<1>3. /\ call.stage = "configs" /\ call.env = top /\ call.top = top
      /\ call.values = NoBundle /\ call.todo = {} /\ call \in Call
  BY <1>1, <1>2 DEF NoBundle, Bundle, Call
<1>4. /\ config \in [Envs \X ConfigPaths -> Config \cup {None}]
      /\ secret \in [Envs \X SecretPaths -> Secret \cup {None}]
      /\ \A e \in Envs, p \in SecretPaths : secret[<<e, p>>] # None => secret[<<e, p>>].stamp = 0
      /\ writes = 0 /\ seen = Current /\ steady = Current
  BY DEF Init
<1>5. TypeOK
  BY <1>3, <1>4, CurrentTyped, BoundsAssumption DEF TypeOK, Stamps
<1>6. HistoryOK
  BY <1>4 DEF HistoryOK
<1>7. Covered = {}
  BY <1>2, <1>3 DEF Covered, Envs
<1>8. ValuesOK /\ ConfigsOK /\ OverlayOK /\ ErrorsOK
  BY <1>3, <1>7 DEF ValuesOK, ConfigsOK, OverlayOK, ErrorsOK, NoBundle
<1>9. RefsOK
  BY <1>3 DEF RefsOK
<1>. QED
  BY <1>5, <1>6, <1>8, <1>9 DEF IInv

LEMMA NextKeepsIInv == IInv /\ [Next]_vars => IInv'
<1>. SUFFICES ASSUME IInv, [Next]_vars PROVE IInv'
  OBVIOUS
<1>1. CASE UNCHANGED vars
  <2>1. Go(call) /\ call \in Call /\ call' = call /\ UNCHANGED <<seen, steady>>
    BY <1>1 DEF vars, Go, IInv, TypeOK
  <2>2. TypeOK' /\ HistoryOK' /\ Covered' = Covered
    BY <2>1, GoEffects DEF Covered
  <2>3. ValuesOK' /\ OverlayOK' /\ ErrorsOK'
    BY <2>1, <2>2, ValuesGoOn
  <2>4. ConfigsOK' /\ RefsOK'
    BY <2>1 DEF IInv, ConfigsOK, IsOf, RefsOK, StaysReference, Reported
  <2>. QED
    BY <2>2, <2>3, <2>4 DEF IInv
<1>2. CASE WriteSomething
  BY <1>2, WriteKeeps
<1>3. CASE ReadConfigs \/ ReadSecrets
  BY <1>3, ReadConfigsKeeps, ReadSecretsKeeps
<1>4. ASSUME NEW p \in Paths, KeepEntry(p) \/ Dereference(p) PROVE IInv'
  BY <1>4, KeepEntryKeeps, DereferenceKeeps
<1>5. CASE Finish \/ Fail
  BY <1>5, StopKeeps DEF Finish, Fail
<1>. QED
  BY <1>1, <1>2, <1>3, <1>4, <1>5 DEF Next, Quiescent

LEMMA IInvHolds == Spec => []IInv
BY InitIInv, NextKeepsIInv, PTL DEF Spec

\* The variables keep their types; what is steady was seen.
THEOREM TypeCorrect == Spec => []TypeOK
<1>1. IInv => TypeOK
  BY DEF IInv
<1>. QED
  BY <1>1, IInvHolds, PTL

\* However many statements and environments an export reads, and whatever is written in
\* between, each value in it was stored where it says it was.
THEOREM ValuesWereCurrent == Spec => []ExportedWasCurrent
<1>1. IInv => ExportedWasCurrent
  BY DEF IInv, ValuesOK, IsOf, ExportedWasCurrent
<1>. QED
  BY <1>1, IInvHolds, PTL

\* When the export is done every environment of the chain is covered.
LEMMA DoneCoversAll ==
  ASSUME IInv, Done, NEW s \in steady, s.env <= call.top
  PROVE  s.env \in Covered
BY CurrentStands DEF IInv, HistoryOK, Stands, Done, Covered

\* What nobody touches is overlaid as promised, for every depth of the chain.
THEOREM SteadyValuesOverlay == Spec => []SteadyValuesAreOverlaid
<1>1. IInv => SteadyValuesAreOverlaid
  BY DoneCoversAll DEF IInv, OverlayOK, SteadyValuesAreOverlaid, Untouched
<1>. QED
  BY <1>1, IInvHolds, PTL

\* A secret that no pod can decrypt is reported, however far up the chain it is.
THEOREM NothingDropped == Spec => []NothingIsDroppedSilently
<1>1. IInv => NothingIsDroppedSilently
  BY DoneCoversAll DEF IInv, ErrorsOK, NothingIsDroppedSilently, Unreadable
<1>. QED
  BY <1>1, IInvHolds, PTL

\* A reference that stays and names nothing is reported.
THEOREM DanglingAlwaysReported == Spec => []DanglingIsReported
<1>1. IInv => DanglingIsReported
  BY DEF IInv, RefsOK, StaysReference, DanglingIsReported, Done
<1>. QED
  BY <1>1, IInvHolds, PTL

\* References are all that takes a secret's place: without resolve_refs an environment's
\* own secret, if nobody touches it, is what the export hands out for its path.
THEOREM OwnSecretsWinUnresolved == Spec => [](~call.resolve => OwnSecretsWin)
<1>1. IInv => (~call.resolve => OwnSecretsWin)
  <2>. SUFFICES ASSUME IInv, ~call.resolve, Done, NEW s \in Untouched, s.what = "secret", s.env = 1
                PROVE  call.values[s.path].value = s
    BY DEF OwnSecretsWin
  <2>1. /\ call.values[s.path] # None /\ call.values[s.path].from <= 1
        /\ call.values[s.path].from = 1 => call.values[s.path].value = s
    BY DoneCoversAll DEF Untouched, IInv, OverlayOK, MayBeReplaced
  <2>2. s.path \in Paths
    BY CurrentStands DEF Untouched, IInv, HistoryOK, Stands, HasConfig, HasSecret, Paths
  <2>3. call.values[s.path] \in Entry
    BY <2>1, <2>2 DEF IInv, TypeOK, Call, Bundle
  <2>4. call.values[s.path].from = 1
    BY <2>1, <2>3, BoundsAssumption DEF Entry, Envs
  <2>. QED
    BY <2>1, <2>4
<1>. QED
  BY <1>1, IInvHolds, PTL
===============================================================================
