------------------------- MODULE EnvInheritanceProofs -------------------------
(***************************************************************************)
(* Theorems about EnvInheritance, for every set of projects and readers    *)
(* and every bound on depth, environments and writes.                      *)
(***************************************************************************)
EXTENDS EnvInheritance, TLAPS

\* Parents exist and are of the same project.
ForestOK ==
  \A e \in DOMAIN envs :
    LET p == envs[e].parent IN
    p # 0 => p \in DOMAIN envs /\ envs[p].project = envs[e].project

AbsentIsEmpty == \A e \in EnvIds : config[e].state = "absent" => config[e].versions = <<>>

\* The path is a chain of parent links that starts in the project asked for.
WalkOK(rd) ==
  /\ rd.env \in DOMAIN envs
  /\ Len(rd.path) \in 1..(MaxDepth + 1)
  /\ rd.stage = "climb" => Len(rd.path) <= MaxDepth
  /\ \A i \in DOMAIN rd.path :
       /\ rd.path[i] \in DOMAIN envs
       /\ envs[rd.path[i]].project = envs[rd.env].project
       /\ i > 1 => rd.path[i] = envs[rd.path[i-1]].parent
  /\ rd.source # 0 => rd.what = "secret" /\ rd.source = rd.path[1]

\* What e had is deleted, and stays so.
Gone(what, e) == IF what = "config" THEN config[e].state = "deleted" ELSE secret[e] = "deleted"

HadOK(rd) == \A e \in rd.had : Holds(rd.what, e, rd.version) \/ Gone(rd.what, e)

Missed(rd) == rd.answer \in {"miss", "dangling"}

\* The environments the walk has been to do not hold the value.
PassedOK(rd) ==
  \A i \in DOMAIN rd.path :
    i < Len(rd.path) \/ rd.stage = "climb" \/ Missed(rd) => rd.path[i] \notin Steady(rd)

\* A miss ends at a root.
RootOK(rd) == Missed(rd) /\ ~RowSecurity => envs[At(rd)].parent = 0

ReadInv(rd) ==
  /\ rd.stage = "idle" => rd = NoRead
  /\ rd.answer # "none" => rd.stage = "done"
  /\ rd.stage # "idle" => WalkOK(rd) /\ HadOK(rd) /\ PassedOK(rd) /\ RootOK(rd)

IInv ==
  /\ TypeOK /\ ForestOK /\ ChainsEnd /\ AbsentIsEmpty /\ ConfigPointerNamesAVersion
  /\ \A r \in Readers : ReadInv(read[r])

-------------------------------------------------------------------------------
\* Types.

\* Environments are among the ids.
LEMMA EnvsAreIds == TypeOK => DOMAIN envs \subseteq EnvIds /\ DOMAIN envs = 1..Len(envs)
BY BoundsAssumption DEF TypeOK, EnvIds

\* The initial key is well typed.
LEMMA NoKeyType == NoKey \in Key
BY DEF NoKey, Key, States

\* Likewise for a read.
LEMMA NoReadType == NoRead \in Read
BY DEF NoRead, Read

\* Init is well typed.
LEMMA InitType == Init => TypeOK
<1>. SUFFICES ASSUME Init PROVE TypeOK
  OBVIOUS
<1>1. NoKey \in Key
  BY NoKeyType
<1>2. NoRead \in Read
  BY NoReadType
<1>3. envs \in Seq(Env) /\ Len(envs) <= MaxEnvs
  BY BoundsAssumption DEF Init
<1>. QED
  BY <1>1, <1>2, <1>3 DEF Init, TypeOK, States

\* A new environment is well typed.
LEMMA CreateType ==
  ASSUME TypeOK, NEW project \in Projects, NEW parent \in {0} \cup DOMAIN envs,
         CreateEnvironment(project, parent)
  PROVE  TypeOK'
<1>1. [project |-> project, parent |-> parent] \in Env
  BY DEF Env, TypeOK
<1>2. envs' \in Seq(Env) /\ Len(envs') = Len(envs) + 1
  BY <1>1 DEF TypeOK, CreateEnvironment
<1>. QED
  BY <1>2, BoundsAssumption DEF TypeOK, CreateEnvironment

\* A written key is well typed.
LEMMA WriteKeyType ==
  ASSUME TypeOK, NEW e \in EnvIds, NEW key \in Key, WriteKey(e, key)
  PROVE  TypeOK'
BY DEF TypeOK, WriteKey, Write

\* Every write keeps the types.
LEMMA WriteType == TypeOK /\ WriteSomething => TypeOK'
<1>. SUFFICES ASSUME TypeOK, NEW e \in DOMAIN envs,
                     \/ PutHeader(e) \/ DeleteConfig(e) \/ PutSecret(e) \/ DeleteSecret(e)
                     \/ \E type \in Types : PutConfig(e, type)
                     \/ \E v \in 0..MaxWrites : RollbackConfig(e, v)
              PROVE  TypeOK'
  BY DEF WriteSomething
<1>0. e \in EnvIds
  BY EnvsAreIds
<1>00. config[e] \in Key
  BY <1>0 DEF TypeOK
<1>1. CASE PutHeader(e)
  <2>1. [NoKey EXCEPT !.state = "live"] \in Key
    BY NoKeyType DEF Key, States
  <2>. QED
    BY <1>0, <1>1, <2>1, WriteKeyType DEF PutHeader
<1>2. CASE DeleteConfig(e)
  <2>1. [config[e] EXCEPT !.state = "deleted"] \in Key
    BY <1>00 DEF Key, States
  <2>. QED
    BY <1>0, <1>2, <2>1, WriteKeyType DEF DeleteConfig
<1>3. CASE PutSecret(e) \/ DeleteSecret(e)
  BY <1>0, <1>3 DEF PutSecret, DeleteSecret, Write, TypeOK, States
<1>4. ASSUME NEW type \in Types, PutConfig(e, type)
      PROVE  TypeOK'
  <2>1. [state |-> "live", current |-> config[e].current + 1,
         versions |-> Append(config[e].versions, type)] \in Key
    BY <1>00 DEF Key, States
  <2>. QED
    BY <1>0, <1>4, <2>1, WriteKeyType DEF PutConfig
<1>5. ASSUME NEW v \in 0..MaxWrites, RollbackConfig(e, v)
      PROVE  TypeOK'
  <2>1. [config[e] EXCEPT !.current = v] \in Key
    BY <1>00, BoundsAssumption DEF Key
  <2>. QED
    BY <1>0, <1>5, <2>1, WriteKeyType DEF RollbackConfig
<1>. QED
  BY <1>1, <1>2, <1>3, <1>4, <1>5

\* Setting a well typed read keeps the types.
LEMMA SetType ==
  ASSUME TypeOK, NEW r \in Readers, NEW rd \in Read, Set(r, rd)
  PROVE  TypeOK'
BY DEF TypeOK, Set

\* An answer is a well typed read.
LEMMA AnswerType ==
  ASSUME TypeOK, NEW r \in Readers,
         NEW answer \in {"none", "value", "miss", "dangling", "error"}, Answer(r, answer)
  PROVE  TypeOK'
<1>1. [read[r] EXCEPT !.stage = "done", !.answer = answer] \in Read
  BY DEF TypeOK, Read
<1>. QED
  BY <1>1, SetType DEF Answer

\* The last environment of a path is one of them.
LEMMA AtIsAnEnv ==
  ASSUME NEW rd \in Read, Len(rd.path) >= 1
  PROVE  At(rd) \in EnvIds /\ At(rd) = rd.path[Len(rd.path)] /\ Len(rd.path) \in DOMAIN rd.path
BY DEF Read, At

\* Every step of a read keeps the types.
LEMMA ReadType ==
  ASSUME TypeOK, ForestOK, NEW r \in Readers, ReadInv(read[r]), ReadStep(r)
  PROVE  TypeOK'
<1>. DEFINE rd == read[r]
<1>0. rd \in Read
  BY DEF TypeOK
<1>00. rd.stage # "idle" => Len(rd.path) >= 1 /\ At(rd) \in DOMAIN envs /\ At(rd) \in EnvIds
  BY <1>0, AtIsAnEnv DEF ReadInv, WalkOK
<1>1. CASE Begin(r)
  <2>1. PICK e \in DOMAIN envs, what \in {"config", "secret"}, v \in 0..MaxWrites,
             resolve \in BOOLEAN :
          Set(r, [NoRead EXCEPT !.stage = "probe", !.what = what, !.env = e, !.version = v,
                                !.resolve = resolve, !.path = <<e>>, !.had = Holders(what, v),
                                !.own = what = "config" /\ HasConfig(e, 0)])
    BY <1>1 DEF Begin
  <2>2. e \in EnvIds /\ Holders(what, v) \subseteq EnvIds
    BY EnvsAreIds DEF Holders
  <2>3. (what = "config" /\ HasConfig(e, 0)) \in BOOLEAN
    OBVIOUS
  <2>4. [NoRead EXCEPT !.stage = "probe", !.what = what, !.env = e, !.version = v,
                       !.resolve = resolve, !.path = <<e>>, !.had = Holders(what, v),
                       !.own = what = "config" /\ HasConfig(e, 0)] \in Read
    <3>1. <<e>> \in Seq(EnvIds)
      BY <2>2
    <3>2. v \in Nat
      BY BoundsAssumption
    <3>. QED
      BY <2>2, <2>3, <3>1, <3>2, NoReadType DEF Read
  <2>. QED
    BY <2>1, <2>4, SetType
<1>2. CASE ProbeHit(r)
  <2>1. CASE rd.what = "config" /\ rd.resolve /\ IsRef(rd)
    <3>1. [rd EXCEPT !.what = "secret", !.source = At(rd), !.path = <<RefEnv(rd)>>,
                     !.had = Holders("secret", 0)] \in Read
      <4>1. At(rd) \in EnvIds /\ <<RefEnv(rd)>> \in Seq(EnvIds)
        BY <1>00, <1>2 DEF ProbeHit, RefEnv
      <4>2. Holders("secret", 0) \in SUBSET EnvIds
        BY DEF Holders
      <4>. QED
        BY <1>0, <4>1, <4>2 DEF Read
    <3>. QED
      BY <1>2, <2>1, <3>1, SetType DEF ProbeHit
  <2>2. CASE ~(rd.what = "config" /\ rd.resolve /\ IsRef(rd))
    BY <1>2, <2>2, AnswerType DEF ProbeHit
  <2>. QED
    BY <2>1, <2>2
<1>3. CASE ProbeMiss(r)
  <2>1. [rd EXCEPT !.stage = "climb"] \in Read
    BY <1>0 DEF Read
  <2>. QED
    BY <1>3, <2>1, SetType, AnswerType DEF ProbeMiss, Miss
<1>4. CASE Climb(r)
  <2>. DEFINE parent == IF RowSecurity THEN 0 ELSE envs[At(rd)].parent
  <2>1. CASE parent = 0
    BY <1>4, <2>1, AnswerType DEF Climb, Miss
  <2>2. CASE parent # 0
    <3>1. parent \in EnvIds
      BY <1>00, <1>4, <2>2, EnvsAreIds DEF ForestOK, Climb
    <3>2. [rd EXCEPT !.stage = "probe", !.path = Append(rd.path, parent)] \in Read
      <4>1. Append(rd.path, parent) \in Seq(EnvIds)
        BY <1>0, <3>1 DEF Read
      <4>. QED
        BY <1>0, <4>1 DEF Read
    <3>. QED
      BY <1>4, <2>2, <3>2, SetType DEF Climb
  <2>. QED
    BY <2>1, <2>2
<1>5. CASE Fail(r)
  BY <1>5, AnswerType DEF Fail
<1>6. CASE Return(r)
  <2>1. NoRead \in Read
    BY DEF Read, NoRead
  <2>. QED
    BY <1>6, <2>1, SetType DEF Return
<1>. QED
  BY <1>1, <1>2, <1>3, <1>4, <1>5, <1>6 DEF ReadStep

-------------------------------------------------------------------------------
\* The forest.

\* Parents are environments.
LEMMA ParentsExist == TypeOK /\ ForestOK => Parents \subseteq DOMAIN envs
BY DEF ForestOK, Parents

\* A new environment leaves the others as they are, and is nobody's parent.
LEMMA CreateExtends ==
  ASSUME TypeOK, ForestOK, NEW project \in Projects, NEW parent \in {0} \cup DOMAIN envs,
         CreateEnvironment(project, parent)
  PROVE  /\ DOMAIN envs' = DOMAIN envs \cup {Len(envs) + 1}
         /\ Len(envs) + 1 \notin DOMAIN envs
         /\ \A e \in DOMAIN envs : envs'[e] = envs[e]
         /\ envs'[Len(envs) + 1] = [project |-> project, parent |-> parent]
         /\ Parents' \subseteq DOMAIN envs
<1>1. [project |-> project, parent |-> parent] \in Env /\ envs \in Seq(Env)
  BY DEF Env, TypeOK
<1>2. /\ DOMAIN envs' = DOMAIN envs \cup {Len(envs) + 1}
      /\ Len(envs) + 1 \notin DOMAIN envs
      /\ \A e \in DOMAIN envs : envs'[e] = envs[e]
      /\ envs'[Len(envs) + 1] = [project |-> project, parent |-> parent]
  BY <1>1 DEF CreateEnvironment
<1>3. ASSUME NEW x \in Parents'
      PROVE  x \in DOMAIN envs
  <2>1. PICK e \in DOMAIN envs' : x = envs'[e].parent /\ x # 0
    BY DEF Parents
  <2>2. CASE e \in DOMAIN envs
    BY <1>2, <2>1, <2>2 DEF ForestOK
  <2>3. CASE e = Len(envs) + 1
    BY <1>2, <2>1, <2>3
  <2>. QED
    BY <1>2, <2>1, <2>2, <2>3
<1>. QED
  BY <1>2, <1>3

\* A new environment has an older parent of its own project.
LEMMA CreateForest ==
  ASSUME TypeOK, ForestOK, NEW project \in Projects, NEW parent \in {0} \cup DOMAIN envs,
         CreateEnvironment(project, parent)
  PROVE  ForestOK'
<1>. DEFINE n == Len(envs) + 1
<1>1. /\ DOMAIN envs' = DOMAIN envs \cup {n} /\ n \notin DOMAIN envs
      /\ \A e \in DOMAIN envs : envs'[e] = envs[e]
      /\ envs'[n] = [project |-> project, parent |-> parent]
  BY CreateExtends
<1>. SUFFICES ASSUME NEW e \in DOMAIN envs', envs'[e].parent # 0
              PROVE  /\ envs'[e].parent \in DOMAIN envs'
                     /\ envs'[envs'[e].parent].project = envs'[e].project
  BY DEF ForestOK
<1>2. CASE e \in DOMAIN envs
  BY <1>1, <1>2 DEF ForestOK
<1>3. CASE e = n
  <2>1. parent \in DOMAIN envs /\ envs[parent].project = project
    BY <1>1, <1>3 DEF CreateEnvironment, ParentOk
  <2>. QED
    BY <1>1, <1>3, <2>1
<1>. QED
  BY <1>1, <1>2, <1>3

\* The depth check keeps every chain within what a walk visits.
LEMMA CreateChains ==
  ASSUME TypeOK, ForestOK, ChainsEnd,
         NEW project \in Projects, NEW parent \in {0} \cup DOMAIN envs,
         CreateEnvironment(project, parent)
  PROVE  ChainsEnd'
<1>. DEFINE n == Len(envs) + 1
            Link(c, e, k) == \A i \in 1..k : c[i] = envs[IF i = 1 THEN e ELSE c[i-1]].parent
<1>0. MaxDepth \in Nat
  BY DepthAssumption
<1>1. /\ DOMAIN envs' = DOMAIN envs \cup {n} /\ n \notin DOMAIN envs
      /\ \A e \in DOMAIN envs : envs'[e] = envs[e]
      /\ envs'[n] = [project |-> project, parent |-> parent]
      /\ Parents' \subseteq DOMAIN envs
  BY CreateExtends
<1>. SUFFICES ASSUME NEW e \in DOMAIN envs', NEW c \in [1..(MaxDepth + 1) -> Parents'],
                     \A i \in 1..(MaxDepth + 1) :
                       c[i] = envs'[IF i = 1 THEN e ELSE c[i-1]].parent
              PROVE  FALSE
  BY DEF ChainsEnd, HasAncestors
<1>2. \A i \in 1..(MaxDepth + 1) : c[i] \in DOMAIN envs /\ c[i] # 0
  BY <1>1 DEF Parents
<1>3. \A i \in 2..(MaxDepth + 1) : c[i-1] \in DOMAIN envs /\ c[i] = envs[c[i-1]].parent
  BY <1>0, <1>1, <1>2
<1>4. CASE e \in DOMAIN envs
  <2>1. Link(c, e, MaxDepth + 1)
    BY <1>0, <1>1, <1>3, <1>4
  <2>2. ASSUME NEW i \in 1..(MaxDepth + 1)
        PROVE  c[i] \in Parents
    <3>1. \E x \in DOMAIN envs : c[i] = envs[x].parent
      <4>1. CASE i = 1
        BY <1>4, <2>1, <4>1
      <4>2. CASE i # 1
        <5>1. i \in 2..(MaxDepth + 1)
          BY <1>0, <4>2
        <5>. QED
          BY <1>3, <5>1
      <4>. QED
        BY <4>1, <4>2
    <3>. QED
      BY <1>2, <3>1 DEF Parents
  <2>3. c \in [1..(MaxDepth + 1) -> Parents]
    BY <2>2
  <2>. QED
    BY <1>4, <2>1, <2>3 DEF ChainsEnd, HasAncestors
<1>5. CASE e = n
  <2>. DEFINE d == [i \in 1..MaxDepth |-> c[i+1]]
  <2>1. c[1] = parent /\ parent # 0 /\ parent \in DOMAIN envs
    BY <1>0, <1>1, <1>2, <1>5
  <2>2. ASSUME NEW i \in 1..MaxDepth
        PROVE  c[i+1] = envs[c[i]].parent /\ c[i] \in DOMAIN envs /\ c[i+1] # 0
    <3>. DEFINE j == i + 1
    <3>1. j \in 1..(MaxDepth + 1) /\ j \in 2..(MaxDepth + 1) /\ j - 1 = i
      BY <1>0
    <3>2. c[j-1] \in DOMAIN envs /\ c[j] = envs[c[j-1]].parent /\ c[j] # 0
      BY <1>2, <1>3, <3>1
    <3>. QED
      BY <3>1, <3>2
  <2>3. \A i \in 1..MaxDepth : d[i] \in Parents
    BY <2>2 DEF Parents
  <2>4. d \in [1..MaxDepth -> Parents]
    BY <2>3
  <2>5. ASSUME NEW i \in 1..MaxDepth
        PROVE  d[i] = envs[IF i = 1 THEN parent ELSE d[i-1]].parent
    <3>1. CASE i = 1
      BY <2>1, <2>2, <3>1
    <3>2. CASE i # 1
      <4>1. i - 1 \in 1..MaxDepth /\ d[i-1] = c[i]
        BY <1>0, <3>2
      <4>. QED
        BY <2>2, <3>2, <4>1
    <3>. QED
      BY <3>1, <3>2
  <2>6. HasAncestors(parent, MaxDepth)
    BY <2>4, <2>5 DEF HasAncestors
  <2>. QED
    BY <2>1, <2>6 DEF CreateEnvironment, DepthOk
<1>. QED
  BY <1>1, <1>4, <1>5

-------------------------------------------------------------------------------
\* The keys.

\* Writing a key that is well formed keeps all keys so.
LEMMA WriteKeyInv ==
  ASSUME TypeOK, AbsentIsEmpty, ConfigPointerNamesAVersion,
         NEW e \in EnvIds, NEW key, WriteKey(e, key),
         key.state # "absent",
         IF key.versions = <<>> THEN key.current = 0 ELSE key.current \in DOMAIN key.versions
  PROVE  AbsentIsEmpty' /\ ConfigPointerNamesAVersion'
BY DEF TypeOK, WriteKey, Write, AbsentIsEmpty, ConfigPointerNamesAVersion

\* What is found in a key goes on being found until the key is deleted, for good.
KeyGoesOn(e) ==
  /\ config[e].state = "deleted" => config'[e].state = "deleted"
  /\ \A v \in Nat : HasConfig(e, v) => HasConfig(e, v)' \/ config'[e].state = "deleted"

\* Likewise for a secret.
SecretGoesOn(e) ==
  secret[e] \in {"live", "deleted"} => secret'[e] = secret[e] \/ secret'[e] = "deleted"

\* Every write keeps the keys well formed, and takes nothing away but by deletion.
LEMMA WriteInv ==
  ASSUME TypeOK, AbsentIsEmpty, ConfigPointerNamesAVersion, WriteSomething
  PROVE  /\ AbsentIsEmpty' /\ ConfigPointerNamesAVersion'
         /\ \A x \in EnvIds : KeyGoesOn(x) /\ SecretGoesOn(x)
         /\ UNCHANGED <<envs, read>>
<1>. SUFFICES ASSUME NEW e \in DOMAIN envs,
                     \/ PutHeader(e) \/ DeleteConfig(e) \/ PutSecret(e) \/ DeleteSecret(e)
                     \/ \E type \in Types : PutConfig(e, type)
                     \/ \E v \in 0..MaxWrites : RollbackConfig(e, v)
              PROVE  /\ AbsentIsEmpty' /\ ConfigPointerNamesAVersion'
                     /\ \A x \in EnvIds : KeyGoesOn(x) /\ SecretGoesOn(x)
                     /\ UNCHANGED <<envs, read>>
  BY DEF WriteSomething
<1>. DEFINE key == config[e]
<1>0. e \in EnvIds
  BY EnvsAreIds
<1>00. key \in Key /\ key.versions \in Seq(Types) /\ key.current \in Nat
  BY <1>0 DEF TypeOK, Key
<1>01. IF key.versions = <<>> THEN key.current = 0 ELSE key.current \in DOMAIN key.versions
  BY <1>0 DEF ConfigPointerNamesAVersion
<1>1. CASE PutHeader(e)
  <2>. DEFINE new == [NoKey EXCEPT !.state = "live"]
  <2>1. WriteKey(e, new) /\ key.state = "absent" /\ key.versions = <<>>
    BY <1>0, <1>1 DEF PutHeader, AbsentIsEmpty
  <2>2. new.state = "live" /\ new.versions = <<>> /\ new.current = 0
    BY DEF NoKey
  <2>3. \A v \in Nat : ~HasConfig(e, v)
    BY <2>1 DEF HasConfig
  <2>4. \A x \in EnvIds : KeyGoesOn(x) /\ SecretGoesOn(x)
    BY <2>1, <2>3, <1>0 DEF WriteKey, Write, KeyGoesOn, SecretGoesOn, HasConfig, Wanted, TypeOK
  <2>. QED
    BY <1>0, <2>1, <2>2, <2>4, WriteKeyInv DEF WriteKey, Write
<1>2. CASE DeleteConfig(e)
  <2>. DEFINE new == [key EXCEPT !.state = "deleted"]
  <2>1. WriteKey(e, new)
    BY <1>2 DEF DeleteConfig
  <2>2. new.state = "deleted" /\ new.versions = key.versions /\ new.current = key.current
    BY <1>00 DEF Key
  <2>3. config' = [config EXCEPT ![e] = new] /\ secret' = secret
    BY <2>1 DEF WriteKey
  <2>4. \A x \in EnvIds : KeyGoesOn(x) /\ SecretGoesOn(x)
    BY <1>0, <2>2, <2>3 DEF KeyGoesOn, SecretGoesOn, HasConfig, Wanted, TypeOK
  <2>. QED
    BY <1>0, <1>01, <2>1, <2>2, <2>4, WriteKeyInv DEF WriteKey, Write
<1>3. CASE PutSecret(e) \/ DeleteSecret(e)
  <2>1. UNCHANGED <<config, envs, read>>
    BY <1>3 DEF PutSecret, DeleteSecret, Write
  <2>2. \A x \in EnvIds : SecretGoesOn(x)
    BY <1>0, <1>3 DEF PutSecret, DeleteSecret, SecretGoesOn, TypeOK
  <2>3. \A x \in EnvIds : KeyGoesOn(x)
    BY <2>1 DEF KeyGoesOn, HasConfig, Wanted
  <2>. QED
    BY <2>1, <2>2, <2>3 DEF AbsentIsEmpty, ConfigPointerNamesAVersion
<1>4. ASSUME NEW type \in Types, PutConfig(e, type)
      PROVE  /\ AbsentIsEmpty' /\ ConfigPointerNamesAVersion'
             /\ \A x \in EnvIds : KeyGoesOn(x) /\ SecretGoesOn(x)
             /\ UNCHANGED <<envs, read>>
  <2>. DEFINE new == [state |-> "live", current |-> key.current + 1,
                      versions |-> Append(key.versions, type)]
  <2>1. WriteKey(e, new) /\ key.state # "deleted" /\ key.current = Len(key.versions)
    BY <1>4 DEF PutConfig
  <2>2. /\ new.state = "live" /\ new.versions # <<>>
        /\ DOMAIN new.versions = 1..(Len(key.versions) + 1)
        /\ DOMAIN key.versions = 1..Len(key.versions)
        /\ new.current = Len(key.versions) + 1 /\ new.current \in DOMAIN new.versions
    BY <1>00, <2>1
  <2>3. config' = [config EXCEPT ![e] = new] /\ secret' = secret
    BY <2>1 DEF WriteKey
  <2>4. config'[e] = new /\ \A x \in EnvIds : x # e => config'[x] = config[x]
    BY <1>0, <2>3 DEF TypeOK
  <2>5. KeyGoesOn(e)
    BY <2>1, <2>2, <2>4, <1>00 DEF KeyGoesOn, HasConfig, Wanted
  <2>6. \A x \in EnvIds : KeyGoesOn(x) /\ SecretGoesOn(x)
    BY <2>3, <2>4, <2>5 DEF KeyGoesOn, SecretGoesOn, HasConfig, Wanted
  <2>. QED
    BY <1>0, <2>1, <2>2, <2>6, WriteKeyInv DEF WriteKey, Write
<1>5. ASSUME NEW v \in 0..MaxWrites, RollbackConfig(e, v)
      PROVE  /\ AbsentIsEmpty' /\ ConfigPointerNamesAVersion'
             /\ \A x \in EnvIds : KeyGoesOn(x) /\ SecretGoesOn(x)
             /\ UNCHANGED <<envs, read>>
  <2>. DEFINE new == [key EXCEPT !.current = v]
  <2>1. WriteKey(e, new) /\ key.state = "live" /\ v \in DOMAIN key.versions
    BY <1>5 DEF RollbackConfig
  <2>2. new.state = "live" /\ new.versions = key.versions /\ new.current = v
    BY <1>00, <2>1 DEF Key
  <2>3. config' = [config EXCEPT ![e] = new] /\ secret' = secret
    BY <2>1 DEF WriteKey
  <2>4. config'[e] = new /\ \A x \in EnvIds : x # e => config'[x] = config[x]
    BY <1>0, <2>3 DEF TypeOK
  <2>5. KeyGoesOn(e)
    BY <2>1, <2>2, <2>4, <1>00 DEF KeyGoesOn, HasConfig, Wanted
  <2>6. \A x \in EnvIds : KeyGoesOn(x) /\ SecretGoesOn(x)
    BY <2>3, <2>4, <2>5 DEF KeyGoesOn, SecretGoesOn, HasConfig, Wanted
  <2>7. key.versions # <<>>
    BY <1>00, <2>1
  <2>. QED
    BY <1>0, <2>1, <2>2, <2>6, <2>7, WriteKeyInv DEF WriteKey, Write
<1>. QED
  BY <1>1, <1>2, <1>3, <1>4, <1>5

-------------------------------------------------------------------------------
\* The walks.

\* A walk of full length has come to a root.
LEMMA FullWalkEnds ==
  ASSUME TypeOK, ForestOK, ChainsEnd, NEW rd \in Read, WalkOK(rd), Len(rd.path) = MaxDepth + 1
  PROVE  envs[At(rd)].parent = 0
<1>. DEFINE p == rd.path
            c == [i \in 1..(MaxDepth + 1) |-> IF i <= MaxDepth THEN p[i+1] ELSE envs[At(rd)].parent]
<1>0. MaxDepth \in Nat /\ DOMAIN p = 1..(MaxDepth + 1) /\ At(rd) = p[MaxDepth + 1]
  BY DepthAssumption DEF Read, At
<1>. SUFFICES ASSUME envs[At(rd)].parent # 0
              PROVE  FALSE
  OBVIOUS
<1>1. \A i \in 1..(MaxDepth + 1) : p[i] \in DOMAIN envs
  BY <1>0 DEF WalkOK
<1>2. \A i \in 1..MaxDepth : p[i+1] = envs[p[i]].parent
  <2>1. ASSUME NEW i \in 1..MaxDepth
        PROVE  p[i+1] = envs[p[i]].parent
    <3>1. i + 1 \in DOMAIN p /\ i + 1 > 1 /\ (i + 1) - 1 = i
      BY <1>0
    <3>. QED
      BY <3>1 DEF WalkOK
  <2>. QED
    BY <2>1
<1>3. ASSUME NEW i \in 1..(MaxDepth + 1)
      PROVE  c[i] = envs[p[i]].parent /\ c[i] \in Parents
  <2>1. c[i] = envs[p[i]].parent
    BY <1>0, <1>2
  <2>2. c[i] # 0
    <3>1. CASE i <= MaxDepth
      <4>1. c[i] = p[i+1] /\ i + 1 \in 1..(MaxDepth + 1)
        BY <1>0, <3>1
      <4>2. p[i+1] \in DOMAIN envs
        BY <1>1, <4>1
      <4>. QED
        BY <4>1, <4>2, EnvsAreIds DEF EnvIds
    <3>2. CASE i = MaxDepth + 1
      BY <1>0, <3>2
    <3>. QED
      BY <1>0, <3>1, <3>2
  <2>. QED
    BY <1>1, <2>1, <2>2 DEF Parents
<1>4. \A i \in 1..(MaxDepth + 1) : c[i] = envs[IF i = 1 THEN p[1] ELSE c[i-1]].parent
  <2>1. \A i \in 2..(MaxDepth + 1) : c[i-1] = p[i]
    BY <1>0
  <2>. QED
    BY <1>0, <1>3, <2>1
<1>5. c \in [1..(MaxDepth + 1) -> Parents]
  BY <1>3
<1>6. HasAncestors(p[1], MaxDepth + 1)
  BY <1>4, <1>5 DEF HasAncestors
<1>. QED
  BY <1>0, <1>1, <1>6 DEF ChainsEnd

\* A new environment disturbs no walk.
LEMMA CreateReads ==
  ASSUME TypeOK, ForestOK, NEW project \in Projects, NEW parent \in {0} \cup DOMAIN envs,
         CreateEnvironment(project, parent), \A r \in Readers : ReadInv(read[r])
  PROVE  \A r \in Readers : ReadInv(read[r])'
<1>. SUFFICES ASSUME NEW r \in Readers
              PROVE  ReadInv(read[r])'
  OBVIOUS
<1>. DEFINE rd == read[r]
<1>0. rd' = rd /\ rd \in Read /\ ReadInv(rd) /\ UNCHANGED <<config, secret>>
  BY DEF CreateEnvironment, TypeOK
<1>1. DOMAIN envs \subseteq DOMAIN envs' /\ \A e \in DOMAIN envs : envs'[e] = envs[e]
  BY CreateExtends
<1>2. CASE rd.stage = "idle"
  BY <1>0, <1>2 DEF ReadInv, NoRead
<1>3. CASE rd.stage # "idle"
  <2>1. WalkOK(rd) /\ HadOK(rd) /\ PassedOK(rd) /\ RootOK(rd)
    BY <1>0, <1>3 DEF ReadInv
  <2>2. At(rd) \in DOMAIN envs
    BY <1>0, <2>1, AtIsAnEnv DEF WalkOK
  <2>3. \A i \in DOMAIN rd.path : i > 1 => i - 1 \in DOMAIN rd.path
    BY <1>0 DEF Read
  <2>4. WalkOK(rd)'
    BY <1>0, <1>1, <2>1, <2>3 DEF WalkOK
  <2>5. HadOK(rd)'
    BY <1>0, <2>1 DEF HadOK, Holds, HasConfig, HasSecret, Wanted, Gone
  <2>6. PassedOK(rd)'
    BY <1>0, <2>1 DEF PassedOK, Steady, Missed, Holds, HasConfig, HasSecret, Wanted
  <2>7. RootOK(rd)'
    BY <1>0, <1>1, <2>1, <2>2 DEF RootOK, At, Missed
  <2>. QED
    BY <1>0, <1>3, <2>4, <2>5, <2>6, <2>7 DEF ReadInv
<1>. QED
  BY <1>2, <1>3

\* Nor does a write: what an environment that was passed does not hold any more, it does
\* not get back.
LEMMA WriteReads ==
  ASSUME TypeOK, AbsentIsEmpty, ConfigPointerNamesAVersion, WriteSomething,
         \A r \in Readers : ReadInv(read[r])
  PROVE  \A r \in Readers : ReadInv(read[r])'
<1>. SUFFICES ASSUME NEW r \in Readers
              PROVE  ReadInv(read[r])'
  OBVIOUS
<1>. DEFINE rd == read[r]
<1>0. /\ rd' = rd /\ rd \in Read /\ ReadInv(rd) /\ UNCHANGED envs
      /\ \A x \in EnvIds : KeyGoesOn(x) /\ SecretGoesOn(x)
  BY WriteInv DEF TypeOK
<1>2. CASE rd.stage = "idle"
  BY <1>0, <1>2 DEF ReadInv, NoRead
<1>3. CASE rd.stage # "idle"
  <2>1. WalkOK(rd) /\ HadOK(rd) /\ PassedOK(rd) /\ RootOK(rd)
    BY <1>0, <1>3 DEF ReadInv
  <2>2. WalkOK(rd)' /\ RootOK(rd)'
    BY <1>0, <2>1 DEF WalkOK, RootOK, At, Missed
  <2>3. rd.had \subseteq EnvIds /\ rd.version \in Nat /\ rd.what \in {"config", "secret"}
    BY <1>0 DEF Read
  <2>4. ASSUME NEW e \in rd.had
        PROVE  /\ Holds(rd.what, e, rd.version)' \/ Gone(rd.what, e)'
               /\ Holds(rd.what, e, rd.version)' => Holds(rd.what, e, rd.version)
    <3>1. e \in EnvIds /\ KeyGoesOn(e) /\ SecretGoesOn(e)
      BY <1>0, <2>3
    <3>2. Holds(rd.what, e, rd.version) \/ Gone(rd.what, e)
      BY <2>1 DEF HadOK
    <3>3. CASE rd.what = "config"
      BY <1>0, <2>3, <3>1, <3>2, <3>3 DEF Holds, Gone, KeyGoesOn, HasConfig
    <3>4. CASE rd.what = "secret"
      BY <1>0, <2>3, <3>1, <3>2, <3>4 DEF Holds, Gone, SecretGoesOn, HasSecret
    <3>. QED
      BY <2>3, <3>3, <3>4
  <2>5. HadOK(rd)'
    BY <1>0, <2>4 DEF HadOK
  <2>6. Steady(rd)' \subseteq Steady(rd)
    BY <1>0, <2>4 DEF Steady
  <2>7. PassedOK(rd)'
    BY <1>0, <2>1, <2>6 DEF PassedOK, Missed
  <2>. QED
    BY <1>0, <1>3, <2>2, <2>5, <2>7 DEF ReadInv
<1>. QED
  BY <1>2, <1>3

\* Setting a read that is in order keeps every read so.
LEMMA SetReads ==
  ASSUME TypeOK, NEW r \in Readers, NEW rd, Set(r, rd), ReadInv(rd),
         \A q \in Readers : ReadInv(read[q])
  PROVE  \A q \in Readers : ReadInv(read[q])'
<1>. SUFFICES ASSUME NEW q \in Readers
              PROVE  ReadInv(read[q])'
  OBVIOUS
<1>1. UNCHANGED <<envs, config, secret>>
  BY DEF Set
<1>2. read'[q] = IF q = r THEN rd ELSE read[q]
  BY DEF Set, TypeOK
<1>3. ReadInv(read'[q])
  BY <1>2
<1>. QED
  BY <1>1, <1>3 DEF ReadInv, WalkOK, HadOK, PassedOK, RootOK, At, Missed, Steady, Gone, Holds,
                    HasConfig, HasSecret, Wanted

\* An answer ends a walk that is in order, if a miss is one.
LEMMA AnswerInv ==
  ASSUME TypeOK, NEW r \in Readers, read[r].stage \in {"probe", "climb"}, ReadInv(read[r]),
         NEW answer \in {"value", "miss", "dangling", "error"},
         answer \in {"miss", "dangling"} =>
           /\ read[r].stage = "climb" \/ At(read[r]) \notin Steady(read[r])
           /\ ~RowSecurity => envs[At(read[r])].parent = 0
  PROVE  ReadInv([read[r] EXCEPT !.stage = "done", !.answer = answer])
<1>. DEFINE rd == read[r]
            new == [rd EXCEPT !.stage = "done", !.answer = answer]
<1>0. rd \in Read
  BY DEF TypeOK
<1>1. WalkOK(rd) /\ HadOK(rd) /\ PassedOK(rd)
  BY DEF ReadInv
<1>2. /\ new.stage = "done" /\ new.answer = answer /\ new.env = rd.env /\ new.path = rd.path
      /\ new.had = rd.had /\ new.what = rd.what /\ new.version = rd.version
      /\ new.source = rd.source
  BY <1>0 DEF Read
<1>3. Steady(new) = Steady(rd) /\ At(new) = At(rd)
  BY <1>2 DEF Steady, At
<1>4. WalkOK(new) /\ HadOK(new)
  BY <1>1, <1>2 DEF WalkOK, HadOK
<1>5. RootOK(new)
  BY <1>2, <1>3 DEF RootOK, Missed
<1>6. PassedOK(new)
  <2>1. \A i \in DOMAIN rd.path : i < Len(rd.path) \/ i = Len(rd.path)
    BY <1>0 DEF Read
  <2>. QED
    BY <1>1, <1>2, <1>3, <2>1 DEF PassedOK, Missed, At
<1>. QED
  BY <1>2, <1>4, <1>5, <1>6 DEF ReadInv

\* Every step of a walk keeps it in order.
LEMMA StepReads ==
  ASSUME TypeOK, ForestOK, ChainsEnd, NEW r \in Readers, ReadStep(r),
         \A q \in Readers : ReadInv(read[q])
  PROVE  \A q \in Readers : ReadInv(read[q])'
<1>. DEFINE rd == read[r]
            Done(answer) == [rd EXCEPT !.stage = "done", !.answer = answer]
<1>0. rd \in Read /\ ReadInv(rd) /\ MaxDepth \in Nat
  BY DepthAssumption DEF TypeOK
<1>00. ASSUME rd.stage # "idle"
       PROVE  /\ WalkOK(rd) /\ HadOK(rd) /\ PassedOK(rd)
              /\ At(rd) \in DOMAIN envs /\ At(rd) = rd.path[Len(rd.path)]
              /\ Len(rd.path) \in DOMAIN rd.path /\ DOMAIN rd.path = 1..Len(rd.path)
              /\ envs[At(rd)].project = envs[rd.env].project
  <2>1. WalkOK(rd) /\ HadOK(rd) /\ PassedOK(rd)
    BY <1>0, <1>00 DEF ReadInv
  <2>2. /\ At(rd) = rd.path[Len(rd.path)] /\ Len(rd.path) \in DOMAIN rd.path
        /\ DOMAIN rd.path = 1..Len(rd.path)
    BY <1>0, <2>1 DEF WalkOK, At, Read
  <2>. QED
    BY <2>1, <2>2 DEF WalkOK
<1>1. CASE Begin(r)
  <2>1. PICK e \in DOMAIN envs, what \in {"config", "secret"}, v \in 0..MaxWrites,
             resolve \in BOOLEAN :
          Set(r, [NoRead EXCEPT !.stage = "probe", !.what = what, !.env = e, !.version = v,
                                !.resolve = resolve, !.path = <<e>>, !.had = Holders(what, v),
                                !.own = what = "config" /\ HasConfig(e, 0)])
    BY <1>1 DEF Begin
  <2>. DEFINE new == [NoRead EXCEPT !.stage = "probe", !.what = what, !.env = e, !.version = v,
                                    !.resolve = resolve, !.path = <<e>>,
                                    !.had = Holders(what, v),
                                    !.own = what = "config" /\ HasConfig(e, 0)]
  <2>2. /\ new.stage = "probe" /\ new.what = what /\ new.env = e /\ new.version = v
        /\ new.path = <<e>> /\ new.had = Holders(what, v) /\ new.source = 0
        /\ new.answer = "none"
    BY DEF NoRead
  <2>. HIDE DEF new
  <2>3. WalkOK(new)
    BY <1>0, <2>2 DEF WalkOK
  <2>4. HadOK(new)
    BY <2>2 DEF HadOK, Holders
  <2>5. PassedOK(new) /\ RootOK(new)
    BY <2>2 DEF PassedOK, RootOK, Missed
  <2>6. ReadInv(new)
    BY <2>2, <2>3, <2>4, <2>5 DEF ReadInv
  <2>. QED
    BY <2>1, <2>6, SetReads DEF new
<1>2. CASE ProbeHit(r)
  <2>0. rd.stage = "probe" /\ rd.answer = "none"
    BY <1>0, <1>2 DEF ProbeHit, ReadInv
  <2>1. CASE rd.what = "config" /\ rd.resolve /\ IsRef(rd)
    <3>. DEFINE new == [rd EXCEPT !.what = "secret", !.source = At(rd), !.path = <<RefEnv(rd)>>,
                                  !.had = Holders("secret", 0)]
    <3>1. Set(r, new)
      BY <1>2, <2>1 DEF ProbeHit
    <3>2. /\ new.stage = "probe" /\ new.what = "secret" /\ new.env = rd.env
          /\ new.path = <<At(rd)>> /\ new.had = Holders("secret", 0) /\ new.source = At(rd)
          /\ new.answer = "none"
      BY <1>0, <2>0 DEF Read, RefEnv
    <3>. HIDE DEF new
    <3>3. WalkOK(new)
      BY <1>0, <1>00, <2>0, <3>2 DEF WalkOK
    <3>4. HadOK(new)
      BY <3>2 DEF HadOK, Holders, Holds
    <3>5. PassedOK(new) /\ RootOK(new)
      BY <3>2 DEF PassedOK, RootOK, Missed
    <3>6. ReadInv(new)
      BY <3>2, <3>3, <3>4, <3>5 DEF ReadInv
    <3>. QED
      BY <3>1, <3>6, SetReads
  <2>2. CASE ~(rd.what = "config" /\ rd.resolve /\ IsRef(rd))
    <3>1. Set(r, Done("value"))
      BY <1>2, <2>2 DEF ProbeHit, Answer
    <3>2. ReadInv(Done("value"))
      BY <1>0, <2>0, AnswerInv
    <3>. QED
      BY <3>1, <3>2, SetReads
  <2>. QED
    BY <2>1, <2>2
<1>3. CASE ProbeMiss(r)
  <2>0. rd.stage = "probe" /\ rd.answer = "none"
    BY <1>0, <1>3 DEF ProbeMiss, ReadInv
  <2>1. At(rd) \notin Steady(rd)
    BY <1>3 DEF ProbeMiss, Found, Steady
  <2>2. CASE MayClimb(rd)
    <3>. DEFINE new == [rd EXCEPT !.stage = "climb"]
    <3>1. Set(r, new)
      BY <1>3, <2>2 DEF ProbeMiss
    <3>2. /\ new.stage = "climb" /\ new.env = rd.env /\ new.path = rd.path
          /\ new.had = rd.had /\ new.what = rd.what /\ new.version = rd.version
          /\ new.source = rd.source /\ new.answer = "none"
      BY <1>0, <2>0 DEF Read
    <3>. HIDE DEF new
    <3>3. WalkOK(new) /\ HadOK(new)
      BY <1>00, <2>0, <2>2, <3>2 DEF WalkOK, HadOK, MayClimb
    <3>4. PassedOK(new)
      <4>1. Steady(new) = Steady(rd)
        BY <3>2 DEF Steady
      <4>2. \A i \in DOMAIN rd.path : i < Len(rd.path) \/ i = Len(rd.path)
        BY <1>00, <2>0
      <4>. QED
        BY <1>00, <2>0, <2>1, <3>2, <4>1, <4>2 DEF PassedOK
    <3>5. ReadInv(new)
      BY <3>2, <3>3, <3>4 DEF ReadInv, RootOK, Missed
    <3>. QED
      BY <3>1, <3>5, SetReads
  <2>3. CASE ~MayClimb(rd)
    <3>1. Len(rd.path) = MaxDepth + 1
      BY <1>0, <1>00, <2>0, <2>3 DEF WalkOK, MayClimb
    <3>2. envs[At(rd)].parent = 0
      BY <1>0, <1>00, <2>0, <3>1, FullWalkEnds
    <3>3. PICK answer \in {"miss", "dangling"} : Set(r, Done(answer))
      BY <1>3, <2>3 DEF ProbeMiss, Miss, Answer
    <3>4. ReadInv(Done(answer))
      BY <1>0, <2>0, <2>1, <3>2, AnswerInv
    <3>. QED
      BY <3>3, <3>4, SetReads
  <2>. QED
    BY <2>2, <2>3
<1>4. CASE Climb(r)
  <2>. DEFINE parent == IF RowSecurity THEN 0 ELSE envs[At(rd)].parent
  <2>0. rd.stage = "climb" /\ rd.answer = "none"
    BY <1>0, <1>4 DEF Climb, ReadInv
  <2>1. CASE parent = 0
    <3>1. PICK answer \in {"miss", "dangling"} : Set(r, Done(answer))
      BY <1>4, <2>1 DEF Climb, Miss, Answer
    <3>2. ReadInv(Done(answer))
      BY <1>0, <2>0, <2>1, AnswerInv
    <3>. QED
      BY <3>1, <3>2, SetReads
  <2>2. CASE parent # 0
    <3>. DEFINE new == [rd EXCEPT !.stage = "probe", !.path = Append(rd.path, parent)]
                n == Len(rd.path)
    <3>1. Set(r, new)
      BY <1>4, <2>2 DEF Climb
    <3>2. /\ parent = envs[At(rd)].parent /\ parent \in DOMAIN envs
          /\ envs[parent].project = envs[At(rd)].project
      BY <1>00, <2>0, <2>2 DEF ForestOK
    <3>3. /\ new.stage = "probe" /\ new.env = rd.env /\ new.path = Append(rd.path, parent)
          /\ new.had = rd.had /\ new.what = rd.what /\ new.version = rd.version
          /\ new.source = rd.source /\ new.answer = "none"
      BY <1>0, <2>0 DEF Read
    <3>4. /\ DOMAIN new.path = 1..(n + 1) /\ Len(new.path) = n + 1 /\ n \in Nat
          /\ \A i \in 1..n : new.path[i] = rd.path[i]
          /\ new.path[n + 1] = parent
      <4>1. parent \in EnvIds /\ rd.path \in Seq(EnvIds)
        BY <1>0, <3>2, EnvsAreIds DEF Read
      <4>. QED
        BY <3>3, <4>1
    <3>. HIDE DEF new
    <3>5. WalkOK(new)
      <4>1. n \in 1..MaxDepth /\ n = Len(rd.path) /\ DOMAIN rd.path = 1..n
        BY <1>0, <1>00, <2>0 DEF WalkOK
      <4>2. ASSUME NEW i \in DOMAIN new.path
            PROVE  /\ new.path[i] \in DOMAIN envs
                   /\ envs[new.path[i]].project = envs[new.env].project
                   /\ i > 1 => new.path[i] = envs[new.path[i-1]].parent
        <5>1. CASE i \in 1..n
          <6>1. i > 1 => i - 1 \in 1..n
            BY <5>1, <4>1
          <6>. QED
            BY <1>00, <2>0, <3>3, <3>4, <4>1, <5>1, <6>1 DEF WalkOK
        <5>2. CASE i = n + 1
          <6>1. new.path[i] = parent /\ i - 1 = n /\ new.path[i-1] = At(rd)
            BY <1>00, <2>0, <3>4, <4>1, <5>2
          <6>. QED
            BY <1>00, <2>0, <3>2, <3>3, <6>1
        <5>. QED
          BY <3>4, <5>1, <5>2
      <4>3. new.path[1] = rd.path[1] /\ Len(new.path) \in 1..(MaxDepth + 1)
        BY <1>0, <3>4, <4>1
      <4>. QED
        BY <1>00, <2>0, <3>3, <4>2, <4>3 DEF WalkOK
    <3>6. HadOK(new)
      BY <1>00, <2>0, <3>3 DEF HadOK
    <3>7. PassedOK(new)
      <4>1. Steady(new) = Steady(rd)
        BY <3>3 DEF Steady
      <4>2. \A i \in 1..n : rd.path[i] \notin Steady(rd)
        BY <1>00, <2>0 DEF PassedOK
      <4>3. \A i \in DOMAIN new.path : i < Len(new.path) => i \in 1..n
        BY <3>4
      <4>. QED
        BY <3>3, <3>4, <4>1, <4>2, <4>3 DEF PassedOK, Missed
    <3>8. ReadInv(new)
      BY <3>3, <3>5, <3>6, <3>7 DEF ReadInv, RootOK, Missed
    <3>. QED
      BY <3>1, <3>8, SetReads
  <2>. QED
    BY <2>1, <2>2
<1>5. CASE Fail(r)
  <2>1. Set(r, Done("error")) /\ rd.stage \in {"probe", "climb"}
    BY <1>5 DEF Fail, Answer
  <2>2. ReadInv(Done("error"))
    BY <1>0, <2>1, AnswerInv
  <2>. QED
    BY <2>1, <2>2, SetReads
<1>6. CASE Return(r)
  <2>1. Set(r, NoRead) /\ ReadInv(NoRead)
    BY <1>6 DEF Return, ReadInv, NoRead
  <2>. QED
    BY <2>1, SetReads
<1>. QED
  BY <1>1, <1>2, <1>3, <1>4, <1>5, <1>6 DEF ReadStep

-------------------------------------------------------------------------------
\* The inductive invariant and what follows from it.

\* IInv holds initially.
LEMMA InitInv == Init => IInv
<1>. SUFFICES ASSUME Init PROVE IInv
  OBVIOUS
<1>1. TypeOK
  BY InitType
<1>2. ForestOK /\ ChainsEnd
  BY DEF Init, ForestOK, ChainsEnd
<1>3. AbsentIsEmpty /\ ConfigPointerNamesAVersion
  BY DEF Init, NoKey, AbsentIsEmpty, ConfigPointerNamesAVersion
<1>4. \A r \in Readers : ReadInv(read[r])
  BY DEF Init, ReadInv, NoRead
<1>. QED
  BY <1>1, <1>2, <1>3, <1>4 DEF IInv

\* Every step preserves IInv.
LEMMA NextInv == IInv /\ [Next]_vars => IInv'
<1>. SUFFICES ASSUME IInv, [Next]_vars PROVE IInv'
  OBVIOUS
<1>. USE DEF IInv
<1>1. ASSUME NEW project \in Projects, NEW parent \in {0} \cup DOMAIN envs,
             CreateEnvironment(project, parent)
      PROVE  IInv'
  <2>1. TypeOK' /\ ForestOK' /\ ChainsEnd'
    BY <1>1, CreateType, CreateForest, CreateChains
  <2>2. AbsentIsEmpty' /\ ConfigPointerNamesAVersion'
    BY <1>1 DEF CreateEnvironment, AbsentIsEmpty, ConfigPointerNamesAVersion
  <2>3. \A r \in Readers : ReadInv(read[r])'
    BY <1>1, CreateReads
  <2>. QED
    BY <2>1, <2>2, <2>3
<1>2. CASE WriteSomething
  <2>1. TypeOK' /\ AbsentIsEmpty' /\ ConfigPointerNamesAVersion' /\ UNCHANGED envs
    BY <1>2, WriteType, WriteInv
  <2>2. ForestOK' /\ ChainsEnd'
    BY <2>1 DEF ForestOK, ChainsEnd, HasAncestors, Parents
  <2>3. \A r \in Readers : ReadInv(read[r])'
    BY <1>2, WriteReads
  <2>. QED
    BY <2>1, <2>2, <2>3
<1>3. ASSUME NEW r \in Readers, ReadStep(r)
      PROVE  IInv'
  <2>1. UNCHANGED <<envs, config, secret>>
    BY <1>3 DEF ReadStep, Begin, ProbeHit, ProbeMiss, Climb, Fail, Return, Miss, Answer, Set
  <2>2. TypeOK'
    BY <1>3, ReadType
  <2>3. ForestOK' /\ ChainsEnd' /\ AbsentIsEmpty' /\ ConfigPointerNamesAVersion'
    BY <2>1 DEF ForestOK, ChainsEnd, HasAncestors, Parents, AbsentIsEmpty,
                ConfigPointerNamesAVersion
  <2>4. \A q \in Readers : ReadInv(read[q])'
    BY <1>3, StepReads
  <2>. QED
    BY <2>2, <2>3, <2>4
<1>4. CASE UNCHANGED vars
  BY <1>4 DEF vars, TypeOK, ForestOK, ChainsEnd, HasAncestors, Parents, AbsentIsEmpty,
              ConfigPointerNamesAVersion, ReadInv, WalkOK, HadOK, PassedOK, RootOK, At, Missed,
              Steady, Gone, Holds, HasConfig, HasSecret, Wanted
<1>. QED
  BY <1>1, <1>2, <1>3, <1>4 DEF Next

\* IInv holds in every reachable state.
THEOREM Invariance == Spec => []IInv
BY InitInv, NextInv, PTL DEF Spec

\* Every reachable state is well typed, for all bounds.
THEOREM TypeCorrect == Spec => []TypeOK
<1>1. IInv => TypeOK
  BY DEF IInv
<1>. QED
  BY <1>1, Invariance, PTL

\* The check made at creation (check_env_chain_depth) and the bound of the walks agree,
\* whatever the depth: no environment ever has more ancestors than a walk visits.
THEOREM EveryChainEnds == Spec => []ChainsEnd
<1>1. IInv => ChainsEnd
  BY DEF IInv
<1>. QED
  BY <1>1, Invariance, PTL

\* A key's pointer names one of its versions (put_config_audited, rollback_config_audited).
THEOREM ConfigPointerCorrect == Spec => []ConfigPointerNamesAVersion
<1>1. IInv => ConfigPointerNamesAVersion
  BY DEF IInv
<1>. QED
  BY <1>1, Invariance, PTL

\* No walk leaves the project it was asked to read (create_environment_audited).
THEOREM WalksAreInTheirProject == Spec => []WalksStayInProject
<1>1. IInv => WalksStayInProject
  BY DEF IInv, ReadInv, WalkOK, WalksStayInProject
<1>. QED
  BY <1>1, Invariance, PTL

\* With a role that bypasses row level security, a value nobody touches is found, and from
\* the nearest environment, whatever else is written (get_config_resolved,
\* get_secret_inherited).
THEOREM SteadyValuesAreFound == RowSecurity = FALSE => (Spec => []SteadyValueIsFound)
<1>1. RowSecurity = FALSE /\ IInv => SteadyValueIsFound
  <2>. SUFFICES ASSUME RowSecurity = FALSE, IInv, NEW r \in Readers
                PROVE  /\ \A i \in DOMAIN read[r].path :
                            \/ i < Len(read[r].path)
                            \/ read[r].stage = "climb"
                            \/ read[r].answer \in {"miss", "dangling"}
                            => read[r].path[i] \notin Steady(read[r])
                       /\ read[r].answer \in {"miss", "dangling"} => envs[At(read[r])].parent = 0
    BY DEF SteadyValueIsFound
  <2>1. CASE read[r].stage = "idle"
    <3>1. read[r].path = <<>> /\ read[r].answer = "none"
      BY <2>1 DEF IInv, ReadInv, NoRead
    <3>. QED
      BY <3>1
  <2>2. CASE read[r].stage # "idle"
    BY <2>2 DEF IInv, ReadInv, PassedOK, RootOK, Missed
  <2>. QED
    BY <2>1, <2>2
<1>2. CASE RowSecurity = FALSE
  <2>1. IInv => SteadyValueIsFound
    BY <1>1, <1>2
  <2>2. Spec => []SteadyValueIsFound
    BY <2>1, Invariance, PTL
  <2>. QED
    BY <2>2
<1>3. CASE RowSecurity # FALSE
  BY <1>3
<1>. QED
  BY <1>2, <1>3

\* A reference is followed from where it was found (get_config_resolved, source_env).
THEOREM RefsAreResolvedAtSource == Spec => []RefsResolveAtSource
<1>1. IInv => RefsResolveAtSource
  <2>. SUFFICES ASSUME IInv, NEW r \in Readers, read[r].source # 0,
                       NEW i \in DOMAIN read[r].path
                PROVE  AtOrAbove(read[r].path[i], read[r].source)
    BY DEF RefsResolveAtSource
  <2>. DEFINE rd == read[r]
              c == [j \in 1..(i-1) |-> rd.path[j+1]]
  <2>1. rd.stage # "idle"
    BY DEF IInv, ReadInv, NoRead
  <2>2. WalkOK(rd) /\ rd \in Read /\ MaxDepth \in Nat
    BY <2>1, DepthAssumption DEF IInv, ReadInv, TypeOK
  <2>3. rd.source = rd.path[1] /\ DOMAIN rd.path = 1..Len(rd.path) /\ i \in 1..(MaxDepth + 1)
    BY <2>2 DEF WalkOK, Read
  <2>4. CASE i = 1
    BY <2>3, <2>4 DEF AtOrAbove
  <2>5. CASE i # 1
    <3>1. i - 1 \in 1..MaxDepth
      BY <2>2, <2>3, <2>5
    <3>2. ASSUME NEW j \in 1..(i-1)
          PROVE  /\ c[j] = envs[IF j = 1 THEN rd.source ELSE c[j-1]].parent
                 /\ c[j] \in Parents
      <4>1. j + 1 \in DOMAIN rd.path /\ j \in DOMAIN rd.path /\ j + 1 > 1 /\ (j + 1) - 1 = j
        BY <2>2, <2>3, <3>1
      <4>2. c[j] = envs[rd.path[j]].parent /\ c[j] \in DOMAIN envs /\ rd.path[j] \in DOMAIN envs
        BY <2>2, <4>1 DEF WalkOK
      <4>3. rd.path[j] = IF j = 1 THEN rd.source ELSE c[j-1]
        BY <2>3, <3>1
      <4>4. c[j] # 0
        BY <4>2, EnvsAreIds DEF IInv, EnvIds
      <4>. QED
        BY <4>2, <4>3, <4>4 DEF Parents
    <3>3. c \in [1..(i-1) -> Parents] /\ c[i-1] = rd.path[i]
      BY <2>3, <3>1, <3>2
    <3>. QED
      BY <3>1, <3>2, <3>3 DEF AtOrAbove
  <2>. QED
    BY <2>4, <2>5
<1>. QED
  BY <1>1, Invariance, PTL
===============================================================================
