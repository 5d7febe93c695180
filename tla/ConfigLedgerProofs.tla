-------------------------- MODULE ConfigLedgerProofs ---------------------------
(***************************************************************************)
(* Theorems about ConfigLedger: its invariants for any number of puts,     *)
(* codes, types and administrators, and that it implements                 *)
(* VersionedSecret.                                                        *)
(***************************************************************************)
EXTENDS ConfigLedger, FiniteSetTheorems, SequenceTheorems, TLAPS

\* The header points into the versions and declares the first one's type.
HeaderInv ==
  /\ header = None => Len(versions) = 0
  /\ header # None => /\ header.current \in 1 .. Len(versions)
                      /\ header.type = versions[1].type

\* Each put wrote one version at most, and only after it began.
VersionsInv ==
  /\ \A i \in 1 .. Len(versions) : put[versions[i].put].stage # "new"
  /\ \A i, j \in 1 .. Len(versions) : versions[i].put = versions[j].put => i = j

\* What LaterPutWins needs while a put is still storing attributes: those it has stored
\* are already safe, and the puts that were over when it committed are over for good.
PutInv(p) ==
  /\ put[p].over \subseteq Over
  /\ put[p].stage = "ok" => put[p].todo = {}
  /\ \A c \in put[p].codes \ put[p].todo : attrs[c] # None /\ attrs[c] \notin put[p].over

\* Id 0 is nobody's.
DefsInv == \A c \in Codes : defs[c].id = 0 => defs[c] = NoDef

IInv ==
  /\ TypeOK /\ HeaderInv /\ VersionsInv /\ (\A p \in Puts : PutInv(p))
  /\ WhitelistHolds /\ DefsInv

\* A row of the version table names the put that wrote it.
LEMMA VersionPuts ==
  ASSUME TypeOK
  PROVE  /\ versions \in Seq(Version) /\ Len(versions) \in Nat
         /\ \A i \in 1 .. Len(versions) : versions[i] \in Version /\ versions[i].put \in Puts
<1>1. versions \in Seq(Version) /\ Len(versions) \in Nat
  BY LenProperties DEF TypeOK
<1>2. \A i \in 1 .. Len(versions) : versions[i] \in Version
  BY <1>1, ElementOfSeq
<1> QED BY <1>1, <1>2 DEF Version

LEMMA InitIInv == Init => IInv
<1> SUFFICES ASSUME Init
             PROVE  IInv
  OBVIOUS
<1>1. versions = <<>> /\ Len(versions) = 0 /\ header = None
  BY DEF Init
<1>2. put \in [Puts -> Put]
  BY DEF Init, Put
<1>3. TypeOK
  BY <1>1, <1>2, MaxDefsAssumption DEF Init, TypeOK, NoDef
<1>4. HeaderInv /\ VersionsInv
  BY <1>1 DEF HeaderInv, VersionsInv
<1>5. \A p \in Puts : PutInv(p)
  BY DEF Init, PutInv
<1>6. WhitelistHolds /\ DefsInv
  BY DEF Init, WhitelistHolds, DefsInv, NoDef
<1> QED BY <1>3, <1>4, <1>5, <1>6 DEF IInv

\* A put that only moves on to another stage after "new" keeps what the puts promise.
LEMMA PutMovesOn ==
  ASSUME IInv, NEW p \in Puts, NEW s \in {"ok", "error", "dead"},
         put[p].stage \in {"new", "attrs"}, s = "ok" => put[p].todo = {},
         put' = [put EXCEPT ![p].stage = s],
         UNCHANGED <<header, versions, attrs, defs, lastDef, page>>
  PROVE  IInv'
<1>1. put[p] \in Put /\ put' \in [Puts -> Put]
  BY DEF IInv, TypeOK, Put
<1>2. TypeOK'
  BY <1>1 DEF IInv, TypeOK
<1>3. /\ \A q \in Puts \ {p} : put'[q] = put[q]
      /\ put'[p].stage = s /\ put'[p].todo = put[p].todo
      /\ put'[p].codes = put[p].codes /\ put'[p].over = put[p].over
  BY <1>1 DEF IInv, TypeOK, Put
<1>4. Over \subseteq Over'
  BY <1>3 DEF Over
<1>5. (HeaderInv /\ WhitelistHolds /\ DefsInv)'
  BY DEF IInv, HeaderInv, WhitelistHolds, DefsInv, Registered
<1>6. VersionsInv'
  <2>1. \A i \in 1 .. Len(versions) : versions[i].put \in Puts
    BY VersionPuts DEF IInv
  <2> QED BY <1>3, <2>1 DEF IInv, VersionsInv
<1>7. \A q \in Puts : PutInv(q)'
  BY <1>3, <1>4 DEF IInv, PutInv
<1> QED BY <1>2, <1>5, <1>6, <1>7 DEF IInv

LEMMA WriteVersionKeeps ==
  ASSUME IInv, NEW p \in Puts, WriteVersion(p)
  PROVE  IInv'
<1>1. PICK t \in Types, C \in SUBSET Codes :
        /\ header' = Upserted(t)
        /\ versions' = Append(versions, [type |-> t, put |-> p])
        /\ put' = [put EXCEPT ![p] =
             [stage |-> IF C = {} THEN "ok" ELSE "attrs", codes |-> C, todo |-> C, over |-> Over]]
  BY DEF WriteVersion
<1> DEFINE v == [type |-> t, put |-> p]
           n == Len(versions)
<1>2. /\ put[p].stage = "new" /\ Current = n
      /\ UNCHANGED <<attrs, defs, lastDef, page>>
  BY DEF WriteVersion
<1>3. v \in Version /\ versions \in Seq(Version) /\ n \in Nat
  BY DEF IInv, TypeOK, Version
<1>4. /\ versions' \in Seq(Version) /\ Len(versions') = n + 1
      /\ \A i \in 1 .. n : versions'[i] = versions[i]
      /\ versions'[n + 1] = v
  BY <1>1, <1>3, AppendProperties
<1>5. /\ header' \in Header /\ header' # None /\ header'.current = n + 1
      /\ header = None => n = 0 /\ header'.type = t
      /\ header # None => n > 0 /\ header'.type = header.type
  <2>1. CASE header = None
    <3>1. n = 0
      BY <2>1 DEF IInv, HeaderInv
    <3>2. header' = [type |-> t, current |-> 1, deleted |-> FALSE]
      BY <1>1, <2>1 DEF Upserted
    <3>3. header' \in Header /\ header'.current = 1 /\ header'.type = t
      BY <3>2 DEF Header
    <3> QED BY <2>1, <3>1, <3>3, NoneAssumption
  <2>2. CASE header # None
    <3>1. header \in Header /\ header.current = n
      BY <1>2, <2>2 DEF IInv, TypeOK, Current
    <3>2. header' = [header EXCEPT !.current = @ + 1]
      BY <1>1, <2>2 DEF Upserted
    <3>3. header' \in Header /\ header'.current = n + 1 /\ header'.type = header.type
      BY <3>1, <3>2 DEF Header
    <3> QED BY <1>3, <2>2, <3>1, <3>3, NoneAssumption DEF IInv, HeaderInv
  <2> QED BY <2>1, <2>2
<1>6. /\ \A q \in Puts \ {p} : put'[q] = put[q]
      /\ put'[p].stage = (IF C = {} THEN "ok" ELSE "attrs")
      /\ put'[p].codes = C /\ put'[p].todo = C /\ put'[p].over = Over
  BY <1>1 DEF IInv, TypeOK
<1>7. put' \in [Puts -> Put]
  <2>1. Over \in SUBSET Puts
    BY DEF Over
  <2> QED BY <1>1, <2>1 DEF IInv, TypeOK, Put
<1>8. TypeOK'
  BY <1>2, <1>4, <1>5, <1>7 DEF IInv, TypeOK
<1>9. HeaderInv'
  <2>1. header'.type = versions'[1].type
    BY <1>3, <1>4, <1>5 DEF IInv, HeaderInv
  <2> QED BY <1>3, <1>4, <1>5, <2>1 DEF HeaderInv
<1>10. VersionsInv'
  <2>1. \A i \in 1 .. n : versions[i].put \in Puts \ {p}
    BY <1>2, VersionPuts DEF IInv, VersionsInv
  <2>2. \A i \in 1 .. n + 1 : i \in 1 .. n \/ i = n + 1
    BY <1>3
  <2>3. \A i \in 1 .. n + 1 : put'[versions'[i].put].stage # "new"
    BY <1>4, <1>6, <2>1, <2>2 DEF IInv, VersionsInv
  <2>4. \A i, j \in 1 .. n + 1 : versions'[i].put = versions'[j].put => i = j
    BY <1>4, <2>1, <2>2 DEF IInv, VersionsInv
  <2> QED BY <1>4, <2>3, <2>4 DEF VersionsInv
<1>11. \A q \in Puts : PutInv(q)'
  <2>1. Over \subseteq Over'
    BY <1>2, <1>6 DEF Over
  <2> QED BY <1>2, <1>6, <2>1 DEF IInv, PutInv
<1>12. (WhitelistHolds /\ DefsInv)'
  BY <1>2 DEF IInv, WhitelistHolds, DefsInv, Registered
<1> QED BY <1>8, <1>9, <1>10, <1>11, <1>12 DEF IInv

LEMMA SetAttrKeeps ==
  ASSUME IInv, NEW p \in Puts, SetAttr(p)
  PROVE  IInv'
<1>1. PICK c \in put[p].todo :
        /\ defs[c] # NoDef
        /\ attrs' = Stored(p, c)
        /\ put' = [put EXCEPT ![p].todo = @ \ {c},
                              ![p].stage = IF put[p].todo = {c} THEN "ok" ELSE "attrs"]
  BY DEF SetAttr
<1>2. put[p].stage = "attrs" /\ UNCHANGED <<header, versions, defs, lastDef, page>>
  BY DEF SetAttr
<1>3. put[p] \in Put /\ c \in Codes
  BY DEF IInv, TypeOK, Put
<1>4. /\ \A q \in Puts \ {p} : put'[q] = put[q]
      /\ put'[p].stage = (IF put[p].todo = {c} THEN "ok" ELSE "attrs")
      /\ put'[p].todo = put[p].todo \ {c}
      /\ put'[p].codes = put[p].codes /\ put'[p].over = put[p].over
      /\ put' \in [Puts -> Put]
  BY <1>1, <1>3 DEF IInv, TypeOK, Put
<1>5. attrs'[c] = p /\ \A d \in Codes \ {c} : attrs'[d] = attrs[d]
  BY <1>1, <1>3 DEF IInv, TypeOK, Stored
<1>6. TypeOK'
  BY <1>1, <1>2, <1>3, <1>4 DEF IInv, TypeOK, Stored
<1>7. (HeaderInv /\ DefsInv)'
  BY <1>2 DEF IInv, HeaderInv, DefsInv
<1>8. VersionsInv'
  <2>1. \A i \in 1 .. Len(versions) : versions[i].put \in Puts
    BY VersionPuts DEF IInv
  <2> QED BY <1>2, <1>4, <2>1 DEF IInv, VersionsInv
<1>9. p \notin Over /\ Over \subseteq Over' /\ p # None
  BY <1>2, <1>4, NoneAssumption DEF Over
<1>10. \A q \in Puts : PutInv(q)'
  <2> SUFFICES ASSUME NEW q \in Puts
               PROVE  PutInv(q)'
    OBVIOUS
  <2>1. put'[q].over = put[q].over /\ put[q].over \subseteq Over
    BY <1>4 DEF IInv, PutInv
  <2>2. put'[q].stage = "ok" => put'[q].todo = {}
    BY <1>4 DEF IInv, PutInv
  <2>3. ASSUME NEW d \in put'[q].codes \ put'[q].todo
        PROVE  attrs'[d] # None /\ attrs'[d] \notin put'[q].over
    <3>1. CASE d = c
      BY <1>5, <1>9, <2>1, <3>1
    <3>2. CASE d # c
      <4>1. d \in put[q].codes \ put[q].todo /\ d \in Codes
        BY <1>4, <2>3, <3>2 DEF IInv, TypeOK, Put
      <4> QED BY <1>5, <2>1, <3>2, <4>1 DEF IInv, PutInv
    <3> QED BY <3>1, <3>2
  <2> QED BY <1>9, <2>1, <2>2, <2>3 DEF PutInv
<1>11. WhitelistHolds'
  BY <1>1, <1>2, <1>3, <1>5 DEF IInv, WhitelistHolds, Registered
<1> QED BY <1>6, <1>7, <1>8, <1>10, <1>11 DEF IInv

\* RefuseVersion, RefuseAttr and Drop only end the put.
LEMMA EndsKeep ==
  ASSUME IInv, NEW p \in Puts, RefuseVersion(p) \/ RefuseAttr(p) \/ Drop(p)
  PROVE  IInv'
<1>1. CASE RefuseVersion(p) \/ RefuseAttr(p)
  <2>1. /\ put[p].stage \in {"new", "attrs"} /\ put' = [put EXCEPT ![p].stage = "error"]
        /\ UNCHANGED <<header, versions, attrs, defs, lastDef, page>>
    BY <1>1 DEF RefuseVersion, RefuseAttr
  <2> QED BY <2>1, PutMovesOn
<1>2. CASE Drop(p)
  <2>1. /\ put[p].stage \in {"new", "attrs"} /\ put' = [put EXCEPT ![p].stage = "dead"]
        /\ UNCHANGED <<header, versions, attrs, defs, lastDef, page>>
    BY <1>2 DEF Drop
  <2> QED BY <2>1, PutMovesOn
<1> QED BY <1>1, <1>2

\* Rollback and Delete touch the header, whose type and versions stay.
LEMMA HeaderStepsKeep ==
  ASSUME IInv, Rollback \/ Delete
  PROVE  IInv'
<1>1. /\ header # None /\ header \in Header
      /\ UNCHANGED <<versions, attrs, defs, lastDef, put, page>>
  BY DEF IInv, TypeOK, Rollback, Delete, Live
<1>2. /\ header' \in Header /\ header'.type = header.type
      /\ header'.current \in 1 .. Len(versions)
  <2>1. CASE Rollback
    <3>1. PICK v \in 1 .. Len(versions) : header' = [header EXCEPT !.current = v]
      BY <2>1 DEF Rollback
    <3>2. v \in Nat
      BY <3>1
    <3> QED BY <1>1, <3>1, <3>2 DEF Header
  <2>2. CASE Delete
    BY <1>1, <2>2 DEF Delete, Header, IInv, HeaderInv
  <2> QED BY <2>1, <2>2
<1>3. TypeOK'
  BY <1>1, <1>2 DEF IInv, TypeOK
<1>4. HeaderInv'
  BY <1>1, <1>2, NoneAssumption DEF IInv, HeaderInv
<1>5. VersionsInv' /\ (WhitelistHolds /\ DefsInv)'
  BY <1>1 DEF IInv, VersionsInv, WhitelistHolds, DefsInv, Registered
<1>6. \A p \in Puts : PutInv(p)'
  BY <1>1 DEF IInv, PutInv, Over
<1> QED BY <1>3, <1>4, <1>5, <1>6 DEF IInv

\* What a dialog that is still valid is open on.
LEMMA OpenRowIsADef ==
  ASSUME IInv, NEW a \in Admins, StillThere(a)
  PROVE  /\ page[a] \in Row /\ page[a].code \in Codes /\ defs[page[a].code] # NoDef
         /\ defs[page[a].code].id = page[a].id /\ page[a].id # 0
         /\ page[a] = [code |-> page[a].code, id |-> defs[page[a].code].id]
<1>1. page[a] # None /\ page[a].code \in Registered /\ defs[page[a].code].id = page[a].id
  BY DEF StillThere
<1>2. page[a] \in Row
  BY <1>1 DEF IInv, TypeOK
<1> QED BY <1>1, <1>2 DEF IInv, DefsInv, Registered, Row

\* The registry's steps, which touch no key.
LEMMA RegistryKeeps ==
  ASSUME IInv, NEW a \in Admins,
         \/ \E c \in Codes : CreateDef(a, c)
         \/ OpenRow(a) \/ UpdateDef(a) \/ DeleteDef(a) \/ CloseRow(a)
  PROVE  IInv'
<1>1. UNCHANGED <<header, versions, attrs, put>>
  BY DEF CreateDef, OpenRow, UpdateDef, DeleteDef, CloseRow
<1>2. (HeaderInv /\ VersionsInv)' /\ \A p \in Puts : PutInv(p)'
  BY <1>1 DEF IInv, HeaderInv, VersionsInv, PutInv, Over
<1> DEFINE Kept ==
  /\ defs' \in [Codes -> [id: 0 .. lastDef', by: Admins \cup {None}]]
  /\ lastDef' \in 0 .. MaxDefs
  /\ page' \in [Admins -> Row \cup {None}]
  /\ \A c \in Codes : (defs'[c].id = 0 => defs'[c] = NoDef)
                      /\ (attrs[c] # None => defs'[c] # NoDef)
<1>3. /\ defs \in [Codes -> [id: 0 .. lastDef, by: Admins \cup {None}]]
      /\ lastDef \in 0 .. MaxDefs /\ lastDef \in Nat
      /\ page \in [Admins -> Row \cup {None}]
      /\ \A c \in Codes : (defs[c].id = 0 => defs[c] = NoDef) /\ (attrs[c] # None => defs[c] # NoDef)
  BY MaxDefsAssumption DEF IInv, TypeOK, DefsInv, WhitelistHolds, Registered
<1>4. ASSUME NEW c \in Codes, CreateDef(a, c)
      PROVE  Kept
  <2> DEFINE d == [id |-> lastDef + 1, by |-> a]
  <2>1. /\ lastDef' = lastDef + 1 /\ lastDef < MaxDefs /\ defs' = [defs EXCEPT ![c] = d]
        /\ page' = page
    BY <1>4 DEF CreateDef
  <2>2. \A e \in Codes : defs[e] \in [id: 0 .. lastDef + 1, by: Admins \cup {None}]
    BY <1>3
  <2>3. d \in [id: 0 .. lastDef + 1, by: Admins \cup {None}] /\ d.id # 0 /\ d # NoDef
    BY <1>3 DEF NoDef
  <2>4. defs' \in [Codes -> [id: 0 .. lastDef + 1, by: Admins \cup {None}]]
    BY <1>3, <2>1, <2>2, <2>3
  <2>5. defs'[c] = d /\ \A e \in Codes \ {c} : defs'[e] = defs[e]
    BY <1>3, <2>1
  <2>6. lastDef + 1 \in 0 .. MaxDefs
    BY <1>3, <2>1, MaxDefsAssumption
  <2> QED BY <1>3, <2>1, <2>3, <2>4, <2>5, <2>6
<1>5. ASSUME OpenRow(a) \/ CloseRow(a)
      PROVE  Kept
  <2>1. \A c \in Codes : [code |-> c, id |-> defs[c].id] \in Row
    BY <1>3 DEF Row
  <2>2. page' \in [Admins -> Row \cup {None}] /\ UNCHANGED <<defs, lastDef>>
    BY <1>3, <1>5, <2>1 DEF OpenRow, CloseRow, Registered
  <2> QED BY <1>3, <2>2
<1>6. ASSUME UpdateDef(a)
      PROVE  Kept
  <2> DEFINE c == page[a].code
  <2>1. c \in Codes /\ defs[c] # NoDef /\ defs[c].id # 0
    BY <1>6, OpenRowIsADef DEF UpdateDef
  <2>2. /\ defs' = [defs EXCEPT ![c].by = a] /\ lastDef' = lastDef
        /\ page' = [page EXCEPT ![a] = None]
    BY <1>6 DEF UpdateDef
  <2>3. defs'[c].id = defs[c].id /\ \A e \in Codes \ {c} : defs'[e] = defs[e]
    BY <1>3, <2>1, <2>2
  <2>4. defs'[c] # NoDef
    BY <2>1, <2>3 DEF NoDef
  <2>5. defs' \in [Codes -> [id: 0 .. lastDef, by: Admins \cup {None}]]
    BY <1>3, <2>1, <2>2
  <2>6. page' \in [Admins -> Row \cup {None}]
    BY <1>3, <2>2
  <2> QED BY <1>3, <2>1, <2>2, <2>3, <2>4, <2>5, <2>6
<1>7. ASSUME DeleteDef(a)
      PROVE  Kept
  <2> DEFINE c == page[a].code
  <2>1. c \in Codes /\ attrs[c] = None
    BY <1>7, OpenRowIsADef DEF DeleteDef
  <2>2. /\ defs' = [defs EXCEPT ![c] = NoDef] /\ lastDef' = lastDef
        /\ page' = [page EXCEPT ![a] = None]
    BY <1>7 DEF DeleteDef
  <2>3. NoDef \in [id: 0 .. lastDef, by: Admins \cup {None}]
    BY <1>3 DEF NoDef
  <2>4. page' \in [Admins -> Row \cup {None}]
    BY <1>3, <2>2
  <2> QED BY <1>3, <2>1, <2>2, <2>3, <2>4
<1> HIDE DEF Kept
<1>8. Kept
  BY <1>4, <1>5, <1>6, <1>7
<1> USE DEF Kept
<1>9. (TypeOK /\ WhitelistHolds /\ DefsInv)'
  BY <1>1, <1>8 DEF IInv, TypeOK, WhitelistHolds, DefsInv, Registered
<1> QED BY <1>2, <1>9 DEF IInv

LEMMA NextIInv == IInv /\ [Next]_vars => IInv'
<1> SUFFICES ASSUME IInv, [Next]_vars
             PROVE  IInv'
  OBVIOUS
<1>1. CASE UNCHANGED vars
  BY <1>1 DEF IInv, TypeOK, HeaderInv, VersionsInv, PutInv, WhitelistHolds, DefsInv,
              Over, Registered, vars
<1>2. CASE Rollback \/ Delete
  BY <1>2, HeaderStepsKeep
<1>3. ASSUME NEW p \in Puts,
             WriteVersion(p) \/ RefuseVersion(p) \/ SetAttr(p) \/ RefuseAttr(p) \/ Drop(p)
      PROVE  IInv'
  BY <1>3, WriteVersionKeeps, SetAttrKeeps, EndsKeep
<1>4. ASSUME NEW a \in Admins,
             \/ \E c \in Codes : CreateDef(a, c)
             \/ OpenRow(a) \/ UpdateDef(a) \/ DeleteDef(a) \/ CloseRow(a)
      PROVE  IInv'
  BY <1>4, RegistryKeeps
<1> QED BY <1>1, <1>2, <1>3, <1>4 DEF Next, Quiescent

LEMMA IInvHolds == Spec => []IInv
BY InitIInv, NextIInv, PTL DEF Spec

\* Whatever is written, refused or rolled back, the state has its type.
THEOREM TypeCorrect == Spec => []TypeOK
<1>1. IInv => TypeOK
  BY DEF IInv
<1> QED BY <1>1, IInvHolds, PTL

\* A key's declared type is its first version's for ever (the upsert of mod.rs:921 keeps
\* value_type), for any number of puts and types.
THEOREM DeclaredTypeNeverChanges == Spec => []DeclaredTypeIsTheFirst
<1>1. IInv => DeclaredTypeIsTheFirst
  BY DEF IInv, HeaderInv, DeclaredTypeIsTheFirst
<1> QED BY <1>1, IInvHolds, PTL

\* An older put's late attribute (attrs.rs:77-89) never replaces the value of a put that
\* began to store its own after the older one was over, for any number of puts and codes.
THEOREM NoLostAttributes == Spec => []LaterPutWins
<1>1. IInv => LaterPutWins
  BY DEF IInv, PutInv, LaterPutWins, TypeOK, Put
<1> QED BY <1>1, IInvHolds, PTL

\* Every stored attribute's code is registered, whoever deletes definitions meanwhile.
THEOREM WhitelistAlwaysHolds == Spec => []WhitelistHolds
<1>1. IInv => WhitelistHolds
  BY DEF IInv
<1> QED BY <1>1, IInvHolds, PTL

\* A dialog's save reaches the definition it was opened for, or none, for any number of
\* administrators and definitions.
THEOREM EditsHitTheRowSeen == Spec => EditIsOfTheRowSeen
<1> DEFINE Seen == \A a \in Admins, c \in Codes :
             defs'[c].id = defs[c].id /\ defs'[c] # defs[c] /\ defs'[c].by = a
               => page[a] = [code |-> c, id |-> defs[c].id]
<1>1. ASSUME IInv, [Next]_vars
      PROVE  [Seen]_vars
  <2> SUFFICES ASSUME NEW a \in Admins, NEW c \in Codes, defs'[c].id = defs[c].id,
                      defs'[c] # defs[c], defs'[c].by = a
               PROVE  page[a] = [code |-> c, id |-> defs[c].id]
    OBVIOUS
  <2>1. /\ defs \in [Codes -> [id: 0 .. lastDef, by: Admins \cup {None}]]
        /\ lastDef \in Nat
    BY <1>1, MaxDefsAssumption DEF IInv, TypeOK
  <2>2. ASSUME NEW b \in Admins, NEW e \in Codes, CreateDef(b, e)
        PROVE  FALSE
    <3>1. defs' = [defs EXCEPT ![e] = [id |-> lastDef + 1, by |-> b]]
      BY <2>2 DEF CreateDef
    <3>2. c = e /\ defs'[c].id = lastDef + 1
      BY <2>1, <3>1
    <3>3. defs[c].id \in 0 .. lastDef
      BY <2>1
    <3> QED BY <2>1, <3>2, <3>3
  <2>3. ASSUME NEW b \in Admins, UpdateDef(b)
        PROVE  page[a] = [code |-> c, id |-> defs[c].id]
    <3>1. /\ page[b].code \in Codes
          /\ page[b] = [code |-> page[b].code, id |-> defs[page[b].code].id]
      BY <1>1, <2>3, OpenRowIsADef DEF UpdateDef
    <3>2. defs' = [defs EXCEPT ![page[b].code].by = b]
      BY <2>3 DEF UpdateDef
    <3>3. c = page[b].code
      BY <2>1, <3>1, <3>2
    <3>4. defs'[c].by = b
      BY <2>1, <3>2, <3>3
    <3> QED BY <3>1, <3>3, <3>4
  <2>4. ASSUME NEW b \in Admins, DeleteDef(b)
        PROVE  FALSE
    <3>1. page[b].code \in Codes /\ defs[page[b].code].id # 0
      BY <1>1, <2>4, OpenRowIsADef DEF DeleteDef
    <3>2. defs' = [defs EXCEPT ![page[b].code] = NoDef]
      BY <2>4 DEF DeleteDef
    <3> QED BY <2>1, <3>1, <3>2 DEF NoDef
  <2>5. defs' # defs
    OBVIOUS
  <2>6. \E b \in Admins : (\E e \in Codes : CreateDef(b, e)) \/ UpdateDef(b) \/ DeleteDef(b)
    BY <1>1, <2>5 DEF Next, vars, Rollback, Delete, Quiescent, WriteVersion, RefuseVersion,
                      SetAttr, RefuseAttr, Drop, OpenRow, CloseRow
  <2> QED BY <2>2, <2>3, <2>4, <2>6
<1> QED BY <1>1, IInvHolds, PTL DEF Spec, EditIsOfTheRowSeen

-------------------------------------------------------------------------------
\* The refinement: VersionedSecret's history is the column of puts.
Hist == [v \in DOMAIN versions |-> versions[v].put]
EntryStatus == IF header = None THEN "absent" ELSE IF header.deleted THEN "deleted" ELSE "live"

\* The column of puts of any list of versions.
LEMMA ColumnIsSeq ==
  ASSUME NEW s \in Seq(Version)
  PROVE  LET h == [v \in DOMAIN s |-> s[v].put]
         IN  /\ h \in Seq(Puts) /\ Len(h) = Len(s)
             /\ \A i \in 1 .. Len(s) : h[i] = s[i].put
<1> DEFINE h == [v \in DOMAIN s |-> s[v].put]
<1>1. DOMAIN s = 1 .. Len(s) /\ Len(s) \in Nat
  BY LenProperties
<1>2. \A i \in 1 .. Len(s) : s[i] \in Version
  BY <1>1, ElementOfSeq
<1>3. h \in [1 .. Len(s) -> Puts]
  BY <1>1, <1>2 DEF Version
<1>4. h \in Seq(Puts)
  BY <1>1, <1>3, SeqDef
<1>5. DOMAIN h = 1 .. Len(s) /\ DOMAIN h = 1 .. Len(h) /\ Len(h) \in Nat
  BY <1>3, <1>4, LenProperties
<1>6. Len(h) = Len(s)
  BY <1>1, <1>5
<1> QED BY <1>1, <1>4, <1>6

LEMMA HistIsSeq ==
  ASSUME TypeOK
  PROVE  /\ Hist \in Seq(Puts) /\ Len(Hist) = Len(versions)
         /\ \A i \in 1 .. Len(versions) : Hist[i] = versions[i].put
BY ColumnIsSeq DEF TypeOK, Hist

\* There are no more versions than puts, for no put writes two.
LEMMA VersionsAreFew ==
  ASSUME IInv
  PROVE  Len(versions) <= Cardinality(Puts) /\ Cardinality(Puts) \in Nat
<1> DEFINE n == Len(versions)
<1>1. n \in Nat /\ Hist \in Seq(Puts) /\ \A i \in 1 .. n : Hist[i] = versions[i].put
  BY HistIsSeq, VersionPuts DEF IInv
<1>2. Hist \in [1 .. n -> Puts]
  BY <1>1, HistIsSeq, LenProperties DEF IInv
<1>3. \A i, j \in 1 .. n : Hist[i] = Hist[j] => i = j
  BY <1>1 DEF IInv, VersionsInv
<1>4. Hist \in Injection(1 .. n, Puts)
  BY <1>2, <1>3 DEF Injection, IsInjective
<1>5. Cardinality(1 .. n) <= Cardinality(Puts)
  BY <1>4, FS_Injection, PutsAssumption
<1>6. Cardinality(1 .. n) = n
  <2>1. 1 \in Int /\ n \in Int
    BY <1>1
  <2>2. Cardinality(1 .. n) = IF 1 > n THEN 0 ELSE n - 1 + 1
    BY <2>1, FS_Interval, Zenon
  <2> QED BY <1>1, <2>2
<1> QED BY <1>5, <1>6, FS_CardinalityType, PutsAssumption

\* The commit of a put is a Write.
LEMMA WriteRefines ==
  ASSUME IInv, IInv', NEW p \in Puts, WriteVersion(p)
  PROVE  Entry!Next
<1>1. PICK t \in Types :
        /\ header' = Upserted(t) /\ versions' = Append(versions, [type |-> t, put |-> p])
  BY DEF WriteVersion
<1>2. (header = None \/ Live) /\ Current = Len(versions)
  BY DEF WriteVersion
<1>3. header' # None /\ ~header'.deleted /\ Current' = Current + 1
  <2>1. CASE header = None
    <3>1. header' = [type |-> t, current |-> 1, deleted |-> FALSE]
      BY <1>1, <2>1 DEF Upserted
    <3>2. header' \in Header /\ header'.current = 1 /\ ~header'.deleted
      BY <3>1 DEF Header
    <3> QED BY <2>1, <3>2, NoneAssumption DEF Current
  <2>2. CASE header # None
    <3>1. header \in Header /\ ~header.deleted
      BY <1>2, <2>2 DEF IInv, TypeOK, Live
    <3>2. header' = [header EXCEPT !.current = @ + 1]
      BY <1>1, <2>2 DEF Upserted
    <3>3. header' \in Header /\ header'.current = header.current + 1 /\ ~header'.deleted
      BY <3>1, <3>2 DEF Header
    <3> QED BY <2>2, <3>3, NoneAssumption DEF Current
  <2> QED BY <2>1, <2>2
<1>4. EntryStatus # "deleted" /\ EntryStatus' = "live"
  BY <1>2, <1>3 DEF EntryStatus, Live
<1>5. Hist' = Append(Hist, p)
  <2> DEFINE n == Len(versions)
             w == [type |-> t, put |-> p]
  <2>1. versions \in Seq(Version) /\ w \in Version /\ n \in Nat
    BY VersionPuts DEF IInv, Version
  <2>2. /\ Len(versions') = n + 1 /\ versions'[n + 1] = w
        /\ \A i \in 1 .. n : versions'[i] = versions[i]
    BY <1>1, <2>1, AppendProperties
  <2>3. /\ Hist' \in Seq(Puts) /\ Len(Hist') = n + 1
        /\ \A i \in 1 .. n + 1 : Hist'[i] = versions'[i].put
    <3>1. versions' \in Seq(Version)
      BY DEF IInv, TypeOK
    <3> QED BY <2>2, <3>1, ColumnIsSeq DEF Hist
  <2>4. /\ Hist \in Seq(Puts) /\ Len(Hist) = n
        /\ \A i \in 1 .. n : Hist[i] = versions[i].put
    BY HistIsSeq DEF IInv
  <2>5. /\ Append(Hist, p) \in Seq(Puts) /\ Len(Append(Hist, p)) = n + 1
        /\ \A i \in 1 .. n : Append(Hist, p)[i] = Hist[i]
        /\ Append(Hist, p)[n + 1] = p
    BY <2>4, AppendProperties
  <2>6. \A i \in 1 .. n + 1 : Hist'[i] = Append(Hist, p)[i]
    <3>1. \A i \in 1 .. n + 1 : i \in 1 .. n \/ i = n + 1
      BY <2>1
    <3>2. Hist'[n + 1] = p
      BY <2>1, <2>2, <2>3
    <3>3. \A i \in 1 .. n : i \in 1 .. n + 1
      BY <2>1
    <3> QED BY <2>2, <2>3, <2>4, <2>5, <3>1, <3>2, <3>3
  <2> QED BY <2>3, <2>5, <2>6, SeqEqual
<1>6. Current = Len(Hist)
  BY <1>2, HistIsSeq DEF IInv
<1>7. Entry!Write(p, None, "plain")
  BY <1>3, <1>4, <1>5, <1>6 DEF Entry!Write, Entry!Log, EntryStatus, Hist
<1> QED BY <1>7 DEF Entry!Next

\* A rollback and a deletion are a Rollback and a Delete.
LEMMA HeaderStepsRefine ==
  ASSUME IInv, IInv', NEW p \in Puts, Rollback \/ Delete
  PROVE  Entry!Next
<1>1. header # None /\ header \in Header /\ ~header.deleted /\ versions' = versions
  BY DEF IInv, TypeOK, Rollback, Delete, Live
<1>2. Hist' = Hist /\ EntryStatus = "live"
  BY <1>1 DEF Hist, EntryStatus
<1>3. CASE Rollback
  <2>1. PICK v \in 1 .. Len(versions) : header' = [header EXCEPT !.current = v]
    BY <1>3 DEF Rollback
  <2>2. header' \in Header /\ header'.current = v /\ ~header'.deleted
    BY <1>1, <2>1 DEF Header
  <2>3. Current' = v /\ EntryStatus' = "live"
    BY <2>2, NoneAssumption DEF Current, EntryStatus
  <2>4. v \in 1 .. Len(Hist) /\ v \in 1 .. Cardinality(Puts)
    <3>1. Len(versions) \in Nat /\ Len(Hist) = Len(versions)
      BY VersionPuts, HistIsSeq DEF IInv
    <3> QED BY <3>1, VersionsAreFew
  <2>5. Entry!Rollback(p, v, "plain")
    BY <1>2, <2>3, <2>4 DEF Entry!Rollback, Entry!Log, EntryStatus, Hist
  <2> QED BY <2>4, <2>5 DEF Entry!Next
<1>4. CASE Delete
  <2>1. header' = [header EXCEPT !.deleted = TRUE]
    BY <1>4 DEF Delete
  <2>2. header' \in Header /\ header'.current = header.current /\ header'.deleted
    BY <1>1, <2>1 DEF Header
  <2>3. Current' = Current /\ EntryStatus' = "deleted"
    BY <1>1, <2>2, NoneAssumption DEF Current, EntryStatus
  <2>4. Entry!Delete(p, "plain")
    BY <1>2, <2>3 DEF Entry!Delete, Entry!Log, EntryStatus, Hist
  <2> QED BY <2>4 DEF Entry!Next
<1> QED BY <1>3, <1>4

\* Whatever puts, rollbacks, deletions and attribute writes interleave, a config key is a
\* versioned entry: its history only grows and its pointer stays within it.
THEOREM ConfigImplementsEntry == Spec => ImplementsVersionedEntry
<1>1. Init => Entry!Init
  <2> SUFFICES ASSUME Init
               PROVE  Entry!Init
    OBVIOUS
  <2>1. versions = <<>> /\ header = None
    BY DEF Init
  <2>2. Hist \in Seq(Puts) /\ Len(Hist) = 0
    BY <2>1, HistIsSeq, InitIInv DEF IInv
  <2>3. Hist = <<>>
    BY <2>2, EmptySeq
  <2> QED BY <2>1, <2>3 DEF Entry!Init, Current, Hist
<1>2. ASSUME IInv, IInv', [Next]_vars
      PROVE  [Entry!Next]_(Entry!avars)
  <2>1. CASE UNCHANGED <<header, versions>>
    BY <2>1 DEF Entry!avars, Current
  <2>2. ASSUME NEW p \in Puts, WriteVersion(p)
        PROVE  Entry!Next
    BY <1>2, <2>2, WriteRefines
  <2>3. ASSUME Rollback \/ Delete
        PROVE  Entry!Next
    <3>1. \E p \in Puts : TRUE
      <4>1. Len(versions) # 0
        BY <1>2, <2>3 DEF IInv, HeaderInv, Rollback, Delete, Live
      <4>2. versions[1].put \in Puts
        BY <1>2, <4>1, VersionPuts DEF IInv
      <4> QED BY <4>2
    <3> QED BY <1>2, <2>3, <3>1, HeaderStepsRefine
  <2>4. \/ UNCHANGED <<header, versions>>
        \/ \E p \in Puts : WriteVersion(p)
        \/ Rollback \/ Delete
    BY <1>2 DEF Next, vars, Quiescent, RefuseVersion, SetAttr, RefuseAttr, Drop, CreateDef,
                OpenRow, UpdateDef, DeleteDef, CloseRow
  <2> QED BY <2>1, <2>2, <2>3, <2>4
<1> QED BY <1>1, <1>2, IInvHolds, PTL DEF ImplementsVersionedEntry, Spec, Entry!Spec
===============================================================================
