----------------------------- MODULE ConfigLedger -----------------------------
(***************************************************************************)
(* One config key: its header, its typed versions, its attributes, and the *)
(* registry of attribute definitions that administrators edit meanwhile.   *)
(*                                                                         *)
(* The audited put holds the header's row lock from its upsert to its      *)
(* commit, so it is one step here (SecretLedger takes the same sequence    *)
(* apart).  What comes after the commit is not: the attributes are stored  *)
(* one transaction at a time, in the order of a HashMap, and nothing locks *)
(* the key against a newer put.                                            *)
(***************************************************************************)
EXTENDS Naturals, Sequences, FiniteSets

CONSTANTS
  Puts,     \* calls of put_config_audited, each made at most once
  Types,    \* value types
  Codes,    \* attribute codes of entity type config_key
  Admins,   \* administrators, each with the registry page open
  MaxDefs,  \* bound: definitions ever created
  None      \* no row

ASSUME PutsAssumption    == IsFiniteSet(Puts)
ASSUME MaxDefsAssumption == MaxDefs \in Nat

VARIABLES
  header,    \* the row of 07_fct_config_keys, or None
  versions,  \* the rows of 08_fct_config_versions, by number
  attrs,     \* 10_dtl_config_attrs: the put whose value each code holds
  defs,      \* 02_dim_attr_defs by code: the row's id (0: no row) and its last editor
  lastDef,   \* the id last given to a definition
  put,       \* each put: how far it is and which attributes it brings
  page       \* the row each administrator has open: its code and id

vars == <<header, versions, attrs, defs, lastDef, put, page>>

Header  == [type: Types, current: Nat, deleted: BOOLEAN]
Version == [type: Types, put: Puts]
\* codes: what the put names; todo: what is not stored yet; over: history, the puts that
\* had been answered, or had died, when this one committed.
Put == [stage: {"new", "attrs", "ok", "error", "dead"},
        codes: SUBSET Codes, todo: SUBSET Codes, over: SUBSET Puts]
Row == [code: Codes, id: Nat]
NoDef == [id |-> 0, by |-> None]

ASSUME NoneAssumption == None \notin Puts /\ None \notin Header /\ None \notin Row

TypeOK ==
  /\ header \in Header \cup {None}
  /\ versions \in Seq(Version)
  /\ attrs \in [Codes -> Puts \cup {None}]
  /\ defs \in [Codes -> [id: 0 .. lastDef, by: Admins \cup {None}]]
  /\ lastDef \in 0 .. MaxDefs
  /\ put \in [Puts -> Put]
  /\ page \in [Admins -> Row \cup {None}]

Init ==
  /\ header = None
  /\ versions = <<>>
  /\ attrs = [c \in Codes |-> None]
  /\ defs = [c \in Codes |-> NoDef]
  /\ lastDef = 0
  /\ put = [p \in Puts |-> [stage |-> "new", codes |-> {}, todo |-> {}, over |-> {}]]
  /\ page = [a \in Admins |-> None]

-------------------------------------------------------------------------------
\* The key and its versions.

Current == IF header = None THEN 0 ELSE header.current
Live    == header # None /\ ~header.deleted
Over    == {p \in Puts : put[p].stage \in {"ok", "error", "dead"}}

\* The header after the upsert, whose DO UPDATE keeps value_type, and the pointer's UPDATE.
Upserted(t) ==
  IF header = None THEN [type |-> t, current |-> 1, deleted |-> FALSE]
  ELSE [header EXCEPT !.current = @ + 1]

\* put_config_audited up to its COMMIT.  The new version's row must not exist yet.
WriteVersion(p) ==
  /\ put[p].stage = "new"
  /\ header = None \/ Live
  /\ Current = Len(versions)
  /\ \E t \in Types, C \in SUBSET Codes :
       /\ header' = Upserted(t)
       /\ versions' = Append(versions, [type |-> t, put |-> p])
       /\ put' = [put EXCEPT ![p] =
            [stage |-> IF C = {} THEN "ok" ELSE "attrs", codes |-> C, todo |-> C, over |-> Over]]
  /\ UNCHANGED <<attrs, defs, lastDef, page>>

\* NotFound for a deleted key, Conflict for a number that is taken: nothing is kept.
RefuseVersion(p) ==
  /\ put[p].stage = "new"
  /\ header # None
  /\ header.deleted \/ Current < Len(versions)
  /\ put' = [put EXCEPT ![p].stage = "error"]
  /\ UNCHANGED <<header, versions, attrs, defs, lastDef, page>>

\* Faulty variant for mutation testing: ON CONFLICT DO NOTHING.
Stored_KeepFirst(p, c) == IF attrs[c] = None THEN [attrs EXCEPT ![c] = p] ELSE attrs

\* ON CONFLICT (config_key_id, property_key) DO UPDATE.
Stored(p, c) == [attrs EXCEPT ![c] = p]

\* Faulty variant for mutation testing: nothing demands that the code is registered.
SetAttr_AnyCode(p) ==
  /\ put[p].stage = "attrs"
  /\ \E c \in put[p].todo :
       /\ attrs' = Stored(p, c)
       /\ put' = [put EXCEPT ![p].todo = @ \ {c},
                             ![p].stage = IF put[p].todo = {c} THEN "ok" ELSE "attrs"]
  /\ UNCHANGED <<header, versions, defs, lastDef, page>>

\* One turn of set_config_attrs' loop; the foreign key wants the code registered.
SetAttr(p) ==
  /\ put[p].stage = "attrs"
  /\ \E c \in put[p].todo :
       /\ defs[c] # NoDef
       /\ attrs' = Stored(p, c)
       /\ put' = [put EXCEPT ![p].todo = @ \ {c},
                             ![p].stage = IF put[p].todo = {c} THEN "ok" ELSE "attrs"]
  /\ UNCHANGED <<header, versions, defs, lastDef, page>>

\* WhitelistViolation: the put is answered with an error, though its version is committed
\* and the attributes stored so far stay; the rest is not tried.
RefuseAttr(p) ==
  /\ put[p].stage = "attrs"
  /\ \E c \in put[p].todo : defs[c] = NoDef
  /\ put' = [put EXCEPT ![p].stage = "error"]
  /\ UNCHANGED <<header, versions, attrs, defs, lastDef, page>>

\* The client hangs up, or the pod dies, between two of the transactions.
Drop(p) ==
  /\ put[p].stage = "attrs"
  /\ put' = [put EXCEPT ![p].stage = "dead"]
  /\ UNCHANGED <<header, versions, attrs, defs, lastDef, page>>

\* Faulty variant for mutation testing: the target version is not looked up.
Rollback_Unchecked ==
  /\ Live
  /\ \E v \in 0 .. Len(versions) : header' = [header EXCEPT !.current = v]
  /\ UNCHANGED <<versions, attrs, defs, lastDef, put, page>>

\* rollback_config: to a version that exists, under the header's lock.
Rollback ==
  /\ Live
  /\ \E v \in 1 .. Len(versions) : header' = [header EXCEPT !.current = v]
  /\ UNCHANGED <<versions, attrs, defs, lastDef, put, page>>

Delete ==
  /\ Live
  /\ header' = [header EXCEPT !.deleted = TRUE]
  /\ UNCHANGED <<versions, attrs, defs, lastDef, put, page>>

-------------------------------------------------------------------------------
\* The registry.  Administrators work on the list their page loaded.

Registered == {c \in Codes : defs[c] # NoDef}
\* The row an open dialog is about, if it is still there: ids are never given twice.
StillThere(a) == page[a] # None /\ page[a].code \in Registered /\ defs[page[a].code].id = page[a].id

\* create_attr_def; UNIQUE (entity_type, code).
CreateDef(a, c) ==
  /\ c \notin Registered
  /\ lastDef < MaxDefs
  /\ lastDef' = lastDef + 1
  /\ defs' = [defs EXCEPT ![c] = [id |-> lastDef + 1, by |-> a]]
  /\ UNCHANGED <<header, versions, attrs, put, page>>

\* The pencil or the bin of a row, as the page shows it.
OpenRow(a) ==
  /\ page[a] = None
  /\ \E c \in Registered : page' = [page EXCEPT ![a] = [code |-> c, id |-> defs[c].id]]
  /\ UNCHANGED <<header, versions, attrs, defs, lastDef, put>>

\* Faulty variant for mutation testing: WHERE code = $1 for WHERE id = $1.
UpdateDef_ByCode(a) ==
  /\ page[a] # None /\ page[a].code \in Registered
  /\ defs' = [defs EXCEPT ![page[a].code].by = a]
  /\ page' = [page EXCEPT ![a] = None]
  /\ UNCHANGED <<header, versions, attrs, lastDef, put>>

\* update_attr_def, by id.
UpdateDef(a) ==
  /\ StillThere(a)
  /\ defs' = [defs EXCEPT ![page[a].code].by = a]
  /\ page' = [page EXCEPT ![a] = None]
  /\ UNCHANGED <<header, versions, attrs, lastDef, put>>

\* delete_attr_def, by id; ON DELETE RESTRICT keeps a definition some attribute uses.
DeleteDef(a) ==
  /\ StillThere(a) /\ attrs[page[a].code] = None
  /\ defs' = [defs EXCEPT ![page[a].code] = NoDef]
  /\ page' = [page EXCEPT ![a] = None]
  /\ UNCHANGED <<header, versions, attrs, lastDef, put>>

\* Cancel; or NotFound, or the foreign key's refusal: nothing is changed, the page reloads.
CloseRow(a) ==
  /\ page[a] # None
  /\ page' = [page EXCEPT ![a] = None]
  /\ UNCHANGED <<header, versions, attrs, defs, lastDef, put>>

\* Bounded models end: every put is over.
Quiescent == Over = Puts /\ UNCHANGED vars

Next ==
  \/ Rollback \/ Delete \/ Quiescent
  \/ \E p \in Puts :
       WriteVersion(p) \/ RefuseVersion(p) \/ SetAttr(p) \/ RefuseAttr(p) \/ Drop(p)
  \/ \E a \in Admins :
       \/ \E c \in Codes : CreateDef(a, c)
       \/ OpenRow(a) \/ UpdateDef(a) \/ DeleteDef(a) \/ CloseRow(a)

Spec == Init /\ [][Next]_vars

-------------------------------------------------------------------------------
\* What is checked.

\* The type a key's header declares, which every list of keys shows, is the type of its
\* first version for ever, whatever later puts and rollbacks make current: the upsert's
\* DO UPDATE (mod.rs:921) does not touch value_type.
DeclaredTypeIsTheFirst == header # None => header.type = versions[1].type

\* The late attribute of an older put may overwrite a newer one's (attrs.rs:77-89 runs after
\* the commit, without a lock), but only while both are under way: once a put is answered
\* with success, each attribute it named holds its value or the value of a put that was not
\* over when it committed.
LaterPutWins ==
  \A p \in Puts : put[p].stage = "ok" =>
    \A c \in put[p].codes : attrs[c] # None /\ attrs[c] \notin put[p].over

\* An attribute's code is registered, although definitions are deleted while puts that have
\* committed their version are still storing attributes.
WhitelistHolds == \A c \in Codes : attrs[c] # None => c \in Registered

\* An administrator who saves a dialog edits the definition it was opened for: never one
\* that another administrator created under the same code since.
EditIsOfTheRowSeen ==
  [][\A a \in Admins, c \in Codes :
       defs'[c].id = defs[c].id /\ defs'[c] # defs[c] /\ defs'[c].by = a
         => page[a] = [code |-> c, id |-> defs[c].id]]_vars

\* A config key keeps the promise of a versioned entry (VersionedSecret), as SecretLedger
\* does for a secret: a history that only grows and a pointer into it.
Entry == INSTANCE VersionedSecret WITH
  Calls <- Puts,
  Args <- 1 .. Cardinality(Puts),
  Modes <- {"plain"},
  st <- IF header = None THEN "absent" ELSE IF header.deleted THEN "deleted" ELSE "live",
  ptr <- Current,
  casReq <- FALSE,
  hist <- [v \in DOMAIN versions |-> versions[v].put],
  log <- {}

ImplementsVersionedEntry == Entry!Spec
===============================================================================
