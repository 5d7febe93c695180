-------------------------- MODULE TokenServiceProofs --------------------------
(***************************************************************************)
(* Theorems about TokenService, for every set of pods and users and every  *)
(* number of requests and crashes.                                         *)
(***************************************************************************)
EXTENDS TokenService, TLAPS

\* The stages of a boot after a token is chosen, and those in which it may yet be stored.
Chosen  == {"exists", "insert", "commit", "file", "write"}
Storing == {"exists", "insert", "commit"}

\* A random token that is not stored and never will be.
Dead(t) ==
  /\ t \in 1..minted /\ t \notin DOMAIN rows
  /\ \A p \in Pods : pc[p] \in Storing => tok[p] # t

Settled(t) == t \in DOMAIN rows \/ Dead(t)

RowsOK ==
  /\ DOMAIN rows \subseteq 0..minted
  /\ seeded /\ DOMAIN rows # {} => 0 \in DOMAIN rows
  /\ told \subseteq DOMAIN rows

PodOK(p) ==
  /\ pc[p] \in Chosen => tok[p] \in 0..minted /\ (seeded <=> tok[p] = 0)
  /\ pc[p] = "commit" => tok[p] \notin DOMAIN rows
  /\ pc[p] \in {"file", "write", "serving"} => DOMAIN rows # {}
  /\ pc[p] \in {"file", "write"} => Settled(tok[p])
  /\ disk[p] # None => Settled(disk[p])

\* Two booting pods share a token only if it is SOMA_ROOT_TOKEN, and never insert it both.
Apart(p, q) ==
  p # q /\ pc[p] \in Chosen /\ pc[q] \in Chosen /\ tok[p] = tok[q] =>
    seeded /\ ~(pc[p] = "commit" /\ pc[q] = "commit")

RequestOK(u) ==
  /\ req[u].stage = "auth" =>
       Settled(req[u].token) /\ (Usable(req[u].token) /\ IsAdmin(req[u].token) => req[u].entitled)
  /\ req[u].stage = "handle" => DOMAIN rows # {} /\ (req[u].admin => req[u].entitled)

IInv ==
  /\ TypeOK /\ RowsOK /\ LogMatchesTable
  /\ \A p \in Pods : PodOK(p)
  /\ \A p, q \in Pods : Apart(p, q)
  /\ \A u \in Users : RequestOK(u)

\* What a step may do to the table.
RowsGoOn ==
  \A t \in DOMAIN rows :
    /\ t \in DOMAIN rows' /\ rows'[t].name = rows[t].name
    /\ rows[t].revoked => rows'[t].revoked
    /\ \/ rows'[t].standing = rows[t].standing
       \/ rows[t].standing = "admin" /\ rows'[t].standing # "admin"

-------------------------------------------------------------------------------
\* Steps that leave the table, or most of it, as it is.

\* A token that is usable by an administrator after a step was so before.
LEMMA UsableBefore ==
  ASSUME TypeOK, RowsGoOn, NEW t \in DOMAIN rows, Usable(t)', IsAdmin(t)'
  PROVE  Usable(t) /\ IsAdmin(t)
<1>1. rows[t] \in TokenRow
  BY DEF TypeOK
<1>2. ~rows'[t].revoked /\ rows'[t].standing = "admin"
  BY DEF Usable, Live, IsAdmin
<1>3. ~rows[t].revoked /\ rows[t].standing = "admin"
  BY <1>2 DEF RowsGoOn
<1>. QED
  BY <1>3 DEF Usable, Live, IsAdmin

\* Settled tokens stay settled if a step stores only the token of a pod that is storing
\* or a new one, and no pod turns to storing an old random token.
LEMMA SettledGoesOn ==
  ASSUME TypeOK, RowsGoOn, minted' \in Nat, minted' >= minted,
         \A t \in DOMAIN rows' \ DOMAIN rows :
           t > minted \/ \E p \in Pods : pc[p] \in Storing /\ tok[p] = t,
         \A p \in Pods : pc'[p] \in Storing =>
           tok'[p] = 0 \/ tok'[p] = minted + 1 \/ (pc[p] \in Storing /\ tok'[p] = tok[p])
  PROVE  /\ \A t : Dead(t) => Dead(t)'
         /\ \A t : Settled(t) => Settled(t)'
<1>1. ASSUME NEW t, Dead(t) PROVE Dead(t)'
  <2>1. t \in 1..minted /\ t \notin DOMAIN rows /\ minted \in Nat
    BY <1>1 DEF Dead, TypeOK, Tokens
  <2>2. t \in 1..minted'
    BY <2>1
  <2>3. t \notin DOMAIN rows'
    BY <1>1, <2>1 DEF Dead
  <2>4. \A p \in Pods : pc'[p] \in Storing => tok'[p] # t
    BY <1>1, <2>1 DEF Dead
  <2>. QED
    BY <2>2, <2>3, <2>4 DEF Dead
<1>2. ASSUME NEW t, Settled(t) PROVE Settled(t)'
  BY <1>1, <1>2 DEF Settled, RowsGoOn
<1>. QED
  BY <1>1, <1>2

\* A request that a step leaves alone stays in order, if the step spares settled tokens.
LEMMA RequestGoesOn ==
  ASSUME TypeOK, RowsGoOn, NEW u \in Users, RequestOK(u), req'[u] = req[u],
         \A t : Settled(t) => Settled(t)', \A t : Dead(t) => Dead(t)'
  PROVE  RequestOK(u)'
<1>. DEFINE t == req[u].token
<1>1. req[u].stage = "handle" => DOMAIN rows' # {}
  BY DEF RequestOK, RowsGoOn
<1>2. CASE req[u].stage = "auth"
  <2>1. Settled(t) /\ (Usable(t) /\ IsAdmin(t) => req[u].entitled)
    BY <1>2 DEF RequestOK
  <2>3. Settled(t)'
    BY <2>1
  <2>4. Usable(t)' /\ IsAdmin(t)' => req[u].entitled
    <3>1. CASE t \in DOMAIN rows
      BY <2>1, <3>1, UsableBefore
    <3>2. CASE Dead(t)
      <4>1. t \notin DOMAIN rows'
        BY <3>2 DEF Dead
      <4>. QED
        BY <4>1 DEF Usable, Live
    <3>. QED
      BY <2>1, <3>1, <3>2 DEF Settled
  <2>5. req'[u].token = t /\ req'[u].stage = "auth" /\ req'[u].entitled = req[u].entitled
    BY <1>2
  <2>. QED
    BY <2>3, <2>4, <2>5 DEF RequestOK, Settled, Dead, Usable, Live, IsAdmin
<1>3. CASE req[u].stage # "auth"
  BY <1>1, <1>3 DEF RequestOK
<1>. QED
  BY <1>2, <1>3

\* A pod that a step leaves alone stays in order, if nobody stores its token.
LEMMA PodGoesOn ==
  ASSUME TypeOK, RowsGoOn, NEW q \in Pods, PodOK(q), seeded' = seeded,
         pc'[q] = pc[q], tok'[q] = tok[q], disk'[q] = disk[q],
         minted' \in Nat, minted' >= minted, \A t : Settled(t) => Settled(t)',
         pc[q] = "commit" => tok[q] \notin DOMAIN rows'
  PROVE  PodOK(q)'
<1>1. minted \in Nat /\ (DOMAIN rows # {} => DOMAIN rows' # {})
  BY DEF TypeOK, RowsGoOn, Tokens
<1>2. pc'[q] \in Chosen => tok'[q] \in 0..minted' /\ (seeded' <=> tok'[q] = 0)
  BY <1>1 DEF PodOK
<1>3. pc'[q] \in {"file", "write"} => Settled(tok[q])'
  BY DEF PodOK, Settled, Dead
<1>4. disk'[q] # None => Settled(disk[q])'
  BY DEF PodOK, Settled, Dead
<1>. QED
  BY <1>1, <1>2, <1>3, <1>4 DEF PodOK

\* What the steps of a boot that leave the table alone have in common: the rest of the
\* invariant is about the pod's own place, token and file.
LEMMA TableKept ==
  ASSUME IInv, TypeOK', NEW p \in Pods, UNCHANGED <<seeded, rows, log, told, req>>,
         minted' \in {minted, minted + 1},
         \A q \in Pods \ {p} : pc'[q] = pc[q] /\ tok'[q] = tok[q] /\ disk'[q] = disk[q],
         pc'[p] \in Storing =>
           tok'[p] = 0 \/ tok'[p] = minted + 1 \/ (pc[p] \in Storing /\ tok'[p] = tok[p])
  PROVE  /\ RowsGoOn /\ RowsOK' /\ LogMatchesTable'
         /\ \A t : Settled(t) => Settled(t)'
         /\ \A q \in Pods \ {p} : PodOK(q)'
         /\ \A u \in Users : RequestOK(u)'
<1>1. minted \in Nat /\ minted' \in Nat /\ minted' >= minted
  BY DEF IInv, TypeOK, Tokens
<1>2. RowsGoOn
  BY DEF RowsGoOn
<1>3. RowsOK'
  BY <1>1 DEF IInv, RowsOK
<1>4. LogMatchesTable'
  BY DEF IInv, LogMatchesTable
<1>5. /\ \A t : Dead(t) => Dead(t)'
      /\ \A t : Settled(t) => Settled(t)'
  BY <1>1, <1>2, SettledGoesOn DEF IInv
<1>6. ASSUME NEW q \in Pods \ {p} PROVE PodOK(q)'
  BY <1>1, <1>2, <1>5, PodGoesOn DEF IInv, PodOK
<1>7. ASSUME NEW u \in Users PROVE RequestOK(u)'
  BY <1>2, <1>5, RequestGoesOn DEF IInv
<1>. QED
  BY <1>2, <1>3, <1>4, <1>5, <1>6, <1>7

-------------------------------------------------------------------------------
\* Each step preserves the invariant.

LEMMA BootKeeps == ASSUME IInv, NEW p \in Pods, Boot(p) PROVE IInv'
<1>. USE DEF Boot, Step
<1>1. TypeOK'
  BY DEF IInv, TypeOK
<1>2. pc[p] = "down" /\ pc'[p] = "count" /\ \A q \in Pods \ {p} : pc'[q] = pc[q]
  BY DEF IInv, TypeOK
<1>3. RowsOK' /\ LogMatchesTable' /\ (\A t : Settled(t) => Settled(t)')
      /\ (\A q \in Pods \ {p} : PodOK(q)') /\ \A u \in Users : RequestOK(u)'
  BY <1>1, <1>2, TableKept DEF Storing
<1>4. PodOK(p)'
  BY <1>2, <1>3 DEF IInv, PodOK, Chosen
<1>5. \A q, r \in Pods : Apart(q, r)'
  BY <1>2 DEF IInv, Apart, Chosen
<1>. QED
  BY <1>1, <1>3, <1>4, <1>5 DEF IInv

\* A random token chosen at boot is nobody else's.
LEMMA CountTokensKeeps == ASSUME IInv, NEW p \in Pods, CountTokens(p) PROVE IInv'
<1>. USE DEF CountTokens, Step
<1>1. TypeOK'
  <2>1. minted \in Nat /\ minted + 1 \in Nat
    BY DEF IInv, TypeOK, Tokens
  <2>. QED
    BY <2>1 DEF IInv, TypeOK, Tokens, Live
<1>2. pc[p] = "count" /\ \A q \in Pods \ {p} : pc'[q] = pc[q] /\ tok'[q] = tok[q]
  BY DEF IInv, TypeOK
<1>3. CASE pc'[p] = "serving" /\ (\E t \in DOMAIN rows : Live(t)) /\ UNCHANGED <<minted, tok>>
  <2>1. RowsOK' /\ LogMatchesTable' /\ (\A t : Settled(t) => Settled(t)')
        /\ (\A q \in Pods \ {p} : PodOK(q)') /\ \A u \in Users : RequestOK(u)'
    BY <1>1, <1>2, <1>3, TableKept DEF Storing
  <2>2. PodOK(p)'
    BY <1>3, <2>1 DEF IInv, PodOK, Chosen
  <2>3. \A q, r \in Pods : Apart(q, r)'
    BY <1>2, <1>3 DEF IInv, Apart, Chosen
  <2>. QED
    BY <1>1, <2>1, <2>2, <2>3 DEF IInv
<1>4. CASE /\ pc'[p] = "exists"
           /\ tok'[p] = IF seeded THEN 0 ELSE minted + 1
           /\ minted' = IF seeded THEN minted ELSE minted + 1
  <2>1. RowsOK' /\ LogMatchesTable' /\ (\A t : Settled(t) => Settled(t)')
        /\ (\A q \in Pods \ {p} : PodOK(q)') /\ \A u \in Users : RequestOK(u)'
    BY <1>1, <1>2, <1>4, TableKept DEF Storing
  <2>2. minted \in Nat
    BY DEF IInv, TypeOK, Tokens
  <2>3. PodOK(p)'
    BY <1>4, <2>1, <2>2 DEF IInv, PodOK, Chosen
  <2>4. ASSUME NEW q \in Pods, NEW r \in Pods PROVE Apart(q, r)'
    <3>1. \A x \in Pods : pc[x] \in Chosen => tok[x] \in 0..minted
      BY DEF IInv, PodOK
    <3>2. CASE q # p /\ r # p
      BY <1>2, <3>2 DEF IInv, Apart
    <3>3. CASE seeded
      BY <1>2, <1>4, <3>3 DEF IInv, Apart
    <3>4. CASE ~seeded /\ (q = p \/ r = p)
      BY <1>2, <1>4, <2>2, <3>1, <3>4 DEF Apart
    <3>. QED
      BY <3>2, <3>3, <3>4
  <2>. QED
    BY <1>1, <2>1, <2>3, <2>4 DEF IInv
<1>. QED
  BY <1>3, <1>4 DEF IInv, TypeOK

\* A pod that finds a root token stored has settled its own: it stores none, and if the
\* token is SOMA_ROOT_TOKEN it is in the table already.
LEMMA CheckNameKeeps == ASSUME IInv, NEW p \in Pods, CheckName(p) PROVE IInv'
<1>. USE DEF CheckName, Step
<1>1. TypeOK'
  BY DEF IInv, TypeOK
<1>2. /\ pc[p] = "exists" /\ (\A q \in Pods \ {p} : pc'[q] = pc[q])
      /\ pc'[p] = IF NameExists THEN "file" ELSE "insert"
  BY DEF IInv, TypeOK
<1>3. RowsOK' /\ LogMatchesTable' /\ (\A t : Settled(t) => Settled(t)')
      /\ (\A q \in Pods \ {p} : PodOK(q)') /\ \A u \in Users : RequestOK(u)'
  BY <1>1, <1>2, TableKept DEF Storing
<1>4. PodOK(p)
  BY DEF IInv
<1>5. \A q, r \in Pods : Apart(q, r)'
  BY <1>2 DEF IInv, Apart, Chosen
<1>6. PodOK(p)'
  <2>1. CASE ~NameExists
    BY <1>2, <1>3, <1>4, <2>1 DEF PodOK, Chosen, Settled, Dead
  <2>2. CASE NameExists
    <3>1. DOMAIN rows # {} /\ (seeded => 0 \in DOMAIN rows)
      BY <2>2 DEF IInv, RowsOK, NameExists
    <3>2. tok[p] \in 0..minted /\ (seeded <=> tok[p] = 0) /\ minted \in Nat
      BY <1>2, <1>4 DEF IInv, TypeOK, Tokens, PodOK, Chosen
    <3>3. Settled(tok[p])'
      <4>1. CASE seeded
        BY <3>1, <3>2, <4>1 DEF Settled
      <4>2. CASE ~seeded
        <5>1. tok[p] \in 1..minted
          BY <3>2, <4>2
        <5>2. \A q \in Pods : pc'[q] \in Storing => tok[q] # tok[p]
          BY <1>2, <2>2, <4>2 DEF IInv, Apart, Storing, Chosen
        <5>. QED
          BY <5>1, <5>2 DEF Settled, Dead
      <4>. QED
        BY <4>1, <4>2
    <3>4. disk'[p] # None => Settled(disk[p])'
      BY <1>3, <1>4 DEF PodOK, Settled, Dead
    <3>. QED
      BY <1>2, <2>2, <3>1, <3>2, <3>3, <3>4 DEF PodOK
  <2>. QED
    BY <2>1, <2>2
<1>. QED
  BY <1>1, <1>3, <1>5, <1>6 DEF IInv

\* The unique index lets one pod at a time hold an uncommitted row for a token.
LEMMA InsertRootKeeps == ASSUME IInv, NEW p \in Pods, InsertRoot(p) PROVE IInv'
<1>. USE DEF InsertRoot, Step
<1>1. TypeOK'
  BY DEF IInv, TypeOK
<1>2. /\ pc[p] = "insert"
      /\ \A q \in Pods \ {p} : pc'[q] = pc[q] /\ tok'[q] = tok[q]
      /\ \/ pc'[p] = "down"
         \/ pc'[p] = "commit" /\ tok'[p] = tok[p] /\ tok[p] \notin DOMAIN rows
  BY DEF IInv, TypeOK
<1>3. RowsOK' /\ LogMatchesTable' /\ (\A t : Settled(t) => Settled(t)')
      /\ (\A q \in Pods \ {p} : PodOK(q)') /\ \A u \in Users : RequestOK(u)'
  BY <1>1, <1>2, TableKept DEF Storing
<1>4. PodOK(p)'
  <2>1. disk'[p] # None => Settled(disk[p])'
    BY <1>3 DEF IInv, PodOK, Settled, Dead
  <2>. QED
    BY <1>2, <2>1 DEF IInv, PodOK, Chosen
<1>5. \A q, r \in Pods : Apart(q, r)'
  BY <1>2 DEF IInv, Apart, Chosen
<1>. QED
  BY <1>1, <1>3, <1>4, <1>5 DEF IInv

LEMMA OpenFileKeeps == ASSUME IInv, NEW p \in Pods, OpenFile(p) PROVE IInv'
<1>. USE DEF OpenFile, Step
<1>1. TypeOK'
  BY DEF IInv, TypeOK
<1>2. /\ pc[p] = "file" /\ pc'[p] = "write" /\ disk'[p] = None
      /\ \A q \in Pods \ {p} : pc'[q] = pc[q] /\ disk'[q] = disk[q]
  BY DEF IInv, TypeOK
<1>3. RowsOK' /\ LogMatchesTable' /\ (\A t : Settled(t) => Settled(t)')
      /\ (\A q \in Pods \ {p} : PodOK(q)') /\ \A u \in Users : RequestOK(u)'
  BY <1>1, <1>2, TableKept DEF Storing
<1>4. PodOK(p)'
  <2>1. Settled(tok[p])'
    BY <1>2, <1>3 DEF IInv, PodOK, Settled, Dead
  <2>. QED
    BY <1>2, <2>1 DEF IInv, PodOK, Chosen
<1>5. \A q, r \in Pods : Apart(q, r)'
  BY <1>2 DEF IInv, Apart, Chosen
<1>. QED
  BY <1>1, <1>3, <1>4, <1>5 DEF IInv

LEMMA WriteFileKeeps == ASSUME IInv, NEW p \in Pods, WriteFile(p) PROVE IInv'
<1>. USE DEF WriteFile, Step
<1>1. TypeOK'
  BY DEF IInv, TypeOK
<1>2. /\ pc[p] = "write" /\ pc'[p] = "serving" /\ disk'[p] = tok[p]
      /\ \A q \in Pods \ {p} : pc'[q] = pc[q] /\ disk'[q] = disk[q]
  BY DEF IInv, TypeOK
<1>3. RowsOK' /\ LogMatchesTable' /\ (\A t : Settled(t) => Settled(t)')
      /\ (\A q \in Pods \ {p} : PodOK(q)') /\ \A u \in Users : RequestOK(u)'
  BY <1>1, <1>2, TableKept DEF Storing
<1>4. PodOK(p)'
  <2>1. Settled(tok[p])'
    BY <1>2, <1>3 DEF IInv, PodOK, Settled, Dead
  <2>2. Settled(disk[p])'
    BY <1>2, <2>1 DEF Settled, Dead
  <2>. QED
    BY <1>2, <2>2 DEF IInv, PodOK, Chosen
<1>5. \A q, r \in Pods : Apart(q, r)'
  BY <1>2 DEF IInv, Apart, Chosen
<1>. QED
  BY <1>1, <1>3, <1>4, <1>5 DEF IInv

\* The row committed is of a token that no row and no event has, and that no other pod
\* is committing.
LEMMA CommitRootKeeps == ASSUME IInv, NEW p \in Pods, CommitRoot(p) PROVE IInv' /\ RowsGoOn
<1>. USE DEF CommitRoot, Step, AddRow
<1>1. /\ pc[p] = "commit" /\ pc'[p] = "file"
      /\ tok[p] \in 0..minted /\ tok[p] \notin DOMAIN rows /\ (seeded <=> tok[p] = 0)
      /\ \A q \in Pods \ {p} : pc'[q] = pc[q]
      /\ minted \in Nat
  BY DEF IInv, TypeOK, PodOK, Chosen, Tokens
<1>2. /\ DOMAIN rows' = DOMAIN rows \cup {tok[p]}
      /\ \A t \in DOMAIN rows : rows'[t] = rows[t]
      /\ rows'[tok[p]] = [name |-> "root", standing |-> "admin", revoked |-> FALSE]
  BY <1>1
<1>3. RowsGoOn
  BY <1>2 DEF RowsGoOn
<1>4. TypeOK'
  <2>1. /\ tok[p] \in Tokens
        /\ [name |-> "root", standing |-> "admin", revoked |-> FALSE] \in TokenRow
    BY <1>1 DEF Tokens, TokenRow
  <2>2. DOMAIN rows' \subseteq Tokens /\ rows' \in [DOMAIN rows' -> TokenRow]
    BY <1>2, <2>1 DEF IInv, TypeOK
  <2>3. pc' \in [Pods -> {"down", "count", "exists", "insert", "commit", "file", "write", "serving"}]
    BY DEF IInv, TypeOK
  <2>. QED
    BY <2>2, <2>3 DEF IInv, TypeOK
<1>5. RowsOK'
  BY <1>1, <1>2 DEF IInv, RowsOK
<1>6. LogMatchesTable'
  <2>1. \A e \in log : e.token # tok[p]
    BY <1>1 DEF IInv, LogMatchesTable
  <2>. QED
    BY <1>2, <2>1 DEF IInv, LogMatchesTable
<1>7. /\ \A t : Dead(t) => Dead(t)'
      /\ \A t : Settled(t) => Settled(t)'
  <2>1. \A q \in Pods : pc'[q] \in Storing => pc[q] \in Storing
    BY <1>1 DEF Storing
  <2>. QED
    BY <1>1, <1>2, <1>3, <2>1, SettledGoesOn DEF IInv, Storing
<1>8. ASSUME NEW q \in Pods \ {p} PROVE PodOK(q)'
  <2>1. pc[q] = "commit" => tok[q] \notin DOMAIN rows'
    BY <1>1, <1>2 DEF IInv, Apart, PodOK, Chosen
  <2>. QED
    BY <1>1, <1>3, <1>7, <2>1, PodGoesOn DEF IInv
<1>9. PodOK(p)'
  <2>1. disk'[p] # None => Settled(disk[p])'
    BY <1>7 DEF IInv, PodOK, Settled, Dead
  <2>2. Settled(tok[p])'
    BY <1>2 DEF Settled
  <2>. QED
    BY <1>1, <1>2, <2>1, <2>2 DEF PodOK
<1>10. \A q, r \in Pods : Apart(q, r)'
  BY <1>1 DEF IInv, Apart, Chosen
<1>11. ASSUME NEW u \in Users PROVE RequestOK(u)'
  BY <1>3, <1>7, RequestGoesOn DEF IInv
<1>. QED
  BY <1>3, <1>4, <1>5, <1>6, <1>8, <1>9, <1>10, <1>11 DEF IInv

\* A pod that dies rolls back what it had not committed.
LEMMA CrashKeeps == ASSUME IInv, NEW p \in Pods, Crash(p) PROVE IInv'
<1>. USE DEF Crash
<1>1. TypeOK'
  <2>1. NoRequest \in Request
    BY DEF NoRequest, Request
  <2>2. req' \in [Users -> Request] /\ crashes' \in Nat
    BY <2>1 DEF IInv, TypeOK
  <2>. QED
    BY <2>2 DEF IInv, TypeOK
<1>2. /\ pc'[p] = "down"
      /\ \A q \in Pods \ {p} : pc'[q] = pc[q] /\ tok'[q] = tok[q]
      /\ minted \in Nat
  BY DEF IInv, TypeOK, Tokens
<1>3. RowsGoOn /\ RowsOK' /\ LogMatchesTable'
  BY DEF IInv, RowsGoOn, RowsOK, LogMatchesTable
<1>4. /\ \A t : Dead(t) => Dead(t)'
      /\ \A t : Settled(t) => Settled(t)'
  BY <1>2, <1>3, SettledGoesOn DEF IInv, Storing
<1>5. ASSUME NEW q \in Pods \ {p} PROVE PodOK(q)'
  BY <1>2, <1>3, <1>4, PodGoesOn DEF IInv, PodOK
<1>6. PodOK(p)'
  BY <1>2, <1>4 DEF IInv, PodOK, Chosen, Settled, Dead
<1>7. \A q, r \in Pods : Apart(q, r)'
  BY <1>2 DEF IInv, Apart, Chosen
<1>8. ASSUME NEW u \in Users PROVE RequestOK(u)'
  <2>1. CASE req'[u] = req[u]
    BY <1>3, <1>4, <2>1, RequestGoesOn DEF IInv
  <2>2. CASE req'[u] = NoRequest
    BY <2>2 DEF RequestOK, NoRequest
  <2>. QED
    BY <2>1, <2>2
<1>. QED
  BY <1>1, <1>3, <1>5, <1>6, <1>7, <1>8 DEF IInv

\* What the steps of requests and operators have in common: the pods are left alone, and
\* so are the other requests.
LEMMA PodsKept ==
  ASSUME IInv, RowsGoOn, UNCHANGED <<seeded, pc, tok, disk>>,
         minted' \in Nat, minted' >= minted,
         \A t \in DOMAIN rows' \ DOMAIN rows : t > minted
  PROVE  /\ \A t : Settled(t) => Settled(t)'
         /\ \A p \in Pods : PodOK(p)'
         /\ \A p, q \in Pods : Apart(p, q)'
         /\ \A u \in Users : req'[u] = req[u] => RequestOK(u)'
<1>1. /\ \A t : Dead(t) => Dead(t)'
      /\ \A t : Settled(t) => Settled(t)'
  BY SettledGoesOn DEF IInv
<1>2. ASSUME NEW p \in Pods PROVE PodOK(p)'
  <2>1. pc[p] = "commit" => tok[p] \notin DOMAIN rows'
    <3>1. minted \in Nat /\ (pc[p] = "commit" => tok[p] \in 0..minted /\ tok[p] \notin DOMAIN rows)
      BY DEF IInv, TypeOK, Tokens, PodOK, Chosen
    <3>. QED
      BY <3>1
  <2>. QED
    BY <1>1, <2>1, PodGoesOn DEF IInv
<1>3. \A p, q \in Pods : Apart(p, q)'
  BY DEF IInv, Apart
<1>4. ASSUME NEW u \in Users, req'[u] = req[u] PROVE RequestOK(u)'
  BY <1>1, <1>4, RequestGoesOn DEF IInv
<1>. QED
  BY <1>1, <1>2, <1>3, <1>4

\* A request is made with a token that is settled: of SOMA_ROOT_TOKEN because the pod
\* that serves has it in the table.
LEMMA AskKeeps == ASSUME IInv, NEW u \in Users, Ask(u) PROVE IInv'
<1>1. PICK p \in Pods, t \in Known, op \in {"create", "revoke"}, x \in DOMAIN rows \cup {None} :
        /\ pc[p] = "serving"
        /\ x = None <=> op = "create"
        /\ req' = [req EXCEPT ![u] =
             [id |-> begun + 1, stage |-> "auth", pod |-> p, token |-> t, op |-> op,
              target |-> x, admin |-> FALSE, entitled |-> Usable(t) /\ IsAdmin(t)]]
  BY Zenon DEF Ask
<1>2. /\ UNCHANGED <<seeded, rows, log, minted, pc, tok, disk, told, crashes>>
      /\ begun' = begun + 1 /\ minted \in Nat /\ begun \in Nat
  BY DEF Ask, IInv, TypeOK, Tokens
<1>3. DOMAIN rows # {}
  BY <1>1 DEF IInv, PodOK
<1>4. Settled(t)
  <2>1. CASE seeded /\ t = 0
    BY <1>3, <2>1 DEF IInv, RowsOK, Settled
  <2>2. CASE t \in told
    BY <2>2 DEF IInv, RowsOK, Settled
  <2>3. CASE \E q \in Pods : t = disk[q] /\ t # None
    BY <2>3 DEF IInv, PodOK
  <2>. QED
    BY <2>1, <2>2, <2>3 DEF Known
<1>5. t \in Tokens
  BY <1>2, <1>4 DEF Settled, Dead, IInv, TypeOK, Tokens
<1>6. TypeOK'
  <2>1. (Usable(t) /\ IsAdmin(t)) \in BOOLEAN
    OBVIOUS
  <2>2. req'[u] \in Request
    <3>1. x \in Tokens \cup {None}
      BY DEF IInv, TypeOK
    <3>. DEFINE r == [id |-> begun + 1, stage |-> "auth", pod |-> p, token |-> t, op |-> op,
                      target |-> x, admin |-> FALSE, entitled |-> Usable(t) /\ IsAdmin(t)]
    <3>2. r \in Request
      BY <1>2, <1>5, <3>1, <2>1 DEF Request
    <3>3. req'[u] = r
      BY <1>1 DEF IInv, TypeOK
    <3>. QED
      BY <3>2, <3>3
  <2>3. req' \in [Users -> Request]
    BY <1>1, <2>2 DEF IInv, TypeOK
  <2>. QED
    BY <1>2, <2>3 DEF IInv, TypeOK, Tokens
<1>7. RowsGoOn /\ RowsOK' /\ LogMatchesTable'
  BY <1>2 DEF IInv, RowsGoOn, RowsOK, LogMatchesTable
<1>8. /\ \A q \in Pods : PodOK(q)'
      /\ \A q, r \in Pods : Apart(q, r)'
      /\ \A v \in Users \ {u} : RequestOK(v)'
  <2>1. \A v \in Users \ {u} : req'[v] = req[v]
    BY <1>1 DEF IInv, TypeOK
  <2>. QED
    BY <1>2, <1>7, <2>1, PodsKept
<1>9. RequestOK(u)'
  <2>1. /\ req'[u].stage = "auth" /\ req'[u].token = t
        /\ req'[u].entitled = (Usable(t) /\ IsAdmin(t))
    BY <1>1 DEF IInv, TypeOK
  <2>2. Settled(t)' /\ (Usable(t)' <=> Usable(t)) /\ (IsAdmin(t)' <=> IsAdmin(t))
    BY <1>2, <1>4 DEF Settled, Dead, Usable, Live, IsAdmin
  <2>. QED
    BY <2>1, <2>2 DEF RequestOK, Settled, Dead, Usable, Live, IsAdmin
<1>. QED
  BY <1>6, <1>7, <1>8, <1>9 DEF IInv

\* Answering a request, and nothing else, keeps the request well-formed and forgotten.
LEMMA AnswerKeeps ==
  ASSUME TypeOK, NEW u \in Users, Answer(u)
  PROVE  /\ req' \in [Users -> Request]
         /\ \A v \in Users \ {u} : req'[v] = req[v]
         /\ RequestOK(u)'
<1>1. NoRequest \in Request
  BY DEF NoRequest, Request
<1>2. req' \in [Users -> Request]
  BY <1>1 DEF TypeOK, Answer
<1>3. req'[u] = NoRequest /\ \A v \in Users \ {u} : req'[v] = req[v]
  BY DEF TypeOK, Answer
<1>4. RequestOK(u)'
  BY <1>3 DEF RequestOK, NoRequest
<1>. QED
  BY <1>2, <1>3, <1>4

\* The role that the handler will check is read from a row that is usable now, and what
\* is usable by an administrator now was so when the request began.
LEMMA AuthenticateKeeps == ASSUME IInv, NEW u \in Users, Authenticate(u) PROVE IInv'
<1>1. /\ UNCHANGED <<seeded, rows, log, minted, pc, tok, disk, told, begun, crashes>>
      /\ minted \in Nat /\ TypeOK
  BY DEF Authenticate, IInv, TypeOK, Tokens
<1>2. RowsGoOn /\ RowsOK' /\ LogMatchesTable'
  BY <1>1 DEF IInv, RowsGoOn, RowsOK, LogMatchesTable
<1>3. /\ req' \in [Users -> Request]
      /\ \A v \in Users \ {u} : req'[v] = req[v]
      /\ RequestOK(u)'
  <2>1. CASE Answer(u)
    BY <1>1, <2>1, AnswerKeeps
  <2>2. CASE /\ req[u].stage = "auth" /\ Usable(req[u].token)
             /\ req' = [req EXCEPT ![u].stage = "handle", ![u].admin = IsAdmin(req[u].token)]
    <3>. DEFINE r == [req[u] EXCEPT !.stage = "handle", !.admin = IsAdmin(req[u].token)]
    <3>1. IsAdmin(req[u].token) \in BOOLEAN
      BY DEF IsAdmin
    <3>2. req[u] \in Request
      BY <1>1 DEF TypeOK
    <3>3. r \in Request
      BY <3>1, <3>2 DEF Request
    <3>4. req' = [req EXCEPT ![u] = r]
      BY <2>2, <3>2 DEF Request
    <3>5. req'[u] = r
      BY <1>1, <3>4 DEF TypeOK
    <3>6. DOMAIN rows # {} /\ (IsAdmin(req[u].token) => req[u].entitled)
      BY <2>2 DEF IInv, RequestOK, Usable, Live
    <3>7. r.stage = "handle" /\ r.admin = IsAdmin(req[u].token) /\ r.entitled = req[u].entitled
      BY <3>2 DEF Request
    <3>8. RequestOK(u)'
      BY <1>1, <3>5, <3>6, <3>7 DEF RequestOK
    <3>9. req' \in [Users -> Request] /\ \A v \in Users \ {u} : req'[v] = req[v]
      BY <1>1, <3>3, <3>4 DEF TypeOK
    <3>. QED
      BY <3>8, <3>9
  <2>. QED
    BY <2>1, <2>2 DEF Authenticate
<1>4. TypeOK'
  BY <1>1, <1>3 DEF TypeOK
<1>5. /\ \A q \in Pods : PodOK(q)'
      /\ \A q, r \in Pods : Apart(q, r)'
      /\ \A v \in Users \ {u} : RequestOK(v)'
  BY <1>1, <1>2, <1>3, PodsKept
<1>. QED
  BY <1>2, <1>3, <1>4, <1>5 DEF IInv

LEMMA RefuseKeeps == ASSUME IInv, NEW u \in Users, Refuse(u) PROVE IInv'
<1>1. /\ UNCHANGED <<seeded, rows, log, minted, pc, tok, disk, told, begun, crashes>>
      /\ minted \in Nat /\ TypeOK /\ Answer(u)
  BY DEF Refuse, IInv, TypeOK, Tokens
<1>2. RowsGoOn /\ RowsOK' /\ LogMatchesTable'
  BY <1>1 DEF IInv, RowsGoOn, RowsOK, LogMatchesTable
<1>3. /\ req' \in [Users -> Request]
      /\ \A v \in Users \ {u} : req'[v] = req[v]
      /\ RequestOK(u)'
  BY <1>1, AnswerKeeps
<1>4. TypeOK'
  BY <1>1, <1>3 DEF TypeOK
<1>5. /\ \A q \in Pods : PodOK(q)'
      /\ \A q, r \in Pods : Apart(q, r)'
      /\ \A v \in Users \ {u} : RequestOK(v)'
  BY <1>1, <1>2, <1>3, PodsKept
<1>. QED
  BY <1>2, <1>3, <1>4, <1>5 DEF IInv

\* A new random token is of no row and of no event.
LEMMA CreateTokenKeeps == ASSUME IInv, NEW u \in Users, CreateToken(u) PROVE IInv' /\ RowsGoOn
<1>. DEFINE t == minted + 1
            e == [id |-> req[u].id, kind |-> req[u].op, token |-> t]
<1>1. /\ UNCHANGED <<seeded, pc, tok, disk, begun, crashes>>
      /\ minted' = t /\ log' = log \cup {e} /\ told' \in {told, told \cup {t}}
      /\ Answer(u) /\ TypeOK /\ minted \in Nat
      /\ req[u].stage = "handle" /\ req[u].op = "create" /\ req[u] \in Request
  BY DEF CreateToken, Allowed, Record, IInv, TypeOK, Tokens
<1>2. PICK name \in {"root", "other"} : AddRow(t, name)
  BY DEF CreateToken
<1>3. t \in Tokens /\ t \notin DOMAIN rows /\ DOMAIN rows # {} /\ minted' \in Nat /\ minted' >= minted
  BY <1>1 DEF IInv, RowsOK, RequestOK, Tokens
<1>4. /\ DOMAIN rows' = DOMAIN rows \cup {t}
      /\ \A x \in DOMAIN rows : rows'[x] = rows[x]
      /\ rows'[t] = [name |-> name, standing |-> "admin", revoked |-> FALSE]
  BY <1>2, <1>3 DEF AddRow
<1>5. RowsGoOn
  BY <1>4 DEF RowsGoOn
<1>6. RowsOK'
  BY <1>1, <1>3, <1>4 DEF IInv, RowsOK
<1>7. LogMatchesTable'
  <2>1. \A f \in log : f.token # t /\ f.token \in DOMAIN rows
    BY <1>3 DEF IInv, LogMatchesTable
  <2>2. e.kind = "create" /\ e.token = t
    BY <1>1
  <2>3. ASSUME NEW x \in DOMAIN rows'
        PROVE  /\ rows'[x].name # "root" => \E f \in log' : f.kind = "create" /\ f.token = x
               /\ rows'[x].revoked <=> \E f \in log' : f.kind = "revoke" /\ f.token = x
    <3>1. CASE x = t
      <4>1. e \in log' /\ ~rows'[t].revoked
        BY <1>1, <1>4
      <4>2. ~\E f \in log' : f.kind = "revoke" /\ f.token = t
        BY <1>1, <2>1, <2>2
      <4>. QED
        BY <2>2, <3>1, <4>1, <4>2
    <3>2. CASE x \in DOMAIN rows /\ x # t
      <4>1. /\ rows[x].name # "root" => \E f \in log : f.kind = "create" /\ f.token = x
            /\ rows[x].revoked <=> \E f \in log : f.kind = "revoke" /\ f.token = x
        BY <3>2 DEF IInv, LogMatchesTable
      <4>2. rows'[x] = rows[x]
        BY <1>4, <3>2
      <4>. QED
        BY <1>1, <2>2, <3>2, <4>1, <4>2
    <3>. QED
      BY <1>3, <1>4, <3>1, <3>2
  <2>4. \A f, g \in log' : f.kind = g.kind /\ f.token = g.token => f = g
    BY <1>1, <2>1, <2>2 DEF IInv, LogMatchesTable
  <2>5. \A f \in log' : f.token \in DOMAIN rows'
    BY <1>1, <1>4, <2>1, <2>2
  <2>. QED
    BY <2>3, <2>4, <2>5 DEF LogMatchesTable
<1>8. /\ req' \in [Users -> Request]
      /\ \A v \in Users \ {u} : req'[v] = req[v]
      /\ RequestOK(u)'
  BY <1>1, AnswerKeeps
<1>9. TypeOK'
  <2>1. [name |-> name, standing |-> "admin", revoked |-> FALSE] \in TokenRow
    BY DEF TokenRow
  <2>2. DOMAIN rows' \subseteq Tokens /\ rows' \in [DOMAIN rows' -> TokenRow]
    BY <1>2, <1>3, <1>4, <2>1 DEF IInv, TypeOK, AddRow
  <2>3. e \in Event
    BY <1>1, <1>3 DEF Request, Event
  <2>. QED
    BY <1>1, <1>3, <1>8, <2>2, <2>3 DEF TypeOK
<1>10. /\ \A q \in Pods : PodOK(q)'
       /\ \A q, r \in Pods : Apart(q, r)'
       /\ \A v \in Users \ {u} : RequestOK(v)'
  <2>1. \A x \in DOMAIN rows' \ DOMAIN rows : x > minted
    BY <1>1, <1>4
  <2>. QED
    BY <1>1, <1>3, <1>5, <1>8, <2>1, PodsKept
<1>. QED
  BY <1>5, <1>6, <1>7, <1>8, <1>9, <1>10 DEF IInv

\* Only a live token is revoked, so that no token has two revocation events.
LEMMA RevokeTokenKeeps == ASSUME IInv, NEW u \in Users, RevokeToken(u) PROVE IInv' /\ RowsGoOn
<1>. DEFINE t == req[u].target
            e == [id |-> req[u].id, kind |-> req[u].op, token |-> t]
<1>1. /\ UNCHANGED <<seeded, minted, pc, tok, disk, told, begun, crashes>>
      /\ log' = log \cup {e} /\ Answer(u) /\ TypeOK /\ minted \in Nat
      /\ req[u].op = "revoke" /\ req[u] \in Request
      /\ t \in DOMAIN rows /\ ~rows[t].revoked
      /\ rows' = [rows EXCEPT ![t].revoked = TRUE]
  BY DEF RevokeToken, Allowed, Record, Live, IInv, TypeOK, Tokens
<1>2. rows[t] \in TokenRow
  BY <1>1 DEF TypeOK
<1>3. /\ DOMAIN rows' = DOMAIN rows
      /\ \A x \in DOMAIN rows \ {t} : rows'[x] = rows[x]
      /\ rows'[t] = [rows[t] EXCEPT !.revoked = TRUE]
  BY <1>1
<1>4. rows'[t].name = rows[t].name /\ rows'[t].standing = rows[t].standing /\ rows'[t].revoked
      /\ rows'[t] \in TokenRow
  BY <1>2, <1>3 DEF TokenRow
<1>5. RowsGoOn
  BY <1>3, <1>4 DEF RowsGoOn
<1>6. RowsOK'
  BY <1>1, <1>3 DEF IInv, RowsOK
<1>7. LogMatchesTable'
  <2>1. \A f \in log : f.kind = "revoke" => f.token # t
    BY <1>1 DEF IInv, LogMatchesTable
  <2>2. e.kind = "revoke" /\ e.token = t
    BY <1>1
  <2>3. ASSUME NEW x \in DOMAIN rows'
        PROVE  /\ rows'[x].name # "root" => \E f \in log' : f.kind = "create" /\ f.token = x
               /\ rows'[x].revoked <=> \E f \in log' : f.kind = "revoke" /\ f.token = x
    <3>1. rows[x].name # "root" => \E f \in log : f.kind = "create" /\ f.token = x
      BY <1>3 DEF IInv, LogMatchesTable
    <3>2. rows[x].revoked <=> \E f \in log : f.kind = "revoke" /\ f.token = x
      BY <1>3 DEF IInv, LogMatchesTable
    <3>3. CASE x = t
      BY <1>1, <1>4, <2>2, <3>1, <3>3
    <3>4. CASE x # t
      BY <1>1, <1>3, <2>2, <3>1, <3>2, <3>4
    <3>. QED
      BY <3>3, <3>4
  <2>4. \A f, g \in log' : f.kind = g.kind /\ f.token = g.token => f = g
    BY <1>1, <2>1, <2>2 DEF IInv, LogMatchesTable
  <2>5. \A f \in log' : f.token \in DOMAIN rows'
    BY <1>1, <1>3, <2>2 DEF IInv, LogMatchesTable
  <2>. QED
    BY <2>3, <2>4, <2>5 DEF LogMatchesTable
<1>8. /\ req' \in [Users -> Request]
      /\ \A v \in Users \ {u} : req'[v] = req[v]
      /\ RequestOK(u)'
  BY <1>1, AnswerKeeps
<1>9. TypeOK'
  <2>1. DOMAIN rows' \subseteq Tokens /\ rows' \in [DOMAIN rows' -> TokenRow]
    BY <1>1, <1>3, <1>4 DEF TypeOK
  <2>2. e \in Event
    BY <1>1 DEF Request, Event, TypeOK, Tokens
  <2>. QED
    BY <1>1, <1>8, <2>1, <2>2 DEF TypeOK
<1>10. /\ \A q \in Pods : PodOK(q)'
       /\ \A q, r \in Pods : Apart(q, r)'
       /\ \A v \in Users \ {u} : RequestOK(v)'
  BY <1>1, <1>3, <1>5, <1>8, PodsKept
<1>. QED
  BY <1>5, <1>6, <1>7, <1>8, <1>9, <1>10 DEF IInv

LEMMA WeakenKeeps ==
  ASSUME IInv, NEW t \in DOMAIN rows, Weaken(t) PROVE IInv' /\ RowsGoOn
<1>1. PICK s \in {"lower", "expired"} : rows' = [rows EXCEPT ![t].standing = s]
  BY DEF Weaken
<1>2. /\ UNCHANGED <<seeded, log, minted, pc, tok, disk, told, req, begun, crashes>>
      /\ rows[t].standing = "admin" /\ rows[t] \in TokenRow /\ minted \in Nat /\ TypeOK
  BY DEF Weaken, IsAdmin, IInv, TypeOK, Tokens
<1>3. /\ DOMAIN rows' = DOMAIN rows
      /\ \A x \in DOMAIN rows \ {t} : rows'[x] = rows[x]
      /\ rows'[t] = [rows[t] EXCEPT !.standing = s]
  BY <1>1
<1>4. rows'[t].name = rows[t].name /\ rows'[t].standing = s
      /\ rows'[t].revoked = rows[t].revoked /\ rows'[t] \in TokenRow
  BY <1>2, <1>3 DEF TokenRow
<1>5. RowsGoOn
  BY <1>2, <1>3, <1>4 DEF RowsGoOn
<1>6. RowsOK'
  BY <1>2, <1>3 DEF IInv, RowsOK
<1>7. LogMatchesTable'
  <2>1. \A x \in DOMAIN rows : rows'[x].name = rows[x].name /\ rows'[x].revoked = rows[x].revoked
    BY <1>3, <1>4
  <2>. QED
    BY <1>2, <1>3, <2>1 DEF IInv, LogMatchesTable
<1>8. TypeOK'
  <2>1. DOMAIN rows' \subseteq Tokens /\ rows' \in [DOMAIN rows' -> TokenRow]
    BY <1>1, <1>2, <1>3, <1>4 DEF TypeOK
  <2>. QED
    BY <1>2, <2>1 DEF TypeOK
<1>9. /\ \A q \in Pods : PodOK(q)'
      /\ \A q, r \in Pods : Apart(q, r)'
      /\ \A v \in Users : RequestOK(v)'
  BY <1>2, <1>3, <1>5, PodsKept
<1>. QED
  BY <1>5, <1>6, <1>7, <1>8, <1>9 DEF IInv

-------------------------------------------------------------------------------
\* The theorems.

LEMMA InitHolds == Init => IInv
<1>. SUFFICES ASSUME Init PROVE IInv
  OBVIOUS
<1>1. rows = [t \in {} |-> None] /\ DOMAIN rows = {}
  BY DEF Init
<1>2. TypeOK
  <2>1. NoRequest \in Request
    BY DEF NoRequest, Request
  <2>2. rows \in [DOMAIN rows -> TokenRow]
    BY <1>1
  <2>. QED
    BY <1>1, <2>1, <2>2 DEF Init, TypeOK, Tokens
<1>3. RowsOK /\ LogMatchesTable
  BY <1>1 DEF Init, RowsOK, LogMatchesTable
<1>4. /\ \A p \in Pods : PodOK(p)
      /\ \A p, q \in Pods : Apart(p, q)
  BY DEF Init, PodOK, Apart, Chosen
<1>5. \A u \in Users : RequestOK(u)
  BY DEF Init, RequestOK, NoRequest
<1>. QED
  BY <1>2, <1>3, <1>4, <1>5 DEF IInv

LEMMA NextHolds == IInv /\ [Next]_vars => IInv' /\ RowsGoOn
<1>. SUFFICES ASSUME IInv, [Next]_vars PROVE IInv' /\ RowsGoOn
  OBVIOUS
<1>1. ASSUME UNCHANGED rows PROVE RowsGoOn
  BY <1>1 DEF RowsGoOn
<1>2. CASE UNCHANGED vars
  BY <1>1, <1>2
     DEF vars, IInv, TypeOK, RowsOK, LogMatchesTable, PodOK, Apart, RequestOK, Settled, Dead,
         Usable, Live, IsAdmin
<1>3. ASSUME NEW p \in Pods, BootStep(p) PROVE IInv' /\ RowsGoOn
  <2>1. CASE Boot(p)
    BY <1>1, <2>1, BootKeeps DEF Boot
  <2>2. CASE CountTokens(p)
    BY <1>1, <2>2, CountTokensKeeps DEF CountTokens
  <2>3. CASE CheckName(p)
    BY <1>1, <2>3, CheckNameKeeps DEF CheckName
  <2>4. CASE InsertRoot(p)
    BY <1>1, <2>4, InsertRootKeeps DEF InsertRoot
  <2>5. CASE CommitRoot(p)
    BY <2>5, CommitRootKeeps
  <2>6. CASE OpenFile(p)
    BY <1>1, <2>6, OpenFileKeeps DEF OpenFile
  <2>7. CASE WriteFile(p)
    BY <1>1, <2>7, WriteFileKeeps DEF WriteFile
  <2>. QED
    BY <1>3, <2>1, <2>2, <2>3, <2>4, <2>5, <2>6, <2>7 DEF BootStep
<1>4. ASSUME NEW p \in Pods, Crash(p) PROVE IInv' /\ RowsGoOn
  BY <1>1, <1>4, CrashKeeps DEF Crash
<1>5. ASSUME NEW u \in Users, Ask(u) PROVE IInv' /\ RowsGoOn
  BY <1>1, <1>5, AskKeeps DEF Ask
<1>6. ASSUME NEW u \in Users, Handle(u) PROVE IInv' /\ RowsGoOn
  <2>1. CASE Authenticate(u)
    BY <1>1, <2>1, AuthenticateKeeps DEF Authenticate
  <2>2. CASE Refuse(u)
    BY <1>1, <2>2, RefuseKeeps DEF Refuse
  <2>3. CASE CreateToken(u)
    BY <2>3, CreateTokenKeeps
  <2>4. CASE RevokeToken(u)
    BY <2>4, RevokeTokenKeeps
  <2>. QED
    BY <1>6, <2>1, <2>2, <2>3, <2>4 DEF Handle
<1>7. ASSUME NEW t \in DOMAIN rows, Weaken(t) PROVE IInv' /\ RowsGoOn
  BY <1>7, WeakenKeeps
<1>. QED
  BY <1>2, <1>3, <1>4, <1>5, <1>6, <1>7 DEF Next, Quiescent

\* IInv holds in every state of every run, and no step undoes what the table says.
THEOREM Invariance == Spec => []IInv /\ [][RowsGoOn]_vars
<1>1. Init => IInv
  BY InitHolds
<1>2. IInv /\ [Next]_vars => IInv' /\ RowsGoOn
  BY NextHolds
<1>. QED
  BY <1>1, <1>2, PTL DEF Spec

\* The variables keep the types that the table and the code give them.
THEOREM TypeCorrect == Spec => []TypeOK
<1>1. IInv => TypeOK
  BY DEF IInv
<1>. QED
  BY <1>1, Invariance, PTL

\* However many pods race, and whichever of them die, a pod that serves with
\* SOMA_ROOT_TOKEN set has that token in the table.
THEOREM SeedAlwaysStored == Spec => []SeedIsStored
<1>1. IInv => SeedIsStored
  BY DEF IInv, RowsOK, PodOK, SeedIsStored
<1>. QED
  BY <1>1, Invariance, PTL

\* The log of token operations and the token table agree after every commit.
THEOREM LogAlwaysMatches == Spec => []LogMatchesTable
<1>1. IInv => LogMatchesTable
  BY DEF IInv
<1>. QED
  BY <1>1, Invariance, PTL

\* No interleaving of boots, deaths, requests and operators brings a revoked token back.
THEOREM RevocationsAreFinal == Spec => RevocationIsFinal
<1>1. [RowsGoOn]_vars =>
        [\A t \in DOMAIN rows :
           /\ t \in DOMAIN rows' /\ rows'[t].name = rows[t].name
           /\ rows[t].revoked => rows'[t].revoked]_vars
  BY DEF RowsGoOn
<1>. QED
  BY <1>1, Invariance, PTL DEF RevocationIsFinal

\* Nothing is created or revoked for a request whose token was not a live
\* administrator's when the request began, whatever happened to it in between.
THEOREM OnlyTheEntitledAct == Spec => EntitledWhenAsked
<1>. DEFINE A == \A e \in log' \ log : \E u \in Users : req[u].id = e.id /\ req[u].entitled
<1>1. IInv /\ [Next]_vars => [A]_vars
  <2>. SUFFICES ASSUME IInv, Next PROVE A
    OBVIOUS
  <2>1. ASSUME UNCHANGED log PROVE A
    BY <2>1
  <2>2. ASSUME NEW u \in Users, req[u].stage = "handle", req[u].admin,
               NEW t, Record(u, t)
        PROVE  A
    <3>1. req[u].entitled
      BY <2>2 DEF IInv, RequestOK
    <3>2. \A e \in log' \ log : e.id = req[u].id
      BY <2>2 DEF Record
    <3>. QED
      BY <3>1, <3>2
  <2>3. CASE \E u \in Users : CreateToken(u) \/ RevokeToken(u)
    BY <2>2, <2>3 DEF CreateToken, RevokeToken, Allowed
  <2>4. CASE ~\E u \in Users : CreateToken(u) \/ RevokeToken(u)
    <3>1. UNCHANGED log
      BY <2>4 DEF Next, Quiescent, vars, BootStep, Boot, CountTokens, CheckName, InsertRoot,
                  CommitRoot, OpenFile, WriteFile, Crash, Ask, Handle, Authenticate, Refuse, Weaken
    <3>. QED
      BY <2>1, <3>1
  <2>. QED
    BY <2>3, <2>4
<1>. QED
  BY <1>1, Invariance, PTL DEF Spec, EntitledWhenAsked

-------------------------------------------------------------------------------
\* Nobody is locked out.

\* While no pod has died a file belongs to a pod that serves, so that no boot truncates
\* one; and as soon as there is a row there is a token of it that is held.
KeyInv ==
  crashes = 0 =>
    /\ \A p \in Pods : disk[p] # None => pc[p] = "serving"
    /\ DOMAIN rows # {} => Held

\* Steps that leave every boot, every file and everybody's tokens where they are.
LEMMA HeldGoesOn ==
  ASSUME KeyInv, DOMAIN rows \subseteq DOMAIN rows', DOMAIN rows = {} => DOMAIN rows' = {},
         UNCHANGED <<seeded, pc, tok, disk, crashes>>, told \subseteq told'
  PROVE  KeyInv'
<1>1. Known \subseteq Known'
  BY DEF Known
<1>2. Held => Held'
  BY <1>1 DEF Held
<1>. QED
  BY <1>2 DEF KeyInv

\* Steps of a boot that neither store nor write: a pod that is at "file" or "write" and
\* moves on keeps its token until the file has it.
LEMMA BootKeepsHeld ==
  ASSUME IInv, KeyInv, NEW p \in Pods, UNCHANGED <<seeded, rows, disk, told, crashes>>,
         \A q \in Pods \ {p} : pc'[q] = pc[q] /\ tok'[q] = tok[q],
         pc[p] \notin {"file", "write", "serving"}
  PROVE  KeyInv'
<1>1. Known' = Known
  BY DEF Known
<1>2. Held => Held'
  BY <1>1 DEF Held
<1>3. crashes = 0 => disk[p] = None
  BY DEF KeyInv
<1>4. crashes' = 0 => \A q \in Pods : disk'[q] # None => pc'[q] = "serving"
  BY <1>3 DEF KeyInv
<1>. QED
  BY <1>2, <1>4 DEF KeyInv

\* The pod that stores a token has it in hand.
LEMMA CommitRootKeepsKey ==
  ASSUME IInv, KeyInv, NEW p \in Pods, CommitRoot(p)
  PROVE  KeyInv'
<1>. USE DEF CommitRoot, Step, AddRow
<1>1. /\ pc[p] = "commit" /\ pc'[p] = "file" /\ tok'[p] = tok[p]
      /\ \A q \in Pods \ {p} : pc'[q] = pc[q]
      /\ tok[p] \in DOMAIN rows'
  BY DEF IInv, TypeOK
<1>2. Held'
  BY <1>1 DEF Held
<1>3. crashes' = 0 => \A q \in Pods : disk'[q] # None => pc'[q] = "serving"
  BY <1>1 DEF KeyInv
<1>. QED
  BY <1>2, <1>3 DEF KeyInv

\* The file truncated is one of a pod that has died: while none has, it was empty.
LEMMA OpenFileKeepsKey ==
  ASSUME IInv, KeyInv, NEW p \in Pods, OpenFile(p)
  PROVE  KeyInv'
<1>. USE DEF OpenFile, Step
<1>1. /\ pc[p] = "file" /\ pc'[p] = "write" /\ disk'[p] = None /\ UNCHANGED <<rows, tok, crashes>>
      /\ \A q \in Pods \ {p} : pc'[q] = pc[q] /\ disk'[q] = disk[q]
  BY DEF IInv, TypeOK
<1>2. ASSUME crashes = 0 PROVE Held => Held'
  <2>1. disk[p] = None
    BY <1>1, <1>2 DEF KeyInv
  <2>2. Known \subseteq Known'
    BY <1>1, <2>1 DEF Known
  <2>. QED
    BY <1>1, <2>2 DEF Held
<1>3. crashes' = 0 => \A q \in Pods : disk'[q] # None => pc'[q] = "serving"
  BY <1>1 DEF KeyInv
<1>. QED
  BY <1>1, <1>2, <1>3 DEF KeyInv

\* What the pod had in hand is in its file.
LEMMA WriteFileKeepsKey ==
  ASSUME IInv, KeyInv, NEW p \in Pods, WriteFile(p)
  PROVE  KeyInv'
<1>. USE DEF WriteFile, Step
<1>1. /\ pc[p] = "write" /\ pc'[p] = "serving" /\ disk'[p] = tok[p]
      /\ UNCHANGED <<rows, tok, crashes>>
      /\ \A q \in Pods \ {p} : pc'[q] = pc[q] /\ disk'[q] = disk[q]
  BY DEF IInv, TypeOK
<1>2. tok[p] # None
  BY <1>1, NoneAssumption DEF IInv, TypeOK, PodOK, Chosen, Tokens
<1>3. tok[p] \in Known'
  BY <1>1, <1>2 DEF Known
<1>4. ASSUME crashes = 0, Held PROVE Held'
  <2>1. disk[p] = None
    BY <1>1, <1>4 DEF KeyInv
  <2>2. Known \subseteq Known'
    BY <1>1, <2>1 DEF Known
  <2>. QED
    BY <1>1, <1>3, <1>4, <2>2 DEF Held
<1>5. crashes' = 0 => \A q \in Pods : disk'[q] # None => pc'[q] = "serving"
  BY <1>1 DEF KeyInv
<1>. QED
  BY <1>1, <1>4, <1>5 DEF KeyInv

\* Every step keeps a key in somebody's hands.
LEMMA NextKeepsKey == IInv /\ KeyInv /\ [Next]_vars => KeyInv'
<1>. SUFFICES ASSUME IInv, KeyInv, [Next]_vars PROVE KeyInv'
  OBVIOUS
<1>1. CASE UNCHANGED vars
  BY <1>1, HeldGoesOn DEF vars
<1>2. ASSUME NEW p \in Pods, BootStep(p) PROVE KeyInv'
  <2>1. CASE Boot(p) \/ CountTokens(p) \/ CheckName(p) \/ InsertRoot(p)
    <3>1. /\ UNCHANGED <<seeded, rows, disk, told, crashes>>
          /\ \A q \in Pods \ {p} : pc'[q] = pc[q] /\ tok'[q] = tok[q]
          /\ pc[p] \notin {"file", "write", "serving"}
      BY <2>1 DEF IInv, TypeOK, Boot, CountTokens, CheckName, InsertRoot, Step
    <3>. QED
      BY <3>1, BootKeepsHeld
  <2>. QED
    BY <1>2, <2>1, CommitRootKeepsKey, OpenFileKeepsKey, WriteFileKeepsKey DEF BootStep
<1>3. ASSUME NEW p \in Pods, Crash(p) PROVE KeyInv'
  <2>1. crashes' # 0
    BY <1>3 DEF Crash, IInv, TypeOK
  <2>. QED
    BY <2>1 DEF KeyInv
<1>4. ASSUME NEW u \in Users, Ask(u) \/ Authenticate(u) \/ Refuse(u) PROVE KeyInv'
  BY <1>4, HeldGoesOn DEF Ask, Authenticate, Refuse
<1>5. ASSUME NEW u \in Users, CreateToken(u) PROVE KeyInv'
  <2>1. DOMAIN rows # {} /\ DOMAIN rows \subseteq DOMAIN rows'
    BY <1>5 DEF CreateToken, Allowed, AddRow, IInv, RequestOK
  <2>. QED
    BY <1>5, <2>1, HeldGoesOn DEF CreateToken
<1>6. ASSUME NEW u \in Users, RevokeToken(u) PROVE KeyInv'
  BY <1>6, HeldGoesOn DEF RevokeToken
<1>7. ASSUME NEW t \in DOMAIN rows, Weaken(t) PROVE KeyInv'
  BY <1>7, HeldGoesOn DEF Weaken
<1>. QED
  BY <1>1, <1>2, <1>3, <1>4, <1>5, <1>6, <1>7 DEF Next, Quiescent, Handle

\* However many pods race at cold start: unless one has died, a vault that serves and whose
\* tokens are all usable has one of which the plaintext is not lost.
THEOREM NobodyIsLockedOut == Spec => []KeyIsKnown
<1>1. Init => KeyInv
  BY DEF Init, KeyInv
<1>2. IInv /\ KeyInv => KeyIsKnown
  BY DEF IInv, PodOK, KeyInv, Held, KeyIsKnown
<1>. QED
  BY <1>1, <1>2, NextKeepsKey, Invariance, PTL DEF Spec

-------------------------------------------------------------------------------
\* What the death of a pod can do to the key.

\* While every token of the table is usable, a pod that boots without a seed has in its file
\* no token of the table: when it counted, the table was empty, and the token of an older
\* file is none that a pod will store.
DiskInv ==
  \A p \in Pods :
    ~seeded /\ pc[p] \in Chosen /\ (\A t \in DOMAIN rows : Usable(t)) => disk[p] \notin DOMAIN rows

\* A token of the table that is usable after a step was so before.
LEMMA AllUsableBefore ==
  ASSUME IInv, RowsGoOn, \A t \in DOMAIN rows' : Usable(t)'
  PROVE  \A t \in DOMAIN rows : Usable(t)
<1>1. ASSUME NEW t \in DOMAIN rows PROVE Usable(t)
  <2>1. rows[t] \in TokenRow /\ t \in DOMAIN rows'
    BY <1>1 DEF IInv, TypeOK, RowsGoOn
  <2>2. ~rows'[t].revoked /\ rows'[t].standing # "expired"
    BY <2>1 DEF Usable, Live
  <2>3. ~rows[t].revoked /\ rows[t].standing # "expired"
    BY <2>2 DEF RowsGoOn
  <2>. QED
    BY <2>3 DEF Usable, Live
<1>. QED
  BY <1>1

\* A pod that goes on, or waits, with the same file still has no token of the table in it,
\* if the step stores only what a pod was storing or a new token.
LEMMA DiskGoesOn ==
  ASSUME IInv, DiskInv, RowsGoOn, NEW p \in Pods, seeded' = seeded, disk'[p] = disk[p],
         pc'[p] \in Chosen => pc[p] \in Chosen,
         \A t \in DOMAIN rows' \ DOMAIN rows :
           t = minted + 1 \/ \E q \in Pods : pc[q] \in Storing /\ tok[q] = t,
         ~seeded, pc'[p] \in Chosen, \A t \in DOMAIN rows' : Usable(t)'
  PROVE  disk'[p] \notin DOMAIN rows'
<1>1. disk[p] \notin DOMAIN rows
  BY AllUsableBefore DEF DiskInv
<1>2. minted \in Nat /\ None \notin Nat
  BY NoneAssumption DEF IInv, TypeOK, Tokens
<1>3. CASE disk[p] = None
  <2>1. \A q \in Pods : pc[q] \in Storing => tok[q] # None
    BY <1>2 DEF IInv, PodOK, Chosen, Storing
  <2>. QED
    BY <1>1, <1>2, <1>3, <2>1
<1>4. CASE disk[p] # None
  <2>1. Dead(disk[p])
    BY <1>1, <1>4 DEF IInv, PodOK, Settled
  <2>2. disk[p] \in 1..minted /\ \A q \in Pods : pc[q] \in Storing => tok[q] # disk[p]
    BY <2>1 DEF Dead
  <2>3. disk[p] # minted + 1
    BY <1>2, <2>2
  <2>. QED
    BY <1>1, <2>2, <2>3
<1>. QED
  BY <1>3, <1>4

\* The seed is set for good.
LEMMA SeedStays == [Next]_vars => seeded' = seeded
<1>. SUFFICES ASSUME [Next]_vars PROVE seeded' = seeded
  OBVIOUS
<1>1. CASE UNCHANGED vars \/ Quiescent
  BY <1>1 DEF vars, Quiescent
<1>2. ASSUME NEW p \in Pods, BootStep(p) \/ Crash(p) PROVE seeded' = seeded
  BY <1>2 DEF BootStep, Boot, CountTokens, CheckName, InsertRoot, CommitRoot, OpenFile, WriteFile, Crash
<1>3. ASSUME NEW u \in Users, Ask(u) \/ Handle(u) PROVE seeded' = seeded
  BY <1>3 DEF Ask, Handle, Authenticate, Refuse, CreateToken, RevokeToken
<1>4. ASSUME NEW t \in DOMAIN rows, Weaken(t) PROVE seeded' = seeded
  BY <1>4 DEF Weaken
<1>. QED
  BY <1>1, <1>2, <1>3, <1>4 DEF Next

\* Which rows each step adds, and which boots get a token.
LEMMA NextKeepsDisk == IInv /\ DiskInv /\ RowsGoOn /\ [Next]_vars => DiskInv'
<1>. SUFFICES ASSUME IInv, DiskInv, RowsGoOn, [Next]_vars,
                     NEW p \in Pods, ~seeded', pc'[p] \in Chosen, \A t \in DOMAIN rows' : Usable(t)'
              PROVE  disk'[p] \notin DOMAIN rows'
  BY DEF DiskInv
<1>a. seeded' = seeded /\ ~seeded
  BY SeedStays
<1>. USE DEF Step
<1>1. ASSUME UNCHANGED <<pc, disk>>,
             \A t \in DOMAIN rows' \ DOMAIN rows : t = minted + 1
      PROVE  disk'[p] \notin DOMAIN rows'
  BY <1>1, <1>a, DiskGoesOn
<1>2. ASSUME NEW q \in Pods, BootStep(q) \/ Crash(q), q # p
      PROVE  disk'[p] \notin DOMAIN rows'
  <2>1. pc'[p] = pc[p] /\ disk'[p] = disk[p]
    BY <1>2 DEF IInv, TypeOK, BootStep, Boot, CountTokens, CheckName, InsertRoot, CommitRoot, OpenFile,
                WriteFile, Crash
  <2>2. \A t \in DOMAIN rows' \ DOMAIN rows : pc[q] \in Storing /\ tok[q] = t
    BY <1>2 DEF BootStep, Boot, CountTokens, CheckName, InsertRoot, CommitRoot, OpenFile, WriteFile,
                Crash, AddRow, Storing
  <2>. QED
    BY <2>1, <2>2, <1>a, DiskGoesOn
<1>3. CASE CheckName(p) \/ InsertRoot(p) \/ CommitRoot(p)
  <2>1. pc[p] \in Storing /\ disk'[p] = disk[p]
    BY <1>3 DEF CheckName, InsertRoot, CommitRoot, Storing
  <2>2. \A t \in DOMAIN rows' \ DOMAIN rows : tok[p] = t
    BY <1>3 DEF CheckName, InsertRoot, CommitRoot, AddRow
  <2>. QED
    BY <2>1, <2>2, <1>a, DiskGoesOn DEF Storing, Chosen
<1>4. CASE CountTokens(p)
  <2>1. rows' = rows /\ pc'[p] # "serving"
    BY <1>4 DEF CountTokens, Chosen
  <2>2. \A t \in DOMAIN rows : ~Live(t)
    BY <1>4, <2>1 DEF CountTokens, IInv, TypeOK
  <2>3. \A t \in DOMAIN rows : Usable(t)
    BY AllUsableBefore
  <2>. QED
    BY <2>1, <2>2, <2>3 DEF Usable
<1>5. CASE OpenFile(p)
  <2>1. disk'[p] = None /\ rows' = rows
    BY <1>5 DEF OpenFile, IInv, TypeOK
  <2>. QED
    BY <2>1, NoneAssumption DEF IInv, TypeOK, Tokens
<1>6. CASE Boot(p) \/ WriteFile(p) \/ Crash(p)
  <2>1. pc'[p] \in {"count", "serving", "down"}
    BY <1>6 DEF Boot, WriteFile, Crash, IInv, TypeOK
  <2>. QED
    BY <2>1 DEF Chosen
<1>7. ASSUME NEW u \in Users, CreateToken(u) PROVE disk'[p] \notin DOMAIN rows'
  BY <1>1, <1>7 DEF CreateToken, AddRow
<1>8. CASE \/ UNCHANGED vars
           \/ \E u \in Users : Ask(u) \/ Authenticate(u) \/ Refuse(u) \/ RevokeToken(u)
           \/ \E t \in DOMAIN rows : Weaken(t)
  BY <1>1, <1>8 DEF vars, Ask, Authenticate, Refuse, RevokeToken, Weaken
<1>. QED
  BY <1>2, <1>3, <1>4, <1>5, <1>6, <1>7, <1>8 DEF Next, Quiescent, BootStep, Handle


\* A step that takes no token out of anybody's hands.
LEMMA HeldStays ==
  ASSUME Held, seeded' = seeded, told \subseteq told', DOMAIN rows \subseteq DOMAIN rows',
         \A p \in Pods : disk[p] \in DOMAIN rows => disk[p] \in Known',
         \A p \in Pods : pc[p] \in {"file", "write"} /\ tok[p] \in DOMAIN rows =>
           tok[p] \in Known' \/ (pc'[p] \in {"file", "write"} /\ tok'[p] = tok[p])
  PROVE  Held'
<1>1. PICK t \in DOMAIN rows : t \in Known \/ \E p \in Pods : pc[p] \in {"file", "write"} /\ tok[p] = t
  BY DEF Held
<1>2. CASE t \in Known
  <2>1. t \in Known'
    BY <1>1, <1>2 DEF Known
  <2>. QED
    BY <1>1, <2>1 DEF Held
<1>3. CASE \E p \in Pods : pc[p] \in {"file", "write"} /\ tok[p] = t
  BY <1>1, <1>3 DEF Held
<1>. QED
  BY <1>1, <1>2, <1>3

\* A boot that reaches its file puts a token there over one that opens nothing.
LEMMA FileStepHolds ==
  ASSUME IInv, DiskInv, Held, \A t \in DOMAIN rows : Usable(t),
         NEW p \in Pods, OpenFile(p) \/ WriteFile(p)
  PROVE  Held'
<1>1. /\ UNCHANGED <<seeded, rows, tok, told>> /\ pc[p] \in {"file", "write"}
      /\ \A q \in Pods \ {p} : pc'[q] = pc[q] /\ disk'[q] = disk[q]
  BY DEF OpenFile, WriteFile, Step, IInv, TypeOK
<1>2. DOMAIN rows \subseteq Nat /\ None \notin DOMAIN rows
  BY NoneAssumption DEF IInv, TypeOK, Tokens
<1>3. CASE seeded
  <2>1. 0 \in DOMAIN rows /\ 0 \in Known'
    BY <1>1, <1>2, <1>3 DEF Held, IInv, RowsOK, Known
  <2>. QED
    BY <1>1, <2>1 DEF Held
<1>4. CASE ~seeded
  <2>1. disk[p] \notin DOMAIN rows
    BY <1>1, <1>4 DEF DiskInv, Chosen
  <2>2. \A q \in Pods : disk[q] \in DOMAIN rows => disk[q] \in Known'
    <3>1. ASSUME NEW q \in Pods, disk[q] \in DOMAIN rows PROVE disk[q] \in Known'
      <4>1. disk'[q] = disk[q] /\ disk[q] # None
        BY <1>1, <1>2, <2>1, <3>1
      <4>. QED
        BY <4>1 DEF Known
    <3>. QED
      BY <3>1
  <2>3. /\ OpenFile(p) => pc'[p] = "write"
        /\ WriteFile(p) => disk'[p] = tok[p]
    BY DEF OpenFile, WriteFile, Step, IInv, TypeOK
  <2>4. WriteFile(p) /\ tok[p] \in DOMAIN rows => tok[p] \in Known'
    <3>1. ASSUME WriteFile(p), tok[p] \in DOMAIN rows PROVE tok[p] \in Known'
      <4>1. disk'[p] = tok[p] /\ tok[p] # None
        BY <1>2, <2>3, <3>1
      <4>. QED
        BY <4>1 DEF Known
    <3>. QED
      BY <3>1
  <2>5. \A q \in Pods : pc[q] \in {"file", "write"} /\ tok[q] \in DOMAIN rows =>
          tok[q] \in Known' \/ (pc'[q] \in {"file", "write"} /\ tok'[q] = tok[q])
    BY <1>1, <2>3, <2>4
  <2>. QED
    BY <1>1, <2>2, <2>5, HeldStays
<1>. QED
  BY <1>3, <1>4

\* While every token is usable, no step but the death of a pod that has a token of the table
\* in hand takes the last one out of everybody's hands.
LEMMA NextKeepsHeld ==
  ASSUME IInv, DiskInv, RowsGoOn, [Next]_vars, \A t \in DOMAIN rows : Usable(t),
         DOMAIN rows # {} => Held, DOMAIN rows' # {},
         ~\E p \in Pods : pc[p] \in {"file", "write"} /\ tok[p] \in DOMAIN rows /\ pc'[p] = "down"
  PROVE  Held'
<1>. USE DEF Step
<1>a. None \notin DOMAIN rows /\ seeded' = seeded
  BY NoneAssumption, SeedStays DEF IInv, TypeOK, Tokens
<1>b. DOMAIN rows \subseteq DOMAIN rows'
  BY DEF RowsGoOn
<1>1. ASSUME DOMAIN rows # {}, UNCHANGED disk, told \subseteq told',
             \A p \in Pods : pc[p] \in {"file", "write"} /\ tok[p] \in DOMAIN rows =>
               pc'[p] \in {"file", "write"} /\ tok'[p] = tok[p]
      PROVE  Held'
  <2>1. \A p \in Pods : disk[p] \in DOMAIN rows => disk[p] \in Known'
    BY <1>1, <1>a DEF Known
  <2>. QED
    BY <1>1, <1>a, <1>b, <2>1, HeldStays
<1>2. ASSUME NEW p \in Pods, CommitRoot(p) PROVE Held'
  <2>1. pc'[p] = "file" /\ tok'[p] = tok[p] /\ tok[p] \in DOMAIN rows'
    BY <1>2 DEF CommitRoot, AddRow, IInv, TypeOK
  <2>. QED
    BY <2>1 DEF Held
<1>3. ASSUME NEW p \in Pods, OpenFile(p) \/ WriteFile(p) PROVE Held'
  <2>1. Held
    BY <1>3 DEF OpenFile, WriteFile
  <2>. QED
    BY <1>3, <2>1, FileStepHolds
<1>4. ASSUME NEW p \in Pods, Boot(p) \/ CountTokens(p) \/ CheckName(p) \/ InsertRoot(p) PROVE Held'
  <2>1. /\ UNCHANGED <<rows, disk, told>> /\ pc[p] \notin {"file", "write"}
        /\ \A q \in Pods \ {p} : pc'[q] = pc[q] /\ tok'[q] = tok[q]
    BY <1>4 DEF Boot, CountTokens, CheckName, InsertRoot, IInv, TypeOK
  <2>. QED
    BY <1>1, <2>1
<1>5. ASSUME NEW p \in Pods, Crash(p) PROVE Held'
  <2>1. /\ UNCHANGED <<rows, disk, told>> /\ pc'[p] = "down"
        /\ \A q \in Pods \ {p} : pc'[q] = pc[q] /\ tok'[q] = tok[q]
    BY <1>5 DEF Crash, IInv, TypeOK
  <2>. QED
    BY <1>1, <2>1
<1>6. ASSUME NEW u \in Users, Ask(u) \/ Handle(u) PROVE Held'
  <2>1. UNCHANGED <<pc, tok, disk>> /\ told \subseteq told'
    BY <1>6 DEF Ask, Handle, Authenticate, Refuse, CreateToken, RevokeToken
  <2>2. DOMAIN rows # {}
    BY <1>6 DEF Ask, Handle, Authenticate, Refuse, CreateToken, RevokeToken, Allowed, Live, IInv, RequestOK
  <2>. QED
    BY <1>1, <2>1, <2>2
<1>7. CASE UNCHANGED vars \/ \E t \in DOMAIN rows : Weaken(t)
  <2>1. UNCHANGED <<pc, tok, disk, told>> /\ DOMAIN rows # {}
    BY <1>7 DEF vars, Weaken
  <2>. QED
    BY <1>1, <2>1
<1>. QED
  BY <1>2, <1>3, <1>4, <1>5, <1>6, <1>7 DEF Next, Quiescent, BootStep

\* For every number of pods and of deaths: no boot loses the last token that is held while
\* every token is usable.  It is lost only by the death of the pod that has stored it and
\* not written it to its file.
THEOREM OnlyDeathsLoseTheKey == Spec => OnlyDeathLosesTheKey
<1>. DEFINE A == (\A t \in DOMAIN rows : Usable(t)) /\ (DOMAIN rows # {} => Held) =>
                   \/ DOMAIN rows' # {} => Held'
                   \/ \E p \in Pods :
                        pc[p] \in {"file", "write"} /\ tok[p] \in DOMAIN rows /\ pc'[p] = "down"
<1>1. Init => DiskInv
  BY DEF Init, DiskInv, Chosen
<1>2. IInv /\ [Next]_vars => RowsGoOn
  BY NextHolds
<1>3. IInv /\ DiskInv /\ [Next]_vars => DiskInv'
  BY <1>2, NextKeepsDisk
<1>4. IInv /\ DiskInv /\ [Next]_vars => [A]_vars
  BY <1>2, NextKeepsHeld
<1>. QED
  BY <1>1, <1>3, <1>4, Invariance, PTL DEF Spec, OnlyDeathLosesTheKey
===============================================================================
