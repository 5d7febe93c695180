-------------------------- MODULE AuthSessionProofs --------------------------
(***************************************************************************)
(* Theorems about AuthSession, for every set of hosts, tabs and tokens and *)
(* every limit, window and map size.                                       *)
(***************************************************************************)
EXTENDS AuthSession, TLAPS

-------------------------------------------------------------------------------
\* One admission appended to the history of an address.

\* The admissions of an address are in the order of time, and past.
Ordered(a, t) ==
  /\ \A i \in 1 .. Len(a) : a[i] <= t
  /\ \A i, j \in 1 .. Len(a) : i <= j => a[i] <= a[j]

\* The limiter's entry describes the end of the history: the last e.count admissions are the
\* current window's, the first of them opened it, and the admission Max places before that
\* one is older by a window.
Describes(e, a) ==
  /\ e.count <= Len(a)
  /\ a[Len(a) - e.count + 1] = e.start
  /\ Len(a) - e.count - Max + 1 >= 1 => a[Len(a) - e.count - Max + 1] + Window <= e.start

Bursts(a) ==
  \A i \in 1 .. Len(a) : i + 2 * Max - 1 <= Len(a) => a[i + 2 * Max - 1] - a[i] >= Window

\* b is a with one admission at t.
Grows(a, b, t) ==
  /\ a \in Seq(Nat) /\ b \in Seq(Nat) /\ Len(b) = Len(a) + 1 /\ b[Len(a) + 1] = t 
  /\ \A i \in 1 .. Len(a) : b[i] = a[i]

LEMMA Appended ==
  ASSUME NEW a \in Seq(Nat), NEW t \in Nat
  PROVE  Grows(a, Append(a, t), t)
BY DEF Grows

LEMMA Elements ==
  ASSUME NEW a \in Seq(Nat)
  PROVE  Len(a) \in Nat /\ \A i \in 1 .. Len(a) : a[i] \in Nat
OBVIOUS

LEMMA OrderedGrows ==
  ASSUME NEW a, NEW b, NEW t \in Nat, Grows(a, b, t), Ordered(a, t)
  PROVE Ordered(b,t)
<1>0. /\ Len(a) \in Nat /\ Len(b) = Len(a) + 1 /\ b[Len(a) + 1] = t
      /\ \A i \in 1 .. Len(a) : b[i] = a[i] /\ a[i] \in Nat
  BY Elements DEF Grows
<1>1. ASSUME NEW i \in 1 .. Len(b) PROVE b[i] <= t
 <2>1. CASE i = Len(a) + 1
   BY <1>0, <2>1
 <2>2. CASE i \in 1..Len(a)
   BY <1>0, <2>2 DEF Ordered
 <2> QED BY <1>0, <2>1, <2>2
<1>2. ASSUME NEW i \in 1 .. Len(b),NEW j \in 1 .. Len(b) , i <= j PROVE b[i] <= b[j]
 <2>1. CASE j = Len(a) + 1
   BY <1>0, <2>1, <1>1
 <2>2. CASE j \in 1..Len(a)
   <3>1. i \in 1..Len(a)
     BY <1>0, <1>2, <2>2
   <3> QED BY <1>0, <1>2, <2>2, <3>1 DEF Ordered
 <2> QED BY <1>0, <2>1, <2>2
<1> QED BY <1>1, <1>2 DEF Ordered

\* An admission at t keeps the bound if the one 2 Max - 1 places before it, or a later one,
\* is a window old.
LEMMA BurstsGrow ==
  ASSUME NEW a, NEW b, NEW t \in Nat, Grows(a, b, t), Ordered(a, t), Bursts(a),
         NEW k \in Int, k <= Len(a), Len(a) + 1 <= k + 2 * Max - 1, 
         k >= 1 => a[k] + Window <= t
  PROVE Bursts(b)
<1>0. /\ Len(a) \in Nat /\ Len(b) = Len(a) + 1 /\ b[Len(a) + 1] = t
      /\ \A i \in 1 .. Len(a) : b[i] = a[i] /\ a[i] \in Nat
      /\ Max \in Nat /\ Max >= 1 /\ Window \in Nat /\ Window >= 1
  BY Elements, LimitAssumption DEF Grows
<1> SUFFICES ASSUME NEW i \in 1 .. Len(b), i + 2 * Max - 1 <= Len(b)
               PROVE  b[i + 2 * Max - 1] - b[i] >= Window
    BY DEF Bursts
<1>1. CASE i + 2 * Max - 1 <= Len(a)
    <2>1. i \in 1 .. Len(a) /\ i + 2 * Max - 1 \in 1 .. Len(a)
      BY <1>0, <1>1
    <2> QED BY <1>1, <2>1, <1>0 DEF Bursts
<1>2. CASE i + 2 * Max - 1 = Len(a) + 1
    <2>1. i <= k /\ k \in 1..Len(a) /\ i \in 1..Len(a)
      BY <1>2, <1>0
    <2>2. a[i] <= a[k] /\ a[i] \in Nat /\ a[k] \in Nat
      BY <2>1, <1>0 DEF Ordered
    <2>3. b[i + 2 * Max - 1] = t /\ b[i] = a[i] 
      BY <1>0, <1>2, <2>1
    <2> QED BY <2>1, <2>2, <2>3, <1>0
<1> QED BY <1>1, <1>2, <1>0

-------------------------------------------------------------------------------
\* The limiter's entry after an admission describes the longer history.

LEMMA OpenWindow ==
  ASSUME NEW a, NEW b, NEW t \in Nat, Grows(a, b, t), Ordered(a, t), Bursts(a),
         NEW e \in Entry, Describes(e, a), t - e.start >= Window
  PROVE  Ordered(b, t) /\ Bursts(b) /\ Describes([start |-> t, count |-> 1], b)
<1>0. /\ Len(a) \in Nat /\ Len(b) = Len(a) + 1 /\ b[Len(a) + 1] = t
      /\ \A i \in 1 .. Len(a) : b[i] = a[i] /\ a[i] \in Nat
      /\ Max \in Nat /\ Max >= 1 /\ Window \in Nat /\ Window >= 1
      /\ e.count \in Nat /\ e.count >= 1 /\ e.count <= Max /\ e.start \in Nat
  BY Elements, LimitAssumption DEF Grows, Entry
<1>1. Len(a) - Max + 1 >= 1 => a[Len(a) - Max + 1] + Window <= t
  <2> SUFFICES ASSUME Len(a) - Max + 1 >= 1 PROVE a[Len(a) - Max + 1] + Window <= t
    OBVIOUS
  <2>1. /\ Len(a) - Max + 1 \in 1 .. Len(a) /\ Len(a) - e.count + 1 \in 1 .. Len(a)
        /\ Len(a) - Max + 1 <= Len(a) - e.count + 1
    BY <1>0 DEF Describes
  <2>2. a[Len(a) - Max + 1] <= a[Len(a) - e.count + 1] /\ a[Len(a) - Max + 1] \in Nat
    BY <2>1, <1>0 DEF Ordered
  <2> QED BY <2>2, <1>0 DEF Describes
<1>2. Bursts(b)
  <2>1. /\ Len(a) - Max + 1 \in Int /\ Len(a) - Max + 1 <= Len(a)
        /\ Len(a) + 1 <= (Len(a) - Max + 1) + 2 * Max - 1
    BY <1>0
  <2> QED BY <2>1, <1>1, BurstsGrow
<1>3. Describes([start |-> t, count |-> 1], b)
  <2> DEFINE f == [start |-> t, count |-> 1]
  <2>1. f.count = 1 /\ f.start = t
    OBVIOUS
  <2>2. Len(b) - f.count - Max + 1 = Len(a) - Max + 1 /\ Len(b) - f.count + 1 = Len(a) + 1
    BY <2>1, <1>0
  <2>3. Len(a) - Max + 1 >= 1 => b[Len(a) - Max + 1] = a[Len(a) - Max + 1]
    BY <1>0
  <2> QED BY <2>1, <2>2, <2>3, <1>0, <1>1 DEF Describes
<1> QED BY <1>2, <1>3, OrderedGrows

LEMMA SameWindow ==
  ASSUME NEW a, NEW b, NEW t \in Nat, Grows(a, b, t), Ordered(a, t), Bursts(a),
         NEW e \in Entry, Describes(e, a), e.count < Max
  PROVE  Ordered(b, t) /\ Bursts(b) /\ Describes([e EXCEPT !.count = @ + 1], b)
<1> DEFINE f == [e EXCEPT !.count = @ + 1]
<1>0. /\ Len(a) \in Nat /\ Len(b) = Len(a) + 1 /\ b[Len(a) + 1] = t
      /\ \A i \in 1 .. Len(a) : b[i] = a[i] /\ a[i] \in Nat
      /\ Max \in Nat /\ Max >= 1 /\ Window \in Nat /\ Window >= 1
      /\ e.count \in Nat /\ e.count >= 1 /\ e.count <= Max /\ e.start \in Nat
      /\ f.count = e.count + 1 /\ f.start = e.start
  BY Elements, LimitAssumption DEF Grows, Entry
<1> HIDE DEF f
<1>1. e.count <= Len(a) /\ Len(a) - e.count + 1 \in 1 .. Len(a) /\ a[Len(a) - e.count + 1] = e.start
  BY <1>0 DEF Describes
<1>2. e.start <= t
  BY <1>0, <1>1 DEF Ordered
<1>3. Bursts(b)
  <2>1. /\ Len(a) - e.count - Max + 1 \in Int /\ Len(a) - e.count - Max + 1 <= Len(a)
        /\ Len(a) + 1 <= (Len(a) - e.count - Max + 1) + 2 * Max - 1
    BY <1>0
  <2>2. Len(a) - e.count - Max + 1 >= 1 => a[Len(a) - e.count - Max + 1] + Window <= t
    <3> SUFFICES ASSUME Len(a) - e.count - Max + 1 >= 1
                 PROVE  a[Len(a) - e.count - Max + 1] + Window <= t
      OBVIOUS
    <3>1. a[Len(a) - e.count - Max + 1] \in Nat
      BY <1>0
    <3> QED BY <3>1, <1>0, <1>2 DEF Describes
  <2> QED BY <2>1, <2>2, BurstsGrow
<1>4. Describes(f, b)
  <2>1. Len(b) - f.count + 1 = Len(a) - e.count + 1
    BY <1>0
  <2>2. Len(b) - f.count - Max + 1 = Len(a) - e.count - Max + 1
    BY <1>0
  <2>3. Len(a) - e.count - Max + 1 >= 1 =>
          b[Len(a) - e.count - Max + 1] = a[Len(a) - e.count - Max + 1]
    <3> SUFFICES ASSUME Len(a) - e.count - Max + 1 >= 1
                 PROVE  b[Len(a) - e.count - Max + 1] = a[Len(a) - e.count - Max + 1]
      OBVIOUS
    <3>1. Len(a) - e.count - Max + 1 \in 1 .. Len(a)
      BY <1>0
    <3> QED BY <3>1, <1>0
  <2>4. b[Len(a) - e.count + 1] = e.start
    BY <1>0, <1>1
  <2> QED BY <2>1, <2>2, <2>3, <2>4, <1>0, <1>1 DEF Describes
<1> QED BY <1>3, <1>4, OrderedGrows DEF f

\* An address the map does not hold opens its first window.
LEMMA FirstWindow ==
  ASSUME NEW a, NEW b, NEW t \in Nat, Grows(a, b, t), a = <<>>
  PROVE  Ordered(b, t) /\ Bursts(b) /\ Describes([start |-> t, count |-> 1], b)
<1>0. /\ Len(b) = 1 /\ b[1] = t
      /\ Max \in Nat /\ Max >= 1 /\ Window \in Nat /\ Window >= 1
  BY LimitAssumption DEF Grows
<1> QED BY <1>0 DEF Ordered, Bursts, Describes

-------------------------------------------------------------------------------
\* Type correctness.

LEMMA EntryType ==
  ASSUME TypeOK, NEW h \in Hosts
  PROVE  /\ EntryOf(h).start \in Nat /\ EntryOf(h).count \in 0 .. Max
         /\ DOMAIN Kept \subseteq Hosts /\ \A g \in DOMAIN Kept : Kept[g] \in Entry
<1>1. DOMAIN Kept \subseteq Hosts /\ \A g \in DOMAIN Kept : Kept[g] \in Entry
  BY DEF TypeOK, Kept
<1> QED BY <1>1, LimitAssumption DEF TypeOK, EntryOf, Entry

LEMMA NextEntryType ==
  ASSUME TypeOK, NEW h \in Hosts, Allowed(h)
  PROVE  NextEntry(h) \in Entry
<1>1. now \in Nat /\ EntryOf(h).start \in Nat /\ EntryOf(h).count \in 0 .. Max
  BY EntryType DEF TypeOK
<1>2. Max \in Nat /\ Max >= 1
  BY LimitAssumption
<1>3. CASE now - EntryOf(h).start >= Window
  BY <1>1, <1>2, <1>3 DEF NextEntry, Entry
<1>4. CASE ~(now - EntryOf(h).start >= Window)
  <2>1. EntryOf(h).count + 1 \in 1 .. Max
    BY <1>1, <1>2, <1>4 DEF Allowed
  <2>2. EntryOf(h) = [start |-> EntryOf(h).start, count |-> EntryOf(h).count]
    BY DEF EntryOf, Kept, TypeOK, Entry
  <2>3. [EntryOf(h) EXCEPT !.count = @ + 1] =
          [start |-> EntryOf(h).start, count |-> EntryOf(h).count + 1]
    BY <2>2
  <2> QED BY <1>1, <1>4, <2>1, <2>3 DEF NextEntry, Entry
<1> QED BY <1>3, <1>4

LEMMA CheckType ==
  ASSUME TypeOK, NEW h \in Hosts, Check(h)
  PROVE  /\ DOMAIN hits' \subseteq Hosts /\ \A g \in DOMAIN hits' : hits'[g] \in Entry
         /\ admitted' \in [Hosts -> Seq(Nat)]
<1>1. DOMAIN Kept \subseteq Hosts /\ \A g \in DOMAIN Kept : Kept[g] \in Entry
  BY EntryType
<1>2. Remembered \in [Hosts -> Seq(Nat)] /\ now \in Nat
  BY DEF Remembered, TypeOK
<1>3. CASE Allowed(h)
  <2>1. hits' = Put(Kept, h, NextEntry(h)) /\ admitted' = [Remembered EXCEPT ![h] = Append(@, now)]
    BY <1>3 DEF Check
  <2>2. Append(Remembered[h], now) \in Seq(Nat)
    BY <1>2
  <2> QED BY <1>1, <1>2, <1>3, <2>1, <2>2, NextEntryType DEF Put
<1>4. CASE ~Allowed(h)
  BY <1>1, <1>2, <1>4 DEF Check
<1> QED BY <1>3, <1>4

LEMMA TypeStep == TypeOK /\ [Next]_vars => TypeOK'
<1> SUFFICES ASSUME TypeOK, [Next]_vars PROVE TypeOK'
  OBVIOUS
<1> USE DEF TypeOK
<1>1. CASE Tick
  BY <1>1 DEF Tick
<1>2. ASSUME NEW k \in Tokens, Revoke(k) PROVE TypeOK'
  BY <1>2 DEF Revoke
<1>3. ASSUME NEW t \in Tabs, OnSubmit(t) PROVE TypeOK'
  BY <1>3 DEF OnSubmit, Send, Call, Statuses
<1>4. ASSUME NEW t \in Tabs, SignOut(t) PROVE TypeOK'
  BY <1>4 DEF SignOut, Send, Call, Statuses
<1>5. ASSUME NEW t \in Tabs, Limit(t) PROVE TypeOK'
  <2>1. Home[t] \in Hosts
    BY HomeAssumption
  <2>2. /\ DOMAIN hits' \subseteq Hosts /\ \A g \in DOMAIN hits' : hits'[g] \in Entry
        /\ admitted' \in [Hosts -> Seq(Nat)]
    BY <1>5, <2>1, CheckType DEF Limit
  <2>3. call' \in [Tabs -> Call]
    BY <1>5 DEF Limit, Call, Statuses
  <2> QED BY <1>5, <2>2, <2>3 DEF Limit
<1>6. ASSUME NEW t \in Tabs, Login(t) PROVE TypeOK'
  <2>0. call[t] \in Call /\ live \subseteq Tokens /\ Home[t] \in Hosts
    BY HomeAssumption
  <2>1. PICK s \in Statuses : call' = [call EXCEPT ![t].stage = "answered", ![t].status = s]
    BY <1>6 DEF Login, Statuses
  <2>2. call' \in [Tabs -> Call]
    BY <2>0, <2>1 DEF Call
  <2>3. granted' \in [Hosts -> SUBSET Tokens]
    <3>1. CASE granted' = granted
      BY <3>1
    <3>2. CASE call[t].token \in live /\ granted' = [granted EXCEPT ![Home[t]] = @ \cup {call[t].token}]
      BY <2>0, <3>2
    <3> QED BY <1>6, <3>1, <3>2 DEF Login
  <2> QED BY <1>6, <2>2, <2>3 DEF Login
<1>7. ASSUME NEW t \in Tabs, Logout(t) PROVE TypeOK'
  BY <1>7 DEF Logout, Call, Statuses
<1>8. ASSUME NEW t \in Tabs, Lose(t) PROVE TypeOK'
  BY <1>8 DEF Lose, Call, Statuses
<1>9. ASSUME NEW t \in Tabs, Answer(t) PROVE TypeOK'
  <2>1. CookieAfter(t) \in Tokens \cup {None} /\ NoCall \in Call
    BY HomeAssumption DEF CookieAfter, Call, Statuses, NoCall
  <2>2. left' \subseteq Tabs
    BY <1>9 DEF Answer
  <2>3. page' \in [Tabs -> {"login", "app"}]
    BY <1>9 DEF Answer
  <2> QED BY <1>9, <2>1, <2>2, <2>3 DEF Answer
<1>10. ASSUME NEW t \in Tabs, Visit(t) PROVE TypeOK'
  BY <1>10 DEF Visit
<1>11. CASE UNCHANGED vars
  BY <1>11 DEF vars
<1> QED BY <1>1, <1>2, <1>3, <1>4, <1>5, <1>6, <1>7, <1>8, <1>9, <1>10, <1>11
        DEF Next, Quiescent

\* Every variable keeps its type.
THEOREM TypeCorrect == Spec => []TypeOK
<1>1. Init => TypeOK
  BY DEF Init, TypeOK, NoCall, Call, Statuses
<1> QED BY <1>1, TypeStep, PTL DEF Spec

-------------------------------------------------------------------------------
\* The limiter.

LimiterInv ==
  \A h \in Hosts :
    /\ Ordered(admitted[h], now) /\ Bursts(admitted[h])
    /\ IF h \in DOMAIN hits THEN Describes(hits[h], admitted[h]) ELSE admitted[h] = <<>>

\* Clearing the map and the histories with it keeps the invariant.
LEMMA ClearedInv ==
  ASSUME TypeOK, LimiterInv, NEW h \in Hosts
  PROVE  /\ Remembered[h] \in Seq(Nat) /\ Ordered(Remembered[h], now) /\ Bursts(Remembered[h])
         /\ IF h \in DOMAIN Kept THEN Describes(Kept[h], Remembered[h]) ELSE Remembered[h] = <<>>
<1>1. CASE Cardinality(DOMAIN hits) > MapCap
  <2>1. Remembered[h] = <<>> /\ h \notin DOMAIN Kept
    BY <1>1 DEF Remembered, Kept
  <2> QED BY <2>1 DEF Ordered, Bursts
<1>2. CASE ~(Cardinality(DOMAIN hits) > MapCap)
  BY <1>2 DEF Remembered, Kept, LimiterInv, TypeOK
<1> QED BY <1>1, <1>2

LEMMA CheckInv ==
  ASSUME TypeOK, LimiterInv, NEW h \in Hosts, Check(h), now' = now
  PROVE  LimiterInv'
<1> SUFFICES ASSUME NEW g \in Hosts
             PROVE  /\ Ordered(admitted'[g], now) /\ Bursts(admitted'[g])
                    /\ IF g \in DOMAIN hits' THEN Describes(hits'[g], admitted'[g])
                       ELSE admitted'[g] = <<>>
  BY DEF LimiterInv, Ordered, Bursts, Describes
<1>0. now \in Nat /\ Remembered \in [Hosts -> Seq(Nat)]
  BY DEF TypeOK, Remembered
<1>1. CASE ~Allowed(h)
  BY <1>1, ClearedInv DEF Check
<1>2. CASE Allowed(h) /\ g # h
  <2>1. admitted'[g] = Remembered[g] /\ (g \in DOMAIN hits' <=> g \in DOMAIN Kept)
    BY <1>0, <1>2 DEF Check, Put
  <2>2. g \in DOMAIN Kept => hits'[g] = Kept[g]
    BY <1>2 DEF Check, Put
  <2> QED BY <2>1, <2>2, ClearedInv
<1>3. CASE Allowed(h) /\ g = h
  <2> DEFINE a == Remembered[h]
  <2> DEFINE b == Append(a, now)
  <2>1. admitted'[h] = b /\ h \in DOMAIN hits' /\ hits'[h] = NextEntry(h)
    BY <1>0, <1>3 DEF Check, Put
  <2>2. a \in Seq(Nat) /\ Ordered(a, now) /\ Bursts(a) /\ Grows(a, b, now)
    BY <1>0, ClearedInv, Appended
  <2>3. Ordered(b, now) /\ Bursts(b) /\ Describes(NextEntry(h), b)
    <3>1. CASE h \notin DOMAIN Kept
      <4>1. a = <<>> /\ EntryOf(h) = [start |-> now, count |-> 0]
        BY <3>1, ClearedInv DEF EntryOf
      <4>2. NextEntry(h) = [start |-> now, count |-> 1]
        BY <4>1, <1>0, LimitAssumption DEF NextEntry
      <4> QED BY <4>1, <4>2, <2>2, <1>0, FirstWindow
    <3>2. CASE h \in DOMAIN Kept
      <4>1. EntryOf(h) = Kept[h] /\ Kept[h] \in Entry /\ Describes(Kept[h], a)
        BY <3>2, ClearedInv, EntryType DEF EntryOf
      <4>2. CASE now - Kept[h].start >= Window
        <5>1. NextEntry(h) = [start |-> now, count |-> 1]
          BY <4>1, <4>2 DEF NextEntry
        <5> QED BY <5>1, <4>1, <4>2, <2>2, <1>0, OpenWindow
      <4>3. CASE ~(now - Kept[h].start >= Window)
        <5>1. NextEntry(h) = [Kept[h] EXCEPT !.count = @ + 1] /\ Kept[h].count < Max
          BY <4>1, <4>3, <1>3 DEF NextEntry, Allowed
        <5> QED BY <5>1, <4>1, <2>2, <1>0, SameWindow
      <4> QED BY <4>2, <4>3
    <3> QED BY <3>1, <3>2
  <2> QED BY <1>3, <2>1, <2>3
<1> QED BY <1>1, <1>2, <1>3

LEMMA LimiterStep == TypeOK /\ LimiterInv /\ [Next]_vars => LimiterInv'
<1> SUFFICES ASSUME TypeOK, LimiterInv, [Next]_vars PROVE LimiterInv'
  OBVIOUS
<1>1. ASSUME NEW t \in Tabs, Limit(t) PROVE LimiterInv'
  BY <1>1, CheckInv, HomeAssumption DEF Limit
<1>2. CASE Tick
  <2>1. /\ \A h \in Hosts : admitted'[h] = admitted[h] /\ admitted[h] \in Seq(Nat)
        /\ hits' = hits /\ now' = now + 1 /\ now \in Nat
    BY <1>2 DEF Tick, TypeOK
  <2>2. ASSUME NEW h \in Hosts PROVE Ordered(admitted'[h], now')
    <3>1. /\ Ordered(admitted[h], now) /\ admitted'[h] = admitted[h]
          /\ \A i \in 1 .. Len(admitted[h]) : admitted[h][i] \in Nat
      BY <2>1, Elements DEF LimiterInv
    <3> QED BY <2>1, <3>1 DEF Ordered
  <2> QED BY <2>1, <2>2 DEF LimiterInv, Bursts, Describes
<1>3. CASE UNCHANGED <<now, hits, admitted>>
  BY <1>3 DEF LimiterInv, Ordered, Bursts, Describes
<1> QED BY <1>1, <1>2, <1>3
        DEF Next, Quiescent, vars, Revoke, OnSubmit, SignOut, Send, Login, Logout, Lose, Answer,
            Visit

LEMMA LimiterAlways == Spec => [](TypeOK /\ LimiterInv)
<1>1. Init => LimiterInv
  BY DEF Init, LimiterInv, Ordered, Bursts
<1>2. Init => TypeOK
  BY DEF Init, TypeOK, NoCall, Call, Statuses
<1> QED BY <1>1, <1>2, TypeStep, LimiterStep, PTL DEF Spec

\* However calls arrive, an address is let through at most 2 Max - 1 times within a window's
\* length while the map is not cleared.
THEOREM BurstsAreBounded == Spec => []BurstBound
<1>1. TypeOK /\ LimiterInv => BurstBound
  BY DEF LimiterInv, Bursts, BurstBound
<1> QED BY <1>1, LimiterAlways, PTL

\* An address is only ever refused for its own calls.
THEOREM RefusalIsEarned == Spec => RefusedOnlyWhenSpent
<1>1. ASSUME TypeOK, LimiterInv, [Next]_vars, NEW t \in Tabs, call[t].stage = "sent",
             call'[t].stage = "answered", call'[t].status = "too_many"
      PROVE  LET mine == admitted'[Home[t]] IN
               Len(mine) >= Max /\ now - mine[Len(mine) - Max + 1] < Window
  <2>1. Limit(t) /\ ~Allowed(Home[t])
    <3>0. call \in [Tabs -> Call] /\ call'[t] # call[t]
      BY <1>1 DEF TypeOK
    <3>1. ASSUME NEW u \in Tabs, Limit(u) PROVE u = t /\ ~Allowed(Home[t])
      <4>1. u # t => call'[t] = call[t]
        BY <3>0, <3>1 DEF Limit
      <4>2. u = t
        BY <3>0, <4>1
      <4> QED BY <1>1, <3>0, <3>1, <4>2 DEF Limit
    <3>2. ASSUME NEW u \in Tabs, OnSubmit(u) \/ SignOut(u) \/ Login(u) \/ Logout(u)
                                 \/ Lose(u) \/ Answer(u) \/ Visit(u)
          PROVE  FALSE
      <4>1. u # t => call'[t] = call[t]
        BY <3>0, <3>2 DEF OnSubmit, SignOut, Send, Login, Logout, Lose, Answer, Visit
      <4>2. u = t => call'[t].status = "failed" \/ call[t].stage # "sent"
                     \/ call'[t].stage # "answered"
        <5>1. CASE OnSubmit(u) \/ SignOut(u)
          BY <5>1 DEF OnSubmit, SignOut, Send
        <5>2. CASE Login(u) \/ Logout(u) \/ Answer(u) \/ Visit(u)
          BY <5>2 DEF Login, Logout, Answer, Visit
        <5>3. CASE Lose(u)
          BY <3>0, <5>3 DEF Lose, Call
        <5> QED BY <3>2, <5>1, <5>2, <5>3
      <4> QED BY <1>1, <4>1, <4>2
    <3>3. CASE UNCHANGED call
      BY <1>1, <3>3
    <3> QED BY <1>1, <3>1, <3>2, <3>3 DEF Next, Quiescent, vars, Tick, Revoke
  <2> DEFINE h == Home[t]
  <2>2. h \in Hosts /\ Max \in Nat /\ Max >= 1 /\ Window \in Nat /\ Window >= 1 /\ now \in Nat
    BY <1>1, HomeAssumption, LimitAssumption DEF TypeOK
  <2>3. h \in DOMAIN Kept /\ EntryOf(h) = Kept[h] /\ Kept[h] \in Entry
    <3>1. h \notin DOMAIN Kept => Allowed(h)
      BY <2>2 DEF Allowed, EntryOf
    <3> QED BY <1>1, <2>1, <2>2, <3>1, EntryType DEF EntryOf
  <2>4. now - Kept[h].start < Window /\ Kept[h].count = Max
    <3>1. Kept[h].count \in 1 .. Max /\ Kept[h].start \in Nat
      BY <2>3 DEF Entry
    <3> QED BY <2>1, <2>2, <2>3, <3>1 DEF Allowed
  <2>5. admitted'[h] = Remembered[h] /\ Describes(Kept[h], Remembered[h])
    BY <1>1, <2>1, <2>2, <2>3, ClearedInv DEF Limit, Check
  <2>6. Len(Remembered[h]) >= Max /\ Remembered[h][Len(Remembered[h]) - Max + 1] = Kept[h].start
    BY <2>4, <2>5 DEF Describes
  <2> QED BY <2>4, <2>5, <2>6
<1>2. TypeOK /\ LimiterInv /\ [Next]_vars =>
        (\A t \in Tabs :
          (call[t].stage = "sent" /\ call'[t].stage = "answered"
             /\ call'[t].status = "too_many") =>
            LET mine == admitted'[Home[t]] IN
              /\ Len(mine) >= Max
              /\ now - mine[Len(mine) - Max + 1] < Window)
  BY <1>1
<1> QED BY <1>2, LimiterAlways, PTL DEF Spec, RefusedOnlyWhenSpent

-------------------------------------------------------------------------------
\* The session cookie.

SessionInv ==
  /\ CookieWasGranted /\ SignOutSticks
  /\ \A t \in Tabs : call[t].stage = "answered" /\ call[t].kind = "in" /\ call[t].status = "ok"
       => call[t].token \in granted[Home[t]]
  /\ \A t \in Tabs : call[t].stage # "none" /\ call[t].kind = "in" => call[t].token \in Tokens

LEMMA SessionStep == TypeOK /\ SessionInv /\ [Next]_vars => SessionInv'
<1> SUFFICES ASSUME TypeOK, SessionInv, [Next]_vars PROVE SessionInv'
  OBVIOUS
<1> USE DEF SessionInv, CookieWasGranted, SignOutSticks
<1>0. /\ call \in [Tabs -> Call] /\ granted \in [Hosts -> SUBSET Tokens]
      /\ cookie \in [Hosts -> Tokens \cup {None}] /\ left \subseteq Tabs
      /\ \A t \in Tabs : Home[t] \in Hosts
  BY HomeAssumption DEF TypeOK
<1>1. ASSUME NEW t \in Tabs, OnSubmit(t) \/ SignOut(t) PROVE SessionInv'
  BY <1>0, <1>1 DEF OnSubmit, SignOut, Send
<1>2. ASSUME NEW t \in Tabs, Limit(t) PROVE SessionInv'
  BY <1>0, <1>2 DEF Limit, Call
<1>3. ASSUME NEW t \in Tabs, Login(t) PROVE SessionInv'
  <2>1. CASE /\ call[t].token \in live
             /\ call' = [call EXCEPT ![t].stage = "answered", ![t].status = "ok"]
             /\ granted' = [granted EXCEPT ![Home[t]] = @ \cup {call[t].token}]
    BY <1>0, <1>3, <2>1 DEF Login, Call
  <2>2. CASE /\ call' = [call EXCEPT ![t].stage = "answered", ![t].status = "failed"]
             /\ UNCHANGED granted
    BY <1>0, <1>3, <2>2 DEF Login, Call
  <2> QED BY <1>3, <2>1, <2>2 DEF Login
<1>4. ASSUME NEW t \in Tabs, Logout(t) \/ Lose(t) PROVE SessionInv'
  BY <1>0, <1>4 DEF Logout, Lose, Call
<1>5. ASSUME NEW t \in Tabs, Answer(t) PROVE SessionInv'
  <2>1. /\ \A u \in Tabs \ {t} : call'[u] = call[u]
        /\ call'[t] = NoCall /\ granted' = granted
    BY <1>0, <1>5 DEF Answer
  <2>2. CASE call[t].status # "ok"
    <3>1. cookie' = cookie
      BY <1>0, <1>5, <2>2 DEF Answer, CookieAfter
    <3>2. left' = left \ {t}
      BY <1>5, <2>2 DEF Answer
    <3> QED BY <2>1, <3>1, <3>2 DEF NoCall
  <2>3. CASE call[t].status = "ok" /\ call[t].kind = "out"
    BY <1>0, <1>5, <2>1, <2>3 DEF Answer, CookieAfter, NoCall
  <2>4. CASE call[t].status = "ok" /\ call[t].kind = "in"
    <3>1. call[t].token \in granted[Home[t]]
      BY <1>5, <2>4 DEF Answer
    <3>2. cookie' = [cookie EXCEPT ![Home[t]] = call[t].token]
      BY <1>5, <2>4 DEF Answer, CookieAfter
    <3>3. left' = {u \in left : Home[u] # Home[t]}
      BY <1>5, <2>4 DEF Answer
    <3>4. CookieWasGranted'
      BY <1>0, <2>1, <3>1, <3>2
    <3>5. SignOutSticks'
      BY <1>0, <3>2, <3>3
    <3> QED BY <2>1, <3>4, <3>5 DEF NoCall
  <2> QED BY <1>0, <2>2, <2>3, <2>4 DEF Call
<1>6. CASE UNCHANGED <<granted, cookie, call, left>>
  BY <1>6
<1> QED BY <1>1, <1>2, <1>3, <1>4, <1>5, <1>6
        DEF Next, Quiescent, vars, Tick, Revoke, Visit

LEMMA SessionAlways == Spec => []SessionInv
<1>1. Init => SessionInv
  BY HomeAssumption DEF Init, SessionInv, CookieWasGranted, SignOutSticks, NoCall
<1> QED BY <1>1, TypeCorrect, SessionStep, PTL DEF Spec

\* Whatever the order of calls and answers of however many tabs, a cookie is a token that a
\* sign-in of that browser found live.
THEOREM CookiesAreGranted == Spec => []CookieWasGranted
BY SessionAlways, PTL DEF SessionInv

\* An answered sign-out is final until the next sign-in.
THEOREM SignOutIsFinal == Spec => []SignOutSticks
BY SessionAlways, PTL DEF SessionInv
===============================================================================
