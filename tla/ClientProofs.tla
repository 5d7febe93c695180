------------------------------ MODULE ClientProofs -----------------------------
(***************************************************************************)
(* Theorems about what clients do in several requests: reading a list page *)
(* by page (Listing), and moving a .env file into the vault and its values *)
(* out again (EnvFile).  The two have no variable in common.               *)
(***************************************************************************)
EXTENDS Listing, EnvFile, FiniteSetTheorems, SequenceTheorems, TLAPS

-------------------------------------------------------------------------------
\* Listing: a list read page by page holds each row once, and every row that stayed, for any
\* number of rows, any limit, and any failures in between.

\* What a list whose loads were sent one at a time holds: nothing before the first answer;
\* then the rows up to the cursor that are still there, and none beyond it.
ListInv ==
  /\ place = "unread" => cursor = Start /\ \A k \in Keys : times[k] = 0
  /\ place = "inside" => \A k \in Keys : /\ times[k] <= 1
                                         /\ times[k] = 1 => k <= cursor
                                         /\ k \in stayers /\ k <= cursor => times[k] = 1
  /\ place = "end" => \A k \in Keys : times[k] <= 1 /\ (k \in stayers => times[k] = 1)

\* What such a list's load holds: it starts at the cursor, and no row that stayed is missing
\* between its start and its last row, or after its start if it is short.
LoadInv(l) ==
  /\ place # "end" /\ l.from = cursor /\ (l.append <=> place = "inside")
  /\ l.stage = "served" =>
       /\ \A k \in l.page : k > l.from
       /\ l.full => l.next \in l.page /\ \A k \in l.page : k <= l.next
       /\ \A k \in stayers : k > l.from /\ (l.full => k <= l.next) => k \in l.page

IInv ==
  /\ TypeOK
  /\ clean => Len(loads) <= 1 /\ ListInv /\ \A i \in 1 .. Len(loads) : LoadInv(loads[i])

\* A load under way is a load.
LEMMA LoadsAreLoads ==
  ASSUME TypeOK
  PROVE  /\ Len(loads) \in Nat /\ DOMAIN loads = 1 .. Len(loads)
         /\ \A i \in 1 .. Len(loads) : loads[i] \in Load
BY LenProperties, ElementOfSeq DEF TypeOK

LEMMA InitIInv == Init => IInv
<1> SUFFICES ASSUME Init
             PROVE  IInv
  OBVIOUS
<1>1. limit \in 1 .. MaxPage
  BY BoundsAssumption DEF Init, Clamped
<1>2. FirstLoad \in Load
  BY DEF FirstLoad, Load
<1>3. loads = <<FirstLoad>> /\ Len(loads) = 1 /\ loads[1] = FirstLoad
  BY DEF Init
<1>4. loads \in Seq(Load)
  BY <1>2, <1>3
<1>5. TypeOK
  BY <1>1, <1>4 DEF Init, TypeOK
<1>6. ListInv /\ LoadInv(FirstLoad)
  BY DEF Init, ListInv, LoadInv, FirstLoad
<1> QED BY <1>3, <1>5, <1>6 DEF IInv

\* Rows come and go; those that stay are fewer.
LEMMA TableKeeps ==
  ASSUME IInv, NEW k \in Keys, Insert(k) \/ Delete(k)
  PROVE  IInv'
<1>1. /\ UNCHANGED <<client, limit, times, cursor, place, loads, clean, clicks, losses>>
      /\ stayers' \subseteq stayers
  BY DEF Insert, Delete
<1>2. /\ rows' \subseteq used' /\ used' \subseteq Keys /\ stayers' \subseteq rows'
  BY DEF IInv, TypeOK, Insert, Delete
<1>3. TypeOK'
  BY <1>1, <1>2 DEF IInv, TypeOK
<1>4. ListInv => ListInv'
  BY <1>1 DEF ListInv
<1>5. \A l : LoadInv(l) => LoadInv(l)'
  BY <1>1 DEF LoadInv
<1> QED BY <1>1, <1>3, <1>4, <1>5 DEF IInv

\* A page is what IsPage says, whichever of the rows are live.
LEMMA ServedPage ==
  ASSUME IInv, NEW P \in SUBSET rows, NEW from \in Keys \cup {Start}, IsPage(P, from),
         NEW n \in Keys \cup {Start}, IF IsFull(P) THEN IsLast(n, P) ELSE n = Start
  PROVE  /\ \A k \in P : k > from
         /\ IsFull(P) => n \in P /\ \A k \in P : k <= n
         /\ \A k \in stayers : k > from /\ (IsFull(P) => k <= n) => k \in P
<1>1. \A k \in P : k > from
  BY DEF IsPage, After
<1>2. IsFull(P) => n \in P /\ \A k \in P : k <= n
  BY DEF IsLast
<1>3. rows \subseteq Keys /\ stayers \subseteq rows
  BY DEF IInv, TypeOK
<1>4. \A k \in stayers : k > from => k \in After(from)
  BY <1>3 DEF After
<1>5. CASE IsFull(P)
  <2>1. ASSUME NEW k \in stayers, k > from, k <= n, k \notin P
        PROVE  FALSE
    <3>1. n < k
      BY <1>2, <1>4, <1>5, <2>1 DEF IsPage
    <3>2. n \in Int /\ k \in Int
      BY <1>3 DEF Keys, Start
    <3> QED BY <2>1, <3>1, <3>2
  <2> QED BY <1>1, <1>2, <1>5, <2>1
<1>6. CASE ~IsFull(P)
  <2>1. IsFiniteSet(Keys)
    BY FS_Interval, BoundsAssumption DEF Keys
  <2>2. IsFiniteSet(P)
    BY <1>3, <2>1, FS_Subset
  <2>3. Cardinality(P) \in Nat
    BY <2>2, FS_CardinalityType
  <2>4. limit \in Nat
    BY BoundsAssumption DEF IInv, TypeOK
  <2>5. Cardinality(P) < limit
    BY <1>6, <2>3, <2>4 DEF IsPage, IsFull
  <2>6. P = After(from)
    BY <2>5 DEF IsPage
  <2> QED BY <1>1, <1>4, <1>6, <2>6
<1> QED BY <1>5, <1>6

LEMMA ServeKeeps ==
  ASSUME IInv, NEW i \in 1 .. Len(loads), Serve(i)
  PROVE  IInv'
<1>1. PICK P \in SUBSET rows, n \in Keys \cup {Start} :
        /\ IsPage(P, loads[i].from)
        /\ IF IsFull(P) THEN IsLast(n, P) ELSE n = Start
        /\ loads' = [loads EXCEPT ![i].stage = "served", ![i].page = P,
                                  ![i].next = n, ![i].full = IsFull(P)]
  BY DEF Serve
<1>2. UNCHANGED <<rows, used, client, limit, times, cursor, place, stayers, clean, clicks, losses>>
  BY DEF Serve
<1>3. Len(loads) \in Nat /\ DOMAIN loads = 1 .. Len(loads) /\ loads[i] \in Load
      /\ loads \in Seq(Load)
  BY LoadsAreLoads DEF IInv, TypeOK
<1>a. PICK l : l = [loads[i] EXCEPT !.stage = "served", !.page = P, !.next = n, !.full = IsFull(P)]
  OBVIOUS
<1>4. /\ l \in Load /\ l.stage = "served" /\ l.page = P /\ l.next = n /\ l.full = IsFull(P)
      /\ l.from = loads[i].from /\ l.append = loads[i].append
  <2>1. P \subseteq Keys /\ IsFull(P) \in BOOLEAN
    BY DEF IInv, TypeOK, IsFull
  <2> QED BY <1>3, <1>a, <2>1 DEF Load
<1>5. loads' = [loads EXCEPT ![i] = l]
  BY <1>1, <1>3, <1>a
<1>6. loads' \in Seq(Load) /\ Len(loads') = Len(loads)
  BY <1>3, <1>4, <1>5, ExceptSeq
<1>7. TypeOK'
  BY <1>2, <1>6 DEF IInv, TypeOK
<1>8. ASSUME clean
      PROVE  Len(loads) <= 1 /\ ListInv' /\ LoadInv(l)'
  <2>1. Len(loads) <= 1 /\ ListInv /\ LoadInv(loads[i])
    BY <1>8 DEF IInv
  <2>2. ListInv'
    BY <1>2, <2>1 DEF ListInv
  <2>3. l.from \in Keys \cup {Start}
    BY <1>4 DEF Load
  <2>4. /\ \A k \in P : k > l.from
        /\ IsFull(P) => n \in P /\ \A k \in P : k <= n
        /\ \A k \in stayers : k > l.from /\ (IsFull(P) => k <= n) => k \in P
    <3>1. IsPage(P, l.from)
      BY <1>1, <1>4
    <3> QED BY <1>1, <2>3, <3>1, ServedPage, Zenon
  <2>5. LoadInv(l)'
    BY <1>2, <1>4, <2>1, <2>4 DEF LoadInv
  <2> QED BY <2>1, <2>2, <2>5
<1>9. clean => \A j \in 1 .. Len(loads) : j = i
  BY <1>3, <1>8
<1>10. loads'[i] = l
  BY <1>3, <1>5
<1>11. clean' => \A j \in 1 .. Len(loads') : LoadInv(loads[j])'
  BY <1>2, <1>6, <1>8, <1>9, <1>10
<1> QED BY <1>2, <1>6, <1>7, <1>8, <1>11 DEF IInv

LEMMA LoseKeeps ==
  ASSUME IInv, NEW i \in 1 .. Len(loads), Lose(i)
  PROVE  IInv'
<1>1. /\ loads' = [loads EXCEPT ![i].stage = "failed"] /\ losses' = losses + 1
      /\ UNCHANGED <<rows, used, client, limit, times, cursor, place, stayers, clean, clicks>>
  BY DEF Lose
<1>2. Len(loads) \in Nat /\ DOMAIN loads = 1 .. Len(loads) /\ loads[i] \in Load
      /\ loads \in Seq(Load)
  BY LoadsAreLoads DEF IInv, TypeOK
<1>a. PICK l : l = [loads[i] EXCEPT !.stage = "failed"]
  OBVIOUS
<1>3. l \in Load /\ l.stage = "failed" /\ l.from = loads[i].from /\ l.append = loads[i].append
  BY <1>2, <1>a DEF Load
<1>4. loads' = [loads EXCEPT ![i] = l]
  BY <1>1, <1>2, <1>a
<1>5. loads' \in Seq(Load) /\ Len(loads') = Len(loads)
  BY <1>2, <1>3, <1>4, ExceptSeq
<1>6. TypeOK'
  BY <1>1, <1>5 DEF IInv, TypeOK
<1>7. clean => Len(loads) <= 1 /\ ListInv' /\ LoadInv(l)'
  BY <1>1, <1>3 DEF IInv, ListInv, LoadInv
<1>8. loads'[i] = l
  BY <1>2, <1>4
<1>9. clean => \A j \in 1 .. Len(loads) : j = i
  BY <1>2, <1>7
<1>10. clean' => \A j \in 1 .. Len(loads') : LoadInv(loads[j])'
  BY <1>1, <1>5, <1>7, <1>8, <1>9
<1> QED BY <1>1, <1>5, <1>6, <1>7, <1>10 DEF IInv

\* Without its only load, a list of loads is empty.
LEMMA WithoutOne ==
  ASSUME TypeOK, NEW i \in 1 .. Len(loads)
  PROVE  /\ Without(i) \in Seq(Load) /\ Len(Without(i)) = Len(loads) - 1
<1>1. Len(loads) \in Nat /\ loads \in Seq(Load)
  BY LoadsAreLoads DEF TypeOK
<1>2. /\ SubSeq(loads, 1, i - 1) \in Seq(Load) /\ Len(SubSeq(loads, 1, i - 1)) = i - 1
  BY <1>1, SubSeqProperties
<1>3. /\ SubSeq(loads, i + 1, Len(loads)) \in Seq(Load)
      /\ Len(SubSeq(loads, i + 1, Len(loads))) = Len(loads) - i
  BY <1>1, SubSeqProperties
<1> DEFINE a == SubSeq(loads, 1, i - 1)
           b == SubSeq(loads, i + 1, Len(loads))
<1>4. Without(i) = a \o b
  BY DEF Without, RemoveAt
<1> HIDE DEF a, b
<1>5. a \o b \in Seq(Load) /\ Len(a \o b) = Len(a) + Len(b)
  BY <1>2, <1>3, ConcatProperties DEF a, b
<1>6. Len(a) = i - 1 /\ Len(b) = Len(loads) - i
  BY <1>2, <1>3 DEF a, b
<1> QED BY <1>1, <1>4, <1>5, <1>6

LEMMA AnswerKeeps ==
  ASSUME IInv, NEW i \in 1 .. Len(loads), Answer(i)
  PROVE  IInv'
<1> DEFINE l == loads[i]
<1>1. /\ loads' = Without(i)
      /\ UNCHANGED <<rows, used, client, limit, stayers, clean, clicks, losses>>
  BY DEF Answer
<1>2. Len(loads) \in Nat /\ l \in Load
  BY LoadsAreLoads DEF IInv
<1>3. loads' \in Seq(Load) /\ Len(loads') = Len(loads) - 1
  BY <1>1, WithoutOne DEF IInv
<1>4. clean => Len(loads') = 0 /\ ListInv /\ LoadInv(l)
  BY <1>2, <1>3 DEF IInv
<1>5. CASE l.stage = "served"
  <2>1. /\ times' = [k \in Keys |-> Counted((IF l.append THEN times[k] ELSE 0)
                                              + (IF k \in l.page THEN 1 ELSE 0))]
        /\ cursor' = l.next
        /\ place' = IF l.full THEN "inside" ELSE "end"
    BY <1>5 DEF Answer
  <2>2. /\ l.next \in Keys \cup {Start} /\ l.append \in BOOLEAN /\ l.full \in BOOLEAN
        /\ l.page \subseteq Keys /\ l.from \in Keys \cup {Start}
    BY <1>2 DEF Load
  <2>3. times \in [Keys -> Nat] /\ cursor \in Keys \cup {Start}
    BY DEF IInv, TypeOK
  <2> HIDE DEF l
  <2>4. times' \in [Keys -> Nat]
    BY <2>1, <2>3 DEF Counted
  <2>5. TypeOK'
    BY <1>1, <1>3, <2>1, <2>2, <2>4 DEF IInv, TypeOK
  <2>6. ASSUME clean
        PROVE  ListInv'
    <3>1. /\ ListInv /\ place # "end" /\ l.from = cursor /\ (l.append <=> place = "inside")
          /\ \A k \in l.page : k > cursor
          /\ l.full => l.next \in l.page /\ \A k \in l.page : k <= l.next
          /\ \A k \in stayers : k > cursor /\ (l.full => k <= l.next) => k \in l.page
      BY <1>4, <1>5, <2>6 DEF LoadInv
    <3>2. place = "unread" \/ place = "inside"
      BY <3>1 DEF IInv, TypeOK
    <3>3. \A k \in Keys : k \in Int /\ cursor \in Int /\ l.next \in Int
      BY <2>2, <2>3 DEF Keys, Start
    <3>4. ASSUME NEW k \in Keys
          PROVE  /\ times'[k] <= 1
                 /\ times'[k] = 1 => k <= cursor \/ k \in l.page
                 /\ k \in stayers /\ k <= cursor => times'[k] = 1
                 /\ k \in l.page => times'[k] = 1
      <4>1. times'[k] = Counted((IF l.append THEN times[k] ELSE 0) + (IF k \in l.page THEN 1 ELSE 0))
        BY <2>1
      <4>2. times[k] \in Nat /\ k \in Int /\ cursor \in Int
        BY <2>3, <3>3
      <4>3. k \in l.page => ~(k <= cursor)
        BY <3>1, <4>2
      <4>4. CASE place = "unread"
        <5>1. cursor = Start /\ times[k] = 0 /\ ~(k <= cursor)
          BY <3>1, <4>4, BoundsAssumption DEF ListInv, Keys, Start
        <5> QED BY <4>1, <4>3, <5>1 DEF Counted
      <4>5. CASE place = "inside"
        <5>1. l.append /\ times[k] <= 1 /\ (times[k] = 1 => k <= cursor)
              /\ (k \in stayers /\ k <= cursor => times[k] = 1)
          BY <3>1, <4>5 DEF ListInv
        <5>2. times[k] = 0 \/ times[k] = 1
          BY <4>2, <5>1
        <5> QED BY <4>1, <4>3, <5>1, <5>2 DEF Counted
      <4> QED BY <3>2, <4>4, <4>5
    <3>5. CASE l.full
      <4>1. place' = "inside" /\ cursor' = l.next
        BY <2>1, <3>5
      <4>2. ASSUME NEW k \in Keys
            PROVE  /\ times'[k] <= 1
                   /\ times'[k] = 1 => k <= l.next
                   /\ k \in stayers /\ k <= l.next => times'[k] = 1
        <5>1. times'[k] <= 1
          BY <3>4
        <5>2. cursor <= l.next
          BY <3>1, <3>3, <3>5
        <5>3. times'[k] = 1 => k <= l.next
          BY <3>1, <3>3, <3>4, <3>5, <5>2
        <5>4. k \in stayers /\ k <= l.next => times'[k] = 1
          BY <3>1, <3>3, <3>4, <3>5
        <5> QED BY <5>1, <5>3, <5>4
      <4> QED BY <1>1, <4>1, <4>2 DEF ListInv
    <3>6. CASE ~l.full
      <4>1. place' = "end"
        BY <2>1, <3>6
      <4>2. \A k \in Keys : times'[k] <= 1 /\ (k \in stayers => times'[k] = 1)
        BY <3>1, <3>3, <3>4, <3>6
      <4> QED BY <1>1, <4>1, <4>2 DEF ListInv
    <3> QED BY <3>5, <3>6
  <2> QED BY <1>1, <1>4, <2>5, <2>6 DEF IInv
<1>6. CASE l.stage # "served"
  <2>1. UNCHANGED <<times, cursor, place>>
    BY <1>6 DEF Answer
  <2>2. TypeOK'
    BY <1>1, <1>3, <2>1 DEF IInv, TypeOK
  <2>3. ListInv => ListInv'
    BY <1>1, <2>1 DEF ListInv
  <2> QED BY <1>1, <1>4, <2>2, <2>3 DEF IInv
<1> QED BY <1>5, <1>6

\* A list that sends a load starts it at its cursor.
LEMMA SendKeeps ==
  ASSUME IInv, NEW load, Send(load),
         (place = "inside" /\ load = NextLoad) \/ (place = "unread" /\ load = FirstLoad),
         UNCHANGED <<rows, used, client, limit, times, cursor, place, stayers, losses>>,
         clicks' \in Nat
  PROVE  IInv'
<1>1. loads' = Append(loads, load) /\ clean' = (clean /\ loads = <<>>)
  BY DEF Send
<1>2. /\ UNCHANGED <<rows, used, client, limit, times, cursor, place, stayers, losses>>
      /\ clicks' \in Nat
  OBVIOUS
<1>3. load \in Load /\ load.from \in {Start, cursor} /\ load.stage = "sent"
      /\ (load = NextLoad => load.append /\ load.from = cursor)
      /\ (load = FirstLoad => ~load.append /\ load.from = Start)
  <2>1. FirstLoad \in Load
    BY DEF FirstLoad, Load
  <2>2. cursor \in Keys \cup {Start}
    BY DEF IInv, TypeOK
  <2>4. NextLoad \in Load /\ NextLoad.append /\ NextLoad.from = cursor /\ NextLoad.stage = FirstLoad.stage
    BY <2>1, <2>2 DEF NextLoad, Load
  <2>5. ~FirstLoad.append /\ FirstLoad.from = Start /\ FirstLoad.stage = "sent"
    BY DEF FirstLoad
  <2> QED BY <1>1, <2>1, <2>4, <2>5
<1>4. loads' \in Seq(Load) /\ Len(loads') = Len(loads) + 1 /\ loads'[Len(loads) + 1] = load
  BY <1>1, <1>3, AppendProperties DEF IInv, TypeOK
<1>5. clean' \in BOOLEAN
  BY <1>1 DEF IInv, TypeOK
<1>6. TypeOK'
  BY <1>2, <1>4, <1>5 DEF IInv, TypeOK
<1>7. ASSUME clean'
      PROVE  Len(loads') = 1 /\ loads'[1] = load /\ ListInv' /\ LoadInv(load)'
  <2>1. clean /\ loads = <<>> /\ Len(loads) = 0 /\ ListInv
    BY <1>1, <1>7 DEF IInv
  <2>2. Len(loads') = 1 /\ loads'[1] = load
    BY <1>4, <2>1
  <2>3. ListInv'
    BY <1>2, <2>1 DEF ListInv
  <2>4. LoadInv(load)'
    BY <1>1, <1>2, <1>3, <2>1 DEF LoadInv, ListInv
  <2> QED BY <2>2, <2>3, <2>4
<1>8. \A i \in 1 .. 1 : i = 1
  OBVIOUS
<1>9. clean' => \A i \in 1 .. Len(loads') : LoadInv(loads[i])'
  BY <1>7, <1>8
<1> QED BY <1>6, <1>7, <1>9 DEF IInv

LEMMA SendsKeep ==
  ASSUME IInv, AskNext \/ LoadMore
  PROVE  IInv'
<1>1. /\ UNCHANGED <<rows, used, client, limit, times, cursor, place, stayers, losses>>
      /\ clicks' \in Nat
  BY DEF AskNext, LoadMore, IInv, TypeOK
<1>2. CASE place = "inside" /\ Send(NextLoad)
  <2>1. PICK load : load = NextLoad
    OBVIOUS
  <2>2. Send(load)
    BY <1>2, <2>1 DEF Send
  <2>3. (place = "inside" /\ load = NextLoad) \/ (place = "unread" /\ load = FirstLoad)
    BY <1>2, <2>1
  <2> QED BY <1>1, <2>2, <2>3, SendKeeps, Zenon
<1>3. CASE place = "unread" /\ Send(FirstLoad)
  BY <1>1, <1>3, SendKeeps, Zenon
<1> QED BY <1>2, <1>3 DEF AskNext, LoadMore

\* "Apply" begins a new list; it is clean when no load of the old one can still arrive.
LEMMA ApplyKeeps ==
  ASSUME IInv, Apply
  PROVE  IInv'
<1>1. /\ times' = [k \in Keys |-> 0] /\ cursor' = Start /\ place' = "unread"
      /\ loads' = Append(loads, FirstLoad) /\ clean' = (loads = <<>>) /\ stayers' = rows
      /\ clicks' = clicks + 1
      /\ UNCHANGED <<rows, used, client, limit, losses>>
  BY DEF Apply
<1>2. FirstLoad \in Load
  BY DEF FirstLoad, Load
<1>3. loads' \in Seq(Load) /\ Len(loads') = Len(loads) + 1 /\ loads'[Len(loads) + 1] = FirstLoad
  BY <1>1, <1>2, AppendProperties DEF IInv, TypeOK
<1>4. TypeOK'
  BY <1>1, <1>3 DEF IInv, TypeOK
<1>5. ListInv'
  BY <1>1 DEF ListInv
<1>6. LoadInv(FirstLoad)'
  BY <1>1 DEF LoadInv, FirstLoad
<1>7. clean' => Len(loads') = 1 /\ loads'[1] = FirstLoad
  <2>1. loads = <<>> => Len(loads) = 0
    OBVIOUS
  <2>2. clean' => Len(loads) + 1 = 1
    <3>1. clean' => loads = <<>>
      BY <1>1, Zenon
    <3> QED BY <2>1, <3>1
  <2> QED BY <1>3, <2>2
<1>8. clean' => \A i \in 1 .. Len(loads') : LoadInv(loads[i])'
  <2>1. clean' => \A i \in 1 .. Len(loads') : loads'[i] = FirstLoad
    <3>1. \A i \in 1 .. 1 : i = 1
      OBVIOUS
    <3> QED BY <1>7, <3>1
  <2> QED BY <1>1, <2>1 DEF LoadInv, FirstLoad
<1> QED BY <1>4, <1>5, <1>7, <1>8 DEF IInv

LEMMA NextIInv == IInv /\ [Next]_vars => IInv'
<1> SUFFICES ASSUME IInv, [Next]_vars
             PROVE  IInv'
  OBVIOUS
<1>1. CASE UNCHANGED vars
  BY <1>1 DEF IInv, TypeOK, ListInv, LoadInv, vars
<1>2. CASE AskNext \/ LoadMore
  BY <1>2, SendsKeep
<1>3. CASE Apply
  BY <1>3, ApplyKeeps
<1>4. ASSUME NEW k \in Keys, Insert(k) \/ Delete(k)
      PROVE  IInv'
  BY <1>4, TableKeeps
<1>5. ASSUME NEW i \in 1 .. Len(loads), Serve(i) \/ Lose(i) \/ Answer(i)
      PROVE  IInv'
  BY <1>5, ServeKeeps, LoseKeeps, AnswerKeeps
<1> QED BY <1>1, <1>2, <1>3, <1>4, <1>5 DEF Next, Quiescent

LEMMA IInvHolds == Spec => []IInv
BY InitIInv, NextIInv, PTL DEF Spec

\* Whatever pages are asked for, lost and answered, the state has its type; in it, the limit
\* every page is read with is between 1 and MAX_PAGE_SIZE.
THEOREM TypeCorrect == Spec => []TypeOK
<1>1. IInv => TypeOK
  BY DEF IInv
<1> QED BY <1>1, IInvHolds, PTL

\* No row is listed twice by a client that asks for one page at a time, wherever rows are
\* inserted meanwhile and however often a page fails.
THEOREM NoRowTwice == Spec => []ListedOnce
<1>1. IInv => ListedOnce
  BY DEF IInv, ListInv, ListedOnce, TypeOK
<1> QED BY <1>1, IInvHolds, PTL

\* No row that stays is missed: a short page ends the list only when nothing is left.
THEOREM NoStayerMissed == Spec => []StayersAreListed
<1>1. IInv => StayersAreListed
  BY DEF IInv, ListInv, StayersAreListed, TypeOK
<1> QED BY <1>1, IInvHolds, PTL

-------------------------------------------------------------------------------
\* EnvFile: what is invariant.

\* The pairs the loop of an import is past.
Behind(c) == {i \in Named(c.pairs) : i < c.at}

IsStored(pair) == <<PathOf(pair.name), pair.value>> \in stored

\* An import without a failure has stored what it is past, and cleans up after all of it.
StoredOK(c) ==
  /\ c.stage = "put" /\ ~c.failed => \A i \in Behind(c) : IsStored(c.pairs[i])
  /\ c.stage \in {"cleanup", "remove", "ignore"} => \A i \in Named(c.pairs) : IsStored(c.pairs[i])

\* Of the pairs at the lines P that share a path the vault holds the last.
Holds(pairs, P) ==
  \A i \in P : (\A j \in P : j > i => PathOf(pairs[j].name) # PathOf(pairs[i].name))
                 => vault[PathOf(pairs[i].name)] = pairs[i].value

HoldsOK(c) == c.stage = "put" /\ ~c.failed /\ c.quiet => Holds(c.pairs, Behind(c))

\* Unless somebody wrote, the answer to an export is still true.
GotOK(c) == c.stage \in {"write", "run", "ran", "inject", "injected"} /\ c.quiet => c.got = vault

RanOK(c) ==
  c.stage = "ran" => \A n \in Shown :
    c.vars[n] = IF Map(c.got, n) # None THEN Map(c.got, n) ELSE IF c.over THEN None ELSE shell[n]

\* The variables that inject has set so far, and it sets no others.
InjectOK(c) ==
  c.stage \in {"inject", "injected"} =>
    /\ c.todo \subseteq Live(c.got)
    /\ c.stage = "injected" => c.todo = {}
    /\ \A n \in Shown :
         LET done == Sharing(c.got, n) \ c.todo IN
         IF done # {} /\ (c.over \/ shell[n] = None)
         THEN \E p \in done : c.vars[n] = c.got[p]
         ELSE c.vars[n] = shell[n]

CmdOK(c) ==
  /\ c.stage = "confirm" => c.at = 1
  /\ c.stage = "put" => c.at <= Len(c.pairs) + 1
  /\ StoredOK(c) /\ HoldsOK(c) /\ GotOK(c) /\ RanOK(c) /\ InjectOK(c)

FileInv == FileTypeOK /\ CmdOK(cmd) /\ Holds(last, Named(last))

-------------------------------------------------------------------------------
\* EnvFile: names, lines and maps.

\* Names that are shown come back as they are.
LEMMA NamesAndPaths ==
  /\ \A n \in Names : PathOf(n) \in Paths
  /\ \A p \in Paths : NameOf(p) \in Shown
  /\ \A n \in Shown : PathOf(n) \in Paths /\ NameOf(PathOf(n)) = n
BY DEF Names, Paths, Shown, PathOf, NameOf

\* Of each line the parser makes a pair or none.
LEMMA ParsedIs ==
  ASSUME NEW lines \in Seq(Line), ~Panics(lines)
  PROVE  Parsed(lines) \in Seq(Pair \cup {None})
<1>1. /\ Len(lines) \in Nat /\ DOMAIN lines = 1 .. Len(lines)
      /\ \A i \in DOMAIN lines : lines[i] \in Line
  BY LenProperties, ElementOfSeq
<1>2. ASSUME NEW i \in DOMAIN lines, lines[i].name # None
      PROVE  [name |-> lines[i].name, value |-> lines[i].text] \in Pair
  BY <1>1, <1>2 DEF Line, Pair, Texts, Panics
<1>3. Parsed(lines) \in [1 .. Len(lines) -> Pair \cup {None}]
  BY <1>1, <1>2 DEF Parsed
<1>. QED
  BY <1>1, <1>3, SeqDef

\* The pairs of a sequence of pairs.
LEMMA NamedAre ==
  ASSUME NEW pairs \in Seq(Pair \cup {None}), NEW i \in Named(pairs)
  PROVE  /\ i \in 1 .. Len(pairs) /\ Len(pairs) \in Nat
         /\ pairs[i] \in Pair /\ pairs[i].name \in Names /\ pairs[i].value \in Values
         /\ PathOf(pairs[i].name) \in Paths
<1>1. i \in 1 .. Len(pairs) /\ Len(pairs) \in Nat /\ pairs[i] \in Pair
  BY LenProperties, ElementOfSeq DEF Named
<1>2. pairs[i].name \in Names /\ pairs[i].value \in Values
  BY <1>1 DEF Pair
<1>. QED
  BY <1>1, <1>2, NamesAndPaths

\* What a name gets is the value of a path that is shown under it.
LEMMA MapIs ==
  ASSUME NEW values \in [Paths -> Values \cup {None}], NEW n
  PROVE  /\ Sharing(values, n) = {} => Map(values, n) = None
         /\ Sharing(values, n) # {} =>
              /\ Map(values, n) \in Values /\ Map(values, n) # None
              /\ \E p \in Sharing(values, n) : Map(values, n) = values[p]
<1>1. ASSUME Sharing(values, n) # {} PROVE Later(Sharing(values, n)) \in Sharing(values, n)
  BY <1>1 DEF Later
<1>2. \A p \in Sharing(values, n) : values[p] \in Values /\ values[p] # None
  BY DEF Sharing, Live
<1>. QED
  BY <1>1, <1>2 DEF Map

\* A map is rendered as lines.
LEMMA RenderedIs ==
  ASSUME NEW values \in [Paths -> Values \cup {None}]
  PROVE  Rendered(values) \in Seq(Line)
<1>. DEFINE line(n) == IF Map(values, n) = None THEN <<>>
                       ELSE <<[name |-> n, text |-> ReadBack(Map(values, n))]>>
<1>1. ASSUME NEW n \in Shown PROVE line(n) \in Seq(Line)
  <2>1. CASE Map(values, n) = None
    BY <2>1
  <2>2. CASE Map(values, n) # None
    <3>1. ReadBack(Map(values, n)) \in Texts
      BY <2>2, MapIs DEF ReadBack, Texts, Values, Plain
    <3>2. [name |-> n, text |-> ReadBack(Map(values, n))] \in Line
      BY <3>1 DEF Line, Names, Shown
    <3>. QED
      BY <2>2, <3>2
  <2>. QED
    BY <2>1, <2>2
<1>2. line("A") \in Seq(Line) /\ line("A_B") \in Seq(Line)
  BY <1>1 DEF Shown
<1>3. Rendered(values) = line("A") \o line("A_B")
  BY DEF Rendered
<1>. HIDE DEF line
<1>. QED
  BY <1>2, <1>3, ConcatProperties

-------------------------------------------------------------------------------
\* EnvFile: steps.

\* What a command holds.
LEMMA CmdIs ==
  ASSUME FileTypeOK
  PROVE  /\ cmd \in Cmd /\ cmd.pairs \in Seq(Pair \cup {None}) /\ cmd.at \in Nat \ {0}
         /\ cmd.got \in [Paths -> Values \cup {None}] /\ cmd.todo \subseteq Paths
         /\ cmd.vars \in Variables /\ cmd.failed \in BOOLEAN /\ cmd.quiet \in BOOLEAN
         /\ cmd.over \in BOOLEAN /\ cmd.yes \in BOOLEAN
BY DEF FileTypeOK, Cmd

\* Between commands nothing is promised of the command.
LEMMA IdleIs ==
  ASSUME FileTypeOK
  PROVE  Idle \in Cmd /\ CmdOK(Idle) /\ Idle.stage = "idle" /\ Idle.pairs = <<>> /\ Idle.at = 1
<1>1. Nothing \in [Paths -> Values \cup {None}] /\ shell \in Variables
  BY DEF Nothing, FileTypeOK
<1>2. <<>> \in Seq(Pair \cup {None})
  OBVIOUS
<1>3. Idle \in Cmd /\ Idle.stage = "idle" /\ Idle.pairs = <<>> /\ Idle.at = 1
  BY <1>1, <1>2 DEF Idle, Cmd
<1>4. CmdOK(Idle)
  BY <1>3 DEF CmdOK, StoredOK, HoldsOK, GotOK, RanOK, InjectOK
<1>. QED
  BY <1>3, <1>4

\* A step of a command that leaves the vault alone.
LEMMA CmdStep ==
  ASSUME FileInv, NEW c \in Cmd, cmd' = c, CmdOK(c),
         UNCHANGED <<vault, stored, shell, faults, others>>,
         file' \in Seq(Line) \cup {None},
         ignore' \in {"absent", "open", "closed", "listed", "glued"},
         commands' \in 0 .. MaxCommands,
         last' \in Seq(Pair \cup {None}), Holds(last', Named(last'))
  PROVE  FileInv'
<1>1. FileTypeOK'
  BY DEF FileInv, FileTypeOK, CmdOK
<1>2. CmdOK(cmd)' /\ Holds(last, Named(last))'
  BY DEF CmdOK, StoredOK, IsStored, HoldsOK, Holds, GotOK, RanOK, InjectOK
<1>. QED
  BY <1>1, <1>2 DEF FileInv

LEMMA BecomeStep ==
  ASSUME FileInv, NEW c \in Cmd, Become(c), CmdOK(c)
  PROVE  FileInv'
<1>1. /\ file' = file /\ ignore' = ignore /\ commands' = commands /\ last' = last
      /\ cmd' = c /\ UNCHANGED <<vault, stored, shell, faults, others>>
  BY DEF Become
<1>. QED
  BY <1>1, CmdStep DEF FileInv, FileTypeOK

LEMMA BeginStep ==
  ASSUME FileInv, NEW c \in Cmd, Begin(c), CmdOK(c)
  PROVE  FileInv'
<1>1. /\ file' = file /\ ignore' = ignore /\ last' = last
      /\ cmd' = c /\ UNCHANGED <<vault, stored, shell, faults, others>>
      /\ commands' = commands + 1 /\ commands < MaxCommands
  BY DEF Begin
<1>2. commands' \in 0 .. MaxCommands
  BY <1>1, FileBounds DEF FileInv, FileTypeOK
<1>. QED
  BY <1>1, <1>2, CmdStep DEF FileInv, FileTypeOK

\* An import starts past nothing.
LEMMA StartImportStep ==
  ASSUME FileInv, NEW yes \in BOOLEAN, StartImport(yes)
  PROVE  FileInv'
<1>1. FileTypeOK
  BY DEF FileInv
<1>2. CASE Begin(Idle)
  BY <1>1, <1>2, IdleIs, BeginStep
<1>3. CASE /\ ~Panics(file)
           /\ Begin([Idle EXCEPT !.stage = IF yes THEN "put" ELSE "confirm", !.yes = yes,
                                 !.pairs = Parsed(file)])
  <2>. DEFINE c == [Idle EXCEPT !.stage = IF yes THEN "put" ELSE "confirm", !.yes = yes,
                                !.pairs = Parsed(file)]
  <2>1. file \in Seq(Line)
    BY <1>1, <1>3 DEF FileTypeOK, StartImport
  <2>2. Parsed(file) \in Seq(Pair \cup {None})
    BY <1>3, <2>1, ParsedIs
  <2>3. Idle \in Cmd /\ Idle.at = 1
    BY <1>1, IdleIs
  <2>4. c \in Cmd /\ c.stage \in {"put", "confirm"} /\ c.pairs = Parsed(file) /\ c.at = 1
    BY <2>2, <2>3 DEF Cmd
  <2>5. Begin(c)
    BY <1>3
  <2>. HIDE DEF c
  <2>6. Behind(c) = {} /\ Len(c.pairs) \in Nat
    BY <2>2, <2>4, NamedAre, LenProperties DEF Behind
  <2>7. CmdOK(c)
    BY <2>4, <2>6 DEF CmdOK, StoredOK, HoldsOK, Holds, GotOK, RanOK, InjectOK
  <2>. QED
    BY <2>4, <2>5, <2>7, BeginStep
<1>. QED
  BY <1>2, <1>3 DEF StartImport

\* The answer of an export is true when it comes; nothing is injected of it yet.
LEMMA StartFetchStep ==
  ASSUME FileInv, NEW flag \in BOOLEAN, StartExport \/ StartRun(flag) \/ StartInject(flag)
  PROVE  FileInv'
<1>1. FileTypeOK /\ vault \in [Paths -> Values \cup {None}]
  BY DEF FileInv, FileTypeOK
<1>2. Idle \in Cmd
  BY <1>1, IdleIs
<1>3. CASE StartExport \/ StartRun(flag)
  <2>1. PICK c \in Cmd : Begin(c) /\ c.stage \in {"write", "run"} /\ c.got = vault
    <3>1. CASE StartExport
      <4>. DEFINE c == [Idle EXCEPT !.stage = "write", !.got = vault]
      <4>1. c \in Cmd /\ c.stage \in {"write", "run"} /\ c.got = vault
        BY <1>1, <1>2 DEF Cmd
      <4>2. Begin(c)
        BY <3>1 DEF StartExport
      <4>. HIDE DEF c
      <4>. QED
        BY <4>1, <4>2
    <3>2. CASE StartRun(flag)
      <4>. DEFINE c == [Idle EXCEPT !.stage = "run", !.got = vault, !.over = flag]
      <4>1. c \in Cmd /\ c.stage \in {"write", "run"} /\ c.got = vault
        BY <1>1, <1>2 DEF Cmd
      <4>2. Begin(c)
        BY <3>2 DEF StartRun
      <4>. HIDE DEF c
      <4>. QED
        BY <4>1, <4>2
    <3>. QED
      BY <1>3, <3>1, <3>2
  <2>2. CmdOK(c)
    BY <2>1 DEF CmdOK, StoredOK, HoldsOK, GotOK, RanOK, InjectOK
  <2>. QED
    BY <2>1, <2>2, BeginStep
<1>4. CASE StartInject(flag)
  <2>. DEFINE c == [Idle EXCEPT !.stage = "inject", !.got = vault, !.over = flag, !.todo = Live(vault)]
  <2>1. Live(vault) \subseteq Paths
    BY DEF Live
  <2>2. /\ c \in Cmd /\ c.stage = "inject" /\ c.got = vault /\ c.todo = Live(vault)
        /\ c.vars = shell
    BY <1>1, <1>2, <2>1 DEF Cmd, Idle
  <2>3. Begin(c)
    BY <1>4 DEF StartInject
  <2>. HIDE DEF c
  <2>4. \A n \in Shown : Sharing(c.got, n) \ c.todo = {}
    BY <2>2 DEF Sharing
  <2>5. InjectOK(c)
    BY <2>2, <2>4 DEF InjectOK
  <2>6. CmdOK(c)
    BY <2>2, <2>5 DEF CmdOK, StoredOK, HoldsOK, GotOK, RanOK
  <2>. QED
    BY <2>2, <2>3, <2>6, BeginStep
<1>. QED
  BY <1>3, <1>4

\* Answers to the prompts.
LEMMA PromptStep ==
  ASSUME FileInv, Confirm \/ Leave \/ AgreeToCleanUp
  PROVE  FileInv'
<1>1. FileTypeOK /\ CmdOK(cmd) /\ cmd \in Cmd
  BY CmdIs DEF FileInv
<1>2. CASE Leave
  BY <1>1, <1>2, IdleIs, BecomeStep DEF Leave
<1>3. CASE AgreeToCleanUp
  <2>. DEFINE c == [cmd EXCEPT !.stage = "remove"]
  <2>1. c \in Cmd /\ c.stage = "remove" /\ c.pairs = cmd.pairs /\ Become(c) /\ cmd.stage = "cleanup"
    BY <1>1, <1>3 DEF AgreeToCleanUp, Cmd
  <2>. HIDE DEF c
  <2>2. CmdOK(c)
    BY <1>1, <2>1 DEF CmdOK, StoredOK, HoldsOK, GotOK, RanOK, InjectOK
  <2>. QED
    BY <2>1, <2>2, BecomeStep
<1>4. CASE Confirm
  <2>. DEFINE c == [cmd EXCEPT !.stage = "put"]
  <2>1. /\ c \in Cmd /\ c.stage = "put" /\ c.pairs = cmd.pairs /\ Become(c) /\ c.at = 1
        /\ c.pairs \in Seq(Pair \cup {None})
    BY <1>1, <1>4 DEF Confirm, Cmd, CmdOK
  <2>. HIDE DEF c
  <2>2. Behind(c) = {} /\ Len(c.pairs) \in Nat
    BY <2>1, NamedAre, LenProperties DEF Behind
  <2>3. CmdOK(c)
    BY <2>1, <2>2 DEF CmdOK, StoredOK, HoldsOK, Holds, GotOK, RanOK, InjectOK
  <2>. QED
    BY <2>1, <2>3, BecomeStep
<1>. QED
  BY <1>2, <1>3, <1>4

\* A put goes on to the next pair: what it is past then is what it was past, and this one.
LEMMA PutStep ==
  ASSUME FileInv, PutLine
  PROVE  FileInv'
<1>1. /\ FileTypeOK /\ CmdOK(cmd) /\ cmd \in Cmd /\ cmd.stage = "put"
      /\ cmd.pairs \in Seq(Pair \cup {None}) /\ cmd.at \in Nat /\ cmd.failed \in BOOLEAN
      /\ vault \in [Paths -> Values \cup {None}]
  BY CmdIs DEF FileInv, PutLine, FileTypeOK
<1>2. PICK i \in Ahead : /\ \A j \in Ahead : i <= j
                         /\ \E arrives, answered \in BOOLEAN : Put(i, arrives, answered)
  BY DEF PutLine
<1>3. PICK arrives \in BOOLEAN, answered \in BOOLEAN : Put(i, arrives, answered)
  BY <1>2
<1>4. UNCHANGED <<file, ignore, shell, commands, others>>
  BY DEF PutLine
<1>. DEFINE path  == PathOf(cmd.pairs[i].name)
            value == cmd.pairs[i].value
            failed == cmd.failed \/ ~answered
            c == [cmd EXCEPT !.at = i + 1, !.failed = failed]
<1>5. /\ i \in Named(cmd.pairs) /\ i \in 1 .. Len(cmd.pairs) /\ Len(cmd.pairs) \in Nat
      /\ path \in Paths /\ value \in Values /\ i >= cmd.at
  BY <1>1, <1>2, NamedAre DEF Ahead
<1>6. /\ c \in Cmd /\ c.stage = "put" /\ c.pairs = cmd.pairs /\ c.at = i + 1
      /\ c.quiet = cmd.quiet
      /\ ~c.failed => ~cmd.failed /\ answered
  <2>. DEFINE c0 == [cmd EXCEPT !.at = i + 1]
  <2>1. /\ c0 \in Cmd /\ c0.stage = "put" /\ c0.pairs = cmd.pairs /\ c0.at = i + 1
        /\ c0.quiet = cmd.quiet
    BY <1>1, <1>5 DEF Cmd
  <2>2. failed \in BOOLEAN /\ (~failed => ~cmd.failed /\ answered)
    OBVIOUS
  <2>3. c = [c0 EXCEPT !.failed = failed]
    OBVIOUS
  <2>. HIDE DEF c, c0, failed
  <2>4. /\ c \in Cmd /\ c.stage = "put" /\ c.pairs = cmd.pairs /\ c.at = i + 1
        /\ c.quiet = cmd.quiet /\ c.failed = failed
    BY <2>1, <2>2, <2>3 DEF Cmd
  <2>. QED
    BY <2>2, <2>4
<1>7. /\ cmd' = c /\ last' = <<>>
      /\ answered => arrives
      /\ faults' = IF answered THEN faults ELSE faults + 1
      /\ faults' <= MaxFaults
      /\ vault' = IF arrives THEN [vault EXCEPT ![path] = value] ELSE vault
      /\ stored' = IF arrives THEN stored \cup {<<path, value>>} ELSE stored
  <2>1. cmd' = [cmd EXCEPT !.at = i + 1, !.failed = @ \/ ~answered]
    BY <1>3 DEF Put
  <2>2. cmd' = c
    BY <1>1, <2>1 DEF Cmd
  <2>. QED
    BY <1>3, <2>2 DEF Put
<1>8. \A j \in Named(cmd.pairs) : j < i + 1 <=> j < cmd.at \/ j = i
  BY <1>1, <1>2, <1>5, NamedAre DEF Ahead
<1>. HIDE DEF c
<1>9. Behind(c) = Behind(cmd) \cup {i}
  BY <1>5, <1>6, <1>8 DEF Behind
<1>10. FileTypeOK'
  <2>1. faults' \in 0 .. MaxFaults
    BY <1>1, <1>7, FileBounds DEF FileTypeOK
  <2>2. vault' \in [Paths -> Values \cup {None}] /\ stored' \subseteq Paths \X Values
    BY <1>1, <1>5, <1>7 DEF FileTypeOK
  <2>3. <<>> \in Seq(Pair \cup {None})
    OBVIOUS
  <2>. QED
    BY <1>1, <1>4, <1>5, <1>6, <1>7, <2>1, <2>2, <2>3 DEF FileTypeOK
<1>11. ASSUME ~c.failed
       PROVE  /\ ~cmd.failed /\ vault' = [vault EXCEPT ![path] = value]
              /\ stored' = stored \cup {<<path, value>>}
  BY <1>6, <1>7, <1>11
<1>12. StoredOK(cmd)'
  <2>1. ASSUME ~c.failed PROVE \A j \in Behind(c) : <<PathOf(c.pairs[j].name), c.pairs[j].value>> \in stored'
    BY <1>1, <1>6, <1>9, <1>11, <2>1 DEF CmdOK, StoredOK, IsStored
  <2>. QED
    BY <1>6, <1>7, <2>1 DEF StoredOK, IsStored, Behind, Named
<1>13. HoldsOK(cmd)'
  <2>1. ASSUME ~c.failed, c.quiet, NEW j \in Behind(c),
               \A k \in Behind(c) : k > j => PathOf(c.pairs[k].name) # PathOf(c.pairs[j].name)
        PROVE  vault'[PathOf(c.pairs[j].name)] = c.pairs[j].value
    <3>1. CASE j = i
      <4>1. vault'[path] = value
        BY <1>1, <1>5, <1>11, <2>1
      <4>. QED
        BY <1>6, <3>1, <4>1
    <3>2. CASE j # i
      <4>1. j \in Behind(cmd) /\ i \in Behind(c) /\ i > j
        <5>1. j \in Behind(cmd) /\ i \in Behind(c)
          BY <1>9, <2>1, <3>2
        <5>2. j \in Named(cmd.pairs) /\ j < cmd.at
          BY <5>1 DEF Behind
        <5>3. j \in Nat /\ i \in Nat
          <6>1. j \in 1 .. Len(cmd.pairs)
            BY <1>1, <5>2, NamedAre, Zenon
          <6>. QED
            BY <1>5, <6>1
        <5>. QED
          BY <1>1, <1>5, <5>1, <5>2, <5>3
      <4>2. PathOf(cmd.pairs[j].name) # path
        BY <1>6, <2>1, <4>1
      <4>3. vault[PathOf(cmd.pairs[j].name)] = cmd.pairs[j].value
        BY <1>1, <1>6, <1>9, <1>11, <2>1, <4>1 DEF CmdOK, HoldsOK, Holds
      <4>4. PathOf(cmd.pairs[j].name) \in Paths
        BY <1>1, <4>1, NamedAre DEF Behind
      <4>. QED
        BY <1>1, <1>6, <1>11, <2>1, <4>2, <4>3, <4>4
    <3>. QED
      BY <3>1, <3>2
  <2>. QED
    BY <1>6, <1>7, <2>1 DEF HoldsOK, Holds, Behind, Named
<1>14. CmdOK(cmd)'
  <2>1. c.at <= Len(c.pairs) + 1
    BY <1>5, <1>6
  <2>. QED
    BY <1>6, <1>7, <1>12, <1>13, <2>1 DEF CmdOK, GotOK, RanOK, InjectOK
<1>15. Holds(last, Named(last))'
  BY <1>7 DEF Holds, Named
<1>. QED
  BY <1>10, <1>14, <1>15 DEF FileInv

\* After the last pair: without a failure all of them are stored.
LEMMA EndPutsStep ==
  ASSUME FileInv, EndPuts
  PROVE  FileInv'
<1>1. /\ FileTypeOK /\ CmdOK(cmd) /\ cmd \in Cmd /\ cmd.stage = "put"
      /\ cmd.pairs \in Seq(Pair \cup {None}) /\ cmd.at \in Nat /\ Ahead = {}
  BY CmdIs DEF FileInv, EndPuts, AllPut
<1>2. Behind(cmd) = Named(cmd.pairs)
  BY <1>1, NamedAre DEF Behind, Ahead
<1>3. UNCHANGED <<file, ignore, vault, stored, shell, commands, faults, others>>
  BY DEF EndPuts
<1>4. last' \in Seq(Pair \cup {None}) /\ Holds(last', Named(last'))
  <2>1. CASE ~cmd.failed /\ cmd.quiet
    BY <1>1, <1>2, <2>1 DEF EndPuts, MayCleanUp, CmdOK, HoldsOK
  <2>2. CASE ~(~cmd.failed /\ cmd.quiet)
    BY <2>2 DEF EndPuts, MayCleanUp, Holds, Named
  <2>. QED
    BY <2>1, <2>2
<1>5. PICK c \in Cmd : cmd' = c /\ CmdOK(c)
  <2>1. CASE cmd.failed
    BY <1>1, <2>1, IdleIs DEF EndPuts, MayCleanUp
  <2>2. CASE ~cmd.failed
    <3>. DEFINE c == [cmd EXCEPT !.stage = IF cmd.yes THEN "remove" ELSE "cleanup"]
    <3>1. c \in Cmd /\ c.stage \in {"remove", "cleanup"} /\ c.pairs = cmd.pairs
      BY <1>1 DEF Cmd
    <3>2. cmd' = c
      BY <2>2 DEF EndPuts, MayCleanUp
    <3>. HIDE DEF c
    <3>3. CmdOK(c)
      BY <1>1, <1>2, <2>2, <3>1 DEF CmdOK, StoredOK, HoldsOK, GotOK, RanOK, InjectOK
    <3>. QED
      BY <3>1, <3>2, <3>3
  <2>. QED
    BY <2>1, <2>2
<1>. QED
  BY <1>1, <1>3, <1>4, <1>5, CmdStep DEF FileTypeOK

\* The end of an import, and an export's file.
LEMMA FilesStep ==
  ASSUME FileInv, RemoveFile \/ AppendIgnore \/ WriteFile
  PROVE  FileInv'
<1>1. /\ FileTypeOK /\ CmdOK(cmd) /\ cmd \in Cmd /\ cmd.got \in [Paths -> Values \cup {None}]
      /\ Idle \in Cmd /\ CmdOK(Idle)
      /\ last \in Seq(Pair \cup {None}) /\ Holds(last, Named(last))
      /\ file \in Seq(Line) \cup {None} /\ commands \in 0 .. MaxCommands
      /\ ignore \in {"absent", "open", "closed", "listed", "glued"}
  BY CmdIs, IdleIs DEF FileInv, FileTypeOK
<1>2. CASE RemoveFile
  <2>. DEFINE c == [cmd EXCEPT !.stage = "ignore"]
  <2>1. c \in Cmd /\ c.stage = "ignore" /\ c.pairs = cmd.pairs
    BY <1>1 DEF Cmd
  <2>2. cmd' = Idle \/ cmd' = c
    BY <1>2 DEF RemoveFile
  <2>. HIDE DEF c
  <2>3. CmdOK(c)
    BY <1>1, <1>2, <2>1 DEF RemoveFile, CmdOK, StoredOK, HoldsOK, GotOK, RanOK, InjectOK
  <2>. QED
    BY <1>1, <1>2, <2>1, <2>2, <2>3, CmdStep DEF RemoveFile
<1>3. CASE AppendIgnore
  BY <1>1, <1>3, CmdStep DEF AppendIgnore, Listed
<1>4. CASE WriteFile
  BY <1>1, <1>4, RenderedIs, CmdStep DEF WriteFile
<1>. QED
  BY <1>2, <1>3, <1>4

\* The child process gets what the map holds, over what it inherits.
LEMMA RunStep ==
  ASSUME FileInv, Run
  PROVE  FileInv'
<1>1. /\ cmd \in Cmd /\ cmd.got \in [Paths -> Values \cup {None}] /\ shell \in Variables
      /\ cmd.over \in BOOLEAN /\ CmdOK(cmd) /\ cmd.stage = "run"
  BY CmdIs DEF FileInv, FileTypeOK, Run
<1>. DEFINE env == [n \in Shown |-> IF Map(cmd.got, n) # None THEN Map(cmd.got, n)
                                    ELSE IF cmd.over THEN None ELSE shell[n]]
            c == [cmd EXCEPT !.stage = "ran", !.vars = env]
<1>2. env \in Variables
  <2>1. \A n \in Shown : Map(cmd.got, n) # None => Map(cmd.got, n) \in Values
    BY <1>1, MapIs
  <2>. QED
    BY <1>1, <2>1 DEF Variables
<1>3. Become(c)
  BY DEF Run
<1>4. \A n \in Shown : env[n] = IF Map(cmd.got, n) # None THEN Map(cmd.got, n)
                                ELSE IF cmd.over THEN None ELSE shell[n]
  OBVIOUS
<1>. HIDE DEF env
<1>5. /\ c \in Cmd /\ c.stage = "ran" /\ c.vars = env /\ c.got = cmd.got /\ c.over = cmd.over
      /\ c.quiet = cmd.quiet
  BY <1>1, <1>2 DEF Cmd
<1>. HIDE DEF c
<1>6. RanOK(c)
  BY <1>4, <1>5 DEF RanOK
<1>7. CmdOK(c)
  BY <1>1, <1>5, <1>6 DEF CmdOK, StoredOK, HoldsOK, GotOK, InjectOK
<1>. QED
  BY <1>3, <1>5, <1>7, BecomeStep

\* A path injects its value under its name, if the name may be set, and leaves the others.
LEMMA InjectStep ==
  ASSUME FileInv, NEW p \in Paths, InjectOne(p)
  PROVE  FileInv'
<1>1. /\ CmdOK(cmd) /\ cmd \in Cmd /\ cmd.got \in [Paths -> Values \cup {None}]
      /\ cmd.vars \in Variables /\ cmd.todo \subseteq Paths /\ shell \in Variables
      /\ cmd.stage = "inject" /\ p \in cmd.todo
  BY CmdIs DEF FileInv, FileTypeOK, InjectOne
<1>2. /\ cmd.todo \subseteq Live(cmd.got) /\ p \in Live(cmd.got) /\ cmd.got[p] \in Values
      /\ NameOf(p) \in Shown
  BY <1>1, NamesAndPaths DEF CmdOK, InjectOK, Live
<1>. DEFINE n0 == NameOf(p)
            value == IF MaySet(n0) THEN cmd.got[p] ELSE cmd.vars[n0]
            env == [cmd.vars EXCEPT ![n0] = value]
            c == [cmd EXCEPT !.todo = cmd.todo \ {p}, !.vars = env]
<1>3. env \in Variables /\ env[n0] = value /\ \A n \in Shown : n # n0 => env[n] = cmd.vars[n]
  BY <1>1, <1>2 DEF Variables
<1>4. Become(c)
  <2>1. c = [cmd EXCEPT !.todo = @ \ {p}, !.vars[NameOf(p)] = IF MaySet(NameOf(p)) THEN cmd.got[p] ELSE @]
    BY <1>1 DEF Cmd
  <2>. QED
    BY <2>1 DEF InjectOne
<1>. HIDE DEF env
<1>5. /\ c \in Cmd /\ c.stage = "inject" /\ c.vars = env /\ c.todo = cmd.todo \ {p}
      /\ c.got = cmd.got /\ c.over = cmd.over /\ c.quiet = cmd.quiet
  BY <1>1, <1>3 DEF Cmd
<1>. HIDE DEF c
<1>. DEFINE Done(n) == Sharing(cmd.got, n) \ cmd.todo
            DoneNow(n) == Sharing(cmd.got, n) \ c.todo
<1>6. \A n \in Shown : DoneNow(n) = IF n = n0 THEN Done(n) \cup {p} ELSE Done(n)
  BY <1>1, <1>2, <1>5 DEF Sharing
<1>7. \A n \in Shown : IF Done(n) # {} /\ (cmd.over \/ shell[n] = None)
                       THEN \E q \in Done(n) : cmd.vars[n] = cmd.got[q]
                       ELSE cmd.vars[n] = shell[n]
  BY <1>1 DEF CmdOK, InjectOK
<1>8. \A n \in Shown : \A q \in Done(n) : cmd.got[q] # None
  BY DEF Sharing, Live
<1>. HIDE DEF Done, DoneNow
<1>9. ASSUME NEW n \in Shown
      PROVE  IF DoneNow(n) # {} /\ (c.over \/ shell[n] = None)
             THEN \E q \in DoneNow(n) : c.vars[n] = c.got[q]
             ELSE c.vars[n] = shell[n]
  <2>1. CASE n # n0
    BY <1>3, <1>5, <1>6, <1>7, <2>1
  <2>2. CASE n = n0 /\ MaySet(n0)
    BY <1>3, <1>5, <1>6, <1>7, <1>8, <2>2 DEF MaySet
  <2>3. CASE n = n0 /\ ~MaySet(n0)
    BY <1>3, <1>5, <1>6, <1>7, <2>3 DEF MaySet
  <2>. QED
    BY <2>1, <2>2, <2>3
<1>10. InjectOK(c)
  BY <1>2, <1>5, <1>9 DEF InjectOK, DoneNow
<1>11. CmdOK(c)
  BY <1>1, <1>5, <1>10 DEF CmdOK, StoredOK, HoldsOK, GotOK, RanOK
<1>. QED
  BY <1>4, <1>5, <1>11, BecomeStep

\* The last path is injected.
LEMMA InjectedStep ==
  ASSUME FileInv, Injected
  PROVE  FileInv'
<1>1. CmdOK(cmd) /\ cmd \in Cmd /\ cmd.stage = "inject" /\ cmd.todo = {}
  BY CmdIs DEF FileInv, Injected
<1>. DEFINE c == [cmd EXCEPT !.stage = "injected"]
<1>2. /\ c \in Cmd /\ c.stage = "injected" /\ c.vars = cmd.vars /\ c.todo = cmd.todo
      /\ c.got = cmd.got /\ c.over = cmd.over /\ c.quiet = cmd.quiet /\ Become(c)
  BY <1>1 DEF Cmd, Injected
<1>. HIDE DEF c
<1>3. InjectOK(c)
  BY <1>1, <1>2 DEF CmdOK, InjectOK
<1>4. CmdOK(c)
  BY <1>1, <1>2, <1>3 DEF CmdOK, StoredOK, HoldsOK, GotOK, RanOK
<1>. QED
  BY <1>2, <1>4, BecomeStep

\* Whoever else writes takes nothing from what was stored, and ends what is promised of
\* the current values.
LEMMA OtherStep ==
  ASSUME FileInv, NEW p \in Paths, NEW v \in {"x", "odd"}, OtherPut(p, v)
  PROVE  FileInv'
<1>1. CmdOK(cmd) /\ cmd \in Cmd /\ FileTypeOK
  BY CmdIs DEF FileInv
<1>. DEFINE c == [cmd EXCEPT !.quiet = FALSE]
<1>2. /\ c \in Cmd /\ c.stage = cmd.stage /\ c.pairs = cmd.pairs /\ c.at = cmd.at
      /\ c.failed = cmd.failed /\ c.quiet = FALSE /\ c.got = cmd.got /\ c.todo = cmd.todo
      /\ c.over = cmd.over /\ c.vars = cmd.vars
  BY <1>1 DEF Cmd
<1>3. cmd' = c
  BY DEF OtherPut
<1>. HIDE DEF c
<1>4. FileTypeOK'
  <2>1. others' \in 0 .. MaxOther
    BY <1>1, FileBounds DEF OtherPut, FileTypeOK
  <2>2. v \in Values /\ <<>> \in Seq(Pair \cup {None})
    BY DEF Values, Plain
  <2>3. vault' \in [Paths -> Values \cup {None}] /\ stored' \subseteq Paths \X Values
    BY <1>1, <2>2 DEF OtherPut, FileTypeOK
  <2>. QED
    BY <1>1, <1>2, <1>3, <2>1, <2>2, <2>3 DEF OtherPut, FileTypeOK
<1>5. stored \subseteq stored' /\ shell' = shell /\ last' = <<>>
  BY DEF OtherPut
<1>6. StoredOK(cmd)'
  <2>1. Behind(c) = Behind(cmd)
    BY <1>2 DEF Behind
  <2>. QED
    BY <1>1, <1>2, <1>3, <1>5, <2>1 DEF CmdOK, StoredOK, IsStored, Behind, Named
<1>7. RanOK(cmd)'
  BY <1>1, <1>2, <1>3, <1>5 DEF CmdOK, RanOK
<1>8. InjectOK(cmd)'
  BY <1>1, <1>2, <1>3, <1>5 DEF CmdOK, InjectOK
<1>9. CmdOK(cmd)'
  BY <1>1, <1>2, <1>3, <1>6, <1>7, <1>8 DEF CmdOK, HoldsOK, GotOK
<1>10. Holds(last, Named(last))'
  BY <1>5 DEF Holds, Named
<1>. QED
  BY <1>4, <1>9, <1>10 DEF FileInv

\* The editor touches nothing but the file.
LEMMA EditStep ==
  ASSUME FileInv, NEW line \in [name: {"A_B", None}, text: {"y"}], Edit(line)
  PROVE  FileInv'
<1>1. line \in Line
  BY DEF Line, Names, Texts, Values, Plain
<1>2. file' \in Seq(Line) \cup {None}
  <2>1. CASE file = None
    BY <1>1, <2>1 DEF Edit
  <2>2. CASE file # None
    <3>1. file \in Seq(Line)
      BY <2>2 DEF FileInv, FileTypeOK
    <3>2. Append(file, line) \in Seq(Line)
      BY <1>1, <3>1, AppendProperties
    <3>. QED
      BY <2>2, <3>2 DEF Edit
  <2>. QED
    BY <2>1, <2>2
<1>3. others' \in 0 .. MaxOther
  BY FileBounds DEF FileInv, FileTypeOK, Edit
<1>4. UNCHANGED <<ignore, vault, stored, shell, cmd, last, commands, faults>>
  BY DEF Edit
<1>5. FileTypeOK'
  BY <1>2, <1>3, <1>4 DEF FileInv, FileTypeOK
<1>6. CmdOK(cmd)' /\ Holds(last, Named(last))'
  BY <1>4 DEF FileInv, CmdOK, StoredOK, IsStored, HoldsOK, Holds, GotOK, RanOK, InjectOK, Behind, Named
<1>. QED
  BY <1>5, <1>6 DEF FileInv

-------------------------------------------------------------------------------
\* EnvFile: theorems.

LEMMA FileInitially == FileInit => FileInv
<1>. SUFFICES ASSUME FileInit PROVE FileInv
  OBVIOUS
<1>1. file \in Seq(Line)
  <2>1. PICK n \in 0 .. MaxLines : file \in [1 .. n -> {l \in Line : l.text \in {"x", "y", "lone"}}]
    BY DEF FileInit
  <2>2. n \in Nat /\ file \in [1 .. n -> Line]
    BY <2>1, FileBounds
  <2>. QED
    BY <2>2, SeqDef
<1>2. /\ Nothing \in [Paths -> Values \cup {None}] /\ shell \in Variables
      /\ <<>> \in Seq(Pair \cup {None})
  BY DEF FileInit, Nothing, Variables
<1>3. cmd = Idle /\ last = <<>>
  BY DEF FileInit
<1>4. Idle \in Cmd /\ Idle.stage = "idle"
  BY <1>2 DEF Idle, Cmd
<1>5. FileTypeOK
  BY <1>1, <1>2, <1>3, <1>4, FileBounds DEF FileTypeOK, FileInit
<1>6. CmdOK(cmd)
  BY <1>3, <1>5, IdleIs
<1>7. Holds(last, Named(last))
  BY <1>3 DEF Holds, Named
<1>. QED
  BY <1>5, <1>6, <1>7 DEF FileInv

LEMMA FileSteps == FileInv /\ [FileNext]_fileVars => FileInv'
<1>. SUFFICES ASSUME FileInv, [FileNext]_fileVars PROVE FileInv'
  OBVIOUS
<1>1. CASE \E flag \in BOOLEAN : StartImport(flag) \/ StartRun(flag) \/ StartInject(flag)
  BY <1>1, StartImportStep, StartFetchStep
<1>2. CASE StartExport
  BY <1>2, StartFetchStep
<1>3. CASE Confirm \/ Leave \/ AgreeToCleanUp
  BY <1>3, PromptStep
<1>4. CASE PutLine
  BY <1>4, PutStep
<1>5. CASE EndPuts
  BY <1>5, EndPutsStep
<1>6. CASE RemoveFile \/ AppendIgnore \/ WriteFile
  BY <1>6, FilesStep
<1>7. CASE Run
  BY <1>7, RunStep
<1>8. CASE Injected
  BY <1>8, InjectedStep
<1>9. CASE \E p \in Paths : InjectOne(p)
  BY <1>9, InjectStep
<1>10. CASE \E p \in Paths, v \in {"x", "odd"} : OtherPut(p, v)
  BY <1>10, OtherStep
<1>11. CASE \E line \in [name: {"A_B", None}, text: {"y"}] : Edit(line)
  BY <1>11, EditStep
<1>12. CASE UNCHANGED fileVars
  BY <1>12 DEF fileVars, FileInv, FileTypeOK, CmdOK, StoredOK, IsStored, HoldsOK, Holds, GotOK,
               RanOK, InjectOK, Behind, Named
<1>. QED
  BY <1>1, <1>2, <1>3, <1>4, <1>5, <1>6, <1>7, <1>8, <1>9, <1>10, <1>11, <1>12
     DEF FileNext, AtPrompt

LEMMA FileInvHolds == FileSpec => []FileInv
<1>. QED
  BY FileInitially, FileSteps, PTL DEF FileSpec

\* The types of EnvFile: the file, the vault and the command under way are what the code
\* can hold, and the loop of an import stops behind the last line.
THEOREM FileTypeCorrect == FileSpec => []FileTypeOK
<1>1. FileInv => FileTypeOK
  BY DEF FileInv
<1>. QED
  BY <1>1, FileInvHolds, PTL

\* The file is removed only when every pair that the import read was stored, wherever puts
\* were refused, cut off or raced by others: `soma import` never loses a secret.
THEOREM RemovedOnlyStored == FileSpec => []RemovedOnlyWhenStored
<1>1. FileInv => RemovedOnlyWhenStored
  BY DEF FileInv, CmdOK, StoredOK, IsStored, RemovedOnlyWhenStored
<1>. QED
  BY <1>1, FileInvHolds, PTL

\* A shown name's own path sorts last of the paths that are shown under it, so that a map
\* has its value.
LEMMA MapOfShown ==
  ASSUME NEW values \in [Paths -> Values \cup {None}], NEW n \in Shown,
         values[PathOf(n)] # None
  PROVE  PathOf(n) \in Sharing(values, n) /\ Map(values, n) = values[PathOf(n)]
<1>1. PathOf(n) \in Sharing(values, n)
  BY NamesAndPaths DEF Sharing, Live
<1>2. CASE n = "A_B"
  BY <1>1, <1>2 DEF Map, Later, PathOf
<1>3. CASE n = "A"
  <2>1. Sharing(values, n) = {"a"}
    BY <1>1, <1>3 DEF Sharing, Live, Paths, NameOf, PathOf
  <2>. QED
    BY <1>3, <2>1 DEF Map, Later, PathOf
<1>. QED
  BY <1>1, <1>2, <1>3 DEF Shown

\* A name that a map has a value for has a line in the file that is rendered of it.
LEMMA RenderedHolds ==
  ASSUME NEW values, NEW n \in Shown, Map(values, n) # None
  PROVE  \E k \in DOMAIN Rendered(values) :
           Rendered(values)[k] = [name |-> n, text |-> ReadBack(Map(values, n))]
<1>. DEFINE text(m) == [name |-> m, text |-> ReadBack(Map(values, m))]
            line(m) == IF Map(values, m) = None THEN <<>> ELSE <<text(m)>>
<1>1. Rendered(values) = line("A") \o line("A_B")
  BY DEF Rendered
<1>. HIDE DEF text
<1>. DEFINE S == {text("A"), text("A_B")}
<1>2. line("A") \in Seq(S) /\ line("A_B") \in Seq(S)
  <2>1. ASSUME NEW m, text(m) \in S PROVE line(m) \in Seq(S)
    <3>. HIDE DEF S
    <3>1. <<>> \in Seq(S) /\ <<text(m)>> \in Seq(S)
      BY <2>1
    <3>. QED
      BY <3>1, Zenon
  <2>2. text("A") \in S /\ text("A_B") \in S
    OBVIOUS
  <2>. HIDE DEF S, line
  <2>. QED
    BY <2>1, <2>2
<1>3. line(n) = <<text(n)>>
  OBVIOUS
<1>4. Len(<<text(n)>>) = 1 /\ <<text(n)>>[1] = text(n)
  OBVIOUS
<1>. HIDE DEF line, S
<1>5. /\ Len(line("A")) \in Nat /\ Len(line("A_B")) \in Nat
      /\ DOMAIN Rendered(values) = 1 .. Len(line("A")) + Len(line("A_B"))
      /\ \A k \in 1 .. Len(line("A")) + Len(line("A_B")) :
           Rendered(values)[k] = IF k <= Len(line("A")) THEN line("A")[k]
                                 ELSE line("A_B")[k - Len(line("A"))]
  BY <1>1, <1>2, ConcatProperties, LenProperties
<1>6. CASE n = "A"
  <2>1. Len(line("A")) = 1 /\ line("A")[1] = text(n)
    BY <1>3, <1>4, <1>6
  <2>2. 1 \in DOMAIN Rendered(values) /\ Rendered(values)[1] = text(n)
    BY <1>5, <2>1
  <2>. QED
    BY <2>2 DEF text
<1>7. CASE n = "A_B"
  <2>. DEFINE k == Len(line("A")) + 1
  <2>1. Len(line("A_B")) = 1 /\ line("A_B")[1] = text(n)
    BY <1>3, <1>4, <1>7
  <2>2. k \in DOMAIN Rendered(values) /\ k - Len(line("A")) = 1 /\ ~(k <= Len(line("A")))
    BY <1>5, <2>1
  <2>3. Rendered(values)[k] = text(n)
    BY <1>5, <2>1, <2>2
  <2>. QED
    BY <2>2, <2>3 DEF text
<1>. QED
  BY <1>6, <1>7 DEF Shown

LEMMA SingleMember ==
  ASSUME NEW S, NEW x \in S, IsFiniteSet(S), Cardinality(S) = 1
  PROVE  S = {x}
<1>1. PICK y : S = {y}
  BY FS_Singleton
<1>. QED
  BY <1>1

\* What a complete import stored comes back under the same name from export, run and
\* inject, as long as nobody wrote: of the lines that share a path, the last one's value.
THEOREM ImportComesBack == FileSpec => []RoundTrip
<1>1. ASSUME FileInv, cmd.quiet, NEW i \in Named(last), Counts(last, i), last[i].name \in Shown
      PROVE  LET n == last[i].name  value == last[i].value IN
             /\ cmd.stage = "write" =>
                  /\ Map(cmd.got, n) = value
                  /\ value \in Plain =>
                       \E k \in DOMAIN Rendered(cmd.got) : Parsed(Rendered(cmd.got))[k] = last[i]
             /\ cmd.stage = "ran" => cmd.vars[n] = value
             /\ /\ cmd.stage = "injected"
                /\ Cardinality(Sharing(cmd.got, n)) = 1
                /\ cmd.over \/ shell[n] = None
                => cmd.vars[n] = value
  <2>. DEFINE n == last[i].name
              value == last[i].value
  <2>1. n \in Shown /\ value \in Values /\ value # None
    BY <1>1, NamedAre, FileNone DEF FileInv, FileTypeOK
  <2>2. vault[PathOf(n)] = value
    BY <1>1 DEF FileInv, Holds, Counts
  <2>. HIDE DEF n, value
  <2>3. ASSUME cmd.stage \in {"write", "ran", "injected"}
        PROVE  PathOf(n) \in Sharing(cmd.got, n) /\ Map(cmd.got, n) = value /\ cmd.got[PathOf(n)] = value
    <3>1. cmd.got = vault /\ vault \in [Paths -> Values \cup {None}]
      BY <1>1, <2>3 DEF FileInv, CmdOK, GotOK, FileTypeOK
    <3>. QED
      BY <2>1, <2>2, <3>1, MapOfShown
  <2>4. cmd.stage = "ran" => cmd.vars[n] = value
    BY <1>1, <2>1, <2>3 DEF FileInv, CmdOK, RanOK
  <2>5. ASSUME cmd.stage = "injected", Cardinality(Sharing(cmd.got, n)) = 1,
               cmd.over \/ shell[n] = None
        PROVE  cmd.vars[n] = value
    <3>1. IsFiniteSet(Sharing(cmd.got, n))
      <4>1. IsFiniteSet(Paths)
        <5>1. IsFiniteSet({"a"}) /\ IsFiniteSet({"a_b"}) /\ IsFiniteSet({"a/b"})
          BY FS_Singleton
        <5>2. Paths = ({"a"} \cup {"a_b"}) \cup {"a/b"}
          BY DEF Paths
        <5>. QED
          BY <5>1, <5>2, FS_Union
      <4>. QED
        BY <4>1, FS_Subset DEF Sharing, Live
    <3>2. Sharing(cmd.got, n) = {PathOf(n)}
      BY <2>3, <2>5, <3>1, SingleMember
    <3>3. InjectOK(cmd) /\ cmd.todo = {}
      BY <1>1, <2>5 DEF FileInv, CmdOK, InjectOK
    <3>4. Sharing(cmd.got, n) \ cmd.todo = {PathOf(n)}
      BY <3>2, <3>3
    <3>5. \E p \in Sharing(cmd.got, n) \ cmd.todo : cmd.vars[n] = cmd.got[p]
      BY <2>1, <2>5, <3>3, <3>4 DEF InjectOK
    <3>. QED
      BY <2>3, <2>5, <3>4, <3>5
  <2>6. ASSUME cmd.stage = "write", value \in Plain
        PROVE  \E k \in DOMAIN Rendered(cmd.got) : Parsed(Rendered(cmd.got))[k] = last[i]
    <3>1. PICK k \in DOMAIN Rendered(cmd.got) :
            Rendered(cmd.got)[k] = [name |-> n, text |-> ReadBack(Map(cmd.got, n))]
      BY <2>1, <2>3, <2>6, RenderedHolds
    <3>2. Rendered(cmd.got)[k] = [name |-> n, text |-> value]
      BY <2>3, <2>6, <3>1 DEF ReadBack, Plain
    <3>3. n # None
      BY <2>1, FileNone DEF Shown, Names
    <3>4. Parsed(Rendered(cmd.got))[k] = [name |-> n, value |-> value]
      <4>. DEFINE lines == Rendered(cmd.got)
      <4>. HIDE DEF lines
      <4>1. k \in DOMAIN lines /\ lines[k].name = n /\ lines[k].text = value
        BY <3>1, <3>2 DEF lines
      <4>2. Parsed(lines)[k] = [name |-> n, value |-> value]
        BY <3>3, <4>1 DEF Parsed
      <4>. QED
        BY <4>2 DEF lines
    <3>5. last[i] = [name |-> n, value |-> value]
      BY <1>1, NamedAre DEF FileInv, FileTypeOK, Pair, n, value
    <3>. QED
      BY <3>1, <3>4, <3>5
  <2>. QED
    BY <2>3, <2>4, <2>5, <2>6 DEF n, value
<1>2. FileInv => RoundTrip
  BY <1>1 DEF RoundTrip
<1>. QED
  BY <1>2, FileInvHolds, PTL

\* `soma run` and the SDK's inject give a process the value of a path that is shown under
\* the name, in whatever order inject takes them, and nothing else changes.
THEOREM RunAndInject == FileSpec => []RunAndInjectAgree
<1>1. ASSUME FileInv, NEW n \in Shown
      PROVE  LET mine == {cmd.got[p] : p \in Sharing(cmd.got, n)} IN
             /\ cmd.stage = "ran" =>
                  IF mine # {} THEN cmd.vars[n] \in mine
                  ELSE cmd.vars[n] = IF cmd.over THEN None ELSE shell[n]
             /\ cmd.stage = "injected" =>
                  IF mine # {} /\ (cmd.over \/ shell[n] = None) THEN cmd.vars[n] \in mine
                  ELSE cmd.vars[n] = shell[n]
  <2>. DEFINE mine == {cmd.got[p] : p \in Sharing(cmd.got, n)}
  <2>1. RanOK(cmd) /\ InjectOK(cmd) /\ cmd.got \in [Paths -> Values \cup {None}]
    BY <1>1, CmdIs DEF FileInv, CmdOK
  <2>2. mine = {} <=> Sharing(cmd.got, n) = {}
    OBVIOUS
  <2>3. Sharing(cmd.got, n) # {} => Map(cmd.got, n) # None /\ Map(cmd.got, n) \in mine
    BY <2>1, MapIs
  <2>4. Sharing(cmd.got, n) = {} => Map(cmd.got, n) = None
    BY <2>1, MapIs
  <2>5. ASSUME cmd.stage = "ran"
        PROVE  IF mine # {} THEN cmd.vars[n] \in mine
               ELSE cmd.vars[n] = IF cmd.over THEN None ELSE shell[n]
    BY <2>1, <2>2, <2>3, <2>4, <2>5 DEF RanOK
  <2>6. ASSUME cmd.stage = "injected"
        PROVE  IF mine # {} /\ (cmd.over \/ shell[n] = None) THEN cmd.vars[n] \in mine
               ELSE cmd.vars[n] = shell[n]
    BY <2>1, <2>2, <2>6 DEF InjectOK
  <2>. QED
    BY <2>5, <2>6
<1>2. FileInv => RunAndInjectAgree
  BY <1>1 DEF RunAndInjectAgree
<1>. QED
  BY <1>2, FileInvHolds, PTL

===============================================================================
