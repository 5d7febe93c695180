---------------------------- MODULE ConsoleProofs ------------------------------
(***************************************************************************)
(* Theorems about Console, for every number of tabs, values and calls: the *)
(* answers of a tab's loads may overtake each other in any order.          *)
(***************************************************************************)
EXTENDS Console, SequenceTheorems, FiniteSetTheorems, TLAPS

\* Versions are never rewritten, and what was listed as gone does not come back.
Grew(old, new) ==
  /\ Len(old.rows) <= Len(new.rows)
  /\ \A i \in 1 .. Len(old.rows) : new.rows[i] = old.rows[i]
  /\ new.live => old.live \/ old.rows = <<>>

\* What a load served now would be answered.
Now == [rows |-> rows, ptr |-> ptr, live |-> st = "live"]

StoreOK == ptr <= Len(rows) /\ (st = "absent" => rows = <<>>)

\* list holds all that was saved.
Covers(list, saves) == \A s \in saves : s.version <= Len(list.rows) /\ list.rows[s.version] = s.text

\* What was answered "saved" is a row of the store.
SavedOK ==
  \A t \in Tabs : \A s \in saved[t] : s.version \in 1 .. Len(rows) /\ rows[s.version] = s.text

ViewsOK == \A t \in Tabs : Loaded(t) => Grew(view[t], Now)

\* The answer on its way of a call whose tab shows list and saved saves: a save's is true,
\* and a load's lies between what the tab shows and what is stored, and holds what the tab
\* has saved, unless a newer load replaces it.
AnswerOK(k, list, saves, now) ==
  /\ k.op = "save" /\ k.stage = "served" /\ k.ok =>
       k.version \in 1 .. Len(now.rows) /\ now.rows[k.version] = k.text
  /\ k.op = "load" /\ k.stage = "served" /\ k.ok =>
       /\ k.list \in Snapshot /\ Grew(k.list, now)
       /\ ~k.stale => Covers(k.list, saves) /\ (list \notin {None, Failed} => Grew(list, k.list))

CallOK(k) == AnswerOK(k, view[k.tab], saved[k.tab], Now)
CallsOK == \A c \in 1 .. Len(calls) : CallOK(calls[c])

\* k is the newest load of tab t.
Newest(k, t) == k.tab = t /\ k.op = "load" /\ ~k.stale

OneNewest ==
  \A t \in Tabs : \A c, d \in 1 .. Len(calls) : Newest(calls[c], t) /\ Newest(calls[d], t) => c = d

\* A tab lists what it saved, or its newest load is under way.
Lists(list, saves) == list \notin {None, Failed} => Covers(list, saves)
Coming(t) == \E c \in 1 .. Len(calls) : Newest(calls[c], t)
ListsOK == \A t \in Tabs : Coming(t) \/ Lists(view[t], saved[t])

IInv == TypeOK /\ StoreOK /\ SavedOK /\ ViewsOK /\ CallsOK /\ OneNewest /\ ListsOK

-------------------------------------------------------------------------------
\* Sequences.

\* Without the call at c the later ones move up.
LEMMA RemoveAtIs ==
  ASSUME NEW S, NEW s \in Seq(S), NEW c \in 1 .. Len(s)
  PROVE  /\ RemoveAt(s, c) \in Seq(S) /\ Len(RemoveAt(s, c)) = Len(s) - 1
         /\ \A i \in 1 .. Len(s) - 1 : RemoveAt(s, c)[i] = s[IF i < c THEN i ELSE i + 1]
<1>. DEFINE a == SubSeq(s, 1, c - 1)
            b == SubSeq(s, c + 1, Len(s))
<1>1. Len(s) \in Nat /\ c \in Int /\ \A i \in 1 .. Len(s) : s[i] \in S
  BY LenProperties
<1>2. /\ a \in Seq(S) /\ Len(a) = c - 1
      /\ \A i \in 1 .. c - 1 : a[i] = s[i]
  BY <1>1, SubSeqProperties
<1>3. /\ b \in Seq(S) /\ Len(b) = Len(s) - c
      /\ \A i \in 1 .. Len(s) - c : b[i] = s[c + i]
  BY <1>1, SubSeqProperties
<1>4. /\ a \o b \in Seq(S) /\ Len(a \o b) = Len(a) + Len(b)
      /\ \A i \in 1 .. Len(a) + Len(b) : (a \o b)[i] = IF i <= Len(a) THEN a[i] ELSE b[i - Len(a)]
  BY <1>2, <1>3, ConcatProperties
<1>. HIDE DEF a, b
<1>5. ASSUME NEW i \in 1 .. Len(s) - 1
      PROVE  (a \o b)[i] = s[IF i < c THEN i ELSE i + 1]
  BY <1>1, <1>2, <1>3, <1>4
<1>6. a \o b \in Seq(S) /\ Len(a \o b) = Len(s) - 1
  BY <1>1, <1>2, <1>3, <1>4
<1>7. RemoveAt(s, c) = a \o b
  BY DEF RemoveAt, a, b
<1>. HIDE DEF a, b
<1>. QED
  BY <1>5, <1>6, <1>7

\* What calls is made of.
LEMMA CallsAre ==
  ASSUME TypeOK
  PROVE  /\ Len(calls) \in Nat /\ DOMAIN calls = 1 .. Len(calls)
         /\ \A c \in 1 .. Len(calls) : calls[c] \in Call
         /\ Len(rows) \in Nat /\ \A i \in 1 .. Len(rows) : rows[i] \in Texts
BY LenProperties, ElementOfSeq DEF TypeOK

\* The snapshot that a load is answered now.
LEMMA NowTyped ==
  ASSUME TypeOK
  PROVE  Now \in Snapshot
BY DEF TypeOK, Now, Snapshot

-------------------------------------------------------------------------------
\* The store.

\* What a call does to the entry: versions are added, and nothing comes back to life.
StoreGrows ==
  /\ Len(rows) <= Len(rows') /\ \A i \in 1 .. Len(rows) : rows'[i] = rows[i]
  /\ st' = "live" => st = "live" \/ rows = <<>>

\* What was the past of the store stays its past.
LEMMA PastStays ==
  ASSUME TypeOK, TypeOK', StoreGrows, NEW x \in Snapshot, Grew(x, Now)
  PROVE  Grew(x, Now')
<1>1. /\ Now.rows = rows /\ Now.live = (st = "live")
      /\ Now'.rows = rows' /\ Now'.live = (st' = "live")
  BY DEF Now
<1>2. x.rows \in Seq(Texts) /\ Len(x.rows) \in Nat
  BY LenProperties DEF Snapshot
<1>3. Len(rows) \in Nat /\ Len(rows') \in Nat
  BY LenProperties DEF TypeOK
<1>4. rows = <<>> => x.rows = <<>>
  BY <1>1, <1>2, EmptySeq DEF Grew
<1>5. Len(x.rows) <= Len(rows') /\ \A i \in 1 .. Len(x.rows) : rows'[i] = x.rows[i]
  BY <1>1, <1>2, <1>3 DEF Grew, StoreGrows
<1>6. st' = "live" => x.live \/ x.rows = <<>>
  BY <1>1, <1>4 DEF Grew, StoreGrows
<1>. QED
  BY <1>1, <1>5, <1>6 DEF Grew

\* A call that is not touched stays in order while its tab shows and has saved the same.
LEMMA CallGoesOn ==
  ASSUME TypeOK, TypeOK', StoreGrows, NEW k \in Call, CallOK(k),
         k.op = "load" /\ ~k.stale => view'[k.tab] = view[k.tab] /\ saved'[k.tab] = saved[k.tab]
  PROVE  AnswerOK(k, view'[k.tab], saved'[k.tab], Now')
<1>1. Now.rows = rows /\ Now'.rows = rows' /\ Len(rows) \in Nat /\ Len(rows') \in Nat
  BY LenProperties DEF Now, TypeOK
<1>2. CASE k.op = "load"
  BY <1>2, PastStays DEF CallOK, AnswerOK
<1>3. CASE k.op = "save"
  BY <1>1, <1>3 DEF CallOK, AnswerOK, StoreGrows
<1>4. CASE k.op \notin {"load", "save"}
  BY <1>4 DEF AnswerOK
<1>. QED
  BY <1>2, <1>3, <1>4

\* The rest of what a step of the store keeps.
LEMMA StoreGoesOn ==
  ASSUME IInv, TypeOK', StoreGrows, UNCHANGED <<view, saved>>
  PROVE  SavedOK' /\ ViewsOK'
<1>1. Len(rows) \in Nat /\ Len(rows') \in Nat
  BY LenProperties DEF IInv, TypeOK
<1>2. SavedOK'
  BY <1>1 DEF IInv, SavedOK, StoreGrows
<1>3. ASSUME NEW t \in Tabs, Loaded(t)' PROVE Grew(view[t], Now')
  <2>1. Loaded(t) /\ view[t] \in Snapshot
    BY <1>3 DEF Loaded, IInv, TypeOK
  <2>. QED
    BY <2>1, PastStays DEF IInv, ViewsOK
<1>4. ViewsOK'
  BY <1>3 DEF ViewsOK
<1>. QED
  BY <1>2, <1>4
-------------------------------------------------------------------------------
\* Calls that are sent and served.

\* The calls of calls' are those of calls with the same loads, and after them others.
KeepsLoads ==
  /\ Len(calls) <= Len(calls')
  /\ \A d \in 1 .. Len(calls') :
       IF d <= Len(calls)
       THEN calls'[d].tab = calls[d].tab /\ calls'[d].op = calls[d].op /\ calls'[d].stale = calls[d].stale
       ELSE calls'[d].op # "load"

\* Every call of calls' is not served yet, or one of calls, or served in order.
ServesOK ==
  \A d \in 1 .. Len(calls') :
    \/ calls'[d].stage = "sent"
    \/ d <= Len(calls) /\ calls'[d] = calls[d]
    \/ AnswerOK(calls'[d], view[calls'[d].tab], saved[calls'[d].tab], Now')

\* A step that no page takes notice of keeps the invariant.
LEMMA Unnoticed ==
  ASSUME IInv, TypeOK', StoreOK', StoreGrows, KeepsLoads, ServesOK, UNCHANGED <<view, saved>>
  PROVE  IInv'
<1>1. TypeOK /\ CallsOK /\ OneNewest /\ ListsOK
  BY DEF IInv
<1>2. Len(calls) \in Nat /\ \A c \in 1 .. Len(calls) : calls[c] \in Call
  BY <1>1, CallsAre
<1>3. (Len(calls) \in Nat /\ \A c \in 1 .. Len(calls) : calls[c] \in Call)'
  BY CallsAre, PTL
<1>4. SavedOK' /\ ViewsOK'
  BY StoreGoesOn
<1>5. ASSUME NEW d \in 1 .. Len(calls')
      PROVE  AnswerOK(calls'[d], view'[calls'[d].tab], saved'[calls'[d].tab], Now')
  <2>1. CASE calls'[d].stage = "sent"
    BY <2>1 DEF AnswerOK
  <2>2. CASE d <= Len(calls) /\ calls'[d] = calls[d]
    <3>1. d \in 1 .. Len(calls)
      BY <1>2, <1>3, <2>2
    <3>2. calls[d] \in Call /\ CallOK(calls[d])
      BY <1>1, <1>2, <3>1 DEF CallsOK
    <3>. QED
      BY <1>1, <2>2, <3>2, CallGoesOn
  <2>3. CASE AnswerOK(calls'[d], view[calls'[d].tab], saved[calls'[d].tab], Now')
    BY <2>3
  <2>. QED
    BY <2>1, <2>2, <2>3 DEF ServesOK
<1>6. CallsOK'
  BY <1>5 DEF CallsOK, CallOK
<1>7. ASSUME NEW t, NEW d \in 1 .. Len(calls'), Newest(calls'[d], t)
      PROVE  d \in 1 .. Len(calls) /\ Newest(calls[d], t)
  BY <1>2, <1>3, <1>7 DEF KeepsLoads, Newest
<1>8. OneNewest'
  BY <1>1, <1>7 DEF OneNewest
<1>9. ASSUME NEW t, Coming(t) PROVE Coming(t)'
  <2>1. PICK c \in 1 .. Len(calls) : Newest(calls[c], t)
    BY <1>9 DEF Coming
  <2>2. c \in 1 .. Len(calls') /\ Newest(calls'[c], t)
    BY <1>2, <1>3, <2>1 DEF KeepsLoads, Newest
  <2>. QED
    BY <2>2 DEF Coming
<1>10. ListsOK'
  BY <1>1, <1>9 DEF ListsOK
<1>. QED
  BY <1>4, <1>6, <1>8, <1>10 DEF IInv

\* Every call that a page sends.
LEMMA NewCallIs ==
  ASSUME NEW t \in Tabs, NEW op \in {"load", "save", "rollback", "delete", "reveal"},
         NEW text \in Texts, NEW version \in Nat
  PROVE  /\ NewCall(t, op, text, version) \in Call
         /\ NewCall(t, op, text, version).tab = t /\ NewCall(t, op, text, version).op = op
         /\ NewCall(t, op, text, version).stage = "sent" /\ ~NewCall(t, op, text, version).stale
BY DEF NewCall, Call

\* The entry stays as it is.
LEMMA StoreStays ==
  ASSUME IInv, UNCHANGED entry
  PROVE  /\ st' \in {"absent", "live", "deleted"} /\ ptr' \in Nat /\ rows' \in Seq(Texts)
         /\ casReq' \in BOOLEAN
         /\ StoreOK' /\ StoreGrows /\ Now' = Now
<1>1. Len(rows) \in Nat
  BY LenProperties DEF IInv, TypeOK
<1>. QED
  BY <1>1 DEF IInv, TypeOK, StoreOK, StoreGrows, entry, Now

\* A step that leaves the calls alone.
LEMMA SameCalls ==
  ASSUME TypeOK, UNCHANGED calls
  PROVE  KeepsLoads /\ ServesOK
<1>1. Len(calls) \in Nat
  BY CallsAre
<1>. QED
  BY <1>1 DEF KeepsLoads, ServesOK

\* A click.
LEMMA ClickStep ==
  ASSUME IInv, NEW t \in Tabs, NEW op \in {"save", "rollback", "delete", "reveal"},
         NEW text \in Texts, NEW version \in Nat, Click(t, op, text, version)
  PROVE  IInv'
<1>. DEFINE k == NewCall(t, op, text, version)
<1>1. TypeOK /\ calls \in Seq(Call) /\ Len(calls) \in Nat /\ clicks \in 0 .. MaxClicks /\ clicks < MaxClicks
  BY CallsAre DEF IInv, TypeOK, Click
<1>2. k \in Call /\ k.op = op /\ k.stage = "sent"
  BY NewCallIs
<1>. HIDE DEF k
<1>3. calls' = Append(calls, k) /\ clicks' = clicks + 1
  BY DEF Click, k
<1>4. /\ calls' \in Seq(Call) /\ Len(calls') = Len(calls) + 1
      /\ \A i \in 1 .. Len(calls) : calls'[i] = calls[i]
      /\ calls'[Len(calls) + 1] = k
  BY <1>1, <1>2, <1>3, AppendProperties
<1>5. TypeOK'
  BY <1>1, <1>3, <1>4, BoundsAssumption DEF Click, TypeOK
<1>6. StoreOK' /\ StoreGrows
  BY StoreStays DEF Click, entry
<1>7. KeepsLoads /\ ServesOK
  BY <1>1, <1>2, <1>4 DEF KeepsLoads, ServesOK
<1>. QED
  BY <1>5, <1>6, <1>7, Unnoticed DEF Click

LEMMA UserStep ==
  ASSUME IInv, NEW t \in Tabs, Save(t) \/ RollbackTo(t) \/ DeleteEntry(t) \/ Reveal(t)
  PROVE  IInv'
<1>1. TypeOK /\ Blank \in Texts
  BY DEF IInv, Texts
<1>2. CASE Save(t)
  <2>1. field[t] \in Texts /\ Click(t, "save", field[t], 0)
    BY <1>1, <1>2 DEF TypeOK, Save
  <2>. QED
    BY <2>1, ClickStep
<1>3. CASE RollbackTo(t)
  <2>1. view[t] \in Snapshot
    BY <1>1, <1>3 DEF TypeOK, RollbackTo, Loaded
  <2>2. Len(view[t].rows) \in Nat
    BY <2>1, LenProperties DEF Snapshot
  <2>3. PICK v \in 1 .. Len(view[t].rows) : Click(t, "rollback", Blank, v)
    BY <1>3 DEF RollbackTo
  <2>. QED
    BY <1>1, <2>2, <2>3, ClickStep
<1>4. CASE DeleteEntry(t)
  BY <1>1, <1>4, ClickStep DEF DeleteEntry
<1>5. CASE Reveal(t)
  BY <1>1, <1>5, ClickStep DEF Reveal
<1>. QED
  BY <1>2, <1>3, <1>4, <1>5

\* What a page does by itself.
LEMMA PageStep ==
  ASSUME IInv, NEW t \in Tabs, TypeText(t) \/ Mask(t)
  PROVE  IInv'
<1>1. TypeOK
  BY DEF IInv
<1>2. UNCHANGED <<kind, page, st, ptr, rows, casReq, view, calls, saved, clicks, others>>
  BY DEF TypeText, Mask
<1>3. field' \in [Tabs -> Texts] /\ shown' \in [Tabs -> Texts \cup {None}] /\ timers' \in [Tabs -> Nat]
  <2>1. CASE TypeText(t)
    BY <1>1, <2>1 DEF TypeText, TypeOK
  <2>2. CASE Mask(t)
    BY <1>1, <2>2 DEF Mask, TypeOK
  <2>. QED
    BY <2>1, <2>2
<1>4. StoreOK' /\ StoreGrows
  BY <1>2, StoreStays DEF entry
<1>5. TypeOK'
  BY <1>1, <1>2, <1>3 DEF TypeOK
<1>. QED
  BY <1>1, <1>2, <1>4, <1>5, SameCalls, Unnoticed

-------------------------------------------------------------------------------
\* The server.

\* What each call of the entry changes.
Stored ==
  /\ st' \in {"absent", "live", "deleted"} /\ ptr' \in Nat /\ rows' \in Seq(Texts)
  /\ casReq' \in BOOLEAN
  /\ StoreOK' /\ StoreGrows

LEMMA WriteStored ==
  ASSUME IInv, NEW x \in Texts, Entry!Write(x, None, "plain")
  PROVE  /\ Stored
         /\ ptr + 1 \in 1 .. Len(rows') /\ rows'[ptr + 1] = x
<1>1. /\ rows \in Seq(Texts) /\ Len(rows) \in Nat /\ casReq \in BOOLEAN /\ ptr = Len(rows)
      /\ StoreOK
  BY LenProperties DEF IInv, TypeOK, Entry!Write
<1>2. st \in {"absent", "live"} /\ st' = "live" /\ ptr' = ptr + 1 /\ rows' = Append(rows, x) /\ casReq' = casReq
  BY DEF Entry!Write, IInv, TypeOK
<1>3. /\ rows' \in Seq(Texts) /\ Len(rows') = Len(rows) + 1
      /\ \A i \in 1 .. Len(rows) : rows'[i] = rows[i]
      /\ rows'[Len(rows) + 1] = x
  BY <1>1, <1>2, AppendProperties
<1>4. st' = "live" => st = "live" \/ rows = <<>>
  BY <1>1, <1>2 DEF StoreOK
<1>. QED
  BY <1>1, <1>2, <1>3, <1>4 DEF Stored, StoreOK, StoreGrows

LEMMA RollbackStored ==
  ASSUME IInv, NEW v, Entry!Rollback(Blank, v, "plain")
  PROVE  Stored
<1>1. rows \in Seq(Texts) /\ Len(rows) \in Nat /\ casReq \in BOOLEAN
  BY LenProperties DEF IInv, TypeOK
<1>2. v \in 1 .. Len(rows) /\ ptr' = v /\ st = "live" /\ st' = st /\ rows' = rows /\ casReq' = casReq
  BY DEF Entry!Rollback
<1>. QED
  BY <1>1, <1>2 DEF Stored, StoreOK, StoreGrows

LEMMA DeleteStored ==
  ASSUME IInv, Entry!Delete(Blank, "plain")
  PROVE  Stored
<1>1. rows \in Seq(Texts) /\ Len(rows) \in Nat /\ casReq \in BOOLEAN /\ ptr \in Nat /\ ptr <= Len(rows)
  BY LenProperties DEF IInv, TypeOK, StoreOK
<1>2. ptr' = ptr /\ st' = "deleted" /\ rows' = rows /\ casReq' = casReq
  BY DEF Entry!Delete
<1>. QED
  BY <1>1, <1>2 DEF Stored, StoreOK, StoreGrows

LEMMA RequireCasStored ==
  ASSUME IInv, Entry!RequireCas
  PROVE  Stored
<1>1. rows \in Seq(Texts) /\ Len(rows) \in Nat /\ ptr \in Nat /\ ptr <= Len(rows)
  BY LenProperties DEF IInv, TypeOK, StoreOK
<1>2. ptr' = ptr /\ st = "live" /\ st' = "live" /\ rows' = rows /\ casReq' = TRUE
  BY DEF Entry!RequireCas
<1>. QED
  BY <1>1, <1>2 DEF Stored, StoreOK, StoreGrows

\* Another client's call.
LEMMA ElsewhereStep ==
  ASSUME IInv, Elsewhere
  PROVE  IInv'
<1>1. TypeOK /\ Values \subseteq Texts
  BY DEF IInv, Texts
<1>2. Stored
  BY <1>1, WriteStored, RollbackStored, DeleteStored, RequireCasStored DEF Elsewhere
<1>3. UNCHANGED <<kind, page, field, view, shown, timers, calls, saved, clicks>>
  BY DEF Elsewhere
<1>4. others' \in 0 .. MaxOther
  BY <1>1, BoundsAssumption DEF TypeOK, Elsewhere
<1>5. TypeOK'
  BY <1>1, <1>2, <1>3, <1>4 DEF TypeOK, Stored
<1>. QED
  BY <1>1, <1>2, <1>3, <1>5, SameCalls, Unnoticed DEF Stored

\* The call at c is served, with the answer k.
LEMMA ServedStep ==
  ASSUME IInv, NEW c \in 1 .. Len(calls), NEW k \in Call, Stored,
         calls' = [calls EXCEPT ![c] = k],
         k.tab = calls[c].tab, k.op = calls[c].op, k.stale = calls[c].stale,
         AnswerOK(k, view[k.tab], saved[k.tab], Now'),
         UNCHANGED <<kind, page, field, view, shown, timers, saved, clicks, others>>
  PROVE  IInv'
<1>1. TypeOK
  BY DEF IInv
<1>2. /\ Len(calls) \in Nat /\ DOMAIN calls = 1 .. Len(calls)
      /\ \A d \in 1 .. Len(calls) : calls[d] \in Call
      /\ calls \in Seq(Call)
  BY <1>1, CallsAre DEF TypeOK
<1>3. /\ calls' \in Seq(Call) /\ Len(calls') = Len(calls)
      /\ calls'[c] = k /\ \A d \in 1 .. Len(calls) \ {c} : calls'[d] = calls[d]
  BY <1>2, ExceptSeq
<1>4. TypeOK'
  BY <1>1, <1>3 DEF TypeOK, Stored
<1>5. KeepsLoads /\ ServesOK
  BY <1>2, <1>3 DEF KeepsLoads, ServesOK
<1>. QED
  BY <1>4, <1>5, Unnoticed DEF Stored

\* The answer of a call that is no load and says nothing of the store.
LEMMA PlainAnswer ==
  ASSUME IInv, NEW c \in 1 .. Len(calls), NEW ok \in BOOLEAN, NEW text \in Texts,
         ok => calls[c].op \notin {"save", "load"},
         Stored, calls' = [calls EXCEPT ![c] = [calls[c] EXCEPT !.ok = ok, !.text = text, !.stage = "served"]],
         UNCHANGED <<kind, page, field, view, shown, timers, saved, clicks, others>>
  PROVE  IInv'
<1>. DEFINE k == [calls[c] EXCEPT !.ok = ok, !.text = text, !.stage = "served"]
<1>1. calls[c] \in Call
  BY CallsAre DEF IInv
<1>2. k \in Call /\ k.tab = calls[c].tab /\ k.op = calls[c].op /\ k.stale = calls[c].stale /\ k.ok = ok
  BY <1>1 DEF Call
<1>. HIDE DEF k
<1>3. AnswerOK(k, view[k.tab], saved[k.tab], Now')
  BY <1>2 DEF AnswerOK
<1>4. calls' = [calls EXCEPT ![c] = k]
  BY DEF k
<1>. QED
  BY <1>2, <1>3, <1>4, ServedStep

LEMMA RefusedStep ==
  ASSUME IInv, NEW c \in 1 .. Len(calls), Refused(c),
         UNCHANGED <<kind, page, field, view, shown, timers, saved, clicks, others>>
  PROVE  IInv'
<1>1. calls[c] \in Call /\ calls[c].text \in Texts
  BY CallsAre DEF IInv, Call
<1>2. [[calls[c] EXCEPT !.ok = FALSE] EXCEPT !.stage = "served"]
        = [calls[c] EXCEPT !.ok = FALSE, !.text = calls[c].text, !.stage = "served"]
  BY <1>1 DEF Call
<1>3. calls' = [calls EXCEPT ![c] = [calls[c] EXCEPT !.ok = FALSE, !.text = calls[c].text, !.stage = "served"]]
  BY <1>2 DEF Refused, Served
<1>4. Stored
  BY StoreStays DEF Stored, Refused
<1>. QED
  BY <1>1, <1>3, <1>4, PlainAnswer

\* A save that is answered with success wrote the row it names.
LEMMA ServeSaveStep ==
  ASSUME IInv, NEW c \in 1 .. Len(calls), ServeSave(c),
         UNCHANGED <<kind, page, field, view, shown, timers, saved, clicks, others>>
  PROVE  IInv'
<1>1. calls[c] \in Call /\ calls[c].text \in Texts /\ calls[c].op = "save" /\ ptr + 1 \in Nat
  BY CallsAre DEF IInv, Call, ServeSave, TypeOK
<1>2. CASE Refused(c)
  BY <1>2, RefusedStep
<1>3. CASE Entry!Write(calls[c].text, None, "plain")
           /\ Served(c, [calls[c] EXCEPT !.ok = TRUE, !.version = ptr + 1])
  <2>. DEFINE k == [calls[c] EXCEPT !.ok = TRUE, !.version = ptr + 1, !.stage = "served"]
  <2>1. k \in Call /\ k.tab = calls[c].tab /\ k.op = "save" /\ k.stale = calls[c].stale
        /\ k.version = ptr + 1 /\ k.text = calls[c].text
    BY <1>1 DEF Call
  <2>2. [[calls[c] EXCEPT !.ok = TRUE, !.version = ptr + 1] EXCEPT !.stage = "served"] = k
    BY <1>1 DEF Call
  <2>3. calls' = [calls EXCEPT ![c] = k]
    BY <1>3, <2>2 DEF Served
  <2>. HIDE DEF k
  <2>4. Stored /\ ptr + 1 \in 1 .. Len(rows') /\ rows'[ptr + 1] = calls[c].text
    BY <1>1, <1>3, WriteStored
  <2>5. AnswerOK(k, view[k.tab], saved[k.tab], Now')
    BY <2>1, <2>4 DEF AnswerOK, Now
  <2>. QED
    BY <1>1, <2>1, <2>3, <2>4, <2>5, ServedStep
<1>. QED
  BY <1>2, <1>3 DEF ServeSave

LEMMA ServeChangeStep ==
  ASSUME IInv, NEW c \in 1 .. Len(calls), ServeRollback(c) \/ ServeDelete(c),
         UNCHANGED <<kind, page, field, view, shown, timers, saved, clicks, others>>
  PROVE  IInv'
<1>1. /\ calls[c] \in Call /\ calls[c].text \in Texts
      /\ calls[c].op \in {"rollback", "delete"}
  BY CallsAre DEF IInv, Call, ServeRollback, ServeDelete
<1>2. CASE Refused(c)
  BY <1>2, RefusedStep
<1>3. CASE /\ Entry!Rollback(Blank, calls[c].version, "plain") \/ Entry!Delete(Blank, "plain")
           /\ Served(c, [calls[c] EXCEPT !.ok = TRUE])
  <2>1. Stored
    BY <1>3, RollbackStored, DeleteStored
  <2>2. [[calls[c] EXCEPT !.ok = TRUE] EXCEPT !.stage = "served"]
          = [calls[c] EXCEPT !.ok = TRUE, !.text = calls[c].text, !.stage = "served"]
    BY <1>1 DEF Call
  <2>3. calls' = [calls EXCEPT ![c] = [calls[c] EXCEPT !.ok = TRUE, !.text = calls[c].text, !.stage = "served"]]
    BY <1>3, <2>2 DEF Served
  <2>. QED
    BY <1>1, <2>1, <2>3, PlainAnswer
<1>. QED
  BY <1>2, <1>3 DEF ServeRollback, ServeDelete

LEMMA ServeRevealStep ==
  ASSUME IInv, NEW c \in 1 .. Len(calls), ServeReveal(c),
         UNCHANGED <<kind, page, field, view, shown, timers, saved, clicks, others>>
  PROVE  IInv'
<1>1. calls[c] \in Call /\ calls[c].op = "reveal" /\ ptr \in Nat /\ ptr <= Len(rows)
  BY CallsAre DEF IInv, Call, ServeReveal, TypeOK, StoreOK
<1>2. CASE Refused(c)
  BY <1>2, RefusedStep
<1>3. CASE ptr > 0 /\ Served(c, [calls[c] EXCEPT !.ok = TRUE, !.text = rows[ptr]]) /\ UNCHANGED entry
  <2>1. rows[ptr] \in Texts
    BY <1>1, <1>3, CallsAre DEF IInv
  <2>2. [[calls[c] EXCEPT !.ok = TRUE, !.text = rows[ptr]] EXCEPT !.stage = "served"]
          = [calls[c] EXCEPT !.ok = TRUE, !.text = rows[ptr], !.stage = "served"]
    BY <1>1 DEF Call
  <2>3. calls' = [calls EXCEPT ![c] = [calls[c] EXCEPT !.ok = TRUE, !.text = rows[ptr], !.stage = "served"]]
    BY <1>3, <2>2 DEF Served
  <2>4. Stored
    BY <1>3, StoreStays DEF Stored
  <2>. QED
    BY <1>1, <2>1, <2>3, <2>4, PlainAnswer
<1>. QED
  BY <1>2, <1>3 DEF ServeReveal

\* A load is answered the store as it is, which holds what was saved and listed.
LEMMA ServeLoadStep ==
  ASSUME IInv, NEW c \in 1 .. Len(calls), ServeLoad(c),
         UNCHANGED <<kind, page, field, view, shown, timers, saved, clicks, others>>
  PROVE  IInv'
<1>1. /\ TypeOK /\ SavedOK /\ ViewsOK /\ Now \in Snapshot
      /\ calls[c] \in Call /\ calls[c].tab \in Tabs /\ calls[c].op = "load"
  BY CallsAre, NowTyped DEF IInv, Call, ServeLoad
<1>2. CASE Refused(c)
  BY <1>2, RefusedStep
<1>3. CASE Served(c, [calls[c] EXCEPT !.ok = TRUE, !.list = Now]) /\ UNCHANGED entry
  <2>. DEFINE k == [calls[c] EXCEPT !.ok = TRUE, !.list = Now, !.stage = "served"]
  <2>1. k \in Call /\ k.tab = calls[c].tab /\ k.op = "load" /\ k.stale = calls[c].stale /\ k.list = Now
    BY <1>1 DEF Call
  <2>2. [[calls[c] EXCEPT !.ok = TRUE, !.list = Now] EXCEPT !.stage = "served"] = k
    BY <1>1 DEF Call
  <2>3. calls' = [calls EXCEPT ![c] = k]
    BY <1>3, <2>2 DEF Served
  <2>. HIDE DEF k
  <2>4. Stored /\ Now' = Now
    BY <1>3, StoreStays DEF Stored
  <2>5. Grew(Now, Now)
    <3>1. Len(Now.rows) \in Nat
      BY <1>1, LenProperties DEF Snapshot
    <3>. QED
      BY <3>1 DEF Grew
  <2>6. Covers(Now, saved[k.tab])
    <3>1. \A s \in saved[k.tab] : s.version \in 1 .. Len(rows) /\ rows[s.version] = s.text
      BY <1>1, <2>1 DEF SavedOK
    <3>2. Now.rows = rows /\ Len(rows) \in Nat
      BY <1>1, CallsAre DEF Now
    <3>. QED
      BY <3>1, <3>2 DEF Covers
  <2>7. view[k.tab] \notin {None, Failed} => Grew(view[k.tab], Now)
    BY <1>1, <2>1 DEF ViewsOK, Loaded
  <2>8. AnswerOK(k, view[k.tab], saved[k.tab], Now)
    BY <1>1, <2>1, <2>5, <2>6, <2>7 DEF AnswerOK
  <2>. QED
    BY <1>1, <2>1, <2>3, <2>4, <2>8, ServedStep
<1>. QED
  BY <1>2, <1>3 DEF ServeLoad, Now

LEMMA ServerStep ==
  ASSUME IInv, NEW c \in 1 .. Len(calls), Serve(c) \/ Lose(c)
  PROVE  IInv'
<1>1. CASE Serve(c)
  BY <1>1, ServeSaveStep, ServeChangeStep, ServeRevealStep, ServeLoadStep DEF Serve
<1>2. CASE Lose(c)
  BY <1>2, RefusedStep DEF Lose
<1>. QED
  BY <1>1, <1>2

-------------------------------------------------------------------------------
\* Answers.

\* Where the call at i was before the call at c was over.
Up(c, i) == IF i < c THEN i ELSE i + 1

\* The calls that are left when the call at c is over.
LEMMA OverIs ==
  ASSUME TypeOK, NEW c \in 1 .. Len(calls), calls' = Over(c)
  PROVE  /\ calls' \in Seq(Call) /\ Len(calls') \in Nat
         /\ \A i \in 1 .. Len(calls') :
              Up(c, i) \in 1 .. Len(calls) \ {c} /\ calls'[i] = calls[Up(c, i)]
         /\ \A i, j \in 1 .. Len(calls') : Up(c, i) = Up(c, j) => i = j
         /\ \A d \in 1 .. Len(calls) \ {c} : \E i \in 1 .. Len(calls') : d = Up(c, i)
<1>1. calls \in Seq(Call) /\ Len(calls) \in Nat
  BY CallsAre DEF TypeOK
<1>2. /\ calls' \in Seq(Call) /\ Len(calls') = Len(calls) - 1
      /\ \A i \in 1 .. Len(calls) - 1 : calls'[i] = calls[Up(c, i)]
  BY <1>1, RemoveAtIs DEF Over, Up
<1>3. \A i \in 1 .. Len(calls') : Up(c, i) \in 1 .. Len(calls) \ {c}
  BY <1>1, <1>2 DEF Up
<1>4. \A i, j \in 1 .. Len(calls') : Up(c, i) = Up(c, j) => i = j
  BY <1>1, <1>2 DEF Up
<1>5. ASSUME NEW d \in 1 .. Len(calls) \ {c}
      PROVE  \E i \in 1 .. Len(calls') : d = Up(c, i)
  <2>. DEFINE i == IF d < c THEN d ELSE d - 1
  <2>1. i \in 1 .. Len(calls') /\ d = Up(c, i)
    BY <1>1, <1>2 DEF Up
  <2>. QED
    BY <2>1
<1>6. Len(calls') \in Nat
  BY <1>2, LenProperties
<1>. QED
  BY <1>2, <1>3, <1>4, <1>5, <1>6

\* A call is over whose answer no list of a tab was waiting for.
LEMMA OverStep ==
  ASSUME IInv, TypeOK', NEW c \in 1 .. Len(calls), calls' = Over(c),
         \A t \in Tabs : ~Newest(calls[c], t),
         UNCHANGED <<st, ptr, rows, casReq, view, saved>>
  PROVE  IInv'
<1>1. TypeOK /\ CallsOK /\ OneNewest /\ ListsOK
  BY DEF IInv
<1>2. /\ \A i \in 1 .. Len(calls') :
           Up(c, i) \in 1 .. Len(calls) \ {c} /\ calls'[i] = calls[Up(c, i)]
      /\ \A i, j \in 1 .. Len(calls') : Up(c, i) = Up(c, j) => i = j
      /\ \A d \in 1 .. Len(calls) \ {c} : \E i \in 1 .. Len(calls') : d = Up(c, i)
  BY <1>1, OverIs
<1>3. StoreOK' /\ StoreGrows
  BY StoreStays DEF entry
<1>4. SavedOK' /\ ViewsOK'
  BY <1>3, StoreGoesOn
<1>5. ASSUME NEW i \in 1 .. Len(calls')
      PROVE  AnswerOK(calls'[i], view'[calls'[i].tab], saved'[calls'[i].tab], Now')
  <2>1. calls'[i] \in Call /\ CallOK(calls'[i])
    BY <1>1, <1>2, CallsAre DEF CallsOK
  <2>. QED
    BY <1>1, <1>3, <2>1, CallGoesOn
<1>6. CallsOK'
  BY <1>5 DEF CallsOK, CallOK
<1>7. OneNewest'
  BY <1>1, <1>2 DEF OneNewest
<1>8. ASSUME NEW t \in Tabs, Coming(t) PROVE Coming(t)'
  BY <1>2, <1>8 DEF Coming
<1>9. ListsOK'
  BY <1>1, <1>8 DEF ListsOK
<1>. QED
  BY <1>3, <1>4, <1>6, <1>7, <1>9 DEF IInv

LEMMA AnswerRevealStep ==
  ASSUME IInv, NEW c \in 1 .. Len(calls), AnswerReveal(c),
         UNCHANGED <<kind, page, st, ptr, rows, casReq, clicks, others>>
  PROVE  IInv'
<1>1. /\ TypeOK /\ calls' = Over(c) /\ calls[c].op = "reveal"
      /\ calls[c] \in Call /\ calls[c].tab \in Tabs /\ calls[c].text \in Texts
      /\ UNCHANGED <<field, view, saved>>
  BY CallsAre DEF IInv, AnswerReveal, Call
<1>2. shown' \in [Tabs -> Texts \cup {None}] /\ timers' \in [Tabs -> Nat]
  <2>1. CASE calls[c].ok
    <3>. DEFINE t == calls[c].tab
    <3>1. /\ shown \in [Tabs -> Texts \cup {None}] /\ timers \in [Tabs -> Nat] /\ t \in Tabs
          /\ shown' = [shown EXCEPT ![t] = calls[c].text] /\ timers' = [timers EXCEPT ![t] = @ + 1]
      BY <1>1, <2>1 DEF TypeOK, AnswerReveal
    <3>. HIDE DEF t
    <3>2. timers[t] + 1 \in Nat
      BY <3>1
    <3>. QED
      BY <1>1, <3>1, <3>2
  <2>2. CASE ~calls[c].ok
    BY <1>1, <2>2 DEF TypeOK, AnswerReveal
  <2>. QED
    BY <2>1, <2>2
<1>3. calls' \in Seq(Call)
  BY <1>1, OverIs
<1>4. TypeOK'
  BY <1>1, <1>2, <1>3 DEF TypeOK
<1>5. \A t \in Tabs : ~Newest(calls[c], t)
  BY <1>1 DEF Newest
<1>. QED
  BY <1>1, <1>4, <1>5, OverStep

\* The answer to a load that a newer one has replaced.
LEMMA AnswerStaleStep ==
  ASSUME IInv, NEW c \in 1 .. Len(calls), AnswerLoad(c), ~Shows(c),
         UNCHANGED <<kind, page, st, ptr, rows, casReq, clicks, others>>
  PROVE  IInv'
<1>1. /\ TypeOK /\ calls' = Over(c) /\ UNCHANGED <<field, view, shown, timers, saved>>
  BY DEF IInv, AnswerLoad
<1>2. calls' \in Seq(Call)
  BY <1>1, OverIs
<1>3. TypeOK'
  BY <1>1, <1>2 DEF TypeOK
<1>4. \A t \in Tabs : ~Newest(calls[c], t)
  BY DEF Newest, Shows
<1>. QED
  BY <1>1, <1>3, <1>4, OverStep

\* What the newest load of a tab brings follows what the tab showed.
LEMMA AnswerTyped ==
  ASSUME IInv, NEW c \in 1 .. Len(calls), calls[c].op = "load", calls[c].stage = "served", calls[c].ok
  PROVE  /\ calls[c].list \in Snapshot /\ Grew(calls[c].list, Now)
         /\ LatestVal(calls[c].list) \in Texts
<1>1. CallOK(calls[c])
  BY DEF IInv, CallsOK
<1>2. calls[c].list \in Snapshot /\ Grew(calls[c].list, Now)
  BY <1>1 DEF CallOK, AnswerOK
<1>3. calls[c].list.rows \in Seq(Texts) /\ Blank \in Texts
  BY <1>2 DEF Snapshot, Texts
<1>4. calls[c].list.rows # <<>> => Head(calls[c].list.rows) \in Texts
  BY <1>3, HeadTailProperties
<1>. QED
  BY <1>2, <1>3, <1>4 DEF LatestVal

LEMMA AnswerNewestStep ==
  ASSUME IInv, NEW c \in 1 .. Len(calls), calls[c].stage = "served", AnswerLoad(c), Shows(c),
         UNCHANGED <<kind, page, st, ptr, rows, casReq, clicks, others>>
  PROVE  IInv'
<1>. DEFINE t == calls[c].tab
            new == IF calls[c].ok THEN calls[c].list ELSE Failed
<1>1. /\ TypeOK /\ CallsOK /\ OneNewest /\ ListsOK /\ SavedOK /\ ViewsOK
      /\ t \in Tabs /\ calls[c] \in Call
  BY CallsAre DEF IInv, Call
<1>2. /\ calls' = Over(c) /\ calls[c].op = "load" /\ ~calls[c].stale
      /\ view' = [view EXCEPT ![t] = new] /\ field' = Prefilled(c)
      /\ UNCHANGED <<shown, timers, saved>>
  BY DEF AnswerLoad, Shows
<1>3. calls[c].ok => /\ calls[c].list \in Snapshot /\ Grew(calls[c].list, Now)
                     /\ LatestVal(calls[c].list) \in Texts
  BY <1>2, AnswerTyped
<1>4. new \in Snapshot \cup {Failed}
  BY <1>3
<1>5. /\ \A i \in 1 .. Len(calls') :
           Up(c, i) \in 1 .. Len(calls) \ {c} /\ calls'[i] = calls[Up(c, i)]
      /\ \A i, j \in 1 .. Len(calls') : Up(c, i) = Up(c, j) => i = j
      /\ \A d \in 1 .. Len(calls) \ {c} : \E i \in 1 .. Len(calls') : d = Up(c, i)
      /\ calls' \in Seq(Call)
  BY <1>1, <1>2, OverIs
<1>6. new \notin {None, Failed} => calls[c].ok /\ Covers(new, saved[t]) /\ Grew(new, Now)
  BY <1>1, <1>2, <1>3 DEF CallsOK, CallOK, AnswerOK
<1>. HIDE DEF new
<1>7. view'[t] = new /\ \A u \in Tabs : u # t => view'[u] = view[u]
  BY <1>1, <1>2 DEF TypeOK
<1>8. field' \in [Tabs -> Texts]
  BY <1>1, <1>2, <1>3 DEF Prefilled, TypeOK
<1>9. TypeOK'
  BY <1>1, <1>2, <1>4, <1>5, <1>8 DEF TypeOK
<1>10. StoreOK' /\ StoreGrows /\ Now' = Now
  BY StoreStays DEF entry
<1>11. SavedOK'
  BY <1>1, <1>2 DEF SavedOK
<1>12. ViewsOK'
  BY <1>1, <1>6, <1>7, <1>10 DEF ViewsOK, Loaded
<1>13. ASSUME NEW d \in 1 .. Len(calls) \ {c}, NEW u, Newest(calls[d], u)
       PROVE  u # t
  BY <1>1, <1>2, <1>13 DEF OneNewest, Newest
<1>14. ASSUME NEW i \in 1 .. Len(calls')
       PROVE  AnswerOK(calls'[i], view'[calls'[i].tab], saved'[calls'[i].tab], Now')
  <2>1. PICK d \in 1 .. Len(calls) \ {c} : calls'[i] = calls[d]
    BY <1>5
  <2>2. calls'[i] \in Call /\ calls'[i].tab \in Tabs /\ CallOK(calls'[i])
    BY <1>1, <2>1, CallsAre DEF CallsOK, Call
  <2>3. calls'[i].op = "load" /\ ~calls'[i].stale => view'[calls'[i].tab] = view[calls'[i].tab]
    BY <1>7, <1>13, <2>1, <2>2 DEF Newest
  <2>. QED
    BY <1>1, <1>2, <1>9, <1>10, <2>2, <2>3, CallGoesOn
<1>15. CallsOK'
  BY <1>14 DEF CallsOK, CallOK
<1>16. OneNewest'
  BY <1>1, <1>5 DEF OneNewest
<1>17. ASSUME NEW u \in Tabs, u # t, Coming(u) PROVE Coming(u)'
  <2>1. PICK d \in 1 .. Len(calls) : Newest(calls[d], u)
    BY <1>17 DEF Coming
  <2>2. d # c
    BY <1>17, <2>1 DEF Newest
  <2>. QED
    BY <1>5, <2>1, <2>2 DEF Coming
<1>18. ListsOK'
  BY <1>1, <1>2, <1>6, <1>7, <1>17 DEF ListsOK, Lists
<1>. QED
  BY <1>9, <1>10, <1>11, <1>12, <1>15, <1>16, <1>18 DEF IInv

\* The same call, perhaps with a newer load after it.
Same(new, old) ==
  /\ new \in Call
  /\ new.tab = old.tab /\ new.op = old.op /\ new.text = old.text /\ new.version = old.version
  /\ new.stage = old.stage /\ new.ok = old.ok /\ new.list = old.list

\* Reload: the call at c is over, the loads of its tab are replaced, and a new one is sent.
LEMMA ReloadIs ==
  ASSUME TypeOK, NEW c \in 1 .. Len(calls), calls' = Reload(c)
  PROVE  LET t == calls[c].tab IN
         /\ calls' \in Seq(Call) /\ Len(calls') = Len(calls)
         /\ Newest(calls'[Len(calls)], t) /\ calls'[Len(calls)].stage = "sent"
         /\ \A i \in 1 .. Len(calls) - 1 :
              /\ Up(c, i) \in 1 .. Len(calls) \ {c}
              /\ Same(calls'[i], calls[Up(c, i)])
              /\ calls'[i].stale <=>
                   calls[Up(c, i)].stale \/ (calls[Up(c, i)].tab = t /\ calls[Up(c, i)].op = "load")
         /\ \A i, j \in 1 .. Len(calls) - 1 : Up(c, i) = Up(c, j) => i = j
         /\ \A d \in 1 .. Len(calls) \ {c} : \E i \in 1 .. Len(calls) - 1 : d = Up(c, i)
<1>. DEFINE t == calls[c].tab
            o == Overtaken(t)
            k == Load(t)
<1>1. /\ Len(calls) \in Nat /\ DOMAIN calls = 1 .. Len(calls)
      /\ \A d \in 1 .. Len(calls) : calls[d] \in Call
      /\ t \in Tabs
  BY CallsAre DEF Call
<1>2. Blank \in Texts /\ k \in Call /\ k.tab = t /\ k.op = "load" /\ k.stage = "sent" /\ ~k.stale
  <2>1. Blank \in Texts
    BY DEF Texts
  <2>2. t \in Tabs
    BY <1>1
  <2>. HIDE DEF t
  <2>3. k = NewCall(t, "load", Blank, 0)
    BY DEF Load
  <2>. QED
    BY <2>1, <2>2, <2>3, NewCallIs
<1>3. ASSUME NEW d \in 1 .. Len(calls)
      PROVE  /\ Same(o[d], calls[d])
             /\ o[d].stale <=> calls[d].stale \/ (calls[d].tab = t /\ calls[d].op = "load")
  <2>1. calls[d] \in Call
    BY <1>1
  <2>2. o[d] = [calls[d] EXCEPT !.stale = calls[d].stale \/ (calls[d].tab = t /\ calls[d].op = "load")]
    BY <1>1 DEF Overtaken
  <2>. HIDE DEF o, t
  <2>. QED
    BY <2>1, <2>2 DEF Same, Call
<1>4. o \in Seq(Call) /\ Len(o) = Len(calls)
  <2>1. o \in [1 .. Len(calls) -> Call]
    BY <1>1, <1>3 DEF Overtaken, Same
  <2>. HIDE DEF o
  <2>. QED
    BY <1>1, <2>1, SeqDef, LenProperties
<1>. HIDE DEF o, k
<1>5. /\ RemoveAt(o, c) \in Seq(Call) /\ Len(RemoveAt(o, c)) = Len(calls) - 1
      /\ \A i \in 1 .. Len(calls) - 1 : RemoveAt(o, c)[i] = o[Up(c, i)]
  BY <1>4, RemoveAtIs DEF Up
<1>6. calls' = Append(RemoveAt(o, c), k)
  BY DEF Reload, o, k
<1>7. /\ calls' \in Seq(Call) /\ Len(calls') = Len(calls)
      /\ \A i \in 1 .. Len(calls) - 1 : calls'[i] = o[Up(c, i)]
      /\ calls'[Len(calls)] = k
  <2>1. /\ calls' \in Seq(Call) /\ Len(calls') = Len(RemoveAt(o, c)) + 1
        /\ \A i \in 1 .. Len(RemoveAt(o, c)) : calls'[i] = RemoveAt(o, c)[i]
        /\ calls'[Len(RemoveAt(o, c)) + 1] = k
    BY <1>2, <1>5, <1>6, AppendProperties
  <2>2. Len(RemoveAt(o, c)) + 1 = Len(calls)
    BY <1>1, <1>5
  <2>. QED
    BY <1>5, <2>1, <2>2
<1>8. \A i \in 1 .. Len(calls) - 1 : Up(c, i) \in 1 .. Len(calls) \ {c}
  BY <1>1 DEF Up
<1>9. \A i, j \in 1 .. Len(calls) - 1 : Up(c, i) = Up(c, j) => i = j
  BY <1>1 DEF Up
<1>10. ASSUME NEW d \in 1 .. Len(calls) \ {c}
       PROVE  \E i \in 1 .. Len(calls) - 1 : d = Up(c, i)
  <2>. DEFINE i == IF d < c THEN d ELSE d - 1
  <2>1. i \in 1 .. Len(calls) - 1 /\ d = Up(c, i)
    BY <1>1 DEF Up
  <2>. QED
    BY <2>1
<1>11. Newest(calls'[Len(calls)], t) /\ calls'[Len(calls)].stage = "sent"
  BY <1>2, <1>7 DEF Newest
<1>12. ASSUME NEW i \in 1 .. Len(calls) - 1
       PROVE  /\ Same(calls'[i], calls[Up(c, i)])
              /\ calls'[i].stale <=>
                   calls[Up(c, i)].stale \/ (calls[Up(c, i)].tab = t /\ calls[Up(c, i)].op = "load")
  BY <1>3, <1>7, <1>8
<1>. QED
  BY <1>7, <1>8, <1>9, <1>10, <1>11, <1>12

\* A call is over and its tab loads its list anew.  Rows may have been saved by then, which
\* the lists on their way to that tab do not hold: they are replaced.
LEMMA ReloadStep ==
  ASSUME IInv, TypeOK', NEW c \in 1 .. Len(calls), calls' = Reload(c),
         UNCHANGED <<st, ptr, rows, casReq, view>>,
         \A u \in Tabs : u # calls[c].tab => saved'[u] = saved[u],
         SavedOK'
  PROVE  IInv'
<1>. DEFINE t == calls[c].tab
            n == Len(calls)
<1>1. /\ TypeOK /\ CallsOK /\ OneNewest /\ ListsOK /\ ViewsOK
      /\ t \in Tabs /\ n \in Nat /\ \A d \in 1 .. n : calls[d] \in Call
  BY CallsAre DEF IInv, Call
<1>2. /\ Len(calls') = n
      /\ Newest(calls'[n], t) /\ calls'[n].stage = "sent"
      /\ \A i \in 1 .. n - 1 :
           /\ Up(c, i) \in 1 .. n \ {c}
           /\ Same(calls'[i], calls[Up(c, i)])
           /\ calls'[i].stale <=>
                calls[Up(c, i)].stale \/ (calls[Up(c, i)].tab = t /\ calls[Up(c, i)].op = "load")
      /\ \A i, j \in 1 .. n - 1 : Up(c, i) = Up(c, j) => i = j
      /\ \A d \in 1 .. n \ {c} : \E i \in 1 .. n - 1 : d = Up(c, i)
  BY <1>1, ReloadIs
<1>. HIDE DEF t, n
<1>3. StoreOK' /\ Now' = Now
  BY StoreStays DEF entry
<1>4. ViewsOK'
  BY <1>1, <1>3 DEF ViewsOK, Loaded
<1>5. ASSUME NEW i \in 1 .. n
      PROVE  AnswerOK(calls'[i], view'[calls'[i].tab], saved'[calls'[i].tab], Now')
  <2>1. CASE i = n
    BY <1>2, <2>1 DEF AnswerOK
  <2>2. CASE i # n
    <3>1. i \in 1 .. n - 1
      BY <1>1, <2>2
    <3>2. PICK d \in 1 .. n \ {c} :
            /\ Same(calls'[i], calls[d])
            /\ calls'[i].stale <=> calls[d].stale \/ (calls[d].tab = t /\ calls[d].op = "load")
      BY <1>2, <3>1
    <3>3. AnswerOK(calls[d], view[calls[d].tab], saved[calls[d].tab], Now) /\ calls[d].tab \in Tabs
      BY <1>1, <3>2 DEF CallsOK, CallOK, Call, n
    <3>4. calls[d].op = "load" /\ ~calls'[i].stale => saved'[calls[d].tab] = saved[calls[d].tab]
      BY <3>2, <3>3 DEF t
    <3>. QED
      BY <1>3, <3>2, <3>3, <3>4 DEF Same, AnswerOK
  <2>. QED
    BY <2>1, <2>2
<1>6. CallsOK'
  BY <1>2, <1>5 DEF CallsOK, CallOK
<1>7. ASSUME NEW u \in Tabs, NEW i \in 1 .. n, i # n, Newest(calls'[i], u)
      PROVE  u # t /\ i \in 1 .. n - 1 /\ Newest(calls[Up(c, i)], u)
  <2>1. i \in 1 .. n - 1
    BY <1>1, <1>7
  <2>. QED
    BY <1>2, <1>7, <2>1 DEF Newest, Same
<1>8. ASSUME NEW u \in Tabs, NEW i \in 1 .. n, NEW j \in 1 .. n,
             Newest(calls'[i], u), Newest(calls'[j], u)
      PROVE  i = j
  <2>1. CASE u = t
    BY <1>7, <1>8, <2>1
  <2>2. CASE u # t
    <3>1. i # n /\ j # n
      BY <1>2, <1>8, <2>2 DEF Newest
    <3>2. Newest(calls[Up(c, i)], u) /\ Newest(calls[Up(c, j)], u) /\ i \in 1 .. n - 1 /\ j \in 1 .. n - 1
      BY <1>7, <1>8, <3>1
    <3>3. Up(c, i) = Up(c, j)
      BY <1>1, <1>2, <3>2 DEF OneNewest, n
    <3>. QED
      BY <1>2, <3>2, <3>3
  <2>. QED
    BY <2>1, <2>2
<1>9. OneNewest'
  BY <1>2, <1>8 DEF OneNewest
<1>10. ASSUME NEW u, u = t PROVE Coming(u)'
  <2>1. n \in 1 .. n
    BY <1>1 DEF n
  <2>. QED
    BY <1>2, <1>10, <2>1 DEF Coming
<1>11. ASSUME NEW u \in Tabs, u # t, Coming(u) PROVE Coming(u)'
  <2>1. PICK d \in 1 .. n : Newest(calls[d], u)
    BY <1>11 DEF Coming, n
  <2>2. d \in 1 .. n \ {c}
    BY <1>11, <2>1 DEF Newest, t
  <2>3. PICK i \in 1 .. n - 1 : d = Up(c, i)
    BY <1>2, <2>2
  <2>4. Newest(calls'[i], u)
    BY <1>2, <1>11, <2>1, <2>3 DEF Newest, Same
  <2>5. i \in 1 .. Len(calls')
    BY <1>1, <1>2
  <2>. QED
    BY <2>4, <2>5 DEF Coming
<1>12. ListsOK'
  BY <1>1, <1>10, <1>11 DEF ListsOK, t
<1>. QED
  BY <1>3, <1>4, <1>6, <1>9, <1>12 DEF IInv

LEMMA AnswerSaveStep ==
  ASSUME IInv, NEW c \in 1 .. Len(calls), calls[c].stage = "served", AnswerSave(c),
         UNCHANGED <<kind, page, st, ptr, rows, casReq, clicks, others>>
  PROVE  IInv'
<1>. DEFINE t == calls[c].tab
<1>1. /\ TypeOK /\ calls[c] \in Call /\ t \in Tabs /\ Blank \in Texts
      /\ calls[c].version \in Nat /\ calls[c].text \in Texts /\ calls[c].op = "save"
      /\ UNCHANGED <<view, shown, timers>>
  BY CallsAre DEF IInv, Call, Texts, AnswerSave
<1>2. CASE ~calls[c].ok
  <2>1. calls' = Over(c) /\ UNCHANGED <<field, saved>>
    BY <1>2 DEF AnswerSave, AfterSave
  <2>2. calls' \in Seq(Call)
    BY <1>1, <2>1, OverIs
  <2>3. TypeOK'
    BY <1>1, <2>1, <2>2 DEF TypeOK
  <2>4. \A u \in Tabs : ~Newest(calls[c], u)
    BY <1>1 DEF Newest
  <2>. QED
    BY <1>1, <2>1, <2>3, <2>4, OverStep
<1>3. CASE calls[c].ok
  <2>. DEFINE s == [version |-> calls[c].version, text |-> calls[c].text]
  <2>1. /\ calls' = Reload(c)
        /\ saved' = [saved EXCEPT ![t] = @ \cup {s}]
        /\ field' = field \/ field' = [field EXCEPT ![t] = Blank]
    BY <1>3 DEF AnswerSave, AfterSave
  <2>2. calls' \in Seq(Call)
    BY <1>1, <2>1, ReloadIs
  <2>3. s \in [version : Nat, text : Texts]
    BY <1>1
  <2>4. s.version \in 1 .. Len(rows) /\ rows[s.version] = s.text
    BY <1>1, <1>3 DEF IInv, CallsOK, CallOK, AnswerOK, Now
  <2>. HIDE DEF s, t
  <2>5. /\ saved' \in [Tabs -> SUBSET [version : Nat, text : Texts]]
        /\ saved'[t] = saved[t] \cup {s}
        /\ \A u \in Tabs : u # t => saved'[u] = saved[u]
    BY <1>1, <2>1, <2>3 DEF TypeOK
  <2>6. field' \in [Tabs -> Texts]
    BY <1>1, <2>1 DEF TypeOK
  <2>7. TypeOK'
    BY <1>1, <2>2, <2>5, <2>6 DEF TypeOK
  <2>8. SavedOK'
    BY <2>4, <2>5 DEF IInv, SavedOK
  <2>. QED
    BY <1>1, <2>1, <2>5, <2>7, <2>8, ReloadStep DEF t
<1>. QED
  BY <1>2, <1>3

LEMMA AnswerChangeStep ==
  ASSUME IInv, NEW c \in 1 .. Len(calls), AnswerChange(c),
         UNCHANGED <<kind, page, st, ptr, rows, casReq, clicks, others>>
  PROVE  IInv'
<1>1. TypeOK /\ SavedOK /\ calls' = Reload(c) /\ UNCHANGED <<field, view, shown, timers, saved>>
  BY DEF IInv, AnswerChange
<1>2. calls' \in Seq(Call)
  BY <1>1, ReloadIs
<1>3. TypeOK'
  BY <1>1, <1>2 DEF TypeOK
<1>4. SavedOK'
  BY <1>1 DEF SavedOK
<1>. QED
  BY <1>1, <1>3, <1>4, ReloadStep

LEMMA AnswerStep ==
  ASSUME IInv, NEW c \in 1 .. Len(calls), Answer(c)
  PROVE  IInv'
<1>1. CASE AnswerLoad(c) /\ Shows(c)
  BY <1>1, AnswerNewestStep DEF Answer
<1>2. CASE AnswerLoad(c) /\ ~Shows(c)
  BY <1>2, AnswerStaleStep DEF Answer
<1>. QED
  BY <1>1, <1>2, AnswerSaveStep, AnswerChangeStep, AnswerRevealStep DEF Answer

-------------------------------------------------------------------------------
\* The invariant.

\* The first list each page loads is the only one on its way to it.
LEMMA InitLoads ==
  ASSUME NEW s \in [1 .. Cardinality(Tabs) -> Tabs], {s[i] : i \in DOMAIN s} = Tabs,
         NEW i \in DOMAIN s, NEW j \in DOMAIN s, s[i] = s[j]
  PROVE  i = j
<1>. DEFINE n == Cardinality(Tabs)
<1>1. n \in Nat
  BY TabsAssumption, FS_CardinalityType
<1>2. s \in Surjection(1 .. n, Tabs)
  BY DEF Surjection
<1>. HIDE DEF n
<1>3. IsFiniteSet(1 .. n) /\ Cardinality(1 .. n) = n
  <2>1. IsFiniteSet(1 .. n) /\ Cardinality(1 .. n) = IF 1 > n THEN 0 ELSE n - 1 + 1
    <3>1. 1 \in Int /\ n \in Int
      BY <1>1
    <3>. QED
      BY <3>1, FS_Interval, Zenon
  <2>. QED
    BY <1>1, <2>1
<1>4. s \in Injection(1 .. n, Tabs)
  BY <1>2, <1>3, FS_Surjection DEF n
<1>. QED
  BY <1>4 DEF Injection, IsInjective, n

LEMMA InitInv == Init => IInv
<1>. SUFFICES ASSUME Init PROVE IInv
  OBVIOUS
<1>1. PICK s \in [1 .. Cardinality(Tabs) -> Tabs] :
        {s[i] : i \in DOMAIN s} = Tabs /\ calls = [i \in DOMAIN s |-> Load(s[i])]
  BY DEF Init
<1>2. Cardinality(Tabs) \in Nat /\ Blank \in Texts /\ Values \subseteq Texts
  BY TabsAssumption, FS_CardinalityType DEF Texts
<1>3. ASSUME NEW i \in DOMAIN s
      PROVE  /\ Load(s[i]) \in Call /\ Load(s[i]).stage = "sent"
             /\ Newest(Load(s[i]), s[i]) /\ Load(s[i]).tab = s[i]
  BY <1>2, NewCallIs DEF Load, Newest
<1>4. /\ calls \in Seq(Call) /\ Len(calls) = Cardinality(Tabs)
      /\ \A i \in 1 .. Len(calls) :
           /\ i \in DOMAIN s /\ calls[i].stage = "sent" /\ calls[i].tab = s[i]
           /\ Newest(calls[i], s[i])
  <2>1. calls \in [1 .. Cardinality(Tabs) -> Call]
    BY <1>1, <1>3
  <2>2. calls \in Seq(Call) /\ Len(calls) = Cardinality(Tabs)
    BY <1>2, <2>1, SeqDef, LenProperties
  <2>. QED
    BY <1>1, <1>3, <2>2
<1>5. /\ st \in {"absent", "live"} /\ rows \in Seq(Texts) /\ ptr \in Nat
      /\ StoreOK
  <2>1. CASE st = "absent" /\ ptr = 0 /\ rows = <<>>
    BY <2>1 DEF StoreOK
  <2>2. CASE st = "live" /\ ptr = 1 /\ \E v \in Values : rows = <<v>>
    BY <1>2, <2>2 DEF StoreOK
  <2>. QED
    BY <2>1, <2>2 DEF Init
<1>6. TypeOK
  <2>1. field \in [Tabs -> Texts] /\ view \in [Tabs -> Snapshot \cup {None, Failed}]
    BY <1>2 DEF Init
  <2>2. shown \in [Tabs -> Texts \cup {None}] /\ timers \in [Tabs -> Nat]
    BY DEF Init
  <2>3. saved \in [Tabs -> SUBSET [version : Nat, text : Texts]]
    BY DEF Init
  <2>4. clicks \in 0 .. MaxClicks /\ others \in 0 .. MaxOther
    <3>1. clicks = 0 /\ others = 0
      BY DEF Init
    <3>. QED
      BY <3>1, BoundsAssumption
  <2>6. casReq \in BOOLEAN
    BY DEF Init
  <2>5. kind \in {"secret", "config"} /\ page \in [Tabs -> {"list", "detail"}]
    BY DEF Init
  <2>. QED
    BY <1>4, <1>5, <2>1, <2>2, <2>3, <2>4, <2>5, <2>6 DEF TypeOK
<1>7. SavedOK /\ ViewsOK
  BY DEF Init, SavedOK, ViewsOK, Loaded
<1>8. CallsOK
  BY <1>4 DEF CallsOK, CallOK, AnswerOK
<1>9. OneNewest
  <2>. SUFFICES ASSUME NEW t \in Tabs, NEW c \in 1 .. Len(calls), NEW d \in 1 .. Len(calls),
                       Newest(calls[c], t), Newest(calls[d], t)
                PROVE  c = d
    BY DEF OneNewest
  <2>1. c \in DOMAIN s /\ d \in DOMAIN s /\ s[c] = t /\ s[d] = t
    BY <1>4 DEF Newest
  <2>2. {s[i] : i \in DOMAIN s} = Tabs
    BY <1>1
  <2>. QED
    BY <2>1, <2>2, InitLoads
<1>10. ListsOK
  BY DEF Init, ListsOK, Lists
<1>. QED
  BY <1>5, <1>6, <1>7, <1>8, <1>9, <1>10 DEF IInv

LEMMA StepInv == IInv /\ [Next]_vars => IInv'
<1>. SUFFICES ASSUME IInv, [Next]_vars PROVE IInv'
  OBVIOUS
<1>1. CASE UNCHANGED vars
  <2>1. TypeOK /\ UNCHANGED <<st, ptr, rows, casReq, view, calls, saved>>
    BY <1>1 DEF IInv, vars
  <2>2. TypeOK'
    BY <1>1, <2>1 DEF TypeOK, vars
  <2>3. StoreOK' /\ StoreGrows
    BY <2>1, StoreStays DEF entry
  <2>. QED
    BY <2>1, <2>2, <2>3, SameCalls, Unnoticed
<1>. QED
  BY <1>1, ElsewhereStep, ServerStep, AnswerStep, UserStep, PageStep DEF Next, Quiescent

\* No interleaving of the tabs' calls and of other clients breaks the invariant.
LEMMA Invariance == Spec => []IInv
BY InitInv, StepInv, PTL DEF Spec

\* Every call, list and row has its type: no answer is read that its call does not carry.
THEOREM TypeCorrect == Spec => []TypeOK
<1>1. IInv => TypeOK
  BY DEF IInv
<1>. QED
  BY <1>1, Invariance, PTL

\* A user sees what he has saved, with any number of tabs and calls under way.
THEOREM OwnSavesAlwaysListed == Spec => []OwnSavesAreListed
<1>1. ASSUME IInv PROVE OwnSavesAreListed
  <2>. SUFFICES ASSUME NEW t \in Tabs, ~Loading(t), Loaded(t)
                PROVE  Covers(view[t], saved[t])
    BY DEF OwnSavesAreListed, Covers
  <2>1. ~Coming(t)
    BY DEF Coming, Loading, Newest
  <2>. QED
    BY <1>1, <2>1 DEF IInv, ListsOK, Lists, Loaded
<1>. QED
  BY <1>1, Invariance, PTL

\* A list follows the one it replaces.
LEMMA ViewsGrow ==
  ASSUME IInv, [Next]_vars, NEW t \in Tabs, Loaded(t), Loaded(t)'
  PROVE  view'[t] = view[t] \/ Grew(view[t], view'[t])
<1>1. CASE \E c \in 1 .. Len(calls) : calls[c].stage = "served" /\ AnswerLoad(c) /\ Shows(c)
  <2>1. PICK c \in 1 .. Len(calls) : calls[c].stage = "served" /\ AnswerLoad(c) /\ Shows(c)
    BY <1>1
  <2>2. CASE calls[c].tab # t
    BY <2>1, <2>2 DEF AnswerLoad, IInv, TypeOK
  <2>3. CASE calls[c].tab = t
    <3>1. view'[t] = IF calls[c].ok THEN calls[c].list ELSE Failed
      BY <2>1, <2>3 DEF AnswerLoad, IInv, TypeOK
    <3>2. calls[c].ok /\ view'[t] = calls[c].list
      BY <3>1 DEF Loaded
    <3>3. view[t] \notin {None, Failed}
      BY DEF Loaded
    <3>4. AnswerOK(calls[c], view[t], saved[t], Now)
      BY <2>3 DEF IInv, CallsOK, CallOK
    <3>. QED
      BY <2>1, <3>2, <3>3, <3>4 DEF AnswerOK, AnswerLoad, Shows
  <2>. QED
    BY <2>2, <2>3
<1>2. CASE UNCHANGED view
  BY <1>2
<1>3. \/ UNCHANGED view
      \/ \E c \in 1 .. Len(calls) : calls[c].stage = "served" /\ AnswerLoad(c) /\ Shows(c)
  <2>1. ASSUME NEW c \in 1 .. Len(calls), Answer(c)
        PROVE  UNCHANGED view \/ (calls[c].stage = "served" /\ AnswerLoad(c) /\ Shows(c))
    BY <2>1 DEF Answer, AnswerSave, AnswerChange, AnswerReveal, AnswerLoad
  <2>2. ASSUME NEW u, TypeText(u) \/ Save(u) \/ RollbackTo(u) \/ DeleteEntry(u) \/ Reveal(u) \/ Mask(u)
        PROVE  UNCHANGED view
    BY <2>2 DEF TypeText, Save, RollbackTo, DeleteEntry, Reveal, Mask, Click
  <2>3. ASSUME NEW c, Serve(c) \/ Lose(c) PROVE UNCHANGED view
    BY <2>3 DEF Serve, Lose
  <2>. QED
    BY <2>1, <2>2, <2>3 DEF Next, Elsewhere, Quiescent, vars
<1>. QED
  BY <1>1, <1>2, <1>3

\* What grew begins with what it was.
LEMMA GrewBegins ==
  ASSUME NEW old \in Snapshot, NEW new \in Snapshot, Grew(old, new)
  PROVE  SubSeq(new.rows, 1, Len(old.rows)) = old.rows
<1>. DEFINE a == old.rows
            b == new.rows
            p == SubSeq(b, 1, Len(a))
<1>1. a \in Seq(Texts) /\ b \in Seq(Texts) /\ Len(a) \in Nat /\ Len(b) \in Nat
  BY LenProperties DEF Snapshot
<1>2. Len(a) <= Len(b) /\ \A i \in 1 .. Len(a) : b[i] = a[i]
  BY DEF Grew
<1>. HIDE DEF a, b
<1>3. p \in Seq(Texts) /\ Len(p) = Len(a) /\ \A i \in 1 .. Len(a) : p[i] = b[i]
  BY <1>1, <1>2, SubSeqProperties
<1>. HIDE DEF p
<1>4. p = a
  BY <1>1, <1>2, <1>3, SeqEqual
<1>. QED
  BY <1>4 DEF p, a, b

\* A tab never goes back to an older list, whatever order the answers come in.
THEOREM ViewsNeverGoBack == Spec => ViewNeverGoesBack
<1>1. ASSUME IInv, TypeOK', [Next]_vars, NEW t \in Tabs, Loaded(t), Loaded(t)'
      PROVE  /\ Len(view[t].rows) <= Len(view'[t].rows)
             /\ SubSeq(view'[t].rows, 1, Len(view[t].rows)) = view[t].rows
             /\ view'[t].live => view[t].live \/ view[t].rows = <<>>
  <2>1. view[t] \in Snapshot /\ view'[t] \in Snapshot
    BY <1>1 DEF IInv, TypeOK, Loaded
  <2>2. Grew(view[t], view'[t])
    <3>1. Len(view[t].rows) \in Nat
      BY <2>1, LenProperties DEF Snapshot
    <3>. QED
      BY <1>1, <3>1, ViewsGrow DEF Grew
  <2>. QED
    BY <2>1, <2>2, GrewBegins DEF Grew
<1>2. IInv /\ IInv' /\ [Next]_vars
        => [\A t \in Tabs : Loaded(t) /\ Loaded(t)' =>
              /\ Len(view[t].rows) <= Len(view'[t].rows)
              /\ SubSeq(view'[t].rows, 1, Len(view[t].rows)) = view[t].rows
              /\ view'[t].live => view[t].live \/ view[t].rows = <<>>]_vars
  BY <1>1 DEF IInv
<1>. QED
  BY <1>2, Invariance, PTL DEF Spec, ViewNeverGoesBack

-------------------------------------------------------------------------------
\* Plaintext.

ShownOK == \A t \in Tabs : shown[t] # None => timers[t] > 0

LEMMA ShownStep ==
  ASSUME IInv, ShownOK, [Next]_vars
  PROVE  ShownOK'
<1>1. shown \in [Tabs -> Texts \cup {None}] /\ timers \in [Tabs -> Nat]
  BY DEF IInv, TypeOK
<1>2. CASE UNCHANGED <<shown, timers>>
  BY <1>2 DEF ShownOK
<1>3. ASSUME NEW u \in Tabs, Mask(u) PROVE ShownOK'
  <2>1. shown' = [shown EXCEPT ![u] = None] /\ timers' = [timers EXCEPT ![u] = @ - 1]
    BY <1>3 DEF Mask
  <2>. QED
    BY <1>1, <2>1 DEF ShownOK
<1>4. ASSUME NEW c \in 1 .. Len(calls), AnswerReveal(c), calls[c].ok PROVE ShownOK'
  <2>. DEFINE u == calls[c].tab
  <2>1. /\ u \in Tabs
        /\ shown' = [shown EXCEPT ![u] = calls[c].text] /\ timers' = [timers EXCEPT ![u] = @ + 1]
    BY <1>4, CallsAre DEF IInv, AnswerReveal, Call
  <2>. HIDE DEF u
  <2>. QED
    BY <1>1, <2>1 DEF ShownOK
<1>5. ASSUME NEW c \in 1 .. Len(calls), Answer(c) PROVE ShownOK'
  <2>1. UNCHANGED <<shown, timers>> \/ (AnswerReveal(c) /\ calls[c].ok)
    BY <1>5 DEF Answer, AnswerSave, AnswerChange, AnswerReveal, AnswerLoad
  <2>. QED
    BY <1>2, <1>4, <2>1
<1>6. ASSUME NEW u, TypeText(u) \/ Save(u) \/ RollbackTo(u) \/ DeleteEntry(u) \/ Reveal(u)
      PROVE  UNCHANGED <<shown, timers>>
  BY <1>6 DEF TypeText, Save, RollbackTo, DeleteEntry, Reveal, Click
<1>7. ASSUME NEW c, Serve(c) \/ Lose(c) PROVE UNCHANGED <<shown, timers>>
  BY <1>7 DEF Serve, Lose
<1>8. Elsewhere \/ Quiescent \/ UNCHANGED vars => UNCHANGED <<shown, timers>>
  BY DEF Elsewhere, Quiescent, vars
<1>. QED
  BY <1>2, <1>3, <1>5, <1>6, <1>7, <1>8 DEF Next

\* A tab that shows a plaintext always has a timer running that will mask it, however many
\* reveals are answered late or masked early (secret_detail.rs): this is what makes
\* RevealedIsMasked hold once timers fire.
THEOREM ShownIsTimed == Spec => [](\A t \in Tabs : shown[t] # None => timers[t] > 0)
<1>1. Init => ShownOK
  BY DEF Init, ShownOK
<1>2. IInv /\ ShownOK /\ [Next]_vars => ShownOK'
  BY ShownStep
<1>3. ShownOK => \A t \in Tabs : shown[t] # None => timers[t] > 0
  BY DEF ShownOK
<1>. QED
  BY <1>1, <1>2, <1>3, Invariance, PTL DEF Spec
===============================================================================
