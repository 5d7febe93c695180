-------------------------------- MODULE Console --------------------------------
(***************************************************************************)
(* The dashboard's pages about one entry, a secret or a config key: the    *)
(* list of entries and the entry's own page, in several tabs, beside       *)
(* clients that are no dashboards.                                         *)
(*                                                                         *)
(* Every button spawns a task that sends one call and goes on when it is   *)
(* answered; no button is disabled meanwhile, so the calls of a tab        *)
(* overtake each other.  A page's list is a resource: each reload sends a  *)
(* new load, and only the answer to the newest one is shown.  The store is *)
(* the versioned entry that VersionedSecret specifies.                     *)
(***************************************************************************)
EXTENDS Naturals, SequencesExt

CONSTANTS
  Tabs,       \* open pages
  Values,     \* values that are stored
  Blank,      \* the empty text
  MaxClicks,  \* bound: calls the users' clicks send
  MaxOther,   \* bound: calls of clients that are no dashboards
  None,       \* nothing
  Failed      \* the answer of a load that failed

ASSUME BoundsAssumption == MaxClicks \in Nat /\ MaxOther \in Nat
ASSUME TabsAssumption   == IsFiniteSet(Tabs)
ASSUME NamesAssumption  == Blank \notin Values /\ None \notin Values \cup {Blank}

VARIABLES
  kind,    \* what the pages are about: "secret" or "config"
  page,    \* each tab's page: "list" (secrets.rs, config.rs) or "detail"
  st,      \* the entry in the store: "absent", "live" or "deleted",
  ptr,     \* its current_version,
  rows,    \* and the values of its versions,
  casReq,  \* cas_required, which no page can meet
  field,   \* each tab's input
  view,    \* what each tab's resource holds
  shown,   \* the plaintext each tab shows, or None
  timers,  \* 30 second timers each tab waits for
  calls,   \* the calls under way, in the order they were sent
  saved,   \* history: the versions each tab's answered saves wrote, with their texts
  clicks,  \* calls sent by clicks so far
  others   \* calls of other clients so far

entry == <<st, ptr, rows, casReq>>
vars == <<kind, page, st, ptr, rows, casReq, field, view, shown, timers, calls, saved, clicks, others>>

Texts == Values \cup {Blank}

\* What a load returns: the rows of the entry's versions and its current_version, of which
\* the list of entries only shows the latter.
Snapshot == [rows: Seq(Texts), ptr: Nat, live: BOOLEAN]
\* text: what is saved, or what a reveal is answered; version: what is rolled back to, or
\* the version a save is answered; list: what a load is answered; stale: a newer load of the
\* tab was sent.
Call == [tab: Tabs, op: {"load", "save", "rollback", "delete", "reveal"},
         text: Texts, version: Nat, stage: {"sent", "served"},
         ok: BOOLEAN, list: Snapshot \cup {None}, stale: BOOLEAN]

\* The store: each call it serves is one step of the versioned entry.
Entry == INSTANCE VersionedSecret WITH
  Calls <- Texts, Args <- Nat, Modes <- {"plain"}, hist <- rows, log <- {}

TypeOK ==
  /\ kind \in {"secret", "config"}
  /\ page \in [Tabs -> {"list", "detail"}]
  /\ st \in {"absent", "live", "deleted"} /\ ptr \in Nat /\ rows \in Seq(Texts) /\ casReq \in BOOLEAN
  /\ field \in [Tabs -> Texts]
  /\ view \in [Tabs -> Snapshot \cup {None, Failed}]
  /\ shown \in [Tabs -> Texts \cup {None}]
  /\ timers \in [Tabs -> Nat]
  /\ calls \in Seq(Call)
  /\ saved \in [Tabs -> SUBSET [version: Nat, text: Texts]]
  /\ clicks \in 0 .. MaxClicks /\ others \in 0 .. MaxOther

NewCall(t, op, text, version) ==
  [tab |-> t, op |-> op, text |-> text, version |-> version, stage |-> "sent",
   ok |-> FALSE, list |-> None, stale |-> FALSE]
Load(t) == NewCall(t, "load", Blank, 0)

Init ==
  /\ kind \in {"secret", "config"}
  /\ page \in [Tabs -> {"list", "detail"}]
  /\ \/ st = "absent" /\ ptr = 0 /\ rows = <<>>
     \/ st = "live" /\ ptr = 1 /\ \E v \in Values : rows = <<v>>
  /\ casReq = FALSE
  /\ field = [t \in Tabs |-> Blank]
  /\ view = [t \in Tabs |-> None]
  /\ shown = [t \in Tabs |-> None]
  /\ timers = [t \in Tabs |-> 0]
  /\ \E s \in [1 .. Cardinality(Tabs) -> Tabs] :
       /\ {s[i] : i \in DOMAIN s} = Tabs
       /\ calls = [i \in DOMAIN s |-> Load(s[i])]
  /\ saved = [t \in Tabs |-> {}]
  /\ clicks = 0
  /\ others = 0

-------------------------------------------------------------------------------
\* The user.  A click sends its call with what the page holds at that moment.

Click(t, op, text, version) ==
  /\ clicks < MaxClicks
  /\ clicks' = clicks + 1
  /\ calls' = Append(calls, NewCall(t, op, text, version))
  /\ UNCHANGED <<kind, page, st, ptr, rows, casReq, field, view, shown, timers, saved, others>>

Loaded(t) == view[t] \notin {None, Failed}

TypeText(t) ==
  /\ clicks < MaxClicks
  /\ \E x \in Texts : x # field[t] /\ field' = [field EXCEPT ![t] = x]
  /\ UNCHANGED <<kind, page, st, ptr, rows, casReq, view, shown, timers, calls, saved, clicks, others>>

\* on_update refuses an empty text, on_save of a config key and on_create do not.
Save(t) ==
  /\ kind = "secret" /\ page[t] = "detail" => field[t] # Blank
  /\ Click(t, "save", field[t], 0)

\* The version's button and the dialog it opens; only secrets have one.  The version asked
\* for is the one the row showed, whatever is reloaded while the dialog is open.
RollbackTo(t) ==
  /\ kind = "secret" /\ page[t] = "detail" /\ Loaded(t)
  /\ \E v \in 1 .. Len(view[t].rows) : Click(t, "rollback", Blank, v)

DeleteEntry(t) == page[t] = "list" /\ Loaded(t) /\ view[t].live /\ Click(t, "delete", Blank, 0)

Reveal(t) ==
  /\ kind = "secret"
  /\ page[t] = "list" => Loaded(t) /\ view[t].live
  /\ Click(t, "reveal", Blank, 0)

-------------------------------------------------------------------------------
\* The server.

Served(c, call) == calls' = [calls EXCEPT ![c] = [call EXCEPT !.stage = "served"]]
Refused(c) == Served(c, [calls[c] EXCEPT !.ok = FALSE]) /\ UNCHANGED entry

Writable == st # "deleted" /\ ~casReq /\ ptr = Len(rows)

ServeSave(c) ==
  /\ calls[c].op = "save"
  /\ \/ /\ Entry!Write(calls[c].text, None, "plain")
        /\ Served(c, [calls[c] EXCEPT !.ok = TRUE, !.version = ptr + 1])
     \/ ~Writable /\ Refused(c)

ServeRollback(c) ==
  /\ calls[c].op = "rollback"
  /\ \/ /\ Entry!Rollback(Blank, calls[c].version, "plain")
        /\ Served(c, [calls[c] EXCEPT !.ok = TRUE])
     \/ (st # "live" \/ calls[c].version \notin 1 .. Len(rows)) /\ Refused(c)

ServeDelete(c) ==
  /\ calls[c].op = "delete"
  /\ \/ Entry!Delete(Blank, "plain") /\ Served(c, [calls[c] EXCEPT !.ok = TRUE])
     \/ st # "live" /\ Refused(c)

ServeReveal(c) ==
  /\ calls[c].op = "reveal"
  /\ IF st = "live" /\ ptr > 0
     THEN Served(c, [calls[c] EXCEPT !.ok = TRUE, !.text = rows[ptr]]) /\ UNCHANGED entry
     ELSE Refused(c)

\* list_secrets and list_config leave out what is not live; the versions of an entry that
\* is not live are a 404.  Versions come oldest first.
ServeLoad(c) ==
  /\ calls[c].op = "load"
  /\ IF page[calls[c].tab] = "detail" /\ st # "live" THEN Refused(c)
     ELSE /\ Served(c, [calls[c] EXCEPT !.ok = TRUE,
                          !.list = [rows |-> rows, ptr |-> ptr, live |-> st = "live"]])
          /\ UNCHANGED entry

Serve(c) ==
  /\ calls[c].stage = "sent"
  /\ ServeSave(c) \/ ServeRollback(c) \/ ServeDelete(c) \/ ServeReveal(c) \/ ServeLoad(c)
  /\ UNCHANGED <<kind, page, field, view, shown, timers, saved, clicks, others>>

\* The call, or its answer, is lost; or it is refused (401, 403, 429, 500).
Lose(c) ==
  /\ calls[c].stage = "sent" \/ calls[c].op \in {"save", "rollback", "delete"}
  /\ Refused(c)
  /\ UNCHANGED <<kind, page, field, view, shown, timers, saved, clicks, others>>

\* Another client writes, rolls back or deletes.
Elsewhere ==
  /\ others < MaxOther
  /\ others' = others + 1
  /\ \/ \E v \in Values : Entry!Write(v, None, "plain")
     \/ \E v \in 1 .. Len(rows) : Entry!Rollback(Blank, v, "plain")
     \/ Entry!Delete(Blank, "plain")
     \/ kind = "secret" /\ Entry!RequireCas
  /\ UNCHANGED <<kind, page, field, view, shown, timers, calls, saved, clicks>>

-------------------------------------------------------------------------------
\* The tasks, when their answer comes.

Over(c)   == RemoveAt(calls, c)
Overtaken(t) ==
  [d \in DOMAIN calls |-> [calls[d] EXCEPT !.stale = @ \/ (calls[d].tab = t /\ calls[d].op = "load")]]
Reload(c) == Append(RemoveAt(Overtaken(calls[c].tab), c), Load(calls[c].tab))

\* Faulty variant for mutation testing: the list is not loaded again.
AfterSave_NoReload(c) ==
  LET t == calls[c].tab IN
  IF calls[c].ok
  THEN /\ calls' = Over(c)
       /\ saved' = [saved EXCEPT ![t] = @ \cup {[version |-> calls[c].version, text |-> calls[c].text]}]
       /\ field' = [field EXCEPT ![t] = Blank]
  ELSE calls' = Over(c) /\ UNCHANGED <<field, saved>>

\* on_create, on_update and on_save.  Only the form of a config key's own page keeps its
\* text.  A failure shows its message and keeps the text.
AfterSave(c) ==
  LET t == calls[c].tab IN
  IF calls[c].ok
  THEN /\ calls' = Reload(c)
       /\ saved' = [saved EXCEPT ![t] = @ \cup {[version |-> calls[c].version, text |-> calls[c].text]}]
       /\ field' = IF kind = "config" /\ page[t] = "detail" THEN field
                   ELSE [field EXCEPT ![t] = Blank]
  ELSE calls' = Over(c) /\ UNCHANGED <<field, saved>>

AnswerSave(c) ==
  /\ calls[c].op = "save" /\ AfterSave(c)
  /\ UNCHANGED <<view, shown, timers>>

\* The dialogs ignore the answer ("let _ =") and reload.
AnswerChange(c) ==
  /\ calls[c].op \in {"rollback", "delete"}
  /\ calls' = Reload(c)
  /\ UNCHANGED <<field, view, shown, timers, saved>>

\* A failure changes nothing on the page.
AnswerReveal(c) ==
  /\ calls[c].op = "reveal"
  /\ calls' = Over(c)
  /\ IF calls[c].ok
     THEN /\ shown' = [shown EXCEPT ![calls[c].tab] = calls[c].text]
          /\ timers' = [timers EXCEPT ![calls[c].tab] = @ + 1]
     ELSE UNCHANGED <<shown, timers>>
  /\ UNCHANGED <<field, view, saved>>

\* Faulty variant for mutation testing: whatever load is answered is shown.
Shows_Any(c) == TRUE

\* LocalResource drops the answer of a load that a newer one has replaced.
Shows(c) == ~calls[c].stale

\* The config page's "Current value": the first row of the list it loaded.
LatestVal(snapshot) == IF snapshot.rows = <<>> THEN Blank ELSE Head(snapshot.rows)

\* A config key's page fills its empty form with that value.
Prefilled(c) ==
  LET t == calls[c].tab IN
  IF kind = "config" /\ page[t] = "detail" /\ calls[c].ok /\ field[t] = Blank
  THEN [field EXCEPT ![t] = LatestVal(calls[c].list)] ELSE field

AnswerLoad(c) ==
  /\ calls[c].op = "load"
  /\ calls' = Over(c)
  /\ IF Shows(c)
     THEN /\ view' = [view EXCEPT ![calls[c].tab] = IF calls[c].ok THEN calls[c].list ELSE Failed]
          /\ field' = Prefilled(c)
     ELSE UNCHANGED <<view, field>>
  /\ UNCHANGED <<shown, timers, saved>>

Answer(c) ==
  /\ calls[c].stage = "served"
  /\ AnswerSave(c) \/ AnswerChange(c) \/ AnswerReveal(c) \/ AnswerLoad(c)
  /\ UNCHANGED <<kind, page, st, ptr, rows, casReq, clicks, others>>

\* Faulty variant for mutation testing: a timer only masks when it is the last one.
Mask_Last(t) ==
  /\ timers[t] > 1
  /\ timers' = [timers EXCEPT ![t] = @ - 1]
  /\ UNCHANGED <<kind, page, st, ptr, rows, casReq, field, view, shown, calls, saved, clicks, others>>

\* 30 seconds after a reveal was answered, its task masks whatever is shown then.
Mask(t) ==
  /\ timers[t] > 0
  /\ timers' = [timers EXCEPT ![t] = @ - 1]
  /\ shown' = [shown EXCEPT ![t] = None]
  /\ UNCHANGED <<kind, page, st, ptr, rows, casReq, field, view, calls, saved, clicks, others>>

\* Bounded models end: nobody clicks any more and every call is over.
Quiescent ==
  /\ clicks = MaxClicks
  /\ calls = <<>>
  /\ UNCHANGED vars

Next ==
  \/ Elsewhere \/ Quiescent
  \/ \E c \in 1 .. Len(calls) : Serve(c) \/ Lose(c) \/ Answer(c)
  \/ \E t \in Tabs :
       TypeText(t) \/ Save(t) \/ RollbackTo(t) \/ DeleteEntry(t) \/ Reveal(t) \/ Mask(t)

Spec == Init /\ [][Next]_vars

\* Timers fire.
FairSpec == Spec /\ \A t \in Tabs : WF_vars(Mask(t))

-------------------------------------------------------------------------------
\* What is checked.

Loading(t) == \E c \in 1 .. Len(calls) : calls[c].tab = t /\ calls[c].op = "load"

\* A user sees what he has saved: once a save was answered with success and no load of the
\* tab is under way, the list the tab shows (unless its load failed) holds the version that
\* was saved.  The answer to an older load, overtaken by the save, never takes its place.
OwnSavesAreListed ==
  \A t \in Tabs : ~Loading(t) /\ Loaded(t) =>
    \A s \in saved[t] :
      s.version <= Len(view[t].rows) /\ view[t].rows[s.version] = s.text

\* A tab never goes back to an older list: what it listed it lists for ever, and an entry it
\* listed as gone does not come back.
ViewNeverGoesBack ==
  [][\A t \in Tabs : Loaded(t) /\ Loaded(t)' =>
       /\ Len(view[t].rows) <= Len(view'[t].rows)
       /\ SubSeq(view'[t].rows, 1, Len(view[t].rows)) = view[t].rows
       /\ view'[t].live => view[t].live \/ view[t].rows = <<>>]_vars

\* A revealed plaintext is masked again: late answers and several reveals of one tab, each
\* with a timer of its own, never leave one on the page.
RevealedIsMasked == \A t \in Tabs : shown[t] # None ~> shown[t] = None

-------------------------------------------------------------------------------
\* Statements of comments that the code does not keep.

\* "Show latest value from versions for copy." (config_detail.rs:177): what a config key's
\* page shows as its current value, copies, and fills its form with is the newest version of
\* the list it loaded.
LatestIsShown ==
  \A t \in Tabs :
    kind = "config" /\ page[t] = "detail" /\ Loaded(t) /\ view[t].rows # <<>>
      => LatestVal(view[t]) = view[t].rows[Len(view[t].rows)]
===============================================================================
