-------------------------------- MODULE Listing --------------------------------
(***************************************************************************)
(* A list that is read page by page while its rows come and go: projects,  *)
(* secrets, config keys, and the audit log.                                *)
(*                                                                         *)
(* A page is one statement: the rows after the cursor, in the order of     *)
(* their ids, up to the limit; a full page comes with the cursor of its    *)
(* last row.  Ids of table rows are random, so a new row may fall          *)
(* anywhere; the audit log only grows, at one end.                         *)
(*                                                                         *)
(* The client is a script that reads a table, one page after the other, or *)
(* the dashboard's audit page, whose two buttons send a load whenever they *)
(* are clicked, whatever is under way.                                     *)
(***************************************************************************)
EXTENDS Integers, Sequences, FiniteSets, SequencesExt

CONSTANTS
  LastKey,    \* bound: row ids are 1 .. LastKey
  Asked,      \* the limits clients ask for
  MaxPage,    \* MAX_PAGE_SIZE
  MaxClicks,  \* bound: clicks on the audit page
  MaxLosses   \* bound: loads that fail

ASSUME BoundsAssumption ==
  /\ LastKey \in Nat /\ MaxClicks \in Nat /\ MaxLosses \in Nat
  /\ MaxPage \in Nat \ {0}
  /\ Asked \subseteq Int

Keys  == 1 .. LastKey
Start == 0  \* no cursor: before every row

VARIABLES
  rows,     \* ids of the rows that are live
  used,     \* ids that were given
  client,   \* "script" or "page"
  limit,    \* rows per page
  times,    \* how often the client's list holds each row; 2 is twice or more
  cursor,   \* where the next page starts
  place,    \* of the client in the list: "unread" until an answer, then "inside" or at the "end"
  loads,    \* loads under way
  stayers,  \* history: rows there when the list was started and ever since
  clean,    \* history: no load of this list was sent while another was under way
  clicks, losses

vars == <<rows, used, client, limit, times, cursor, place, loads, stayers, clean, clicks, losses>>

Load == [append: BOOLEAN, from: Keys \cup {Start}, stage: {"sent", "served", "failed"},
         page: SUBSET Keys, next: Keys \cup {Start}, full: BOOLEAN]

TypeOK ==
  /\ rows \subseteq used /\ used \subseteq Keys
  /\ client \in {"script", "page"}
  /\ limit \in 1 .. MaxPage
  /\ times \in [Keys -> Nat]
  /\ cursor \in Keys \cup {Start}
  /\ place \in {"unread", "inside", "end"}
  /\ clean \in BOOLEAN
  /\ loads \in Seq(Load)
  /\ stayers \subseteq rows
  /\ clicks \in Nat /\ losses \in Nat

\* limit.clamp(1, MAX_PAGE_SIZE)
Clamped(n) == IF n < 1 THEN 1 ELSE IF n > MaxPage THEN MaxPage ELSE n

FirstLoad == [append |-> FALSE, from |-> Start, stage |-> "sent", page |-> {}, next |-> Start,
              full |-> FALSE]
NextLoad  == [FirstLoad EXCEPT !.append = TRUE, !.from = cursor]

Init ==
  /\ rows \in SUBSET Keys /\ used = rows
  /\ client \in {"script", "page"}
  /\ \E n \in Asked : limit = Clamped(n)
  /\ times = [k \in Keys |-> 0]
  /\ cursor = Start /\ place = "unread"
  /\ loads = <<FirstLoad>>
  /\ stayers = rows
  /\ clean = TRUE
  /\ clicks = 0 /\ losses = 0

-------------------------------------------------------------------------------
\* The table.

Insert(k) ==
  /\ k \notin used
  /\ client = "page" => \A q \in used : q < k
  /\ rows' = rows \cup {k} /\ used' = used \cup {k}
  /\ UNCHANGED <<client, limit, times, cursor, place, loads, stayers, clean, clicks, losses>>

Delete(k) ==
  /\ client = "script" /\ k \in rows
  /\ rows' = rows \ {k} /\ stayers' = stayers \ {k}
  /\ UNCHANGED <<used, client, limit, times, cursor, place, loads, clean, clicks, losses>>

\* Faulty variant for mutation testing: >= for > in the WHERE clause.
After_Inclusive(from) == {k \in rows : k >= from}

After(from) == {k \in rows : k > from}

\* Faulty variant for mutation testing: no ORDER BY.
IsPage_Unordered(P, from) ==
  /\ P \subseteq After(from)
  /\ Cardinality(P) <= limit
  /\ Cardinality(P) < limit => P = After(from)

\* WHERE id > cursor ORDER BY id LIMIT limit
IsPage(P, from) ==
  /\ P \subseteq After(from)
  /\ \A k \in P, q \in After(from) \ P : k < q
  /\ Cardinality(P) <= limit
  /\ Cardinality(P) < limit => P = After(from)

\* rows.len() == limit: there may be more.
IsFull(P) == Cardinality(P) = limit

\* next_cursor, if there is one: the id of the page's last row.
IsLast(k, P) == k \in P /\ \A q \in P : q <= k

Serve(i) ==
  /\ loads[i].stage = "sent"
  /\ \E P \in SUBSET rows :
       /\ IsPage(P, loads[i].from)
       /\ \E k \in Keys \cup {Start} :
            /\ IF IsFull(P) THEN IsLast(k, P) ELSE k = Start
            /\ loads' = [loads EXCEPT ![i].stage = "served", ![i].page = P,
                                      ![i].next = k, ![i].full = IsFull(P)]
  /\ UNCHANGED <<rows, used, client, limit, times, cursor, place, stayers, clean, clicks, losses>>

Lose(i) ==
  /\ loads[i].stage \in {"sent", "served"}
  /\ losses < MaxLosses /\ losses' = losses + 1
  /\ loads' = [loads EXCEPT ![i].stage = "failed"]
  /\ UNCHANGED <<rows, used, client, limit, times, cursor, place, stayers, clean, clicks>>

-------------------------------------------------------------------------------
\* The client.

Without(i) == RemoveAt(loads, i)

\* Bound: a row that is listed more than twice counts as listed twice.
Counted(n) == IF n > 2 THEN 2 ELSE n

\* The answer of a load: the first page replaces the list, a further one extends it.  A
\* failure is shown, and leaves list and cursor as they are.
Answer(i) ==
  /\ loads[i].stage \in {"served", "failed"}
  /\ loads' = Without(i)
  /\ IF loads[i].stage = "served"
     THEN /\ times' = [k \in Keys |->
                         Counted((IF loads[i].append THEN times[k] ELSE 0)
                                   + (IF k \in loads[i].page THEN 1 ELSE 0))]
          /\ cursor' = loads[i].next
          /\ place' = IF loads[i].full THEN "inside" ELSE "end"
     ELSE UNCHANGED <<times, cursor, place>>
  /\ UNCHANGED <<rows, used, client, limit, stayers, clean, clicks, losses>>

Send(load) ==
  /\ loads' = Append(loads, load)
  /\ clean' = (clean /\ loads = <<>>)

\* A script asks for the next page when it has the last one, and again after a failure.
AskNext ==
  /\ client = "script" /\ loads = <<>>
  /\ \/ place = "unread" /\ Send(FirstLoad)
     \/ place = "inside" /\ Send(NextLoad)
  /\ UNCHANGED <<rows, used, client, limit, times, cursor, place, stayers, clicks, losses>>

\* "Load more", which is there whenever the last answer had a next_cursor.
LoadMore ==
  /\ client = "page" /\ place = "inside" /\ clicks < MaxClicks
  /\ clicks' = clicks + 1
  /\ Send(NextLoad)
  /\ UNCHANGED <<rows, used, client, limit, times, cursor, place, stayers, losses>>

\* "Apply": the list is emptied and started again.
Apply ==
  /\ client = "page" /\ clicks < MaxClicks
  /\ clicks' = clicks + 1
  /\ times' = [k \in Keys |-> 0]
  /\ cursor' = Start /\ place' = "unread"
  /\ loads' = Append(loads, FirstLoad)
  /\ clean' = (loads = <<>>)
  /\ stayers' = rows
  /\ UNCHANGED <<rows, used, client, limit, losses>>

\* Nothing is under way and nobody asks for more.
Quiescent == loads = <<>> /\ UNCHANGED vars

Next ==
  \/ AskNext \/ LoadMore \/ Apply \/ Quiescent
  \/ \E k \in Keys : Insert(k) \/ Delete(k)
  \/ \E i \in 1 .. Len(loads) : Serve(i) \/ Lose(i) \/ Answer(i)

Spec == Init /\ [][Next]_vars

\* Loads are served and answered, and a script goes on.
FairSpec ==
  /\ Spec
  /\ WF_vars(AskNext)
  /\ WF_vars(\E i \in 1 .. Len(loads) : Serve(i) \/ Answer(i))

-------------------------------------------------------------------------------
\* What is checked.

\* A row is listed once, although rows are inserted before and after the cursor and pages
\* fail and are asked for again.  (Two clicks on "Load more" do list a page twice: the
\* button stays enabled while its load is under way.)
ListedOnce == clean => \A k \in Keys : times[k] <= 1

\* A row that is there from the start of the list to its end is in it: a short page, and only
\* a short page, means that no row is left, whatever limit was asked for.
StayersAreListed ==
  clean /\ place = "end" => \A k \in stayers : times[k] = 1

\* Following next_cursor leads to the end, over rows that keep being inserted and pages that
\* fail: every page, also one of a single row, ends farther than it began, and the page that
\* has nothing left carries no cursor (list_secrets, list_config, list_projects; that the
\* script follows the cursors is assumed).
ScriptEnds == client = "script" => <>[](loads = <<>> /\ place = "end")
===============================================================================
