----------------------------- MODULE AuthSession -----------------------------
(***************************************************************************)
(* Signing in and out of the dashboard: the session cookie, the two        *)
(* handlers behind POST and DELETE /v1/auth/session, and the limiter both  *)
(* stand behind.                                                           *)
(*                                                                         *)
(* A host is a browser with one address; its tabs share the cookie and,    *)
(* for the limiter, the address.  A call is five steps: the click, the     *)
(* limiter, the handler, and the answer reaching the browser, any of which *)
(* the network may lose.  Time is a counter: the limiter reads it once per *)
(* call, under its mutex.                                                  *)
(***************************************************************************)
EXTENDS Integers, Sequences, FiniteSets

CONSTANTS
  Hosts,      \* browsers, each with an IP address
  Tabs,       \* open tabs
  Home,       \* the host of each tab
  Tokens,     \* token values users may type
  Max,        \* AUTH_RATE_MAX
  Window,     \* AUTH_RATE_WINDOW
  MapCap,     \* addresses the map may hold before it is cleared (10 000)
  MaxCalls,   \* bound: calls made
  Horizon,    \* bound: the last instant
  None        \* no token

ASSUME HomeAssumption   == Home \in [Tabs -> Hosts]
ASSUME LimitAssumption  == Max \in Nat \ {0} /\ Window \in Nat \ {0}
ASSUME BoundsAssumption == MapCap \in Nat /\ MaxCalls \in Nat /\ Horizon \in Nat
ASSUME NoneAssumption   == None \notin Tokens

VARIABLES
  now,       \* Instant::now()
  hits,      \* the limiter's map: address -> the window's start and count
  admitted,  \* history: when each address was let through since the map was last cleared
  live,      \* tokens that are neither revoked nor expired
  granted,   \* history: tokens a sign-in of each host found live
  cookie,    \* soma_session, by host
  page,      \* what each tab shows
  call,      \* each tab's call to /v1/auth/session
  calls,     \* calls made so far
  left       \* history: tabs whose last sign-out was answered, no sign-in of the host since

vars == <<now, hits, admitted, live, granted, cookie, page, call, calls, left>>

\* "failed": 401, 500, or no answer at all.  The browser treats them alike.
Statuses == {"ok", "too_many", "failed"}
Call == [stage: {"none", "sent", "admitted", "answered"}, kind: {"in", "out"},
         token: Tokens \cup {None}, status: Statuses]
NoCall == [stage |-> "none", kind |-> "in", token |-> None, status |-> "failed"]
Entry == [start: Nat, count: 1 .. Max]

TypeOK ==
  /\ now \in Nat
  /\ DOMAIN hits \subseteq Hosts
  /\ \A h \in DOMAIN hits : hits[h] \in Entry
  /\ admitted \in [Hosts -> Seq(Nat)]
  /\ live \subseteq Tokens
  /\ granted \in [Hosts -> SUBSET Tokens]
  /\ cookie \in [Hosts -> Tokens \cup {None}]
  /\ page \in [Tabs -> {"login", "app"}]
  /\ call \in [Tabs -> Call]
  /\ calls \in Nat
  /\ left \subseteq Tabs

Init ==
  /\ now = 0
  /\ hits = [h \in {} |-> 0]
  /\ admitted = [h \in Hosts |-> <<>>]
  /\ live = Tokens
  /\ granted = [h \in Hosts |-> {}]
  /\ cookie = [h \in Hosts |-> None]
  /\ page = [t \in Tabs |-> "login"]
  /\ call = [t \in Tabs |-> NoCall]
  /\ calls = 0
  /\ left = {}

-------------------------------------------------------------------------------
\* RateLimiter::check.  One critical section: clear a map that grew too large, look the
\* address up (a new one starts its window now, at zero), then decide.

Kept == IF Cardinality(DOMAIN hits) > MapCap THEN [h \in {} |-> 0] ELSE hits
EntryOf(h) == IF h \in DOMAIN Kept THEN Kept[h] ELSE [start |-> now, count |-> 0]

\* Faulty variant for mutation testing: one budget for all addresses.
Allowed_Shared(h) ==
  \/ now - EntryOf(h).start >= Window
  \/ \A g \in DOMAIN Kept : Kept[g].count < Max

Allowed(h) == now - EntryOf(h).start >= Window \/ EntryOf(h).count < Max

\* Faulty variant for mutation testing: the count is set where it should be raised.
NextEntry_NotCounted(h) ==
  IF now - EntryOf(h).start >= Window THEN [start |-> now, count |-> 1]
  ELSE [EntryOf(h) EXCEPT !.count = 1]

NextEntry(h) ==
  IF now - EntryOf(h).start >= Window THEN [start |-> now, count |-> 1]
  ELSE [EntryOf(h) EXCEPT !.count = @ + 1]

Put(f, h, v) == [x \in DOMAIN f \cup {h} |-> IF x = h THEN v ELSE f[x]]

\* The histories since the map was last cleared.
Remembered == IF Cardinality(DOMAIN hits) > MapCap THEN [h \in Hosts |-> <<>>] ELSE admitted

\* The entry a refused call leaves behind is the one it found.
Check(h) ==
  IF Allowed(h)
  THEN /\ hits' = Put(Kept, h, NextEntry(h))
       /\ admitted' = [Remembered EXCEPT ![h] = Append(@, now)]
  ELSE /\ hits' = Kept
       /\ admitted' = Remembered

Tick ==
  /\ now < Horizon
  /\ now' = now + 1
  /\ UNCHANGED <<hits, admitted, live, granted, cookie, page, call, calls, left>>

-------------------------------------------------------------------------------
\* The buttons.  "Sign in" is disabled while its call is out and for an empty field.

Send(t, kind, token) ==
  /\ call[t].stage = "none"
  /\ calls < MaxCalls
  /\ calls' = calls + 1
  /\ call' = [call EXCEPT ![t] = [stage |-> "sent", kind |-> kind, token |-> token,
                                  status |-> "failed"]]
  /\ UNCHANGED <<now, hits, admitted, live, granted, cookie, page, left>>

OnSubmit(t) == page[t] = "login" /\ \E k \in Tokens : Send(t, "in", k)
SignOut(t)  == page[t] = "app" /\ Send(t, "out", None)

\* rate_limit_middleware: a refused call is answered 429 and its handler never runs.
Limit(t) ==
  /\ call[t].stage = "sent"
  /\ Check(Home[t])
  /\ call' = [call EXCEPT ![t] =
       IF Allowed(Home[t]) THEN [@ EXCEPT !.stage = "admitted"]
       ELSE [@ EXCEPT !.stage = "answered", !.status = "too_many"]]
  /\ UNCHANGED <<now, live, granted, cookie, page, calls, left>>

\* login: find_token_by_plaintext finds the token, finds nothing, or fails.
Login(t) ==
  /\ call[t].stage = "admitted" /\ call[t].kind = "in"
  /\ \/ /\ call[t].token \in live
        /\ call' = [call EXCEPT ![t].stage = "answered", ![t].status = "ok"]
        /\ granted' = [granted EXCEPT ![Home[t]] = @ \cup {call[t].token}]
     \/ /\ call' = [call EXCEPT ![t].stage = "answered", ![t].status = "failed"]
        /\ UNCHANGED granted
  /\ UNCHANGED <<now, hits, admitted, live, cookie, page, calls, left>>

\* logout: no look-up, always 200.
Logout(t) ==
  /\ call[t].stage = "admitted" /\ call[t].kind = "out"
  /\ call' = [call EXCEPT ![t].stage = "answered", ![t].status = "ok"]
  /\ UNCHANGED <<now, hits, admitted, live, granted, cookie, page, calls, left>>

\* The connection breaks: the call never arrives, or its answer does not.
Lose(t) ==
  /\ call[t].stage # "none"
  /\ call' = [call EXCEPT ![t].stage = "answered", ![t].status = "failed"]
  /\ UNCHANGED <<now, hits, admitted, live, granted, cookie, page, calls, left>>

\* Faulty variant for mutation testing: logout's cookie has another Path, so the browser
\* keeps the session cookie beside it.
CookieAfter_OtherPath(t) ==
  IF call[t].status = "ok" /\ call[t].kind = "in" THEN call[t].token ELSE cookie[Home[t]]

\* What Set-Cookie does.  Only a 200 carries one: Max-Age=0 from logout.
CookieAfter(t) ==
  IF call[t].status # "ok" THEN cookie[Home[t]]
  ELSE IF call[t].kind = "in" THEN call[t].token ELSE None

\* The answer.  A sign-in moves on when it is 200 and shows the error and the button
\* otherwise; "Sign out" goes to /login whatever the answer was.
Answer(t) ==
  /\ call[t].stage = "answered"
  /\ call' = [call EXCEPT ![t] = NoCall]
  /\ cookie' = [cookie EXCEPT ![Home[t]] = CookieAfter(t)]
  /\ page' = [page EXCEPT ![t] =
       IF call[t].kind = "in" /\ call[t].status = "ok" THEN "app" ELSE "login"]
  /\ left' = IF call[t].status # "ok" THEN left \ {t}
             ELSE IF call[t].kind = "out" THEN left \cup {t}
             ELSE {u \in left : Home[u] # Home[t]}
  /\ UNCHANGED <<now, hits, admitted, live, granted, calls>>

\* A page of the dashboard is opened or reloaded: auth_middleware looks the cookie's token
\* up, and handle_response goes to /login on a 401.  The login page asks for no session.
Visit(t) ==
  /\ call[t].stage = "none"
  /\ page' = [page EXCEPT ![t] = IF cookie[Home[t]] \in live THEN "app" ELSE "login"]
  /\ UNCHANGED <<now, hits, admitted, live, granted, cookie, call, calls, left>>

\* An administrator revokes a token, or it expires.
Revoke(k) ==
  /\ k \in live
  /\ live' = live \ {k}
  /\ UNCHANGED <<now, hits, admitted, granted, cookie, page, call, calls, left>>

\* Bounded models end: the clock has run out and every call is over.
Quiescent ==
  /\ now = Horizon /\ calls = MaxCalls
  /\ \A t \in Tabs : call[t].stage = "none"
  /\ UNCHANGED vars

Next ==
  \/ Tick \/ Quiescent
  \/ \E k \in Tokens : Revoke(k)
  \/ \E t \in Tabs :
       \/ OnSubmit(t) \/ SignOut(t) \/ Limit(t) \/ Login(t) \/ Logout(t)
       \/ Lose(t) \/ Answer(t) \/ Visit(t)

Spec == Init /\ [][Next]_vars

-------------------------------------------------------------------------------
\* What is checked.

\* The fixed window of RateLimiter::check starts with a request, so an address may spend
\* one budget at the end of a window and the next one right after it.  It never gets more:
\* 2 Max requests of one address let through in a row span at least a whole window, as
\* long as the map is not cleared in between.
BurstBound ==
  \A h \in Hosts : \A i \in 1 .. Len(admitted[h]) :
    i + 2 * Max - 1 <= Len(admitted[h]) =>
      admitted[h][i + 2 * Max - 1] - admitted[h][i] >= Window

\* A call is answered 429 only to an address that has itself been let through Max times
\* within the last window; other addresses and the clearing of the map never cost an
\* address its budget.
RefusedOnlyWhenSpent ==
  [][\A t \in Tabs :
       (call[t].stage = "sent" /\ call'[t].stage = "answered"
          /\ call'[t].status = "too_many") =>
         LET mine == admitted'[Home[t]] IN
           /\ Len(mine) >= Max
           /\ now - mine[Len(mine) - Max + 1] < Window]_vars

\* A browser never holds a cookie for a token no sign-in of its own has found live.
CookieWasGranted == \A h \in Hosts : cookie[h] # None => cookie[h] \in granted[h]

\* After a sign-out that was answered with 200 the cookie is gone until a sign-in of that host
\* is answered with 200, whatever its other tabs do or had under way: calls refused, lost or
\* failed, older sign-outs, visits and revocations.  (A sign-in sent before and answered after
\* does bring a session back; a sign-out that is refused or lost is not seen to have failed.)
SignOutSticks == \A t \in left : cookie[Home[t]] = None

===============================================================================
