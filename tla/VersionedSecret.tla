--------------------------- MODULE VersionedSecret ----------------------------
(***************************************************************************)
(* What the store promises of one versioned entry, each call in one step:  *)
(* a history that only grows, a pointer into it, a lifecycle that ends     *)
(* with deletion, and a log that holds an event exactly for the audited    *)
(* calls that took effect.                                                 *)
(*                                                                         *)
(* A write is possible only while the pointer is at the newest version:    *)
(* that is the promise the code keeps, not the one its docs state.         *)
(***************************************************************************)
EXTENDS Naturals, Sequences

CONSTANTS
  Calls,   \* identities of calls
  Args,    \* version numbers a call may name
  Modes,   \* "audited" calls are logged, "plain" ones are not
  None     \* no expectation

VARIABLES
  st,      \* "absent", "live" or "deleted"
  ptr,     \* the version the entry points at; 0 before the first write
  casReq,  \* writes must name the pointer they expect
  hist,    \* the calls that wrote versions 1, 2, ...
  log      \* the audited calls that took effect

avars == <<st, ptr, casReq, hist, log>>

Init == st = "absent" /\ ptr = 0 /\ casReq = FALSE /\ hist = <<>> /\ log = {}

Log(id, kind, mode) ==
  log' = IF mode = "audited" THEN log \cup {[op |-> id, kind |-> kind]} ELSE log

\* Only the plain path creates an entry without writing its first version.
Create == st = "absent" /\ st' = "live" /\ UNCHANGED <<ptr, casReq, hist, log>>

Write(id, expected, mode) ==
  /\ st # "deleted"
  /\ IF expected = None THEN ~casReq ELSE expected = ptr
  /\ ptr = Len(hist)
  /\ st' = "live"
  /\ ptr' = ptr + 1
  /\ hist' = Append(hist, id)
  /\ Log(id, "put", mode)
  /\ UNCHANGED casReq

Rollback(id, v, mode) ==
  /\ st = "live" /\ v \in 1 .. Len(hist)
  /\ ptr' = v
  /\ Log(id, "rollback", mode)
  /\ UNCHANGED <<st, casReq, hist>>

Delete(id, mode) ==
  /\ st = "live" /\ st' = "deleted"
  /\ Log(id, "delete", mode)
  /\ UNCHANGED <<ptr, casReq, hist>>

Read(id) == st # "absent" /\ Log(id, "get", "audited") /\ UNCHANGED <<st, ptr, casReq, hist>>

RequireCas == st = "live" /\ casReq' = TRUE /\ UNCHANGED <<st, ptr, hist, log>>

Next ==
  \/ Create \/ RequireCas
  \/ \E id \in Calls, m \in Modes :
       \/ \E x \in Args \cup {None} : Write(id, x, m)
       \/ \E v \in Args : Rollback(id, v, m)
       \/ Delete(id, m)
  \/ \E id \in Calls : Read(id)

Spec == Init /\ [][Next]_avars
===============================================================================
