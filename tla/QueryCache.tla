----------------------------- MODULE QueryCache -----------------------------
(***************************************************************************)
(* One cached query of the web client, as TanStack Query v5 keeps it for   *)
(* the options the client gives (app/providers.tsx: staleTime 30 s, retry  *)
(* 1, no refetch on focus).  The library is not in the repository: this is *)
(* what the pages rely on it for.                                          *)
(*                                                                         *)
(* data and reply hold the answer shown and the answer on its way back, as *)
(* a set of at most one element.                                           *)
(***************************************************************************)

Fetches == {"idle", "asked", "answered"}

Entry(A) == [data : SUBSET A, invalid : BOOLEAN, fetch : Fetches, reply : SUBSET A]

Absent == [data |-> {}, invalid |-> FALSE, fetch |-> "idle", reply |-> {}]

Asked(e)       == [e EXCEPT !.fetch = "asked", !.reply = {}]
Answered(e, a) == [e EXCEPT !.fetch = "answered", !.reply = {a}]

\* A successful fetch replaces the data and forgets that it had been invalidated.
Landed(e) == [data |-> e.reply, invalid |-> FALSE, fetch |-> "idle", reply |-> {}]

\* A failed one keeps what was there, flagged.
Failed(e) == [e EXCEPT !.fetch = "idle", !.reply = {}, !.invalid = TRUE]

\* A component that uses the query appears: asked for unless it is there, valid and
\* younger than staleTime, or already on its way.
Mounted(e, young) ==
  IF e.fetch = "idle" /\ (e.data = {} \/ e.invalid \/ ~young) THEN Asked(e) ELSE e

\* invalidateQueries(): marked, and refetched only while some component uses it.  A
\* fetch under way is started over unless it is the first one.
Invalidated(e, active) ==
  LET marked == [e EXCEPT !.invalid = TRUE]
  IN IF active /\ (e.data # {} \/ e.fetch = "idle") THEN Asked(marked) ELSE marked

\* Whether an invalidation is lost: the answer on its way is older than it, and
\* nothing asks again.
Forgotten(e, active) == Invalidated(e, active).fetch = "answered"

\* setQueriesData(): counts as a success, but leaves a fetch under way alone.
Patched(e, a) == IF e.data = {} THEN e ELSE [e EXCEPT !.data = {a}, !.invalid = FALSE]

\* removeQueries(): whatever was on its way arrives nowhere.
Removed(e) == Absent
=============================================================================
