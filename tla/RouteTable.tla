----------------------------- MODULE RouteTable -----------------------------
(***************************************************************************)
(* What the route controller of k8s.io/cloud-provider relies on            *)
(* (cloudprovider.Routes): a table in which each CreateRoute or DeleteRoute *)
(* changes one route, its own, at once.  A call may fail before its change, *)
(* fail after it and leave it, or take it back when it fails later on.     *)
(* Routes implements this table with a list that it reads and writes as a  *)
(* whole.                                                                  *)
(***************************************************************************)
CONSTANT Route

VARIABLES
    table,    \* the routes
    calls,    \* the calls in flight
    written   \* those that have made their change

tableVars == <<table, calls, written>>

Calls == [op : {"create", "delete"}, route : Route]

\* A call is made for a route that is missing, or for one that is there.
Needed(c) == (c.op = "create") <=> (c.route \notin table)

With(c) == IF c.op = "create" THEN table \cup {c.route} ELSE table \ {c.route}
Without(c) == IF c.op = "create" THEN table \ {c.route} ELSE table \cup {c.route}

\* The calls of a reconciliation start together, when those of the last are over.
Plan ==
  /\ calls = {}
  /\ calls' \in SUBSET Calls /\ \A c \in calls' : Needed(c)
  /\ UNCHANGED <<table, written>>

Write(c) ==
  /\ c \in calls \ written
  /\ table' = With(c)
  /\ \/ written' = written \cup {c} /\ UNCHANGED calls
     \/ calls' = calls \ {c} /\ UNCHANGED written

TakeBack(c) ==
  /\ c \in written
  /\ table' = Without(c)
  /\ calls' = calls \ {c} /\ written' = written \ {c}

Return(c) ==
  /\ c \in calls
  /\ calls' = calls \ {c} /\ written' = written \ {c}
  /\ UNCHANGED table

\* The process dies: no call goes on, and nothing is taken back.
Restart == calls' = {} /\ written' = {} /\ UNCHANGED table

Init == table = {} /\ calls = {} /\ written = {}

Next ==
  \/ Plan \/ Restart
  \/ \E c \in calls : Write(c) \/ TakeBack(c) \/ Return(c)

Spec == Init /\ [][Next]_tableVars
=============================================================================
