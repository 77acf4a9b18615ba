------------------------------- MODULE Routes -------------------------------
(***************************************************************************)
(* The route component of the OpenStack cloud controller manager           *)
(* (pkg/openstack/routes.go).  For every Pod CIDR of every Node it keeps   *)
(*   - a static route on the Neutron router, next hop = the Node, and      *)
(*   - an allowed-address-pair on the Node's Neutron port, without which   *)
(*     the port drops the traffic the router sends to it.                  *)
(* The route controller of k8s.io/cloud-provider lists the routes, and     *)
(* then runs one goroutine per CreateRoute / DeleteRoute call; all of them *)
(* have returned before it lists again.  Every call to the OpenStack API   *)
(* is one step here, so the goroutines interleave between calls.           *)
(*                                                                         *)
(* A route is a pair <<cidr, node>>: the node stands for the address that  *)
(* getAddrByNodeName picks (the Node's internal IP of the CIDR's family).  *)
(***************************************************************************)
EXTENDS Naturals

CONSTANTS
    Nodes,      \* the machines; each has one port on the router's network
    CIDRs,      \* Pod CIDRs
    Modes,      \* "atomic" where Neutron has "extraroute-atomic", or "classical"
    Faults,     \* which faults may happen, see FaultKinds
    MaxFaults,  \* bound on the number of faults, failing unwinders not counted
    MaxChurn    \* bound on the number of Node objects created and deleted

FaultKinds ==
  { "reject",     \* an API call returns an error and has no effect
    "lostReply",  \* an API call takes effect and yet returns an error
    "unwind",     \* the call made by an unwinder fails
    "crash" }     \* the controller manager is restarted

ASSUME ModesAssumption == Modes \subseteq {"classical", "atomic"}
ASSUME FaultsAssumption == Faults \subseteq FaultKinds
ASSUME BoundsAssumption == MaxFaults \in Nat /\ MaxChurn \in Nat

VARIABLES
    mode,        \* Routes.atomicRoutes, fixed when the process starts
    registered,  \* Nodes that have a Node object
    podCIDRs,    \* podCIDRs[n]: .spec.podCIDRs of Node n
    routes,      \* the router's routes
    pairs,       \* pairs[n]: allowed-address-pairs of n's port
    lock,        \* holders of the Routes mutex (one at most)
    phase,       \* the route controller: "idle" or waiting for its calls
    pc,          \* pc[h]: where the call h is, "idle" when there is none
    orig,        \* orig[h]: router.Routes as h holds it (classical mode)
    seen,        \* seen[h]: port.AllowedAddressPairs as h read it
    faults,      \* number of faults so far
    happened,    \* their kinds
    churn        \* Node objects created and deleted so far

cloud == <<routes, pairs>>
nodeVars == <<registered, podCIDRs, churn>>
faultVars == <<mode, faults, happened>>
vars == <<mode, registered, podCIDRs, routes, pairs, lock, phase, pc, orig, seen,
          faults, happened, churn>>

Atomic == mode = "atomic"

Route == CIDRs \X Nodes

\* The calls a reconciliation makes.  "blackhole" is a DeleteRoute whose route
\* has the Blackhole flag: no Node has the address of the next hop.
Handler == [op : {"create", "delete", "blackhole"}, cidr : CIDRs, node : Nodes]

RouteOf(h) == <<h.cidr, h.node>>

Locations == {"idle", "start", "lock", "get", "put", "port", "pairs", "unwind"}

\* The routes the Nodes ask for.
Desired == {r \in Route : r[2] \in registered /\ r[1] \in podCIDRs[r[2]]}

-----------------------------------------------------------------------------
(* Faults and returns *)

Fault(kind) ==
  /\ kind \in Faults
  /\ IF kind = "unwind" THEN UNCHANGED faults   \* an unwinder runs after a fault
                        ELSE faults < MaxFaults /\ faults' = faults + 1
  /\ happened' = happened \cup {kind}
  /\ UNCHANGED mode

NoFault == UNCHANGED faultVars

Goto(h, l) == pc' = [pc EXCEPT ![h] = l] /\ UNCHANGED lock

\* The call returns: the deferred r.Unlock() runs after the deferred unwinders.
Return(h) == pc' = [pc EXCEPT ![h] = "idle"] /\ lock' = lock \ {h}

\* The list of routes or of CIDRs after h's change to it.
Apply(h, list, item) ==
  IF h.op = "create" THEN list \cup {item} ELSE list \ {item}

\* The item h would add is there already, or the one it would delete is not.
NothingToDo(h, list, item) == (item \in list) <=> (h.op = "create")

-----------------------------------------------------------------------------
(* The route controller (k8s.io/cloud-provider/controllers/route) *)

\* Mutant of ListRoutes: routes whose next hop is no Node are skipped.
ListRoutesSkipBlackholes == [op : {"delete"}, cidr : CIDRs, node : registered]

\* ListRoutes resolves the next hop of every route of the router to a Node;
\* reconcile then deletes the routes that lead to no Node or that the Node does
\* not ask for, and creates the missing ones.
ListRoutes ==
  [op : {"blackhole"}, cidr : CIDRs, node : Nodes \ registered]
    \cup [op : {"delete"}, cidr : CIDRs, node : registered]

Wanted(h) ==
  \/ h.op = "create" /\ RouteOf(h) \in Desired \ routes
  \/ h \in ListRoutes /\ RouteOf(h) \in routes \ Desired

Reconcile ==
  /\ phase = "idle"
  /\ phase' = "calls"
  /\ pc' = [h \in Handler |-> IF Wanted(h) THEN "start" ELSE "idle"]
  /\ UNCHANGED <<nodeVars, cloud, lock, orig, seen, faultVars>>

\* Mutant of Reconciled: the calls are not waited for.
ReconciledEarly ==
  /\ phase = "calls"
  /\ phase' = "idle"
  /\ UNCHANGED <<nodeVars, cloud, lock, pc, orig, seen, faultVars>>

Reconciled ==
  /\ phase = "calls"
  /\ \A h \in Handler : pc[h] = "idle"
  /\ phase' = "idle"
  /\ UNCHANGED <<nodeVars, cloud, lock, pc, orig, seen, faultVars>>

-----------------------------------------------------------------------------
(* CreateRoute and DeleteRoute, one action per API call *)

\* getAddrByNodeName: without a Node object there is no address and the call
\* fails.  A blackhole carries the address itself.
ResolveAddr(h) ==
  /\ pc[h] = "start"
  /\ IF h.op # "blackhole" /\ h.node \notin registered
       THEN Return(h)
       ELSE Goto(h, IF Atomic THEN "put" ELSE "lock")
  /\ UNCHANGED <<nodeVars, cloud, phase, orig, seen, faultVars>>

\* Mutant of Lock: no mutual exclusion.
LockShared(h) ==
  /\ pc[h] = "lock"
  /\ lock' = lock \cup {h}
  /\ pc' = [pc EXCEPT ![h] = "get"]
  /\ UNCHANGED <<nodeVars, cloud, phase, orig, seen, faultVars>>

Lock(h) ==
  /\ pc[h] = "lock"
  /\ lock = {}
  /\ lock' = {h}
  /\ pc' = [pc EXCEPT ![h] = "get"]
  /\ UNCHANGED <<nodeVars, cloud, phase, orig, seen, faultVars>>

\* Classical mode reads the whole list.  DeleteRoute overwrites the item it
\* deletes with the last item of the list IN PLACE, so router.Routes, which
\* updateRoutes keeps for its unwinder, still has the deleted route only if
\* that was the last one.  Neutron returns the routes in no particular order.
GetRouter(h) ==
  /\ pc[h] = "get"
  /\ \/ Fault("reject") /\ Return(h) /\ UNCHANGED orig
     \/ /\ NothingToDo(h, routes, RouteOf(h))
        /\ NoFault /\ Return(h) /\ UNCHANGED orig
     \/ /\ ~NothingToDo(h, routes, RouteOf(h))
        /\ \E last \in routes \cup {RouteOf(h)} :
             orig' = [orig EXCEPT ![h] =
                        IF h.op = "create" \/ last = RouteOf(h)
                          THEN routes ELSE routes \ {RouteOf(h)}]
        /\ NoFault /\ Goto(h, "put")
  /\ UNCHANGED <<nodeVars, cloud, phase, seen>>

\* updateRoutes writes the whole list; addRoute and removeRoute one route.
PutRoutes(h) ==
  LET new == Apply(h, IF Atomic THEN routes ELSE orig[h], RouteOf(h)) IN
  /\ pc[h] = "put"
  /\ \/ /\ NoFault /\ routes' = new
        /\ IF h.op = "blackhole" THEN Return(h) ELSE Goto(h, "port")
     \/ Fault("reject") /\ Return(h) /\ UNCHANGED routes
     \/ Fault("lostReply") /\ Return(h) /\ routes' = new
  /\ UNCHANGED <<nodeVars, pairs, phase, orig, seen>>

\* Mutant of GetPort: its failure returns without arming the unwinder.
GetPortNoUnwind(h) ==
  /\ pc[h] = "port"
  /\ \/ Fault("reject") /\ Return(h) /\ UNCHANGED seen
     \/ /\ ~NothingToDo(h, pairs[h.node], h.cidr)
        /\ seen' = [seen EXCEPT ![h] = pairs[h.node]]
        /\ NoFault /\ Goto(h, "pairs")
  /\ UNCHANGED <<nodeVars, cloud, phase, orig>>

\* getPortByIP.  Nothing to change on the port: onFailure is disarmed.
GetPort(h) ==
  /\ pc[h] = "port"
  /\ \/ Fault("reject") /\ Goto(h, "unwind") /\ UNCHANGED seen
     \/ /\ NothingToDo(h, pairs[h.node], h.cidr)
        /\ NoFault /\ Return(h) /\ UNCHANGED seen
     \/ /\ ~NothingToDo(h, pairs[h.node], h.cidr)
        /\ seen' = [seen EXCEPT ![h] = pairs[h.node]]
        /\ NoFault /\ Goto(h, "pairs")
  /\ UNCHANGED <<nodeVars, cloud, phase, orig>>

\* updateAllowedAddressPairs writes the whole list of the port.
PutPairs(h) ==
  LET new == [pairs EXCEPT ![h.node] = Apply(h, seen[h], h.cidr)] IN
  /\ pc[h] = "pairs"
  /\ \/ NoFault /\ Return(h) /\ pairs' = new
     \/ Fault("reject") /\ Goto(h, "unwind") /\ UNCHANGED pairs
     \/ Fault("lostReply") /\ Goto(h, "unwind") /\ pairs' = new
  /\ UNCHANGED <<nodeVars, routes, phase, orig, seen>>

\* The deferred unwinder of the router change.
Unwind(h) ==
  /\ pc[h] = "unwind"
  /\ \/ /\ NoFault
        /\ routes' = CASE ~Atomic -> orig[h]
                       [] Atomic /\ h.op = "create" -> routes \ {RouteOf(h)}
                       [] Atomic /\ h.op # "create" -> routes \cup {RouteOf(h)}
     \/ Fault("unwind") /\ UNCHANGED routes
  /\ Return(h)
  /\ UNCHANGED <<nodeVars, pairs, phase, orig, seen>>

Call(h) ==
  \/ ResolveAddr(h) \/ Lock(h) \/ GetRouter(h) \/ PutRoutes(h)
  \/ GetPort(h) \/ PutPairs(h) \/ Unwind(h)

-----------------------------------------------------------------------------
(* The environment *)

\* A Node object appears with Pod CIDRs no other Node has; it never loses them.
Register(n, S) ==
  /\ churn < MaxChurn
  /\ n \notin registered
  /\ \A m \in registered : podCIDRs[m] \cap S = {}
  /\ registered' = registered \cup {n}
  /\ podCIDRs' = [podCIDRs EXCEPT ![n] = S]
  /\ churn' = churn + 1
  /\ UNCHANGED <<cloud, lock, phase, pc, orig, seen, faultVars>>

Deregister(n) ==
  /\ churn < MaxChurn
  /\ n \in registered
  /\ registered' = registered \ {n}
  /\ podCIDRs' = [podCIDRs EXCEPT ![n] = {}]
  /\ churn' = churn + 1
  /\ UNCHANGED <<cloud, lock, phase, pc, orig, seen, faultVars>>

\* The process dies with its goroutines and its mutex; the cloud stays as it is.
Crash ==
  /\ Fault("crash")
  /\ phase' = "idle"
  /\ lock' = {}
  /\ pc' = [h \in Handler |-> "idle"]
  /\ UNCHANGED <<nodeVars, cloud, orig, seen>>

-----------------------------------------------------------------------------
Init ==
  /\ mode \in Modes
  /\ registered = {}
  /\ podCIDRs = [n \in Nodes |-> {}]
  /\ routes = {}
  /\ pairs = [n \in Nodes |-> {}]
  /\ lock = {}
  /\ phase = "idle"
  /\ pc = [h \in Handler |-> "idle"]
  /\ orig = [h \in Handler |-> {}]
  /\ seen = [h \in Handler |-> {}]
  /\ faults = 0
  /\ happened = {}
  /\ churn = 0

Next ==
  \/ Reconcile
  \/ Reconciled
  \/ \E h \in Handler : Call(h)
  \/ \E n \in Nodes, S \in SUBSET CIDRs : Register(n, S)
  \/ \E n \in Nodes : Deregister(n)
  \/ Crash

Spec == Init /\ [][Next]_vars

\* The controller runs forever (wait.NonSlidingUntil) and the Go scheduler
\* starves no goroutine; nothing is assumed of faults and of Nodes.
Fairness ==
  /\ WF_vars(Reconcile)
  /\ WF_vars(Reconciled)
  /\ \A h \in Handler : WF_vars(Call(h))

FairSpec == Spec /\ Fairness

-----------------------------------------------------------------------------
(* Properties *)

\* Every variable has its type and the mutex at most one holder.
TypeOK ==
  /\ mode \in {"classical", "atomic"}
  /\ registered \in SUBSET Nodes
  /\ podCIDRs \in [Nodes -> SUBSET CIDRs]
  /\ routes \in SUBSET Route
  /\ pairs \in [Nodes -> SUBSET CIDRs]
  /\ lock \in SUBSET Handler
  /\ phase \in {"idle", "calls"}
  /\ pc \in [Handler -> Locations]
  /\ orig \in [Handler -> SUBSET Route]
  /\ seen \in [Handler -> SUBSET CIDRs]
  /\ faults \in Nat
  /\ happened \in SUBSET FaultKinds
  /\ churn \in Nat

\* CreateRoute and DeleteRoute write the whole route list back after reading it
\* (classical mode), and unwinders write back an older one: still no call ever
\* adds or removes a route other than its own.  In other words, no update of
\* another goroutine is lost.
OnlyOwnRoute ==
  [][\A r \in Route :
       (r \in routes) # (r \in routes') =>
          \E h \in Handler : RouteOf(h) = r /\ pc[h] # "idle" /\ pc'[h] # pc[h]]_vars

\* A route has its allowed-address-pair, or a call for it is in flight.
Paired(r) ==
  \/ r[1] \in pairs[r[2]]
  \/ \E h \in Handler : RouteOf(h) = r /\ pc[h] # "idle"

\* Classical mode, and all that went wrong is requests that were refused.
CleanFailures == mode = "classical" /\ happened \subseteq {"reject"}

\* In classical mode a CreateRoute or DeleteRoute that fails half-way leaves no
\* route to a port that drops its traffic, as long as calls that fail have no
\* effect, unwinders do not fail and the process does not die.
RoutedMeansPaired == CleanFailures => \A r \in routes : Paired(r)

\* Once faults and Node changes are over, the router gets exactly the routes
\* the Nodes ask for and keeps them.
Converges == <>[](routes = Desired)

\* The calls in flight as the route controller sees them: a blackhole is deleted.
CallOf(h) == [op |-> IF h.op = "create" THEN "create" ELSE "delete", route |-> RouteOf(h)]
CallsAt(L) == {CallOf(h) : h \in {g \in Handler : pc[g] \in L}}

Table == INSTANCE RouteTable WITH
  table <- routes,
  calls <- CallsAt(Locations \ {"idle"}),
  written <- CallsAt({"port", "pairs", "unwind"})

\* Reading and writing the whole list of routes, under the mutex or atomically,
\* with unwinders, faults and restarts, is a table in which every call changes its
\* own route at once: no reconciliation starts before the calls of the last are over,
\* and a route is taken back only by the call that wrote it.
ImplementsTable == Table!Spec

\* The unwinder of DeleteRoute, when its own call succeeds, puts the route back
\* ("Reverting routes change to router").
FailedDeleteKeepsRoute ==
  [][\A h \in Handler :
       h.op = "delete" /\ pc[h] = "unwind" /\ pc'[h] = "idle" /\ "unwind" \notin happened'
         => RouteOf(h) \in routes']_vars
=============================================================================
