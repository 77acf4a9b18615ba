---------------------------- MODULE RoutesProofs ----------------------------
(***************************************************************************)
(* Proofs about Routes, for any nodes, CIDRs, bounds and, unless a theorem *)
(* says otherwise, for any faults and both modes; in the last part, that   *)
(* Routes implements RouteTable.                                           *)
(***************************************************************************)
EXTENDS Routes, TLAPS

Critical == {"get", "put", "port", "pairs", "unwind"}
Written == {"port", "pairs", "unwind"}

\* Classical mode: whoever is between Lock and Return is the only lock holder.
LockInv ==
  \A h \in Handler : ~Atomic /\ pc[h] \in Critical => lock = {h}

\* Classical mode: the list a call holds is the router's, up to its own route.
OrigInv ==
  \A h \in Handler : ~Atomic /\ pc[h] \in Written \cup {"put"} =>
    \A r \in Route : r # RouteOf(h) => (r \in orig[h] <=> r \in routes)

IsolationInv == TypeOK /\ LockInv /\ OrigInv

-----------------------------------------------------------------------------
(* Typing *)

\* The operation, the CIDR, the Node and the route of a call.
LEMMA HandlerParts ==
  ASSUME NEW h \in Handler
  PROVE  /\ h.op \in {"create", "delete", "blackhole"}
         /\ h.cidr \in CIDRs /\ h.node \in Nodes /\ RouteOf(h) \in Route
  BY DEF Handler, RouteOf, Route

\* The first states are well typed.
LEMMA InitTypeOK == Init => TypeOK
  BY ModesAssumption DEF Init, TypeOK, Locations, Route

\* Injecting a fault keeps the fault variables well typed.
LEMMA FaultTypes ==
  ASSUME TypeOK, NEW kind \in FaultKinds, Fault(kind) \/ NoFault
  PROVE  mode' \in {"classical", "atomic"} /\ faults' \in Nat /\ happened' \in SUBSET FaultKinds
  BY DEF TypeOK, Fault, NoFault, faultVars

\* Every step of a call, the controller or the environment keeps the types.
LEMMA NextTypeOK == TypeOK /\ [Next]_vars => TypeOK'
<1> SUFFICES ASSUME TypeOK, [Next]_vars PROVE TypeOK'
  OBVIOUS
<1> USE DEF TypeOK, Locations, FaultKinds, nodeVars, cloud, faultVars
<1>1. CASE Reconcile
  BY <1>1 DEF Reconcile
<1>2. CASE Reconciled
  BY <1>2 DEF Reconciled
<1>3. ASSUME NEW h \in Handler, Call(h) PROVE TypeOK'
  <2> USE HandlerParts, FaultTypes DEF Goto, Return, Apply
  <2>1. CASE ResolveAddr(h)
    BY <2>1 DEF ResolveAddr
  <2>2. CASE Lock(h)
    BY <2>2 DEF Lock
  <2>3. CASE GetRouter(h)
    BY <2>3 DEF GetRouter
  <2>4. CASE PutRoutes(h)
    BY <2>4 DEF PutRoutes
  <2>5. CASE GetPort(h)
    BY <2>5 DEF GetPort
  <2>6. CASE PutPairs(h)
    BY <2>6 DEF PutPairs
  <2>7. CASE Unwind(h)
    BY <2>7 DEF Unwind
  <2>8. QED
    BY <1>3, <2>1, <2>2, <2>3, <2>4, <2>5, <2>6, <2>7 DEF Call
<1>4. ASSUME NEW n \in Nodes, NEW S \in SUBSET CIDRs, Register(n, S) PROVE TypeOK'
  BY <1>4 DEF Register
<1>5. ASSUME NEW n \in Nodes, Deregister(n) PROVE TypeOK'
  BY <1>5 DEF Deregister
<1>6. CASE Crash
  BY <1>6, FaultTypes DEF Crash
<1>7. CASE UNCHANGED vars
  BY <1>7 DEF vars
<1>8. QED
  BY <1>1, <1>2, <1>3, <1>4, <1>5, <1>6, <1>7 DEF Next

\* Every reachable state of the route handlers is well typed.
THEOREM TypeCorrect == Spec => []TypeOK
  BY InitTypeOK, NextTypeOK, PTL DEF Spec
-----------------------------------------------------------------------------
(* No call changes another call's route *)

\* No call has the lock or a list of routes at the start.
LEMMA InitIsolation == Init => LockInv /\ OrigInv
  BY DEF Init, LockInv, OrigInv, Critical, Written

\* Every step keeps the lock with one call, and what it read true of the router.
LEMMA NextIsolation == IsolationInv /\ [Next]_vars => LockInv' /\ OrigInv'
<1> SUFFICES ASSUME IsolationInv, [Next]_vars PROVE LockInv' /\ OrigInv'
  OBVIOUS
<1> USE DEF IsolationInv, TypeOK, LockInv, OrigInv, Atomic, Critical, Written,
            nodeVars, cloud, faultVars, Fault, NoFault
<1>1. CASE Reconcile
  BY <1>1 DEF Reconcile
<1>2. CASE Reconciled
  BY <1>2, SMTT(30) DEF Reconciled
<1>3. ASSUME NEW h \in Handler, Call(h) PROVE LockInv' /\ OrigInv'
  <2> USE HandlerParts DEF Goto, Return, Apply
  <2>1. CASE ResolveAddr(h)
    BY <2>1 DEF ResolveAddr
  <2>2. CASE Lock(h)
    BY <2>2 DEF Lock
  <2>3. CASE GetRouter(h)
    BY <2>3 DEF GetRouter
  <2>4. CASE PutRoutes(h)
    BY <2>4, ZenonT(60) DEF PutRoutes
  <2>5. CASE GetPort(h)
    BY <2>5 DEF GetPort
  <2>6. CASE PutPairs(h)
    BY <2>6 DEF PutPairs
  <2>7. CASE Unwind(h)
    BY <2>7, ZenonT(60) DEF Unwind
  <2>8. QED
    BY <1>3, <2>1, <2>2, <2>3, <2>4, <2>5, <2>6, <2>7 DEF Call
<1>4. ASSUME NEW n \in Nodes, NEW S \in SUBSET CIDRs, Register(n, S)
      PROVE  LockInv' /\ OrigInv'
  BY <1>4 DEF Register
<1>5. ASSUME NEW n \in Nodes, Deregister(n) PROVE LockInv' /\ OrigInv'
  BY <1>5 DEF Deregister
<1>6. CASE Crash
  BY <1>6 DEF Crash
<1>7. CASE UNCHANGED vars
  BY <1>7 DEF vars
<1>8. QED
  BY <1>1, <1>2, <1>3, <1>4, <1>5, <1>6, <1>7 DEF Next

\* The mutex isolates read and write of the list in all reachable states.
LEMMA Isolation == Spec => []IsolationInv
<1>1. Init => IsolationInv
  BY InitTypeOK, InitIsolation DEF IsolationInv
<1>2. IsolationInv /\ [Next]_vars => IsolationInv'
  BY NextTypeOK, NextIsolation DEF IsolationInv
<1>3. QED
  BY <1>1, <1>2, PTL DEF Spec

\* The step of OnlyOwnRoute, for one route.
OwnStep(r) ==
  (r \in routes) # (r \in routes') =>
    \E h \in Handler : RouteOf(h) = r /\ pc[h] # "idle" /\ pc'[h] # pc[h]

\* A step that adds or removes a route is one of a call for that route.
LEMMA OwnRouteStep ==
  ASSUME IsolationInv, [Next]_vars, NEW r \in Route
  PROVE  OwnStep(r)
<1> SUFFICES ASSUME (r \in routes) # (r \in routes')
             PROVE  \E h \in Handler :
                      RouteOf(h) = r /\ pc[h] # "idle" /\ pc'[h] # pc[h]
  BY DEF OwnStep
<1> USE DEF cloud, nodeVars, faultVars
<1>1. PICK h \in Handler : PutRoutes(h) \/ Unwind(h)
  <2>1. UNCHANGED routes \/ \E h \in Handler : PutRoutes(h) \/ Unwind(h)
    BY DEF Next, vars, Reconcile, Reconciled, Register, Deregister, Crash, Call,
           ResolveAddr, Lock, GetRouter, GetPort, PutPairs
  <2>2. QED
    BY <2>1, SMTT(30)
<1>2. pc[h] # "idle" /\ pc'[h] # pc[h]
  BY <1>1 DEF PutRoutes, Unwind, Return, Goto, IsolationInv, TypeOK
<1>3. RouteOf(h) = r
  BY <1>1, HandlerParts
     DEF Atomic, PutRoutes, Unwind, Apply, IsolationInv, OrigInv, Written, TypeOK
<1>4. QED
  BY <1>2, <1>3

\* Whatever the mode, the faults and the schedule, CreateRoute and DeleteRoute
\* change no route but their own: in classical mode because the mutex covers
\* the read of the list, its update and the unwinder.
THEOREM NoLostRouteUpdate == Spec => OnlyOwnRoute
<1>1. IsolationInv /\ [Next]_vars
        => [\A r \in Route :
              (r \in routes) # (r \in routes') =>
                 \E h \in Handler :
                    RouteOf(h) = r /\ pc[h] # "idle" /\ pc'[h] # pc[h]]_vars
  BY OwnRouteStep DEF OwnStep
<1>2. QED
  BY <1>1, Isolation, PTL DEF Spec, OnlyOwnRoute
-----------------------------------------------------------------------------
(* A route has its allowed-address-pair *)

HasPair(r) == r[1] \in pairs[r[2]]

\* Between two reconciliations no call is in flight.
PhaseInv == phase = "idle" => \A h \in Handler : pc[h] = "idle"

\* The pairs a call holds are the port's.
SeenInv == \A h \in Handler : pc[h] = "pairs" => seen[h] = pairs[h.node]

\* What the unwinder would write back brings back no route without its pair.
UndoInv ==
  \A h \in Handler : pc[h] \in Written \cup {"put"} =>
    IF h.op = "create" THEN RouteOf(h) \notin orig[h]
                       ELSE RouteOf(h) \in orig[h] => HasPair(RouteOf(h))

\* DeleteRoute takes the pair away only after the route.
GoneInv ==
  \A h \in Handler : h.op # "create" /\ pc[h] \in Written
    => RouteOf(h) \notin routes

\* Only a CreateRoute between its two updates leaves a route without its pair.
PairedInv ==
  \A r \in routes :
    \/ HasPair(r)
    \/ \E h \in Handler : h.op = "create" /\ RouteOf(h) = r /\ pc[h] \in Written

PairsInv == SeenInv /\ UndoInv /\ GoneInv /\ PairedInv

PairingInv == IsolationInv /\ PhaseInv /\ (CleanFailures => PairsInv)

\* At the start there are no routes, no pairs and no calls.
LEMMA InitPairing == Init => PhaseInv /\ PairsInv
  BY DEF Init, PhaseInv, PairsInv, SeenInv, UndoInv, GoneInv, PairedInv, Written

\* A route is its CIDR and its Node.
LEMMA RouteParts ==
  /\ \A r \in Route : r[1] \in CIDRs /\ r[2] \in Nodes
  /\ \A q, r \in Route : q[1] = r[1] /\ q[2] = r[2] => q = r
  /\ \A h \in Handler : RouteOf(h)[1] = h.cidr /\ RouteOf(h)[2] = h.node
  BY HandlerParts DEF Route, RouteOf

\* Calls are in flight only between the start and the end of a reconciliation.
LEMMA NextPhase == TypeOK /\ PhaseInv /\ [Next]_vars => PhaseInv'
  BY DEF TypeOK, PhaseInv, Next, vars, nodeVars, cloud, Reconcile, Reconciled, Register,
         Deregister, Crash, Call, ResolveAddr, Lock, GetRouter, PutRoutes, GetPort,
         PutPairs, Unwind, Goto, Return

\* One step of a call: only the lock holder touches the cloud.
LEMMA CallPairing ==
  ASSUME CleanFailures, CleanFailures', PairingInv, NEW h \in Handler, Call(h)
  PROVE  PairsInv'
<1> USE HandlerParts, RouteParts
    DEF Atomic, CleanFailures, PairingInv, PairsInv, IsolationInv, TypeOK, Critical, Written,
        nodeVars, cloud, faultVars, NoFault, HasPair, Goto, Return
<1>0. /\ \A g \in Handler : pc[g] \in Critical => lock = {g}
      /\ \A g \in Handler : g # h => pc'[g] = pc[g]
      /\ \A g \in Handler : pc[h] \in Critical /\ g # h => pc'[g] \notin Critical
  BY ZenonT(60) DEF LockInv, Call, ResolveAddr, Lock, GetRouter, PutRoutes, GetPort, PutPairs, Unwind
<1>1. CASE ResolveAddr(h)
  BY <1>1 DEF ResolveAddr, SeenInv, UndoInv, GoneInv, PairedInv
<1>2. CASE Lock(h)
  BY <1>2 DEF Lock, SeenInv, UndoInv, GoneInv, PairedInv
<1>3. CASE GetRouter(h)
  <2>1. PairedInv'
    BY <1>3, <1>0 DEF GetRouter, PairedInv
  <2>2. UndoInv'
    BY <1>3, <1>0 DEF GetRouter, UndoInv, PairedInv, NothingToDo
  <2>3. QED
    BY <1>3, <1>0, <2>1, <2>2 DEF GetRouter, SeenInv, GoneInv
<1>4. CASE PutRoutes(h)
  <2>1. PairedInv'
    BY <1>4, <1>0 DEF PutRoutes, PairedInv, OrigInv, Apply, Fault
  <2>2. GoneInv'
    BY <1>4, <1>0, SMTT(30) DEF PutRoutes, GoneInv, Apply
  <2>3. QED
    BY <1>4, <1>0, <2>1, <2>2 DEF PutRoutes, SeenInv, UndoInv
<1>5. CASE GetPort(h)
  <2>1. PairedInv'
    BY <1>5, <1>0, SMTT(30) DEF GetPort, PairedInv, NothingToDo
  <2>2. QED
    BY <1>5, <1>0, <2>1, SMTT(30) DEF GetPort, SeenInv, UndoInv, GoneInv
<1>6. CASE PutPairs(h)
  <2>1. PairedInv'
    BY <1>6, <1>0 DEF PutPairs, PairedInv, SeenInv, GoneInv, Apply, Fault
  <2>2. QED
    BY <1>6, <1>0, <2>1, SMTT(30) DEF PutPairs, SeenInv, UndoInv, GoneInv, Apply, Fault
<1>7. CASE Unwind(h)
  <2>0. pc[h] = "unwind" /\ routes' = orig[h] /\ UNCHANGED <<pairs, orig, seen>>
    BY <1>7, ZenonT(60) DEF Unwind, Fault
  <2>1. PairedInv'
    BY <2>0, <1>0 DEF PairedInv, OrigInv, UndoInv
  <2>2. QED
    BY <1>7, <1>0, <2>0, <2>1 DEF Unwind, SeenInv, UndoInv, GoneInv
<1>8. QED
  BY <1>1, <1>2, <1>3, <1>4, <1>5, <1>6, <1>7, SMTT(30) DEF Call

\* Failures that are clean were clean before.
LEMMA NextClean == [Next]_vars /\ CleanFailures' => CleanFailures
  BY DEF CleanFailures, Next, vars, faultVars, Fault, NoFault, Reconcile, Reconciled, Register,
         Deregister, Crash, Call, ResolveAddr, Lock, GetRouter, PutRoutes, GetPort,
         PutPairs, Unwind

\* While nothing but refusals happens, every step keeps routes and pairs together.
LEMMA NextPairing ==
  ASSUME CleanFailures, CleanFailures', PairingInv, [Next]_vars
  PROVE  PairsInv'
<1>0. ASSUME NEW h \in Handler, Call(h) PROVE PairsInv'
  BY <1>0, CallPairing
<1> DEFINE Goal == PairsInv'
<1> USE DEF CleanFailures, PairingInv, PairsInv, IsolationInv, TypeOK, PhaseInv, SeenInv, UndoInv,
            GoneInv, PairedInv, HasPair, Written, nodeVars, cloud
<1>1. CASE Reconcile
  BY <1>1, SMTT(30) DEF Reconcile
<1>2. CASE Reconciled
  BY <1>2, SMTT(30) DEF Reconciled
<1>3. ASSUME NEW n \in Nodes, NEW S \in SUBSET CIDRs, Register(n, S) PROVE Goal
  BY <1>3, SMTT(30) DEF Register
<1>4. ASSUME NEW n \in Nodes, Deregister(n) PROVE Goal
  BY <1>4, SMTT(30) DEF Deregister
<1>5. CASE Crash
  BY <1>5, SMTT(30) DEF Crash, Fault
<1>6. CASE UNCHANGED vars
  BY <1>6 DEF vars
<1>7. QED
  BY <1>0, <1>1, <1>2, <1>3, <1>4, <1>5, <1>6 DEF Next

\* In classical mode a CreateRoute or DeleteRoute that fails half-way leaves no
\* route whose traffic the port drops, as long as failures are clean.
THEOREM FailuresLeaveNoUnpairedRoute == Spec => []RoutedMeansPaired
<1>1. Init => PairingInv
  BY InitTypeOK, InitIsolation, InitPairing DEF PairingInv, IsolationInv
<1>2. PairingInv /\ [Next]_vars => PairingInv'
  BY NextTypeOK, NextIsolation, NextPhase, NextClean, NextPairing DEF PairingInv, IsolationInv
<1>3. PairingInv => RoutedMeansPaired
  BY DEF PairingInv, PairsInv, PairedInv, RoutedMeansPaired, Paired, HasPair, Written
<1>4. QED
  BY <1>1, <1>2, <1>3, PTL DEF Spec

-----------------------------------------------------------------------------
(* The refinement of RouteTable: the mutex makes writing the list one      *)
(* change; what is missing is that a route has one call at a time.         *)

Busy == Locations \ {"idle"}

\* A reconciliation makes at most one call for a route.
OneCallInv ==
  \A g, h \in Handler :
    pc[g] # "idle" /\ pc[h] # "idle" /\ RouteOf(g) = RouteOf(h) => g = h

\* Classical mode: after it has written the list, the router is as the call left it.
OwnInv ==
  \A h \in Handler : ~Atomic /\ pc[h] \in Written => (RouteOf(h) \in routes <=> h.op = "create")

RefinementInv == IsolationInv /\ PhaseInv /\ OneCallInv /\ OwnInv

\* A reconciliation starts no second call for a route that has one.
LEMMA NextOneCall == TypeOK /\ OneCallInv /\ [Next]_vars => OneCallInv'
<1> SUFFICES ASSUME TypeOK, OneCallInv, [Next]_vars PROVE OneCallInv'
  OBVIOUS
<1> USE DEF TypeOK, OneCallInv
<1>1. CASE Reconcile
  <2>1. \A g, h \in Handler : Wanted(g) /\ Wanted(h) /\ RouteOf(g) = RouteOf(h) => g = h
    <3> SUFFICES ASSUME NEW g \in Handler, NEW h \in Handler,
                        Wanted(g), Wanted(h), RouteOf(g) = RouteOf(h)
                 PROVE  g = h
      OBVIOUS
    <3>1. g.cidr = h.cidr /\ g.node = h.node
      BY DEF RouteOf
    <3>2. g.op = h.op
      BY <3>1, HandlerParts DEF Wanted, ListRoutes
    <3>3. QED
      BY <3>1, <3>2 DEF Handler
  <2>2. QED
    BY <1>1, <2>1 DEF Reconcile
<1>2. CASE ~Reconcile
  <2>1. \A h \in Handler : pc'[h] # "idle" => pc[h] # "idle"
    BY <1>2 DEF Next, vars, Reconciled, Register, Deregister, Crash, Call, ResolveAddr, Lock,
                GetRouter, PutRoutes, GetPort, PutPairs, Unwind, Goto, Return
  <2>2. QED
    BY <2>1
<1>3. QED
  BY <1>1, <1>2

\* What a call wrote stays written until it returns or unwinds.
LEMMA NextOwn == IsolationInv /\ OwnInv /\ [Next]_vars => OwnInv'
<1> SUFFICES ASSUME IsolationInv, OwnInv, [Next]_vars PROVE OwnInv'
  OBVIOUS
<1> USE DEF IsolationInv, TypeOK, LockInv, OwnInv, Atomic, Critical, Written,
            nodeVars, cloud, faultVars, Fault, NoFault
<1>1. CASE Reconcile \/ Reconciled \/ Crash
  BY <1>1 DEF Reconcile, Reconciled, Crash
<1>2. ASSUME NEW h \in Handler, Call(h) PROVE OwnInv'
  <2> USE HandlerParts DEF Goto, Return
  <2>1. CASE ResolveAddr(h) \/ Lock(h)
    BY <2>1 DEF ResolveAddr, Lock
  <2>2. CASE GetRouter(h) \/ GetPort(h) \/ PutPairs(h)
    BY <2>2 DEF GetRouter, GetPort, PutPairs
  <2>3. CASE PutRoutes(h)
    BY <2>3, ZenonT(60) DEF PutRoutes, Apply
  <2>4. CASE Unwind(h)
    BY <2>4, Zenon DEF Unwind
  <2>5. QED
    BY <1>2, <2>1, <2>2, <2>3, <2>4 DEF Call
<1>3. CASE \E n \in Nodes : Deregister(n) \/ \E S \in SUBSET CIDRs : Register(n, S)
  BY <1>3 DEF Register, Deregister
<1>4. CASE UNCHANGED vars
  BY <1>4 DEF vars
<1>5. QED
  BY <1>1, <1>2, <1>3, <1>4 DEF Next

\* The strengthened invariant holds in all reachable states.
LEMMA Refinement == Spec => []RefinementInv
<1>1. Init => RefinementInv
  BY InitTypeOK, InitIsolation, InitPairing
     DEF RefinementInv, IsolationInv, OneCallInv, OwnInv, Written, Init
<1>2. RefinementInv /\ [Next]_vars => RefinementInv'
  BY NextTypeOK, NextIsolation, NextPhase, NextOneCall, NextOwn DEF RefinementInv, IsolationInv
<1>3. QED
  BY <1>1, <1>2, PTL DEF Spec

\* Calls are told apart by their routes.
LEMMA CallsDiffer ==
  ASSUME RefinementInv, NEW g \in Handler, NEW h \in Handler,
         pc[g] # "idle", pc[h] # "idle", CallOf(g) = CallOf(h)
  PROVE  g = h
<1>1. RouteOf(g) = RouteOf(h)
  BY DEF CallOf
<1>2. QED
  BY <1>1 DEF RefinementInv, OneCallInv

\* The table sees a call at a set of locations exactly if the handler is there.
LEMMA CallThere ==
  ASSUME RefinementInv, NEW h \in Handler, pc[h] # "idle", NEW L \in SUBSET Busy
  PROVE  pc[h] \in L <=> CallOf(h) \in CallsAt(L)
<1>1. \A g \in Handler : pc[g] \in L /\ CallOf(g) = CallOf(h) => g = h
  BY CallsDiffer DEF Busy
<1>2. QED
  BY <1>1 DEF CallsAt

\* A call that moves on leaves or enters the calls at a set of locations.
LEMMA CallMoves ==
  ASSUME RefinementInv, NEW h \in Handler, pc[h] # "idle", NEW L \in SUBSET Busy, NEW l,
         pc' = [pc EXCEPT ![h] = l]
  PROVE  /\ l \notin L => CallsAt(L)' = CallsAt(L) \ {CallOf(h)}
         /\ l \in L => CallsAt(L)' = CallsAt(L) \cup {CallOf(h)}
<1>1. pc \in [Handler -> Locations] /\ "idle" \notin L
  BY DEF RefinementInv, IsolationInv, TypeOK, Busy
<1>2. \A g \in Handler : pc'[g] = IF g = h THEN l ELSE pc[g]
  BY <1>1
<1>3. \A g \in Handler : pc[g] \in L /\ CallOf(g) = CallOf(h) => g = h
  BY <1>1, CallsDiffer
<1>4. \A c : c \in CallsAt(L) <=> \E g \in Handler : pc[g] \in L /\ c = CallOf(g)
  BY DEF CallsAt
<1>5. \A c : c \in CallsAt(L)' <=> \E g \in Handler : pc'[g] \in L /\ c = CallOf(g)
  BY DEF CallsAt, CallOf, RouteOf
<1>6. ASSUME l \notin L PROVE CallsAt(L)' = CallsAt(L) \ {CallOf(h)}
  <2>1. \A c : c \in CallsAt(L)' <=> c \in CallsAt(L) /\ c # CallOf(h)
    BY <1>2, <1>3, <1>4, <1>5, <1>6
  <2>2. QED
    BY <2>1
<1>7. ASSUME l \in L PROVE CallsAt(L)' = CallsAt(L) \cup {CallOf(h)}
  <2>1. \A c : c \in CallsAt(L)' <=> c \in CallsAt(L) \/ c = CallOf(h)
    BY <1>2, <1>3, <1>4, <1>5, <1>7
  <2>2. QED
    BY <2>1
<1>8. QED
  BY <1>6, <1>7

\* The call that the table sees of a handler.
LEMMA CallParts ==
  ASSUME NEW h \in Handler
  PROVE  /\ CallOf(h).route = RouteOf(h) /\ CallOf(h) \in Table!Calls
         /\ CallOf(h).op = "create" <=> h.op = "create"
  BY HandlerParts DEF CallOf, Table!Calls

-----------------------------------------------------------------------------
(* Every step is a step of the table, or none *)

\* A first state of Routes is one of the table.
LEMMA InitTable == Init => Table!Init
<1> SUFFICES ASSUME Init PROVE Table!Init
  OBVIOUS
<1>1. \A L \in SUBSET Busy : CallsAt(L) = {}
  BY DEF Init, CallsAt, Busy
<1>2. QED
  BY <1>1 DEF Init, Table!Init, Busy, Locations

\* Writing the list changes the route of the call alone.
LEMMA WrittenList ==
  ASSUME RefinementInv, NEW h \in Handler, pc[h] = "put"
  PROVE  Apply(h, IF Atomic THEN routes ELSE orig[h], RouteOf(h)) = Apply(h, routes, RouteOf(h))
<1>1. ~Atomic => \A r \in Route : r # RouteOf(h) => (r \in orig[h] <=> r \in routes)
  BY DEF RefinementInv, IsolationInv, OrigInv
<1>2. orig[h] \subseteq Route /\ routes \subseteq Route
  BY DEF RefinementInv, IsolationInv, TypeOK
<1>3. QED
  BY <1>1, <1>2 DEF Apply

\* A step of CreateRoute or DeleteRoute is one change of the table, or none.
LEMMA CallTable ==
  ASSUME RefinementInv, NEW h \in Handler, Call(h)
  PROVE  [Table!Next]_(Table!tableVars)
<1> DEFINE c == CallOf(h)
<1> DEFINE calls == CallsAt(Locations \ {"idle"})
<1> DEFINE written == CallsAt({"port", "pairs", "unwind"})
<1>0. /\ pc \in [Handler -> Locations] /\ pc[h] # "idle"
      /\ {"port", "pairs", "unwind"} \in SUBSET Busy /\ Locations \ {"idle"} \in SUBSET Busy
      /\ Locations \ {"idle"} = Busy
  BY DEF Call, ResolveAddr, Lock, GetRouter, PutRoutes, GetPort, PutPairs, Unwind,
         RefinementInv, IsolationInv, TypeOK, Busy, Locations
<1>1. c \in calls /\ (pc[h] \in {"port", "pairs", "unwind"} <=> c \in written)
  BY <1>0, CallThere DEF Busy
<1>2. ASSUME Return(h) PROVE calls' = calls \ {c} /\ written' = written \ {c}
  <2>1. pc' = [pc EXCEPT ![h] = "idle"] /\ "idle" \notin Busy /\ "idle" \notin {"port", "pairs", "unwind"}
    BY <1>2 DEF Return, Busy
  <2>2. QED
    BY <2>1, <1>0, CallMoves, Zenon
<1>3. ASSUME NEW l \in Busy, Goto(h, l) PROVE calls' = calls
  <2>1. pc' = [pc EXCEPT ![h] = l]
    BY <1>3 DEF Goto
  <2>2. calls' = calls \cup {c}
    BY <2>1, <1>0, CallMoves, Zenon
  <2>3. QED
    BY <2>2, <1>1
<1>4. ASSUME NEW l \in {"port", "pairs", "unwind"}, Goto(h, l) PROVE written' = written \cup {c}
  <2>1. pc' = [pc EXCEPT ![h] = l]
    BY <1>4 DEF Goto
  <2>2. QED
    BY <2>1, <1>0, CallMoves, Zenon
<1>5. ASSUME NEW l \in Busy \ {"port", "pairs", "unwind"}, Goto(h, l) PROVE written' = written \ {c}
  <2>1. pc' = [pc EXCEPT ![h] = l]
    BY <1>5 DEF Goto
  <2>2. QED
    BY <2>1, <1>0, CallMoves, Zenon
<1>6. ASSUME Return(h), UNCHANGED routes PROVE Table!Return(c)
  BY <1>1, <1>2, <1>6 DEF Table!Return
<1>7. CASE ResolveAddr(h)
  <2>1. pc[h] = "start" /\ UNCHANGED routes
    BY <1>7 DEF ResolveAddr, cloud
  <2>2. CASE Return(h)
    BY <1>1, <1>6, <2>1, <2>2 DEF Table!Next
  <2>3. ASSUME NEW l \in {"put", "lock"}, Goto(h, l) PROVE UNCHANGED Table!tableVars
    BY <1>1, <1>3, <1>5, <2>1, <2>3 DEF Table!tableVars, Busy, Locations
  <2>4. QED
    BY <1>7, <2>2, <2>3 DEF ResolveAddr
<1>8. CASE Lock(h)
  <2>1. pc[h] = "lock" /\ UNCHANGED routes /\ pc' = [pc EXCEPT ![h] = "get"]
    BY <1>8 DEF Lock, cloud
  <2>2. calls' = calls \cup {c} /\ written' = written \ {c}
    BY <2>1, <1>0, CallMoves, Zenon DEF Busy, Locations
  <2>3. QED
    BY <1>1, <2>1, <2>2 DEF Table!tableVars
<1>9. CASE GetRouter(h)
  <2>1. pc[h] = "get" /\ UNCHANGED routes
    BY <1>9 DEF GetRouter, cloud
  <2>2. CASE Return(h)
    BY <1>1, <1>6, <2>1, <2>2 DEF Table!Next
  <2>3. CASE Goto(h, "put")
    BY <1>1, <1>3, <1>5, <2>1, <2>3 DEF Table!tableVars, Busy, Locations
  <2>4. QED
    BY <1>9, <2>2, <2>3 DEF GetRouter
<1>10. CASE PutRoutes(h)
  <2>1. pc[h] = "put" /\ c \in calls \ written
    BY <1>1, <1>10 DEF PutRoutes
  <2>2. CASE UNCHANGED routes /\ Return(h)
    BY <1>1, <1>6, <2>2 DEF Table!Next
  <2>3. CASE routes' = Apply(h, IF Atomic THEN routes ELSE orig[h], RouteOf(h)) /\ (Return(h) \/ Goto(h, "port"))
    <3>1. routes' = Table!With(c)
      BY <2>1, <2>3, WrittenList, CallParts, Zenon DEF Apply, Table!With
    <3>2. Table!Write(c)
      <4>1. CASE Return(h)
        BY <1>1, <1>2, <2>1, <3>1, <4>1 DEF Table!Write
      <4>2. CASE Goto(h, "port")
        BY <1>1, <1>3, <1>4, <2>1, <3>1, <4>2 DEF Table!Write, Busy, Locations
      <4>3. QED
        BY <2>3, <4>1, <4>2
    <3>3. QED
      BY <1>1, <3>2 DEF Table!Next
  <2>4. QED
    BY <1>10, <2>2, <2>3 DEF PutRoutes
<1>11. CASE GetPort(h)
  <2>1. pc[h] = "port" /\ UNCHANGED routes
    BY <1>11 DEF GetPort, cloud
  <2>2. CASE Return(h)
    BY <1>1, <1>6, <2>1, <2>2 DEF Table!Next
  <2>3. ASSUME NEW l \in {"pairs", "unwind"}, Goto(h, l) PROVE UNCHANGED Table!tableVars
    BY <1>1, <1>3, <1>4, <2>1, <2>3 DEF Table!tableVars, Busy, Locations
  <2>4. QED
    BY <1>11, <2>2, <2>3 DEF GetPort
<1>12. CASE PutPairs(h)
  <2>1. pc[h] = "pairs" /\ UNCHANGED routes
    BY <1>12 DEF PutPairs
  <2>2. CASE Return(h)
    BY <1>1, <1>6, <2>1, <2>2 DEF Table!Next
  <2>3. CASE Goto(h, "unwind")
    BY <1>1, <1>3, <1>4, <2>1, <2>3 DEF Table!tableVars, Busy, Locations
  <2>4. QED
    BY <1>12, <2>2, <2>3 DEF PutPairs
<1>13. CASE Unwind(h)
  <2>1. c \in written /\ Return(h) /\ pc[h] = "unwind"
    BY <1>1, <1>13 DEF Unwind
  <2>2. UNCHANGED routes \/ routes' = Table!Without(c)
    <3>1. CASE ~Atomic /\ routes' = orig[h]
      <4>1. /\ \A r \in Route : r # RouteOf(h) => (r \in orig[h] <=> r \in routes)
            /\ RouteOf(h) \in routes <=> h.op = "create"
        BY <2>1, <3>1 DEF RefinementInv, IsolationInv, OrigInv, OwnInv, Written
      <4>2. orig[h] \subseteq Route /\ routes \subseteq Route
        BY DEF RefinementInv, IsolationInv, TypeOK
      <4>3. CASE RouteOf(h) \in orig[h] <=> RouteOf(h) \in routes
        BY <3>1, <4>1, <4>2, <4>3
      <4>4. CASE ~(RouteOf(h) \in orig[h] <=> RouteOf(h) \in routes)
        <5>1. CASE h.op = "create"
          <6>1. \A r : r \in orig[h] <=> r \in routes \ {RouteOf(h)}
            BY <4>1, <4>2, <4>4, <5>1
          <6>2. QED
            BY <3>1, <5>1, <6>1, CallParts, Zenon DEF Table!Without
        <5>2. CASE h.op # "create"
          <6>1. \A r : r \in orig[h] <=> r \in routes \cup {RouteOf(h)}
            BY <4>1, <4>2, <4>4, <5>2, HandlerParts
          <6>2. QED
            BY <3>1, <5>2, <6>1, CallParts, Zenon DEF Table!Without
        <5>3. QED
          BY <5>1, <5>2
      <4>5. QED
        BY <4>3, <4>4
    <3>2. CASE Atomic /\ ~UNCHANGED routes
      BY <1>13, <3>2, CallParts, HandlerParts DEF Unwind, Table!Without
    <3>3. QED
      BY <1>13, <3>1, <3>2 DEF Unwind
  <2>3. CASE UNCHANGED routes
    BY <1>1, <1>6, <2>1, <2>3 DEF Table!Next
  <2>4. CASE routes' = Table!Without(c)
    <3>1. Table!TakeBack(c)
      BY <1>2, <2>1, <2>4 DEF Table!TakeBack
    <3>2. QED
      BY <1>1, <3>1 DEF Table!Next
  <2>5. QED
    BY <2>2, <2>3, <2>4
<1>14. QED
  BY <1>7, <1>8, <1>9, <1>10, <1>11, <1>12, <1>13 DEF Call

\* Calls that did not move.
LEMMA NoCallMoves ==
  ASSUME UNCHANGED pc, NEW L
  PROVE  CallsAt(L)' = CallsAt(L)
  BY DEF CallsAt, CallOf, RouteOf

\* No handlers at work, no calls of the table.
LEMMA NoCalls ==
  ASSUME \A h \in Handler : pc[h] = "idle", NEW L \in SUBSET Busy
  PROVE  CallsAt(L) = {}
  BY SMTT(30) DEF CallsAt, Busy

\* Every step of Routes is a step of the table, or none.
LEMMA NextTable == RefinementInv /\ [Next]_vars => [Table!Next]_(Table!tableVars)
<1> SUFFICES ASSUME RefinementInv, [Next]_vars PROVE [Table!Next]_(Table!tableVars)
  OBVIOUS
<1>0. /\ {"port", "pairs", "unwind"} \in SUBSET Busy /\ Locations \ {"idle"} \in SUBSET Busy
      /\ {"port", "pairs", "unwind"} = Written
  BY DEF Busy, Locations, Written
<1>1. CASE Reconcile
  <2>1. /\ \A h \in Handler : pc[h] = "idle"
        /\ pc' = [h \in Handler |-> IF Wanted(h) THEN "start" ELSE "idle"] /\ UNCHANGED routes
    BY <1>1 DEF Reconcile, RefinementInv, PhaseInv, cloud
  <2>2. CallsAt(Locations \ {"idle"}) = {} /\ CallsAt({"port", "pairs", "unwind"}) = {}
    BY <1>0, <2>1, NoCalls
  <2>3. CallsAt({"port", "pairs", "unwind"})' = {}
    BY <2>1 DEF CallsAt
  <2>4. ASSUME NEW h \in Handler, Wanted(h) PROVE Table!Needed(CallOf(h)) /\ CallOf(h) \in Table!Calls
    BY <2>4, CallParts, HandlerParts DEF Wanted, ListRoutes, Table!Needed
  <2>5. \A c \in CallsAt(Locations \ {"idle"})' : \E h \in Handler : Wanted(h) /\ c = CallOf(h)
    BY <2>1 DEF CallsAt, CallOf, RouteOf
  <2>6. QED
    BY <2>1, <2>2, <2>3, <2>4, <2>5 DEF Table!Next, Table!Plan
<1>2. ASSUME NEW h \in Handler, Call(h) PROVE [Table!Next]_(Table!tableVars)
  BY <1>2, CallTable
<1>3. CASE Crash
  <2>1. (\A h \in Handler : pc'[h] = "idle") /\ UNCHANGED routes
    BY <1>3 DEF Crash, cloud
  <2>2. CallsAt(Locations \ {"idle"})' = {} /\ CallsAt({"port", "pairs", "unwind"})' = {}
    BY <2>1 DEF CallsAt
  <2>3. QED
    BY <2>1, <2>2 DEF Table!Next, Table!Restart
<1>4. CASE UNCHANGED <<routes, pc>>
  BY <1>4, NoCallMoves DEF Table!tableVars
<1>5. QED
  BY <1>1, <1>2, <1>3, <1>4 DEF Next, vars, cloud, Reconciled, Register, Deregister

\* The route handlers implement the table of routes, in both modes and whatever the
\* faults: updates of the whole list lose nothing, because the mutex covers the read,
\* the update and the unwinder, and calls of two reconciliations never overlap.
THEOREM RoutesImplementTable == Spec => ImplementsTable
<1>1. Init => Table!Init
  BY InitTable
<1>2. RefinementInv /\ [Next]_vars => [Table!Next]_(Table!tableVars)
  BY NextTable
<1>3. QED
  BY <1>1, <1>2, Refinement, PTL DEF Spec, ImplementsTable, Table!Spec
=============================================================================
