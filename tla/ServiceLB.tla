----------------------------- MODULE ServiceLB -----------------------------
(***************************************************************************)
(* Services of type LoadBalancer on Octavia load balancers, which several  *)
(* Services may share (pkg/openstack/loadbalancer.go).  Three handlers run *)
(* per Service: EnsureLoadBalancer and EnsureLoadBalancerDeleted in the    *)
(* workers of the service controller (never two for one Service at a       *)
(* time), and UpdateLoadBalancer in its node worker, which takes no lock   *)
(* against the others.  Every call to the Octavia API that reads or writes *)
(* state shared with another handler is one step.                          *)
(*                                                                         *)
(* A load balancer made by the controller has the name of its Service, so  *)
(* it is written here as that Service.  A listener is found by protocol    *)
(* and port; it records its creator (its identity), the Services in its    *)
(* tags, and the Service and Nodes its pool sends traffic to.  Floating    *)
(* IPs, health monitors and security groups are left to other modules.     *)
(***************************************************************************)
EXTENDS Naturals, FiniteSets

CONSTANTS
    Services,        \* also the names of the load balancers made for them
    ExternalLBs,     \* load balancers made outside the cluster
    Ports,           \* Service ports
    Nodes,
    NodeChoices,     \* the sets of Nodes that are fit for load balancing
    HTTPChoices,     \* sets of Services that have the x-forwarded-for annotation
    Internal,        \* internal Services
    SupportTags,     \* Octavia has the tag feature
    CascadeDelete,   \* opts.CascadeDelete
    MaxSharedLB,     \* opts.MaxSharedLB
    Workers,         \* --concurrent-service-syncs
    None,            \* no load balancer, no Service
    PortChoices,     \* PortChoices[s]: the port lists a user gives Service s
    LBChoices,       \* LBChoices[s]: the load balancers a user asks for s
    MaxFaults, MaxEdits, MaxNodeChanges   \* bounds

LBs == Services \cup ExternalLBs

ASSUME ConstantsAssumption ==
  /\ IsFiniteSet(Services) /\ Services \cap ExternalLBs = {} /\ None \notin LBs
  /\ HTTPChoices \subseteq SUBSET Services /\ Internal \subseteq Services
  /\ SupportTags \in BOOLEAN /\ CascadeDelete \in BOOLEAN
  /\ PortChoices \in [Services -> SUBSET ((SUBSET Ports) \ {{}})]
  /\ NodeChoices \subseteq SUBSET Nodes /\ Nodes \in NodeChoices
  /\ LBChoices \in [Services -> SUBSET (LBs \cup {None})]
  /\ {MaxSharedLB, Workers, MaxFaults, MaxEdits, MaxNodeChanges} \subseteq Nat

VARIABLES
    state,    \* state[s]: "absent", "present", "deleting" or "gone"
    ports,    \* ports[s]: .spec.ports
    http,     \* Services with the x-forwarded-for annotation
    lbID,     \* lbID[s]: the load-balancer-id annotation
    status,   \* Services whose .status.loadBalancer is set
    queue,    \* the service queue
    nodes,    \* the Nodes fit for load balancing
    alive,    \* existing load balancers
    tags,     \* tags[l]: Services in the tags of l
    lsn,      \* lsn[l][k]: the listener of l for key k
    job,      \* job[s]: the service worker's run for s
    cached,   \* Services in the controller's cache
    upd,      \* upd[s]: the node worker's run for s
    target,   \* the Node list of the node worker's present round
    synced,   \* lastSyncedNodes
    faults, edits, nodeChanges

k8sVars == <<state, ports, http, lbID, edits>>
nodeVars == <<nodes, nodeChanges>>
lbVars == <<alive, tags, lsn>>
updVars == <<upd, target, synced>>
vars == <<state, ports, http, lbID, status, queue, nodes, alive, tags, lsn, job, cached,
          upd, target, synced, faults, edits, nodeChanges>>

Keys == {"TCP", "HTTP"} \X Ports

Listener == [by : Services \cup {None}, tags : SUBSET Services,
             backend : Services \cup {None}, members : SUBSET Nodes]

NoListener == [by |-> None, tags |-> {}, backend |-> None, members |-> {}]
NoListeners == [k \in Keys |-> NoListener]

Up(listener) == listener.by # None

\* getListenerProtocol
Key(s, p) == <<IF s \in http THEN "HTTP" ELSE "TCP", p>>
KeysOf(s, P) == {Key(s, p) : p \in P}

\* buildListenerCreateOpt
MyTag(s) == IF SupportTags THEN {s} ELSE {}
NewListener(s) == [NoListener EXCEPT !.by = s, !.tags = MyTag(s)]

\* The listener belongs to s, whose load balancer l may be.
Mine(s, l, listener) ==
  s \in listener.tags \/ (listener.tags = {} /\ l = s)

-----------------------------------------------------------------------------
(* How a worker's run ends *)

Fault == faults < MaxFaults /\ faults' = faults + 1

Idle == [pc |-> "idle", lb |-> None, ports |-> {}, nodes |-> {}, tags |-> {},
         map |-> NoListeners, cur |-> None, todo |-> {}]

\* The cache keeps the Service the run worked on.
Ended(s) == [Idle EXCEPT !.lb = job[s].lb, !.ports = job[s].ports]

\* The run returns an error: the key is queued again.
Fail(s) ==
  /\ job' = [job EXCEPT ![s] = Ended(s)]
  /\ queue' = queue \cup {s}
  /\ UNCHANGED <<k8sVars, status, cached, lbVars>>

\* The cleanup is done and the finalizer removed.
Gone(s) ==
  /\ job' = [job EXCEPT ![s] = Idle]
  /\ state' = [state EXCEPT ![s] = "gone"]
  /\ status' = status \ {s}
  /\ cached' = cached \ {s}
  /\ UNCHANGED <<ports, http, lbID, edits, queue>>

Step(s, new) ==
  /\ job' = [job EXCEPT ![s] = new]
  /\ UNCHANGED <<k8sVars, status, queue, cached>>

Active == {s \in Services : job[s].pc # "idle"}

-----------------------------------------------------------------------------
(* EnsureLoadBalancer *)

\* syncService finds the Service gone, and the cache without it.
Forget(s) ==
  /\ s \in queue /\ state[s] = "gone"
  /\ queue' = queue \ {s}
  /\ UNCHANGED <<k8sVars, status, job, cached, lbVars>>

\* The worker takes a key and sees to the finalizer.  checkService fails without
\* Nodes, and the retry changes nothing, until there are some.
Start(s) ==
  /\ s \in queue /\ state[s] # "gone"
  /\ s \notin Active
  /\ Cardinality(Active) < Workers
  /\ state[s] = "deleting" \/ nodes # {}
  /\ queue' = queue \ {s}
  /\ cached' = cached \cup {s}
  /\ job' = [job EXCEPT ![s] =
       [Idle EXCEPT !.pc = IF state[s] = "deleting" THEN "find" ELSE "get",
                    !.lb = IF lbID[s] = None THEN s ELSE lbID[s],
                    !.ports = ports[s], !.nodes = nodes]]
  /\ UNCHANGED <<k8sVars, status, lbVars>>

\* Mutant of MayAttach: off by one.
MayAttachOneMore(s, l) ==
  \/ l = s
  \/ /\ SupportTags
     /\ s \in tags[l] \/ Cardinality(tags[l]) <= MaxSharedLB
     /\ s \notin Internal

\* The checks on the load balancer of the annotation.
MayAttach(s, l) ==
  \/ l = s
  \/ /\ SupportTags
     /\ s \in tags[l] \/ Cardinality(tags[l]) + 1 <= MaxSharedLB
     /\ s \notin Internal

\* createOctaviaLoadBalancer makes it with all its listeners and members.
CreateLB(s) ==
  /\ alive' = alive \cup {s}
  /\ tags' = [tags EXCEPT ![s] = MyTag(s)]
  /\ lsn' = [lsn EXCEPT ![s] = [k \in Keys |->
               IF k \in KeysOf(s, job[s].ports)
                 THEN [NewListener(s) EXCEPT !.backend = s, !.members = job[s].nodes]
                 ELSE NoListener]]
  /\ Step(s, [job[s] EXCEPT !.pc = "tag", !.tags = MyTag(s)])

GetLB(s) ==
  LET l == job[s].lb IN
  /\ job[s].pc = "get"
  /\ \/ l \notin alive /\ lbID[s] = None /\ CreateLB(s)
     \/ l \notin alive /\ lbID[s] # None /\ Fail(s)
     \/ l \in alive /\ ~MayAttach(s, l) /\ Fail(s)
     \/ /\ l \in alive /\ MayAttach(s, l)
        /\ Step(s, [job[s] EXCEPT !.pc = "list", !.tags = tags[l]])
        /\ UNCHANGED lbVars

\* Mutant of PortConflict: any listener on the port will do.
NoPortConflict(s, l, map) == FALSE

\* checkListenerPorts looks a port up by the Service's own protocol (TCP).
PortConflict(s, l, map) ==
  \E p \in job[s].ports : Up(map[<<"TCP", p>>]) /\ ~Mine(s, l, map[<<"TCP", p>>])

GetListeners(s) ==
  LET l == job[s].lb IN
  /\ job[s].pc = "list"
  /\ \/ PortConflict(s, l, lsn[l]) /\ Fail(s)
     \/ /\ ~PortConflict(s, l, lsn[l])
        /\ Step(s, [job[s] EXCEPT !.pc = "listener", !.map = lsn[l],
                                  !.todo = KeysOf(s, job[s].ports)])
        /\ UNCHANGED lbVars

\* Octavia takes one listener per port of a live load balancer (TCP and HTTP
\* exclude each other), and knows a listener by its id.
CanCreate(l, k) == l \in alive /\ \A q \in Keys : q[2] = k[2] => ~Up(lsn[l][q])
Same(l, k, listener) == Up(lsn[l][k]) /\ lsn[l][k].by = listener.by

\* ensureOctaviaListener.  The update of the tags copies the old ones into a nil
\* slice, that is, it drops them.
EnsureListener(s, k) ==
  LET l == job[s].lb
      old == job[s].map[k]
      next == [job[s] EXCEPT !.pc = "pool", !.cur = k] IN
  /\ job[s].pc = "listener" /\ k \in job[s].todo
  /\ \/ /\ ~Up(old) /\ CanCreate(l, k)
        /\ lsn' = [lsn EXCEPT ![l][k] = NewListener(s)]
        /\ Step(s, [next EXCEPT !.map[k] = NewListener(s)])
        /\ UNCHANGED <<alive, tags>>
     \/ /\ Up(old) /\ SupportTags /\ s \notin old.tags /\ Same(l, k, old)
        /\ lsn' = [lsn EXCEPT ![l][k].tags = {s}]
        /\ Step(s, next)
        /\ UNCHANGED <<alive, tags>>
     \/ /\ Up(old) /\ (SupportTags => s \in old.tags)
        /\ Step(s, next)
        /\ UNCHANGED lbVars
     \/ /\ IF Up(old) THEN SupportTags /\ s \notin old.tags /\ ~Same(l, k, old)
                     ELSE ~CanCreate(l, k)
        /\ Fail(s)

\* Mutant of Obsolete: whoever made them.
ObsoleteAll(s) == {k \in Keys \ KeysOf(s, job[s].ports) : Up(job[s].map[k])}

\* Listeners of the list that this Service made and does not ask for any more.
Obsolete(s) ==
  {k \in Keys \ KeysOf(s, job[s].ports) :
     Up(job[s].map[k]) /\ Mine(s, job[s].lb, job[s].map[k])}

\* ensureOctaviaPool replaces the pool's members by the Nodes and the NodePort.
EnsurePool(s) ==
  LET l == job[s].lb
      k == job[s].cur
      left == job[s].todo \ {k} IN
  /\ job[s].pc = "pool"
  /\ \/ /\ Same(l, k, job[s].map[k])
        /\ lsn' = [lsn EXCEPT ![l][k].backend = s, ![l][k].members = job[s].nodes]
        /\ Step(s, IF left # {}
                     THEN [job[s] EXCEPT !.pc = "listener", !.todo = left]
                     ELSE [job[s] EXCEPT !.pc = "obsolete", !.todo = Obsolete(s)])
        /\ UNCHANGED <<alive, tags>>
     \/ ~Same(l, k, job[s].map[k]) /\ Fail(s)

\* deleteListeners, deleteOctaviaListeners: one listener.
DeleteListener(s, k) ==
  LET l == job[s].lb IN
  \/ /\ l \in alive
     /\ lsn' = [lsn EXCEPT ![l][k] =
                  IF Same(l, k, job[s].map[k]) THEN NoListener ELSE lsn[l][k]]
     /\ Step(s, [job[s] EXCEPT !.todo = @ \ {k}])
     /\ UNCHANGED <<alive, tags>>
  \/ l \notin alive /\ Fail(s)

DeleteObsolete(s) ==
  /\ job[s].pc = "obsolete"
  /\ \/ \E k \in job[s].todo : DeleteListener(s, k)
     \/ /\ job[s].todo = {}
        /\ Step(s, [job[s] EXCEPT !.pc = "tag"])
        /\ UNCHANGED lbVars

\* Writes the tags read by GetLB back, with the Service's own.  If that fails the
\* annotation is patched all the same.
TagLB(s) ==
  LET l == job[s].lb
      needed == SupportTags /\ s \notin job[s].tags IN
  /\ job[s].pc = "tag"
  /\ \/ /\ needed => l \in alive
        /\ tags' = IF needed THEN [tags EXCEPT ![l] = job[s].tags \cup {s}] ELSE tags
        /\ status' = status \cup {s}
        /\ queue' = IF lbID[s] # l THEN queue \cup {s} ELSE queue
        /\ UNCHANGED faults
     \/ /\ needed
        /\ IF l \in alive THEN Fault ELSE UNCHANGED faults
        /\ queue' = queue \cup {s}
        /\ UNCHANGED <<tags, status>>
  /\ lbID' = [lbID EXCEPT ![s] = l]
  /\ job' = [job EXCEPT ![s] = Ended(s)]
  /\ UNCHANGED <<state, ports, http, edits, cached, alive, lsn>>

-----------------------------------------------------------------------------
(* EnsureLoadBalancerDeleted *)

\* Mutant of NeedDelete: the other Services are not asked.
NeedDeleteShared(s) == job[s].lb \in Services

\* Not shared with another Service, and made by the controller.
NeedDelete(s) ==
  job[s].lb \in Services /\ (SupportTags => job[s].tags \subseteq {s})

\* Mutant of FindLB: a load balancer that is not found is an error.
FindLBOrFail(s) ==
  LET l == job[s].lb IN
  /\ job[s].pc = "find"
  /\ \/ l \notin alive /\ Fail(s)
     \/ /\ l \in alive /\ Step(s, [job[s] EXCEPT !.pc = "owned", !.tags = tags[l]])
        /\ UNCHANGED lbVars

\* Without a load balancer there is nothing to do.
FindLB(s) ==
  LET l == job[s].lb IN
  /\ job[s].pc = "find"
  /\ \/ l \notin alive /\ Gone(s)
     \/ l \in alive /\ Step(s, [job[s] EXCEPT !.pc = "owned", !.tags = tags[l]])
  /\ UNCHANGED lbVars

\* Unless a cascade takes them, the listeners go first; on a load balancer that
\* stays, only those that are in the spec and bear the Service's tag.
ListOwned(s) ==
  LET l == job[s].lb
      mine == {k \in KeysOf(s, job[s].ports) : s \in lsn[l][k].tags}
      all == {k \in Keys : Up(lsn[l][k])} IN
  /\ job[s].pc = "owned"
  /\ Step(s, IF NeedDelete(s) /\ CascadeDelete
               THEN [job[s] EXCEPT !.pc = "deleteLB"]
               ELSE [job[s] EXCEPT !.pc = "unlist", !.map = lsn[l],
                                   !.todo = IF NeedDelete(s) THEN all ELSE mine])
  /\ UNCHANGED lbVars

DeleteOwned(s) ==
  /\ job[s].pc = "unlist"
  /\ \/ \E k \in job[s].todo : DeleteListener(s, k)
     \/ /\ job[s].todo = {}
        /\ Step(s, [job[s] EXCEPT !.pc = IF NeedDelete(s) THEN "deleteLB" ELSE "untag"])
        /\ UNCHANGED lbVars

\* Octavia refuses to delete one that has listeners unless told to cascade.
DeleteLB(s) ==
  LET l == job[s].lb IN
  /\ job[s].pc = "deleteLB"
  /\ IF CascadeDelete \/ \A k \in Keys : ~Up(lsn[l][k])
       THEN /\ alive' = alive \ {l}
            /\ tags' = [tags EXCEPT ![l] = {}]
            /\ lsn' = [lsn EXCEPT ![l] = NoListeners]
            /\ Gone(s)
       ELSE Fail(s)

\* Mutant of UntagLB: the tag stays.
UntagLBNever(s) == job[s].pc = "untag" /\ Gone(s) /\ UNCHANGED lbVars

UntagLB(s) ==
  LET l == job[s].lb
      needed == SupportTags /\ s \in job[s].tags IN
  /\ job[s].pc = "untag"
  /\ \/ /\ needed => l \in alive
        /\ tags' = IF needed THEN [tags EXCEPT ![l] = job[s].tags \ {s}] ELSE tags
        /\ UNCHANGED <<alive, lsn>>
        /\ Gone(s)
     \/ needed /\ l \notin alive /\ Fail(s)

\* Any API call may fail.
CallFails(s) ==
  /\ s \in Active
  /\ Fault
  /\ Fail(s)

Work(s) ==
  \/ GetLB(s) \/ GetListeners(s) \/ EnsurePool(s) \/ DeleteObsolete(s)
  \/ \E k \in Keys : EnsureListener(s, k)
  \/ FindLB(s) \/ ListOwned(s) \/ DeleteOwned(s) \/ DeleteLB(s) \/ UntagLB(s)

Worker(s) ==
  /\ \/ TagLB(s)
     \/ (Forget(s) \/ Start(s) \/ Work(s)) /\ UNCHANGED faults
     \/ CallFails(s)
  /\ UNCHANGED <<nodeVars, updVars>>

-----------------------------------------------------------------------------
(* UpdateLoadBalancer, called by the node worker for every cached Service *)

UpdIdle == [pc |-> "idle", lb |-> None, map |-> NoListeners, todo |-> {}]

\* A round starts when the set of Nodes is not the one of the last round, and
\* works on the Services as they were last processed.
SyncNodes ==
  /\ \A s \in Services : upd[s].pc = "idle"
  /\ target = synced /\ nodes # synced
  /\ target' = nodes
  /\ upd' = [s \in Services |->
       IF s \in cached THEN [UpdIdle EXCEPT !.pc = "get", !.lb = job[s].lb,
                                            !.todo = KeysOf(s, job[s].ports)]
                       ELSE UpdIdle]
  /\ UNCHANGED <<synced, queue, lbVars, faults>>

\* The round is over: the Services that failed go to the service queue.
SyncedNodes ==
  /\ \A s \in Services : upd[s].pc \in {"idle", "retry"}
  /\ target # synced
  /\ synced' = target
  /\ queue' = queue \cup {s \in Services : upd[s].pc = "retry"}
  /\ upd' = [s \in Services |-> UpdIdle]
  /\ UNCHANGED <<target, lbVars, faults>>

\* A failure matters only while the load balancer exists.
GetForUpdate(s) ==
  LET l == upd[s].lb IN
  /\ upd[s].pc = "get"
  /\ Cardinality({r \in Services : upd[r].pc = "pool"}) < Workers
  /\ upd' = [upd EXCEPT ![s] =
       IF l \in alive THEN [@ EXCEPT !.pc = "pool", !.map = lsn[l]] ELSE UpdIdle]
  /\ UNCHANGED <<target, synced, queue, lbVars, faults>>

\* ensureOctaviaPool for the listener of the port, whoever made it.
UpdatePool(s, k) ==
  LET l == upd[s].lb
      left == upd[s].todo \ {k} IN
  /\ upd[s].pc = "pool" /\ k \in upd[s].todo
  /\ \/ /\ Same(l, k, upd[s].map[k])
        /\ lsn' = [lsn EXCEPT ![l][k].backend = s, ![l][k].members = target]
        /\ upd' = [upd EXCEPT ![s] = IF left = {} THEN UpdIdle ELSE [@ EXCEPT !.todo = left]]
        /\ UNCHANGED faults
     \/ /\ IF Same(l, k, upd[s].map[k]) THEN Fault ELSE UNCHANGED faults
        /\ upd' = [upd EXCEPT ![s] = [UpdIdle EXCEPT !.pc = IF l \in alive THEN "retry" ELSE "idle"]]
        /\ UNCHANGED lsn
  /\ UNCHANGED <<alive, tags, target, synced, queue>>

NodeWorker ==
  /\ \/ SyncNodes \/ SyncedNodes
     \/ \E s \in Services : GetForUpdate(s) \/ \E k \in Keys : UpdatePool(s, k)
  /\ UNCHANGED <<k8sVars, status, nodeVars, job, cached>>

-----------------------------------------------------------------------------
(* The users and the cluster *)

CreateService(s, P, l) ==
  /\ state[s] = "absent"
  /\ state' = [state EXCEPT ![s] = "present"]
  /\ ports' = [ports EXCEPT ![s] = P]
  /\ lbID' = [lbID EXCEPT ![s] = l]
  /\ queue' = queue \cup {s}
  /\ UNCHANGED <<http, status, nodeVars, lbVars, job, cached, updVars, faults, edits>>

EditPorts(s, P) ==
  /\ state[s] = "present" /\ P # ports[s]
  /\ edits < MaxEdits
  /\ edits' = edits + 1
  /\ ports' = [ports EXCEPT ![s] = P]
  /\ queue' = queue \cup {s}
  /\ UNCHANGED <<state, http, lbID, status, nodeVars, lbVars, job, cached, updVars, faults>>

\* Before the finalizer is there nothing holds the Service back.
DeleteService(s) ==
  /\ state[s] = "present"
  /\ state' = [state EXCEPT ![s] = IF s \in cached THEN "deleting" ELSE "gone"]
  /\ queue' = queue \cup {s}
  /\ UNCHANGED <<ports, http, lbID, edits, status, nodeVars, lbVars, job, cached, updVars, faults>>

ChangeNodes(N) ==
  /\ N # nodes
  /\ nodeChanges < MaxNodeChanges
  /\ nodeChanges' = nodeChanges + 1
  /\ nodes' = N
  /\ UNCHANGED <<k8sVars, status, queue, lbVars, job, cached, updVars, faults>>

User ==
  \E s \in Services :
    \/ \E P \in PortChoices[s] :
         \/ \E l \in LBChoices[s] : CreateService(s, P, l)
         \/ EditPorts(s, P)
    \/ DeleteService(s)

-----------------------------------------------------------------------------
Init ==
  /\ state = [s \in Services |-> "absent"]
  /\ ports = [s \in Services |-> {}]
  /\ http \in HTTPChoices
  /\ lbID = [s \in Services |-> None]
  /\ status = {} /\ queue = {} /\ cached = {}
  /\ nodes = Nodes /\ target = Nodes /\ synced = Nodes
  /\ alive = ExternalLBs
  /\ tags = [l \in LBs |-> {}]
  /\ lsn = [l \in LBs |-> NoListeners]
  /\ job = [s \in Services |-> Idle]
  /\ upd = [s \in Services |-> UpdIdle]
  /\ faults = 0 /\ edits = 0 /\ nodeChanges = 0

Next ==
  \/ \E s \in Services : Worker(s)
  \/ NodeWorker
  \/ User
  \/ \E N \in NodeChoices : ChangeNodes(N)

Spec == Init /\ [][Next]_vars

\* The service queue is first in, first out and its keys are retried for ever:
\* one that waits gets a worker.  Users, Nodes and failures do as they please.
Fairness == WF_vars(NodeWorker) /\ \A s \in Services : SF_vars(Worker(s))

FairSpec == Spec /\ Fairness

-----------------------------------------------------------------------------
(* Properties *)

EnsureSteps == {"get", "list", "listener", "pool", "obsolete", "tag"}
\* A Service that has been given a load balancer and is not being deleted.
Attached(s) == s \in status /\ state[s] = "present"

\* "The load balancer is deleted only when the last attached Service is
\* deleted": no Service loses its load balancer to another one's deletion.
LBKept == \A s \in Services : Attached(s) => lbID[s] \in alive

\* A Service that the controller is done with has its listeners, tagged as its
\* own, and they send traffic to it and to no other Service (with
\* x-forwarded-for another Service may have taken them).
Serves ==
  \A s \in Services \ http : Attached(s) /\ s \notin queue /\ s \notin Active =>
    \A p \in ports[s] :
      LET x == lsn[lbID[s]][Key(s, p)] IN x.backend = s /\ (SupportTags => s \in x.tags)

\* However the workers interleave, EnsureLoadBalancer changes no listener that
\* bears the tag of another Service (with x-forwarded-for it may, because
\* checkListenerPorts does not see the listener).
EnsureKeepsOthers ==
  [][\A s \in Services \ http :
       job[s].pc \in EnsureSteps /\ job'[s] # job[s] =>
         \A l \in LBs, k \in Keys :
           lsn[l][k].tags \ {s} # {} => lsn'[l][k] = lsn[l][k]]_vars

\* "The maximum number of Services that share a load balancer".
SharedByAtMost ==
  \A l \in LBs : Cardinality({s \in Services : Attached(s) /\ lbID[s] = l}) <= MaxSharedLB

\* A deleted Service leaves no tag behind, and no listener for the ports it had
\* when it was deleted (one for a port that was edited away may stay).
NothingLeft ==
  \A s \in Services : state[s] = "gone" =>
    \A l \in LBs : s \notin tags[l] /\ \A k \in KeysOf(s, ports[s]) : s \notin lsn[l][k].tags

\* The deletion of a Service is not held up for ever.
Deleted == \A s \in Services : state[s] = "deleting" ~> state[s] = "gone"
=============================================================================
