------------------------- MODULE IngressController -------------------------
(***************************************************************************)
(* The octavia-ingress-controller (pkg/ingress/controller) on one Ingress  *)
(* without host, default backend or TLS.  Informer handlers queue one      *)
(* event per change; one worker carries the events out, each a sequence of *)
(* requests to Octavia, Neutron and the API server; nodeSyncLoop runs      *)
(* beside it and rewrites the members of the pools when the ready nodes    *)
(* change.  A request of one fails while the other has the load balancer   *)
(* in PENDING_UPDATE.  processItem swallows the errors of the handlers, so *)
(* an event that fails is not retried.                                     *)
(***************************************************************************)
EXTENDS Naturals, FiniteSets, SequencesExt

CONSTANTS
    Paths, Services, Nodes,
    Rules,       \* the rules users write: functions from Paths to Services or None
    None,
    MaxWrites,   \* bound: Ingresses written by users
    FirstNodes,  \* the nodes that are ready at first
    MaxNodes,    \* bound: nodes that become ready or stop to be
    MaxTroubles  \* bound: failed requests, and crashes other than by a panic

ASSUME ConstantsAssumption ==
  /\ Rules \subseteq [Paths -> Services \cup {None}]
  /\ FirstNodes \subseteq Nodes
  /\ MaxWrites \in Nat /\ MaxNodes \in Nat /\ MaxTroubles \in Nat

VARIABLES
    ing,         \* the Ingress in the API server
    ver,         \* resource version last given out
    ready,       \* the nodes that getNodeConditionPredicate accepts
    queue,       \* events not yet taken by the worker
    work,        \* the event the worker carries out and its local variables
    sync,        \* nodeSyncLoop and its local variables
    knownNodes,
    lb,          \* the load balancer with the Ingress's name
    sg,          \* the node ports that have the Ingress's security group
    owed,        \* whether the last event failed or was lost
    behind,      \* whether a change of the nodes was passed over
    writes, changes, troubles

vars == <<ing, ver, ready, queue, work, sync, knownNodes, lb, sg, owed, behind, writes, changes, troubles>>
cluster == <<ing, ver, ready, queue, writes, changes>>
history == <<owed, behind>>

NoGroup == None
NoPool == None

NoLB == [st |-> "none", fip |-> FALSE, desc |-> 0,
         pools |-> [s \in Services |-> NoPool], twins |-> {}, policies |-> <<>>]

\* The load balancer has one pool named after s, with these members, or two
\* (twins) of which the policies use the one with these members.

\* oldPools and oldPolicies are the tracker's view; pools and paths are the
\* ones that CreateResources has handled, cur the one it is at.
Rest == [pc |-> "idle", ver |-> 0, rules |-> [p \in Paths |-> None], nodes |-> {},
         oldPools |-> {}, oldPolicies |-> {}, pools |-> {}, paths |-> {}, id |-> 0, cur |-> None]

Asleep == [pc |-> "idle", nodes |-> {}, todo |-> {}, pool |-> None, gone |-> FALSE]

Wanted(rules) == {p \in Paths : rules[p] # None}
Backends(rules) == {rules[p] : p \in Wanted(rules)}
Existing(pools) == {s \in Services : pools[s] # NoPool}

\* The pool that a request for p reaches: the first policy that matches.
Route(p) ==
  LET at == {i \in 1..Len(lb.policies) : lb.policies[i].path = p}
  IN  IF at = {} THEN None ELSE lb.policies[CHOOSE i \in at : \A j \in at : i <= j].svc

At(pc) == work.pc = pc
Goto(pc) == work' = [work EXCEPT !.pc = pc]
Trouble == troubles < MaxTroubles /\ troubles' = troubles + 1

-----------------------------------------------------------------------------
(* The API server and the handlers of the informer.                        *)

Event(type, v, rules) == Append(queue, [type |-> type, ver |-> v, rules |-> rules])

\* AddFunc and UpdateFunc for an Ingress that has the controller's class.
UpdateFunc(old, new) ==
  IF ~old.valid \/ new.rules # old.rules THEN Event("ensure", new.ver, new.rules) ELSE queue

\* A user creates the Ingress, gives it the class, or changes its rules.  One
\* that had the class before may still have the address in its status.
UserWrites ==
  \E rules \in Rules, addr \in {FALSE, ing.addr} :
    LET new == [valid |-> TRUE, rules |-> rules, ver |-> ver + 1, addr |-> addr]
    IN  /\ writes < MaxWrites
        /\ ing.valid => rules # ing.rules /\ addr = ing.addr
        /\ ing' = new
        /\ ver' = ver + 1
        /\ writes' = writes + 1
        /\ queue' = UpdateFunc(ing, new)
        /\ UNCHANGED <<ready, work, sync, knownNodes, lb, sg, changes, history, troubles>>

\* DeleteFunc, and UpdateFunc for an Ingress that loses the class.
UserDeletes ==
  /\ ing.valid
  /\ ing' = [ing EXCEPT !.valid = FALSE]
  /\ queue' = Event("delete", ing.ver, ing.rules)
  /\ UNCHANGED <<ver, writes, ready, work, sync, knownNodes, lb, sg, changes, history, troubles>>

NodesChange ==
  \E n \in Nodes :
    /\ changes < MaxNodes
    /\ ready' = IF n \in ready THEN ready \ {n} ELSE ready \cup {n}
    /\ changes' = changes + 1
    /\ UNCHANGED <<ing, ver, writes, queue, work, sync, knownNodes, lb, sg, history, troubles>>

-----------------------------------------------------------------------------
(* The worker: one request per step.                                       *)

\* The event is done with; processItem returns nil either way.
Done(ok) == work' = Rest /\ owed' = ~ok /\ UNCHANGED behind

\* A step of the worker that succeeds or fails leaves everything else alone.
Worker == UNCHANGED <<cluster, sync, knownNodes>>

\* A request fails: by a fault, or as nodeSyncLoop has the load balancer pending.
RequestFails ==
  /\ work.pc # "idle"
  /\ Trouble \/ (sync.pc \in {"create", "write", "pools"} /\ UNCHANGED troubles)
  /\ Done(FALSE)
  /\ UNCHANGED <<lb, sg>> /\ Worker

ProcessNextItem ==
  /\ At("idle") /\ queue # <<>>
  /\ work' = [Rest EXCEPT !.pc = IF Head(queue).type = "delete" THEN "find" ELSE "lb",
                          !.ver = Head(queue).ver, !.rules = Head(queue).rules]
  /\ queue' = Tail(queue)
  /\ UNCHANGED <<ing, ver, writes, ready, changes, sync, knownNodes, lb, sg, history, troubles>>

\* Whether the description, which ends with the version of lb.desc, may contain
\* the event's version: the digits of an older version may be in a newer one.
Unchanged == work.ver <= lb.desc

EnsureLoadBalancer ==
  /\ At("lb")
  /\ \/ /\ lb.st = "none"
        /\ \/ lb' = [NoLB EXCEPT !.st = "active"] /\ Goto("listener") /\ UNCHANGED <<history, troubles>>
           \/ lb' = [NoLB EXCEPT !.st = "error"] /\ Trouble /\ Done(FALSE)
     \/ lb.st = "error" /\ Done(FALSE) /\ UNCHANGED <<lb, troubles>>
     \/ lb.st = "active" /\ Unchanged /\ Done(TRUE) /\ UNCHANGED <<lb, troubles>>
     \/ lb.st = "active" /\ work.ver # lb.desc /\ Goto("listener") /\ UNCHANGED <<lb, history, troubles>>
  /\ UNCHANGED sg /\ Worker

\* EnsureSecurityGroup and EnsureListener.
EnsureListener ==
  /\ At("listener") /\ Goto("list")
  /\ sg' = IF sg = NoGroup THEN {} ELSE sg
  /\ UNCHANGED <<lb, history, troubles>> /\ Worker

\* oldPolicyMapping keeps one of the policies that have the same rules, the
\* last of the list; the order of the list is Octavia's.
Mappings ==
  {m \in SUBSET Range(lb.policies) :
     /\ \A x, y \in m : x.path = y.path => x = y
     /\ \A x \in Range(lb.policies) : \E y \in m : y.path = x.path}

\* The nodes, the policies and the pools are listed.
NewResourceTracker ==
  /\ At("list")
  /\ \/ ready = {} /\ Done(FALSE)
     \/ /\ ready # {}
        /\ \E m \in Mappings :
             work' = [work EXCEPT !.pc = "pools", !.nodes = ready,
                                  !.oldPools = Existing(lb.pools), !.oldPolicies = m]
        /\ UNCHANGED history
  /\ UNCHANGED <<lb, sg, troubles>> /\ Worker

\* The order of the rules in the Ingress is fixed.
NextOf(S) == CHOOSE x \in S : TRUE

\* Octavia creates a pool, whether or not there is one with that name.
WithPool(s) ==
  [lb EXCEPT !.pools[s] = {}, !.twins = IF lb.pools[s] = NoPool THEN @ ELSE @ \cup {s}]

\* The next pool of CreateResources, created unless the tracker knows it.
CreatePool ==
  /\ At("pools") /\ ~(Backends(work.rules) \subseteq work.pools)
  /\ LET s == NextOf(Backends(work.rules) \ work.pools) IN
    /\ lb' = IF s \in work.oldPools THEN lb ELSE WithPool(s)
    /\ work' = [work EXCEPT !.pc = "members", !.pools = @ \cup {s}, !.cur = s]
    /\ UNCHANGED <<sg, history, troubles>> /\ Worker

BatchUpdatePoolMembers ==
  /\ At("members")
  /\ lb' = [lb EXCEPT !.pools[work.cur] = work.nodes]
  /\ work' = [work EXCEPT !.pc = "pools", !.cur = None]
  /\ behind' = (behind \/ (sync.pc # "idle" /\ sync.nodes # work.nodes))
  /\ UNCHANGED <<sg, owed, troubles>> /\ Worker

\* The old policy that already sends p where the Ingress wants it.
Kept(p) == {x \in work.oldPolicies : x.path = p /\ x.svc = work.rules[p]}

\* Mutant of CreateL7Policy: the old policy of the path is deleted first.
CreateL7PolicyAfter ==
  /\ At("pools") /\ Backends(work.rules) \subseteq work.pools /\ ~(Wanted(work.rules) \subseteq work.paths)
  /\ LET p == NextOf(Wanted(work.rules) \ work.paths)
         id == CHOOSE n \in 1..(Len(lb.policies) + 1) : \A x \in Range(lb.policies) : x.id # n
         old == {x \in work.oldPolicies : x.path = p}
     IN /\ IF Kept(p) # {}
             THEN work' = [work EXCEPT !.paths = @ \cup {p}] /\ UNCHANGED lb
             ELSE /\ lb' = [lb EXCEPT !.policies = Append(SelectSeq(@, LAMBDA x : x \notin old),
                                         [id |-> id, path |-> None, svc |-> work.rules[p]])]
                  /\ work' = [work EXCEPT !.pc = "rule", !.paths = @ \cup {p}, !.cur = p, !.id = id]
        /\ UNCHANGED <<sg, history, troubles>> /\ Worker

\* The next policy of CreateResources; Octavia puts a new policy last.
CreateL7Policy ==
  /\ At("pools") /\ Backends(work.rules) \subseteq work.pools /\ ~(Wanted(work.rules) \subseteq work.paths)
  /\ LET p == NextOf(Wanted(work.rules) \ work.paths)
         id == CHOOSE n \in 1..(Len(lb.policies) + 1) : \A x \in Range(lb.policies) : x.id # n
     IN /\ IF Kept(p) # {}
             THEN work' = [work EXCEPT !.paths = @ \cup {p}] /\ UNCHANGED lb
             ELSE /\ lb' = [lb EXCEPT !.policies = Append(@, [id |-> id, path |-> None, svc |-> work.rules[p]])]
                  /\ work' = [work EXCEPT !.pc = "rule", !.paths = @ \cup {p}, !.cur = p, !.id = id]
        /\ UNCHANGED <<sg, history, troubles>> /\ Worker

CreateL7Rule ==
  /\ At("rule")
  /\ lb' = [lb EXCEPT !.policies = [i \in DOMAIN @ |-> IF @[i].id = work.id THEN [@[i] EXCEPT !.path = work.cur] ELSE @[i]]]
  /\ work' = [work EXCEPT !.pc = "pools", !.cur = None, !.id = 0]
  /\ UNCHANGED <<sg, history, troubles>> /\ Worker

Created == At("pools") /\ Backends(work.rules) \subseteq work.pools /\ Wanted(work.rules) \subseteq work.paths

\* The old policies that are not to stay.
Invalid == {x \in work.oldPolicies : x.path = None \/ x \notin Kept(x.path)}

DeleteL7policy ==
  \E x \in Invalid :
    /\ Created
    /\ lb' = [lb EXCEPT !.policies = SelectSeq(@, LAMBDA y : y.id # x.id)]
    /\ work' = [work EXCEPT !.oldPolicies = @ \ {x}]
    /\ UNCHANGED <<sg, history, troubles>> /\ Worker

\* Octavia does not delete a pool that a policy uses.
DeletePool ==
  \E s \in work.oldPools \ Backends(work.rules) :
    /\ Created /\ Invalid = {}
    /\ IF \E x \in Range(lb.policies) : x.svc = s
         THEN Done(FALSE) /\ UNCHANGED <<lb, sync>>
         ELSE /\ lb' = [lb EXCEPT !.pools[s] = NoPool, !.twins = @ \ {s}]
              /\ work' = [work EXCEPT !.oldPools = @ \ {s}]
              /\ sync' = [sync EXCEPT !.gone = @ \/ (sync.pc = "write" /\ sync.pool = s)]
              /\ UNCHANGED history
    /\ UNCHANGED <<cluster, knownNodes, sg, troubles>>

Cleaned == Created /\ Invalid = {} /\ work.oldPools \subseteq Backends(work.rules)

\* EnsurePortSecurityGroup for the nodes listed, and EnsureFloatingIP.
EnsureFloatingIP ==
  /\ Cleaned /\ Goto("status")
  /\ sg' = sg \cup work.nodes
  /\ lb' = [lb EXCEPT !.fip = TRUE]
  /\ UNCHANGED <<history, troubles>> /\ Worker

\* Mutant of UpdateIngressStatus: the status is written whatever the version.
UpdateIngressStatusPatch ==
  /\ At("status")
  /\ IF ~ing.valid
       THEN Done(FALSE) /\ UNCHANGED <<ing, ver>>
       ELSE /\ ing' = [ing EXCEPT !.addr = TRUE, !.ver = IF ing.addr THEN @ ELSE ver + 1]
            /\ ver' = IF ing.addr THEN ver ELSE ver + 1
            /\ work' = [work EXCEPT !.pc = "desc", !.ver = ing'.ver]
            /\ UNCHANGED history
  /\ UNCHANGED <<ready, queue, writes, changes, sync, knownNodes, lb, sg, troubles>>

\* The API server refuses the update of an Ingress that changed since the event;
\* one that changes nothing keeps the version.  The informer ignores the change.
UpdateIngressStatus ==
  /\ At("status")
  /\ IF ~ing.valid \/ ing.ver # work.ver
       THEN Done(FALSE) /\ UNCHANGED <<ing, ver>>
       ELSE /\ ing' = [ing EXCEPT !.addr = TRUE, !.ver = IF ing.addr THEN @ ELSE ver + 1]
            /\ ver' = IF ing.addr THEN ver ELSE ver + 1
            /\ work' = [work EXCEPT !.pc = "desc", !.ver = ing'.ver]
            /\ UNCHANGED history
  /\ UNCHANGED <<ready, queue, writes, changes, sync, knownNodes, lb, sg, troubles>>

UpdateLoadBalancerDescription ==
  /\ At("desc") /\ Done(TRUE)
  /\ lb' = [lb EXCEPT !.desc = work.ver]
  /\ UNCHANGED <<sg, troubles>> /\ Worker

\* The group is detached from the ready nodes; Neutron keeps a group in use.
Detached == IF sg = NoGroup \/ sg \subseteq ready THEN NoGroup ELSE sg \ ready

\* deleteIngress up to the security group.
DeleteSecurityGroup ==
  /\ At("find")
  /\ IF lb.st = "none"
       THEN Done(TRUE) /\ UNCHANGED <<lb, sg>>
       ELSE /\ lb' = [lb EXCEPT !.fip = FALSE]
            /\ sg' = Detached
            /\ IF Detached = NoGroup THEN Goto("delete") /\ UNCHANGED history ELSE Done(FALSE)
  /\ UNCHANGED troubles /\ Worker

DeleteLoadbalancer ==
  /\ At("delete") /\ Done(TRUE)
  /\ lb' = NoLB
  /\ sync' = [sync EXCEPT !.gone = sync.pc \notin {"idle", "find"}]
  /\ UNCHANGED <<cluster, knownNodes, sg, troubles>>

-----------------------------------------------------------------------------
(* nodeSyncLoop.                                                           *)

\* What the loop leaves alone.
Loop == UNCHANGED <<cluster, work, sg, owed>>

\* A round ends; the nodes count as handled whether or not it went well.  They
\* are passed over if it did not, or if the worker still holds an older list.
RoundEnds(ok) ==
  /\ sync' = Asleep
  /\ knownNodes' = sync.nodes
  /\ behind' = (behind \/ ~ok \/ work.nodes \notin {{}, sync.nodes})

\* Mutant of NodeSyncLoop: that there is no node left is not remembered.
NodeSyncLoopEmpty ==
  /\ sync.pc = "idle" /\ ready \notin {{}, knownNodes}
  /\ sync' = [Asleep EXCEPT !.pc = "find", !.nodes = ready]
  /\ behind' = FALSE
  /\ UNCHANGED <<lb, knownNodes, troubles>> /\ Loop

\* The nodes are listed.
NodeSyncLoop ==
  /\ sync.pc = "idle" /\ ready # knownNodes
  /\ IF ready = {}
       THEN knownNodes' = {} /\ UNCHANGED <<sync, behind>>
       ELSE /\ sync' = [Asleep EXCEPT !.pc = "find", !.nodes = ready]
            /\ behind' = FALSE
            /\ UNCHANGED knownNodes
  /\ UNCHANGED <<lb, troubles>> /\ Loop

SyncFind ==
  /\ sync.pc = "find"
  /\ IF ing.valid /\ lb.st # "none"
       THEN /\ sync' = [sync EXCEPT !.pc = "pools", !.todo = Existing(lb.pools)]
            /\ UNCHANGED <<knownNodes, behind>>
       ELSE RoundEnds(TRUE)
  /\ UNCHANGED <<lb, troubles>> /\ Loop

\* The members of the next pool are read; members[0] of an empty list panics.
Panics(s) == ~sync.gone /\ lb.pools[s] = {}

SyncMembers ==
  \E s \in sync.todo :
    /\ sync.pc = "pools" /\ ~Panics(s)
    /\ sync' = IF sync.gone \/ lb.pools[s] = NoPool
                 THEN [sync EXCEPT !.todo = @ \ {s}]
                 ELSE [sync EXCEPT !.todo = @ \ {s}, !.pc = "ensure", !.pool = s]
    /\ UNCHANGED <<lb, knownNodes, behind, troubles>> /\ Loop

\* EnsurePoolMembers up to the pool: one that is gone is created again.
SyncEnsurePool ==
  /\ sync.pc = "ensure"
  /\ ~sync.gone /\ sync.pool \notin lb.twins /\ lb.st = "active"
  /\ sync' = [sync EXCEPT !.pc = IF lb.pools[sync.pool] = NoPool THEN "create" ELSE "write"]
  /\ UNCHANGED <<lb, knownNodes, behind, troubles>> /\ Loop

SyncCreatePool ==
  /\ sync.pc = "create" /\ ~sync.gone
  /\ sync' = [sync EXCEPT !.pc = "write"]
  /\ lb' = WithPool(sync.pool)
  /\ UNCHANGED <<knownNodes, behind, troubles>> /\ Loop

SyncWrite ==
  /\ sync.pc = "write" /\ ~sync.gone
  /\ lb' = [lb EXCEPT !.pools[sync.pool] = sync.nodes]
  /\ sync' = [sync EXCEPT !.pc = "pools", !.pool = None]
  /\ UNCHANGED <<knownNodes, behind, troubles>> /\ Loop

\* An error of EnsurePoolMembers leaves the other pools as they are.
SyncFails ==
  /\ sync.pc \in {"ensure", "create", "write"}
  /\ \/ /\ sync.gone \/ sync.pool \in lb.twins \/ lb.st # "active" \/ work.pc # "idle"
        /\ UNCHANGED troubles
     \/ Trouble
  /\ RoundEnds(FALSE)
  /\ UNCHANGED lb /\ Loop

\* Mutant of SyncDone: the round is over after any pool.
SyncDoneFirst ==
  /\ sync.pc = "pools"
  /\ RoundEnds(TRUE)
  /\ UNCHANGED <<lb, troubles>> /\ Loop

SyncDone ==
  /\ sync.pc = "pools" /\ sync.todo = {}
  /\ RoundEnds(TRUE)
  /\ UNCHANGED <<lb, troubles>> /\ Loop

-----------------------------------------------------------------------------
(* The controller stops and is started again.  The informer then adds an   *)
(* Ingress that is there; one that was deleted is not heard of.            *)

Start ==
  /\ work' = Rest /\ sync' = Asleep
  /\ knownNodes' = ready
  /\ queue' = IF ing.valid THEN <<[type |-> "ensure", ver |-> ing.ver, rules |-> ing.rules]>> ELSE <<>>
  /\ owed' = (owed \/ (~ing.valid /\ (queue # <<>> \/ work.pc # "idle")))
  /\ behind' = (behind \/ knownNodes # ready \/ sync.pc # "idle")
  /\ UNCHANGED <<ing, ver, writes, ready, changes, lb, sg>>

Crash == Trouble /\ Start

Panic == sync.pc = "pools" /\ (\E s \in sync.todo : Panics(s)) /\ Start /\ UNCHANGED troubles

Init ==
  /\ ing = [valid |-> FALSE, rules |-> [p \in Paths |-> None], ver |-> 0, addr |-> FALSE]
  /\ ver = 0 /\ queue = <<>>
  /\ ready = FirstNodes /\ knownNodes = FirstNodes
  /\ work = Rest /\ sync = Asleep
  /\ lb = NoLB /\ sg = NoGroup
  /\ owed = FALSE /\ behind = FALSE
  /\ writes = 0 /\ changes = 0 /\ troubles = 0

Request ==
  \/ ProcessNextItem \/ EnsureLoadBalancer \/ EnsureListener
  \/ NewResourceTracker \/ CreatePool \/ BatchUpdatePoolMembers
  \/ CreateL7Policy \/ CreateL7Rule \/ DeleteL7policy \/ DeletePool
  \/ EnsureFloatingIP \/ UpdateIngressStatus
  \/ UpdateLoadBalancerDescription
  \/ DeleteSecurityGroup \/ DeleteLoadbalancer

Round ==
  \/ NodeSyncLoop \/ SyncFind \/ SyncMembers \/ SyncEnsurePool \/ SyncCreatePool
  \/ SyncWrite \/ SyncFails \/ SyncDone \/ Panic

Next ==
  \/ UserWrites \/ UserDeletes \/ NodesChange
  \/ Request \/ RequestFails
  \/ Round
  \/ Crash

Spec == Init /\ [][Next]_vars

\* The two goroutines keep running.
FairSpec == Spec /\ WF_vars(Request) /\ WF_vars(Round)

-----------------------------------------------------------------------------
Quiet == queue = <<>> /\ work.pc = "idle"

\* Two policies with the rules of one path, left by an attempt that failed
\* between creating a policy and deleting the one it replaces.
Doubled(p) == \E x, y \in Range(lb.policies) : x # y /\ x.path = p /\ y.path = p

\* Once the queue is empty and unless the last event failed or was lost, the
\* load balancer does what the Ingress says: ensureIngress routes each path to
\* its Service, whatever events were queued, skipped as unchanged or failed
\* before, but for a path with two policies; deleteIngress leaves no load
\* balancer and no security group.
QuietIsDone ==
  Quiet /\ ~owed =>
    IF ing.valid
      THEN lb.st = "active" /\ lb.fip /\ \A p \in Paths : Route(p) = ing.rules[p] \/ Doubled(p)
      ELSE lb.st = "none" /\ sg = NoGroup

\* Once nodeSyncLoop has seen the present nodes, every pool has them as its
\* members, unless it passed them over or the last event failed.
MembersCurrent ==
  Quiet /\ ~owed /\ ~behind /\ sync.pc = "idle" /\ knownNodes = ready /\ ready # {} =>
    \A s \in Existing(lb.pools) : lb.pools[s] = ready

\* CreateResources before CleanupResources: while ensureIngress moves a path to
\* another Service, or fails to, the path always has a policy.
NeverUnrouted ==
  [][\A p \in Paths : Route(p) # None /\ work.pc \notin {"idle", "find", "delete"}
                         /\ work.rules[p] # None => Route(p)' # None]_vars

\* The queue drains and nodeSyncLoop comes to rest, whatever fails.
Settles == <>[](Quiet /\ sync.pc = "idle" /\ (knownNodes = ready))
============================================================================
