----------------------------- MODULE OctaviaPool -----------------------------
(***************************************************************************)
(* The pool behind one listener of a Service's load balancer               *)
(* (pkg/openstack/loadbalancer.go: ensureOctaviaPool and                   *)
(* ensureOctaviaHealthMonitor; pkg/util/openstack: the requests and the    *)
(* serial update of members).  Two workers of the service controller meet  *)
(* here: "svc" ensures the Service as a whole, "node" updates the members  *)
(* when nodes come and go.  Octavia takes one request at a time: a load    *)
(* balancer that is PENDING_UPDATE refuses the next one, so every request  *)
(* is followed by a wait until it is ACTIVE again.                         *)
(***************************************************************************)
EXTENDS Naturals, FiniteSets

CONSTANTS
    None,
    Nodes, Addressed,   \* the nodes, and those with an address
    Confs,              \* what the Service may ask for: records of proxy, monitor, local, delay, flaw
    Sources,            \* where subnets may be configured: annotations, class and options
    Providers,          \* the settings of the cloud: ovn and serial
    MaxEdits, MaxTroubles

PoolIDs == 1..3

ASSUME ConstantsAssumption ==
  /\ Addressed \subseteq Nodes /\ MaxEdits \in Nat /\ MaxTroubles \in Nat
  /\ None \notin PoolIDs

VARIABLES
    conf, nodes,   \* the Service and the nodes as they are now
    src, cloud,    \* the sources of subnets and the provider: fixed
    lb,            \* "ACTIVE", "PENDING" or "ERROR"
    pool,          \* the listener's pool, or None
    proto, members, monitor,   \* what the pool has
    dirty,         \* what the workers have to do (again)
    w,             \* the workers
    spoiled,       \* history: what the code lets go wrong
    refused,       \* history: a request was refused though nobody else was at work
    edits, troubles

env == <<conf, nodes, src, cloud, edits>>
poolVars == <<pool, proto, members, monitor>>
vars == <<env, lb, poolVars, dirty, w, spoiled, refused, troubles>>

Workers == {"svc", "node"}
Other(c) == IF c = "svc" THEN "node" ELSE "svc"
Idle == [pc |-> "idle", conf |-> None, nodes |-> {}, subnet |-> None, alone |-> FALSE,
         pool |-> None, mon |-> FALSE, todo |-> {}, drop |-> {}, next |-> "idle"]

At(c, pc) == w[c].pc = pc
Goto(c, pc) == w' = [w EXCEPT ![c].pc = pc]
Fault == troubles < MaxTroubles /\ troubles' = troubles + 1
NoFault == UNCHANGED troubles

\* The queue tries again later.
Fail(c) == w' = [w EXCEPT ![c] = Idle] /\ dirty' = [dirty EXCEPT ![c] = TRUE]

-----------------------------------------------------------------------------
(* The configuration *)

First(seq) ==
  LET set == {i \in DOMAIN seq : seq[i] # None} IN
  IF set = {} THEN None ELSE seq[CHOOSE i \in set : \A j \in set : i <= j]

\* The annotation, then the class, then the options.
getMemberSubnetID == First(<<src.ann.member, src.class.member, src.opts.member>>)
getSubnetID == First(<<src.ann.subnet, src.class.subnet, src.opts.subnet>>)
getNetworkID == First(<<src.ann.network, src.class.network, src.opts.network>>)

\* The health check of nodes is used when only local endpoints take traffic.
healthCheckNodePort(c) == c.monitor /\ c.local

\* What is refused when an external Service is ensured: a TLS container or a class that
\* does not exist, a floating subnet outside its network, PROXY together with
\* X-Forwarded-For, source ranges that cannot be parsed.
Refused == {"tls", "class", "floating", "both", "ranges"}

\* The subnet of a node is asked for when nothing is configured.
checkService(c, ns, first) ==
  LET subnet == IF getMemberSubnetID # None THEN getMemberSubnetID
                ELSE IF getNetworkID = None /\ getSubnetID = None THEN "node's"
                ELSE First(<<src.opts.subnet, getSubnetID>>) IN
  [ok |-> /\ ns # {} /\ c.flaw \notin Refused
          /\ getNetworkID = None /\ getSubnetID = None => first \in Addressed,
   subnet |-> subnet]

\* Neither TLS container, floating subnet nor source ranges are looked at, and the
\* class only where it is needed.
checkServiceUpdate(c, ns, first) ==
  LET subnet == First(<<getMemberSubnetID, src.opts.subnet,
                        IF src.hasClass THEN src.class.subnet
                        ELSE First(<<src.ann.subnet, IF ns = {} THEN None ELSE "node's">>)>>) IN
  [ok |-> /\ c.flaw # "both"
          /\ c.flaw = "class" => src.ann.member # None
          /\ subnet = "node's" => first \in Addressed,
   subnet |-> subnet]

\* ovn has no HTTP monitors.
canUseHTTPMonitor == ~cloud.ovn

buildMonitorCreateOpts(c) ==
  [type |-> IF healthCheckNodePort(c) /\ canUseHTTPMonitor THEN "HTTP" ELSE "TCP", delay |-> c.delay]

buildPoolCreateOpt(c) == IF c.proxy THEN "PROXY" ELSE "TCP"

\* Nodes without an address are left out.  The names of the members that should be
\* there hold the port of the health check even when it is not used.
buildBatchUpdateMemberOpts(c, ns, subnet) ==
  [members |-> {[node |-> n, hc |-> healthCheckNodePort(c) /\ canUseHTTPMonitor, subnet |-> subnet]
                : n \in ns \cap Addressed},
   names |-> (ns \cap Addressed) \X {healthCheckNodePort(c)}]

-----------------------------------------------------------------------------
(* A round of a worker *)

\* The load balancer must be ACTIVE when a round starts.
Begin(c, first) ==
  LET check == IF c = "svc" THEN checkService(conf, nodes, first) ELSE checkServiceUpdate(conf, nodes, first) IN
  /\ IF nodes = {} THEN first = None ELSE first \in nodes
  /\ At(c, "idle") /\ dirty[c]
  /\ check.ok /\ lb = "ACTIVE"
  /\ dirty' = [dirty EXCEPT ![c] = FALSE]
  /\ w' = [x \in Workers |->
             IF x = c THEN [Idle EXCEPT !.pc = "get", !.conf = conf, !.nodes = nodes, !.subnet = check.subnet,
                                        !.alone = At(Other(c), "idle")]
             ELSE IF At(x, "idle") THEN w[x] ELSE [w[x] EXCEPT !.alone = FALSE]]
  /\ UNCHANGED <<env, lb, poolVars, spoiled, refused, troubles>>

\* The round is over.  Ensuring the Service with nobody else at work mends everything.
Done(c) ==
  /\ At(c, "done")
  /\ w' = [w EXCEPT ![c] = Idle]
  /\ spoiled' = IF c = "svc" /\ w[c].alone /\ w[c].conf = conf /\ w[c].nodes = nodes THEN {} ELSE spoiled
  /\ UNCHANGED <<env, lb, poolVars, dirty, refused, troubles>>

\* Each worker looks at the nodes and the Service once, when its round begins.  What
\* it writes is out of date when the other has already taken up the change.
Overtaken(c) ==
  LET late == IF c = "svc" THEN w[c].nodes # nodes ELSE w[c].conf # conf IN
  spoiled' = IF late /\ ~dirty[Other(c)] THEN spoiled \cup {"raced"} ELSE spoiled

AfterPool(c) == IF c = "svc" THEN "monitor" ELSE "done"

\* A request that Octavia takes.
Accepted(c, after) ==
  /\ lb = "ACTIVE" /\ lb' = "PENDING"
  /\ w' = [w EXCEPT ![c].pc = "wait", ![c].next = after]
  /\ Overtaken(c)
  /\ UNCHANGED <<dirty, refused>>

\* One that it refuses: the load balancer is not ACTIVE, or the request is wrong.
Refuse(c) ==
  /\ Fail(c)
  /\ refused' = (refused \/ w[c].alone)
  /\ UNCHANGED <<lb, poolVars, spoiled>>

Mine(c) == pool # None /\ pool = w[c].pool

\* Mutant of WaitActiveAndGetLoadBalancer: nobody waits.
WaitActiveAndGetLoadBalancerNot(c) ==
  /\ At(c, "wait")
  /\ lb # "ERROR" /\ Goto(c, w[c].next) /\ NoFault /\ UNCHANGED dirty
  /\ UNCHANGED <<env, lb, poolVars, spoiled, refused>>

WaitActiveAndGetLoadBalancer(c) ==
  /\ At(c, "wait")
  /\ \/ lb = "ACTIVE" /\ Goto(c, w[c].next) /\ NoFault /\ UNCHANGED dirty
     \/ lb = "ERROR" /\ Fail(c) /\ NoFault
     \/ lb = "PENDING" /\ Fail(c) /\ Fault     \* the time is up
  /\ UNCHANGED <<env, lb, poolVars, spoiled, refused>>

-----------------------------------------------------------------------------
(* ensureOctaviaPool *)

\* Mutant of GetPoolByListener: a listener without a pool is an error.
GetPoolByListenerStrict(c) ==
  /\ At(c, "get")
  /\ IF pool = None THEN Fail(c)
     ELSE /\ w' = [w EXCEPT ![c].pool = pool, ![c].mon = (monitor # None),
                       ![c].pc = IF proto = buildPoolCreateOpt(w[c].conf) THEN "members" ELSE "delete"]
          /\ UNCHANGED dirty
  /\ UNCHANGED <<env, lb, poolVars, spoiled, refused, troubles>>

\* The pool with the wrong protocol is deleted, the missing one created.
GetPoolByListener(c) ==
  /\ At(c, "get")
  /\ IF pool = None THEN Goto(c, "create")
     ELSE w' = [w EXCEPT ![c].pool = pool, ![c].mon = (monitor # None),
                   ![c].pc = IF proto = buildPoolCreateOpt(w[c].conf) THEN "members" ELSE "delete"]
  /\ UNCHANGED <<env, lb, poolVars, dirty, spoiled, refused, troubles>>

\* A pool that is gone already is as good as deleted.
DeletePool(c) ==
  /\ At(c, "delete")
  /\ \/ /\ Mine(c) /\ Accepted(c, "create")
        /\ pool' = None /\ members' = {} /\ monitor' = None /\ UNCHANGED proto
     \/ /\ ~Mine(c)
        /\ w' = [w EXCEPT ![c].pc = "wait", ![c].next = "create"]
        /\ UNCHANGED <<lb, poolVars, dirty, spoiled, refused>>
     \/ Mine(c) /\ lb # "ACTIVE" /\ Refuse(c)
  /\ UNCHANGED <<env, troubles>>

FreshPool == CHOOSE i \in PoolIDs : i \notin {w[c].pool : c \in {x \in Workers : ~At(x, "idle")}}

\* A listener has one pool.
CreatePool(c) ==
  /\ At(c, "create")
  /\ \/ /\ pool = None /\ lb = "ACTIVE"
        /\ lb' = "PENDING"
        /\ pool' = FreshPool /\ proto' = buildPoolCreateOpt(w[c].conf) /\ UNCHANGED <<members, monitor>>
        /\ w' = [w EXCEPT ![c].pc = "wait", ![c].next = "members", ![c].pool = FreshPool, ![c].mon = FALSE]
        /\ Overtaken(c)
        /\ UNCHANGED <<dirty, refused>>
     \/ (pool # None \/ lb # "ACTIVE") /\ Refuse(c)
  /\ UNCHANGED <<env, troubles>>

\* The members that are there.  When they cannot be read, the batch goes on as
\* if there were none.
GetMembersbyPool(c) ==
  LET want == buildBatchUpdateMemberOpts(w[c].conf, w[c].nodes, w[c].subnet)
      names == {<<m.node, m.hc>> : m \in IF Mine(c) THEN members ELSE {}} IN
  /\ At(c, "members") /\ ~cloud.serial
  /\ \/ /\ Mine(c) /\ NoFault /\ UNCHANGED spoiled
        /\ Goto(c, IF names = want.names THEN AfterPool(c) ELSE "batch")
     \/ /\ ~Mine(c) /\ NoFault
        /\ Goto(c, IF want.names = {} THEN AfterPool(c) ELSE "batch")
        /\ spoiled' = IF want.names = {} THEN spoiled \cup {"unread"} ELSE spoiled
     \/ /\ Fault
        /\ Goto(c, IF want.names = {} THEN AfterPool(c) ELSE "batch")
        /\ spoiled' = IF want.names = {} THEN spoiled \cup {"unread"} ELSE spoiled
  /\ UNCHANGED <<env, lb, poolVars, dirty, refused>>

\* Octavia keeps the subnet of a member that is there already.
BatchUpdatePoolMembers(c) ==
  LET want == buildBatchUpdateMemberOpts(w[c].conf, w[c].nodes, w[c].subnet).members
      kept(m) == {o \in members : o.node = m.node}
      new == {[m EXCEPT !.subnet = IF kept(m) = {} THEN @ ELSE (CHOOSE o \in kept(m) : TRUE).subnet] : m \in want} IN
  /\ At(c, "batch")
  /\ \/ /\ Mine(c) /\ Accepted(c, AfterPool(c))
        /\ members' = new /\ UNCHANGED <<pool, proto, monitor>>
     \/ (~Mine(c) \/ lb # "ACTIVE") /\ Refuse(c)
  /\ UNCHANGED <<env, troubles>>

\* Without the batch: every node must have an address; missing members are created
\* one by one, then those that are left are deleted.  The first node without an
\* address ends the round, after those before it.
SeriallyReconcilePoolMembers(c) ==
  LET have == IF Mine(c) THEN {m.node : m \in members} ELSE {} IN
  /\ At(c, "members") /\ cloud.serial
  /\ \/ /\ w' = [w EXCEPT ![c].pc = "serial", ![c].todo = w[c].nodes \ have, ![c].drop = have \ w[c].nodes]
        /\ NoFault /\ UNCHANGED dirty
     \/ Fault /\ Fail(c)
  /\ UNCHANGED <<env, lb, poolVars, spoiled, refused>>

\* Mutant of CreateMember: what is left goes before the missing come.
CreateMemberLast(c, n) ==
  /\ At(c, "serial") /\ n \in w[c].todo /\ w[c].drop = {}
  /\ n \in Addressed /\ Mine(c) /\ lb = "ACTIVE"
  /\ lb' = "PENDING"
  /\ members' = {[node |-> n, hc |-> FALSE, subnet |-> None]} /\ UNCHANGED <<pool, proto, monitor>>
  /\ w' = [w EXCEPT ![c].pc = "wait", ![c].next = "serial", ![c].todo = @ \ {n}]
  /\ UNCHANGED <<env, dirty, spoiled, refused, troubles>>

CreateMember(c, n) ==
  /\ At(c, "serial") /\ n \in w[c].todo
  /\ \/ /\ n \in Addressed /\ Mine(c) /\ lb = "ACTIVE"
        /\ lb' = "PENDING"
        /\ members' = {m \in members : m.node # n} \cup {[node |-> n, hc |-> FALSE, subnet |-> None]}
        /\ UNCHANGED <<pool, proto, monitor>>
        /\ w' = [w EXCEPT ![c].pc = "wait", ![c].next = "serial", ![c].todo = @ \ {n}]
        /\ Overtaken(c)
        /\ UNCHANGED <<dirty, refused>>
     \/ n \in Addressed /\ (~Mine(c) \/ lb # "ACTIVE") /\ Refuse(c)
     \/ n \notin Addressed /\ Fail(c) /\ UNCHANGED <<lb, poolVars, spoiled, refused>>
  /\ UNCHANGED <<env, troubles>>

\* A member that is gone already is as good as deleted.
DeleteMember(c, n) ==
  LET there == Mine(c) /\ \E m \in members : m.node = n IN
  /\ At(c, "serial") /\ w[c].todo = {} /\ n \in w[c].drop
  /\ \/ /\ there /\ lb = "ACTIVE"
        /\ lb' = "PENDING"
        /\ members' = {m \in members : m.node # n} /\ UNCHANGED <<pool, proto, monitor>>
        /\ w' = [w EXCEPT ![c].pc = "wait", ![c].next = "serial", ![c].drop = @ \ {n}]
        /\ Overtaken(c)
        /\ UNCHANGED <<dirty, refused>>
     \/ /\ ~there
        /\ w' = [w EXCEPT ![c].pc = "wait", ![c].next = "serial", ![c].drop = @ \ {n}]
        /\ UNCHANGED <<lb, poolVars, dirty, spoiled, refused>>
     \/ there /\ lb # "ACTIVE" /\ Refuse(c)
  /\ UNCHANGED <<env, troubles>>

SerialDone(c) ==
  /\ At(c, "serial") /\ w[c].todo = {} /\ w[c].drop = {}
  /\ Goto(c, AfterPool(c))
  /\ UNCHANGED <<env, lb, poolVars, dirty, spoiled, refused, troubles>>

-----------------------------------------------------------------------------
(* ensureOctaviaHealthMonitor *)

SetMonitor(mon) == monitor' = mon /\ UNCHANGED <<pool, proto, members>>

\* What to do is read off the monitor the pool had when it was looked up.
ensureOctaviaHealthMonitor(c) ==
  LET want == buildMonitorCreateOpts(w[c].conf)
      enable == w[c].conf.monitor
      have == Mine(c) /\ monitor # None IN
  /\ At(c, "monitor")
  /\ \/ /\ ~w[c].mon
        /\ Goto(c, IF enable THEN "createMon" ELSE "done") /\ UNCHANGED dirty /\ NoFault
     \/ w[c].mon /\ ~have /\ Fail(c) /\ NoFault
     \/ w[c].mon /\ Fail(c) /\ Fault
     \/ /\ w[c].mon /\ have /\ UNCHANGED dirty /\ NoFault
        /\ Goto(c, IF monitor.type # want.type
                   THEN IF monitor.delay # want.delay THEN "deleteMonUpdate" ELSE "deleteMonCreate"
                   ELSE IF monitor.delay # want.delay THEN "updateMon"
                   ELSE IF enable THEN "done" ELSE "deleteMon")
  /\ UNCHANGED <<env, lb, poolVars, spoiled, refused>>

\* A monitor of the wrong type is deleted.  When its delay is wrong too, the update of
\* the monitor that is no longer there ends the round.
DeleteHealthMonitor(c) ==
  /\ w[c].pc \in {"deleteMon", "deleteMonCreate", "deleteMonUpdate"}
  /\ LET next == IF At(c, "deleteMonUpdate") THEN "updateNone"
                 ELSE IF At(c, "deleteMonCreate") /\ w[c].conf.monitor THEN "createMon" ELSE "done" IN
     IF Mine(c)
     THEN (Accepted(c, next) /\ SetMonitor(None)) \/ (lb # "ACTIVE" /\ Refuse(c))
     ELSE /\ w' = [w EXCEPT ![c].pc = "wait", ![c].next = next]
          /\ UNCHANGED <<lb, poolVars, dirty, spoiled, refused>>
  /\ UNCHANGED <<env, troubles>>

\* Mutant of UpdateHealthMonitor: the monitor keeps its delay.
UpdateHealthMonitorNot(c) ==
  /\ At(c, "updateMon")
  /\ Goto(c, IF w[c].conf.monitor THEN "done" ELSE "deleteMon")
  /\ UNCHANGED <<env, lb, poolVars, dirty, spoiled, refused, troubles>>

UpdateHealthMonitor(c) ==
  /\ \/ /\ At(c, "updateMon") /\ Mine(c)
        /\ Accepted(c, IF w[c].conf.monitor THEN "done" ELSE "deleteMon")
        /\ SetMonitor([monitor EXCEPT !.delay = w[c].conf.delay])
     \/ At(c, "updateMon") /\ (~Mine(c) \/ lb # "ACTIVE") /\ Refuse(c)
     \/ At(c, "updateNone") /\ Fail(c) /\ UNCHANGED <<lb, poolVars, spoiled, refused>>
  /\ UNCHANGED <<env, troubles>>

CreateHealthMonitor(c) ==
  /\ At(c, "createMon")
  /\ \/ Mine(c) /\ Accepted(c, "done") /\ SetMonitor(buildMonitorCreateOpts(w[c].conf))
     \/ (~Mine(c) \/ lb # "ACTIVE") /\ Refuse(c)
  /\ UNCHANGED <<env, troubles>>

-----------------------------------------------------------------------------
(* Octavia, the users and the nodes *)

LoadBalancerActive ==
  /\ lb = "PENDING" /\ lb' = "ACTIVE"
  /\ UNCHANGED <<env, poolVars, dirty, w, spoiled, refused, troubles>>

LoadBalancerError ==
  /\ lb = "PENDING" /\ lb' = "ERROR" /\ Fault
  /\ UNCHANGED <<env, poolVars, dirty, w, spoiled, refused>>

EditService(c) ==
  /\ edits < MaxEdits /\ edits' = edits + 1
  /\ c # conf /\ conf' = c
  /\ dirty' = [dirty EXCEPT !["svc"] = TRUE]
  /\ UNCHANGED <<nodes, src, cloud, lb, poolVars, w, spoiled, refused, troubles>>

ChangeNodes(ns) ==
  /\ edits < MaxEdits /\ edits' = edits + 1
  /\ ns # nodes /\ nodes' = ns
  /\ dirty' = [dirty EXCEPT !["node"] = TRUE]
  /\ UNCHANGED <<conf, src, cloud, lb, poolVars, w, spoiled, refused, troubles>>

Init ==
  /\ conf \in {c \in Confs : c.flaw = None} /\ nodes = Addressed
  /\ src \in Sources /\ cloud \in Providers
  /\ lb = "ACTIVE"
  /\ pool = None /\ proto = "TCP" /\ members = {} /\ monitor = None
  /\ dirty = [c \in Workers |-> c = "svc"]
  /\ w = [c \in Workers |-> Idle]
  /\ spoiled = {} /\ refused = FALSE
  /\ edits = 0 /\ troubles = 0

Step(c) ==
  \/ \E first \in Nodes \cup {None} : Begin(c, first)
  \/ WaitActiveAndGetLoadBalancer(c) \/ GetPoolByListener(c) \/ DeletePool(c) \/ CreatePool(c)
  \/ GetMembersbyPool(c) \/ BatchUpdatePoolMembers(c)
  \/ SeriallyReconcilePoolMembers(c) \/ SerialDone(c)
  \/ \E n \in Nodes : CreateMember(c, n) \/ DeleteMember(c, n)
  \/ ensureOctaviaHealthMonitor(c) \/ DeleteHealthMonitor(c)
  \/ UpdateHealthMonitor(c) \/ CreateHealthMonitor(c) \/ Done(c)

Next ==
  \/ \E c \in Workers : Step(c)
  \/ LoadBalancerActive \/ LoadBalancerError
  \/ \E c \in Confs : EditService(c)
  \/ \E ns \in SUBSET Nodes : ChangeNodes(ns)

\* The workers go on and Octavia ends what it has begun.
Fairness ==
  /\ \A c \in Workers : WF_vars(Step(c))
  /\ WF_vars(LoadBalancerActive)

Spec == Init /\ [][Next]_vars /\ Fairness

-----------------------------------------------------------------------------
(* Properties *)

Quiet == \A c \in Workers : At(c, "idle") /\ ~dirty[c]

\* The two paths agree on the subnet of members (see checkService, checkServiceUpdate).
SubnetsAgree ==
  \/ getMemberSubnetID # None \/ src.opts.subnet # None
  \/ IF src.hasClass THEN src.class.subnet # None /\ src.ann.subnet = None
     ELSE src.ann.subnet # None \/ getNetworkID = None

\* When both workers have nothing left to do, the pool has the protocol the Service
\* asks for, a member for each node with an address, each to be probed at the port
\* of the health check if that is used, all in one subnet, and the monitor asked
\* for (ensureOctaviaPool, ensureOctaviaHealthMonitor), whatever the two did at
\* once.  Not so where a round that began before the other's was finished writes
\* what it saw, or members that cannot be read pass for none.
PoolMatches ==
  Quiet /\ spoiled = {} =>
    /\ pool # None
    /\ proto = buildPoolCreateOpt(conf)
    /\ {m.node : m \in members} = nodes \cap Addressed
    /\ monitor = IF conf.monitor THEN buildMonitorCreateOpts(conf) ELSE None
    /\ ~cloud.serial => \A m \in members : m.hc = (healthCheckNodePort(conf) /\ canUseHTTPMonitor)
    /\ ~cloud.serial /\ SubnetsAgree => Cardinality({m.subnet : m \in members}) <= 1

\* A request of a worker that has the load balancer to itself is never refused:
\* rounds start when it is ACTIVE, and each request is waited for before the next
\* (WaitActiveAndGetLoadBalancer), even after time-outs and failed rounds.
NeverRefused == ~refused

\* While a pool stays, no step takes a member from it whose node the acting worker
\* wants there: new members come before old ones go (SeriallyReconcilePoolMembers)
\* or all change at once (BatchUpdatePoolMembers).
KeepsWanted ==
  [][\A c \in Workers, n \in Nodes :
       /\ w'[c] # w[c] /\ ~At(c, "idle") /\ pool # None /\ pool' = pool
       /\ n \in w[c].nodes \cap Addressed /\ \E m \in members : m.node = n
       => \E m \in members' : m.node = n]_vars

\* The Service can be ensured: nothing about it is wrong, and all nodes have addresses.
Sound == conf.flaw = None /\ nodes # {} /\ nodes \subseteq Addressed

\* Once edits and faults are over both workers come to rest, unless the load
\* balancer is broken or the Service or its nodes cannot be served: refused requests
\* are tried again and do not go on refusing each other.
Settles == <>[](Quiet \/ lb = "ERROR" \/ ~Sound)
=============================================================================
