------------------------------ MODULE LBAccess ------------------------------
(***************************************************************************)
(* The Neutron side of Services of type LoadBalancer                       *)
(* (pkg/openstack/loadbalancer.go): the floating IP of the load balancer   *)
(* (ensureFloatingIP) and the security group that opens the node ports     *)
(* (ensureAndUpdateOctaviaSecurityGroup, ensureSecurityGroupDeleted).      *)
(*                                                                         *)
(* The service worker runs EnsureLoadBalancer and EnsureLoadBalancerDeleted *)
(* and the node worker runs UpdateLoadBalancer beside it, on the Service   *)
(* as the service worker last saw it.  Both go through the same steps on   *)
(* the security group; every request that they can both make, or that can  *)
(* fail on its own, is a step.  Listeners, pools and tags on several       *)
(* workers are the subject of ServiceLB: here there is one service worker, *)
(* so floating IPs and load balancers change in one step each.             *)
(*                                                                         *)
(* The load balancer of a Service is written as the Service that owns it,  *)
(* a floating IP as its address, a Node as its one port.                   *)
(***************************************************************************)
EXTENDS Naturals, FiniteSets

CONSTANTS
    Services,
    LBOf,            \* LBOf[s]: the owner of the load balancer of s
    Nodes,
    NodeChoices,     \* the sets of Nodes that are fit for load balancing
    Rules,           \* node ports, as the rules that open them
    UserFIPs,        \* floating IPs that users made
    PoolFIPs,        \* addresses of the floating network that are free
    Taken,           \* those of UserFIPs that are attached elsewhere
    SpecChoices,     \* SpecChoices[s]: what users ask for
    ManageChoices,   \* values of opts.ManageSecurityGroups, before and after a restart
    FloatingNetwork, \* a floating network is configured or found
    None,
    MaxEvents        \* bound: edits, changes of the Nodes, failures and restarts together

FIPs == UserFIPs \cup PoolFIPs

Specs == [internal : BOOLEAN,                \* the internal annotation
          keep     : BOOLEAN,                \* the keep-floatingip annotation
          ip       : FIPs \cup {None},       \* .spec.loadBalancerIP
          rules    : SUBSET Rules]           \* .spec.ports, by node port

ASSUME AccessAssumption ==
  /\ LBOf \in [Services -> Services] /\ \A s \in Services : LBOf[LBOf[s]] = LBOf[s]
  /\ NodeChoices \subseteq SUBSET Nodes \ {{}}
  /\ UserFIPs \cap PoolFIPs = {} /\ Taken \subseteq UserFIPs
  /\ SpecChoices \in [Services -> SUBSET Specs]
  /\ ManageChoices \subseteq BOOLEAN /\ FloatingNetwork \in BOOLEAN
  /\ None \notin Services \cup FIPs \cup Nodes
  /\ MaxEvents \in Nat

VARIABLES
    state,    \* state[s]: "absent", "new" (no finalizer yet), "present", "deleting" or "gone"
    spec,     \* spec[s]: what the user asks for now
    queue,    \* the service queue
    status,   \* status[s]: the address in .status.loadBalancer ("vip" or a floating IP)
    nodes,    \* the Nodes fit for load balancing
    manage,   \* opts.ManageSecurityGroups
    alive,    \* existing load balancers
    served,   \* Services that have their listeners
    tags,     \* tags[l]: Services in the tags of l
    fip,      \* fip[f]: does it exist, did the controller make it, where is it attached
    groups,   \* existing security groups <<s, i>>, of Service s
    rules,    \* rules[g]
    portSG,   \* portSG[n]: which of them are on the port of n
    job,      \* job["service"], job["node"]: what the two workers do
    cache,    \* cache[s]: the Service as last processed, or None
    todo,     \* Services left to the node worker in its round
    synced,   \* lastSyncedNodes
    kept,     \* history: floating IPs that a keep-floatingip annotation saved
    harmed,   \* history: Services hit by a race or a failure that the code does not handle
    events

lbVars == <<alive, served, tags, fip, kept>>
sgVars == <<groups, rules, portSG>>
roundVars == <<todo, synced>>
vars == <<state, spec, queue, status, nodes, manage, alive, served, tags, fip, groups, rules, portSG,
          job, cache, todo, synced, kept, harmed, events>>

Workers == {"service", "node"}
GroupIds == Services \X {1, 2}
GroupsOf(s) == {g \in groups : g[1] = s}

NoSpec == [internal |-> FALSE, keep |-> FALSE, ip |-> None, rules |-> {}]

Idle == [pc |-> "idle", s |-> None, spec |-> NoSpec, nodes |-> {}, addr |-> None,
         g |-> None, make |-> {}, drop |-> {}, seen |-> [n \in Nodes |-> {}]]

Event == events < MaxEvents /\ events' = events + 1

-----------------------------------------------------------------------------
(* How a run ends *)

Goto(w, new) == job' = [job EXCEPT ![w] = new]
Step(w, new) == Goto(w, new) /\ UNCHANGED <<state, queue, status, cache, harmed>>

\* An error: the key goes to the service queue (from the node worker only while
\* the load balancer exists; the keys that a round collects are added at once).
Fail(w) ==
  LET s == job[w].s IN
  /\ Goto(w, Idle)
  /\ queue' = IF w = "service" \/ LBOf[s] \in alive' THEN queue \cup {s} ELSE queue
  /\ UNCHANGED <<state, status, cache, harmed>>

\* Success.  The service worker patches the status or, having deleted (there is
\* no address), removes the finalizer.  harm: who is left with something amiss.
Succeed(w, harm) ==
  LET s == job[w].s
      deleted == w = "service" /\ job[w].addr = None IN
  /\ Goto(w, Idle)
  /\ state' = IF deleted THEN [state EXCEPT ![s] = "gone"] ELSE state
  /\ cache' = IF deleted THEN [cache EXCEPT ![s] = None] ELSE cache
  /\ status' = IF w = "service" THEN [status EXCEPT ![s] = job[w].addr] ELSE status
  /\ harmed' = harmed \cup harm
  /\ UNCHANGED queue

-----------------------------------------------------------------------------
(* EnsureLoadBalancer: load balancer and floating IP *)

\* The worker takes a key and, unless the Service is deleted, adds the finalizer.
Start(s) ==
  /\ job["service"].pc = "idle"
  /\ s \in queue /\ state[s] \in {"new", "present", "deleting"}
  /\ queue' = queue \ {s}
  /\ state' = [state EXCEPT ![s] = IF @ = "new" THEN "present" ELSE @]
  /\ cache' = [cache EXCEPT ![s] = spec[s]]
  /\ Goto("service", [Idle EXCEPT !.pc = IF state[s] = "deleting" THEN "find" ELSE "lb",
                                  !.s = s, !.spec = spec[s], !.nodes = nodes])
  /\ UNCHANGED <<status, harmed, lbVars, sgVars>>

Forget(s) ==
  /\ job["service"].pc = "idle"
  /\ s \in queue /\ state[s] = "gone"
  /\ queue' = queue \ {s}
  /\ UNCHANGED <<state, status, cache, job, harmed, lbVars, sgVars>>

\* The owner makes its load balancer; the others attach to it, unless internal.
EnsureLB(s) ==
  LET l == LBOf[s]
      fit == s = l \/ (l \in alive /\ ~job["service"].spec.internal) IN
  /\ job["service"].pc = "lb" /\ job["service"].s = s
  /\ \/ /\ fit
        /\ alive' = alive \cup {l}
        /\ served' = served \cup {s}
        /\ tags' = IF l \in alive THEN tags ELSE [tags EXCEPT ![l] = {s}]
        /\ Step("service", [job["service"] EXCEPT !.pc = "fip"])
        /\ UNCHANGED <<fip, kept>>
     \/ ~fit /\ UNCHANGED lbVars /\ Fail("service")
  /\ UNCHANGED sgVars

NoFIP == [up |-> FALSE, made |-> FALSE, at |-> None]
AttachedTo(l) == {f \in FIPs : fip[f].at = l}

\* Mutant of ReleaseFIP: whoever made it.
ReleaseFIPAny(f, c) == IF c.keep THEN [fip[f] EXCEPT !.at = None] ELSE NoFIP

\* deleteFIPIfCreatedByProvider or, if that does not delete it, a detachment.
ReleaseFIP(f, c) ==
  IF fip[f].made /\ ~c.keep THEN NoFIP ELSE [fip[f] EXCEPT !.at = None]

\* The floating IPs once the owner of l is internal.
Released(l, c) == [f \in FIPs |-> IF fip[f].at = l THEN ReleaseFIP(f, c) ELSE fip[f]]
KeptBy(l, c) == IF c.keep THEN kept \cup {f \in AttachedTo(l) : fip[f].made} ELSE kept

\* ensureFloatingIP: the floating IPs after it and the address to advertise, in
\* each way it can succeed (none: it returns an error).
FloatingIPs(s, c) ==
  LET l == LBOf[s]
      free == IF c.ip = None THEN {f \in PoolFIPs : ~fip[f].up} ELSE {c.ip} IN
  IF c.internal /\ s = l THEN {<<Released(l, c), "vip">>}
  ELSE IF AttachedTo(l) # {} THEN {<<fip, f>> : f \in AttachedTo(l)}
  ELSE IF s # l THEN {}
  ELSE IF c.ip # None /\ fip[c.ip].up
    THEN {<<[fip EXCEPT ![f].at = l], f>> : f \in {x \in {c.ip} : fip[x].at = None}}
  ELSE IF FloatingNetwork
    THEN {<<[fip EXCEPT ![f] = [up |-> TRUE, made |-> TRUE, at |-> l]], f>> : f \in free}
  ELSE {<<fip, "vip">>}

\* With the address the tag of the Service is written.  The answer to a request
\* may be lost, or the next one fail.
EnsureFIP(s) ==
  LET l == LBOf[s]
      c == job["service"].spec IN
  /\ job["service"].pc = "fip" /\ job["service"].s = s
  /\ \/ /\ FloatingIPs(s, c) = {}
        /\ UNCHANGED <<lbVars, events>> /\ Fail("service")
     \/ \E out \in FloatingIPs(s, c) :
          /\ fip' = out[1]
          /\ kept' = IF c.internal /\ s = l THEN KeptBy(l, c) ELSE kept
          /\ UNCHANGED <<alive, served>>
          /\ \/ /\ tags' = [tags EXCEPT ![l] = @ \cup {s}]
                /\ Step("service", [job["service"] EXCEPT
                                      !.pc = IF manage THEN "group" ELSE "old", !.addr = out[2]])
                /\ UNCHANGED events
             \/ UNCHANGED tags /\ Event /\ Fail("service")
  /\ UNCHANGED sgVars

-----------------------------------------------------------------------------
(* EnsureLoadBalancerDeleted *)

\* No load balancer: nothing more is done, not even for the security group.
\* Harm: there is one, from a deletion that stopped after the load balancer was gone.
NothingToDelete(s) ==
  /\ job["service"].pc = "find" /\ job["service"].s = s
  /\ LBOf[s] \notin alive
  /\ Succeed("service", IF GroupsOf(s) # {} THEN {s} ELSE {})
  /\ UNCHANGED <<lbVars, sgVars>>

NeedDeleteLB(s) == tags[LBOf[s]] \subseteq {s}

\* The floating IP goes before the load balancer, if the controller made it.
DeleteFIP(s) ==
  LET l == LBOf[s]
      c == job["service"].spec IN
  /\ job["service"].pc = "find" /\ job["service"].s = s
  /\ l \in alive
  /\ fip' = IF NeedDeleteLB(s) /\ ~c.keep
              THEN [f \in FIPs |-> IF fip[f].at = l /\ fip[f].made THEN ReleaseFIP(f, c) ELSE fip[f]]
              ELSE fip
  /\ UNCHANGED <<alive, served, tags, kept>>
  /\ \/ UNCHANGED events /\ Step("service", [job["service"] EXCEPT !.pc = "unlb"])
     \/ Event /\ Fail("service")
  /\ UNCHANGED sgVars

\* The load balancer, with its VIP port, or only the listeners and the tag of s.
DeleteLB(s) ==
  LET l == LBOf[s] IN
  /\ job["service"].pc = "unlb" /\ job["service"].s = s
  /\ IF NeedDeleteLB(s)
       THEN /\ alive' = alive \ {l}
            /\ served' = {x \in served : LBOf[x] # l}
            /\ fip' = [f \in FIPs |-> IF fip[f].at = l THEN [fip[f] EXCEPT !.at = None] ELSE fip[f]]
            /\ kept' = KeptBy(l, job["service"].spec)
       ELSE /\ served' = served \ {s}
            /\ UNCHANGED <<alive, fip, kept>>
  /\ \/ /\ tags' = [tags EXCEPT ![l] = @ \ {s}]
        /\ UNCHANGED events
        /\ Step("service", [job["service"] EXCEPT !.pc = "old"])
     \/ /\ tags' = IF l \in alive' THEN tags ELSE [tags EXCEPT ![l] = {}]
        /\ Event
        /\ Fail("service")
  /\ UNCHANGED sgVars

-----------------------------------------------------------------------------
(* The security group: ensureAndUpdateOctaviaSecurityGroup, by either worker *)

At(w, pc) == job[w].pc = pc

\* The group is found by name, which fails for good when two have it.
FindGroup(w) ==
  LET s == job[w].s IN
  /\ At(w, "group")
  /\ UNCHANGED <<lbVars, sgVars>>
  /\ \/ GroupsOf(s) = {} /\ Step(w, [job[w] EXCEPT !.pc = "create"])
     \/ \E g \in GroupsOf(s) :
          /\ GroupsOf(s) = {g}
          /\ Step(w, [job[w] EXCEPT !.pc = "rules", !.g = g])
     \/ Cardinality(GroupsOf(s)) > 1 /\ Fail(w)

\* Harm: the other worker made one in the meantime, or the Service is deleted.
CreateGroup(w) ==
  LET s == job[w].s
      g == IF <<s, 1>> \in groups THEN <<s, 2>> ELSE <<s, 1>>
      harm == IF GroupsOf(s) # {} \/ state[s] # "present" THEN {s} ELSE {} IN
  /\ At(w, "create")
  /\ groups' = groups \cup {g}
  /\ UNCHANGED <<rules, portSG, lbVars, state, status, cache>>
  /\ harmed' = harmed \cup harm
  /\ \/ /\ Goto(w, [job[w] EXCEPT !.pc = "rules", !.g = g])
        /\ UNCHANGED <<queue, events>>
     \/ /\ Event   \* made, but the answer is lost
        /\ Goto(w, Idle)
        /\ queue' = IF w = "service" \/ LBOf[s] \in alive THEN queue \cup {s} ELSE queue

\* getRulesToCreateAndDelete
ListRules(w) ==
  LET wanted == job[w].spec.rules IN
  /\ At(w, "rules")
  /\ Step(w, [job[w] EXCEPT !.pc = "make", !.make = wanted \ rules[job[w].g],
                            !.drop = rules[job[w].g] \ wanted])
  /\ UNCHANGED <<lbVars, sgVars>>

\* Harm: the node worker changes rules for a Service that has changed.
ChangeRules(w, R, new) ==
  LET s == job[w].s IN
  /\ rules' = [rules EXCEPT ![job[w].g] = R]
  /\ Goto(w, new)
  /\ harmed' = IF w = "node" /\ job[w].spec.rules # spec[s].rules THEN harmed \cup {s} ELSE harmed
  /\ UNCHANGED <<state, queue, status, cache>>

\* ensureSecurityRule: a rule that exists by now is as good.
CreateRule(w) ==
  LET g == job[w].g
      r == CHOOSE x \in job[w].make : TRUE IN
  /\ At(w, "make") /\ job[w].make # {}
  /\ UNCHANGED <<lbVars, groups, portSG>>
  /\ IF g \in groups
       THEN ChangeRules(w, rules[g] \cup {r}, [job[w] EXCEPT !.make = @ \ {r}])
       ELSE UNCHANGED rules /\ Fail(w)

\* A rule that is gone by now ends the handler, successfully.
DropRule(w) ==
  LET g == job[w].g
      r == CHOOSE x \in job[w].drop : TRUE IN
  /\ At(w, "make") /\ job[w].make = {} /\ job[w].drop # {}
  /\ UNCHANGED <<lbVars, groups, portSG>>
  /\ \/ /\ r \in rules[g]
        /\ ChangeRules(w, rules[g] \ {r}, [job[w] EXCEPT !.drop = @ \ {r}])
     \/ /\ r \notin rules[g]
        /\ UNCHANGED rules
        /\ Succeed(w, {job[w].s})

Owners(G) == {g[1] : g \in G}

\* Mutant of PutGroups: it puts only the new group.
PutGroupsOnly(w, n, G) ==
  IF G \subseteq groups
    THEN /\ portSG' = [portSG EXCEPT ![n] = G \ job[w].seen[n]]
         /\ Step(w, [job[w] EXCEPT !.pc = IF @ = "put" THEN "make" ELSE @, !.nodes = @ \ {n},
                                   !.seen[n] = {}])
    ELSE UNCHANGED portSG /\ Fail(w)

\* The groups of a port become G, all that was read but for the one that is
\* added or removed.  Neutron refuses groups that do not exist.
\* Harm: the port changed since it was read.
PutGroups(w, n, G) ==
  IF G \subseteq groups
    THEN /\ portSG' = [portSG EXCEPT ![n] = G]
         /\ harmed' = harmed \cup Owners((portSG[n] \ job[w].seen[n]) \cup (job[w].seen[n] \ portSG[n]))
         /\ Goto(w, [job[w] EXCEPT !.pc = IF @ = "put" THEN "make" ELSE @, !.nodes = @ \ {n},
                                   !.seen[n] = {}])
         /\ UNCHANGED <<state, queue, status, cache>>
    ELSE UNCHANGED portSG /\ Fail(w)

\* applyNodeSecurityGroupIDForLB: each port is read and, without the group, written.
ReadPort(w) ==
  LET n == CHOOSE x \in job[w].nodes : TRUE IN
  /\ At(w, "make") /\ job[w].make = {} /\ job[w].drop = {}
  /\ UNCHANGED <<lbVars, sgVars>>
  /\ \/ job[w].nodes = {} /\ Succeed(w, {})
     \/ /\ job[w].nodes # {}
        /\ Step(w, IF job[w].g \in portSG[n]
                     THEN [job[w] EXCEPT !.nodes = @ \ {n}]
                     ELSE [job[w] EXCEPT !.pc = "put", !.seen[n] = portSG[n]])

WritePort(w) ==
  LET n == CHOOSE x \in job[w].nodes : TRUE IN
  /\ At(w, "put")
  /\ UNCHANGED <<lbVars, groups, rules>>
  /\ PutGroups(w, n, job[w].seen[n] \cup {job[w].g})

-----------------------------------------------------------------------------
(* ensureSecurityGroupDeleted, when the Service is deleted or the groups are *)
(* no longer managed                                                         *)

\* disassociateSecurityGroupForLB reads all the ports with the group at once.
FindOldGroup(w) ==
  LET s == job[w].s IN
  /\ At(w, "old")
  /\ UNCHANGED <<lbVars, sgVars>>
  /\ \/ GroupsOf(s) = {} /\ Succeed(w, {})
     \/ \E g \in GroupsOf(s) :
          /\ GroupsOf(s) = {g}
          /\ Step(w, [job[w] EXCEPT !.pc = "unput", !.g = g, !.nodes = {n \in Nodes : g \in portSG[n]},
                       !.seen = [n \in Nodes |-> IF g \in portSG[n] THEN portSG[n] ELSE {}]])
     \/ Cardinality(GroupsOf(s)) > 1 /\ Fail(w)

ClearPort(w) ==
  LET n == CHOOSE x \in job[w].nodes : TRUE IN
  /\ At(w, "unput") /\ job[w].nodes # {}
  /\ UNCHANGED <<lbVars, groups, rules>>
  /\ PutGroups(w, n, job[w].seen[n] \ {job[w].g})

\* Neutron refuses while a port has the group.
DeleteGroup(w) ==
  LET g == job[w].g IN
  /\ At(w, "unput") /\ job[w].nodes = {}
  /\ UNCHANGED <<lbVars, portSG>>
  /\ \/ /\ \A n \in Nodes : g \notin portSG[n]
        /\ groups' = groups \ {g}
        /\ rules' = [rules EXCEPT ![g] = {}]
        /\ Succeed(w, {})
     \/ /\ \E n \in Nodes : g \in portSG[n]
        /\ UNCHANGED <<groups, rules>>
        /\ Fail(w)

\* A request fails and changes nothing.
RequestFails(w) ==
  /\ job[w].pc # "idle"
  /\ Event
  /\ UNCHANGED <<lbVars, sgVars>>
  /\ Fail(w)

-----------------------------------------------------------------------------
(* The node worker: updateLoadBalancerHosts *)

\* A round over the cached Services, for the Nodes there are now.
StartRound ==
  /\ At("node", "idle") /\ todo = {} /\ nodes # synced
  /\ synced' = nodes
  /\ todo' = {s \in Services : cache[s] # None}

\* updateOctaviaLoadBalancer.  Without a load balancer there is nothing to do,
\* without the listeners of the Service it fails.
\* Harm: the service worker is about to make it, for the Nodes of an earlier time.
UpdateHosts(s) ==
  /\ At("node", "idle") /\ s \in todo /\ cache[s] # None
  /\ todo' = todo \ {s}
  /\ harmed' = IF LBOf[s] \notin alive /\ job["service"].s = s /\ job["service"].nodes # synced
                 THEN harmed \cup {s} ELSE harmed
  /\ \/ LBOf[s] \notin alive /\ UNCHANGED <<job, queue>>
     \/ LBOf[s] \in alive /\ s \notin served /\ queue' = queue \cup {s} /\ UNCHANGED job
     \/ /\ s \in served
        /\ IF manage THEN Goto("node", [Idle EXCEPT !.pc = "group", !.s = s, !.spec = cache[s],
                                                   !.nodes = synced])
                     ELSE UNCHANGED job
        /\ UNCHANGED queue

-----------------------------------------------------------------------------
(* Users, the Nodes, and restarts *)

\* A Service that shares names a load balancer that exists.
CreateService(s, c) ==
  /\ state[s] = "absent" /\ (s # LBOf[s] => LBOf[s] \in alive)
  /\ state' = [state EXCEPT ![s] = "new"]
  /\ spec' = [spec EXCEPT ![s] = c]
  /\ queue' = queue \cup {s}
  /\ UNCHANGED events

EditService(s, c) ==
  /\ state[s] \in {"new", "present"} /\ c # spec[s]
  /\ Event
  /\ spec' = [spec EXCEPT ![s] = c]
  /\ queue' = queue \cup {s}
  /\ UNCHANGED state

\* Without the finalizer the object goes at once.
DeleteService(s) ==
  /\ state[s] \in {"new", "present"}
  /\ state' = [state EXCEPT ![s] = IF @ = "new" THEN "gone" ELSE "deleting"]
  /\ queue' = queue \cup {s}
  /\ UNCHANGED <<spec, events>>

\* Harm: back to lastSyncedNodes before a round, which will not see a difference.
ChangeNodes(N) ==
  /\ N # nodes
  /\ Event
  /\ harmed' = IF N = synced THEN harmed \cup {s \in Services : cache[s] # None} ELSE harmed
  /\ nodes' = N

\* The controller stops anywhere and starts with a configuration of its own.
Restart(m) ==
  /\ Event
  /\ manage' = m
  /\ job' = [w \in Workers |-> Idle]
  /\ cache' = [x \in Services |-> None]
  /\ todo' = {} /\ synced' = {}
  /\ queue' = {x \in Services : state[x] \in {"new", "present", "deleting"}}
  /\ UNCHANGED <<state, status, harmed, lbVars, sgVars>>

-----------------------------------------------------------------------------
Init ==
  /\ state = [s \in Services |-> "absent"] /\ spec = [s \in Services |-> NoSpec]
  /\ queue = {} /\ status = [s \in Services |-> None]
  /\ nodes \in NodeChoices /\ synced = nodes
  /\ manage \in ManageChoices
  /\ alive = {} /\ served = {} /\ tags = [s \in Services |-> {}]
  /\ fip = [f \in FIPs |-> [up |-> f \in UserFIPs, made |-> FALSE,
                            at |-> IF f \in Taken THEN "elsewhere" ELSE None]]
  /\ groups = {} /\ rules = [g \in GroupIds |-> {}] /\ portSG = [n \in Nodes |-> {}]
  /\ job = [w \in Workers |-> Idle]
  /\ cache = [s \in Services |-> None] /\ todo = {}
  /\ kept = {} /\ harmed = {}
  /\ events = 0

User ==
  /\ \E s \in Services :
       \/ \E c \in SpecChoices[s] : CreateService(s, c) \/ EditService(s, c)
       \/ DeleteService(s)
  /\ UNCHANGED <<status, manage, job, cache, harmed, lbVars, sgVars, roundVars, nodes>>

\* Requests that either worker makes.
GroupStep(w) ==
  \/ FindGroup(w) \/ ListRules(w) \/ CreateRule(w) \/ DropRule(w)
  \/ ReadPort(w) \/ WritePort(w)

ServiceStep ==
  /\ \/ \E s \in Services :
          \/ EnsureFIP(s) \/ DeleteFIP(s) \/ DeleteLB(s)
          \/ (Start(s) \/ Forget(s) \/ EnsureLB(s) \/ NothingToDelete(s)) /\ UNCHANGED events
     \/ CreateGroup("service")
     \/ (GroupStep("service") \/ FindOldGroup("service") \/ ClearPort("service")
           \/ DeleteGroup("service")) /\ UNCHANGED events
  /\ UNCHANGED <<spec, manage, roundVars, nodes>>

NodeStep ==
  \/ /\ CreateGroup("node") \/ (GroupStep("node") /\ UNCHANGED events)
     /\ UNCHANGED <<spec, manage, roundVars, nodes>>
  \/ /\ (StartRound /\ UNCHANGED <<job, queue, harmed>>)
         \/ ((\E s \in Services : UpdateHosts(s)) /\ UNCHANGED synced)
     /\ UNCHANGED <<state, status, cache, spec, manage, nodes, events, lbVars, sgVars>>

Next ==
  \/ User \/ ServiceStep \/ NodeStep
  \/ /\ \E N \in NodeChoices : ChangeNodes(N)
     /\ UNCHANGED <<state, queue, status, job, cache, spec, manage, roundVars, lbVars, sgVars>>
  \/ /\ \E w \in Workers : RequestFails(w)
     /\ UNCHANGED <<spec, manage, roundVars, nodes>>
  \/ /\ \E m \in ManageChoices : Restart(m)
     /\ UNCHANGED <<spec, nodes>>

Spec == Init /\ [][Next]_vars

-----------------------------------------------------------------------------
(* Properties *)

\* The last run on s went well and nothing is to be done about it.
Settled(s) ==
  /\ state[s] = "present" /\ status[s] # None
  /\ s \notin queue /\ job["service"].s # s

\* Nothing is left to the node worker.
HostsSettled == job["node"].pc = "idle" /\ todo = {} /\ synced = nodes

\* ensureFloatingIP and deleteFIPIfCreatedByProvider, whatever fails and whichever
\* answer is lost: once the run on its owner is over, the address in the status
\* leads to the load balancer, and an internal one has no floating IP; floating IPs
\* that users made are never deleted, those in use elsewhere never moved, and one
\* that the controller made is on a load balancer, unless an annotation asked to
\* keep it.
FloatingIPsRight ==
  /\ \A s \in Services : Settled(s) /\ LBOf[s] = s =>
       /\ s \in alive
       /\ AttachedTo(s) = {status[s]} \ {"vip"}
       /\ spec[s].internal => status[s] = "vip"
  /\ \A f \in UserFIPs : fip[f].up /\ (f \in Taken => fip[f].at = "elsewhere")
  /\ \A f \in FIPs : fip[f].up /\ fip[f].made /\ fip[f].at = None => f \in kept

\* ensureAndUpdateOctaviaSecurityGroup and ensureSecurityGroupDeleted: once both
\* workers are done with a Service, its one group has just its rules and is on the
\* ports of all the Nodes; without manage-security-groups, and when it is deleted,
\* it has no group.  Services are excepted that were hit by what the code does not
\* handle.
GroupsRight ==
  \A s \in Services \ harmed :
    /\ Settled(s) /\ HostsSettled /\ manage =>
         \E g \in GroupsOf(s) :
           /\ GroupsOf(s) = {g} /\ rules[g] = spec[s].rules
           /\ \A n \in nodes : g \in portSG[n]
    /\ (Settled(s) /\ HostsSettled /\ ~manage) \/ state[s] = "gone" => GroupsOf(s) = {}
=============================================================================
