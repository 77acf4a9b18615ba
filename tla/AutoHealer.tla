---------------------------- MODULE AutoHealer ----------------------------
(***************************************************************************)
(* The Magnum auto-healer: the rounds of pkg/autohealing/controller and    *)
(* the repair of pkg/autohealing/cloudprovider/openstack.  In a round two  *)
(* monitors, one for the masters and one for the workers, run side by side *)
(* and share the map unHealthyNodes without a lock; the round ends when    *)
(* both have.  A Node found sick is rebooted; one that is still sick when  *)
(* RebuildDelayAfterReboot has passed is replaced: its server is switched  *)
(* off, Magnum (workers) or Heat (masters) is asked for another, and the   *)
(* Node object is deleted.                                                 *)
(***************************************************************************)
EXTENDS Naturals, FiniteSets

CONSTANTS
    Masters, Workers,              \* the Nodes of the cluster
    MaxSick, MaxFaults, MaxCrashes \* bounds

Nodes == Masters \cup Workers

ASSUME ConstantsAssumption ==
  /\ Masters \cap Workers = {}
  /\ {MaxSick, MaxFaults, MaxCrashes} \subseteq Nat

VARIABLES
    sick,           \* Nodes that have failed their checks for long enough
    listed,         \* Nodes that exist in Kubernetes
    cordoned,       \* Nodes that are unschedulable
    off,            \* Nodes whose server is switched off or deleted
    rebootAt,       \* when a Node was rebooted: "never", "lately" or "before"
    marked,         \* Nodes whose server is marked unhealthy in Heat
    replacing,      \* Nodes that the running stack update replaces
    stack,          \* "COMPLETE" or "UPDATE_IN_PROGRESS"
    health,         \* the cluster's health_status in Magnum
    unHealthyNodes, \* the map's keys; RebootAt of an entry is rebootAt
    mon,            \* mon[g]: the monitor of a group
    phase,          \* of the main loop: "tick" or "wait"
    refused,        \* Nodes for which Nova, Magnum or Heat refused a request
    falls, faults, crashes

clusterVars == <<sick, listed, cordoned, off, rebootAt>>
cloudVars == <<marked, replacing, stack, health>>
counters == <<falls, faults, crashes>>
vars == <<sick, listed, cordoned, off, rebootAt, marked, replacing, stack, health,
          unHealthyNodes, mon, phase, refused, falls, faults, crashes>>

Groups == {"master", "worker"}
Group(g) == IF g = "master" THEN Masters ELSE Workers

\* found: the unhealthy Nodes; todo: those still to be repaired; cur: the one
\* being repaired; doomed: those to be deleted, not in firstTimeRebootNodes.
NewMonitor == [pc |-> "idle", found |-> {}, todo |-> {}, cur |-> {}, doomed |-> {}]

Goto(g, pc) == mon' = [mon EXCEPT ![g].pc = pc]
Fault == faults < MaxFaults /\ faults' = faults + 1 /\ UNCHANGED <<falls, crashes>>

-----------------------------------------------------------------------------
(* A round *)

Tick ==
  /\ phase = "tick"
  /\ phase' = "wait"
  /\ mon' = [g \in Groups |-> [NewMonitor EXCEPT !.pc = "check"]]
  /\ UNCHANGED <<clusterVars, cloudVars, unHealthyNodes, refused, counters>>

\* getUnhealthyMasterNodes, getUnhealthyWorkerNodes, CheckNodes.  When the Nodes
\* cannot be listed, none is found.
CheckNodes(g) ==
  LET found == Group(g) \cap listed \cap sick IN
  /\ mon[g].pc = "check"
  /\ \/ /\ mon' = [mon EXCEPT ![g].found = found, ![g].todo = found,
                              ![g].pc = IF found = {} THEN "done" ELSE "enabled"]
        /\ UNCHANGED counters
     \/ Goto(g, "done") /\ Fault
  /\ UNCHANGED <<clusterVars, cloudVars, unHealthyNodes, phase, refused>>

\* Enabled: the cluster and its stack are stable.
Enabled == stack = "COMPLETE"

CheckEnabled(g) ==
  /\ mon[g].pc = "enabled"
  /\ \/ Goto(g, IF Enabled THEN "cordon" ELSE "done") /\ UNCHANGED counters
     \/ Goto(g, "done") /\ Fault
  /\ UNCHANGED <<clusterVars, cloudVars, unHealthyNodes, phase, refused>>

\* Masters are not cordoned.
ToCordon(g) == mon[g].found \cap Workers

\* A Node that cannot be updated is logged, and repaired nevertheless.
Cordon(g) ==
  /\ mon[g].pc = "cordon"
  /\ Goto(g, "status")
  /\ \/ cordoned' = cordoned \cup ToCordon(g) /\ UNCHANGED counters
     \/ \E n \in ToCordon(g) : cordoned' = cordoned \cup (ToCordon(g) \ {n}) /\ Fault
  /\ UNCHANGED <<sick, listed, off, rebootAt, cloudVars, unHealthyNodes, phase, refused>>

\* Repair up to the loop over the Nodes: the status is written, then the
\* cluster, its stack and the stack's resources are read; an error ends it.
UpdateHealthStatus(g) ==
  /\ mon[g].pc = "status"
  /\ \/ health' = "UNHEALTHY" /\ Goto(g, "repair") /\ UNCHANGED counters
     \/ health' \in {health, "UNHEALTHY"} /\ Goto(g, "done") /\ Fault
  /\ UNCHANGED <<clusterVars, marked, replacing, stack, unHealthyNodes, phase, refused>>

-----------------------------------------------------------------------------
(* Repair of one Node *)

\* Node n has been seen to; it is kept if it is in firstTimeRebootNodes.
Processed(g, n, keep) ==
  mon' = [mon EXCEPT ![g].pc = "repair", ![g].cur = {}, ![g].todo = @ \ {n},
                     ![g].doomed = @ \cup (IF keep THEN {} ELSE {n})]

\* firstTimeRepair of a Node that is not in the map: a soft reboot.
Reboot(g, n) ==
  /\ mon[g].pc = "repair" /\ n \in mon[g].todo
  /\ n \notin unHealthyNodes /\ n \notin off
  /\ rebootAt' = [rebootAt EXCEPT ![n] = "lately"]
  /\ IF n \in Workers
       THEN /\ mon' = [mon EXCEPT ![g].pc = "rebooted", ![g].cur = {n}]
            /\ UNCHANGED unHealthyNodes
       ELSE /\ unHealthyNodes' = unHealthyNodes \cup {n}
            /\ Processed(g, n, TRUE)
  /\ UNCHANGED <<sick, listed, cordoned, off, cloudVars, phase, refused, counters>>

\* Nova refuses the reboot, as it does when the server is off, or the Node has no
\* machine ID to reboot.  Only a Node that is being rebooted is kept.
RebootFails(g, n) ==
  /\ mon[g].pc = "repair" /\ n \in mon[g].todo
  /\ n \notin unHealthyNodes
  /\ IF n \in off THEN UNCHANGED counters ELSE Fault
  /\ \/ /\ n \notin off /\ rebootAt[n] # "never"
        /\ Processed(g, n, TRUE)
        /\ UNCHANGED refused
     \/ /\ Processed(g, n, FALSE)
        /\ refused' = refused \cup {n}
  /\ UNCHANGED <<clusterVars, cloudVars, unHealthyNodes, phase>>

\* The poll for a worker's Node to be ready, for RebuildDelayAfterReboot at most.
\* A Node that is still sick may be ready, one that is not is.
AfterReboot(g, n) ==
  /\ mon[g].pc = "rebooted" /\ mon[g].cur = {n}
  /\ \/ cordoned' = cordoned \ {n} /\ UNCHANGED counters
     \/ n \in sick /\ UNCHANGED <<cordoned, counters>>
     \/ UNCHANGED cordoned /\ Fault
  /\ rebootAt' = [rebootAt EXCEPT ![n] = "lately"]
  /\ unHealthyNodes' = unHealthyNodes \cup {n}
  /\ Processed(g, n, TRUE)
  /\ UNCHANGED <<sick, listed, off, cloudVars, phase, refused>>

\* Mutant of Due: only an entry without a time is due.
DueNever(n) == n \in unHealthyNodes /\ rebootAt[n] = "never"

\* RebootAt is RebuildDelayAfterReboot ago.
Due(n) == n \in unHealthyNodes /\ rebootAt[n] = "before"

\* Mutant of Defer: the delay starts again.
DeferAgain(g, n) ==
  /\ mon[g].pc = "repair" /\ n \in mon[g].todo
  /\ n \in unHealthyNodes
  /\ rebootAt' = [rebootAt EXCEPT ![n] = "lately"]
  /\ Processed(g, n, TRUE)
  /\ UNCHANGED <<sick, listed, cordoned, off, cloudVars, unHealthyNodes, phase, refused, counters>>

\* firstTimeRepair of a Node that is in the map, soon after its reboot.
Defer(g, n) ==
  /\ mon[g].pc = "repair" /\ n \in mon[g].todo
  /\ n \in unHealthyNodes /\ ~Due(n)
  /\ Processed(g, n, TRUE)
  /\ UNCHANGED <<clusterVars, cloudVars, unHealthyNodes, phase, refused, counters>>

\* waitForServerDetachVolumes, waitForServerPoweredOff and, for a master that
\* does not stop, ForceDelete: failures are logged.
ShutDown(g, n) ==
  /\ mon[g].pc = "repair" /\ n \in mon[g].todo
  /\ Due(n)
  /\ \/ off' = off \cup {n} /\ UNCHANGED counters
     \/ UNCHANGED off /\ Fault
  /\ mon' = [mon EXCEPT ![g].pc = "rebuild", ![g].cur = {n}]
  /\ UNCHANGED <<sick, listed, cordoned, rebootAt, cloudVars, unHealthyNodes, phase, refused>>

\* A worker: Magnum resizes a cluster that is stable; the result is ignored.
Resize(n) ==
  /\ mon["worker"].pc = "rebuild" /\ mon["worker"].cur = {n}
  /\ \/ /\ Enabled
        /\ stack' = "UPDATE_IN_PROGRESS" /\ replacing' = {n}
        /\ UNCHANGED <<refused, counters>>
     \/ /\ IF Enabled THEN Fault ELSE UNCHANGED counters
        /\ refused' = refused \cup {n}
        /\ UNCHANGED <<stack, replacing>>
  /\ unHealthyNodes' = unHealthyNodes \ {n}
  /\ Processed("worker", n, FALSE)
  /\ UNCHANGED <<clusterVars, marked, health, phase>>

\* A master: its Heat resource is marked, to be replaced by the next update.
MarkUnhealthy(n) ==
  /\ mon["master"].pc = "rebuild" /\ mon["master"].cur = {n}
  /\ \/ marked' = marked \cup {n} /\ UNCHANGED <<refused, counters>>
     \/ refused' = refused \cup {n} /\ UNCHANGED marked /\ Fault
  /\ unHealthyNodes' = unHealthyNodes \ {n}
  /\ Processed("master", n, FALSE)
  /\ UNCHANGED <<clusterVars, replacing, stack, health, phase>>

\* stacks.UpdatePatch, once for all masters.  During another update Heat may
\* refuse it; then no Node is deleted.
UpdateStack ==
  /\ mon["master"].pc = "repair" /\ mon["master"].todo = {}
  /\ \/ /\ stack' = "UPDATE_IN_PROGRESS"
        /\ replacing' = replacing \cup marked /\ marked' = {}
        /\ Goto("master", "delete")
        /\ UNCHANGED counters
     \/ /\ IF Enabled THEN Fault ELSE UNCHANGED counters
        /\ Goto("master", "done")
        /\ UNCHANGED <<stack, replacing, marked>>
  /\ UNCHANGED <<clusterVars, health, unHealthyNodes, phase, refused>>

\* Mutant of ToDelete: also those that were rebooted.
ToDeleteAll(g) == mon[g].found

ToDelete(g) == mon[g].doomed

\* "Remove the broken nodes from the cluster"; a failure is logged.
DeleteNodes(g) ==
  /\ \/ mon[g].pc = "delete"
     \/ g = "worker" /\ mon[g].pc = "repair" /\ mon[g].todo = {}
  /\ \/ listed' = listed \ ToDelete(g) /\ UNCHANGED counters
     \/ \E n \in ToDelete(g) : listed' = listed \ (ToDelete(g) \ {n}) /\ Fault
  /\ Goto(g, "done")
  /\ UNCHANGED <<sick, cordoned, off, rebootAt, cloudVars, unHealthyNodes, phase, refused>>

RoundDone == \A g \in Groups : mon[g].pc = "done"

\* The end of a round: the status is written unless an update is running.
Report ==
  /\ phase = "wait" /\ RoundDone
  /\ \/ /\ Enabled
        /\ health' = IF \A g \in Groups : mon[g].found = {} THEN "HEALTHY" ELSE "UNHEALTHY"
        /\ UNCHANGED counters
     \/ ~Enabled /\ UNCHANGED <<health, counters>>
     \/ Enabled /\ UNCHANGED health /\ Fault
  /\ phase' = "tick"
  /\ mon' = [g \in Groups |-> NewMonitor]
  /\ UNCHANGED <<clusterVars, marked, replacing, stack, unHealthyNodes, refused>>

Monitor(g) ==
  \/ CheckNodes(g) \/ CheckEnabled(g) \/ Cordon(g) \/ UpdateHealthStatus(g)
  \/ \E n \in Group(g) :
       \/ Reboot(g, n) \/ RebootFails(g, n) \/ AfterReboot(g, n)
       \/ Defer(g, n) \/ ShutDown(g, n)
       \/ g = "worker" /\ Resize(n)
       \/ g = "master" /\ MarkUnhealthy(n)
  \/ g = "master" /\ UpdateStack
  \/ DeleteNodes(g)

\* The process dies, for one by a concurrent access to the map, or loses its
\* lease; its successor starts with an empty map.
Crash ==
  /\ crashes < MaxCrashes /\ crashes' = crashes + 1
  /\ unHealthyNodes' = {}
  /\ mon' = [g \in Groups |-> NewMonitor]
  /\ phase' = "tick"
  /\ UNCHANGED <<clusterVars, cloudVars, refused, falls, faults>>

-----------------------------------------------------------------------------
(* The cluster and the cloud *)

FallSick(n) ==
  /\ n \in listed \ sick /\ falls < MaxSick
  /\ falls' = falls + 1
  /\ sick' = sick \cup {n}
  /\ UNCHANGED <<listed, cordoned, off, rebootAt, cloudVars, unHealthyNodes, mon, phase,
                 refused, faults, crashes>>

Recover(n) ==
  /\ n \in sick \ off
  /\ sick' = sick \ {n}
  /\ UNCHANGED <<listed, cordoned, off, rebootAt, cloudVars, unHealthyNodes, mon, phase,
                 refused, counters>>

DelayPasses(n) ==
  /\ rebootAt[n] = "lately"
  /\ rebootAt' = [rebootAt EXCEPT ![n] = "before"]
  /\ UNCHANGED <<sick, listed, cordoned, off, cloudVars, unHealthyNodes, mon, phase,
                 refused, counters>>

\* New servers, and Nodes, take the place of the old.  A Node still to be deleted,
\* and an entry of the map, are the old one's.
UpdateDone ==
  /\ stack = "UPDATE_IN_PROGRESS"
  /\ stack' = "COMPLETE" /\ replacing' = {}
  /\ sick' = sick \ replacing /\ listed' = listed \cup replacing
  /\ cordoned' = cordoned \ replacing /\ off' = off \ replacing
  /\ rebootAt' = [n \in Nodes |-> IF n \in replacing THEN "never" ELSE rebootAt[n]]
  /\ refused' = refused \ replacing
  /\ unHealthyNodes' = unHealthyNodes \ replacing
  /\ mon' = [g \in Groups |-> [mon[g] EXCEPT !.doomed = @ \ replacing]]
  /\ UNCHANGED <<marked, health, phase, counters>>

Init ==
  /\ sick = {} /\ listed = Nodes /\ cordoned = {} /\ off = {}
  /\ rebootAt = [n \in Nodes |-> "never"]
  /\ marked = {} /\ replacing = {} /\ stack = "COMPLETE" /\ health = "HEALTHY"
  /\ unHealthyNodes = {}
  /\ mon = [g \in Groups |-> NewMonitor] /\ phase = "tick"
  /\ refused = {} /\ falls = 0 /\ faults = 0 /\ crashes = 0

Next ==
  \/ Tick \/ Report \/ Crash \/ UpdateDone
  \/ \E g \in Groups : Monitor(g)
  \/ \E n \in Nodes : FallSick(n) \/ Recover(n) \/ DelayPasses(n)

Spec == Init /\ [][Next]_vars

\* The ticker ticks, goroutines run, time passes and stack updates end.
FairSpec ==
  /\ Spec /\ WF_vars(Tick) /\ WF_vars(Report) /\ WF_vars(UpdateDone)
  /\ \A g \in Groups : WF_vars(Monitor(g))
  /\ \A n \in Nodes : WF_vars(DelayPasses(n))

-----------------------------------------------------------------------------
(* Properties *)

\* "if it's the first time we found this unhealthy node, then we just reboot it":
\* a server is switched off only when it was rebooted, and that at least
\* RebuildDelayAfterReboot ago, also after a restart of the healer.  And one that
\* was rebooted that long ago is not rebooted again, which would put its rebuild off,
\* unless the healer restarted, or the replacement was refused or has not begun; the
\* end of the poll after a reboot is that reboot's own time.
RebootBeforeRebuild ==
  [][/\ \A n \in off' \ off : rebootAt[n] = "before"
     /\ \A n \in Nodes : rebootAt[n] = "before" /\ rebootAt'[n] = "lately" =>
          \/ crashes > 0 \/ n \in refused \cup marked
          \/ \E g \in Groups : mon[g].pc = "rebooted" /\ mon[g].cur = {n}]_vars

\* A worker's server is off only while no Pod can be placed on its Node, unless a
\* request failed; a Node is missing only while its server is being replaced, or
\* after Nova, Magnum or Heat refused a request about it.
MissingIsReplaced ==
  /\ faults = 0 => off \cap Workers \subseteq cordoned
  /\ Nodes \ listed \subseteq replacing \cup refused

\* A sick Node recovers or is replaced, unless Nova, Magnum or Heat refused a
\* request about it.
RecoveredOrRefused == \A n \in Nodes : n \in sick ~> n \notin sick \/ n \in refused

=============================================================================
