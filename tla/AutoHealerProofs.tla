-------------------------- MODULE AutoHealerProofs --------------------------
(***************************************************************************)
(* Proofs about AutoHealer, for any masters and workers and any number of  *)
(* failures and restarts: a Node is missing only while it is replaced or   *)
(* after a refusal, a worker that is off is cordoned, and a server is      *)
(* rebooted once before it is rebuilt.                                     *)
(***************************************************************************)
EXTENDS AutoHealer, TLAPS

\* What a monitor keeps; what it has to repair is what it found, in its group.
IsMonitor(m) ==
  m = [pc |-> m.pc, found |-> m.found, todo |-> m.todo, cur |-> m.cur, doomed |-> m.doomed]

MonitorInv ==
  /\ mon = [g \in Groups |-> mon[g]]
  /\ \A g \in Groups : IsMonitor(mon[g])

FoundInv ==
  \A g \in Groups :
    mon[g].todo \subseteq mon[g].found /\ mon[g].found \subseteq Group(g) /\ mon[g].cur \subseteq Group(g)

\* A stack that is stable replaces nothing; only masters are marked.
StackInv == (stack = "COMPLETE" => replacing = {}) /\ marked \subseteq Masters /\ faults \in Nat

\* The stages at which the monitor of the workers has found the cluster stable.
Repairing == {"cordon", "status", "repair", "rebooted", "rebuild"}

\* What the workers' monitor has still to repair is not being replaced, and is
\* cordoned if no request failed; one that has just been rebooted is not off.
CordonInv ==
  LET m == mon["worker"] IN
  /\ m.pc \in Repairing => m.todo \cap replacing = {}
  /\ m.pc = "rebooted" => m.cur \cap off = {}
  /\ faults = 0 /\ m.pc \in Repairing \ {"cordon"} => m.todo \subseteq cordoned
  /\ faults = 0 => off \cap Workers \subseteq cordoned

\* A Node that is to be deleted is replaced, refused or, a master before the update
\* of the stack, marked.
DoomedInv ==
  /\ \A g \in Groups : mon[g].doomed \subseteq marked \cup replacing \cup refused
  /\ mon["worker"].doomed \subseteq replacing \cup refused
  /\ mon["master"].pc = "delete" => mon["master"].doomed \subseteq replacing \cup refused
  /\ Nodes \ listed \subseteq replacing \cup refused

\* A server that was rebooted is in the map, until it is asked to be replaced or a
\* request about that is refused; if the healer has not restarted.
Memory == unHealthyNodes \cup refused \cup marked \cup replacing
Remembered(n) ==
  \/ crashes > 0 \/ n \in Memory
  \/ \E g \in Groups : mon[g].pc = "rebooted" /\ mon[g].cur = {n}

\* Between rounds the monitors are idle, and the masters' monitor repairs no server
\* that is being replaced.
RebootInv ==
  /\ rebootAt = [n \in Nodes |-> rebootAt[n]] /\ crashes \in Nat
  /\ phase = "tick" => \A g \in Groups : mon[g].pc = "idle"
  /\ mon["master"].pc \in Repairing => mon["master"].todo \cap replacing = {}
  /\ \A n \in Nodes : rebootAt[n] # "never" => Remembered(n)

HealerInv == MonitorInv /\ FoundInv /\ StackInv /\ CordonInv /\ DoomedInv /\ RebootInv

-----------------------------------------------------------------------------
Other(g) == IF g = "master" THEN "worker" ELSE "master"

\* A step of the monitor of g that makes it p, f, t, c, d.
Goes(g, p, f, t, c, d) ==
  /\ MonitorInv' /\ mon'[Other(g)] = mon[Other(g)]
  /\ mon'[g].pc = p /\ mon'[g].found = f /\ mon'[g].todo = t /\ mon'[g].cur = c /\ mon'[g].doomed = d

\* At the start the monitors are idle and all the Nodes are there.
LEMMA InitHealer == Init => HealerInv
<1> SUFFICES ASSUME Init PROVE HealerInv
  OBVIOUS
<1>1. mon = [g \in Groups |-> NewMonitor]
  BY DEF Init
<1>2. MonitorInv
  BY <1>1, Zenon DEF MonitorInv, IsMonitor, NewMonitor
<1>3. FoundInv /\ StackInv /\ CordonInv /\ DoomedInv
  BY <1>1 DEF Init, FoundInv, StackInv, CordonInv, DoomedInv, NewMonitor, Groups, Group, Nodes, Repairing
<1>4. RebootInv
  BY <1>1 DEF Init, RebootInv, NewMonitor, Groups, Repairing
<1>5. QED
  BY <1>2, <1>3, <1>4 DEF HealerInv

\* The monitor goes on to another stage.
LEMMA Gone ==
  ASSUME MonitorInv, NEW g \in Groups, NEW p, Goto(g, p)
  PROVE  Goes(g, p, mon[g].found, mon[g].todo, mon[g].cur, mon[g].doomed)
<1>1. MonitorInv'
  BY Zenon DEF Goto, MonitorInv, IsMonitor, Groups
<1>2. mon'[Other(g)] = mon[Other(g)]
  BY DEF Goto, MonitorInv, Groups, Other
<1>3. /\ mon'[g].pc = p /\ mon'[g].found = mon[g].found /\ mon'[g].todo = mon[g].todo
      /\ mon'[g].cur = mon[g].cur /\ mon'[g].doomed = mon[g].doomed
  BY DEF Goto, MonitorInv, IsMonitor
<1>4. QED
  BY <1>1, <1>2, <1>3 DEF Goes

\* The monitor has checked the Nodes.
LEMMA Checked ==
  ASSUME MonitorInv, NEW g \in Groups, NEW p, NEW f,
         mon' = [mon EXCEPT ![g].found = f, ![g].todo = f, ![g].pc = p]
  PROVE  Goes(g, p, f, f, mon[g].cur, mon[g].doomed)
<1>1. MonitorInv'
  BY ZenonT(60) DEF MonitorInv, IsMonitor, Groups
<1>2. mon'[Other(g)] = mon[Other(g)]
  BY Zenon DEF MonitorInv, Groups, Other
<1>3. /\ mon'[g].pc = p /\ mon'[g].found = f /\ mon'[g].todo = f
      /\ mon'[g].cur = mon[g].cur /\ mon'[g].doomed = mon[g].doomed
  BY DEF MonitorInv, IsMonitor
<1>4. QED
  BY <1>1, <1>2, <1>3 DEF Goes

\* The monitor turns to a Node.
LEMMA Turned ==
  ASSUME MonitorInv, NEW g \in Groups, NEW p, NEW c, mon' = [mon EXCEPT ![g].pc = p, ![g].cur = c]
  PROVE  Goes(g, p, mon[g].found, mon[g].todo, c, mon[g].doomed)
<1>1. MonitorInv'
  BY Zenon DEF MonitorInv, IsMonitor, Groups
<1>2. mon'[Other(g)] = mon[Other(g)]
  BY DEF MonitorInv, Groups, Other
<1>3. mon'[g].pc = p /\ mon'[g].cur = c
  <2>1. mon'[g] = [mon[g] EXCEPT !.pc = p, !.cur = c]
    BY DEF MonitorInv
  <2>2. QED
    BY <2>1, Zenon DEF MonitorInv, IsMonitor
<1>4. mon'[g].found = mon[g].found /\ mon'[g].todo = mon[g].todo /\ mon'[g].doomed = mon[g].doomed
  BY DEF MonitorInv, IsMonitor
<1>5. QED
  BY <1>1, <1>2, <1>3, <1>4 DEF Goes

\* The monitor is done with a Node.
LEMMA KeptOrDoomed ==
  ASSUME MonitorInv, NEW g \in Groups, NEW n, NEW keep \in BOOLEAN, Processed(g, n, keep)
  PROVE  Goes(g, "repair", mon[g].found, mon[g].todo \ {n}, {},
              mon[g].doomed \cup (IF keep THEN {} ELSE {n}))
<1>1. MonitorInv'
  BY ZenonT(60) DEF Processed, MonitorInv, IsMonitor, Groups
<1>2. mon'[Other(g)] = mon[Other(g)]
  BY Zenon DEF Processed, MonitorInv, Groups, Other
<1>3. /\ mon'[g].pc = "repair" /\ mon'[g].found = mon[g].found /\ mon'[g].todo = mon[g].todo \ {n}
      /\ mon'[g].cur = {} /\ mon'[g].doomed = mon[g].doomed \cup (IF keep THEN {} ELSE {n})
  BY DEF Processed, MonitorInv, IsMonitor
<1>4. QED
  BY <1>1, <1>2, <1>3 DEF Goes

\* A Node that is kept is not added to those to be deleted.
LEMMA NodeProcessed ==
  ASSUME MonitorInv, NEW g \in Groups, NEW n
  PROVE  /\ Processed(g, n, TRUE) => Goes(g, "repair", mon[g].found, mon[g].todo \ {n}, {}, mon[g].doomed)
         /\ Processed(g, n, FALSE) =>
              Goes(g, "repair", mon[g].found, mon[g].todo \ {n}, {}, mon[g].doomed \cup {n})
<1>1. mon[g].doomed \cup {} = mon[g].doomed
  OBVIOUS
<1>2. QED
  BY <1>1, KeptOrDoomed, Zenon

\* A round begins or ends.
LEMMA Fresh ==
  ASSUME mon' = [g \in Groups |-> NewMonitor] \/ mon' = [g \in Groups |-> [NewMonitor EXCEPT !.pc = "check"]]
  PROVE  /\ MonitorInv'
         /\ \A g \in Groups : /\ mon'[g].pc \in {"idle", "check"} /\ mon'[g].found = {}
                              /\ mon'[g].todo = {} /\ mon'[g].cur = {} /\ mon'[g].doomed = {}
  BY DEF MonitorInv, IsMonitor, NewMonitor

\* A step of the monitor of g that forgets no reboot.
Told(g) ==
  /\ mon[g].pc # "idle" /\ UNCHANGED <<phase, crashes>>
  /\ rebootAt' = [m \in Nodes |-> rebootAt'[m]] /\ Memory \subseteq Memory'
  /\ mon[g].pc = "rebooted" => mon[g].cur \subseteq Memory'
  /\ \A m \in Nodes : \/ rebootAt'[m] = rebootAt[m] \/ m \in Memory'
                      \/ mon'[g].pc = "rebooted" /\ mon'[g].cur = {m}
  /\ g = "master" /\ mon'[g].pc \in Repairing => mon'[g].todo \cap replacing' = {}
  /\ g = "worker" => replacing' \subseteq replacing \cup Workers

\* Such a step keeps the invariant.
LEMMA RebootKept ==
  ASSUME RebootInv, FoundInv, NEW g \in Groups, mon'[Other(g)] = mon[Other(g)], Told(g)
  PROVE  RebootInv'
<1>1. phase' = "tick" => \A h \in Groups : mon'[h].pc = "idle"
  BY DEF Told, RebootInv
<1>2. mon'["master"].pc \in Repairing => mon'["master"].todo \cap replacing' = {}
  <2>1. CASE g = "master"
    BY <2>1 DEF Told
  <2>2. CASE g = "worker"
    <3>1. mon'["master"] = mon["master"] /\ mon["master"].todo \subseteq Masters
      BY <2>2 DEF Other, FoundInv, Groups, Group
    <3>2. QED
      BY <2>2, <3>1, ConstantsAssumption DEF Told, RebootInv
  <2>3. QED
    BY <2>1, <2>2 DEF Groups
<1>3. ASSUME NEW n \in Nodes, rebootAt'[n] # "never" PROVE Remembered(n)'
  <2>1. CASE n \in Memory'
    BY <2>1 DEF Remembered
  <2>2. CASE mon'[g].pc = "rebooted" /\ mon'[g].cur = {n}
    BY <2>2 DEF Remembered
  <2>3. CASE rebootAt'[n] = rebootAt[n] /\ n \notin Memory'
    <3>1. Remembered(n) /\ crashes' = crashes
      BY <1>3, <2>3 DEF RebootInv, Told
    <3>2. n \notin Memory /\ ~(mon[g].pc = "rebooted" /\ mon[g].cur = {n})
      BY <2>3 DEF Told
    <3>3. ASSUME NEW h \in Groups, mon[h].pc = "rebooted", mon[h].cur = {n} PROVE Remembered(n)'
      <4>1. mon'[h] = mon[h]
        BY <3>2, <3>3 DEF Groups, Other
      <4>2. QED
        BY <3>3, <4>1 DEF Remembered
    <3>4. crashes > 0 => Remembered(n)'
      BY <3>1 DEF Remembered
    <3>5. QED
      BY <3>1, <3>2, <3>3, <3>4 DEF Remembered
  <2>4. QED
    BY <2>1, <2>2, <2>3 DEF Told
<1>4. QED
  BY <1>1, <1>2, <1>3 DEF Told, RebootInv

\* Every step of a monitor keeps the invariant.
LEMMA MonitorStep ==
  ASSUME HealerInv, NEW g \in Groups, Monitor(g)
  PROVE  HealerInv'
<1> USE DEF clusterVars, cloudVars, counters
<1>0. MonitorInv /\ FoundInv /\ StackInv /\ CordonInv /\ DoomedInv /\ RebootInv
  BY DEF HealerInv
<1> DEFINE Rest == FoundInv' /\ StackInv' /\ CordonInv' /\ DoomedInv'
<1>1. CASE CheckNodes(g)
  <2>1. \/ Goes(g, "done", mon[g].found, mon[g].todo, mon[g].cur, mon[g].doomed)
        \/ \E f : /\ f \subseteq Group(g)
                 /\ Goes(g, IF f = {} THEN "done" ELSE "enabled", f, f, mon[g].cur, mon[g].doomed)
    BY <1>0, <1>1, Gone, Checked, ZenonT(60) DEF CheckNodes
  <2>2. Rest
    BY <1>0, <1>1, <2>1, ConstantsAssumption, SMTT(30)
       DEF FoundInv, StackInv, CordonInv, DoomedInv, Repairing, Goes, Groups, Group, Nodes, Other,
           CheckNodes, Fault
  <2>3. RebootInv'
    <3>1. Told(g)
      BY <1>0, <1>1, <2>1, ConstantsAssumption
         DEF Told, FoundInv, StackInv, RebootInv, Memory, Repairing, Goes, Groups, Group,
             CheckNodes, Fault
    <3>2. QED
      BY <1>0, <2>1, <3>1, RebootKept, SMTT(30) DEF Goes
  <2>4. QED
    BY <2>1, <2>2, <2>3 DEF Goes, HealerInv
<1>2. CASE CheckEnabled(g)
  <2>1. \/ Goes(g, "done", mon[g].found, mon[g].todo, mon[g].cur, mon[g].doomed)
        \/ Enabled /\ Goes(g, "cordon", mon[g].found, mon[g].todo, mon[g].cur, mon[g].doomed)
    BY <1>0, <1>2, Gone, SMTT(30) DEF CheckEnabled
  <2>2. Rest
    BY <1>0, <1>2, <2>1, ConstantsAssumption, SMTT(30)
       DEF FoundInv, StackInv, CordonInv, DoomedInv, Repairing, Goes, Groups, Group, Nodes, Other,
           CheckEnabled, Fault, Enabled
  <2>3. RebootInv'
    <3>1. Told(g)
      BY <1>0, <1>2, <2>1, ConstantsAssumption
         DEF Told, FoundInv, StackInv, RebootInv, Memory, Repairing, Goes, Groups, Group,
             CheckEnabled, Fault, Enabled
    <3>2. QED
      BY <1>0, <2>1, <3>1, RebootKept, SMTT(30) DEF Goes
  <2>4. QED
    BY <2>1, <2>2, <2>3 DEF Goes, HealerInv
<1>3. CASE Cordon(g)
  <2>1. Goes(g, "status", mon[g].found, mon[g].todo, mon[g].cur, mon[g].doomed)
    BY <1>0, <1>3, Gone, SMTT(30) DEF Cordon
  <2>2. Rest
    BY <1>0, <1>3, <2>1, ConstantsAssumption
       DEF FoundInv, StackInv, CordonInv, DoomedInv, Repairing, Goes, Groups, Group, Nodes, Other,
           Cordon, Fault, ToCordon
  <2>3. RebootInv'
    <3>1. Told(g)
      BY <1>0, <1>3, <2>1, ConstantsAssumption, SMTT(30)
         DEF Told, FoundInv, StackInv, RebootInv, Memory, Repairing, Goes, Groups, Group,
             Cordon, Fault
    <3>2. QED
      BY <1>0, <2>1, <3>1, RebootKept, SMTT(30) DEF Goes
  <2>4. QED
    BY <2>1, <2>2, <2>3 DEF Goes, HealerInv
<1>4. CASE UpdateHealthStatus(g)
  <2>1. \/ Goes(g, "repair", mon[g].found, mon[g].todo, mon[g].cur, mon[g].doomed)
        \/ Goes(g, "done", mon[g].found, mon[g].todo, mon[g].cur, mon[g].doomed)
    BY <1>0, <1>4, Gone, SMTT(30) DEF UpdateHealthStatus
  <2>2. Rest
    BY <1>0, <1>4, <2>1, ConstantsAssumption, SMTT(30)
       DEF FoundInv, StackInv, CordonInv, DoomedInv, Repairing, Goes, Groups, Group, Nodes, Other,
           UpdateHealthStatus, Fault
  <2>3. RebootInv'
    <3>1. Told(g)
      BY <1>0, <1>4, <2>1, ConstantsAssumption, SMTT(30)
         DEF Told, FoundInv, StackInv, RebootInv, Memory, Repairing, Goes, Groups, Group,
             UpdateHealthStatus, Fault
    <3>2. QED
      BY <1>0, <2>1, <3>1, RebootKept, SMTT(30) DEF Goes
  <2>4. QED
    BY <2>1, <2>2, <2>3 DEF Goes, HealerInv
<1>5. CASE DeleteNodes(g)
  <2>1. Goes(g, "done", mon[g].found, mon[g].todo, mon[g].cur, mon[g].doomed)
    BY <1>0, <1>5, Gone, SMTT(30) DEF DeleteNodes
  <2>2. Rest
    BY <1>0, <1>5, <2>1, ConstantsAssumption
       DEF FoundInv, StackInv, CordonInv, DoomedInv, Repairing, Goes, Groups, Group, Nodes, Other,
           DeleteNodes, Fault, ToDelete
  <2>3. RebootInv'
    <3>1. Told(g)
      BY <1>0, <1>5, <2>1, ConstantsAssumption, SMTT(30)
         DEF Told, FoundInv, StackInv, RebootInv, Memory, Repairing, Goes, Groups, Group,
             DeleteNodes, Fault
    <3>2. QED
      BY <1>0, <2>1, <3>1, RebootKept, SMTT(30) DEF Goes
  <2>4. QED
    BY <2>1, <2>2, <2>3 DEF Goes, HealerInv
<1>6. ASSUME NEW n \in Group(g), Reboot(g, n) PROVE HealerInv'
  <2>1. \/ Goes(g, "rebooted", mon[g].found, mon[g].todo, {n}, mon[g].doomed)
        \/ /\ Goes(g, "repair", mon[g].found, mon[g].todo \ {n}, {}, mon[g].doomed)
           /\ n \in unHealthyNodes'
    BY <1>0, <1>6, Turned, NodeProcessed, Zenon DEF Reboot
  <2>2. Rest
    BY <1>0, <1>6, <2>1, ConstantsAssumption
       DEF FoundInv, StackInv, CordonInv, DoomedInv, Repairing, Goes, Groups, Group, Nodes, Other,
           Reboot, Fault
  <2>3. RebootInv'
    <3>1. /\ rebootAt' = [m \in Nodes |-> rebootAt'[m]]
          /\ \A m \in Nodes : m # n => rebootAt'[m] = rebootAt[m]
      BY <1>0, <1>6 DEF Reboot, RebootInv
    <3>2. /\ mon[g].pc = "repair" /\ UNCHANGED <<phase, crashes, replacing, marked, refused>>
          /\ unHealthyNodes \subseteq unHealthyNodes'
      BY <1>6, Zenon DEF Reboot
    <3>3. Told(g)
      BY <1>0, <2>1, <3>1, <3>2 DEF Told, RebootInv, Memory, Repairing, Goes, Groups
    <3>4. QED
      BY <1>0, <2>1, <3>3, RebootKept DEF Goes
  <2>4. QED
    BY <2>1, <2>2, <2>3 DEF Goes, HealerInv
<1>7. ASSUME NEW n \in Group(g), RebootFails(g, n) PROVE HealerInv'
  <2>1. \/ Goes(g, "repair", mon[g].found, mon[g].todo \ {n}, {}, mon[g].doomed)
        \/ Goes(g, "repair", mon[g].found, mon[g].todo \ {n}, {}, mon[g].doomed \cup {n})
           /\ refused' = refused \cup {n}
    BY <1>0, <1>7, NodeProcessed, Zenon DEF RebootFails
  <2>2. FoundInv' /\ StackInv'
    BY <1>0, <1>7, <2>1 DEF FoundInv, StackInv, Goes, Groups, Group, Nodes, Other, RebootFails, Fault
  <2>3. CordonInv'
    BY <1>0, <1>7, <2>1, ConstantsAssumption
       DEF FoundInv, StackInv, CordonInv, Repairing, Goes, Groups, Group, Nodes, Other,
           RebootFails, Fault
  <2>4. DoomedInv'
    BY <1>0, <1>7, <2>1, Zenon DEF DoomedInv, Goes, Groups, Nodes, Other, RebootFails
  <2>5. RebootInv'
    <3>1. Told(g)
      BY <1>0, <1>7, <2>1, ConstantsAssumption, Zenon
         DEF Told, FoundInv, StackInv, RebootInv, Memory, Repairing, Goes, Groups, Group,
             RebootFails, Fault
    <3>2. QED
      BY <1>0, <2>1, <3>1, RebootKept, SMTT(30) DEF Goes
  <2>6. QED
    BY <2>1, <2>2, <2>3, <2>4, <2>5 DEF Goes, HealerInv
<1>8. ASSUME NEW n \in Group(g), AfterReboot(g, n) PROVE HealerInv'
  <2>1. Goes(g, "repair", mon[g].found, mon[g].todo \ {n}, {}, mon[g].doomed)
    BY <1>0, <1>8, NodeProcessed, Zenon DEF AfterReboot
  <2>2. Rest
    BY <1>0, <1>8, <2>1, ConstantsAssumption
       DEF FoundInv, StackInv, CordonInv, DoomedInv, Repairing, Goes, Groups, Group, Nodes, Other,
           AfterReboot, Fault
  <2>3. RebootInv'
    <3>1. Told(g)
      BY <1>0, <1>8, <2>1, ConstantsAssumption
         DEF Told, FoundInv, StackInv, RebootInv, Memory, Repairing, Goes, Groups, Group,
             AfterReboot, Fault
    <3>2. QED
      BY <1>0, <2>1, <3>1, RebootKept, SMTT(30) DEF Goes
  <2>4. QED
    BY <2>1, <2>2, <2>3 DEF Goes, HealerInv
<1>9. ASSUME NEW n \in Group(g), Defer(g, n) PROVE HealerInv'
  <2>1. Goes(g, "repair", mon[g].found, mon[g].todo \ {n}, {}, mon[g].doomed)
    BY <1>0, <1>9, NodeProcessed, Zenon DEF Defer
  <2>2. Rest
    BY <1>0, <1>9, <2>1, ConstantsAssumption
       DEF FoundInv, StackInv, CordonInv, DoomedInv, Repairing, Goes, Groups, Group, Nodes, Other,
           Defer, Fault
  <2>3. RebootInv'
    <3>1. Told(g)
      BY <1>0, <1>9, <2>1, ConstantsAssumption
         DEF Told, FoundInv, StackInv, RebootInv, Memory, Repairing, Goes, Groups, Group,
             Defer, Fault
    <3>2. QED
      BY <1>0, <2>1, <3>1, RebootKept, SMTT(30) DEF Goes
  <2>4. QED
    BY <2>1, <2>2, <2>3 DEF Goes, HealerInv
<1>10. ASSUME NEW n \in Group(g), ShutDown(g, n) PROVE HealerInv'
  <2>1. Goes(g, "rebuild", mon[g].found, mon[g].todo, {n}, mon[g].doomed)
    BY <1>0, <1>10, Turned, ZenonT(60) DEF ShutDown
  <2>2. /\ mon[g].pc = "repair" /\ n \in mon[g].todo
        /\ \/ off' = off \cup {n} /\ faults' = faults
           \/ off' = off /\ faults' = faults + 1
        /\ UNCHANGED <<listed, cordoned, marked, replacing, stack, refused>>
    BY <1>10 DEF ShutDown, Fault
  <2>3. FoundInv' /\ StackInv'
    BY <1>0, <2>1, <2>2 DEF FoundInv, StackInv, Goes, Groups, Group, Other
  <2>4. CordonInv'
    BY <1>0, <2>1, <2>2, ConstantsAssumption
       DEF FoundInv, StackInv, CordonInv, Repairing, Goes, Groups, Group, Other
  <2>5. DoomedInv'
    BY <1>0, <2>1, <2>2 DEF DoomedInv, Goes, Groups, Other
  <2>6. RebootInv'
    <3>1. Told(g)
      BY <1>0, <1>10, <2>1, ConstantsAssumption, Zenon
         DEF Told, FoundInv, StackInv, RebootInv, Memory, Repairing, Goes, Groups, Group,
             ShutDown, Fault
    <3>2. QED
      BY <1>0, <2>1, <3>1, RebootKept, SMTT(30) DEF Goes
  <2>7. QED
    BY <2>1, <2>3, <2>4, <2>5, <2>6 DEF Goes, HealerInv
<1>11. ASSUME NEW n \in Group(g), g = "worker", Resize(n) PROVE HealerInv'
  <2>1. Goes(g, "repair", mon[g].found, mon[g].todo \ {n}, {}, mon[g].doomed \cup {n})
    BY <1>0, <1>11, NodeProcessed, ZenonT(60) DEF Resize
  <2>2. Rest
    BY <1>0, <1>11, <2>1, ConstantsAssumption
       DEF FoundInv, StackInv, CordonInv, DoomedInv, Repairing, Goes, Groups, Group, Nodes, Other,
           Resize, Fault, Enabled
  <2>3. RebootInv'
    <3>1. Told(g)
      BY <1>0, <1>11, <2>1, ConstantsAssumption, SMTT(30)
         DEF Told, FoundInv, StackInv, RebootInv, Memory, Repairing, Goes, Groups, Group,
             Resize, Fault, Enabled
    <3>2. QED
      BY <1>0, <2>1, <3>1, RebootKept, SMTT(30) DEF Goes
  <2>4. QED
    BY <2>1, <2>2, <2>3 DEF Goes, HealerInv
<1>12. ASSUME NEW n \in Group(g), g = "master", MarkUnhealthy(n) PROVE HealerInv'
  <2>1. Goes(g, "repair", mon[g].found, mon[g].todo \ {n}, {}, mon[g].doomed \cup {n})
    BY <1>0, <1>12, NodeProcessed, ZenonT(60) DEF MarkUnhealthy
  <2>2. Rest
    BY <1>0, <1>12, <2>1, ConstantsAssumption
       DEF FoundInv, StackInv, CordonInv, DoomedInv, Repairing, Goes, Groups, Group, Nodes, Other,
           MarkUnhealthy, Fault
  <2>3. RebootInv'
    <3>1. Told(g)
      BY <1>0, <1>12, <2>1, ConstantsAssumption
         DEF Told, FoundInv, StackInv, RebootInv, Memory, Repairing, Goes, Groups, Group,
             MarkUnhealthy, Fault
    <3>2. QED
      BY <1>0, <2>1, <3>1, RebootKept, SMTT(30) DEF Goes
  <2>4. QED
    BY <2>1, <2>2, <2>3 DEF Goes, HealerInv
<1>13. ASSUME g = "master", UpdateStack PROVE HealerInv'
  <2>1. \/ Goes(g, "delete", mon[g].found, mon[g].todo, mon[g].cur, mon[g].doomed) /\ marked' = {}
        \/ Goes(g, "done", mon[g].found, mon[g].todo, mon[g].cur, mon[g].doomed)
           /\ UNCHANGED <<stack, replacing, marked>>
    BY <1>0, <1>13, Gone DEF UpdateStack
  <2>2. Rest
    BY <1>0, <1>13, <2>1, ConstantsAssumption
       DEF FoundInv, StackInv, CordonInv, DoomedInv, Repairing, Goes, Groups, Group, Nodes, Other,
           UpdateStack, Fault
  <2>3. RebootInv'
    <3>1. Told(g)
      BY <1>0, <1>13, <2>1, ConstantsAssumption
         DEF Told, FoundInv, StackInv, RebootInv, Memory, Repairing, Goes, Groups, Group,
             UpdateStack, Fault
    <3>2. QED
      BY <1>0, <2>1, <3>1, RebootKept, SMTT(30) DEF Goes
  <2>4. QED
    BY <2>1, <2>2, <2>3 DEF Goes, HealerInv
<1>14. QED
  BY <1>1, <1>2, <1>3, <1>4, <1>5, <1>6, <1>7, <1>8, <1>9, <1>10, <1>11, <1>12, <1>13 DEF Monitor

\* Every step keeps the invariant.
LEMMA NextHealer == HealerInv /\ [Next]_vars => HealerInv'
<1> SUFFICES ASSUME HealerInv, [Next]_vars PROVE HealerInv'
  OBVIOUS
<1> USE DEF HealerInv, clusterVars, cloudVars, counters
<1>1. CASE Tick \/ Crash
  <2>1. MonitorInv' /\ FoundInv'
    BY <1>1, Fresh, SMTT(30) DEF Tick, Crash, FoundInv
  <2>2. StackInv' /\ CordonInv' /\ DoomedInv'
    BY <1>1, Fresh DEF Tick, Crash, StackInv, CordonInv, DoomedInv, Repairing, Groups
  <2>3. CASE Tick
    <3>1. \A g \in Groups : mon'[g].pc \in {"idle", "check"} /\ mon'[g].todo = {} /\ mon[g].pc = "idle"
      BY <2>3, Fresh DEF Tick, RebootInv
    <3>2. RebootInv'
      BY <2>3, <3>1, SMTT(30) DEF Tick, RebootInv, Remembered, Memory, Repairing, Groups
    <3>3. QED
      BY <2>1, <2>2, <3>2
  <2>4. CASE Crash
    <3>1. \A g \in Groups : mon'[g].pc = "idle"
      BY <2>4, SMTT(30) DEF Crash, NewMonitor
    <3>2. RebootInv'
      BY <2>4, <3>1 DEF Crash, RebootInv, Remembered, Memory, Repairing, Groups
    <3>3. QED
      BY <2>1, <2>2, <3>2
  <2>5. QED
    BY <1>1, <2>3, <2>4
<1>2. CASE Report
  <2>1. MonitorInv' /\ FoundInv'
    BY <1>2, Fresh DEF Report, FoundInv
  <2>2. StackInv' /\ CordonInv' /\ DoomedInv'
    BY <1>2, Fresh, SMTT(30) DEF Report, StackInv, CordonInv, DoomedInv, Repairing, Groups, Fault
  <2>3. \A g \in Groups : mon'[g].pc = "idle" /\ mon[g].pc = "done"
    BY <1>2, SMTT(30) DEF Report, RoundDone, NewMonitor
  <2>4. RebootInv'
    BY <1>2, <2>3 DEF Report, RebootInv, Remembered, Memory, Repairing, Groups, Fault
  <2>5. QED
    BY <2>1, <2>2, <2>4
<1>3. CASE UpdateDone
  <2>1. MonitorInv'
    BY <1>3, Zenon DEF UpdateDone, MonitorInv, IsMonitor
  <2>2. \A g \in Groups : /\ mon'[g].pc = mon[g].pc /\ mon'[g].found = mon[g].found /\ mon'[g].todo = mon[g].todo
                          /\ mon'[g].cur = mon[g].cur /\ mon'[g].doomed = mon[g].doomed \ replacing
    BY <1>3 DEF UpdateDone, MonitorInv, IsMonitor
  <2>3. /\ replacing' = {} /\ listed' = listed \cup replacing /\ cordoned' = cordoned \ replacing
        /\ off' = off \ replacing /\ refused' = refused \ replacing /\ UNCHANGED <<marked, faults>>
    BY <1>3, SMTT(30) DEF UpdateDone
  <2>4. FoundInv' /\ StackInv'
    BY <2>2, <2>3, SMTT(30) DEF FoundInv, StackInv
  <2>5. CordonInv' /\ DoomedInv'
    BY <2>2, <2>3, SMTT(30) DEF CordonInv, DoomedInv, Repairing, Groups
  <2>6. RebootInv'
    BY <1>3, <2>2, <2>3, ZenonT(60) DEF UpdateDone, RebootInv, Remembered, Memory, Repairing, Groups
  <2>7. QED
    BY <2>1, <2>4, <2>5, <2>6
<1>4. ASSUME NEW n \in Nodes, FallSick(n) \/ Recover(n) \/ DelayPasses(n) PROVE HealerInv'
  <2>1. MonitorInv' /\ FoundInv' /\ StackInv' /\ CordonInv' /\ DoomedInv'
    BY <1>4, Zenon DEF FallSick, Recover, DelayPasses, MonitorInv, FoundInv, StackInv, CordonInv, DoomedInv
  <2>2. RebootInv'
    BY <1>4 DEF FallSick, Recover, DelayPasses, RebootInv, Remembered, Memory
  <2>3. QED
    BY <2>1, <2>2
<1>5. CASE UNCHANGED vars
  BY <1>5, Zenon DEF vars, MonitorInv, FoundInv, StackInv, CordonInv, DoomedInv, RebootInv, Remembered, Memory
<1>6. QED
  BY <1>1, <1>2, <1>3, <1>4, <1>5, MonitorStep DEF Next

\* Whatever fails and however often the healer restarts, a Node is missing only while
\* its server is replaced or after a refusal, and a worker is switched off only behind
\* a cordon unless a request failed (Repair, cordon and "Remove the broken nodes").
THEOREM MissingNodesAreReplaced == Spec => []MissingIsReplaced
<1>1. HealerInv => MissingIsReplaced
  BY DEF HealerInv, CordonInv, DoomedInv, MissingIsReplaced
<1>2. QED
  BY <1>1, InitHealer, NextHealer, PTL DEF Spec

\* A step that switches a server off or reboots one again does so as the property says.
LEMMA RebootStep ==
  ASSUME HealerInv, [Next]_vars
  PROVE  /\ \A n \in off' \ off : rebootAt[n] = "before"
         /\ \A n \in Nodes : rebootAt[n] = "before" /\ rebootAt'[n] = "lately" =>
              \/ crashes > 0 \/ n \in refused \cup marked
              \/ \E g \in Groups : mon[g].pc = "rebooted" /\ mon[g].cur = {n}
<1> USE DEF clusterVars, cloudVars, counters
<1> DEFINE Off == \A n \in off' \ off : rebootAt[n] = "before"
           Again(n) == rebootAt[n] = "before" /\ rebootAt'[n] = "lately" =>
                         \/ crashes > 0 \/ n \in refused \cup marked
                         \/ \E g \in Groups : mon[g].pc = "rebooted" /\ mon[g].cur = {n}
<1>0. FoundInv /\ CordonInv /\ RebootInv
  BY DEF HealerInv
<1>1. ASSUME NEW g \in Groups, Monitor(g) PROVE Off /\ \A n \in Nodes : Again(n)
  <2>1. CASE CheckNodes(g) \/ CheckEnabled(g) \/ Cordon(g) \/ UpdateHealthStatus(g) \/ DeleteNodes(g)
    BY <2>1 DEF CheckNodes, CheckEnabled, Cordon, UpdateHealthStatus, DeleteNodes
  <2>2. ASSUME NEW n \in Group(g), Reboot(g, n) PROVE Off /\ \A m \in Nodes : Again(m)
    <3>1. n \notin replacing /\ n \notin unHealthyNodes /\ n \in Nodes /\ off' = off
      BY <1>0, <2>2 DEF Reboot, CordonInv, RebootInv, Repairing, Groups, Group, Nodes
    <3>2. rebootAt[n] = "before" => Remembered(n)
      BY <1>0, <3>1 DEF RebootInv
    <3>3. \A m \in Nodes : m # n => rebootAt'[m] = rebootAt[m]
      BY <1>0, <2>2 DEF Reboot, RebootInv
    <3>4. QED
      BY <3>1, <3>2, <3>3 DEF Remembered, Memory
  <2>3. ASSUME NEW n \in Group(g), AfterReboot(g, n) PROVE Off /\ \A m \in Nodes : Again(m)
    BY <1>0, <2>3 DEF AfterReboot, RebootInv
  <2>4. ASSUME NEW n \in Group(g), RebootFails(g, n) \/ Defer(g, n) \/ ShutDown(g, n)
        PROVE  Off /\ \A m \in Nodes : Again(m)
    BY <2>4, Zenon DEF RebootFails, Defer, ShutDown, Due
  <2>5. ASSUME NEW n \in Group(g), Resize(n) \/ MarkUnhealthy(n) PROVE Off /\ \A m \in Nodes : Again(m)
    BY <2>5, Zenon DEF Resize, MarkUnhealthy
  <2>6. CASE UpdateStack
    BY <2>6 DEF UpdateStack
  <2>7. QED
    BY <1>1, <2>1, <2>2, <2>3, <2>4, <2>5, <2>6, Zenon DEF Monitor
<1>2. CASE Tick \/ Report \/ Crash \/ UNCHANGED vars
  BY <1>2 DEF Tick, Report, Crash, vars
<1>3. CASE UpdateDone
  BY <1>3 DEF UpdateDone
<1>4. ASSUME NEW n \in Nodes, FallSick(n) \/ Recover(n) \/ DelayPasses(n)
      PROVE  Off /\ \A m \in Nodes : Again(m)
  BY <1>0, <1>4 DEF FallSick, Recover, DelayPasses, RebootInv
<1>5. QED
  BY <1>1, <1>2, <1>3, <1>4, Zenon DEF Next

\* A server is switched off only when it was rebooted long enough ago, and a server
\* that was is not rebooted again, unless the healer restarted or its replacement was
\* refused or has not begun (firstTimeRepair and the map unHealthyNodes).
THEOREM RebootedOnceThenRebuilt == Spec => RebootBeforeRebuild
<1>1. HealerInv /\ [Next]_vars =>
        [/\ \A n \in off' \ off : rebootAt[n] = "before"
         /\ \A n \in Nodes : rebootAt[n] = "before" /\ rebootAt'[n] = "lately" =>
              \/ crashes > 0 \/ n \in refused \cup marked
              \/ \E g \in Groups : mon[g].pc = "rebooted" /\ mon[g].cur = {n}]_vars
  BY RebootStep
<1>2. QED
  BY <1>1, InitHealer, NextHealer, PTL DEF Spec, RebootBeforeRebuild
=============================================================================
