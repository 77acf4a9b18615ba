-------------------------- MODULE OctaviaPoolProofs --------------------------
(***************************************************************************)
(* Proofs about OctaviaPool, for any nodes, configurations, providers and  *)
(* bounds: a worker that has the load balancer to itself is never refused, *)
(* and no step takes a member away that the acting worker wants.           *)
(***************************************************************************)
EXTENDS OctaviaPool, TLAPS

\* What a worker keeps of its round.
IsRound(r) ==
  r = [pc |-> r.pc, conf |-> r.conf, nodes |-> r.nodes, subnet |-> r.subnet, alone |-> r.alone,
       pool |-> r.pool, mon |-> r.mon, todo |-> r.todo, drop |-> r.drop, next |-> r.next]

RoundInv == w = [c \in Workers |-> w[c]] /\ \A c \in Workers : IsRound(w[c])

\* The stages at which a worker knows the pool.
OfPool == {"delete", "members", "batch", "serial", "monitor", "createMon", "updateMon",
           "deleteMon", "deleteMonCreate", "deleteMonUpdate"}

\* A worker that is alone finds the load balancer and the pool as it left them, at the
\* stage it is at or will be at when the load balancer is ACTIVE again.
Undisturbed(r, l, p) ==
  r.pc # "idle" /\ r.alone =>
    /\ r.pc # "wait" => l = "ACTIVE"
    /\ (IF r.pc = "wait" THEN r.next ELSE r.pc) \in OfPool => p # None /\ p = r.pool
    /\ (IF r.pc = "wait" THEN r.next ELSE r.pc) = "create" => p = None

AloneInv ==
  \A c \in Workers :
    /\ w[c].pc # "idle" /\ w[c].alone => w[Other(c)].pc = "idle"
    /\ Undisturbed(w[c], lb, pool)

RefusalInv == RoundInv /\ AloneInv /\ NeverRefused

-----------------------------------------------------------------------------
\* There are two workers.
LEMMA Others == \A c \in Workers : Other(c) \in Workers /\ Other(c) # c /\ Workers = {c, Other(c)}
  BY DEF Workers, Other

\* A new pool has an identifier.
LEMMA FreshPoolIsNew == FreshPool \in PoolIDs /\ FreshPool # None
<1>1. \E i \in PoolIDs : i \notin {w[c].pool : c \in {x \in Workers : ~At(x, "idle")}}
  <2>1. {w[c].pool : c \in {x \in Workers : ~At(x, "idle")}} \subseteq {w["svc"].pool, w["node"].pool}
    BY DEF Workers
  <2>2. \E i \in PoolIDs : i # w["svc"].pool /\ i # w["node"].pool
    <3>1. 1 \in PoolIDs /\ 2 \in PoolIDs /\ 3 \in PoolIDs
      BY DEF PoolIDs
    <3>2. QED
      BY <3>1
  <2>3. QED
    BY <2>1, <2>2
<1>2. QED
  BY <1>1, ConstantsAssumption DEF FreshPool

\* At the start both workers are idle and nothing was refused.
LEMMA InitRefusal == Init => RefusalInv
<1> SUFFICES ASSUME Init PROVE RefusalInv
  OBVIOUS
<1>1. w = [c \in Workers |-> Idle] /\ ~refused
  BY DEF Init
<1>2. RoundInv
  BY <1>1, Zenon DEF RoundInv, IsRound, Idle
<1>3. AloneInv
  BY <1>1 DEF AloneInv, Undisturbed, Idle, Workers, Other
<1>4. QED
  BY <1>1, <1>2, <1>3 DEF RefusalInv, NeverRefused

\* The forms a step gives to the workers.
LEMMA RoundKept ==
  ASSUME RoundInv, NEW c \in Workers
  PROVE  /\ \A a : w' = [w EXCEPT ![c].pc = a] => RoundInv'
         /\ \A a, b : w' = [w EXCEPT ![c].pc = a, ![c].next = b] => RoundInv'
         /\ w' = [w EXCEPT ![c] = Idle] => RoundInv'
  BY DEF RoundInv, IsRound, Idle, Workers

\* A step of a worker keeps the shape of the rounds.
LEMMA StepRound ==
  ASSUME RoundInv, NEW c \in Workers, Step(c)
  PROVE  RoundInv'
<1> USE DEF Goto, Fail, Accepted, Refuse
<1>1. ASSUME NEW first, Begin(c, first) PROVE RoundInv'
  BY <1>1, ZenonT(60) DEF Begin, RoundInv, IsRound, Idle, Workers
<1>2. CASE WaitActiveAndGetLoadBalancer(c)
  BY <1>2, RoundKept DEF WaitActiveAndGetLoadBalancer
<1>3. CASE GetPoolByListener(c)
  <2>1. \/ w' = [w EXCEPT ![c] = Idle]
        \/ \E a, b, d : w' = [w EXCEPT ![c].pool = a, ![c].mon = b, ![c].pc = d]
        \/ w' = [w EXCEPT ![c].pc = "create"]
    BY <1>3, Zenon DEF GetPoolByListener
  <2>2. CASE w' # [w EXCEPT ![c] = Idle]
    BY <2>1, <2>2, ZenonT(60) DEF RoundInv, IsRound, Workers
  <2>3. QED
    BY <2>2, RoundKept
<1>4. CASE DeletePool(c)
  BY <1>4, RoundKept DEF DeletePool
<1>5. CASE CreatePool(c)
  <2>1. \/ w' = [w EXCEPT ![c] = Idle]
        \/ w' = [w EXCEPT ![c].pc = "wait", ![c].next = "members", ![c].pool = FreshPool, ![c].mon = FALSE]
    BY <1>5 DEF CreatePool
  <2>2. ASSUME NEW a, w' = [w EXCEPT ![c].pc = "wait", ![c].next = "members", ![c].pool = a, ![c].mon = FALSE]
        PROVE  RoundInv'
    BY <2>2, Zenon DEF RoundInv, IsRound, Workers
  <2>3. QED
    BY <2>1, <2>2, RoundKept, Zenon
<1>6. CASE GetMembersbyPool(c)
  BY <1>6, RoundKept DEF GetMembersbyPool
<1>7. CASE BatchUpdatePoolMembers(c)
  BY <1>7, RoundKept, ZenonT(60) DEF BatchUpdatePoolMembers
<1>8. CASE SeriallyReconcilePoolMembers(c)
  <2>1. \/ w' = [w EXCEPT ![c] = Idle]
        \/ \E a, b : w' = [w EXCEPT ![c].pc = "serial", ![c].todo = a, ![c].drop = b]
    BY <1>8, Zenon DEF SeriallyReconcilePoolMembers
  <2>2. CASE w' # [w EXCEPT ![c] = Idle]
    BY <2>1, <2>2, ZenonT(60) DEF RoundInv, IsRound, Workers
  <2>3. QED
    BY <2>2, RoundKept
<1>9. CASE SerialDone(c)
  BY <1>9, RoundKept, Zenon DEF SerialDone
<1>10. ASSUME NEW n \in Nodes, CreateMember(c, n) PROVE RoundInv'
  <2>1. \/ w' = [w EXCEPT ![c] = Idle]
        \/ w' = [w EXCEPT ![c].pc = "wait", ![c].next = "serial", ![c].todo = @ \ {n}]
    BY <1>10 DEF CreateMember
  <2>2. CASE w' # [w EXCEPT ![c] = Idle]
    BY <2>1, <2>2, SMTT(30) DEF RoundInv, IsRound, Workers
  <2>3. QED
    BY <2>2, RoundKept
<1>11. ASSUME NEW n \in Nodes, DeleteMember(c, n) PROVE RoundInv'
  <2>1. \/ w' = [w EXCEPT ![c] = Idle]
        \/ w' = [w EXCEPT ![c].pc = "wait", ![c].next = "serial", ![c].drop = @ \ {n}]
    BY <1>11 DEF DeleteMember
  <2>2. CASE w' # [w EXCEPT ![c] = Idle]
    BY <2>1, <2>2, SMTT(30) DEF RoundInv, IsRound, Workers
  <2>3. QED
    BY <2>2, RoundKept
<1>12. CASE ensureOctaviaHealthMonitor(c)
  BY <1>12, RoundKept DEF ensureOctaviaHealthMonitor
<1>13. CASE DeleteHealthMonitor(c)
  BY <1>13, RoundKept DEF DeleteHealthMonitor
<1>14. CASE UpdateHealthMonitor(c)
  BY <1>14, RoundKept DEF UpdateHealthMonitor
<1>15. CASE CreateHealthMonitor(c)
  BY <1>15, RoundKept DEF CreateHealthMonitor
<1>16. CASE Done(c)
  BY <1>16, RoundKept, Zenon DEF Done
<1>17. QED
  BY <1>1, <1>2, <1>3, <1>4, <1>5, <1>6, <1>7, <1>8, <1>9, <1>10, <1>11, <1>12, <1>13,
     <1>14, <1>15, <1>16 DEF Step

\* While a worker is busy, only that one may be alone.
LEMMA AloneKept ==
  ASSUME AloneInv, NEW c \in Workers, w[c].pc # "idle", w'[Other(c)] = w[Other(c)],
         w'[c].alone => w[c].alone, Undisturbed(w'[c], lb', pool')
  PROVE  AloneInv'
<1> DEFINE o == Other(c)
<1>1. o \in Workers /\ o # c /\ Other(o) = c /\ \A x \in Workers : x = c \/ x = o
  BY DEF Workers, Other
<1>2. w[o].pc # "idle" => ~w[o].alone
  BY <1>1 DEF AloneInv
<1>3. w[c].alone => w[o].pc = "idle"
  BY DEF AloneInv
<1>4. Undisturbed(w'[o], lb', pool')
  BY <1>2 DEF Undisturbed
<1>5. QED
  BY <1>1, <1>2, <1>3, <1>4 DEF AloneInv

\* A step that leaves the other worker and what this one began with alone.
Goes(c, pc, next, pl) ==
  /\ w'[Other(c)] = w[Other(c)] /\ w'[c].alone = w[c].alone /\ w'[c].nodes = w[c].nodes
  /\ w'[c].pc = pc /\ w'[c].next = next /\ w'[c].pool = pl

\* The forms in which a step changes a round.
LEMMA Moved ==
  ASSUME RoundInv, NEW c \in Workers
  PROVE  /\ w' = [w EXCEPT ![c] = Idle] => w'[Other(c)] = w[Other(c)] /\ w'[c] = Idle
         /\ \A a : w' = [w EXCEPT ![c].pc = a] =>
              Goes(c, a, w[c].next, w[c].pool) /\ w'[c].drop = w[c].drop
         /\ \A a, b : w' = [w EXCEPT ![c].pc = a, ![c].next = b] =>
              Goes(c, a, b, w[c].pool) /\ w'[c].drop = w[c].drop
  BY DEF RoundInv, IsRound, Workers, Other, Goes

\* The worker knows the pool and the monitor.
LEMMA MovedPool ==
  ASSUME RoundInv, NEW c \in Workers, NEW a, NEW b, NEW d,
         w' = [w EXCEPT ![c].pool = a, ![c].mon = b, ![c].pc = d]
  PROVE  Goes(c, d, w[c].next, a) /\ w'[c].drop = w[c].drop
  BY SMTT(30) DEF RoundInv, IsRound, Workers, Other, Goes

\* The worker made a pool or a monitor and waits.
LEMMA MovedNew ==
  ASSUME RoundInv, NEW c \in Workers, NEW a, NEW b, NEW d, NEW e,
         w' = [w EXCEPT ![c].pc = a, ![c].next = b, ![c].pool = d, ![c].mon = e]
  PROVE  Goes(c, a, b, d) /\ w'[c].drop = w[c].drop
<1>1. w'[Other(c)] = w[Other(c)]
  BY Zenon DEF RoundInv, Workers, Other
<1>2. w'[c].alone = w[c].alone /\ w'[c].nodes = w[c].nodes /\ w'[c].drop = w[c].drop
  BY DEF RoundInv, IsRound
<1>3. w'[c].pc = a
  BY DEF RoundInv, IsRound
<1>4. w'[c].next = b
  BY DEF RoundInv, IsRound
<1>5. w'[c].pool = d
  BY SMTT(30) DEF RoundInv, IsRound
<1>6. QED
  BY <1>1, <1>2, <1>3, <1>4, <1>5 DEF Goes

\* The worker has planned the serial update of members.
LEMMA MovedPlan ==
  ASSUME RoundInv, NEW c \in Workers, NEW a, NEW b, NEW d,
         w' = [w EXCEPT ![c].pc = a, ![c].todo = b, ![c].drop = d]
  PROVE  Goes(c, a, w[c].next, w[c].pool) /\ w'[c].drop = d
  BY SMTT(30) DEF RoundInv, IsRound, Workers, Other, Goes

\* The worker has created one member.
LEMMA MovedTodo ==
  ASSUME RoundInv, NEW c \in Workers, NEW a, NEW b, NEW n,
         w' = [w EXCEPT ![c].pc = a, ![c].next = b, ![c].todo = @ \ {n}]
  PROVE  Goes(c, a, b, w[c].pool) /\ w'[c].drop = w[c].drop
  BY SMTT(30) DEF RoundInv, IsRound, Workers, Other, Goes

\* The worker has deleted members.
LEMMA MovedDrop ==
  ASSUME RoundInv, NEW c \in Workers, NEW a, NEW b, NEW d,
         w' = [w EXCEPT ![c].pc = a, ![c].next = b, ![c].drop = d]
  PROVE  Goes(c, a, b, w[c].pool) /\ w'[c].drop = d
  BY SMTT(30) DEF RoundInv, IsRound, Workers, Other, Goes

\* A round that fails disturbs nobody.
LEMMA FailKept ==
  ASSUME RoundInv, AloneInv, NEW c \in Workers, w[c].pc # "idle", w' = [w EXCEPT ![c] = Idle]
  PROVE  AloneInv'
<1>1. w'[Other(c)] = w[Other(c)] /\ w'[c] = Idle
  BY Moved, Zenon
<1>2. Undisturbed(w'[c], lb', pool') /\ ~w'[c].alone
  BY <1>1 DEF Undisturbed, Idle
<1>3. QED
  BY <1>1, <1>2, AloneKept

\* Only a request of a worker that is not alone is refused.
LEMMA RefuseKept ==
  ASSUME RefusalInv, NEW c \in Workers, w[c].pc # "idle", ~w[c].alone, Refuse(c)
  PROVE  AloneInv' /\ NeverRefused'
  BY FailKept, Zenon DEF RefusalInv, Refuse, Fail, NeverRefused

\* A step of a worker that is alone is accepted, and leaves the pool as it knows it.
LEMMA StepAlone ==
  ASSUME RefusalInv, NEW c \in Workers, Step(c)
  PROVE  AloneInv' /\ NeverRefused'
<1> DEFINE o == Other(c)
<1>0. RoundInv /\ AloneInv /\ ~refused /\ o \in Workers /\ o # c
  BY Others DEF RefusalInv, NeverRefused
<1>a. Undisturbed(w[c], lb, pool)
  BY <1>0 DEF AloneInv
<1>b. ASSUME NEW pc, NEW next, NEW pl, Goes(c, pc, next, pl), w[c].pc # "idle", UNCHANGED refused,
             w[c].alone =>
               /\ pc # "wait" => lb' = "ACTIVE"
               /\ (IF pc = "wait" THEN next ELSE pc) \in OfPool => pool' # None /\ pool' = pl
               /\ (IF pc = "wait" THEN next ELSE pc) = "create" => pool' = None
      PROVE  AloneInv' /\ NeverRefused'
  <2>1. Undisturbed(w'[c], lb', pool')
    BY <1>b DEF Undisturbed, Goes
  <2>2. QED
    BY <1>0, <1>b, <2>1, AloneKept DEF Goes, NeverRefused
<1>1. ASSUME NEW first, Begin(c, first) PROVE AloneInv' /\ NeverRefused'
  <2>1. /\ w'[c].pc = "get" /\ w'[c].alone = (w[o].pc = "idle") /\ lb' = "ACTIVE" /\ ~refused'
        /\ w'[o] = IF w[o].pc = "idle" THEN w[o] ELSE [w[o] EXCEPT !.alone = FALSE]
    BY <1>0, <1>1, Zenon DEF Begin, Idle, Workers, At
  <2>2. w'[o].pc = w[o].pc /\ (w[o].pc # "idle" => ~w'[o].alone)
    BY <1>0, <2>1 DEF RoundInv, IsRound
  <2>3. Undisturbed(w'[c], lb', pool') /\ Undisturbed(w'[o], lb', pool')
    BY <2>1, <2>2 DEF Undisturbed, OfPool
  <2>4. Other(o) = c /\ \A x \in Workers : x = c \/ x = o
    BY DEF Other, Workers
  <2>5. QED
    BY <2>1, <2>2, <2>3, <2>4, Zenon DEF AloneInv, NeverRefused
<1>2. CASE WaitActiveAndGetLoadBalancer(c)
  <2>1. w[c].pc = "wait" /\ UNCHANGED <<lb, pool, refused>>
    BY <1>2 DEF WaitActiveAndGetLoadBalancer, At, poolVars
  <2>2. CASE Goto(c, w[c].next) /\ lb = "ACTIVE"
    <3>1. Goes(c, w[c].next, w[c].next, w[c].pool)
      BY <1>0, <2>2, Moved, Zenon DEF Goto
    <3>2. QED
      BY <1>a, <1>b, <2>1, <2>2, <3>1 DEF Undisturbed, NeverRefused
  <2>3. CASE w' = [w EXCEPT ![c] = Idle]
    BY <1>0, <2>1, <2>3, FailKept, Zenon DEF NeverRefused
  <2>4. QED
    BY <1>2, <2>2, <2>3 DEF WaitActiveAndGetLoadBalancer, Fail
<1>3. CASE GetPoolByListener(c)
  <2>1. w[c].pc = "get" /\ UNCHANGED <<lb, pool, refused>>
    BY <1>3 DEF GetPoolByListener, At, poolVars
  <2>2. CASE pool = None
    <3>1. Goes(c, "create", w[c].next, w[c].pool)
      BY <1>0, <1>3, <2>2, Moved DEF GetPoolByListener, Goto
    <3>2. QED
      BY <1>a, <1>b, <2>1, <2>2, <3>1 DEF Undisturbed, OfPool
  <2>3. CASE pool # None
    <3>1. PICK d \in {"members", "delete"} : w' = [w EXCEPT ![c].pool = pool, ![c].mon = (monitor # None), ![c].pc = d]
      BY <1>3, <2>3 DEF GetPoolByListener
    <3>2. Goes(c, d, w[c].next, pool)
      BY <1>0, <3>1, MovedPool, Zenon
    <3>3. QED
      BY <1>a, <1>b, <2>1, <2>3, <3>2 DEF Undisturbed
  <2>4. QED
    BY <2>2, <2>3
<1>4. CASE DeletePool(c)
  <2>1. w[c].pc = "delete" /\ (w[c].alone => Mine(c) /\ lb = "ACTIVE")
    BY <1>4, <1>a DEF DeletePool, At, Undisturbed, OfPool, Mine
  <2>2. CASE Accepted(c, "create") /\ pool' = None
    <3>1. Goes(c, "wait", "create", w[c].pool) /\ UNCHANGED refused
      BY <1>0, <2>2, Moved, Zenon DEF Accepted
    <3>2. QED
      BY <1>b, <2>1, <2>2, <3>1 DEF OfPool
  <2>3. CASE ~Mine(c) /\ w' = [w EXCEPT ![c].pc = "wait", ![c].next = "create"] /\ UNCHANGED <<pool, refused>>
    <3>1. Goes(c, "wait", "create", w[c].pool)
      BY <1>0, <2>3, Moved, Zenon
    <3>2. QED
      BY <1>b, <2>1, <2>3, <3>1
  <2>4. CASE lb # "ACTIVE" /\ Refuse(c)
    BY <2>1, <2>4, RefuseKept
  <2>5. QED
    BY <1>4, <2>2, <2>3, <2>4 DEF DeletePool, poolVars
<1>5. CASE CreatePool(c)
  <2>1. w[c].pc = "create" /\ (w[c].alone => pool = None /\ lb = "ACTIVE")
    BY <1>5, <1>a DEF CreatePool, At, Undisturbed
  <2>2. CASE /\ pool' = FreshPool /\ UNCHANGED refused
             /\ w' = [w EXCEPT ![c].pc = "wait", ![c].next = "members", ![c].pool = FreshPool, ![c].mon = FALSE]
    <3>1. Goes(c, "wait", "members", FreshPool)
      BY <1>0, <2>2, MovedNew, Zenon
    <3>2. QED
      BY <1>b, <2>1, <2>2, <3>1, FreshPoolIsNew
  <2>3. CASE (pool # None \/ lb # "ACTIVE") /\ Refuse(c)
    BY <2>1, <2>3, RefuseKept
  <2>4. QED
    BY <1>5, <2>2, <2>3 DEF CreatePool
<1>6. CASE GetMembersbyPool(c)
  <2>1. w[c].pc = "members" /\ UNCHANGED <<lb, pool, refused>>
    BY <1>6 DEF GetMembersbyPool, At, poolVars
  <2>2. PICK d \in {"monitor", "done", "batch"} : Goto(c, d)
    BY <1>6 DEF GetMembersbyPool, AfterPool
  <2>3. Goes(c, d, w[c].next, w[c].pool)
    BY <1>0, <2>2, Moved, Zenon DEF Goto
  <2>4. QED
    BY <1>a, <1>b, <2>1, <2>3, SMTT(30) DEF Undisturbed, OfPool
<1>7. CASE BatchUpdatePoolMembers(c)
  <2>1. w[c].pc = "batch" /\ (w[c].alone => Mine(c) /\ lb = "ACTIVE")
    BY <1>7, <1>a DEF BatchUpdatePoolMembers, At, Undisturbed, OfPool, Mine
  <2>2. CASE Mine(c) /\ Accepted(c, AfterPool(c)) /\ UNCHANGED pool
    <3>1. Goes(c, "wait", AfterPool(c), w[c].pool) /\ UNCHANGED refused
      BY <1>0, <2>2, Moved, Zenon DEF Accepted
    <3>2. QED
      BY <1>b, <2>1, <2>2, <3>1 DEF AfterPool, Mine
  <2>3. CASE (~Mine(c) \/ lb # "ACTIVE") /\ Refuse(c)
    BY <2>1, <2>3, RefuseKept, SMTT(30)
  <2>4. QED
    BY <1>7, <2>2, <2>3 DEF BatchUpdatePoolMembers
<1>8. CASE SeriallyReconcilePoolMembers(c)
  <2>1. w[c].pc = "members" /\ UNCHANGED <<lb, pool, refused>>
    BY <1>8, Zenon DEF SeriallyReconcilePoolMembers, At, poolVars
  <2>2. ASSUME NEW b, NEW d, w' = [w EXCEPT ![c].pc = "serial", ![c].todo = b, ![c].drop = d]
        PROVE  AloneInv' /\ NeverRefused'
    <3>1. Goes(c, "serial", w[c].next, w[c].pool)
      BY <1>0, <2>2, MovedPlan, Zenon
    <3>2. QED
      BY <1>a, <1>b, <2>1, <3>1 DEF Undisturbed, OfPool
  <2>3. CASE Fail(c)
    BY <1>0, <2>1, <2>3, FailKept, Zenon DEF Fail, NeverRefused
  <2>4. QED
    BY <1>8, <2>2, <2>3, ZenonT(60) DEF SeriallyReconcilePoolMembers
<1>9. CASE SerialDone(c)
  <2>1. w[c].pc = "serial" /\ UNCHANGED <<lb, pool, refused>> /\ Goto(c, AfterPool(c))
    BY <1>9 DEF SerialDone, At, poolVars
  <2>2. Goes(c, AfterPool(c), w[c].next, w[c].pool)
    BY <1>0, <2>1, Moved, Zenon DEF Goto
  <2>3. QED
    BY <1>a, <1>b, <2>1, <2>2 DEF Undisturbed, OfPool, AfterPool
<1>10. ASSUME NEW n \in Nodes, CreateMember(c, n) PROVE AloneInv' /\ NeverRefused'
  <2>1. w[c].pc = "serial" /\ (w[c].alone => Mine(c) /\ lb = "ACTIVE")
    BY <1>10, <1>a DEF CreateMember, At, Undisturbed, OfPool, Mine
  <2>2. CASE /\ Mine(c) /\ UNCHANGED <<pool, refused>>
             /\ w' = [w EXCEPT ![c].pc = "wait", ![c].next = "serial", ![c].todo = @ \ {n}]
    <3>1. Goes(c, "wait", "serial", w[c].pool)
      BY <1>0, <2>2, MovedTodo, Zenon
    <3>2. QED
      BY <1>b, <2>1, <2>2, <3>1 DEF Mine
  <2>3. CASE (~Mine(c) \/ lb # "ACTIVE") /\ Refuse(c)
    BY <2>1, <2>3, RefuseKept
  <2>4. CASE Fail(c) /\ UNCHANGED refused
    BY <1>0, <2>1, <2>4, FailKept, Zenon DEF Fail, NeverRefused
  <2>5. QED
    BY <1>10, <2>2, <2>3, <2>4 DEF CreateMember
<1>11. ASSUME NEW n \in Nodes, DeleteMember(c, n) PROVE AloneInv' /\ NeverRefused'
  <2>1. w[c].pc = "serial" /\ (w[c].alone => Mine(c) /\ lb = "ACTIVE")
    BY <1>11, <1>a DEF DeleteMember, At, Undisturbed, OfPool, Mine
  <2>2. CASE /\ UNCHANGED <<pool, refused>>
             /\ w' = [w EXCEPT ![c].pc = "wait", ![c].next = "serial", ![c].drop = @ \ {n}]
    <3>1. Goes(c, "wait", "serial", w[c].pool)
      BY <1>0, <2>2, MovedDrop, Zenon
    <3>2. QED
      BY <1>b, <2>1, <2>2, <3>1 DEF Mine
  <2>3. CASE lb # "ACTIVE" /\ Refuse(c)
    BY <2>1, <2>3, RefuseKept
  <2>4. QED
    BY <1>11, <2>2, <2>3 DEF DeleteMember, poolVars
<1>12. CASE ensureOctaviaHealthMonitor(c)
  <2>1. w[c].pc = "monitor" /\ UNCHANGED <<lb, pool, refused>>
    BY <1>12 DEF ensureOctaviaHealthMonitor, At, poolVars
  <2>2. CASE Fail(c)
    BY <1>0, <2>1, <2>2, FailKept, Zenon DEF Fail, NeverRefused
  <2>3. ASSUME NEW d \in {"createMon", "done", "deleteMonUpdate", "deleteMonCreate", "updateMon", "deleteMon"},
               Goto(c, d)
        PROVE  AloneInv' /\ NeverRefused'
    <3>1. Goes(c, d, w[c].next, w[c].pool)
      BY <1>0, <2>3, Moved, Zenon DEF Goto
    <3>2. QED
      BY <1>a, <1>b, <2>1, <3>1 DEF Undisturbed, OfPool
  <2>4. QED
    BY <1>12, <2>2, <2>3, SMTT(30) DEF ensureOctaviaHealthMonitor
<1>13. CASE DeleteHealthMonitor(c)
  <2>1. /\ w[c].pc \in {"deleteMon", "deleteMonCreate", "deleteMonUpdate"}
        /\ w[c].alone => Mine(c) /\ lb = "ACTIVE"
    BY <1>13, <1>a DEF DeleteHealthMonitor, Undisturbed, OfPool, Mine
  <2>2. ASSUME NEW d \in {"updateNone", "createMon", "done"}, UNCHANGED <<pool, refused>>,
               w' = [w EXCEPT ![c].pc = "wait", ![c].next = d]
        PROVE  AloneInv' /\ NeverRefused'
    <3>1. Goes(c, "wait", d, w[c].pool)
      BY <1>0, <2>2, Moved, Zenon
    <3>2. QED
      BY <1>b, <2>1, <2>2, <3>1 DEF Mine
  <2>3. CASE lb # "ACTIVE" /\ Refuse(c)
    BY <2>1, <2>3, RefuseKept
  <2>4. QED
    BY <1>13, <2>2, <2>3 DEF DeleteHealthMonitor, Accepted, SetMonitor, poolVars
<1>14. CASE UpdateHealthMonitor(c)
  <2>1. /\ w[c].pc \in {"updateMon", "updateNone"}
        /\ w[c].pc = "updateMon" /\ w[c].alone => Mine(c) /\ lb = "ACTIVE"
    BY <1>14, <1>a DEF UpdateHealthMonitor, At, Undisturbed, OfPool, Mine
  <2>2. ASSUME NEW d \in {"deleteMon", "done"}, Mine(c), UNCHANGED <<pool, refused>>,
               w' = [w EXCEPT ![c].pc = "wait", ![c].next = d]
        PROVE  AloneInv' /\ NeverRefused'
    <3>1. Goes(c, "wait", d, w[c].pool)
      BY <1>0, <2>2, Moved, Zenon
    <3>2. QED
      BY <1>b, <2>1, <2>2, <3>1 DEF Mine
  <2>3. CASE w[c].pc = "updateMon" /\ (~Mine(c) \/ lb # "ACTIVE") /\ Refuse(c)
    BY <2>1, <2>3, RefuseKept
  <2>4. CASE Fail(c) /\ UNCHANGED refused
    BY <1>0, <2>1, <2>4, FailKept, Zenon DEF Fail, NeverRefused
  <2>5. QED
    BY <1>14, <2>2, <2>3, <2>4 DEF UpdateHealthMonitor, Accepted, SetMonitor, At
<1>15. CASE CreateHealthMonitor(c)
  <2>1. w[c].pc = "createMon" /\ (w[c].alone => Mine(c) /\ lb = "ACTIVE")
    BY <1>15, <1>a DEF CreateHealthMonitor, At, Undisturbed, OfPool, Mine
  <2>2. CASE UNCHANGED <<pool, refused>> /\ w' = [w EXCEPT ![c].pc = "wait", ![c].next = "done"]
    <3>1. Goes(c, "wait", "done", w[c].pool)
      BY <1>0, <2>2, Moved, Zenon
    <3>2. QED
      BY <1>b, <2>1, <2>2, <3>1 DEF OfPool
  <2>3. CASE (~Mine(c) \/ lb # "ACTIVE") /\ Refuse(c)
    BY <2>1, <2>3, RefuseKept
  <2>4. QED
    BY <1>15, <2>2, <2>3 DEF CreateHealthMonitor, Accepted, SetMonitor
<1>16. CASE Done(c)
  <2>1. w[c].pc = "done" /\ w' = [w EXCEPT ![c] = Idle] /\ UNCHANGED refused
    BY <1>16 DEF Done, At
  <2>2. QED
    BY <1>0, <2>1, FailKept, Zenon DEF NeverRefused
<1>17. QED
  BY <1>1, <1>2, <1>3, <1>4, <1>5, <1>6, <1>7, <1>8, <1>9, <1>10, <1>11, <1>12, <1>13,
     <1>14, <1>15, <1>16 DEF Step

\* Every step keeps the invariant behind NeverRefused.
LEMMA NextRefusal == RefusalInv /\ [Next]_vars => RefusalInv'
<1> SUFFICES ASSUME RefusalInv, [Next]_vars PROVE RefusalInv'
  OBVIOUS
<1>1. ASSUME NEW c \in Workers, Step(c) PROVE RefusalInv'
  BY <1>1, StepRound, StepAlone DEF RefusalInv
<1>2. CASE UNCHANGED <<w, pool, refused>> /\ (lb = "ACTIVE" => lb' = "ACTIVE")
  BY <1>2 DEF RefusalInv, RoundInv, AloneInv, Undisturbed, NeverRefused
<1>3. QED
  BY <1>1, <1>2 DEF Next, vars, poolVars, LoadBalancerActive, LoadBalancerError, EditService, ChangeNodes

\* Rounds start when the load balancer is ACTIVE and every request is waited for, so a
\* worker that has the load balancer to itself is never refused, whatever the pool,
\* the provider, the edits and the faults.
THEOREM AloneIsNeverRefused == Spec => []NeverRefused
<1>1. RefusalInv => NeverRefused
  BY DEF RefusalInv
<1>2. QED
  BY <1>1, InitRefusal, NextRefusal, PTL DEF Spec

-----------------------------------------------------------------------------
\* What a round will delete is not what it wants.
DropInv == \A c \in Workers : w[c].drop \cap w[c].nodes = {}

MembersInv == RoundInv /\ DropInv

\* The plans stay disjoint when only one worker moves.
LEMMA DropKept ==
  ASSUME DropInv, NEW c \in Workers, w'[Other(c)] = w[Other(c)], w'[c].drop \cap w'[c].nodes = {}
  PROVE  DropInv'
  BY Others DEF DropInv

\* A worker never plans to delete a member that it wants.
LEMMA StepDrop ==
  ASSUME RoundInv, DropInv, NEW c \in Workers, Step(c)
  PROVE  DropInv'
<1>0. w[c].drop \cap w[c].nodes = {}
  BY DEF DropInv
<1>a. ASSUME NEW a, NEW b, NEW d, Goes(c, a, b, d), w'[c].drop \subseteq w[c].drop PROVE DropInv'
  BY <1>0, <1>a, DropKept DEF Goes
<1>b. CASE w' = [w EXCEPT ![c] = Idle]
  <2>1. w'[Other(c)] = w[Other(c)] /\ w'[c] = Idle
    BY <1>b, Moved, Zenon
  <2>2. w'[c].drop = {}
    BY <2>1 DEF Idle
  <2>3. QED
    BY <2>1, <2>2, DropKept
<1>c. ASSUME NEW a, w' = [w EXCEPT ![c].pc = a] PROVE DropInv'
  BY <1>a, <1>c, Moved, Zenon
<1>d. ASSUME NEW a, NEW b, w' = [w EXCEPT ![c].pc = a, ![c].next = b] PROVE DropInv'
  BY <1>a, <1>d, Moved, Zenon
<1> USE DEF Goto, Fail, Accepted, Refuse
<1>1. ASSUME NEW first, Begin(c, first) PROVE DropInv'
  <2>1. w'[c].drop = {}
    BY <1>1, Zenon DEF Begin, Idle, Workers
  <2>2. w'[Other(c)].drop = w[Other(c)].drop /\ w'[Other(c)].nodes = w[Other(c)].nodes
    BY <1>1 DEF Begin, RoundInv, IsRound, Workers, Other
  <2>3. QED
    BY <2>1, <2>2, Others DEF DropInv
<1>2. CASE WaitActiveAndGetLoadBalancer(c)
  BY <1>2, <1>b, <1>c DEF WaitActiveAndGetLoadBalancer
<1>3. CASE GetPoolByListener(c)
  <2>1. ASSUME NEW a, NEW b, NEW d, w' = [w EXCEPT ![c].pool = a, ![c].mon = b, ![c].pc = d]
        PROVE  DropInv'
    BY <1>a, <2>1, MovedPool, Zenon
  <2>2. QED
    BY <1>3, <1>c, <2>1, Zenon DEF GetPoolByListener
<1>4. CASE DeletePool(c)
  BY <1>4, <1>b, <1>d DEF DeletePool
<1>5. CASE CreatePool(c)
  <2>1. \/ w' = [w EXCEPT ![c] = Idle]
        \/ w' = [w EXCEPT ![c].pc = "wait", ![c].next = "members", ![c].pool = FreshPool, ![c].mon = FALSE]
    BY <1>5 DEF CreatePool
  <2>2. CASE w' = [w EXCEPT ![c].pc = "wait", ![c].next = "members", ![c].pool = FreshPool, ![c].mon = FALSE]
    <3>1. Goes(c, "wait", "members", FreshPool) /\ w'[c].drop = w[c].drop
      BY <2>2, MovedNew, ZenonT(60)
    <3>2. QED
      BY <1>a, <3>1
  <2>3. QED
    BY <1>b, <2>1, <2>2
<1>6. CASE GetMembersbyPool(c)
  BY <1>6, <1>c DEF GetMembersbyPool
<1>7. CASE BatchUpdatePoolMembers(c)
  BY <1>7, <1>b, <1>d, Zenon DEF BatchUpdatePoolMembers
<1>8. CASE SeriallyReconcilePoolMembers(c)
  <2>1. ASSUME NEW a, NEW b, NEW have,
               w' = [w EXCEPT ![c].pc = "serial", ![c].todo = a, ![c].drop = b], b = have \ w[c].nodes
        PROVE  DropInv'
    <3>1. Goes(c, "serial", w[c].next, w[c].pool) /\ w'[c].drop = b
      BY <2>1, MovedPlan, ZenonT(60)
    <3>2. QED
      BY <2>1, <3>1, DropKept, Zenon DEF Goes
  <2>2. QED
    BY <1>8, <1>b, <2>1, Zenon DEF SeriallyReconcilePoolMembers
<1>9. CASE SerialDone(c)
  BY <1>9, <1>c, Zenon DEF SerialDone
<1>10. ASSUME NEW n \in Nodes, CreateMember(c, n) PROVE DropInv'
  <2>1. CASE w' = [w EXCEPT ![c].pc = "wait", ![c].next = "serial", ![c].todo = @ \ {n}]
    BY <1>a, <2>1, MovedTodo, Zenon
  <2>2. QED
    BY <1>10, <1>b, <2>1 DEF CreateMember
<1>11. ASSUME NEW n \in Nodes, DeleteMember(c, n) PROVE DropInv'
  <2>1. CASE w' = [w EXCEPT ![c].pc = "wait", ![c].next = "serial", ![c].drop = @ \ {n}]
    <3>1. Goes(c, "wait", "serial", w[c].pool) /\ w'[c].drop = w[c].drop \ {n}
      BY <2>1, MovedDrop, ZenonT(60)
    <3>2. QED
      BY <1>a, <3>1
  <2>2. QED
    BY <1>11, <1>b, <2>1 DEF DeleteMember
<1>12. CASE ensureOctaviaHealthMonitor(c)
  BY <1>12, <1>b, <1>c DEF ensureOctaviaHealthMonitor
<1>13. CASE DeleteHealthMonitor(c)
  BY <1>13, <1>b, <1>d DEF DeleteHealthMonitor
<1>14. CASE UpdateHealthMonitor(c)
  BY <1>14, <1>b, <1>d DEF UpdateHealthMonitor
<1>15. CASE CreateHealthMonitor(c)
  BY <1>15, <1>b, <1>d DEF CreateHealthMonitor
<1>16. CASE Done(c)
  BY <1>16, <1>b DEF Done
<1>17. QED
  BY <1>1, <1>2, <1>3, <1>4, <1>5, <1>6, <1>7, <1>8, <1>9, <1>10, <1>11, <1>12, <1>13,
     <1>14, <1>15, <1>16, SMTT(30) DEF Step

\* Every step keeps the invariant behind KeepsWanted.
LEMMA NextMembers == MembersInv /\ [Next]_vars => MembersInv'
<1> SUFFICES ASSUME MembersInv, [Next]_vars PROVE MembersInv'
  OBVIOUS
<1>1. ASSUME NEW c \in Workers, Step(c) PROVE MembersInv'
  BY <1>1, StepRound, StepDrop DEF MembersInv
<1>2. CASE UNCHANGED w
  BY <1>2, SMTT(30) DEF MembersInv, RoundInv, DropInv
<1>3. QED
  BY <1>1, <1>2 DEF Next, vars, LoadBalancerActive, LoadBalancerError, EditService, ChangeNodes

Has(ms, n) == \E m \in ms : m.node = n

\* The steps that change the members of a pool that stays.
LEMMA StepMembers ==
  ASSUME RoundInv, DropInv, NEW c \in Workers, Step(c), members' # members, pool # None, pool' = pool
  PROVE  /\ w'[Other(c)] = w[Other(c)]
         /\ \A n \in w[c].nodes \cap Addressed : Has(members, n) => Has(members', n)
<1>1. \/ BatchUpdatePoolMembers(c)
      \/ \E n \in Nodes : CreateMember(c, n) \/ DeleteMember(c, n)
  BY Zenon DEF Step, Begin, WaitActiveAndGetLoadBalancer, GetPoolByListener, DeletePool, CreatePool,
         GetMembersbyPool, SeriallyReconcilePoolMembers, SerialDone, ensureOctaviaHealthMonitor,
         DeleteHealthMonitor, UpdateHealthMonitor, CreateHealthMonitor, Done, Refuse, SetMonitor, poolVars
<1>2. CASE BatchUpdatePoolMembers(c)
  <2> DEFINE want == buildBatchUpdateMemberOpts(w[c].conf, w[c].nodes, w[c].subnet).members
             kept(m) == {o \in members : o.node = m.node}
             moved(m) == [m EXCEPT !.subnet = IF kept(m) = {} THEN @ ELSE (CHOOSE o \in kept(m) : TRUE).subnet]
             hc == healthCheckNodePort(w[c].conf) /\ canUseHTTPMonitor
  <2>1. members' = {moved(m) : m \in want} /\ w' = [w EXCEPT ![c].pc = "wait", ![c].next = AfterPool(c)]
    BY <1>2 DEF BatchUpdatePoolMembers, Accepted, Refuse, poolVars
  <2>2. want = {[node |-> n, hc |-> hc, subnet |-> w[c].subnet] : n \in w[c].nodes \cap Addressed}
    BY DEF buildBatchUpdateMemberOpts
  <2>3. \A n \in w[c].nodes \cap Addressed : \E m \in want : m.node = n /\ moved(m).node = n
    <3> SUFFICES ASSUME NEW n \in w[c].nodes \cap Addressed
                 PROVE  \E m \in want : m.node = n /\ moved(m).node = n
      OBVIOUS
    <3> DEFINE m0 == [node |-> n, hc |-> hc, subnet |-> w[c].subnet]
    <3>1. m0 \in want /\ m0.node = n
      BY <2>2
    <3>2. \A s : [m0 EXCEPT !.subnet = s].node = n
      OBVIOUS
    <3>3. QED
      BY <3>1, <3>2
  <2>4. QED
    <3>1. w'[Other(c)] = w[Other(c)]
      BY <2>1, Moved, Zenon DEF Goes
    <3>2. \A n \in w[c].nodes \cap Addressed : Has(members', n)
      <4> HIDE DEF want, moved
      <4>1. QED
        BY <2>1, <2>3 DEF Has
    <3>3. QED
      BY <3>1, <3>2
<1>3. ASSUME NEW n \in Nodes, CreateMember(c, n)
      PROVE  /\ w'[Other(c)] = w[Other(c)]
             /\ \A k \in w[c].nodes \cap Addressed : Has(members, k) => Has(members', k)
  <2>1. /\ members' = {m \in members : m.node # n} \cup {[node |-> n, hc |-> FALSE, subnet |-> None]}
        /\ w' = [w EXCEPT ![c].pc = "wait", ![c].next = "serial", ![c].todo = @ \ {n}]
    BY <1>3 DEF CreateMember, Refuse, poolVars
  <2>2. QED
    <3>1. w'[Other(c)] = w[Other(c)]
      BY <2>1, MovedTodo, Zenon DEF Goes
    <3>2. \A k : Has(members, k) => Has(members', k)
      <4>1. [node |-> n, hc |-> FALSE, subnet |-> None].node = n
        OBVIOUS
      <4>2. Has(members', n)
        BY <2>1, <4>1, Zenon DEF Has
      <4>3. \A m \in members : m.node # n => m \in members'
        BY <2>1
      <4>4. QED
        BY <4>2, <4>3 DEF Has
    <3>3. QED
      BY <3>1, <3>2
<1>4. ASSUME NEW n \in Nodes, DeleteMember(c, n)
      PROVE  /\ w'[Other(c)] = w[Other(c)]
             /\ \A k \in w[c].nodes \cap Addressed : Has(members, k) => Has(members', k)
  <2>1. /\ members' = {m \in members : m.node # n} /\ n \in w[c].drop
        /\ w' = [w EXCEPT ![c].pc = "wait", ![c].next = "serial", ![c].drop = @ \ {n}]
    BY <1>4 DEF DeleteMember, Refuse, poolVars
  <2>2. n \notin w[c].nodes
    BY <2>1 DEF DropInv
  <2>3. w'[Other(c)] = w[Other(c)]
    BY <2>1, MovedDrop, Zenon DEF Goes
  <2>4. QED
    BY <2>1, <2>2, <2>3 DEF Has
<1>5. QED
  BY <1>1, <1>2, <1>3, <1>4, SMTT(30)

\* While a pool stays, a step takes no member away whose node the acting worker wants,
\* with batches and with serial calls, for any number of nodes.
THEOREM WantedMembersStay == Spec => KeepsWanted
<1> DEFINE Kept == \A c \in Workers, n \in Nodes :
       /\ w'[c] # w[c] /\ ~At(c, "idle") /\ pool # None /\ pool' = pool
       /\ n \in w[c].nodes \cap Addressed /\ \E m \in members : m.node = n
       => \E m \in members' : m.node = n
<1>1. Init => MembersInv
  <2>1. Init => DropInv
    BY DEF Init, DropInv, Idle
  <2>2. QED
    BY <2>1, InitRefusal DEF MembersInv, RefusalInv
<1>2. MembersInv /\ [Next]_vars => [Kept]_vars
  <2> SUFFICES ASSUME MembersInv, Next, NEW c \in Workers, NEW n \in Nodes,
                      w'[c] # w[c], pool # None, pool' = pool,
                      n \in w[c].nodes \cap Addressed, Has(members, n), members' # members
               PROVE  Has(members', n)
    BY DEF Has, vars
  <2>1. PICK x \in Workers : Step(x)
    BY SMTT(30) DEF Next, LoadBalancerActive, LoadBalancerError, EditService, ChangeNodes, poolVars
  <2>2. /\ w'[Other(x)] = w[Other(x)]
        /\ \A k \in w[x].nodes \cap Addressed : Has(members, k) => Has(members', k)
    BY <2>1, StepMembers DEF MembersInv
  <2>3. x = c
    BY <2>2, Others
  <2>4. QED
    BY <2>2, <2>3, SMTT(30)
<1>3. QED
  BY <1>1, <1>2, NextMembers, PTL DEF Spec, KeepsWanted
=============================================================================
