-------------------------- MODULE ServiceLBProofs ---------------------------
(***************************************************************************)
(* Proofs about ServiceLB, for any Services, load balancers, ports and     *)
(* Nodes and any number of failures.  First the invariant on which they    *)
(* rest: the shapes of the listeners and of the runs, whose tags a         *)
(* listener bears, which listeners a run has in hand, and for which        *)
(* Service it runs.  From it, with any number of workers:                  *)
(* EnsureLoadBalancer leaves the listeners of other Services alone.  Then, *)
(* with one worker and tags: no Service loses its load balancer to another *)
(* one, a load balancer is shared by at most MaxSharedLB of them, and a    *)
(* deleted one leaves no tag and no listener behind.                       *)
(***************************************************************************)
EXTENDS ServiceLB, TLAPS

-----------------------------------------------------------------------------
(* The shape of listeners and jobs *)

IsListener(x) == x = [by |-> x.by, tags |-> x.tags, backend |-> x.backend, members |-> x.members]
IsJob(j) == j = [pc |-> j.pc, lb |-> j.lb, ports |-> j.ports, nodes |-> j.nodes, tags |-> j.tags,
                 map |-> j.map, cur |-> j.cur, todo |-> j.todo]
IsUpd(u) == u = [pc |-> u.pc, lb |-> u.lb, map |-> u.map, todo |-> u.todo]

ListenerShape ==
  /\ lsn = [l \in LBs |-> lsn[l]]
  /\ \A l \in LBs : lsn[l] = [k \in Keys |-> lsn[l][k]] /\ \A k \in Keys : IsListener(lsn[l][k])
JobShape == job = [s \in Services |-> job[s]] /\ \A s \in Services : IsJob(job[s])
UpdShape == upd = [s \in Services |-> upd[s]] /\ \A s \in Services : IsUpd(upd[s])

SpecInv ==
  /\ ports = [s \in Services |-> ports[s]] /\ \A s \in Services : ports[s] \subseteq Ports
  /\ lbID = [s \in Services |-> lbID[s]] /\ \A s \in Services : lbID[s] \in LBs \cup {None}
  /\ http \subseteq Services

\* A load balancer that does not exist has no listeners, and what is not a listener
\* has no tags.
UpInv ==
  /\ alive \subseteq LBs
  /\ \A l \in LBs, k \in Keys :
       /\ lsn[l][k].by # None => l \in alive
       /\ lsn[l][k].by = None => lsn[l][k].tags = {}

\* With tags: a TCP listener bears the tag of the Service that made it, an HTTP
\* listener only tags of Services with x-forwarded-for.
Bears(k, by, t) ==
  /\ ~SupportTags => t = {}
  /\ SupportTags /\ by # None =>
       /\ by \in Services /\ t # {}
       /\ k[1] = "TCP" => t = {by}
       /\ k[1] = "HTTP" => t \subseteq http

TagInv == \A l \in LBs, k \in Keys : Bears(k, lsn[l][k].by, lsn[l][k].tags)

\* What a worker's job points to.  If its Service has no x-forwarded-for annotation,
\* it has in hand only listeners of that Service.
Good(s) ==
  LET j == job[s] IN
  /\ j.ports \subseteq Ports /\ j.lb \in LBs \cup {None} /\ j.todo \subseteq Keys
  /\ j.pc # "idle" => j.lb \in LBs
  /\ j.pc = "pool" => j.cur \in j.todo
  /\ j.map = [k \in Keys |-> j.map[k]]
  /\ \A k \in Keys : Bears(k, j.map[k].by, j.map[k].tags)
  /\ j.pc \in {"listener", "pool"} => j.todo \subseteq KeysOf(s, Ports)
  /\ SupportTags /\ s \notin http =>
       /\ j.pc \in {"listener", "pool"} => \A k \in j.todo : j.map[k].by # None => s \in j.map[k].tags
       /\ j.pc = "pool" => j.map[j.cur].by # None
       /\ j.pc = "obsolete" => \A k \in j.todo : j.map[k].by # None /\ s \in j.map[k].tags

UpdGood(s) ==
  LET u == upd[s] IN
  (u.pc \in {"get", "pool"} => u.todo \subseteq Keys) /\ (u.pc = "pool" => u.lb \in LBs)

Shapes == ListenerShape /\ JobShape /\ UpdShape
JobsInv == \A s \in Services : Good(s) /\ UpdGood(s)

KeepInv == Shapes /\ SpecInv /\ UpInv /\ TagInv /\ JobsInv

-----------------------------------------------------------------------------
(* The forms of steps *)

\* The job of s comes to these values; the others stay as they are.
Turns(s, p, t, m, c, d) ==
  /\ JobShape' /\ \A r \in Services \ {s} : job'[r] = job[r]
  /\ job'[s].pc = p /\ job'[s].lb = job[s].lb /\ job'[s].ports = job[s].ports
  /\ job'[s].tags = t /\ job'[s].map = m /\ job'[s].cur = c /\ job'[s].todo = d

\* A job is replaced by another.
LEMMA Replaced ==
  ASSUME JobShape, NEW s \in Services, NEW j, IsJob(j), job' = [job EXCEPT ![s] = j]
  PROVE  JobShape' /\ job'[s] = j /\ \A r \in Services \ {s} : job'[r] = job[r]
  BY Zenon DEF JobShape

\* A job in which a field changes is a job.
LEMMA JobOfJob ==
  ASSUME NEW j, IsJob(j), NEW v
  PROVE  /\ IsJob([j EXCEPT !.pc = v]) /\ IsJob([j EXCEPT !.lb = v])
         /\ IsJob([j EXCEPT !.ports = v]) /\ IsJob([j EXCEPT !.nodes = v])
         /\ IsJob([j EXCEPT !.tags = v]) /\ IsJob([j EXCEPT !.map = v])
         /\ IsJob([j EXCEPT !.cur = v]) /\ IsJob([j EXCEPT !.todo = v])
<1>1. IsJob([j EXCEPT !.pc = v])
  BY SMT DEF IsJob
<1>2. IsJob([j EXCEPT !.lb = v])
  BY SMT DEF IsJob
<1>3. IsJob([j EXCEPT !.ports = v])
  BY SMT DEF IsJob
<1>4. IsJob([j EXCEPT !.nodes = v])
  BY SMT DEF IsJob
<1>5. IsJob([j EXCEPT !.tags = v])
  BY SMT DEF IsJob
<1>6. IsJob([j EXCEPT !.map = v])
  BY SMT DEF IsJob
<1>7. IsJob([j EXCEPT !.cur = v])
  BY SMT DEF IsJob
<1>8. IsJob([j EXCEPT !.todo = v])
  BY SMT DEF IsJob
<1>9. QED
  BY <1>1, <1>2, <1>3, <1>4, <1>5, <1>6, <1>7, <1>8, Zenon

\* The worker goes on.
LEMMA TurnPc ==
  ASSUME JobShape, NEW s \in Services, NEW p,
         job' = [job EXCEPT ![s] = [job[s] EXCEPT !.pc = p]]
  PROVE  Turns(s, p, job[s].tags, job[s].map, job[s].cur, job[s].todo)
<1> DEFINE j == job[s]
           n == [j EXCEPT !.pc = p]
<1>1. IsJob(j)
  BY Zenon DEF JobShape
<1>2. job' = [job EXCEPT ![s] = n]
  BY Zenon
<1> HIDE DEF j
<1>3. IsJob(n)
  BY <1>1, JobOfJob, Zenon
<1>4. /\ n.pc = p /\ n.lb = j.lb /\ n.ports = j.ports
      /\ n.tags = j.tags /\ n.map = j.map /\ n.cur = j.cur /\ n.todo = j.todo
  BY <1>1, SMT DEF IsJob
<1> HIDE DEF n
<1>5. QED
  BY <1>2, <1>3, <1>4, Replaced, Zenon DEF Turns, j

\* The worker has read the tags.
LEMMA TurnTags ==
  ASSUME JobShape, NEW s \in Services, NEW p, NEW t,
         job' = [job EXCEPT ![s] = [job[s] EXCEPT !.pc = p, !.tags = t]]
  PROVE  Turns(s, p, t, job[s].map, job[s].cur, job[s].todo)
<1> DEFINE j == job[s]
           n == [j EXCEPT !.pc = p, !.tags = t]
<1>1. IsJob(j)
  BY Zenon DEF JobShape
<1>2. job' = [job EXCEPT ![s] = n]
  BY Zenon
<1> HIDE DEF j
<1>3. IsJob(n)
  <2>1. n = [[j EXCEPT !.pc = p] EXCEPT !.tags = t]
    BY Zenon
  <2>2. QED
    BY <1>1, <2>1, JobOfJob, Zenon
<1>4. /\ n.pc = p /\ n.lb = j.lb /\ n.ports = j.ports
      /\ n.tags = t /\ n.map = j.map /\ n.cur = j.cur /\ n.todo = j.todo
  BY <1>1, SMT DEF IsJob
<1> HIDE DEF n
<1>5. QED
  BY <1>2, <1>3, <1>4, Replaced, Zenon DEF Turns, j

\* The worker turns to a listener.
LEMMA TurnCur ==
  ASSUME JobShape, NEW s \in Services, NEW p, NEW c,
         job' = [job EXCEPT ![s] = [job[s] EXCEPT !.pc = p, !.cur = c]]
  PROVE  Turns(s, p, job[s].tags, job[s].map, c, job[s].todo)
<1> DEFINE j == job[s]
           n == [j EXCEPT !.pc = p, !.cur = c]
<1>1. IsJob(j)
  BY Zenon DEF JobShape
<1>2. job' = [job EXCEPT ![s] = n]
  BY Zenon
<1> HIDE DEF j
<1>3. IsJob(n)
  <2>1. n = [[j EXCEPT !.pc = p] EXCEPT !.cur = c]
    BY Zenon
  <2>2. QED
    BY <1>1, <2>1, JobOfJob, Zenon
<1>4. /\ n.pc = p /\ n.lb = j.lb /\ n.ports = j.ports
      /\ n.tags = j.tags /\ n.map = j.map /\ n.cur = c /\ n.todo = j.todo
  BY <1>1, SMT DEF IsJob
<1> HIDE DEF n
<1>5. QED
  BY <1>2, <1>3, <1>4, Replaced, Zenon DEF Turns, j

\* The worker has other listeners to see to.
LEMMA TurnTodo ==
  ASSUME JobShape, NEW s \in Services, NEW p, NEW d,
         job' = [job EXCEPT ![s] = [job[s] EXCEPT !.pc = p, !.todo = d]]
  PROVE  Turns(s, p, job[s].tags, job[s].map, job[s].cur, d)
<1> DEFINE j == job[s]
           n == [j EXCEPT !.pc = p, !.todo = d]
<1>1. IsJob(j)
  BY Zenon DEF JobShape
<1>2. job' = [job EXCEPT ![s] = n]
  BY Zenon
<1> HIDE DEF j
<1>3. IsJob(n)
  <2>1. n = [[j EXCEPT !.pc = p] EXCEPT !.todo = d]
    BY Zenon
  <2>2. QED
    BY <1>1, <2>1, JobOfJob, Zenon
<1>4. /\ n.pc = p /\ n.lb = j.lb /\ n.ports = j.ports
      /\ n.tags = j.tags /\ n.map = j.map /\ n.cur = j.cur /\ n.todo = d
  BY <1>1, SMT DEF IsJob
<1> HIDE DEF n
<1>5. QED
  BY <1>2, <1>3, <1>4, Replaced, ZenonT(40) DEF Turns, j

\* The worker has read the listeners.
LEMMA TurnMap ==
  ASSUME JobShape, NEW s \in Services, NEW p, NEW m, NEW d,
         job' = [job EXCEPT ![s] = [job[s] EXCEPT !.pc = p, !.map = m, !.todo = d]]
  PROVE  Turns(s, p, job[s].tags, m, job[s].cur, d)
<1> DEFINE j == job[s]
           n == [j EXCEPT !.pc = p, !.map = m, !.todo = d]
<1>1. IsJob(j)
  BY Zenon DEF JobShape
<1>2. job' = [job EXCEPT ![s] = n]
  BY Zenon
<1> HIDE DEF j
<1>3. IsJob(n)
  <2>1. n = [[[j EXCEPT !.pc = p] EXCEPT !.map = m] EXCEPT !.todo = d]
    BY Zenon
  <2>2. QED
    BY <1>1, <2>1, JobOfJob, Zenon
<1>4. /\ n.pc = p /\ n.lb = j.lb /\ n.ports = j.ports
      /\ n.tags = j.tags /\ n.map = m /\ n.cur = j.cur /\ n.todo = d
  BY <1>1, SMT DEF IsJob
<1> HIDE DEF n
<1>5. QED
  BY <1>2, <1>3, <1>4, Replaced, Zenon DEF Turns, j

\* The worker has one listener less to see to.
LEMMA TurnLess ==
  ASSUME JobShape, NEW s \in Services, NEW d,
         job' = [job EXCEPT ![s] = [job[s] EXCEPT !.todo = d]]
  PROVE  Turns(s, job[s].pc, job[s].tags, job[s].map, job[s].cur, d)
<1> DEFINE j == job[s]
           n == [j EXCEPT !.todo = d]
<1>1. IsJob(j)
  BY Zenon DEF JobShape
<1>2. job' = [job EXCEPT ![s] = n]
  BY Zenon
<1> HIDE DEF j
<1>3. IsJob(n)
  BY <1>1, JobOfJob, Zenon
<1>4. /\ n.pc = j.pc /\ n.lb = j.lb /\ n.ports = j.ports
      /\ n.tags = j.tags /\ n.map = j.map /\ n.cur = j.cur /\ n.todo = d
  BY <1>1, SMT DEF IsJob
<1> HIDE DEF n
<1>5. QED
  BY <1>2, <1>3, <1>4, Replaced, Zenon DEF Turns, j

\* The worker has made the listener of k.
LEMMA TurnMade ==
  ASSUME JobShape, NEW s \in Services, NEW p, NEW k, NEW x,
         job' = [job EXCEPT ![s] = [[job[s] EXCEPT !.pc = p, !.cur = k] EXCEPT !.map[k] = x]]
  PROVE  Turns(s, p, job[s].tags, [job[s].map EXCEPT ![k] = x], k, job[s].todo)
<1> DEFINE j == job[s]
           i == [j EXCEPT !.pc = p, !.cur = k]
           m == [j.map EXCEPT ![k] = x]
           n == [i EXCEPT !.map = m]
<1>1. IsJob(j)
  BY Zenon DEF JobShape
<1>2. job' = [job EXCEPT ![s] = [i EXCEPT !.map[k] = x]]
  BY Zenon
<1> HIDE DEF j
<1>3. IsJob(i)
  <2>1. i = [[j EXCEPT !.pc = p] EXCEPT !.cur = k]
    BY Zenon
  <2>2. QED
    BY <1>1, <2>1, JobOfJob, Zenon
<1>4. /\ i.pc = p /\ i.lb = j.lb /\ i.ports = j.ports
      /\ i.tags = j.tags /\ i.map = j.map /\ i.cur = k /\ i.todo = j.todo
  BY <1>1, SMT DEF IsJob
<1> HIDE DEF i
<1>5. [i EXCEPT !.map[k] = x] = n
  BY <1>4, Zenon
<1> HIDE DEF m
<1>6. IsJob(n)
  BY <1>3, JobOfJob, Zenon
<1>7. /\ n.pc = i.pc /\ n.lb = i.lb /\ n.ports = i.ports
      /\ n.tags = i.tags /\ n.map = m /\ n.cur = i.cur /\ n.todo = i.todo
  BY <1>3, SMT DEF IsJob
<1> HIDE DEF n
<1>8. QED
  BY <1>2, <1>4, <1>5, <1>6, <1>7, Replaced, ZenonT(40) DEF Turns, j, m

\* The fields of the idle job.
LEMMA IdleFields ==
  /\ IsJob(Idle) /\ Idle.pc = "idle" /\ Idle.lb = None /\ Idle.ports = {}
  /\ Idle.tags = {} /\ Idle.map = NoListeners /\ Idle.cur = None /\ Idle.todo = {}
  BY SMT DEF Idle, IsJob

\* The run ends; the cache keeps its load balancer and its ports.
LEMMA TurnEnded ==
  ASSUME JobShape, NEW s \in Services, job' = [job EXCEPT ![s] = Ended(s)]
  PROVE  Turns(s, "idle", {}, NoListeners, None, {})
<1> DEFINE i == Idle
           n == [i EXCEPT !.lb = job[s].lb, !.ports = job[s].ports]
<1>1. job' = [job EXCEPT ![s] = n]
  BY Zenon DEF Ended
<1>2. /\ IsJob(i) /\ i.pc = "idle" /\ i.tags = {} /\ i.map = NoListeners /\ i.cur = None /\ i.todo = {}
  BY IdleFields, Zenon
<1> HIDE DEF i
<1>3. IsJob(n)
  <2>1. n = [[i EXCEPT !.lb = job[s].lb] EXCEPT !.ports = job[s].ports]
    BY Zenon
  <2>2. QED
    BY <1>2, <2>1, JobOfJob, Zenon
<1>4. /\ n.pc = "idle" /\ n.lb = job[s].lb /\ n.ports = job[s].ports
      /\ n.tags = {} /\ n.map = NoListeners /\ n.cur = None /\ n.todo = {}
  BY <1>2, SMT DEF IsJob
<1> HIDE DEF n
<1>5. QED
  BY <1>1, <1>3, <1>4, Replaced, Zenon DEF Turns

\* The worker takes a key; nothing is left of the job before.
Starts(s, p, l, P) ==
  /\ JobShape' /\ \A r \in Services \ {s} : job'[r] = job[r]
  /\ job'[s].pc = p /\ job'[s].lb = l /\ job'[s].ports = P
  /\ job'[s].tags = {} /\ job'[s].map = NoListeners /\ job'[s].cur = None /\ job'[s].todo = {}

\* The new job has nothing in hand.
LEMMA TurnStart ==
  ASSUME JobShape, NEW s \in Services, NEW p, NEW l, NEW P, NEW N,
         job' = [job EXCEPT ![s] = [Idle EXCEPT !.pc = p, !.lb = l, !.ports = P, !.nodes = N]]
  PROVE  Starts(s, p, l, P)
<1> DEFINE i == Idle
           n == [i EXCEPT !.pc = p, !.lb = l, !.ports = P, !.nodes = N]
<1>1. job' = [job EXCEPT ![s] = n]
  BY Zenon
<1>2. /\ IsJob(i) /\ i.pc = "idle" /\ i.tags = {} /\ i.map = NoListeners /\ i.cur = None /\ i.todo = {}
  BY IdleFields, Zenon
<1> HIDE DEF i
<1>3. IsJob(n)
  <2>1. n = [[[[i EXCEPT !.pc = p] EXCEPT !.lb = l] EXCEPT !.ports = P] EXCEPT !.nodes = N]
    BY Zenon
  <2>2. QED
    BY <1>2, <2>1, JobOfJob, Zenon
<1>4. /\ n.pc = p /\ n.lb = l /\ n.ports = P
      /\ n.tags = {} /\ n.map = NoListeners /\ n.cur = None /\ n.todo = {}
  BY <1>2, SMT DEF IsJob
<1> HIDE DEF n
<1>5. QED
  BY <1>1, <1>3, <1>4, Replaced, Zenon DEF Starts

\* The run ends and the Service is gone.
LEMMA TurnGone ==
  ASSUME JobShape, NEW s \in Services, job' = [job EXCEPT ![s] = Idle]
  PROVE  Starts(s, "idle", None, {})
  BY IdleFields, Replaced, Zenon DEF Starts

\* The listener k of l comes to have this creator and these tags; the others stay
\* as they are.
Puts(l, k, by, t) ==
  /\ ListenerShape' /\ lsn'[l][k].by = by /\ lsn'[l][k].tags = t
  /\ \A m \in LBs, q \in Keys : m # l \/ q # k => lsn'[m][q] = lsn[m][q]

\* The fields of what is not a listener.
LEMMA NoListenerFields == IsListener(NoListener) /\ NoListener.by = None /\ NoListener.tags = {}
  BY SMT DEF NoListener, IsListener

\* A listener is replaced by another.
LEMMA PutListener ==
  ASSUME ListenerShape, NEW l \in LBs, NEW k \in Keys, NEW x, IsListener(x),
         lsn' = [lsn EXCEPT ![l][k] = x]
  PROVE  Puts(l, k, x.by, x.tags) /\ lsn'[l][k] = x
<1> DEFINE f == [lsn[l] EXCEPT ![k] = x]
<1>1. f = [q \in Keys |-> f[q]] /\ f[k] = x /\ \A q \in Keys \ {k} : f[q] = lsn[l][q]
  BY Zenon DEF ListenerShape
<1>2. lsn' = [lsn EXCEPT ![l] = f]
  BY Zenon
<1> HIDE DEF f
<1>3. lsn' = [m \in LBs |-> lsn'[m]] /\ lsn'[l] = f /\ \A m \in LBs \ {l} : lsn'[m] = lsn[m]
  BY <1>2, Zenon DEF ListenerShape
<1>4. \A m \in LBs, q \in Keys : m # l \/ q # k => lsn'[m][q] = lsn[m][q]
  BY <1>1, <1>3, Zenon
<1>5. ListenerShape'
  BY <1>1, <1>3, <1>4, Zenon DEF ListenerShape
<1>6. QED
  BY <1>1, <1>3, <1>4, <1>5, Zenon DEF Puts

\* The tags of a listener are replaced.
LEMMA PutTags ==
  ASSUME ListenerShape, NEW l \in LBs, NEW k \in Keys, NEW t, lsn' = [lsn EXCEPT ![l][k].tags = t]
  PROVE  Puts(l, k, lsn[l][k].by, t)
<1> DEFINE y == lsn[l][k]
           x == [y EXCEPT !.tags = t]
<1>1. lsn' = [lsn EXCEPT ![l][k] = x]
  BY Zenon
<1>2. IsListener(y)
  BY Zenon DEF ListenerShape
<1> HIDE DEF y
<1>3. IsListener(x) /\ x.by = y.by /\ x.tags = t
  BY <1>2, SMT DEF IsListener
<1> HIDE DEF x
<1>4. Puts(l, k, x.by, x.tags)
  BY <1>1, <1>3, PutListener, Zenon
<1>5. QED
  BY <1>3, <1>4, Zenon DEF y

\* The pool of a listener is replaced.
LEMMA PutPool ==
  ASSUME ListenerShape, NEW l \in LBs, NEW k \in Keys, NEW b, NEW N,
         lsn' = [lsn EXCEPT ![l][k].backend = b, ![l][k].members = N]
  PROVE  Puts(l, k, lsn[l][k].by, lsn[l][k].tags)
<1> DEFINE y == lsn[l][k]
           x == [[y EXCEPT !.backend = b] EXCEPT !.members = N]
<1>1. lsn' = [lsn EXCEPT ![l][k] = x]
  BY Zenon DEF ListenerShape
<1>2. IsListener(y)
  BY Zenon DEF ListenerShape
<1> HIDE DEF y
<1>3. IsListener(x) /\ x.by = y.by /\ x.tags = y.tags
  <2>1. IsListener([y EXCEPT !.backend = b])
    BY <1>2, SMT DEF IsListener
  <2>2. ASSUME NEW z, IsListener(z)
        PROVE IsListener([z EXCEPT !.members = N]) /\ [z EXCEPT !.members = N].by = z.by /\ [z EXCEPT !.members = N].tags = z.tags
    BY <2>2, SMT DEF IsListener
  <2>3. [y EXCEPT !.backend = b].by = y.by /\ [y EXCEPT !.backend = b].tags = y.tags
    BY <1>2, SMT DEF IsListener
  <2>4. QED
    BY <2>1, <2>2, <2>3, Zenon
<1> HIDE DEF x
<1>4. Puts(l, k, x.by, x.tags)
  BY <1>1, <1>3, PutListener, Zenon
<1>5. QED
  BY <1>3, <1>4, Zenon DEF y

\* All the listeners of a load balancer are replaced.
LEMMA PutAll ==
  ASSUME ListenerShape, NEW l \in LBs, NEW f, f = [k \in Keys |-> f[k]], \A k \in Keys : IsListener(f[k]),
         lsn' = [lsn EXCEPT ![l] = f]
  PROVE  ListenerShape' /\ lsn'[l] = f /\ \A m \in LBs \ {l} : lsn'[m] = lsn[m]
  BY Zenon DEF ListenerShape

\* A run of the node worker in which a field changes is such a run.
LEMMA UpdOfUpd ==
  ASSUME NEW u, IsUpd(u), NEW v
  PROVE  /\ IsUpd([u EXCEPT !.pc = v]) /\ IsUpd([u EXCEPT !.lb = v])
         /\ IsUpd([u EXCEPT !.map = v]) /\ IsUpd([u EXCEPT !.todo = v])
<1>1. IsUpd([u EXCEPT !.pc = v])
  BY SMT DEF IsUpd
<1>2. IsUpd([u EXCEPT !.lb = v])
  BY SMT DEF IsUpd
<1>3. IsUpd([u EXCEPT !.map = v])
  BY SMT DEF IsUpd
<1>4. IsUpd([u EXCEPT !.todo = v])
  BY SMT DEF IsUpd
<1>5. QED
  BY <1>1, <1>2, <1>3, <1>4, Zenon

\* The run has one listener less to see to, or ends.
LEMMA UpdLess ==
  ASSUME NEW u, IsUpd(u), NEW a, NEW n
  PROVE  /\ n = [u EXCEPT !.todo = a] => IsUpd(n) /\ n.pc = u.pc /\ n.lb = u.lb /\ n.todo = a
         /\ n = [u EXCEPT !.pc = a] => IsUpd(n) /\ n.pc = a
<1>1. ASSUME n = [u EXCEPT !.todo = a] PROVE n.pc = u.pc /\ n.lb = u.lb /\ n.todo = a
  BY <1>1, SMT DEF IsUpd
<1>2. ASSUME n = [u EXCEPT !.pc = a] PROVE n.pc = a
  BY <1>2, SMT DEF IsUpd
<1>3. IsUpd([u EXCEPT !.todo = a]) /\ IsUpd([u EXCEPT !.pc = a])
  BY UpdOfUpd, Zenon
<1>4. QED
  BY <1>1, <1>2, <1>3, Zenon

-----------------------------------------------------------------------------
(* Any number of workers *)

\* A listener is there only with its load balancer, and bears a tag only when it is there.
LEMMA ListenerFacts ==
  ASSUME UpInv, TagInv, NEW l \in LBs, NEW k \in Keys
  PROVE  /\ lsn[l][k].by # None => l \in alive
         /\ lsn[l][k].by = None => lsn[l][k].tags = {}
         /\ Bears(k, lsn[l][k].by, lsn[l][k].tags)
<1>1. Bears(k, lsn[l][k].by, lsn[l][k].tags)
  BY Zenon DEF TagInv
<1>2. (lsn[l][k].by # None => l \in alive) /\ (lsn[l][k].by = None => lsn[l][k].tags = {})
  BY Zenon DEF UpInv
<1>3. QED
  BY <1>1, <1>2, Zenon

\* The keys of a Service are those of its protocol.
LEMMA KeyFacts ==
  ASSUME NEW s \in Services, NEW P, P \subseteq Ports, NEW k \in KeysOf(s, P)
  PROVE  /\ k \in Keys /\ k \in KeysOf(s, Ports) /\ k[2] \in P
         /\ s \in http => k[1] = "HTTP"
         /\ s \notin http => k[1] = "TCP" /\ k = <<"TCP", k[2]>>
         /\ Bears(k, s, MyTag(s))
<1>1. PICK p \in P : k = <<IF s \in http THEN "HTTP" ELSE "TCP", p>>
  BY Zenon DEF KeysOf, Key
<1>2. k \in Keys /\ k[2] \in P
  BY <1>1, Zenon DEF Keys
<1>3. k \in KeysOf(s, Ports)
  BY <1>1, Zenon DEF KeysOf, Key
<1>4. /\ s \in http => k[1] = "HTTP"
      /\ s \notin http => k[1] = "TCP" /\ k = <<"TCP", k[2]>>
  BY <1>1, Zenon
<1>5. Bears(k, s, MyTag(s))
  <2>1. MyTag(s) = IF SupportTags THEN {s} ELSE {}
    BY Zenon DEF MyTag
  <2>2. QED
    BY <1>4, <2>1, Zenon DEF Bears
<1>6. QED
  BY <1>2, <1>3, <1>4, <1>5, Zenon

\* A new listener.
LEMMA NewFields ==
  ASSUME NEW s
  PROVE  IsListener(NewListener(s)) /\ NewListener(s).by = s /\ NewListener(s).tags = MyTag(s)
<1> DEFINE y == NoListener
           t == MyTag(s)
           x == [y EXCEPT !.by = s, !.tags = t]
<1>1. IsListener(y)
  BY SMT DEF IsListener, NoListener
<1> HIDE DEF y, t
<1>2. IsListener(x) /\ x.by = s /\ x.tags = t
  <2>1. x = [[y EXCEPT !.by = s] EXCEPT !.tags = t]
    BY Zenon
  <2>2. IsListener([y EXCEPT !.by = s]) /\ [y EXCEPT !.by = s].by = s
    BY <1>1, SMT DEF IsListener
  <2>3. ASSUME NEW z, IsListener(z)
        PROVE  IsListener([z EXCEPT !.tags = t]) /\ [z EXCEPT !.tags = t].by = z.by /\ [z EXCEPT !.tags = t].tags = t
    BY <2>3, SMT DEF IsListener
  <2>4. QED
    BY <2>1, <2>2, <2>3, Zenon
<1>3. QED
  BY <1>2, Zenon DEF NewListener, y, t

\* A listener that is made, changed or deleted as it should be keeps the invariants.
LEMMA PutKept ==
  ASSUME UpInv, TagInv, NEW l \in LBs, NEW k \in Keys, NEW by, NEW t, Puts(l, k, by, t),
         UNCHANGED <<alive, http>>, by # None => l \in alive, by = None => t = {}, Bears(k, by, t)
  PROVE  UpInv' /\ TagInv'
<1>1. UpInv'
  BY DEF UpInv, Puts
<1>2. TagInv'
  <2>1. SUFFICES ASSUME NEW m \in LBs, NEW q \in Keys
                 PROVE  Bears(q, lsn[m][q].by, lsn[m][q].tags)'
    BY Zenon DEF TagInv
  <2>2. CASE m = l /\ q = k
    BY <2>2, Zenon DEF Puts, Bears
  <2>3. CASE m # l \/ q # k
    BY <2>3 DEF Puts, Bears, TagInv
  <2>4. QED
    BY <2>2, <2>3, Zenon
<1>3. QED
  BY <1>1, <1>2, Zenon

\* A job that does not change is as good as before.
LEMMA SameGood ==
  ASSUME NEW r \in Services, Good(r), job'[r] = job[r], http' = http
  PROVE  Good(r)'
<1>1. KeysOf(r, Ports)' = KeysOf(r, Ports)
  BY Zenon DEF KeysOf, Key
<1>2. QED
  BY <1>1, Zenon DEF Good, Bears

\* The jobs of the other Services are as good as before.
LEMMA TurnKept ==
  ASSUME JobsInv, NEW s \in Services, \A r \in Services \ {s} : job'[r] = job[r],
         UNCHANGED <<http, upd>>, Good(s)'
  PROVE  JobsInv'
<1>1. ASSUME NEW r \in Services, r # s PROVE Good(r)'
  BY <1>1, SameGood, Zenon DEF JobsInv
<1>2. ASSUME NEW r \in Services PROVE UpdGood(r)'
  BY <1>2, Zenon DEF JobsInv, UpdGood
<1>3. QED
  BY <1>1, <1>2, Zenon DEF JobsInv

\* A step that turns the job of s into a good one and keeps the listeners in order.
LEMMA WorkKept ==
  ASSUME KeepInv, NEW s \in Services, JobShape', \A r \in Services \ {s} : job'[r] = job[r], Good(s)',
         UNCHANGED <<http, upd>>, SpecInv', ListenerShape', UpInv', TagInv'
  PROVE  KeepInv'
<1>1. JobsInv'
  BY TurnKept, Zenon DEF KeepInv
<1>2. UpdShape'
  BY Zenon DEF KeepInv, Shapes, UpdShape
<1>3. QED
  BY <1>1, <1>2, Zenon DEF KeepInv, Shapes

\* The listeners stay as they are.
LEMMA SameListeners ==
  ASSUME KeepInv, UNCHANGED <<lsn, alive, http>>
  PROVE  ListenerShape' /\ UpInv' /\ TagInv'
  BY Zenon DEF KeepInv, Shapes, ListenerShape, UpInv, TagInv, Bears

\* A step that only turns a job.
LEMMA TurnOnly ==
  ASSUME KeepInv, NEW s \in Services, JobShape', \A r \in Services \ {s} : job'[r] = job[r], Good(s)',
         UNCHANGED <<http, upd, ports, lbID, lsn, alive>>
  PROVE  KeepInv'
<1>1. ListenerShape' /\ UpInv' /\ TagInv'
  BY SameListeners, Zenon
<1>2. SpecInv'
  BY Zenon DEF KeepInv, SpecInv
<1>3. QED
  BY <1>1, <1>2, WorkKept, Zenon

\* A job that is over is good.
LEMMA EndedGood ==
  ASSUME KeepInv, NEW s \in Services, UNCHANGED http,
         Turns(s, "idle", {}, NoListeners, None, {}) \/ Starts(s, "idle", None, {})
  PROVE  Good(s)'
<1>1. /\ job'[s].pc = "idle" /\ job'[s].ports \subseteq Ports /\ job'[s].lb \in LBs \cup {None}
      /\ job'[s].map = NoListeners /\ job'[s].todo = {}
  BY Zenon DEF KeepInv, JobsInv, Good, Turns, Starts
<1>2. NoListeners = [k \in Keys |-> NoListeners[k]] /\ \A k \in Keys : NoListeners[k].by = None /\ NoListeners[k].tags = {}
  BY Zenon DEF NoListeners, NoListener
<1>3. QED
  BY <1>1, <1>2, Zenon DEF Good, Bears

\* A run that returns an error.
LEMMA FailKeeps ==
  ASSUME KeepInv, NEW s \in Services, Fail(s), UNCHANGED upd
  PROVE  KeepInv'
<1>1. Turns(s, "idle", {}, NoListeners, None, {}) /\ UNCHANGED <<http, ports, lbID, lsn, alive>>
  BY TurnEnded, Zenon DEF Fail, KeepInv, Shapes, k8sVars, lbVars
<1>2. Good(s)'
  BY <1>1, EndedGood, Zenon
<1>3. QED
  BY <1>1, <1>2, TurnOnly, Zenon DEF Turns

\* The listeners a load balancer is created with.
LEMMA CreatedLB ==
  ASSUME ListenerShape, NEW s \in Services, CreateLB(s)
  PROVE  /\ ListenerShape' /\ \A m \in LBs \ {s} : lsn'[m] = lsn[m]
         /\ \A k \in Keys :
              /\ k \in KeysOf(s, job[s].ports) => lsn'[s][k].by = s /\ lsn'[s][k].tags = MyTag(s)
              /\ k \notin KeysOf(s, job[s].ports) => lsn'[s][k].by = None /\ lsn'[s][k].tags = {}
<1> DEFINE f == [k \in Keys |-> IF k \in KeysOf(s, job[s].ports)
                                  THEN [NewListener(s) EXCEPT !.backend = s, !.members = job[s].nodes]
                                  ELSE NoListener]
<1>3. \A k \in Keys : /\ IsListener(f[k])
                      /\ k \in KeysOf(s, job[s].ports) => f[k].by = s /\ f[k].tags = MyTag(s)
                      /\ k \notin KeysOf(s, job[s].ports) => f[k].by = None /\ f[k].tags = {}
  <2> DEFINE n == NewListener(s)
             x == [n EXCEPT !.backend = s, !.members = job[s].nodes]
  <2>1. IsListener(n) /\ n.by = s /\ n.tags = MyTag(s)
    BY NewFields, Zenon
  <2> HIDE DEF n
  <2>2. IsListener(x) /\ x.by = s /\ x.tags = MyTag(s)
    <3>1. x = [[n EXCEPT !.backend = s] EXCEPT !.members = job[s].nodes]
      BY Zenon
    <3>2. LET y == [n EXCEPT !.backend = s] IN IsListener(y) /\ y.by = s /\ y.tags = MyTag(s)
      BY <2>1, SMT DEF IsListener
    <3>3. ASSUME NEW y, IsListener(y), NEW v
          PROVE  LET z == [y EXCEPT !.members = v] IN IsListener(z) /\ z.by = y.by /\ z.tags = y.tags
      BY <3>3, SMT DEF IsListener
    <3>4. QED
      BY <3>1, <3>2, <3>3, Zenon
  <2>3. IsListener(NoListener) /\ NoListener.by = None /\ NoListener.tags = {}
    BY NoListenerFields, Zenon
  <2>4. \A k \in Keys : f[k] = IF k \in KeysOf(s, job[s].ports) THEN x ELSE NoListener
    BY Zenon DEF n
  <2> HIDE DEF x, f
  <2>5. QED
    BY <2>2, <2>3, <2>4, Zenon
<1>4. f = [k \in Keys |-> f[k]]
  BY Zenon
<1>5. lsn' = [lsn EXCEPT ![s] = f] /\ alive' = alive \cup {s} /\ s \in LBs
      /\ UNCHANGED <<ports, http, lbID>>
  BY Zenon DEF CreateLB, Step, k8sVars, LBs
<1> HIDE DEF f
<1>6. ListenerShape' /\ lsn'[s] = f /\ \A m \in LBs \ {s} : lsn'[m] = lsn[m]
  BY <1>3, <1>4, <1>5, PutAll, Zenon DEF Shapes
<1>7. QED
  BY <1>3, <1>6, Zenon

\* createOctaviaLoadBalancer and the look-up of the load balancer.
LEMMA GetKeeps ==
  ASSUME KeepInv, NEW s \in Services, GetLB(s), UNCHANGED upd
  PROVE  KeepInv'
<1> DEFINE l == job[s].lb
<1>0. Shapes /\ SpecInv /\ UpInv /\ TagInv /\ Good(s) /\ job[s].pc = "get" /\ l \in LBs
  BY Zenon DEF KeepInv, JobsInv, GetLB, Good
<1>1. CASE l \notin alive /\ lbID[s] = None /\ CreateLB(s)
  <2>1. Turns(s, "tag", MyTag(s), job[s].map, job[s].cur, job[s].todo)
    BY <1>0, <1>1, TurnTags, Zenon DEF CreateLB, Step, Shapes
  <2>2. Good(s)'
    BY <1>0, <1>1, <2>1 DEF CreateLB, Step, k8sVars, Good, Bears, Turns
  <2>5. alive' = alive \cup {s} /\ s \in LBs /\ UNCHANGED <<ports, http, lbID>>
    BY <1>1, Zenon DEF CreateLB, Step, k8sVars, LBs
  <2>6. /\ ListenerShape' /\ \A m \in LBs \ {s} : lsn'[m] = lsn[m]
        /\ \A k \in Keys :
             /\ k \in KeysOf(s, job[s].ports) => lsn'[s][k].by = s /\ lsn'[s][k].tags = MyTag(s)
             /\ k \notin KeysOf(s, job[s].ports) => lsn'[s][k].by = None /\ lsn'[s][k].tags = {}
    BY <1>0, <1>1, CreatedLB, Zenon DEF Shapes
  <2>7. UpInv'
    BY <1>0, <2>5, <2>6, ConstantsAssumption DEF UpInv, LBs
  <2>8. ASSUME NEW m \in LBs, NEW k \in Keys PROVE Bears(k, lsn[m][k].by, lsn[m][k].tags)'
    <3>1. CASE m = s /\ k \in KeysOf(s, job[s].ports)
      <4>1. Bears(k, s, MyTag(s))
        BY <1>0, <3>1, KeyFacts, Zenon DEF Good
      <4>2. QED
        BY <2>5, <2>6, <3>1, <4>1, Zenon DEF Bears
    <3>2. CASE m = s /\ k \notin KeysOf(s, job[s].ports)
      BY <2>6, <3>2, Zenon DEF Bears
    <3>3. CASE m # s
      BY <1>0, <2>5, <2>6, <3>3 DEF Bears, TagInv
    <3>4. QED
      BY <3>1, <3>2, <3>3, Zenon
  <2>9. QED
    BY <1>0, <2>1, <2>2, <2>5, <2>6, <2>7, <2>8, WorkKept, Zenon DEF Turns, TagInv, SpecInv
<1>2. CASE l \in alive /\ Step(s, [job[s] EXCEPT !.pc = "list", !.tags = tags[l]]) /\ UNCHANGED lbVars
  <2>1. Turns(s, "list", tags[l], job[s].map, job[s].cur, job[s].todo) /\ UNCHANGED <<http, ports, lbID, lsn, alive>>
    BY <1>0, <1>2, TurnTags, ZenonT(40) DEF Step, Shapes, k8sVars, lbVars
  <2>2. Good(s)'
    BY <1>0, <2>1 DEF Good, Bears, Turns
  <2>3. QED
    BY <2>1, <2>2, TurnOnly, Zenon DEF Turns
<1>3. QED
  BY <1>1, <1>2, FailKeeps, Zenon DEF GetLB

\* checkListenerPorts lets a Service without x-forwarded-for take only its own listeners.
LEMMA ListKeeps ==
  ASSUME KeepInv, NEW s \in Services, GetListeners(s), UNCHANGED upd
  PROVE  KeepInv'
<1> DEFINE l == job[s].lb
           K == KeysOf(s, job[s].ports)
<1>0. Shapes /\ SpecInv /\ UpInv /\ TagInv /\ Good(s) /\ job[s].pc = "list" /\ l \in LBs
  BY Zenon DEF KeepInv, JobsInv, GetListeners, Good
<1>1. CASE ~PortConflict(s, l, lsn[l]) /\ Step(s, [job[s] EXCEPT !.pc = "listener", !.map = lsn[l], !.todo = K])
           /\ UNCHANGED lbVars
  <2>1. Turns(s, "listener", job[s].tags, lsn[l], job[s].cur, K) /\ UNCHANGED <<http, ports, lbID, lsn, alive>>
    BY <1>0, <1>1, TurnMap, Zenon DEF Step, Shapes, k8sVars, lbVars
  <2>2. K \subseteq KeysOf(s, Ports) /\ K \subseteq Keys /\ KeysOf(s, Ports)' = KeysOf(s, Ports)
    <3>1. K \subseteq KeysOf(s, Ports) /\ K \subseteq Keys
      BY <1>0, KeyFacts, Zenon DEF Good
    <3>2. KeysOf(s, Ports)' = KeysOf(s, Ports)
      BY <2>1, Zenon DEF KeysOf, Key
    <3>3. QED
      BY <3>1, <3>2, Zenon
  <2>3. ASSUME NEW k \in K, SupportTags, s \notin http, lsn[l][k].by # None PROVE s \in lsn[l][k].tags
    <3>1. k \in Keys /\ k[2] \in job[s].ports /\ k[1] = "TCP" /\ k = <<"TCP", k[2]>>
      BY <1>0, <2>3, KeyFacts DEF Good
    <3>2. Mine(s, l, lsn[l][k])
      BY <1>1, <2>3, <3>1, Zenon DEF PortConflict, Up
    <3>3. lsn[l][k].tags # {}
      BY <1>0, <2>3, <3>1, Zenon DEF TagInv, Bears
    <3>4. QED
      BY <3>2, <3>3, Zenon DEF Mine
  <2>4. lsn[l] = [k \in Keys |-> lsn[l][k]] /\ \A k \in Keys : Bears(k, lsn[l][k].by, lsn[l][k].tags)
    BY <1>0, Zenon DEF Shapes, ListenerShape, TagInv
  <2>5. Good(s)'
    <3>1. /\ job'[s].pc = "listener" /\ job'[s].lb = l /\ job'[s].ports = job[s].ports
          /\ job'[s].map = lsn[l] /\ job'[s].todo = K
      BY <2>1, SMTT(20) DEF Turns
    <3>2. \A k \in Keys : Bears(k, job[s].map[k].by, job[s].map[k].tags)'
      BY <2>1, <2>4, <3>1, Zenon DEF Bears
    <3>3. job[s].ports \subseteq Ports
      BY <1>0, Zenon DEF Good
    <3>4. QED
      BY <1>0, <2>1, <2>2, <2>3, <2>4, <3>1, <3>2, <3>3, Zenon DEF Good
  <2>6. QED
    BY <2>1, <2>5, TurnOnly, Zenon DEF Turns
<1>2. QED
  BY <1>1, FailKeeps, Zenon DEF GetListeners

\* ensureOctaviaListener makes a listener, or takes it over with x-forwarded-for.
LEMMA EnsureListenerKeeps ==
  ASSUME KeepInv, NEW s \in Services, NEW k \in Keys, EnsureListener(s, k), UNCHANGED upd
  PROVE  KeepInv'
<1> DEFINE l == job[s].lb
           old == job[s].map[k]
           next == [job[s] EXCEPT !.pc = "pool", !.cur = k]
<1>0. /\ Shapes /\ SpecInv /\ UpInv /\ TagInv /\ Good(s) /\ job[s].pc = "listener"
      /\ l \in LBs /\ k \in job[s].todo
  BY Zenon DEF KeepInv, JobsInv, EnsureListener, Good
<1>1. KeysOf(s, Ports)' = KeysOf(s, Ports) \/ http' # http
  BY Zenon DEF KeysOf, Key
<1>2. /\ s \in http => k[1] = "HTTP"
      /\ s \notin http => k[1] = "TCP"
      /\ Bears(k, s, MyTag(s))
  BY <1>0, KeyFacts, Zenon DEF Good
<1>3. CASE /\ ~Up(old) /\ CanCreate(l, k) /\ lsn' = [lsn EXCEPT ![l][k] = NewListener(s)]
           /\ Step(s, [next EXCEPT !.map[k] = NewListener(s)]) /\ UNCHANGED <<alive, tags>>
  <2> DEFINE m == [job[s].map EXCEPT ![k] = NewListener(s)]
  <2>1. Turns(s, "pool", job[s].tags, m, k, job[s].todo) /\ UNCHANGED <<http, ports, lbID, alive>>
    BY <1>0, <1>3, TurnMade, Zenon DEF Step, Shapes, k8sVars
  <2>2. Puts(l, k, s, MyTag(s)) /\ l \in alive /\ s # None
    <3>1. Puts(l, k, NewListener(s).by, NewListener(s).tags)
      BY <1>0, <1>3, PutListener, NewFields, Zenon DEF Shapes
    <3>2. l \in alive /\ s # None
      BY <1>3, ConstantsAssumption, Zenon DEF CanCreate, LBs
    <3>3. QED
      BY <3>1, <3>2, NewFields, Zenon
  <2>3. UpInv' /\ TagInv'
    BY <1>0, <1>2, <2>1, <2>2, PutKept, Zenon
  <2>4. /\ m = [q \in Keys |-> m[q]] /\ m[k].by = s /\ m[k].tags = MyTag(s)
        /\ \A q \in Keys \ {k} : m[q] = job[s].map[q]
    BY <1>0, NewFields, Zenon DEF Good
  <2> HIDE DEF m
  <2>5. /\ \A q \in Keys : Bears(q, m[q].by, m[q].tags)
        /\ SupportTags => s \in m[k].tags
    BY <1>0, <1>2, <2>4, Zenon DEF Good, MyTag
  <2>6. Good(s)'
    <3>1. /\ job'[s].pc = "pool" /\ job'[s].lb = l /\ job'[s].ports = job[s].ports
          /\ job'[s].map = m /\ job'[s].cur = k /\ job'[s].todo = job[s].todo
      BY <2>1, Zenon DEF Turns
    <3>2. \A q \in Keys : Bears(q, job[s].map[q].by, job[s].map[q].tags)'
      BY <2>1, <2>5, <3>1, Zenon DEF Bears
    <3>3. SupportTags /\ s \notin http => \A q \in job[s].todo : m[q].by # None => s \in m[q].tags
      BY <1>0, <2>4, <2>5, Zenon DEF Good
    <3>4. QED
      BY <1>0, <1>1, <2>1, <2>2, <2>4, <3>1, <3>2, <3>3, SMTT(20) DEF Good
  <2>7. QED
    BY <1>0, <2>1, <2>2, <2>3, <2>6, WorkKept, Zenon DEF Turns, Puts, SpecInv
<1>4. ASSUME Step(s, next), Up(old), s \notin http /\ SupportTags => s \in old.tags
      PROVE  Turns(s, "pool", job[s].tags, job[s].map, k, job[s].todo) /\ UNCHANGED <<http, ports, lbID>> /\ Good(s)'
  <2>1. Turns(s, "pool", job[s].tags, job[s].map, k, job[s].todo) /\ UNCHANGED <<http, ports, lbID>>
    BY <1>0, <1>4, TurnCur, Zenon DEF Step, Shapes, k8sVars
  <2>2. Good(s)'
    BY <1>0, <1>1, <1>4, <2>1, ZenonT(40) DEF Good, Bears, Turns, Up
  <2>3. QED
    BY <2>1, <2>2, Zenon
<1>5. CASE /\ Up(old) /\ SupportTags /\ s \notin old.tags /\ Same(l, k, old)
           /\ lsn' = [lsn EXCEPT ![l][k].tags = {s}] /\ Step(s, next) /\ UNCHANGED <<alive, tags>>
  <2>1. s \in http
    BY <1>0, <1>5, Zenon DEF Good, Up
  <2>2. Turns(s, "pool", job[s].tags, job[s].map, k, job[s].todo) /\ UNCHANGED <<http, ports, lbID>> /\ Good(s)'
    BY <1>4, <1>5, <2>1, Zenon
  <2>3. Puts(l, k, lsn[l][k].by, {s}) /\ lsn[l][k].by # None
    BY <1>0, <1>5, PutTags, Zenon DEF Shapes, Same, Up
  <2>4. Bears(k, lsn[l][k].by, {s})
    <3>1. Bears(k, lsn[l][k].by, lsn[l][k].tags)
      BY <1>0, ListenerFacts, Zenon
    <3>2. QED
      BY <1>2, <1>5, <2>1, <2>3, <3>1, Zenon DEF Bears
  <2>5. UpInv' /\ TagInv'
    <3>1. l \in alive /\ UNCHANGED <<alive, http>>
      BY <1>0, <1>5, <2>2, <2>3, ListenerFacts, Zenon
    <3>2. QED
      BY <1>0, <2>3, <2>4, <3>1, PutKept, Zenon
  <2>6. QED
    BY <1>0, <2>2, <2>3, <2>5, WorkKept, Zenon DEF Turns, Puts, SpecInv
<1>6. CASE Up(old) /\ (SupportTags => s \in old.tags) /\ Step(s, next) /\ UNCHANGED lbVars
  BY <1>4, <1>6, TurnOnly, Zenon DEF Turns, lbVars
<1>7. QED
  BY <1>3, <1>5, <1>6, FailKeeps, Zenon DEF EnsureListener

\* ensureOctaviaPool changes neither creators nor tags.
LEMMA EnsurePoolKeeps ==
  ASSUME KeepInv, NEW s \in Services, EnsurePool(s), UNCHANGED upd
  PROVE  KeepInv'
<1> DEFINE l == job[s].lb
           k == job[s].cur
           left == job[s].todo \ {k}
<1>0. /\ Shapes /\ SpecInv /\ UpInv /\ TagInv /\ Good(s) /\ job[s].pc = "pool"
      /\ l \in LBs /\ k \in job[s].todo /\ k \in Keys
  BY Zenon DEF KeepInv, JobsInv, EnsurePool, Good
<1>1. CASE /\ Same(l, k, job[s].map[k])
           /\ lsn' = [lsn EXCEPT ![l][k].backend = s, ![l][k].members = job[s].nodes]
           /\ Step(s, IF left # {} THEN [job[s] EXCEPT !.pc = "listener", !.todo = left]
                                   ELSE [job[s] EXCEPT !.pc = "obsolete", !.todo = Obsolete(s)])
           /\ UNCHANGED <<alive, tags>>
  <2>1. UNCHANGED <<http, ports, lbID, alive>>
    BY <1>1, Zenon DEF Step, k8sVars
  <2>2. Puts(l, k, lsn[l][k].by, lsn[l][k].tags) /\ lsn[l][k].by # None
    BY <1>0, <1>1, PutPool, Zenon DEF Shapes, Same, Up
  <2>3. UpInv' /\ TagInv'
    <3>1. l \in alive /\ Bears(k, lsn[l][k].by, lsn[l][k].tags)
      BY <1>0, <2>2, ListenerFacts, Zenon
    <3>2. QED
      BY <1>0, <2>1, <2>2, <3>1, PutKept, Zenon
  <2>4. \/ Turns(s, "listener", job[s].tags, job[s].map, k, left)
        \/ Turns(s, "obsolete", job[s].tags, job[s].map, k, Obsolete(s))
    BY <1>0, <1>1, TurnTodo, Zenon DEF Step, Shapes
  <2>5. KeysOf(s, Ports)' = KeysOf(s, Ports)
    BY <2>1, Zenon DEF KeysOf, Key
  <2>6. \A q \in Obsolete(s) : /\ q \in Keys /\ job[s].map[q].by # None
                               /\ SupportTags => s \in job[s].map[q].tags
    BY <1>0, Zenon DEF Obsolete, Up, Mine, Good, Bears
  <2>7. Good(s)'
    BY <1>0, <2>1, <2>4, <2>5, <2>6, ZenonT(40) DEF Good, Bears, Turns
  <2>8. QED
    BY <1>0, <2>1, <2>2, <2>3, <2>4, <2>7, WorkKept, SMTT(20) DEF Turns, Puts, SpecInv
<1>2. QED
  BY <1>1, FailKeeps, Zenon DEF EnsurePool

\* deleteListeners and deleteOctaviaListeners.
LEMMA DeleteListenerKeeps ==
  ASSUME KeepInv, NEW s \in Services, job[s].pc \in {"obsolete", "unlist"}, NEW k \in job[s].todo,
         DeleteListener(s, k), UNCHANGED upd
  PROVE  KeepInv'
<1> DEFINE l == job[s].lb
<1>0. Shapes /\ SpecInv /\ UpInv /\ TagInv /\ Good(s) /\ l \in LBs /\ k \in Keys
  BY Zenon DEF KeepInv, JobsInv, Good
<1>1. CASE /\ l \in alive
           /\ lsn' = [lsn EXCEPT ![l][k] = IF Same(l, k, job[s].map[k]) THEN NoListener ELSE lsn[l][k]]
           /\ Step(s, [job[s] EXCEPT !.todo = @ \ {k}])
           /\ UNCHANGED <<alive, tags>>
  <2>1. UNCHANGED <<http, ports, lbID, alive>>
    BY <1>1, Zenon DEF Step, k8sVars
  <2>2. Turns(s, job[s].pc, job[s].tags, job[s].map, job[s].cur, job[s].todo \ {k})
    BY <1>0, <1>1, TurnLess, Zenon DEF Step, Shapes
  <2>3. Good(s)'
    BY <1>0, <2>1, <2>2, ZenonT(40) DEF Good, Bears, Turns
  <2>4. IsListener(NoListener) /\ NoListener.by = None /\ NoListener.tags = {} /\ IsListener(lsn[l][k])
    BY <1>0, NoListenerFields, Zenon DEF Shapes, ListenerShape
  <2>5. Puts(l, k, None, {}) \/ Puts(l, k, lsn[l][k].by, lsn[l][k].tags)
    <3>1. CASE lsn' = [lsn EXCEPT ![l][k] = NoListener]
      <4>1. Puts(l, k, NoListener.by, NoListener.tags)
        BY <1>0, <2>4, <3>1, PutListener, Zenon DEF Shapes
      <4>2. QED
        BY <2>4, <4>1, Zenon
    <3>2. CASE lsn' = [lsn EXCEPT ![l][k] = lsn[l][k]]
      <4> DEFINE y == lsn[l][k]
      <4>1. lsn' = [lsn EXCEPT ![l][k] = y] /\ IsListener(y)
        BY <2>4, <3>2, Zenon
      <4> HIDE DEF y
      <4>2. Puts(l, k, y.by, y.tags)
        BY <1>0, <4>1, PutListener, Zenon DEF Shapes
      <4>3. QED
        BY <4>2, Zenon DEF y
    <3>3. QED
      BY <1>1, <3>1, <3>2, Zenon
  <2>6. Bears(k, None, {}) /\ Bears(k, lsn[l][k].by, lsn[l][k].tags)
    BY <1>0, Zenon DEF Bears, TagInv
  <2>7. UpInv' /\ TagInv'
    <3>1. (lsn[l][k].by = None => lsn[l][k].tags = {}) /\ UNCHANGED <<alive, http>>
      BY <1>0, <1>1, <2>1, Zenon DEF UpInv
    <3>2. QED
      BY <1>0, <1>1, <2>5, <2>6, <3>1, PutKept, Zenon
  <2>8. QED
    BY <1>0, <2>1, <2>2, <2>3, <2>5, <2>7, WorkKept, Zenon DEF Turns, Puts, SpecInv
<1>2. QED
  BY <1>1, FailKeeps, Zenon DEF DeleteListener

\* The other steps of EnsureLoadBalancer and EnsureLoadBalancerDeleted that read.
LEMMA ReadKeeps ==
  ASSUME KeepInv, NEW s \in Services, UNCHANGED upd,
         \/ FindLB(s) \/ ListOwned(s)
         \/ (DeleteObsolete(s) \/ DeleteOwned(s)) /\ job[s].todo = {}
  PROVE  KeepInv'
<1> DEFINE l == job[s].lb
<1>0. Shapes /\ SpecInv /\ UpInv /\ TagInv /\ Good(s) /\ l \in LBs
  BY Zenon DEF KeepInv, JobsInv, Good, DeleteObsolete, FindLB, ListOwned, DeleteOwned
<1>1. ASSUME NEW p \in {"tag", "deleteLB", "untag"}, Step(s, [job[s] EXCEPT !.pc = p]), UNCHANGED lbVars
      PROVE  KeepInv'
  <2>1. Turns(s, p, job[s].tags, job[s].map, job[s].cur, job[s].todo) /\ UNCHANGED <<http, ports, lbID, lsn, alive>>
    BY <1>0, <1>1, TurnPc, ZenonT(40) DEF Step, Shapes, k8sVars, lbVars
  <2>2. Good(s)'
    BY <1>0, <1>1, <2>1 DEF Good, Bears, Turns
  <2>3. QED
    BY <2>1, <2>2, TurnOnly, Zenon DEF Turns
<1>2. CASE FindLB(s)
  <2>1. CASE Gone(s)
    <3>1. Starts(s, "idle", None, {}) /\ UNCHANGED <<http, ports, lbID, lsn, alive>>
      BY <1>0, <1>2, <2>1, TurnGone, Zenon DEF FindLB, Gone, Shapes, lbVars
    <3>2. Good(s)'
      BY <3>1, EndedGood, Zenon
    <3>3. QED
      BY <3>1, <3>2, TurnOnly, Zenon DEF Starts
  <2>2. CASE Step(s, [job[s] EXCEPT !.pc = "owned", !.tags = tags[l]])
    <3>1. Turns(s, "owned", tags[l], job[s].map, job[s].cur, job[s].todo) /\ UNCHANGED <<http, ports, lbID, lsn, alive>>
      BY <1>0, <1>2, <2>2, TurnTags, Zenon DEF FindLB, Step, Shapes, k8sVars, lbVars
    <3>2. Good(s)'
      BY <1>0, <3>1, ZenonT(40) DEF Good, Bears, Turns
    <3>3. QED
      BY <3>1, <3>2, TurnOnly, Zenon DEF Turns
  <2>3. QED
    BY <1>2, <2>1, <2>2, Zenon DEF FindLB
<1>3. ASSUME NEW d, d \subseteq Keys, Step(s, [job[s] EXCEPT !.pc = "unlist", !.map = lsn[l], !.todo = d]),
             UNCHANGED lbVars
      PROVE  KeepInv'
  <2>1. Turns(s, "unlist", job[s].tags, lsn[l], job[s].cur, d) /\ UNCHANGED <<http, ports, lbID, lsn, alive>>
    BY <1>0, <1>3, TurnMap, Zenon DEF Step, Shapes, k8sVars, lbVars
  <2>2. lsn[l] = [k \in Keys |-> lsn[l][k]] /\ \A k \in Keys : Bears(k, lsn[l][k].by, lsn[l][k].tags)
    BY <1>0, Zenon DEF Shapes, ListenerShape, TagInv
  <2>3. Good(s)'
    BY <1>0, <1>3, <2>1, <2>2, ZenonT(40) DEF Good, Bears, Turns
  <2>4. QED
    BY <2>1, <2>3, TurnOnly, Zenon DEF Turns
<1>4. CASE ListOwned(s)
  <2> DEFINE mine == {k \in KeysOf(s, job[s].ports) : s \in lsn[l][k].tags}
             all == {k \in Keys : Up(lsn[l][k])}
  <2>1. mine \subseteq Keys /\ all \subseteq Keys
    BY <1>0, KeyFacts, Zenon DEF Good
  <2>2. /\ UNCHANGED lbVars
        /\ \/ Step(s, [job[s] EXCEPT !.pc = "deleteLB"])
           \/ \E d \in {mine, all} : Step(s, [job[s] EXCEPT !.pc = "unlist", !.map = lsn[l], !.todo = d])
    BY <1>4, Zenon DEF ListOwned
  <2> HIDE DEF mine, all
  <2>3. QED
    BY <1>1, <1>3, <2>1, <2>2, Zenon
<1>5. CASE DeleteObsolete(s) /\ job[s].todo = {}
  BY <1>1, <1>5, Zenon DEF DeleteObsolete
<1>6. CASE DeleteOwned(s) /\ job[s].todo = {}
  BY <1>1, <1>6, Zenon DEF DeleteOwned
<1>7. QED
  BY <1>2, <1>4, <1>5, <1>6, SMTT(20)

\* The ends of EnsureLoadBalancer and EnsureLoadBalancerDeleted.
LEMMA EndKeeps ==
  ASSUME KeepInv, NEW s \in Services, UNCHANGED upd, TagLB(s) \/ DeleteLB(s) \/ UntagLB(s)
  PROVE  KeepInv'
<1> DEFINE l == job[s].lb
<1>0. Shapes /\ SpecInv /\ UpInv /\ TagInv /\ Good(s) /\ l \in LBs
  BY Zenon DEF KeepInv, JobsInv, Good, TagLB, DeleteLB, UntagLB
<1>1. CASE TagLB(s)
  <2>1. Turns(s, "idle", {}, NoListeners, None, {}) /\ UNCHANGED <<http, ports, lsn, alive>>
    BY <1>0, <1>1, TurnEnded, Zenon DEF TagLB, Shapes
  <2>2. Good(s)'
    BY <2>1, EndedGood, Zenon
  <2>3. ListenerShape' /\ UpInv' /\ TagInv'
    BY <2>1, SameListeners, Zenon
  <2>4. SpecInv'
    BY <1>0, <1>1, <2>1, Zenon DEF SpecInv, TagLB
  <2>5. QED
    BY <2>1, <2>2, <2>3, <2>4, WorkKept, Zenon DEF Turns
<1>2. CASE Gone(s)
  <2>1. Starts(s, "idle", None, {}) /\ UNCHANGED <<http, ports, lbID>>
    BY <1>0, <1>2, TurnGone, Zenon DEF Gone, Shapes
  <2>2. Good(s)'
    BY <2>1, EndedGood, Zenon
  <2>3. SpecInv'
    BY <1>0, <2>1, Zenon DEF SpecInv
  <2>4. CASE UNCHANGED <<alive, lsn>>
    BY <2>1, <2>2, <2>4, TurnOnly, Zenon DEF Starts
  <2>5. CASE alive' = alive \ {l} /\ lsn' = [lsn EXCEPT ![l] = NoListeners]
    <3>1. /\ NoListeners = [k \in Keys |-> NoListeners[k]] /\ \A k \in Keys : IsListener(NoListeners[k])
          /\ \A k \in Keys : NoListeners[k].by = None /\ NoListeners[k].tags = {}
      BY Zenon DEF NoListeners, NoListener, IsListener
    <3>2. ListenerShape' /\ lsn'[l] = NoListeners /\ \A m \in LBs \ {l} : lsn'[m] = lsn[m]
      BY <1>0, <2>5, <3>1, PutAll, Zenon DEF Shapes
    <3>3. UpInv'
      BY <1>0, <2>5, <3>1, <3>2 DEF UpInv
    <3>4. ASSUME NEW m \in LBs, NEW k \in Keys PROVE Bears(k, lsn[m][k].by, lsn[m][k].tags)'
      BY <1>0, <2>1, <3>1, <3>2 DEF TagInv, Bears
    <3>5. QED
      BY <2>1, <2>2, <2>3, <3>2, <3>3, <3>4, WorkKept, SMTT(20) DEF Starts, TagInv
  <2>6. QED
    BY <1>1, <2>4, <2>5, Zenon DEF DeleteLB, UntagLB, Fail, lbVars
<1>3. QED
  BY <1>1, <1>2, FailKeeps, Zenon DEF DeleteLB, UntagLB

\* A worker takes a key.
LEMMA StartKeeps ==
  ASSUME KeepInv, NEW s \in Services, Start(s), UNCHANGED upd
  PROVE  KeepInv'
<1> DEFINE p == IF state[s] = "deleting" THEN "find" ELSE "get"
           l == IF lbID[s] = None THEN s ELSE lbID[s]
<1>1. Starts(s, p, l, ports[s])
  BY TurnStart, Zenon DEF Start, KeepInv, Shapes
<1>2. UNCHANGED <<http, ports, lbID, lsn, alive>>
  BY Zenon DEF Start, k8sVars, lbVars
<1>3. p \in {"find", "get"} /\ l \in LBs /\ ports[s] \subseteq Ports
  BY Zenon DEF KeepInv, SpecInv, LBs
<1> HIDE DEF p, l
<1>4. NoListeners = [k \in Keys |-> NoListeners[k]] /\ \A k \in Keys : NoListeners[k].by = None /\ NoListeners[k].tags = {}
  BY Zenon DEF NoListeners, NoListener
<1>5. Good(s)'
  BY <1>1, <1>3, <1>4, Zenon DEF Starts, Good, Bears
<1>6. QED
  BY <1>1, <1>2, <1>5, TurnOnly, Zenon DEF Starts

\* Whatever a worker does keeps the invariant.
LEMMA WorkerKeeps ==
  ASSUME KeepInv, NEW s \in Services, Worker(s)
  PROVE  KeepInv'
<1>1. UNCHANGED upd
  BY Zenon DEF Worker, updVars
<1>2. CASE Forget(s)
  <2>1. UNCHANGED <<http, ports, lbID, lsn, alive, job>>
    BY <1>2, Zenon DEF Forget, k8sVars, lbVars
  <2>2. Good(s)' /\ JobShape' /\ \A r \in Services \ {s} : job'[r] = job[r]
    BY <2>1, SameGood, SMTT(20) DEF KeepInv, JobsInv, Shapes, JobShape
  <2>3. QED
    BY <1>1, <2>1, <2>2, TurnOnly, Zenon
<1>3. CASE Work(s)
  <2>1. CASE DeleteObsolete(s) \/ DeleteOwned(s)
    BY <1>1, <2>1, DeleteListenerKeeps, ReadKeeps, Zenon DEF DeleteObsolete, DeleteOwned
  <2>2. QED
    BY <1>1, <1>3, <2>1, GetKeeps, ListKeeps, EnsureListenerKeeps, EnsurePoolKeeps, ReadKeeps, EndKeeps, Zenon DEF Work
<1>4. QED
  BY <1>1, <1>2, <1>3, StartKeeps, EndKeeps, FailKeeps, Zenon DEF Worker, CallFails

\* The node worker changes neither creators nor tags.
LEMMA NodeWorkerKeeps ==
  ASSUME KeepInv, NodeWorker
  PROVE  KeepInv'
<1>0. UNCHANGED <<http, ports, lbID, job, alive, tags>> /\ Shapes /\ UpInv /\ TagInv
  BY Zenon DEF NodeWorker, SyncNodes, SyncedNodes, GetForUpdate, UpdatePool, k8sVars, lbVars, KeepInv
<1>1. SpecInv' /\ JobShape' /\ \A s \in Services : Good(s)'
  BY <1>0, SameGood, Zenon DEF KeepInv, JobsInv, SpecInv, Shapes, JobShape
<1>2. ASSUME ListenerShape', UpInv', TagInv', UpdShape', \A s \in Services : UpdGood(s)' PROVE KeepInv'
  BY <1>1, <1>2, Zenon DEF KeepInv, Shapes, JobsInv
<1>3. IsUpd(UpdIdle) /\ UpdIdle.pc = "idle"
  BY SMT DEF UpdIdle, IsUpd
<1>4. CASE SyncNodes
  <2> DEFINE u(s) == [UpdIdle EXCEPT !.pc = "get", !.lb = job[s].lb, !.todo = KeysOf(s, job[s].ports)]
  <2>1. ASSUME NEW s \in Services PROVE IsUpd(u(s)) /\ u(s).pc = "get" /\ u(s).todo = KeysOf(s, job[s].ports)
    <3> DEFINE i == UpdIdle
               P == KeysOf(s, job[s].ports)
               x == [i EXCEPT !.pc = "get"]
               y == [x EXCEPT !.lb = job[s].lb]
               n == [i EXCEPT !.pc = "get", !.lb = job[s].lb, !.todo = P]
    <3>1. IsUpd(i) /\ u(s) = n
      BY <1>3, Zenon
    <3> HIDE DEF i, u, P
    <3>2. IsUpd(x) /\ n = [y EXCEPT !.todo = P] /\ n.pc = "get" /\ n.todo = P
      BY <3>1, UpdOfUpd, SMT DEF IsUpd
    <3> HIDE DEF x, n
    <3>a. IsUpd(y)
      BY <3>2, UpdOfUpd, Zenon
    <3> HIDE DEF y
    <3>b. IsUpd([y EXCEPT !.todo = P])
      BY <3>a, UpdOfUpd, Zenon
    <3>3. QED
      BY <3>1, <3>2, <3>b, Zenon DEF P
  <2>2. upd' = [s \in Services |-> IF s \in cached THEN u(s) ELSE UpdIdle]
    BY <1>4, Zenon DEF SyncNodes
  <2> HIDE DEF u
  <2>3. UpdShape' /\ \A s \in Services : upd'[s] = u(s) \/ upd'[s] = UpdIdle
    BY <1>3, <2>1, <2>2, Zenon DEF UpdShape
  <2>4. ASSUME NEW s \in Services PROVE KeysOf(s, job[s].ports) \subseteq Keys
    BY KeyFacts, Zenon DEF KeepInv, JobsInv, Good
  <2>5. \A s \in Services : UpdGood(s)'
    BY <1>3, <2>1, <2>3, <2>4, Zenon DEF UpdGood
  <2>6. ListenerShape' /\ UpInv' /\ TagInv'
    BY <1>0, <1>4, SameListeners, Zenon DEF SyncNodes, lbVars
  <2>7. QED
    BY <1>2, <2>3, <2>5, <2>6, Zenon
<1>5. CASE SyncedNodes
  <2>1. UpdShape' /\ \A s \in Services : upd'[s] = UpdIdle
    BY <1>3, <1>5, Zenon DEF SyncedNodes, UpdShape
  <2>2. \A s \in Services : UpdGood(s)'
    BY <1>3, <2>1, Zenon DEF UpdGood
  <2>3. ListenerShape' /\ UpInv' /\ TagInv'
    BY <1>0, <1>5, SameListeners, Zenon DEF SyncedNodes, lbVars
  <2>4. QED
    BY <1>2, <2>1, <2>2, <2>3, Zenon
<1>6. ASSUME NEW s \in Services, NEW v, IsUpd(v), upd' = [upd EXCEPT ![s] = v],
             v.pc \in {"get", "pool"} => v.todo \subseteq Keys, v.pc = "pool" => v.lb \in LBs
      PROVE  UpdShape' /\ \A r \in Services : UpdGood(r)'
  <2>1. UpdShape' /\ upd'[s] = v /\ \A r \in Services \ {s} : upd'[r] = upd[r]
    BY <1>0, <1>6, Zenon DEF Shapes, UpdShape
  <2>2. \A r \in Services : UpdGood(r)'
    BY <1>6, <2>1, Zenon DEF UpdGood, KeepInv, JobsInv
  <2>3. QED
    BY <2>1, <2>2, Zenon
<1>7. ASSUME NEW s \in Services, GetForUpdate(s) PROVE KeepInv'
  <2> DEFINE u == upd[s]
             l == u.lb
             v == [u EXCEPT !.pc = "pool", !.map = lsn[l]]
  <2>1. IsUpd(u) /\ u.pc = "get" /\ u.todo \subseteq Keys
    BY <1>0, <1>7, Zenon DEF Shapes, UpdShape, GetForUpdate, KeepInv, JobsInv, UpdGood
  <2>2. upd' = [upd EXCEPT ![s] = IF l \in alive THEN v ELSE UpdIdle] /\ UNCHANGED lsn
    BY <1>7, Zenon DEF GetForUpdate, lbVars
  <2> HIDE DEF u
  <2>a. IsUpd(v) /\ v.lb = l /\ v.todo = u.todo
    <3> DEFINE x == [u EXCEPT !.pc = "pool"]
    <3>1. v.lb = u.lb /\ v.todo = u.todo /\ v = [x EXCEPT !.map = lsn[l]] /\ IsUpd(x)
      BY <2>1, UpdOfUpd, SMT DEF IsUpd
    <3> HIDE DEF v, x
    <3>2. IsUpd([x EXCEPT !.map = lsn[l]])
      BY <3>1, UpdOfUpd, Zenon
    <3>3. QED
      BY <3>1, <3>2, Zenon
  <2> HIDE DEF v
  <2>4. alive \subseteq LBs
    BY <1>0, Zenon DEF UpInv
  <2>5. UpdShape' /\ \A r \in Services : UpdGood(r)'
    <3>1. CASE l \in alive
      <4>1. upd' = [upd EXCEPT ![s] = v]
        BY <2>2, <3>1, Zenon
      <4>2. QED
        BY <1>6, <2>1, <2>a, <2>4, <3>1, <4>1, Zenon
    <3>2. CASE l \notin alive
      <4>1. upd' = [upd EXCEPT ![s] = UpdIdle]
        BY <2>2, <3>2, Zenon
      <4>2. QED
        BY <1>3, <1>6, <4>1, Zenon
    <3>3. QED
      BY <3>1, <3>2, Zenon
  <2>6. ListenerShape' /\ UpInv' /\ TagInv'
    BY <1>0, <2>2, SameListeners, Zenon
  <2>7. QED
    BY <1>2, <2>5, <2>6, Zenon
<1>8. ASSUME NEW s \in Services, NEW k \in Keys, UpdatePool(s, k) PROVE KeepInv'
  <2> DEFINE u == upd[s]
             l == u.lb
             left == u.todo \ {k}
  <2>1. IsUpd(u) /\ u.pc = "pool" /\ u.todo \subseteq Keys /\ l \in LBs
    BY <1>0, <1>8, Zenon DEF Shapes, UpdShape, UpdatePool, KeepInv, JobsInv, UpdGood
  <2>2. \E v : /\ upd' = [upd EXCEPT ![s] = v]
               /\ v \in {UpdIdle, [u EXCEPT !.todo = left], [UpdIdle EXCEPT !.pc = "retry"],
                         [UpdIdle EXCEPT !.pc = "idle"]}
    BY <1>8, Zenon DEF UpdatePool
  <2>4. UpdShape' /\ \A r \in Services : UpdGood(r)'
    <3>1. PICK v : /\ upd' = [upd EXCEPT ![s] = v]
                   /\ v \in {UpdIdle, [u EXCEPT !.todo = left], [UpdIdle EXCEPT !.pc = "retry"],
                             [UpdIdle EXCEPT !.pc = "idle"]}
      BY <2>2, Zenon
    <3> HIDE DEF u, left
    <3>2. \/ IsUpd(v) /\ v.pc \in {"idle", "retry"}
          \/ IsUpd(v) /\ v.pc = u.pc /\ v.lb = u.lb /\ v.todo = left
      BY <1>3, <2>1, <3>1, UpdLess
    <3>3. (v.pc \in {"get", "pool"} => v.todo \subseteq Keys) /\ (v.pc = "pool" => v.lb \in LBs)
      BY <2>1, <3>2, Zenon DEF left
    <3>4. QED
      BY <1>6, <3>1, <3>2, <3>3, Zenon
  <2>5. CASE UNCHANGED lsn
    BY <1>0, <1>2, <2>4, <2>5, SameListeners, Zenon
  <2>6. CASE Same(l, k, u.map[k]) /\ lsn' = [lsn EXCEPT ![l][k].backend = s, ![l][k].members = target]
    <3>1. Puts(l, k, lsn[l][k].by, lsn[l][k].tags) /\ lsn[l][k].by # None
      BY <1>0, <2>1, <2>6, PutPool, Zenon DEF Shapes, Same, Up
    <3>2. l \in alive /\ Bears(k, lsn[l][k].by, lsn[l][k].tags)
      BY <1>0, <2>1, <3>1, ListenerFacts, Zenon
    <3>3. UpInv' /\ TagInv'
      BY <1>0, <2>1, <3>1, <3>2, PutKept, Zenon
    <3>4. QED
      BY <1>2, <2>4, <3>1, <3>3, Zenon DEF Puts
  <2>7. QED
    BY <1>8, <2>5, <2>6, Zenon DEF UpdatePool
<1>9. QED
  BY <1>4, <1>5, <1>7, <1>8, Zenon DEF NodeWorker

\* What users do.
LEMMA UserKeeps ==
  ASSUME KeepInv, User \/ \E N \in NodeChoices : ChangeNodes(N)
  PROVE  KeepInv'
<1>1. UNCHANGED <<http, job, upd, alive, lsn>>
  BY ZenonT(40) DEF User, CreateService, EditPorts, DeleteService, ChangeNodes, k8sVars, lbVars, updVars
<1>2. SpecInv'
  <2>1. CASE UNCHANGED <<ports, lbID>>
    BY <1>1, <2>1, Zenon DEF KeepInv, SpecInv
  <2>2. ASSUME NEW s \in Services, NEW P \in PortChoices[s], NEW l \in LBChoices[s] \cup {lbID[s]},
               ports' = [ports EXCEPT ![s] = P], lbID' = [lbID EXCEPT ![s] = l] \/ UNCHANGED lbID
        PROVE  SpecInv'
    <3>1. P \subseteq Ports /\ l \in LBs \cup {None}
      BY ConstantsAssumption, Zenon DEF KeepInv, SpecInv
    <3>2. QED
      BY <1>1, <2>2, <3>1, Zenon DEF KeepInv, SpecInv
  <2>3. QED
    BY <2>1, <2>2, Zenon DEF User, CreateService, EditPorts, DeleteService, ChangeNodes, k8sVars
<1>3. ListenerShape' /\ UpInv' /\ TagInv'
  BY <1>1, SameListeners, Zenon
<1>4. ASSUME NEW s \in Services PROVE Good(s)' /\ UpdGood(s)'
  BY <1>1, SameGood, Zenon DEF KeepInv, JobsInv, UpdGood
<1>5. QED
  BY <1>1, <1>2, <1>3, <1>4, SMTT(20) DEF KeepInv, JobsInv, Shapes, JobShape, UpdShape

\* At the start there is nothing but the load balancers of others.
LEMMA InitKeep == Init => KeepInv
<1> SUFFICES ASSUME Init PROVE KeepInv
  BY Zenon
<1>1. \A l \in LBs, k \in Keys : lsn[l][k] = NoListener
  BY Zenon DEF Init, NoListeners
<1>2. IsListener(NoListener) /\ NoListener.by = None /\ NoListener.tags = {}
  BY NoListenerFields, Zenon
<1>3. ListenerShape
  BY <1>1, <1>2, Zenon DEF Init, ListenerShape, NoListeners
<1>4. UpInv /\ TagInv
  BY <1>1, <1>2, Zenon DEF UpInv, TagInv, Bears, Init, LBs
<1>5. SpecInv
  BY ConstantsAssumption, SMTT(20) DEF Init, SpecInv
<1>6. JobShape /\ \A s \in Services : job[s] = Idle
  BY IdleFields, Zenon DEF Init, JobShape
<1>7. IsUpd(UpdIdle) /\ UpdIdle.pc = "idle"
  BY SMT DEF UpdIdle, IsUpd
<1>8. UpdShape /\ \A s \in Services : UpdGood(s)
  BY <1>7, Zenon DEF Init, UpdShape, UpdGood
<1>9. NoListeners = [k \in Keys |-> NoListeners[k]] /\ \A k \in Keys : NoListeners[k].by = None /\ NoListeners[k].tags = {}
  BY Zenon DEF NoListeners, NoListener
<1>10. \A s \in Services : Good(s)
  BY <1>6, <1>9, IdleFields DEF Good, Bears
<1>11. QED
  BY <1>3, <1>4, <1>5, <1>6, <1>8, <1>10, Zenon DEF KeepInv, Shapes, JobsInv

\* Every step keeps the invariant.
LEMMA NextKeep == KeepInv /\ [Next]_vars => KeepInv'
<1> SUFFICES ASSUME KeepInv, [Next]_vars PROVE KeepInv'
  BY Zenon
<1>1. CASE UNCHANGED vars
  <2>1. UNCHANGED <<http, job, upd, alive, lsn, ports, lbID>>
    BY <1>1, Zenon DEF vars
  <2>2. ASSUME NEW s \in Services PROVE Good(s)' /\ UpdGood(s)'
    BY <2>1, SameGood, Zenon DEF KeepInv, JobsInv, UpdGood
  <2>3. ListenerShape' /\ UpInv' /\ TagInv'
    BY <2>1, SameListeners, Zenon
  <2>4. QED
    BY <2>1, <2>2, <2>3, Zenon DEF KeepInv, JobsInv, Shapes, JobShape, UpdShape, SpecInv
<1>2. QED
  BY <1>1, WorkerKeeps, NodeWorkerKeeps, UserKeeps, Zenon DEF Next

-----------------------------------------------------------------------------
(* The Service a worker has *)

LBOf(s) == IF lbID[s] = None THEN s ELSE lbID[s]

AfterGet == {"list", "listener", "pool", "obsolete", "tag"}
AfterFind == {"owned", "unlist", "deleteLB", "untag"}

\* The Service a worker has is in the cache, and the load balancer is the one its
\* annotation names.
Placed(s) ==
  /\ job[s].pc # "idle" => s \in cached /\ job[s].lb = LBOf(s)
  /\ s \in cached => state[s] \in {"present", "deleting"}
  /\ s \in queue \/ upd[s].pc # "idle" => state[s] # "absent"
  /\ state[s] \in {"absent", "present", "deleting", "gone"}
  /\ job[s].pc \in AfterFind \cup {"find"} => state[s] = "deleting" /\ job[s].ports = ports[s]
  /\ s \in status => lbID[s] # None /\ s \in cached

PlacedInv == state = [s \in Services |-> state[s]] /\ \A s \in Services : Placed(s)

\* Nothing changes about r.
Aside(r) ==
  /\ job'[r] = job[r] /\ state'[r] = state[r] /\ ports'[r] = ports[r] /\ lbID'[r] = lbID[r]
  /\ (r \in queue)' = (r \in queue) /\ (r \in cached)' = (r \in cached) /\ (r \in status)' = (r \in status)
  /\ upd'[r].pc = upd[r].pc

\* What changes nothing about r leaves it where it is.
LEMMA AsideKept ==
  ASSUME NEW r \in Services, Placed(r), Aside(r)
  PROVE  Placed(r)'
  BY SMTT(20) DEF Placed, Aside, LBOf

\* The worker goes on with s.
Proceeds(s) ==
  /\ job[s].pc # "idle" /\ job'[s].pc # "idle"
  /\ job'[s].pc \in AfterFind => job[s].pc \in AfterFind \cup {"find"}
  /\ job'[s].pc # "find" /\ job'[s].lb = job[s].lb /\ job'[s].ports = job[s].ports
  /\ JobShape' /\ \A r \in Services \ {s} : job'[r] = job[r]
  /\ UNCHANGED <<k8sVars, status, queue, cached>>

\* What a step of a worker's run does to its job.
LEMMA WorkForms ==
  ASSUME KeepInv, NEW s \in Services, Work(s)
  PROVE  job[s].pc # "idle" /\ (Proceeds(s) \/ Fail(s) \/ Gone(s))
<1> DEFINE l == job[s].lb
           j == job[s]
<1>0. JobShape
  BY Zenon DEF KeepInv, Shapes
<1>1. ASSUME NEW p, NEW t, NEW m, NEW c, NEW d, Turns(s, p, t, m, c, d),
             UNCHANGED <<k8sVars, status, queue, cached>>,
             j.pc \in AfterGet \cup AfterFind \cup {"get", "find"}, p \in AfterGet \cup AfterFind,
             p \in AfterFind => j.pc \in AfterFind \cup {"find"}
      PROVE  Proceeds(s)
  BY <1>1, Zenon DEF Turns, Proceeds, AfterGet, AfterFind
<1>2. ASSUME NEW k, k \in j.todo, DeleteListener(s, k), j.pc \in {"obsolete", "unlist"}
      PROVE  Proceeds(s) \/ Fail(s)
  <2>1. CASE Step(s, [job[s] EXCEPT !.todo = @ \ {k}])
    <3>1. Turns(s, j.pc, j.tags, j.map, j.cur, j.todo \ {k}) /\ UNCHANGED <<k8sVars, status, queue, cached>>
      BY <1>0, <2>1, TurnLess, Zenon DEF Step
    <3>2. QED
      BY <1>1, <1>2, <3>1, Zenon DEF AfterGet, AfterFind
  <2>2. QED
    BY <1>2, <2>1, Zenon DEF DeleteListener
<1>3. ASSUME NEW p, Step(s, [job[s] EXCEPT !.pc = p]),
             \/ p = "tag" /\ j.pc = "obsolete"
             \/ p \in AfterFind /\ j.pc \in AfterFind
      PROVE  Proceeds(s)
  <2>1. Turns(s, p, j.tags, j.map, j.cur, j.todo) /\ UNCHANGED <<k8sVars, status, queue, cached>>
    BY <1>0, <1>3, TurnPc, Zenon DEF Step
  <2>2. QED
    BY <1>1, <1>3, <2>1, Zenon DEF AfterGet, AfterFind
<1>4. ASSUME NEW p, NEW t, Step(s, [job[s] EXCEPT !.pc = p, !.tags = t]),
             \/ p \in {"tag", "list"} /\ j.pc = "get"
             \/ p = "owned" /\ j.pc = "find"
      PROVE  Proceeds(s)
  <2>1. Turns(s, p, t, j.map, j.cur, j.todo) /\ UNCHANGED <<k8sVars, status, queue, cached>>
    BY <1>0, <1>4, TurnTags, Zenon DEF Step
  <2>2. QED
    BY <1>1, <1>4, <2>1, Zenon DEF AfterGet, AfterFind
<1>5. ASSUME NEW p, NEW m, NEW d, Step(s, [job[s] EXCEPT !.pc = p, !.map = m, !.todo = d]),
             \/ p = "listener" /\ j.pc = "list"
             \/ p = "unlist" /\ j.pc = "owned"
      PROVE  Proceeds(s)
  <2>1. Turns(s, p, j.tags, m, j.cur, d) /\ UNCHANGED <<k8sVars, status, queue, cached>>
    BY <1>0, <1>5, TurnMap, Zenon DEF Step
  <2>2. QED
    BY <1>1, <1>5, <2>1, Zenon DEF AfterGet, AfterFind
<1>6. CASE GetLB(s)
  BY <1>4, <1>6, Zenon DEF GetLB, CreateLB
<1>7. CASE GetListeners(s)
  BY <1>5, <1>7, Zenon DEF GetListeners
<1>8. CASE EnsurePool(s)
  <2>1. ASSUME NEW p \in {"listener", "obsolete"}, NEW d, Step(s, [job[s] EXCEPT !.pc = p, !.todo = d])
        PROVE  Proceeds(s)
    <3>1. Turns(s, p, j.tags, j.map, j.cur, d) /\ UNCHANGED <<k8sVars, status, queue, cached>>
      BY <1>0, <2>1, TurnTodo, Zenon DEF Step
    <3>2. QED
      BY <1>1, <1>8, <2>1, <3>1, Zenon DEF AfterGet, AfterFind, EnsurePool
  <2>2. QED
    BY <1>8, <2>1, Zenon DEF EnsurePool
<1>9. CASE \E k \in Keys : EnsureListener(s, k)
  <2>1. PICK k \in Keys : EnsureListener(s, k)
    BY <1>9, Zenon
  <2> DEFINE n == [job[s] EXCEPT !.pc = "pool", !.cur = k]
  <2>2. j.pc = "listener" /\ (Step(s, n) \/ (\E x : Step(s, [n EXCEPT !.map[k] = x])) \/ Fail(s))
    BY <2>1, Zenon DEF EnsureListener
  <2>3. CASE Step(s, n)
    <3>1. Turns(s, "pool", j.tags, j.map, k, j.todo) /\ UNCHANGED <<k8sVars, status, queue, cached>>
      BY <1>0, <2>3, TurnCur, Zenon DEF Step
    <3>2. QED
      BY <1>1, <2>2, <3>1, Zenon DEF AfterGet, AfterFind
  <2>4. ASSUME NEW x, Step(s, [n EXCEPT !.map[k] = x]) PROVE Proceeds(s)
    <3>1. Turns(s, "pool", j.tags, [j.map EXCEPT ![k] = x], k, j.todo) /\ UNCHANGED <<k8sVars, status, queue, cached>>
      BY <1>0, <2>4, TurnMade, Zenon DEF Step
    <3>2. QED
      BY <1>1, <2>2, <3>1, Zenon DEF AfterGet, AfterFind
  <2>5. QED
    BY <2>2, <2>3, <2>4, Zenon
<1>10. CASE DeleteObsolete(s) \/ DeleteOwned(s)
  BY <1>2, <1>3, <1>10, Zenon DEF DeleteObsolete, DeleteOwned, AfterFind
<1>11. CASE FindLB(s)
  BY <1>4, <1>11, Zenon DEF FindLB
<1>12. CASE ListOwned(s)
  BY <1>3, <1>5, <1>12, ZenonT(40) DEF ListOwned, AfterFind
<1>13. CASE DeleteLB(s) \/ UntagLB(s)
  BY <1>13, Zenon DEF DeleteLB, UntagLB
<1>14. QED
  BY <1>6, <1>7, <1>8, <1>9, <1>10, <1>11, <1>12, <1>13, Zenon DEF Work

\* A worker's step leaves the other Services where they are.
LEMMA WorkerAside ==
  ASSUME KeepInv, PlacedInv, NEW s \in Services, Worker(s), NEW r \in Services, r # s
  PROVE  Aside(r)
<1>0. UNCHANGED upd
  BY Zenon DEF Worker, updVars
<1>1. /\ job = [q \in Services |-> job[q]] /\ state = [q \in Services |-> state[q]]
      /\ lbID = [q \in Services |-> lbID[q]]
  BY Zenon DEF KeepInv, Shapes, JobShape, SpecInv, PlacedInv
<1>2. CASE Fail(s)
  BY <1>0, <1>1, <1>2 DEF Fail, Aside, k8sVars
<1>3. CASE Gone(s)
  BY <1>0, <1>1, <1>3 DEF Gone, Aside
<1>4. CASE Proceeds(s)
  BY <1>0, <1>4, Zenon DEF Proceeds, Aside, k8sVars
<1>5. CASE Start(s)
  BY <1>0, <1>1, <1>5 DEF Start, Aside, k8sVars
<1>6. CASE Forget(s)
  BY <1>0, <1>6 DEF Forget, Aside, k8sVars
<1>7. CASE TagLB(s)
  BY <1>0, <1>1, <1>7, SMTT(20) DEF TagLB, Aside
<1>8. QED
  BY <1>2, <1>3, <1>4, <1>5, <1>6, <1>7, WorkForms, Zenon DEF Worker, CallFails

\* A worker takes Services and gives them back as it should.
LEMMA WorkerPlaced ==
  ASSUME KeepInv, PlacedInv, NEW s \in Services, Worker(s)
  PROVE  PlacedInv'
<1>0. JobShape /\ state = [q \in Services |-> state[q]] /\ lbID = [q \in Services |-> lbID[q]] 
      /\ Placed(s) /\ Good(s) /\ UNCHANGED upd
  BY Zenon DEF KeepInv, Shapes, SpecInv, PlacedInv, JobsInv, Worker, updVars
<1>1. state' = [q \in Services |-> state'[q]]
  BY <1>0, WorkForms, Zenon DEF Worker, CallFails, Fail, Gone, Proceeds, Start, Forget, TagLB, k8sVars
<1>2. CASE Fail(s) /\ job[s].pc # "idle"
  <2>1. job'[s].pc = "idle" /\ UNCHANGED <<state, lbID, status, cached>> /\ queue' = queue \cup {s}
    BY <1>0, <1>2, TurnEnded, Zenon DEF Fail, Turns, k8sVars
  <2>2. Placed(s)'
    BY <1>0, <1>2, <2>1, Zenon DEF Placed, AfterFind
  <2>3. QED
    BY <1>1, <2>2, WorkerAside, AsideKept, Zenon DEF PlacedInv
<1>3. CASE Gone(s) /\ job[s].pc # "idle"
  <2>1. job'[s].pc = "idle" /\ state'[s] = "gone" /\ s \notin status' /\ s \notin cached'
    BY <1>0, <1>3, TurnGone, Zenon DEF Gone, Starts
  <2>2. Placed(s)'
    BY <1>0, <2>1, Zenon DEF Placed, AfterFind
  <2>3. QED
    BY <1>1, <2>2, WorkerAside, AsideKept DEF PlacedInv
<1>4. CASE Proceeds(s)
  <2>1. Placed(s)'
    BY <1>0, <1>4, Zenon DEF Placed, Proceeds, LBOf, AfterFind, k8sVars
  <2>2. QED
    BY <1>1, <2>1, WorkerAside, AsideKept DEF PlacedInv
<1>5. CASE Start(s)
  <2> DEFINE p == IF state[s] = "deleting" THEN "find" ELSE "get"
  <2>1. Starts(s, p, LBOf(s), ports[s])
    BY <1>0, <1>5, TurnStart, Zenon DEF Start, LBOf
  <2>2. /\ UNCHANGED <<state, ports, lbID, status>> /\ s \in cached' /\ s \notin queue'
        /\ s \in queue /\ state[s] # "gone"
    BY <1>5, Zenon DEF Start, k8sVars
  <2>3. state[s] \in {"present", "deleting"}
    BY <1>0, <2>2, Zenon DEF Placed
  <2>4. Placed(s)'
    BY <1>0, <2>1, <2>2, <2>3, Zenon DEF Placed, Starts, LBOf, AfterFind
  <2>5. QED
    BY <1>1, <2>4, WorkerAside, AsideKept DEF PlacedInv
<1>6. CASE Forget(s)
  <2>1. Placed(s)'
    BY <1>0, <1>6, Zenon DEF Placed, Forget, LBOf, k8sVars
  <2>2. QED
    BY <1>1, <2>1, WorkerAside, AsideKept DEF PlacedInv
<1>7. CASE TagLB(s)
  <2>1. job'[s].pc = "idle"
    BY <1>0, <1>7, TurnEnded, Zenon DEF TagLB, Turns
  <2>2. job[s].pc # "idle" /\ lbID'[s] = job[s].lb /\ UNCHANGED <<state, cached>>
    BY <1>0, <1>7, Zenon DEF TagLB
  <2>3. job[s].lb # None
    BY <1>0, <2>2, ConstantsAssumption, Zenon DEF Good
  <2>4. Placed(s)'
    BY <1>0, <2>1, <2>2, <2>3, Zenon DEF Placed, AfterFind
  <2>5. QED
    BY <1>1, <2>4, WorkerAside, AsideKept DEF PlacedInv
<1>8. QED
  BY <1>2, <1>3, <1>4, <1>5, <1>6, <1>7, WorkForms, Zenon DEF Worker, CallFails, Active

\* The node worker puts Services that failed back into the queue; they are cached.
\* Users create, edit and delete.
LEMMA OthersPlaced ==
  ASSUME KeepInv, PlacedInv, NodeWorker \/ User \/ \E N \in NodeChoices : ChangeNodes(N)
  PROVE  PlacedInv'
<1>0. /\ JobShape /\ UpdShape /\ state = [q \in Services |-> state[q]] /\ lbID = [q \in Services |-> lbID[q]]
      /\ ports = [q \in Services |-> ports[q]] /\ \A s \in Services : Placed(s)
  BY Zenon DEF KeepInv, Shapes, SpecInv, PlacedInv
<1>1. ASSUME NodeWorker PROVE PlacedInv'
  <2>1. UNCHANGED <<job, state, ports, lbID, status, cached>>
    BY <1>1, Zenon DEF NodeWorker, k8sVars
  <2>2. ASSUME NEW s \in Services, upd'[s].pc # "idle" PROVE upd[s].pc # "idle" \/ s \in cached
    <3>1. CASE SyncNodes
      BY <2>2, <3>1, Zenon DEF SyncNodes, UpdIdle
    <3>2. CASE SyncedNodes
      BY <2>2, <3>2, Zenon DEF SyncedNodes, UpdIdle
    <3>3. ASSUME NEW r \in Services, GetForUpdate(r) PROVE upd[s].pc # "idle"
      BY <1>0, <2>2, <3>3, Zenon DEF GetForUpdate, UpdShape
    <3>4. ASSUME NEW r \in Services, NEW k \in Keys, UpdatePool(r, k) PROVE upd[s].pc # "idle"
      BY <1>0, <2>2, <3>4, Zenon DEF UpdatePool, UpdShape
    <3>5. QED
      BY <1>1, <3>1, <3>2, <3>3, <3>4, Zenon DEF NodeWorker
  <2>3. ASSUME NEW s \in Services, s \in queue' PROVE s \in queue \/ upd[s].pc # "idle"
    BY <1>1, <2>3, Zenon DEF NodeWorker, SyncNodes, SyncedNodes, GetForUpdate, UpdatePool
  <2>4. ASSUME NEW s \in Services PROVE Placed(s)'
    BY <1>0, <2>1, <2>2, <2>3, Zenon DEF Placed, LBOf
  <2>5. QED
    BY <1>0, <2>1, <2>4, Zenon DEF PlacedInv
<1>2. ASSUME NEW s \in Services, NEW P, NEW l, CreateService(s, P, l) \/ EditPorts(s, P) \/ DeleteService(s)
      PROVE  PlacedInv'
  <2>1. UNCHANGED <<job, upd, status, cached>> /\ queue' = queue \cup {s}
    BY <1>2, Zenon DEF CreateService, EditPorts, DeleteService, updVars
  <2>2. ASSUME NEW r \in Services, r # s PROVE Placed(r)'
    <3>1. Aside(r)
      BY <1>0, <1>2, <2>1, <2>2, SMTT(20) DEF CreateService, EditPorts, DeleteService, Aside
    <3>2. QED
      BY <1>0, <3>1, AsideKept, Zenon
  <2>3. ASSUME CreateService(s, P, l) PROVE Placed(s)'
    <3>1. state[s] = "absent" /\ state'[s] = "present"
      BY <1>0, <2>3, Zenon DEF CreateService
    <3>2. s \notin cached /\ s \notin status /\ job[s].pc = "idle"
      BY <1>0, <3>1, Zenon DEF Placed
    <3>3. QED
      BY <2>1, <3>1, <3>2, Zenon DEF Placed, AfterFind
  <2>4. ASSUME EditPorts(s, P) PROVE Placed(s)'
    <3>1. state[s] = "present" /\ UNCHANGED <<state, lbID>>
      BY <2>4, Zenon DEF EditPorts
    <3>2. job[s].pc \notin AfterFind \cup {"find"}
      BY <1>0, <3>1, Zenon DEF Placed
    <3>3. QED
      BY <1>0, <2>1, <3>1, <3>2, Zenon DEF Placed, LBOf
  <2>5. ASSUME DeleteService(s) PROVE Placed(s)'
    <3>1. state[s] = "present" /\ state'[s] = (IF s \in cached THEN "deleting" ELSE "gone") /\ UNCHANGED <<ports, lbID>>
      BY <1>0, <2>5, Zenon DEF DeleteService
    <3>2. job[s].pc \notin AfterFind \cup {"find"}
      BY <1>0, <3>1, Zenon DEF Placed
    <3>3. QED
      BY <1>0, <2>1, <3>1, <3>2, Zenon DEF Placed, LBOf
  <2>6. Placed(s)'
    BY <1>2, <2>3, <2>4, <2>5, Zenon
  <2>7. state' = [q \in Services |-> state'[q]]
    BY <1>0, <1>2, Zenon DEF CreateService, EditPorts, DeleteService
  <2>8. QED
    BY <2>2, <2>6, <2>7, Zenon DEF PlacedInv
<1>3. ASSUME NEW N, ChangeNodes(N) PROVE PlacedInv'
  <2>1. UNCHANGED state /\ \A s \in Services : Aside(s)
    BY <1>3, Zenon DEF ChangeNodes, Aside, k8sVars, updVars
  <2>2. QED
    BY <1>0, <2>1, AsideKept, Zenon DEF PlacedInv
<1>4. QED
  BY <1>1, <1>2, <1>3, Zenon DEF User

\* Every step leaves the Services where they should be.
LEMMA NextPlaced == KeepInv /\ PlacedInv /\ [Next]_vars => PlacedInv'
<1> SUFFICES ASSUME KeepInv, PlacedInv, [Next]_vars PROVE PlacedInv'
  BY Zenon
<1>1. CASE UNCHANGED vars
  <2>1. UNCHANGED state /\ \A s \in Services : Aside(s)
    BY <1>1, Zenon DEF vars, Aside
  <2>2. QED
    BY <2>1, AsideKept, Zenon DEF PlacedInv
<1>2. QED
  BY <1>1, WorkerPlaced, OthersPlaced, Zenon DEF Next

\* At the start there are no Services.
LEMMA InitPlaced == Init => PlacedInv
<1> SUFFICES ASSUME Init PROVE PlacedInv
  OBVIOUS
<1>1. \A s \in Services : job[s].pc = "idle" /\ upd[s].pc = "idle"
  BY IdleFields, Zenon DEF Init, UpdIdle
<1>2. QED
  BY <1>1, Zenon DEF Init, PlacedInv, Placed, AfterFind

-----------------------------------------------------------------------------
(* EnsureLoadBalancer and the listeners of others *)

\* A worker's run of EnsureLoadBalancer for a Service without x-forwarded-for.
LEMMA EnsureStepKeepsOthers ==
  ASSUME KeepInv, PlacedInv, NEW s \in Services, s \notin http, Worker(s), job[s].pc \in EnsureSteps,
         NEW m \in LBs, NEW q \in Keys, lsn[m][q].tags \ {s} # {}
  PROVE  lsn'[m][q] = lsn[m][q]
<1> DEFINE l == job[s].lb
<1>0. /\ ListenerShape /\ UpInv /\ TagInv /\ Good(s) /\ Placed(s) /\ l \in LBs /\ lsn[m][q].by # None
      /\ SupportTags
  BY ZenonT(40) DEF KeepInv, Shapes, JobsInv, PlacedInv, EnsureSteps, Good, UpInv, TagInv, Bears
<1>1. ASSUME NEW k \in Keys, job[s].map[k].by # None, s \in job[s].map[k].tags, Same(l, k, job[s].map[k])
      PROVE  lsn[l][k].tags = {s}
  <2>1. k[1] = "TCP"
    BY <1>0, <1>1, ZenonT(40) DEF Good, Bears, Keys
  <2>2. lsn[l][k].by = s
    <3>1. Bears(k, job[s].map[k].by, job[s].map[k].tags)
      BY <1>0, <1>1, Zenon DEF Good
    <3>2. job[s].map[k].by = s
      BY <1>0, <1>1, <2>1, <3>1, Zenon DEF Bears
    <3>3. QED
      BY <1>1, <3>2, Zenon DEF Same
  <2>3. QED
    <3>1. Bears(k, lsn[l][k].by, lsn[l][k].tags) /\ lsn[l][k].by # None
      BY <1>0, <1>1, ListenerFacts, Zenon DEF Same, Up
    <3>2. QED
      BY <1>0, <2>1, <2>2, <3>1, Zenon DEF Bears
<1>2. ASSUME NEW k \in Keys, NEW by, NEW t, Puts(l, k, by, t), lsn[l][k].tags \subseteq {s}
      PROVE  lsn'[m][q] = lsn[m][q]
  BY <1>2, Zenon DEF Puts
<1>3. CASE UNCHANGED lsn
  BY <1>3, Zenon
<1>4. CASE GetLB(s)
  <2>1. CASE l \notin alive /\ lbID[s] = None /\ CreateLB(s)
    <3>1. l = s
      BY <1>0, <1>4, <2>1, Zenon DEF GetLB, Placed, LBOf
    <3>2. m # s
      BY <1>0, <2>1, <3>1, ListenerFacts, Zenon
    <3>3. QED
      BY <1>0, <2>1, <3>2, Zenon DEF CreateLB, ListenerShape
  <2>2. QED
    BY <1>3, <1>4, <2>1, Zenon DEF GetLB, Fail, lbVars
<1>5. ASSUME NEW k \in Keys, EnsureListener(s, k) PROVE lsn'[m][q] = lsn[m][q]
  <2>1. CASE CanCreate(l, k) /\ lsn' = [lsn EXCEPT ![l][k] = NewListener(s)]
    <3>1. lsn[l][k].tags = {}
      BY <1>0, <2>1, Zenon DEF CanCreate, Up, UpInv
    <3>2. \E by, t : Puts(l, k, by, t)
      BY <1>0, <2>1, PutListener, NewFields, Zenon
    <3>3. QED
      BY <1>2, <3>1, <3>2, Zenon
  <2>2. ~(Up(job[s].map[k]) /\ s \notin job[s].map[k].tags)
    BY <1>0, <1>5, Zenon DEF EnsureListener, Good, Up
  <2>3. QED
    BY <1>0, <1>3, <1>5, <2>1, <2>2, Zenon DEF EnsureListener, Fail, lbVars
<1>6. CASE EnsurePool(s)
  <2> DEFINE k == job[s].cur
  <2>1. /\ k \in Keys /\ job[s].map[k].by # None /\ s \in job[s].map[k].tags
    BY <1>0, <1>6, Zenon DEF EnsurePool, Good
  <2>2. CASE Same(l, k, job[s].map[k]) /\ lsn' = [lsn EXCEPT ![l][k].backend = s, ![l][k].members = job[s].nodes]
    BY <1>0, <1>1, <1>2, <2>1, <2>2, PutPool, Zenon
  <2>3. QED
    BY <1>3, <1>6, <2>2, Zenon DEF EnsurePool, Fail, lbVars
<1>7. CASE DeleteObsolete(s)
  <2>1. ASSUME NEW k \in job[s].todo, DeleteListener(s, k) PROVE lsn'[m][q] = lsn[m][q]
    <3>1. /\ k \in Keys /\ job[s].map[k].by # None /\ s \in job[s].map[k].tags
      BY <1>0, <1>7, <2>1, Zenon DEF DeleteObsolete, Good
    <3>2. IsListener(NoListener)
      BY NoListenerFields, ZenonT(40)
    <3>3. CASE Same(l, k, job[s].map[k]) /\ lsn' = [lsn EXCEPT ![l][k] = NoListener]
      BY <1>0, <1>1, <1>2, <3>1, <3>2, <3>3, PutListener
    <3>4. CASE lsn' = [lsn EXCEPT ![l][k] = lsn[l][k]]
      BY <1>0, <3>1, <3>4, Zenon DEF ListenerShape
    <3>5. QED
      BY <1>3, <2>1, <3>3, <3>4, Zenon DEF DeleteListener, Fail, lbVars
  <2>2. QED
    BY <1>3, <1>7, <2>1, Zenon DEF DeleteObsolete, lbVars
<1>8. CASE GetListeners(s) \/ TagLB(s) \/ Fail(s) \/ Start(s) \/ Forget(s)
  BY <1>3, <1>8, Zenon DEF GetListeners, TagLB, Fail, Start, Forget, lbVars
<1>9. job[s].pc \notin {"find", "owned", "unlist", "deleteLB", "untag"}
  BY Zenon DEF EnsureSteps
<1>10. QED
  BY <1>4, <1>5, <1>6, <1>7, <1>8, <1>9 DEF Worker, Work, CallFails, FindLB, ListOwned, DeleteOwned, DeleteLB, UntagLB

\* A job changes only when the worker that has it moves.
LEMMA JobMoves ==
  ASSUME KeepInv, PlacedInv, [Next]_vars, NEW s \in Services, job'[s] # job[s]
  PROVE  Worker(s)
<1>1. ASSUME NEW r \in Services, Worker(r) PROVE r = s
  BY <1>1, WorkerAside, ZenonT(40) DEF Aside
<1>2. UNCHANGED job \/ \E r \in Services : Worker(r)
  BY Zenon DEF Next, NodeWorker, User, CreateService, EditPorts, DeleteService, ChangeNodes, vars
<1>3. QED
  BY <1>1, <1>2, SMTT(20)

\* EnsureKeepsOthers for any Services, load balancers and number of workers:
\* ensureOctaviaListener, ensureOctaviaPool and deleteListeners change no listener
\* that bears the tag of another Service.
THEOREM EnsureLeavesOthersAlone == Spec => EnsureKeepsOthers
<1> DEFINE Inv == KeepInv /\ PlacedInv
<1>1. Init => Inv
  BY InitKeep, InitPlaced, Zenon
<1>2. Inv /\ [Next]_vars => Inv'
  BY NextKeep, NextPlaced, SMTT(20)
<1>3. ASSUME Inv, [Next]_vars
      PROVE  \A s \in Services \ http :
               job[s].pc \in EnsureSteps /\ job'[s] # job[s] =>
                 \A l \in LBs, k \in Keys : lsn[l][k].tags \ {s} # {} => lsn'[l][k] = lsn[l][k]
  BY <1>3, JobMoves, EnsureStepKeepsOthers, Zenon
<1> HIDE DEF Inv
<1>4. QED
  BY <1>1, <1>2, <1>3, PTL DEF Spec, EnsureKeepsOthers

-----------------------------------------------------------------------------
(* One worker *)

\* The configuration for which the sharing of load balancers is proved.
OneTaggedWorker == Workers = 1 /\ SupportTags /\ MaxSharedLB > 0

Alone == \A s, r \in Active : s = r

\* What the worker has read is still so: the tags, the check of their number, and
\* the list of the listeners to delete, which has all that bear the Service's tag.
Fresh(s) ==
  LET j == job[s] IN
  /\ j.pc \in AfterGet \cup AfterFind => j.lb \in alive /\ j.tags = tags[j.lb]
  /\ j.pc \in AfterGet => s \in j.tags \/ Cardinality(j.tags) + 1 <= MaxSharedLB
  /\ j.pc = "deleteLB" => j.tags \subseteq {s}
  /\ j.pc = "unlist" => \A k \in KeysOf(s, ports[s]) :
       s \in lsn[j.lb][k].tags => k \in j.todo /\ j.map[k].by = lsn[j.lb][k].by
  /\ j.pc = "untag" => \A k \in KeysOf(s, ports[s]) : s \notin lsn[j.lb][k].tags

\* A load balancer bears at most MaxSharedLB tags, and its own Service's.
CloudTags ==
  /\ tags = [l \in LBs |-> tags[l]]
  /\ \A l \in LBs : /\ tags[l] \subseteq Services /\ Cardinality(tags[l]) <= MaxSharedLB
                    /\ l \notin alive => tags[l] = {}
  /\ \A s \in Services : s \in alive /\ state[s] # "gone" => s \in tags[s]

\* A Service that has been given a load balancer is in its tags, and its tags are
\* on that load balancer and its listeners only.
Home(s) ==
  /\ Attached(s) => lbID[s] \in alive /\ s \in tags[lbID[s]]
  /\ \A l \in LBs : s \in tags[l] => l = LBOf(s) /\ s \in cached
  /\ \A l \in LBs, k \in Keys :
       s \in lsn[l][k].tags => l = LBOf(s) /\ (s \in cached \/ state[s] = "gone")
  /\ state[s] = "gone" => \A l \in LBs, k \in KeysOf(s, ports[s]) : s \notin lsn[l][k].tags

ShareInv == Alone /\ CloudTags /\ \A s \in Services : Fresh(s) /\ Home(s)

AloneInv == KeepInv /\ PlacedInv /\ ShareInv

\* The tags of r and its load balancer stay.
Spared(r) ==
  /\ Aside(r) /\ UNCHANGED http
  /\ \A l \in LBs : r \in tags'[l] <=> r \in tags[l]
  /\ \A l \in LBs : l \in alive /\ r \in tags[l] => l \in alive'
  /\ \A l \in LBs, k \in Keys : r \in lsn'[l][k].tags => r \in lsn[l][k].tags

\* The keys of a Service's ports.
LEMMA OwnKeys ==
  ASSUME KeepInv, NEW s \in Services
  PROVE  KeysOf(s, ports[s]) \subseteq Keys
  BY KeyFacts, Zenon DEF KeepInv, SpecInv

\* They change with its ports and its protocol only.
LEMMA OwnKeysKept ==
  ASSUME NEW s \in Services, ports'[s] = ports[s], UNCHANGED http
  PROVE  KeysOf(s, ports[s])' = KeysOf(s, ports[s])
  BY Zenon DEF KeysOf, Key

\* What spares r leaves it at home.
LEMMA HomeKept ==
  ASSUME KeepInv, NEW r \in Services, Home(r), Spared(r)
  PROVE  Home(r)'
<1>1. /\ state'[r] = state[r] /\ lbID'[r] = lbID[r] /\ ports'[r] = ports[r] /\ (r \in status)' = (r \in status)
      /\ (r \in cached)' = (r \in cached) /\ LBOf(r)' = LBOf(r)
  BY Zenon DEF Spared, Aside, LBOf
<1>2. KeysOf(r, ports[r])' = KeysOf(r, ports[r]) /\ KeysOf(r, ports[r]) \subseteq Keys
  <2>1. KeysOf(r, ports[r])' = KeysOf(r, ports[r])
    BY <1>1, OwnKeysKept, Zenon DEF Spared
  <2>2. KeysOf(r, ports[r]) \subseteq Keys
    BY OwnKeys, Zenon
  <2>3. QED
    BY <2>1, <2>2, Zenon
<1>3. Attached(r)' => lbID'[r] \in alive' /\ r \in tags'[lbID'[r]]
  <2>1. SUFFICES ASSUME Attached(r)' PROVE lbID[r] \in alive' /\ r \in tags'[lbID[r]]
    BY <1>1, Zenon
  <2>2. lbID[r] \in alive /\ r \in tags[lbID[r]] /\ lbID[r] \in LBs
    BY <1>1, <2>1, Zenon DEF Home, Attached, KeepInv, UpInv
  <2>3. QED
    BY <2>2, Zenon DEF Spared
<1>4. \A l \in LBs : r \in tags'[l] => l = LBOf(r) /\ r \in cached
  BY Zenon DEF Spared, Home
<1>5. \A l \in LBs, k \in Keys : r \in lsn'[l][k].tags => l = LBOf(r) /\ (r \in cached \/ state[r] = "gone")
  BY Zenon DEF Spared, Home
<1>6. state[r] = "gone" => \A l \in LBs, k \in KeysOf(r, ports[r]) : r \notin lsn'[l][k].tags
  BY <1>2, Zenon DEF Spared, Home
<1>7. QED
  BY <1>1, <1>2, <1>3, <1>4, <1>5, <1>6, Zenon DEF Home

\* A step of the run for s: everything else is idle, so only s has to be looked at.
LEMMA RunKept ==
  ASSUME KeepInv, PlacedInv, ShareInv, NEW s \in Services, job[s].pc # "idle",
         \A r \in Services \ {s} : Spared(r), Fresh(s)', Home(s)', CloudTags'
  PROVE  ShareInv'
<1>1. ASSUME NEW r \in Services, r # s PROVE job'[r].pc = "idle"
  BY <1>1, Zenon DEF ShareInv, Alone, Active, Spared, Aside
<1>2. Alone'
  BY <1>1, Zenon DEF Alone, Active
<1>3. ASSUME NEW r \in Services, r # s PROVE Fresh(r)' /\ Home(r)'
  <2>1. Fresh(r)'
    BY <1>1, <1>3, Zenon DEF Fresh, AfterGet, AfterFind
  <2>2. Home(r)'
    BY <1>3, HomeKept, Zenon DEF ShareInv
  <2>3. QED
    BY <2>1, <2>2, Zenon
<1>4. QED
  BY <1>2, <1>3, Zenon DEF ShareInv

\* A step that changes neither the load balancers nor their tags, and takes no
\* listener's tag away from another Service.
LEMMA TagsStay ==
  ASSUME KeepInv, PlacedInv, ShareInv, NEW s \in Services, Worker(s), UNCHANGED <<alive, tags, http>>,
         \A r \in Services \ {s}, l \in LBs, k \in Keys : r \in lsn'[l][k].tags => r \in lsn[l][k].tags
  PROVE  /\ \A r \in Services \ {s} : Spared(r)
         /\ state'[s] = state[s] \/ state'[s] = "gone" => CloudTags'
<1>1. \A r \in Services \ {s} : Aside(r)
  BY WorkerAside, Zenon
<1>2. \A r \in Services \ {s} : Spared(r)
  BY <1>1, Zenon DEF Spared
<1>3. ASSUME state'[s] = state[s] \/ state'[s] = "gone" PROVE CloudTags'
  BY <1>1, <1>3, SMTT(20) DEF CloudTags, Aside, ShareInv
<1>4. QED
  BY <1>2, <1>3, Zenon

\* A run that returns an error.
LEMMA FailShares ==
  ASSUME KeepInv, PlacedInv, ShareInv, NEW s \in Services, Worker(s), Fail(s), job[s].pc # "idle"
  PROVE  ShareInv'
<1>1. UNCHANGED <<alive, tags, http, lsn, state, ports, lbID, status, cached>>
  BY Zenon DEF Fail, lbVars, k8sVars
<1>2. (\A r \in Services \ {s} : Spared(r)) /\ CloudTags'
  BY <1>1, TagsStay, Zenon
<1>3. job'[s].pc = "idle"
  BY TurnEnded, Zenon DEF Fail, Turns, KeepInv, Shapes
<1>4. Fresh(s)'
  BY <1>3, Zenon DEF Fresh, AfterGet, AfterFind
<1>5. Home(s)'
  <2>1. KeysOf(s, ports[s])' = KeysOf(s, ports[s])
    BY <1>1, OwnKeysKept, Zenon
  <2>2. Home(s)
    BY Zenon DEF ShareInv
  <2>3. QED
    BY <1>1, <2>1, <2>2, Zenon DEF Home, Attached, LBOf
<1>6. QED
  BY <1>2, <1>4, <1>5, RunKept, Zenon

\* A step of a run that goes on and gives tags to no listener, or only the tag of
\* its own Service on its own load balancer.
LEMMA OnShares ==
  ASSUME KeepInv, PlacedInv, ShareInv, NEW s \in Services, Worker(s), Proceeds(s), UNCHANGED <<alive, tags>>,
         \A l \in LBs, k \in Keys : s \in lsn'[l][k].tags => s \in lsn[l][k].tags \/ l = job[s].lb,
         \A r \in Services \ {s}, l \in LBs, k \in Keys : r \in lsn'[l][k].tags => r \in lsn[l][k].tags,
         Fresh(s)'
  PROVE  ShareInv'
<1>1. UNCHANGED <<http, state, ports, lbID, status, cached>> /\ job[s].pc # "idle"
  BY Zenon DEF Proceeds, k8sVars
<1>2. (\A r \in Services \ {s} : Spared(r)) /\ CloudTags'
  BY <1>1, TagsStay, Zenon
<1>3. s \in cached /\ job[s].lb = LBOf(s) /\ state[s] # "gone" /\ Home(s) /\ LBOf(s)' = LBOf(s)
  BY <1>1, Zenon DEF PlacedInv, Placed, ShareInv, LBOf
<1>4. Home(s)'
  <2>1. Attached(s)' = Attached(s)
    BY <1>1, Zenon DEF Attached
  <2>2. \A l \in LBs, k \in Keys : s \in lsn'[l][k].tags => l = LBOf(s)
    BY <1>3, Zenon DEF Home
  <2>3. QED
    BY <1>1, <1>3, <2>1, <2>2, Zenon DEF Home
<1>5. QED
  BY <1>1, <1>2, <1>4, RunKept, Zenon

\* What one listener that is put does to the tags.
LEMMA PutTagsOnly ==
  ASSUME NEW s \in Services, NEW l \in LBs, NEW k \in Keys, NEW by, NEW t, Puts(l, k, by, t),
         t \subseteq {s} \/ t = lsn[l][k].tags
  PROVE  /\ \A m \in LBs, q \in Keys : s \in lsn'[m][q].tags => s \in lsn[m][q].tags \/ m = l
         /\ \A r \in Services \ {s}, m \in LBs, q \in Keys : r \in lsn'[m][q].tags => r \in lsn[m][q].tags
<1>1. ASSUME NEW m \in LBs, NEW q \in Keys, NEW r, r \in lsn'[m][q].tags, r # s \/ m # l
      PROVE  r \in lsn[m][q].tags
  <2>1. CASE m # l \/ q # k
    BY <1>1, <2>1, Zenon DEF Puts
  <2>2. CASE m = l /\ q = k
    BY <1>1, <2>2, Zenon DEF Puts
  <2>3. QED
    BY <2>1, <2>2, Zenon
<1>2. QED
  BY <1>1, Zenon

\* deleteListeners takes a listener away, unless it is another one by now.
LEMMA DeletedPut ==
  ASSUME ListenerShape, NEW s \in Services, NEW l \in LBs, NEW k \in Keys, NEW x,
         lsn' = [lsn EXCEPT ![l][k] = IF Same(l, k, x) THEN NoListener ELSE lsn[l][k]]
  PROVE  \/ Same(l, k, x) /\ Puts(l, k, None, {})
         \/ ~Same(l, k, x) /\ Puts(l, k, lsn[l][k].by, lsn[l][k].tags)
<1> DEFINE y == lsn[l][k]
<1>1. IsListener(NoListener) /\ NoListener.by = None /\ NoListener.tags = {} /\ IsListener(y)
  BY NoListenerFields, Zenon DEF ListenerShape
<1>2. CASE Same(l, k, x) /\ lsn' = [lsn EXCEPT ![l][k] = NoListener]
  <2>1. Puts(l, k, NoListener.by, NoListener.tags)
    BY <1>1, <1>2, PutListener, Zenon
  <2>2. QED
    BY <1>1, <1>2, <2>1, Zenon
<1>3. CASE ~Same(l, k, x) /\ lsn' = [lsn EXCEPT ![l][k] = y]
  <2> HIDE DEF y
  <2>1. Puts(l, k, y.by, y.tags)
    BY <1>1, <1>3, PutListener, Zenon
  <2>2. QED
    BY <1>3, <2>1, Zenon DEF y
<1>4. QED
  BY <1>2, <1>3, Zenon

\* EnsureLoadBalancer goes on with the tags it has read.
LEMMA EnsureFresh ==
  ASSUME KeepInv, PlacedInv, ShareInv, NEW s \in Services, Proceeds(s), UNCHANGED <<alive, tags>>,
         job[s].pc \in AfterGet, job'[s].pc \in AfterGet, job'[s].tags = job[s].tags
  PROVE  Fresh(s)'
<1>1. Fresh(s) /\ job'[s].lb = job[s].lb
  BY Zenon DEF ShareInv, Proceeds
<1>2. job'[s].pc \notin AfterFind
  BY Zenon DEF AfterGet, AfterFind
<1>3. QED
  BY <1>1, <1>2, Zenon DEF Fresh, AfterFind

\* GetListeners, EnsureListener, EnsurePool and DeleteObsolete.
LEMMA EnsureShares ==
  ASSUME KeepInv, PlacedInv, ShareInv, NEW s \in Services, Worker(s),
         \/ GetListeners(s) \/ EnsurePool(s) \/ DeleteObsolete(s)
         \/ \E k \in Keys : EnsureListener(s, k)
  PROVE  ShareInv'
<1> DEFINE l == job[s].lb
           j == job[s]
<1>0. JobShape /\ ListenerShape /\ Good(s) /\ l \in LBs /\ j.pc \in AfterGet /\ j.pc # "idle"
  BY Zenon DEF KeepInv, Shapes, JobsInv, Good, GetListeners, EnsurePool, DeleteObsolete, EnsureListener, AfterGet
<1>1. CASE Fail(s)
  BY <1>0, <1>1, FailShares, SMTT(20)
<1>2. ASSUME NEW p \in AfterGet, NEW m, NEW c, NEW d, Turns(s, p, j.tags, m, c, d),
             UNCHANGED <<alive, tags>>, UNCHANGED <<k8sVars, status, queue, cached>>,
             UNCHANGED lsn \/ \E k \in Keys : \E by, t : Puts(l, k, by, t) /\ (t \subseteq {s} \/ t = lsn[l][k].tags)
      PROVE  ShareInv'
  <2>1. Proceeds(s) /\ job'[s].pc = p /\ job'[s].tags = j.tags
    BY <1>0, <1>2, Zenon DEF Proceeds, Turns, AfterGet, AfterFind
  <2>2. Fresh(s)'
    BY <1>0, <1>2, <2>1, EnsureFresh, Zenon
  <2>3. /\ \A m_1 \in LBs, q \in Keys : s \in lsn'[m_1][q].tags => s \in lsn[m_1][q].tags \/ m_1 = l
        /\ \A r \in Services \ {s}, m_1 \in LBs, q \in Keys : r \in lsn'[m_1][q].tags => r \in lsn[m_1][q].tags
    BY <1>0, <1>2, PutTagsOnly, Zenon
  <2>4. QED
    BY <1>2, <2>1, <2>2, <2>3, OnShares, Zenon
<1>3. CASE GetListeners(s)
  <2>1. CASE Step(s, [j EXCEPT !.pc = "listener", !.map = lsn[l], !.todo = KeysOf(s, j.ports)]) /\ UNCHANGED lbVars
    <3>1. Turns(s, "listener", j.tags, lsn[l], j.cur, KeysOf(s, j.ports)) /\ UNCHANGED <<k8sVars, status, queue, cached>>
      BY <1>0, <2>1, TurnMap, Zenon DEF Step
    <3>2. QED
      BY <1>2, <2>1, <3>1, Zenon DEF AfterGet, lbVars
  <2>2. QED
    BY <1>1, <1>3, <2>1, Zenon DEF GetListeners
<1>4. ASSUME NEW k \in Keys, EnsureListener(s, k) PROVE ShareInv'
  <2> DEFINE next == [j EXCEPT !.pc = "pool", !.cur = k]
  <2>1. ASSUME Step(s, next)
        PROVE  Turns(s, "pool", j.tags, j.map, k, j.todo) /\ UNCHANGED <<k8sVars, status, queue, cached>>
    BY <1>0, <2>1, TurnCur, ZenonT(40) DEF Step
  <2>2. CASE /\ lsn' = [lsn EXCEPT ![l][k] = NewListener(s)]
             /\ Step(s, [next EXCEPT !.map[k] = NewListener(s)]) /\ UNCHANGED <<alive, tags>>
    <3>1. Turns(s, "pool", j.tags, [j.map EXCEPT ![k] = NewListener(s)], k, j.todo) /\ UNCHANGED <<k8sVars, status, queue, cached>>
      BY <1>0, <2>2, TurnMade, Zenon DEF Step
    <3>2. Puts(l, k, NewListener(s).by, NewListener(s).tags)
      BY <1>0, <2>2, PutListener, NewFields, Zenon
    <3>3. NewListener(s).tags \subseteq {s}
      BY NewFields, Zenon DEF MyTag
    <3>4. QED
      BY <1>2, <2>2, <3>1, <3>2, <3>3, Zenon DEF AfterGet
  <2>3. CASE lsn' = [lsn EXCEPT ![l][k].tags = {s}] /\ Step(s, next) /\ UNCHANGED <<alive, tags>>
    <3>1. Puts(l, k, lsn[l][k].by, {s})
      BY <1>0, <2>3, PutTags, Zenon
    <3>2. QED
      BY <1>2, <2>1, <2>3, <3>1, Zenon DEF AfterGet
  <2>4. CASE Step(s, next) /\ UNCHANGED lbVars
    BY <1>2, <2>1, <2>4, Zenon DEF AfterGet, lbVars
  <2>5. QED
    BY <1>1, <1>4, <2>2, <2>3, <2>4, Zenon DEF EnsureListener
<1>5. CASE EnsurePool(s)
  <2> DEFINE k == j.cur
             left == j.todo \ {k}
  <2>1. k \in Keys
    BY <1>0, <1>5, Zenon DEF Good, EnsurePool
  <2>2. CASE /\ lsn' = [lsn EXCEPT ![l][k].backend = s, ![l][k].members = j.nodes]
             /\ Step(s, IF left # {} THEN [j EXCEPT !.pc = "listener", !.todo = left]
                                     ELSE [j EXCEPT !.pc = "obsolete", !.todo = Obsolete(s)])
             /\ UNCHANGED <<alive, tags>>
    <3>1. Puts(l, k, lsn[l][k].by, lsn[l][k].tags)
      BY <1>0, <2>1, <2>2, PutPool, Zenon
    <3>2. /\ UNCHANGED <<k8sVars, status, queue, cached>>
          /\ \/ Turns(s, "listener", j.tags, j.map, k, left)
             \/ Turns(s, "obsolete", j.tags, j.map, k, Obsolete(s))
      BY <1>0, <2>2, TurnTodo, Zenon DEF Step
    <3>3. QED
      BY <1>2, <2>1, <2>2, <3>1, <3>2, Zenon DEF AfterGet
  <2>3. QED
    BY <1>1, <1>5, <2>2, Zenon DEF EnsurePool
<1>6. CASE DeleteObsolete(s)
  <2>1. ASSUME NEW k \in j.todo, DeleteListener(s, k) PROVE ShareInv'
    <3>1. k \in Keys
      BY <1>0, <2>1, Zenon DEF Good
    <3>2. CASE /\ lsn' = [lsn EXCEPT ![l][k] = IF Same(l, k, j.map[k]) THEN NoListener ELSE lsn[l][k]]
               /\ Step(s, [j EXCEPT !.todo = @ \ {k}]) /\ UNCHANGED <<alive, tags>>
      <4>1. Turns(s, j.pc, j.tags, j.map, j.cur, j.todo \ {k}) /\ UNCHANGED <<k8sVars, status, queue, cached>>
        BY <1>0, <3>2, TurnLess, Zenon DEF Step
      <4>2. \E by, t : Puts(l, k, by, t) /\ (t \subseteq {s} \/ t = lsn[l][k].tags)
        <5>1. \/ Puts(l, k, None, {})
              \/ Puts(l, k, lsn[l][k].by, lsn[l][k].tags)
          BY <1>0, <3>1, <3>2, DeletedPut, Zenon
        <5>2. QED
          BY <5>1
      <4>3. QED
        BY <1>0, <1>2, <3>1, <3>2, <4>1, <4>2, Zenon
    <3>3. QED
      BY <1>1, <2>1, <3>2, Zenon DEF DeleteListener
  <2>2. CASE Step(s, [j EXCEPT !.pc = "tag"]) /\ UNCHANGED lbVars
    <3>1. Turns(s, "tag", j.tags, j.map, j.cur, j.todo) /\ UNCHANGED <<k8sVars, status, queue, cached>>
      BY <1>0, <2>2, TurnPc, Zenon DEF Step
    <3>2. QED
      BY <1>2, <2>2, <3>1, Zenon DEF AfterGet, lbVars
  <2>3. QED
    BY <1>6, <2>1, <2>2, Zenon DEF DeleteObsolete
<1>7. QED
  BY <1>3, <1>4, <1>5, <1>6, Zenon

\* The tags change on one load balancer, of the Services other than s for none.
Retags(s, l, t) ==
  /\ tags' = [tags EXCEPT ![l] = t] /\ t \subseteq Services /\ Cardinality(t) <= MaxSharedLB
  /\ \A r \in Services \ {s} : (r \in t <=> r \in tags[l]) /\ state'[r] = state[r]
  /\ \/ alive' = alive /\ l \in alive
     \/ alive' = alive \cup {l} /\ l = s
     \/ alive' = alive \ {l} /\ t = {}
  /\ IF l = s THEN s \in t \/ state'[s] = "gone" \/ s \notin alive'
              ELSE state'[s] = state[s] \/ state'[s] = "gone"

\* Such a change leaves the other Services their tags.
LEMMA TagsPut ==
  ASSUME CloudTags, NEW s \in Services, NEW l \in LBs, NEW t, Retags(s, l, t)
  PROVE  /\ CloudTags' /\ tags'[l] = t /\ \A m \in LBs \ {l} : tags'[m] = tags[m]
         /\ \A r \in Services \ {s}, m \in LBs : r \in tags'[m] <=> r \in tags[m]
         /\ \A r \in Services \ {s}, m \in LBs : m \in alive /\ r \in tags[m] => m \in alive'
<1>1. tags'[l] = t /\ (\A m \in LBs \ {l} : tags'[m] = tags[m]) /\ tags' = [m \in LBs |-> tags'[m]]
  BY Zenon DEF CloudTags, Retags
<1>2. \A m \in LBs : /\ tags'[m] \subseteq Services /\ Cardinality(tags'[m]) <= MaxSharedLB
                     /\ m \notin alive' => tags'[m] = {}
  BY <1>1 DEF CloudTags, Retags
<1>3. ASSUME NEW r \in Services, r \in alive', state'[r] # "gone" PROVE r \in tags'[r]
  <2>1. CASE r = l
    BY <1>1, <1>3, <2>1, Zenon DEF CloudTags, Retags
  <2>2. CASE r # l
    BY <1>1, <1>3, <2>2 DEF CloudTags, Retags, LBs
  <2>3. QED
    BY <2>1, <2>2, Zenon
<1>4. CloudTags'
  BY <1>1, <1>2, <1>3, Zenon DEF CloudTags
<1>5. QED
  BY <1>1, <1>4, Zenon DEF Retags

\* The end of a deletion: no tag of the Service is left.
LEMMA GoneShares ==
  ASSUME KeepInv, PlacedInv, ShareInv, NEW s \in Services, job[s].pc # "idle", Gone(s),
         \A r \in Services \ {s} : Spared(r), CloudTags',
         \A m \in LBs : s \notin tags'[m],
         \A m \in LBs, k \in Keys : s \in lsn'[m][k].tags => s \in lsn[m][k].tags,
         \A k \in KeysOf(s, ports[s]) : s \notin lsn'[job[s].lb][k].tags
  PROVE  ShareInv'
<1>1. /\ Home(s) /\ job[s].lb = LBOf(s) /\ KeysOf(s, ports[s]) \subseteq Keys
      /\ JobShape /\ state = [q \in Services |-> state[q]]
  <2>1. KeysOf(s, ports[s]) \subseteq Keys
    BY OwnKeys, Zenon
  <2>2. QED
    BY <2>1, Zenon DEF PlacedInv, Placed, ShareInv, KeepInv, Shapes
<1>2. /\ state'[s] = "gone" /\ s \notin status' /\ s \notin cached' /\ UNCHANGED <<ports, http, lbID>>
      /\ job'[s].pc = "idle"
  <2>1. job'[s].pc = "idle"
    BY <1>1, TurnGone, Zenon DEF Gone, Starts
  <2>2. QED
    BY <1>1, <2>1, Zenon DEF Gone
<1>3. KeysOf(s, ports[s])' = KeysOf(s, ports[s]) /\ LBOf(s)' = LBOf(s)
  BY <1>2, OwnKeysKept, Zenon DEF LBOf
<1>4. \A m \in LBs, k \in Keys : s \in lsn'[m][k].tags => m = LBOf(s)
  BY <1>1, Zenon DEF Home
<1>5. Home(s)'
  BY <1>1, <1>2, <1>3, <1>4 DEF Home, Attached
<1>6. Fresh(s)'
  BY <1>2, Zenon DEF Fresh, AfterGet, AfterFind
<1>7. QED
  BY <1>5, <1>6, RunKept, Zenon

\* Without a load balancer there are no tags to take away.
LEMMA FindShares ==
  ASSUME KeepInv, PlacedInv, ShareInv, NEW s \in Services, Worker(s), FindLB(s)
  PROVE  ShareInv'
<1> DEFINE l == job[s].lb
           j == job[s]
<1>0. JobShape /\ l \in LBs /\ j.pc = "find" /\ Home(s) /\ CloudTags /\ l = LBOf(s) /\ UNCHANGED <<alive, tags, lsn>>
  BY Zenon DEF KeepInv, Shapes, JobsInv, Good, FindLB, PlacedInv, Placed, ShareInv, lbVars
<1>1. CASE l \notin alive /\ Gone(s)
  <2>1. \A m \in LBs : s \notin tags[m]
    BY <1>0, <1>1 DEF CloudTags, Home
  <2>2. \A k \in Keys : s \notin lsn[l][k].tags
    BY <1>0, <1>1, Zenon DEF KeepInv, UpInv
  <2>3. KeysOf(s, ports[s]) \subseteq Keys
    BY OwnKeys, Zenon
  <2>4. UNCHANGED http /\ state'[s] = "gone"
    BY <1>1, Zenon DEF Gone, PlacedInv
  <2>5. (\A r \in Services \ {s} : Spared(r)) /\ CloudTags'
    BY <1>0, <2>4, TagsStay, Zenon
  <2>6. QED
    BY <1>0, <1>1, <2>1, <2>2, <2>3, <2>5, GoneShares, Zenon
<1>2. CASE l \in alive /\ Step(s, [j EXCEPT !.pc = "owned", !.tags = tags[l]])
  <2>1. Turns(s, "owned", tags[l], j.map, j.cur, j.todo) /\ UNCHANGED <<k8sVars, status, queue, cached>>
    BY <1>0, <1>2, TurnTags, Zenon DEF Step
  <2>2. Fresh(s)'
    BY <1>0, <1>2, <2>1, Zenon DEF Fresh, Turns, AfterGet, AfterFind
  <2>3. Proceeds(s)
    BY <1>0, <2>1, Zenon DEF Proceeds, Turns, AfterFind
  <2>4. QED
    BY <1>0, <2>2, <2>3, OnShares, Zenon
<1>3. QED
  BY <1>1, <1>2, Zenon DEF FindLB

\* The listeners to delete are all that bear the tag of the Service on its ports.
LEMMA OwnedShares ==
  ASSUME OneTaggedWorker, KeepInv, PlacedInv, ShareInv, NEW s \in Services, Worker(s), ListOwned(s)
  PROVE  ShareInv'
<1> DEFINE l == job[s].lb
           j == job[s]
           mine == {k \in KeysOf(s, j.ports) : s \in lsn[l][k].tags}
           all == {k \in Keys : Up(lsn[l][k])}
<1>0. /\ JobShape /\ l \in LBs /\ j.pc = "owned" /\ Fresh(s) /\ UNCHANGED <<alive, tags, lsn>> /\ j.ports = ports[s]
      /\ UNCHANGED <<k8sVars, status, queue, cached>>
  BY Zenon DEF KeepInv, Shapes, JobsInv, Good, ListOwned, PlacedInv, Placed, ShareInv, lbVars, AfterFind, Step
<1>1. l \in alive /\ j.tags = tags[l] /\ KeysOf(s, ports[s])' = KeysOf(s, ports[s]) /\ KeysOf(s, ports[s]) \subseteq Keys
  <2>1. KeysOf(s, ports[s]) \subseteq Keys
    BY OwnKeys, ZenonT(40)
  <2>2. KeysOf(s, ports[s])' = KeysOf(s, ports[s])
    <3>1. ports' = ports /\ http' = http
      BY <1>0, Zenon DEF k8sVars
    <3>2. QED
      BY <3>1, OwnKeysKept, Zenon
  <2>3. QED
    BY <1>0, <2>1, <2>2, Zenon DEF Fresh, AfterFind
<1>2. CASE NeedDelete(s) /\ Step(s, [j EXCEPT !.pc = "deleteLB"])
  <2>1. Turns(s, "deleteLB", j.tags, j.map, j.cur, j.todo)
    BY <1>0, <1>2, TurnPc, Zenon DEF Step
  <2>2. j.tags \subseteq {s}
    BY <1>2, SMTT(20) DEF NeedDelete, OneTaggedWorker
  <2>3. Fresh(s)' /\ Proceeds(s)
    BY <1>0, <1>1, <2>1, <2>2, ZenonT(40) DEF Fresh, Proceeds, Turns, AfterGet, AfterFind
  <2>4. QED
    BY <1>0, <2>3, OnShares, Zenon
<1>3. ASSUME NEW d, d = mine \/ d = all, Step(s, [j EXCEPT !.pc = "unlist", !.map = lsn[l], !.todo = d])
      PROVE  ShareInv'
  <2>1. Turns(s, "unlist", j.tags, lsn[l], j.cur, d)
    BY <1>0, <1>3, TurnMap, Zenon DEF Step
  <2>2. \A k \in KeysOf(s, ports[s]) : s \in lsn[l][k].tags => k \in d
    BY <1>0, <1>1, <1>3, SMTT(20) DEF KeepInv, UpInv, Up
  <2>3. Fresh(s)'
    BY <1>0, <1>1, <2>1, <2>2, Zenon DEF Fresh, Turns, AfterGet, AfterFind
  <2>4. Proceeds(s)
    BY <1>0, <2>1, Zenon DEF Proceeds, Turns, AfterFind
  <2>5. QED
    BY <1>0, <2>3, <2>4, OnShares, Zenon
<1>4. QED
  BY <1>2, <1>3, Zenon DEF ListOwned

\* deleteListeners deletes what the list has, and nothing bears the tag in between.
LEMMA UnlistShares ==
  ASSUME OneTaggedWorker, KeepInv, PlacedInv, ShareInv, NEW s \in Services, Worker(s), DeleteOwned(s)
  PROVE  ShareInv'
<1> DEFINE l == job[s].lb
           j == job[s]
           K == KeysOf(s, ports[s])
<1>0. /\ JobShape /\ ListenerShape /\ l \in LBs /\ j.pc = "unlist" /\ Fresh(s) /\ K \subseteq Keys /\ j.todo \subseteq Keys
      /\ l \in alive /\ j.tags = tags[l]
      /\ \A k \in K : s \in lsn[l][k].tags => k \in j.todo /\ j.map[k].by = lsn[l][k].by
  <2>1. K \subseteq Keys
    BY OwnKeys, Zenon
  <2>2. JobShape /\ ListenerShape /\ l \in LBs /\ j.pc = "unlist" /\ Fresh(s) /\ j.todo \subseteq Keys
    BY ZenonT(40) DEF KeepInv, Shapes, JobsInv, Good, DeleteOwned, ShareInv
  <2>3. QED
    BY <2>1, <2>2, Zenon DEF Fresh, AfterFind
<1>1. ASSUME NEW p \in {"unlist", "deleteLB", "untag"}, NEW d, Turns(s, p, j.tags, j.map, j.cur, d),
             UNCHANGED <<k8sVars, status, queue, cached, alive, tags>>,
             \A m \in LBs, k \in Keys, r \in Services : r \in lsn'[m][k].tags => r \in lsn[m][k].tags,
             p = "unlist" => \A k \in K : s \in lsn'[l][k].tags => k \in d /\ j.map[k].by = lsn'[l][k].by,
             p = "untag" => \A k \in K : s \notin lsn'[l][k].tags,
             p = "deleteLB" => j.tags \subseteq {s}
      PROVE  ShareInv'
  <2>1. Proceeds(s)
    BY <1>0, <1>1, ZenonT(40) DEF Proceeds, Turns, AfterFind
  <2>2. K' = K
    BY <1>1, OwnKeysKept, ZenonT(40) DEF k8sVars
  <2>3. /\ job'[s].pc = p /\ job'[s].lb = l /\ job'[s].tags = j.tags /\ job'[s].map = j.map /\ job'[s].todo = d
        /\ UNCHANGED <<alive, tags>>
    BY <1>1, SMTT(20) DEF Turns
  <2>4. Fresh(s)'
    BY <1>0, <1>1, <2>2, <2>3, Zenon DEF Fresh, AfterGet, AfterFind
  <2>5. QED
    <3>1. alive' = alive /\ tags' = tags
      BY <2>3, Zenon
    <3>2. /\ \A m \in LBs, k \in Keys : s \in lsn'[m][k].tags => s \in lsn[m][k].tags \/ m = job[s].lb
          /\ \A r \in Services \ {s}, m \in LBs, k \in Keys : r \in lsn'[m][k].tags => r \in lsn[m][k].tags
      BY <1>1, Zenon
    <3>3. QED
      BY <2>1, <2>4, <3>1, <3>2, OnShares, Zenon
<1>2. ASSUME NEW k \in j.todo, DeleteListener(s, k) PROVE ShareInv'
  <2>1. k \in Keys
    BY <1>0, <1>2, SMTT(20)
  <2>2. CASE /\ lsn' = [lsn EXCEPT ![l][k] = IF Same(l, k, j.map[k]) THEN NoListener ELSE lsn[l][k]]
             /\ Step(s, [j EXCEPT !.todo = @ \ {k}]) /\ UNCHANGED <<alive, tags>>
    <3>1. Turns(s, "unlist", j.tags, j.map, j.cur, j.todo \ {k}) /\ UNCHANGED <<k8sVars, status, queue, cached>>
      BY <1>0, <2>2, TurnLess, Zenon DEF Step
    <3>2. \/ Same(l, k, j.map[k]) /\ Puts(l, k, None, {})
          \/ ~Same(l, k, j.map[k]) /\ Puts(l, k, lsn[l][k].by, lsn[l][k].tags)
      BY <1>0, <2>1, <2>2, DeletedPut, ZenonT(40)
    <3>3. \A m \in LBs, q \in Keys, r \in Services : r \in lsn'[m][q].tags => r \in lsn[m][q].tags
      BY <3>2, Zenon DEF Puts
    <3>4. ASSUME NEW q \in K, s \in lsn'[l][q].tags PROVE q \in j.todo \ {k} /\ j.map[q].by = lsn'[l][q].by
      <4>1. CASE q = k
        <5>1. ~Same(l, k, j.map[k]) /\ s \in lsn[l][k].tags
          BY <3>2, <3>4, <4>1, SMTT(20) DEF Puts
        <5>2. lsn[l][k].by # None /\ j.map[k].by = lsn[l][k].by
          BY <1>0, <2>1, <3>4, <4>1, <5>1, SMTT(20) DEF KeepInv, UpInv
        <5>3. QED
          BY <5>1, <5>2 DEF Same, Up
      <4>2. CASE q # k
        <5>1. lsn'[l][q] = lsn[l][q]
          BY <1>0, <3>2, <4>2, Zenon DEF Puts
        <5>2. QED
          BY <1>0, <3>4, <4>2, <5>1, SMTT(20)
      <4>3. QED
        BY <4>1, <4>2, Zenon
    <3>5. QED
      BY <1>1, <2>2, <3>1, <3>3, <3>4, Zenon
  <2>3. QED
    BY <1>0, <1>2, <2>2, FailShares, Zenon DEF DeleteListener
<1>3. CASE j.todo = {} /\ UNCHANGED lbVars
           /\ Step(s, [j EXCEPT !.pc = IF NeedDelete(s) THEN "deleteLB" ELSE "untag"])
  <2>1. ASSUME NEW p, p = IF NeedDelete(s) THEN "deleteLB" ELSE "untag", Step(s, [j EXCEPT !.pc = p]) PROVE ShareInv'
    <3>1. Turns(s, p, j.tags, j.map, j.cur, j.todo) /\ UNCHANGED <<k8sVars, status, queue, cached>>
      BY <1>0, <2>1, TurnPc, Zenon DEF Step
    <3>2. p \in {"deleteLB", "untag"} /\ (p = "deleteLB" => j.tags \subseteq {s})
      BY <2>1, Zenon DEF NeedDelete, OneTaggedWorker
    <3>3. QED
      BY <1>0, <1>1, <1>3, <3>1, <3>2, Zenon DEF lbVars
  <2>2. QED
    BY <1>3, <2>1, Zenon
<1>4. QED
  BY <1>2, <1>3, ZenonT(40) DEF DeleteOwned

\* What leaves the runs, the load balancers and their tags as they are.
LEMMA SameShares ==
  ASSUME ShareInv, UNCHANGED <<job, state, ports, http, lbID, status, cached, alive, tags>>,
         \A l \in LBs, k \in Keys : lsn'[l][k].by = lsn[l][k].by /\ lsn'[l][k].tags = lsn[l][k].tags,
         KeepInv
  PROVE  ShareInv'
<1>1. Alone' /\ CloudTags'
  BY Zenon DEF ShareInv, Alone, Active, CloudTags
<1>2. ASSUME NEW s \in Services PROVE Fresh(s)' /\ Home(s)'
  <2>1. Fresh(s) /\ Home(s) /\ LBOf(s)' = LBOf(s) /\ Attached(s)' = Attached(s)
    BY Zenon DEF ShareInv, LBOf, Attached
  <2>2. KeysOf(s, ports[s])' = KeysOf(s, ports[s])
    BY OwnKeysKept, Zenon
  <2>3. KeysOf(s, ports[s]) \subseteq Keys
    BY OwnKeys, Zenon
  <2>4. job[s].pc # "idle" => job[s].lb \in LBs
    BY ZenonT(40) DEF KeepInv, JobsInv, Good
  <2>5. Home(s)'
    BY <2>1, <2>2, <2>3, SMTT(20) DEF Home
  <2>6. Fresh(s)'
    BY <2>1, <2>2, <2>3, <2>4, Zenon DEF Fresh, AfterGet, AfterFind
  <2>7. QED
    BY <2>5, <2>6, Zenon
<1>3. QED
  BY <1>1, <1>2, Zenon DEF ShareInv

\* The node worker changes pools only.
LEMMA NodeShares ==
  ASSUME KeepInv, ShareInv, NodeWorker
  PROVE  ShareInv'
<1>1. UNCHANGED <<job, state, ports, http, lbID, status, cached, alive, tags>>
  BY Zenon DEF NodeWorker, SyncNodes, SyncedNodes, GetForUpdate, UpdatePool, k8sVars, lbVars
<1>2. ASSUME NEW s \in Services, NEW k \in Keys, UpdatePool(s, k), ~UNCHANGED lsn
      PROVE  \A m \in LBs, q \in Keys : lsn'[m][q].by = lsn[m][q].by /\ lsn'[m][q].tags = lsn[m][q].tags
  <2> DEFINE l == upd[s].lb
  <2>1. l \in LBs /\ ListenerShape
    BY <1>2, Zenon DEF KeepInv, Shapes, JobsInv, UpdGood, UpdatePool
  <2>2. lsn' = [lsn EXCEPT ![l][k].backend = s, ![l][k].members = target]
    BY <1>2, Zenon DEF UpdatePool
  <2>3. Puts(l, k, lsn[l][k].by, lsn[l][k].tags)
    BY <1>2, <2>1, <2>2, PutPool, Zenon
  <2>4. QED
    BY <2>3, Zenon DEF Puts
<1>3. \A m \in LBs, q \in Keys : lsn'[m][q].by = lsn[m][q].by /\ lsn'[m][q].tags = lsn[m][q].tags
  <2>1. UNCHANGED lsn \/ \E s \in Services : \E k \in Keys : UpdatePool(s, k)
    BY Zenon DEF NodeWorker, SyncNodes, SyncedNodes, GetForUpdate, lbVars
  <2>2. QED
    BY <1>2, <2>1, Zenon
<1>4. QED
  BY <1>1, <1>3, SameShares, Zenon

\* Users create, edit and delete Services.
LEMMA UserShares ==
  ASSUME KeepInv, PlacedInv, ShareInv, User \/ \E N \in NodeChoices : ChangeNodes(N)
  PROVE  ShareInv'
<1>1. ASSUME NEW N, ChangeNodes(N) PROVE ShareInv'
  <2>1. UNCHANGED <<job, state, ports, http, lbID, status, cached, alive, tags, lsn>>
    BY <1>1, Zenon DEF ChangeNodes, k8sVars, lbVars
  <2>2. QED
    BY <2>1, SameShares, Zenon
<1>2. ASSUME NEW s \in Services, NEW P, NEW l, CreateService(s, P, l) \/ EditPorts(s, P) \/ DeleteService(s)
      PROVE  ShareInv'
  <2>0. /\ state = [q \in Services |-> state[q]] /\ lbID = [q \in Services |-> lbID[q]] /\ ports = [q \in Services |-> ports[q]]
        /\ Placed(s) /\ Home(s) /\ Fresh(s)
    BY Zenon DEF KeepInv, SpecInv, PlacedInv, ShareInv
  <2>1. UNCHANGED <<job, upd, http, status, cached, alive, tags, lsn>>
    BY <1>2, Zenon DEF CreateService, EditPorts, DeleteService, updVars, lbVars
  <2>2. \A r \in Services \ {s} : /\ Spared(r)
                                  /\ state'[r] = state[r] /\ ports'[r] = ports[r] /\ lbID'[r] = lbID[r]
    BY <1>2, <2>0, <2>1 DEF CreateService, EditPorts, DeleteService, Spared, Aside
  <2>3. \A r \in Services \ {s} : Home(r)'
    BY <2>2, HomeKept, SMTT(20) DEF ShareInv
  <2>4. ASSUME NEW r \in Services \ {s} PROVE Fresh(r)'
    <3>1. KeysOf(r, ports[r])' = KeysOf(r, ports[r])
      BY <2>1, <2>2, OwnKeysKept, Zenon
    <3>2. Fresh(r)
      BY Zenon DEF ShareInv
    <3>3. QED
      BY <2>1, <3>1, <3>2, Zenon DEF Fresh
  <2>5. state[s] \in {"absent", "present"} /\ (state[s] # "present" => s \notin cached)
    BY <1>2, <2>0, Zenon DEF CreateService, EditPorts, DeleteService, Placed
  <2>6. job[s].pc \notin AfterFind
    BY <2>0, <2>5 DEF Placed
  <2>7. Fresh(s)'
    BY <2>0, <2>1, <2>6, SMTT(20) DEF Fresh, AfterFind
  <2>8. CASE CreateService(s, P, l)
    <3>1. state[s] = "absent" /\ state'[s] = "present" /\ s \notin cached
      BY <2>0, <2>5, <2>8, Zenon DEF CreateService
    <3>2. (\A m \in LBs : s \notin tags[m]) /\ (\A m \in LBs, k \in Keys : s \notin lsn[m][k].tags) /\ s \notin status
      BY <2>0, <3>1, Zenon DEF Home, Placed
    <3>3. s \notin alive
      BY <3>1, <3>2, Zenon DEF ShareInv, CloudTags, LBs
    <3>4. CloudTags'
      BY <2>1, <2>2, <3>3, Zenon DEF ShareInv, CloudTags
    <3>5. Home(s)'
      BY <2>1, <3>1, <3>2 DEF Home, Attached
    <3>6. QED
      BY <2>1, <2>3, <2>4, <2>7, <3>4, <3>5, Zenon DEF ShareInv, Alone, Active
  <2>9. CASE EditPorts(s, P) \/ DeleteService(s)
    <3>1. UNCHANGED lbID /\ state[s] = "present" /\ (state'[s] = "gone" => s \notin cached) /\ LBOf(s)' = LBOf(s)
      BY <2>0, <2>9, Zenon DEF EditPorts, DeleteService, LBOf
    <3>2. CloudTags'
      BY <2>1, <2>2, <3>1, Zenon DEF ShareInv, CloudTags
    <3>3. s \notin cached => \A m \in LBs, k \in Keys : s \notin lsn[m][k].tags
      BY <2>0, <3>1, Zenon DEF Home
    <3>4. state'[s] = "gone" => KeysOf(s, ports[s])' \subseteq Keys
      <4>1. state'[s] = "gone" => UNCHANGED <<ports, http>>
        BY <2>0, <2>1, <2>9, Zenon DEF EditPorts, DeleteService
      <4>2. KeysOf(s, ports[s]) \subseteq Keys
        BY OwnKeys, Zenon
      <4>3. QED
        BY <4>1, <4>2, OwnKeysKept, Zenon
    <3>5. Home(s)'
      BY <2>0, <2>1, <3>1, <3>3, <3>4, Zenon DEF Home, Attached
    <3>6. QED
      BY <2>1, <2>3, <2>4, <2>7, <3>2, <3>5 DEF ShareInv, Alone, Active
  <2>10. QED
    BY <1>2, <2>8, <2>9, Zenon
<1>3. QED
  BY <1>1, <1>2, Zenon DEF User

-----------------------------------------------------------------------------
(* Steps that change the tags *)

INSTANCE FiniteSetTheorems

\* No tags are within the bound.
LEMMA NoTags == Cardinality({}) <= MaxSharedLB
  BY FS_EmptySet, ConstantsAssumption

\* What GetLB reads is at most what may share the load balancer.
LEMMA GetShares ==
  ASSUME OneTaggedWorker, KeepInv, PlacedInv, ShareInv, NEW s \in Services, Worker(s), GetLB(s)
  PROVE  ShareInv'
<1> DEFINE l == job[s].lb
           j == job[s]
<1>0. JobShape /\ ListenerShape /\ l \in LBs /\ j.pc = "get" /\ Placed(s) /\ Home(s) /\ CloudTags
      /\ s \in cached /\ l = LBOf(s) /\ state[s] # "gone"
  BY Zenon DEF KeepInv, Shapes, JobsInv, Good, GetLB, PlacedInv, Placed, ShareInv
<1>1. CASE l \notin alive /\ lbID[s] = None /\ CreateLB(s)
  <2>1. /\ l = s /\ tags[s] = {} /\ alive' = alive \cup {s} /\ tags' = [tags EXCEPT ![s] = {s}]
        /\ UNCHANGED <<state, ports, http, lbID, status, cached>>
    BY <1>0, <1>1, Zenon DEF LBOf, CloudTags, CreateLB, Step, k8sVars, MyTag, OneTaggedWorker
  <2>2. /\ \A m \in LBs \ {s} : lsn'[m] = lsn[m]
        /\ \A k \in Keys : lsn'[s][k].tags \subseteq {s}
    BY <1>0, <1>1, CreatedLB, Zenon DEF MyTag
  <2>3. Cardinality({s}) <= MaxSharedLB
    <3>1. Cardinality({s}) = 1
      BY FS_Singleton, Zenon
    <3>2. QED
      BY <3>1, ConstantsAssumption DEF OneTaggedWorker
  <2>4. /\ CloudTags' /\ tags'[s] = {s} /\ \A m \in LBs \ {s} : tags'[m] = tags[m]
        /\ \A r \in Services \ {s}, m \in LBs : r \in tags'[m] <=> r \in tags[m]
    <3>1. Retags(s, s, {s})
      BY <2>1, <2>3 DEF Retags
    <3>2. QED
      BY <1>0, <2>1, <3>1, TagsPut
  <2>5. \A r \in Services \ {s} : Spared(r)
    BY <2>1, <2>2, <2>4, WorkerAside DEF Spared
  <2>6. job'[s].pc = "tag" /\ job'[s].tags = {s} /\ job'[s].lb = s
    <3>1. Turns(s, "tag", MyTag(s), j.map, j.cur, j.todo)
      BY <1>0, <1>1, TurnTags, Zenon DEF CreateLB, Step
    <3>2. QED
      BY <2>1, <3>1 DEF Turns, MyTag, OneTaggedWorker
  <2>7. Fresh(s)'
    BY <2>1, <2>4, <2>6, SMTT(20) DEF Fresh, AfterGet, AfterFind
  <2>8. Home(s)'
    <3>1. LBOf(s)' = s /\ s \in cached' /\ lbID'[s] = None /\ state'[s] # "gone"
      BY <1>0, <1>1, <2>1 DEF LBOf
    <3>2. \A m \in LBs \ {s} : /\ s \in tags[m] => m = s
                              /\ \A k \in Keys : s \in lsn[m][k].tags => m = s
      BY <1>0, <2>1, Zenon DEF Home
    <3>3. ~Attached(s)'
      BY <1>0, <1>1, <2>1, <3>1 DEF Home, Attached, CloudTags, Placed
    <3>4. QED
      BY <2>1, <2>2, <2>4, <3>1, <3>2, <3>3 DEF Home
  <2>9. QED
    BY <1>0, <2>4, <2>5, <2>7, <2>8, RunKept
<1>2. CASE l \in alive /\ MayAttach(s, l) /\ Step(s, [j EXCEPT !.pc = "list", !.tags = tags[l]]) /\ UNCHANGED lbVars
  <2>1. Turns(s, "list", tags[l], j.map, j.cur, j.todo) /\ UNCHANGED <<k8sVars, status, queue, cached, alive, tags, lsn>>
    BY <1>0, <1>2, TurnTags, Zenon DEF Step, lbVars
  <2>2. s \in tags[l] \/ Cardinality(tags[l]) + 1 <= MaxSharedLB
    BY <1>0, <1>2 DEF MayAttach, CloudTags
  <2>3. Fresh(s)'
    BY <1>2, <2>1, <2>2, SMTT(20) DEF Fresh, Turns, AfterGet, AfterFind
  <2>4. Proceeds(s)
    BY <1>0, <2>1, ZenonT(40) DEF Proceeds, Turns, AfterFind
  <2>5. QED
    BY <2>1, <2>3, <2>4, OnShares, Zenon
<1>3. QED
  BY <1>0, <1>1, <1>2, FailShares, Zenon DEF GetLB

\* updateLoadBalancerTags: the tags written are those of now, with the Service's own.
LEMMA TagShares ==
  ASSUME OneTaggedWorker, KeepInv, PlacedInv, ShareInv, NEW s \in Services, Worker(s), TagLB(s)
  PROVE  ShareInv'
<1> DEFINE l == job[s].lb
           j == job[s]
<1>0. JobShape /\ l \in LBs /\ j.pc = "tag" /\ Placed(s) /\ Home(s) /\ CloudTags /\ Fresh(s)
      /\ s \in cached /\ l = LBOf(s) /\ lbID = [r \in Services |-> lbID[r]]
  BY Zenon DEF KeepInv, Shapes, SpecInv, JobsInv, Good, TagLB, PlacedInv, Placed, ShareInv
<1>1. l \in alive /\ j.tags = tags[l] /\ (s \in tags[l] \/ Cardinality(tags[l]) + 1 <= MaxSharedLB)
      /\ tags[l] \subseteq Services /\ l # None
  BY <1>0, ConstantsAssumption, Zenon DEF Fresh, AfterGet, CloudTags, LBs
<1>2. /\ job'[s].pc = "idle" /\ lbID'[s] = l /\ LBOf(s)' = LBOf(s)
      /\ UNCHANGED <<state, ports, http, cached, alive, lsn>>
  <2>1. job'[s].pc = "idle"
    BY <1>0, TurnEnded, Zenon DEF TagLB, Turns
  <2>2. lbID'[s] = l /\ UNCHANGED <<state, ports, http, cached, alive, lsn>>
    BY <1>0, Zenon DEF TagLB
  <2>3. QED
    BY <1>0, <1>1, <2>1, <2>2 DEF LBOf
<1>3. Fresh(s)'
  BY <1>2, Zenon DEF Fresh, AfterGet, AfterFind
<1>4. KeysOf(s, ports[s])' = KeysOf(s, ports[s])
  BY <1>2, OwnKeysKept, Zenon
<1>5. CASE UNCHANGED tags /\ (s \in status' => s \in status \/ s \in tags[l])
  <2>1. (\A r \in Services \ {s} : Spared(r)) /\ CloudTags'
    <3>1. /\ UNCHANGED <<alive, tags, http>> /\ state'[s] = state[s]
          /\ \A r \in Services \ {s}, m \in LBs, k \in Keys : r \in lsn'[m][k].tags => r \in lsn[m][k].tags
      BY <1>2, <1>5, Zenon
    <3>2. QED
      BY <3>1, TagsStay, Zenon
  <2>2. Attached(s)' => lbID'[s] \in alive' /\ s \in tags'[lbID'[s]]
    BY <1>0, <1>1, <1>2, <1>5 DEF Attached, Home, Placed, LBOf
  <2>3. Home(s)'
    BY <1>0, <1>2, <1>4, <1>5, <2>2 DEF Home
  <2>4. QED
    BY <1>0, <1>3, <2>1, <2>3, RunKept, SMTT(20)
<1>6. CASE s \notin tags[l] /\ tags' = [tags EXCEPT ![l] = tags[l] \cup {s}]
  <2>1. Cardinality(tags[l] \cup {s}) <= MaxSharedLB
    <3>1. IsFiniteSet(tags[l])
      BY <1>1, FS_Subset, ConstantsAssumption
    <3>2. QED
      BY <1>1, <1>6, <3>1, FS_AddElement, ZenonT(40)
  <2>2. /\ CloudTags' /\ tags'[l] = tags[l] \cup {s} /\ \A m \in LBs \ {l} : tags'[m] = tags[m]
        /\ \A r \in Services \ {s}, m \in LBs : r \in tags'[m] <=> r \in tags[m]
    <3>1. Retags(s, l, tags[l] \cup {s})
      BY <1>1, <1>2, <1>6, <2>1, SMTT(20) DEF Retags
    <3>2. QED
      BY <1>0, <3>1, TagsPut, SMTT(20)
  <2>3. \A r \in Services \ {s} : Spared(r)
    BY <1>2, <2>2, WorkerAside, Zenon DEF Spared
  <2>4. Home(s)'
    BY <1>0, <1>1, <1>2, <1>4, <2>2 DEF Home
  <2>5. QED
    BY <1>0, <1>3, <2>2, <2>3, <2>4, RunKept
<1>7. QED
  BY <1>1, <1>5, <1>6, Zenon DEF TagLB, OneTaggedWorker

\* A load balancer is deleted when it has the tag of no other Service.
LEMMA DeleteLBShares ==
  ASSUME OneTaggedWorker, KeepInv, PlacedInv, ShareInv, NEW s \in Services, Worker(s), DeleteLB(s)
  PROVE  ShareInv'
<1> DEFINE l == job[s].lb
           j == job[s]
<1>0. /\ ListenerShape /\ l \in LBs /\ j.pc = "deleteLB" /\ Fresh(s) /\ Home(s) /\ CloudTags /\ l = LBOf(s)
      /\ state = [q \in Services |-> state[q]]
  BY Zenon DEF KeepInv, Shapes, JobsInv, Good, DeleteLB, PlacedInv, Placed, ShareInv
<1>1. CASE /\ alive' = alive \ {l} /\ tags' = [tags EXCEPT ![l] = {}] /\ lsn' = [lsn EXCEPT ![l] = NoListeners]
           /\ Gone(s)
  <2>1. tags[l] \subseteq {s}
    BY <1>0, Zenon DEF Fresh, AfterFind
  <2>2. /\ state'[s] = "gone" /\ UNCHANGED http
        /\ \A r \in Services \ {s} : state'[r] = state[r]
    BY <1>0, <1>1, SMTT(20) DEF Gone
  <2>4. Retags(s, l, {})
    BY <1>1, <2>1, <2>2, NoTags, Zenon DEF Retags
  <2>5. /\ CloudTags' /\ tags'[l] = {} /\ \A m \in LBs \ {l} : tags'[m] = tags[m]
        /\ \A r \in Services \ {s}, m \in LBs : r \in tags'[m] <=> r \in tags[m]
        /\ \A r \in Services \ {s}, m \in LBs : m \in alive /\ r \in tags[m] => m \in alive'
    BY <1>0, <2>4, TagsPut
  <2>6. (\A k \in Keys : lsn'[l][k].tags = {}) /\ \A m \in LBs \ {l} : lsn'[m] = lsn[m]
    BY <1>0, <1>1, Zenon DEF ListenerShape, NoListeners, NoListener
  <2>7. \A r \in Services, m \in LBs, k \in Keys : r \in lsn'[m][k].tags => r \in lsn[m][k].tags
    BY <2>6, Zenon
  <2>8. \A r \in Services \ {s} : Spared(r)
    BY <2>2, <2>5, <2>7, WorkerAside DEF Spared
  <2>9. (\A m \in LBs : s \notin tags'[m]) /\ \A k \in KeysOf(s, ports[s]) : s \notin lsn'[l][k].tags
    <3>1. KeysOf(s, ports[s]) \subseteq Keys
      BY OwnKeys, Zenon
    <3>2. QED
      BY <1>0, <2>5, <2>6, <3>1, SMTT(20) DEF Home
  <2>10. QED
    BY <1>0, <1>1, <2>5, <2>7, <2>8, <2>9, GoneShares, SMTT(20)
<1>2. QED
  BY <1>0, <1>1, FailShares DEF DeleteLB

\* updateLoadBalancerTags on a load balancer that stays.
LEMMA UntagShares ==
  ASSUME OneTaggedWorker, KeepInv, PlacedInv, ShareInv, NEW s \in Services, Worker(s), UntagLB(s)
  PROVE  ShareInv'
<1> DEFINE l == job[s].lb
           j == job[s]
<1>0. /\ l \in LBs /\ j.pc = "untag" /\ Fresh(s) /\ Home(s) /\ CloudTags /\ l = LBOf(s)
      /\ state = [q \in Services |-> state[q]]
  BY Zenon DEF KeepInv, Shapes, JobsInv, Good, UntagLB, PlacedInv, Placed, ShareInv
<1>1. /\ l \in alive /\ j.tags = tags[l] /\ \A k \in KeysOf(s, ports[s]) : s \notin lsn[l][k].tags
      /\ tags[l] \subseteq Services /\ Cardinality(tags[l]) <= MaxSharedLB
  BY <1>0, Zenon DEF Fresh, AfterFind, CloudTags
<1>2. ASSUME Gone(s), UNCHANGED <<alive, lsn>>,
             IF s \in tags[l] THEN tags' = [tags EXCEPT ![l] = tags[l] \ {s}] ELSE UNCHANGED tags
      PROVE  ShareInv'
  <2>1. /\ state'[s] = "gone" /\ UNCHANGED http
        /\ \A r \in Services \ {s} : state'[r] = state[r]
    BY <1>0, <1>2 DEF Gone
  <2>2. CASE s \in tags[l]
    <3>1. Cardinality(tags[l] \ {s}) <= MaxSharedLB
      <4>1. IsFiniteSet(tags[l])
        BY <1>1, FS_Subset, ConstantsAssumption, SMTT(20)
      <4>2. Cardinality(tags[l]) \in Nat /\ Cardinality(tags[l] \ {s}) = Cardinality(tags[l]) - 1
        BY <2>2, <4>1, FS_CardinalityType, FS_RemoveElement, SMTT(20)
      <4>3. QED
        BY <1>1, <4>2, ConstantsAssumption, SMTT(20)
    <3>2. Retags(s, l, tags[l] \ {s})
      BY <1>1, <1>2, <2>1, <2>2, <3>1 DEF Retags
    <3>3. /\ CloudTags' /\ tags'[l] = tags[l] \ {s} /\ \A m \in LBs \ {l} : tags'[m] = tags[m]
          /\ \A r \in Services \ {s}, m \in LBs : r \in tags'[m] <=> r \in tags[m]
      BY <1>0, <3>2, TagsPut, SMTT(20)
    <3>4. \A r \in Services \ {s} : Spared(r)
      BY <1>2, <2>1, <3>3, WorkerAside, Zenon DEF Spared
    <3>5. \A m \in LBs : s \notin tags'[m]
      BY <1>0, <3>3 DEF Home
    <3>6. QED
      BY <1>0, <1>1, <1>2, <3>3, <3>4, <3>5, GoneShares, SMTT(20)
  <2>3. CASE s \notin tags[l]
    <3>1. (\A r \in Services \ {s} : Spared(r)) /\ CloudTags'
      BY <1>2, <2>1, <2>3, TagsStay
    <3>2. \A m \in LBs : s \notin tags'[m]
      BY <1>0, <1>2, <2>3 DEF Home
    <3>3. QED
      BY <1>0, <1>1, <1>2, <3>1, <3>2, GoneShares, SMTT(20)
  <2>4. QED
    BY <2>2, <2>3, Zenon
<1>3. QED
  BY <1>1, <1>2 DEF UntagLB, OneTaggedWorker

\* With one worker, a key is taken when no run is under way.
LEMMA StartShares ==
  ASSUME OneTaggedWorker, KeepInv, PlacedInv, ShareInv, NEW s \in Services, Worker(s), Start(s)
  PROVE  ShareInv'
<1>1. \A r \in Services : job[r].pc = "idle"
  <2>1. Active \subseteq Services /\ IsFiniteSet(Active)
    BY FS_Subset, ConstantsAssumption DEF Active
  <2>2. Cardinality(Active) = 0
    BY <2>1, FS_CardinalityType DEF Start, OneTaggedWorker
  <2>3. Active = {}
    BY <2>1, <2>2, FS_EmptySet, SMTT(20)
  <2>4. QED
    BY <2>3, Zenon DEF Active
<1>2. \A r \in Services \ {s} : job'[r].pc = "idle"
  BY <1>1, WorkerAside DEF Aside
<1>3. /\ UNCHANGED <<http, state, ports, lbID, status, alive, tags, lsn>> /\ state[s] # "gone"
      /\ cached' = cached \cup {s}
  BY Zenon DEF Start, k8sVars, lbVars
<1>4. (\A r \in Services \ {s} : Spared(r)) /\ CloudTags'
  BY <1>3, TagsStay
<1>5. \A r \in Services \ {s} : Home(r)'
  BY <1>4, HomeKept, SMTT(20) DEF ShareInv
<1>6. Home(s)'
  <2>1. Home(s)
    BY SMTT(20) DEF ShareInv
  <2>2. QED
    BY <1>3, <2>1 DEF Home, Attached, LBOf
<1>7. job'[s].pc \in {"get", "find"}
  <2> DEFINE p == IF state[s] = "deleting" THEN "find" ELSE "get"
  <2>1. Starts(s, p, LBOf(s), ports[s])
    BY TurnStart, Zenon DEF Start, LBOf, KeepInv, Shapes
  <2>2. QED
    BY <2>1, Zenon DEF Starts
<1>8. \A r \in Services : Fresh(r)'
  BY <1>2, <1>7 DEF Fresh, AfterGet, AfterFind
<1>9. Alone'
  BY <1>2, Zenon DEF Alone, Active
<1>10. QED
  BY <1>4, <1>5, <1>6, <1>8, <1>9 DEF ShareInv

\* Every step of the service controller.
LEMMA WorkerShares ==
  ASSUME OneTaggedWorker, KeepInv, PlacedInv, ShareInv, NEW s \in Services, Worker(s)
  PROVE  ShareInv'
<1>1. CASE Forget(s)
  <2>1. UNCHANGED <<job, state, ports, http, lbID, status, cached, alive, tags, lsn>>
    BY <1>1, Zenon DEF Forget, k8sVars, lbVars
  <2>2. QED
    BY <2>1, SameShares
<1>2. CASE CallFails(s)
  BY <1>2, FailShares DEF CallFails, Active
<1>3. CASE Work(s)
  BY <1>3, GetShares, EnsureShares, FindShares, OwnedShares, UnlistShares, DeleteLBShares, UntagShares, ZenonT(40) DEF Work
<1>4. QED
  BY <1>1, <1>2, <1>3, TagShares, StartShares, ZenonT(40) DEF Worker

\* Every step keeps the invariant.
LEMMA NextAlone == OneTaggedWorker /\ AloneInv /\ [Next]_vars => AloneInv'
<1> SUFFICES ASSUME OneTaggedWorker, AloneInv, [Next]_vars PROVE AloneInv'
  BY Zenon
<1>0. KeepInv /\ PlacedInv /\ ShareInv
  BY Zenon DEF AloneInv
<1>1. KeepInv' /\ PlacedInv'
  BY <1>0, NextKeep, NextPlaced
<1>2. CASE UNCHANGED vars
  <2>1. UNCHANGED <<job, state, ports, http, lbID, status, cached, alive, tags, lsn>>
    BY <1>2 DEF vars
  <2>2. ShareInv'
    BY <1>0, <2>1, SameShares
  <2>3. QED
    BY <1>1, <2>2 DEF AloneInv
<1>3. CASE Next
  <2>1. ShareInv'
    BY <1>0, <1>3, WorkerShares, NodeShares, UserShares, Zenon DEF Next
  <2>2. QED
    BY <1>1, <2>1 DEF AloneInv
<1>4. QED
  BY <1>2, <1>3

\* The controller starts with no run, and the cloud with no tag.
LEMMA InitAlone == Init => AloneInv
<1> SUFFICES ASSUME Init PROVE AloneInv
  BY Zenon
<1>1. KeepInv /\ PlacedInv
  BY InitKeep, InitPlaced, SMTT(20)
<1>2. \A s \in Services : job[s].pc = "idle"
  BY IdleFields, Zenon DEF Init
<1>3. \A l \in LBs, k \in Keys : lsn[l][k].tags = {}
  BY SMTT(20) DEF Init, NoListeners, NoListener
<1>4. CloudTags
  BY NoTags, ConstantsAssumption, SMTT(20) DEF Init, CloudTags
<1>5. \A s \in Services : Fresh(s)
  BY <1>2, SMTT(20) DEF Fresh, AfterGet, AfterFind
<1>6. ASSUME NEW s \in Services PROVE Home(s)
  BY <1>3, Zenon DEF Init, Home, Attached
<1>7. Alone
  BY <1>2 DEF Alone, Active
<1>8. QED
  BY <1>1, <1>4, <1>5, <1>6, <1>7 DEF AloneInv, ShareInv

\* With one worker and tags, what the worker has read stays true until it uses it.
THEOREM OneWorkerReadsTrue == OneTaggedWorker => (Spec => []AloneInv)
<1> SUFFICES ASSUME OneTaggedWorker PROVE Spec => []AloneInv
  BY Zenon
<1>1. AloneInv /\ [Next]_vars => AloneInv'
  BY NextAlone, Zenon
<1>2. QED
  BY <1>1, InitAlone, PTL DEF Spec

\* EnsureLoadBalancerDeleted deletes a load balancer only when no Service that has
\* been given it is left: LBKept, for any Services, with one worker and tags.
THEOREM NoServiceLosesItsLB == OneTaggedWorker => (Spec => []LBKept)
<1> SUFFICES ASSUME OneTaggedWorker PROVE Spec => []LBKept
  BY Zenon
<1>1. AloneInv => LBKept
  BY DEF AloneInv, ShareInv, Home, LBKept
<1>2. QED
  BY <1>1, OneWorkerReadsTrue, PTL

\* The check of max-shared-lb in getLoadBalancerByID bounds the Services that share
\* a load balancer: SharedByAtMost, for any bound, with one worker and tags.
THEOREM SharingIsBounded == OneTaggedWorker => (Spec => []SharedByAtMost)
<1> SUFFICES ASSUME OneTaggedWorker PROVE Spec => []SharedByAtMost
  OBVIOUS
<1>1. ASSUME AloneInv, NEW l \in LBs
      PROVE  Cardinality({s \in Services : Attached(s) /\ lbID[s] = l}) <= MaxSharedLB
  <2> DEFINE A == {s \in Services : Attached(s) /\ lbID[s] = l}
  <2>1. A \subseteq tags[l]
    BY <1>1 DEF AloneInv, ShareInv, Home
  <2>2. IsFiniteSet(tags[l]) /\ Cardinality(tags[l]) <= MaxSharedLB
    BY <1>1, FS_Subset, ConstantsAssumption DEF AloneInv, ShareInv, CloudTags
  <2>3. /\ Cardinality(A) <= Cardinality(tags[l])
        /\ Cardinality(A) \in Nat /\ Cardinality(tags[l]) \in Nat
    BY <2>1, <2>2, FS_Subset, FS_CardinalityType
  <2>4. QED
    BY <2>2, <2>3, ConstantsAssumption, SMTT(20)
<1>2. AloneInv => SharedByAtMost
  BY <1>1, SMTT(20) DEF SharedByAtMost
<1>3. QED
  BY <1>2, OneWorkerReadsTrue, PTL

\* A Service whose finalizer is removed has no tag left on any load balancer, and no
\* listener for its ports: NothingLeft, with one worker and tags.
THEOREM DeletionLeavesNothing == OneTaggedWorker => (Spec => []NothingLeft)
<1> SUFFICES ASSUME OneTaggedWorker PROVE Spec => []NothingLeft
  OBVIOUS
<1>1. ASSUME AloneInv, NEW s \in Services, state[s] = "gone", NEW l \in LBs
      PROVE  s \notin tags[l] /\ \A k \in KeysOf(s, ports[s]) : s \notin lsn[l][k].tags
  <2>1. Home(s) /\ s \notin cached
    BY <1>1, Zenon DEF AloneInv, ShareInv, PlacedInv, Placed
  <2>2. QED
    BY <1>1, <2>1 DEF Home
<1>2. AloneInv => NothingLeft
  BY <1>1, Zenon DEF NothingLeft
<1>3. QED
  BY <1>2, OneWorkerReadsTrue, PTL

=============================================================================
