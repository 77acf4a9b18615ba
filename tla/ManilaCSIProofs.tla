--------------------------- MODULE ManilaCSIProofs ---------------------------
(***************************************************************************)
(* Proofs about ManilaCSI, for any number of shares, sizes and failures:   *)
(* pendingVolumes and pendingSnapshots, the look-up by name and Manila's   *)
(* own steps leave at most one share and one snapshot of a name; what the  *)
(* driver answered stays true while the sidecars rely on it; and once the  *)
(* sidecars are done nothing of the name is left but what the driver could *)
(* not remove.  SingleInv is inductive, and AnswerInv is inductive with it.*)
(***************************************************************************)
EXTENDS ManilaCSI, TLAPS

\* The shape of shares and calls.
IsShare(x) == x = [st |-> x.st, size |-> x.size, to |-> x.to, code |-> x.code, right |-> x.right]
IsCall(x) == x = [pc |-> x.pc, s |-> x.s, size |-> x.size, want |-> x.want]

SharesInv ==
  /\ share = [s \in Shares |-> share[s]] /\ snapshot = [s \in Shares |-> snapshot[s]]
  /\ \A s \in Shares : IsShare(share[s])
CallsInv == call = [c \in Calls |-> call[c]] /\ \A c \in Calls : IsCall(call[c])

\* A handler past LoadOrStore has an entry, and there is one entry of a name.
PendingInv ==
  /\ \A c \in Creates \cup Snaps : call[c].pc \notin {"idle", "start"} => c \in pending
  /\ \A c, d \in pending : {c, d} \subseteq Creates \cup Expands \/ {c, d} \subseteq Snaps => c = d

\* When a handler has looked a name up and found nothing, nothing has come since.
NameInv ==
  /\ \A c \in Creates : call[c].pc = "create" => Named = {}
  /\ \A c \in Snaps : call[c].pc = "take" => NamedSnaps = {}
  /\ \A s, t \in Named : s = t
  /\ \A s, t \in NamedSnaps : s = t

SingleInv == SharesInv /\ CallsInv /\ PendingInv /\ NameInv

-----------------------------------------------------------------------------
(* The forms of steps *)

\* The handler c comes to p; the others stay where they are.
Moves(c, p) == CallsInv' /\ call'[c].pc = p /\ \A d \in Calls \ {c} : call'[d] = call[d]

\* The handler c returns.
Ends(c) == Moves(c, "idle") /\ pending' = pending \ {c}

\* Manila gets no new share and no new snapshot.
Keeps == SharesInv' /\ Named' \subseteq Named /\ NamedSnaps' \subseteq NamedSnaps

\* The handler c goes on and does nothing to Manila, nor plans to create anything.
Quiet(c) ==
  /\ UNCHANGED manila
  /\ \/ Ends(c)
     \/ UNCHANGED pending /\ \E p : Moves(c, p) /\ p \notin {"create", "take"}

\* Every step keeps the invariant.
LEMMA NextSingle == SingleInv /\ [Next]_vars => SingleInv'
\* A handler goes on to another request.
<1>GotoMoves. ASSUME CallsInv, NEW c \in Calls, NEW p, Goto(c, p) PROVE Moves(c, p)
  <2> USE <1>GotoMoves
  <2>1. CallsInv'
    BY Zenon DEF Goto, CallsInv, IsCall
  <2>2. QED
    BY <2>1 DEF Goto, CallsInv, IsCall, Moves

\* A handler goes on with a share or a snapshot.
<1>FoundMoves.
  ASSUME CallsInv, NEW c \in Calls, NEW p, NEW s, call' = [call EXCEPT ![c].pc = p, ![c].s = s]
  PROVE  Moves(c, p)
  <2> USE <1>FoundMoves
  <2>1. CallsInv'
    BY Zenon DEF CallsInv, IsCall
  <2>2. QED
    BY <2>1 DEF CallsInv, IsCall, Moves

\* A handler goes on with a share and its size.
<1>ReadMoves.
  ASSUME CallsInv, NEW c \in Calls, NEW p, NEW s, NEW z,
         call' = [call EXCEPT ![c].pc = p, ![c].s = s, ![c].size = z]
  PROVE  Moves(c, p)
  <2> USE <1>ReadMoves
  <2>1. CallsInv'
    BY Zenon DEF CallsInv, IsCall
  <2>2. QED
    BY <2>1 DEF CallsInv, IsCall, Moves

\* A handler returns.
<1>IdleMoves. ASSUME CallsInv, NEW c \in Calls, call' = [call EXCEPT ![c] = Idle] PROVE Moves(c, "idle")
  <2> USE <1>IdleMoves
  <2>1. CallsInv'
    BY Zenon DEF CallsInv, IsCall, Idle
  <2>2. QED
    BY <2>1, Zenon DEF CallsInv, Idle, Moves

\* A handler begins.
<1>StartMoves. ASSUME CallsInv, NEW c \in Calls, NEW p, NEW z, Start(c, p, z) PROVE Moves(c, p)
  <2> USE <1>StartMoves
  <2>1. CallsInv'
    BY Zenon DEF Start, CallsInv, IsCall, Idle
  <2>2. QED
    BY <2>1, Zenon DEF Start, CallsInv, Idle, Moves

\* Errors end the handler.
<1>FailEnds.
  ASSUME CallsInv, NEW c \in Calls
  PROVE  /\ \A code : Fail(c, code) => Ends(c)
         /\ Fault(c) => Ends(c)
         /\ TimedOut(c) => Quiet(c)
         /\ \A code : Return(c, code) => Quiet(c)
  <2> USE <1>FailEnds
  <2>1. \A code : Fail(c, code) => Ends(c)
    BY <1>IdleMoves, Zenon DEF Fail, Ends
  <2>2. QED
    BY <2>1, Zenon DEF Fault, TimedOut, Return, Quiet

\* A step to another request that creates nothing.
<1>StepQuiet. ASSUME CallsInv, NEW c \in Calls, NEW p, Step(c, p), p \notin {"create", "take"} PROVE Quiet(c)
  BY <1>StepQuiet, <1>GotoMoves, Zenon DEF Step, Quiet

\* Nothing happens to Manila.
<1>SameKeeps. ASSUME SharesInv, UNCHANGED manila PROVE Keeps
  BY <1>SameKeeps, Zenon DEF SharesInv, Keeps, manila, others, Named, NamedSnaps

\* A step that moves no handler.
<1>NobodyMoves. ASSUME SingleInv, Keeps, UNCHANGED <<call, pending>> PROVE SingleInv'
  <2> USE <1>NobodyMoves
  <2>1. CallsInv' /\ PendingInv'
    BY Zenon DEF SingleInv, CallsInv, PendingInv
  <2>2. NameInv'
    BY Zenon DEF SingleInv, NameInv, Keeps
  <2>3. QED
    BY <2>1, <2>2, Zenon DEF SingleInv, Keeps

\* A handler that returns.
<1>EndKept. ASSUME SingleInv, NEW c \in Calls, Ends(c), Keeps PROVE SingleInv'
  <2> USE <1>EndKept
  <2>1. PendingInv'
    BY DEF SingleInv, PendingInv, Ends, Moves, Calls
  <2>2. NameInv'
    BY Zenon DEF SingleInv, NameInv, Keeps, Ends, Moves, Calls
  <2>3. QED
    BY <2>1, <2>2, Zenon DEF SingleInv, Ends, Moves, Keeps

\* A handler past LoadOrStore that goes on.
<1>GoKept.
  ASSUME SingleInv, NEW c \in Calls, NEW p, Moves(c, p), UNCHANGED pending, Keeps,
         c \in Creates \cup Snaps => call[c].pc \notin {"idle", "start"} \/ p \in {"idle", "start"},
         c \in Creates /\ p = "create" => Named = {},
         c \in Snaps /\ p = "take" => NamedSnaps = {}
  PROVE  SingleInv'
  <2> USE <1>GoKept
  <2>1. PendingInv'
    BY Zenon DEF SingleInv, PendingInv, Moves, Calls
  <2>2. NameInv'
    BY Zenon DEF SingleInv, NameInv, Keeps, Moves, Calls
  <2>3. QED
    BY <2>1, <2>2, Zenon DEF SingleInv, Moves, Keeps

\* A quiet step of a handler past LoadOrStore.
<1>QuietKept.
  ASSUME SingleInv, NEW c \in Calls, Quiet(c),
         c \in Creates \cup Snaps => call[c].pc \notin {"idle", "start"}
  PROVE  SingleInv'
  BY <1>QuietKept, <1>SameKeeps, <1>EndKept, <1>GoKept, Zenon DEF SingleInv, Quiet

\* LoadOrStore lets one handler of a name in.
<1>LoadOrStoreKept.
  ASSUME SingleInv, NEW c \in Creates \cup Expands \cup Snaps, NEW p,
         LoadOrStore(c, p), p \notin {"create", "take"}
  PROVE  SingleInv'
  <2> USE <1>LoadOrStoreKept
  <2> c \in Calls
    BY Zenon DEF Calls
  <2>1. CASE pending \cap (IF c \in Snaps THEN Snaps ELSE Creates \cup Expands) = {}
    <3>1. Moves(c, p) /\ pending' = pending \cup {c} /\ UNCHANGED manila
      BY <2>1, <1>GotoMoves, Zenon DEF SingleInv, LoadOrStore
    <3>2. Keeps
      BY <3>1, <1>SameKeeps, Zenon DEF SingleInv
    <3>3. PendingInv'
      <4>1. \A d \in Creates \cup Snaps : call'[d].pc \notin {"idle", "start"} => d \in pending'
        BY <3>1, Zenon DEF SingleInv, PendingInv, Moves, Calls
      <4>2. \A d \in pending : {c, d} \subseteq Creates \cup Expands \/ {c, d} \subseteq Snaps => c = d
        BY <2>1, Zenon DEF Creates, Expands, Snaps
      <4>3. QED
        BY <3>1, <4>1, <4>2 DEF SingleInv, PendingInv
    <3>4. NameInv'
      BY <3>1, <3>2, Zenon DEF SingleInv, NameInv, Keeps, Moves, Calls
    <3>5. QED
      BY <3>1, <3>2, <3>3, <3>4, Zenon DEF SingleInv, Moves, Keeps
  <2>2. CASE pending \cap (IF c \in Snaps THEN Snaps ELSE Creates \cup Expands) # {}
    <3>1. Return(c, "Aborted")
      BY <2>2, Zenon DEF LoadOrStore
    <3>2. Ends(c) /\ UNCHANGED manila
      BY <3>1, <1>FailEnds, Zenon DEF SingleInv, Return
    <3>3. QED
      BY <3>2, <1>SameKeeps, <1>EndKept, Zenon DEF SingleInv
  <2>3. QED
    BY <2>1, <2>2, Zenon

\* A share changes, or goes.
<1>ShareKeeps.
  ASSUME SharesInv, NEW s, NEW x, share' = [share EXCEPT ![s] = x], UNCHANGED snapshot,
         s \in Shares => IsShare(x), s \in Shares /\ x.st # "none" => share[s].st # "none"
  PROVE  Keeps
  <2> USE <1>ShareKeeps
  <2>1. share' = [t \in Shares |-> share'[t]] /\ \A t \in Shares : t # s => share'[t] = share[t]
    BY Zenon DEF SharesInv
  <2>2. s \in Shares => share'[s] = x
    BY Zenon DEF SharesInv
  <2>3. SharesInv'
    BY <2>1, <2>2, Zenon DEF SharesInv
  <2>4. QED
    BY <2>1, <2>2, <2>3, Zenon DEF Keeps, Named, NamedSnaps

\* The fields of a share that handlers' requests change.
<1>FieldKeeps.
  ASSUME SharesInv, NEW s, UNCHANGED snapshot,
         \/ share[s].st # "none" /\ share' = [share EXCEPT ![s].st = "deleting"]
         \/ share' = [share EXCEPT ![s].right = "queued"]
         \/ share[s].st # "none" /\ \E z : share' = [share EXCEPT ![s].st = "extending", ![s].to = z]
  PROVE  Keeps
  <2> USE <1>FieldKeeps
  <2>1. share' = [t \in Shares |-> share'[t]] /\ \A t \in Shares : t # s => share'[t] = share[t]
    BY Zenon DEF SharesInv
  <2>2. s \in Shares => IsShare(share'[s]) /\ (share'[s].st # "none" => share[s].st # "none")
    <3>1. CASE share' = [share EXCEPT ![s].st = "deleting"] /\ share[s].st # "none"
      BY <3>1, Zenon DEF SharesInv, IsShare
    <3>2. CASE share' = [share EXCEPT ![s].right = "queued"]
      BY <3>2 DEF SharesInv, IsShare
    <3>3. ASSUME NEW z, share' = [share EXCEPT ![s].st = "extending", ![s].to = z], share[s].st # "none"
          PROVE  s \in Shares => IsShare(share'[s]) /\ (share'[s].st # "none" => share[s].st # "none")
      BY <3>3, Zenon DEF SharesInv, IsShare
    <3>4. QED
      BY <3>1, <3>2, <3>3, Zenon
  <2>3. SharesInv'
    BY <2>1, <2>2, Zenon DEF SharesInv
  <2>4. QED
    BY <2>1, <2>2, <2>3, Zenon DEF Keeps, Named, NamedSnaps

\* A snapshot changes, or goes.
<1>SnapshotKeeps.
  ASSUME SharesInv, NEW s, NEW v, snapshot' = [snapshot EXCEPT ![s] = v], UNCHANGED share,
         v # "none" => snapshot[s] # "none"
  PROVE  Keeps
  <2> USE <1>SnapshotKeeps
  <2>1. SharesInv'
    BY Zenon DEF SharesInv
  <2>2. QED
    BY <2>1, Zenon DEF SharesInv, Keeps, Named, NamedSnaps

\* The requests of CreateVolume, CreateSnapshot and ControllerExpandVolume that read.
<1>ReadingQuiet.
  ASSUME CallsInv, NEW c \in Calls,
         \/ GetSourceSnapshot(c) \/ WaitForShareStatus(c) \/ RolledBack(c) \/ GetAccessRights(c)
         \/ NFSGetAccessRights(c) \/ WaitForKey(c) \/ CreateAnswer(c) \/ GetShareByID(c)
         \/ GetSourceShare(c) \/ WaitSnapshotDeleted(c)
  PROVE  Quiet(c) /\ call[c].pc \notin {"idle", "start"}
  <2> USE <1>ReadingQuiet
  <2>a. Fault(c) /\ UNCHANGED manila => Quiet(c)
    BY <1>FailEnds, Zenon DEF Quiet
  <2>b. \A code : Fail(c, code) /\ UNCHANGED manila => Quiet(c)
    BY <1>FailEnds, Zenon DEF Quiet
  <2>c. \A s : Got(c, s) => Quiet(c)
    BY <1>FoundMoves, <1>FailEnds DEF Got, Quiet
  <2>d. ExpandAnswer(c) => Quiet(c)
    BY <1>IdleMoves, ZenonT(60) DEF ExpandAnswer, Quiet, Ends
  <2>1. CASE GetSourceSnapshot(c)
    BY <2>1, <2>a, <2>b, <1>FailEnds, <1>StepQuiet, Zenon DEF GetSourceSnapshot, At
  <2>2. CASE WaitForShareStatus(c)
    BY <2>2, <2>a, <2>c, <1>FailEnds, <1>StepQuiet, Zenon DEF WaitForShareStatus, At
  <2>3. CASE RolledBack(c)
    BY <2>3, <2>b, <1>FailEnds, Zenon DEF RolledBack, At
  <2>4. CASE GetAccessRights(c)
    BY <2>4, <2>a, <1>StepQuiet, Zenon DEF GetAccessRights, At
  <2>5. CASE NFSGetAccessRights(c)
    BY <2>5, <2>a, <1>StepQuiet, SMTT(30) DEF NFSGetAccessRights, At
  <2>6. CASE WaitForKey(c)
    BY <2>6, <2>a, <1>FailEnds, <1>StepQuiet, SMTT(30) DEF WaitForKey, At
  <2>7. CASE CreateAnswer(c)
    BY <2>7, <1>IdleMoves, ZenonT(60) DEF CreateAnswer, At, Quiet, Ends
  <2>8. CASE GetShareByID(c)
    <3>1. ASSUME call' = [call EXCEPT ![c].pc = "lock", ![c].s = volume, ![c].size = share[volume].size],
                 UNCHANGED <<manila, pending, awaited, sidecars, doubts, troubles>>
          PROVE  Quiet(c)
      <4>1. Moves(c, "lock")
        BY <3>1, <1>ReadMoves, Zenon
      <4>2. QED
        BY <3>1, <4>1 DEF Quiet
    <3>2. QED
      BY <2>8, <3>1, <2>a, <1>FailEnds, Zenon DEF GetShareByID, At
  <2>9. CASE GetSourceShare(c)
    BY <2>9, <2>a, <1>FailEnds, <1>StepQuiet, SMTT(30) DEF GetSourceShare, At
  <2>10. CASE WaitSnapshotDeleted(c)
    BY <2>10, <2>b, <1>FailEnds, Zenon DEF WaitSnapshotDeleted, At
  <2>11. QED
    BY <2>1, <2>2, <2>3, <2>4, <2>5, <2>6, <2>7, <2>8, <2>9, <2>10, SMTT(30)

\* A handler finds nothing of the name, or goes on with what it found.
<1>LookUpKept.
  ASSUME SingleInv, NEW c \in Calls,
         \/ c \in Creates /\ GetShareByName(c)
         \/ c \in Snaps /\ GetSnapshotByName(c)
  PROVE  SingleInv'
  <2> USE <1>LookUpKept
  <2> USE DEF SingleInv
  <2>a. Fault(c) /\ UNCHANGED manila => Quiet(c)
    BY <1>FailEnds, Zenon DEF Quiet
  <2>1. CASE c \in Creates /\ GetShareByName(c)
    <3>1. CASE Named = {} /\ Step(c, "create")
      <4>1. Moves(c, "create") /\ UNCHANGED <<manila, pending>>
        BY <3>1, <1>GotoMoves, Zenon DEF Step
      <4>2. call[c].pc = "byname" /\ c \notin Snaps
        BY <2>1, Zenon DEF GetShareByName, At, Creates, Snaps
      <4>3. QED
        BY <3>1, <4>1, <4>2, <1>SameKeeps, <1>GoKept, Zenon
    <3>2. ASSUME NEW s \in Named, call' = [call EXCEPT ![c].pc = "wait", ![c].s = s],
                 UNCHANGED <<manila, pending, awaited, sidecars, doubts, troubles>>
          PROVE  Quiet(c)
      <4>1. Moves(c, "wait")
        BY <3>2, <1>FoundMoves, Zenon
      <4>2. QED
        BY <3>2, <4>1 DEF Quiet
    <3>3. \A s : Got(c, s) => Quiet(c)
      BY <1>FoundMoves, <1>FailEnds DEF Got, Quiet
    <3>4. CASE ~(Named = {} /\ Step(c, "create"))
      <4>1. Quiet(c) /\ call[c].pc = "byname"
        BY <2>1, <2>a, <3>2, <3>3, <3>4, <1>FailEnds, Zenon DEF GetShareByName, At
      <4>2. QED
        BY <4>1, <1>QuietKept, Zenon
    <3>5. QED
      BY <3>1, <3>4, Zenon
  <2>2. CASE c \in Snaps /\ GetSnapshotByName(c)
    <3>1. CASE NamedSnaps = {} /\ Step(c, "take")
      <4>1. Moves(c, "take") /\ UNCHANGED <<manila, pending>>
        BY <3>1, <1>GotoMoves, Zenon DEF Step
      <4>2. call[c].pc = "snapshot" /\ c \notin Creates
        BY <2>2, Zenon DEF GetSnapshotByName, At, Creates, Snaps
      <4>3. QED
        BY <3>1, <4>1, <4>2, <1>SameKeeps, <1>GoKept, Zenon
    <3>2. ASSUME NEW s \in NamedSnaps, call' = [call EXCEPT ![c].pc = "untake", ![c].s = s],
                 UNCHANGED <<manila, pending, awaited, sidecars, doubts, troubles>>
          PROVE  Quiet(c)
      <4>1. Moves(c, "untake")
        BY <3>2, <1>FoundMoves, Zenon
      <4>2. QED
        BY <3>2, <4>1 DEF Quiet
    <3>3. \A s, r : SnapshotAnswer(c, s, r) /\ UNCHANGED manila => Quiet(c)
      BY <1>IdleMoves, Zenon DEF SnapshotAnswer, Quiet, Ends
    <3>4. CASE ~(NamedSnaps = {} /\ Step(c, "take"))
      <4>1. Quiet(c) /\ call[c].pc = "snapshot"
        BY <2>2, <2>a, <3>2, <3>3, <3>4, <1>FailEnds, SMTT(30) DEF GetSnapshotByName, At
      <4>2. QED
        BY <4>1, <1>QuietKept, Zenon
    <3>5. QED
      BY <3>1, <3>4, Zenon
  <2>3. QED
    BY <2>1, <2>2, Zenon

\* The one handler that looked the name up creates the one share.
<1>CreateShareKept. ASSUME SingleInv, NEW c \in Creates, CreateShare(c) PROVE SingleInv'
  <2> USE <1>CreateShareKept
  <2> USE DEF SingleInv
  <2>0. c \in Calls /\ c \notin Snaps /\ call[c].pc = "create" /\ Named = {} /\ c \in pending
    BY Zenon DEF CreateShare, At, Calls, Creates, Snaps, NameInv, PendingInv
  <2>a. Fault(c) => Ends(c)
    BY <2>0, <1>FailEnds, Zenon
  <2>1. CASE Fault(c) /\ UNCHANGED manila
    BY <2>0, <2>1, <2>a, <1>SameKeeps, <1>EndKept, SMTT(30)
  <2> DEFINE Made(s) ==
        /\ share' = [share EXCEPT ![s] = NewShare] /\ UNCHANGED others
        /\ Fault(c) \/ (call' = [call EXCEPT ![c].pc = "wait", ![c].s = s] /\ UNCHANGED pending)
  <2>2. ASSUME NEW s \in Shares, Made(s) PROVE SingleInv'
    <3>1. Ends(c) \/ (Moves(c, "wait") /\ UNCHANGED pending)
      <4>1. CASE Fault(c)
        BY <2>a, <4>1, Zenon
      <4>2. CASE call' = [call EXCEPT ![c].pc = "wait", ![c].s = s] /\ UNCHANGED pending
        BY <2>0, <4>2, <1>FoundMoves, ZenonT(60)
      <4>3. QED
        BY <2>2, <4>1, <4>2, Zenon
    <3>2. share'[s] = NewShare /\ \A t \in Shares : t # s => share'[t] = share[t]
      BY <2>2, Zenon DEF SharesInv
    <3>3. SharesInv'
      <4>1. IsShare(NewShare)
        BY Zenon DEF IsShare, NewShare
      <4>2. share' = [t \in Shares |-> share'[t]] /\ UNCHANGED snapshot
        BY <2>2, Zenon DEF SharesInv, others
      <4>3. QED
        BY <3>2, <4>1, <4>2, Zenon DEF SharesInv
    <3>4. Named' \subseteq {s} /\ NamedSnaps' = NamedSnaps
      BY <2>0, <2>2, <3>2, Zenon DEF Named, NamedSnaps, others
    <3>5. PendingInv'
      BY <2>0, <3>1, Zenon DEF PendingInv, Ends, Moves, Calls
    <3>6. \A d \in Creates : call'[d].pc # "create"
      <4>1. \A d \in Creates : d # c => call[d].pc # "create"
        BY <2>0 DEF PendingInv
      <4>2. QED
        BY <3>1, <4>1, Zenon DEF Ends, Moves, Calls
    <3>7. NameInv'
      BY <2>0, <3>1, <3>4, <3>6, Zenon DEF NameInv, Ends, Moves, Calls
    <3>8. QED
      BY <3>1, <3>3, <3>5, <3>7, Zenon DEF Ends, Moves
  <2>3. (Fault(c) /\ UNCHANGED manila) \/ \E s \in Shares : Made(s)
    BY Zenon DEF CreateShare
  <2> HIDE DEF Made
  <2>4. QED
    BY <2>1, <2>2, <2>3, Zenon

\* The one handler that looked the name up creates the one snapshot.
<1>CreateSnapshotKept. ASSUME SingleInv, NEW c \in Snaps, CreateSnapshot(c) PROVE SingleInv'
  <2> USE <1>CreateSnapshotKept
  <2> USE DEF SingleInv
  <2>0. c \in Calls /\ c \notin Creates /\ call[c].pc = "take" /\ NamedSnaps = {} /\ c \in pending
    BY Zenon DEF CreateSnapshot, At, Calls, Creates, Snaps, NameInv, PendingInv
  <2>1. CASE Fault(c) /\ UNCHANGED manila
    BY <2>0, <2>1, <1>FailEnds, <1>SameKeeps, <1>EndKept, Zenon
  <2>2. CASE Return(c, "Internal")
    BY <2>0, <2>2, <1>FailEnds, <1>QuietKept, Zenon
  <2>3. ASSUME NEW s \in Shares, snapshot' = [snapshot EXCEPT ![s] = "creating"], UNCHANGED share,
               Fault(c) \/ SnapshotAnswer(c, s, FALSE)
        PROVE  SingleInv'
    <3>1. Ends(c)
      BY <2>0, <2>3, <1>FailEnds, <1>IdleMoves, SMTT(30) DEF SnapshotAnswer, Ends
    <3>2. SharesInv' /\ Named' = Named /\ NamedSnaps' \subseteq {s}
      BY <2>0, <2>3, SMTT(30) DEF SharesInv, Named, NamedSnaps
    <3>3. PendingInv'
      BY <2>0, <3>1, Zenon DEF PendingInv, Ends, Moves, Calls
    <3>4. \A d \in Snaps : call'[d].pc # "take"
      <4>1. \A d \in Snaps : d # c => call[d].pc # "take"
        BY <2>0 DEF PendingInv
      <4>2. QED
        BY <3>1, <4>1, Zenon DEF Ends, Moves, Calls
    <3>5. NameInv'
      BY <2>0, <3>1, <3>2, <3>4, SMTT(30) DEF NameInv, Ends, Moves, Calls
    <3>6. QED
      BY <3>1, <3>2, <3>3, <3>5, SMTT(30) DEF Ends, Moves
  <2>4. QED
    BY <2>1, <2>2, <2>3, Zenon DEF CreateSnapshot

\* The requests that delete or change a share.
<1>ShareRequestKept.
  ASSUME SingleInv, NEW c \in Calls,
         \/ c \in Creates /\ (TryDeleteShare(c) \/ GrantAccess(c))
         \/ c \in Expands /\ ExtendShare(c)
         \/ c = "delete" /\ DeleteVolume
  PROVE  SingleInv'
  <2> USE <1>ShareRequestKept
  <2> USE DEF SingleInv
  <2>a. Fault(c) /\ UNCHANGED manila => SingleInv'
    BY <1>FailEnds, <1>SameKeeps, <1>EndKept, Zenon
  <2>b. Fault(c) /\ Keeps => SingleInv'
    BY <1>FailEnds, <1>EndKept, SMTT(30)
  <2>1. CASE c \in Creates /\ TryDeleteShare(c)
    <3>0. call[c].pc = "rollback"
      BY <2>1, Zenon DEF TryDeleteShare, At
    <3>1. CASE MayDelete(call[c].s) /\ share' = [share EXCEPT ![call[c].s].st = "deleting"]
               /\ UNCHANGED <<others, pending>> /\ Goto(c, "rolled back")
      <4>1. Keeps
        BY <3>1, <1>FieldKeeps, Zenon DEF MayDelete, others
      <4>2. Moves(c, "rolled back")
        BY <3>1, <1>GotoMoves, ZenonT(60)
      <4>3. QED
        BY <3>0, <3>1, <4>1, <4>2, <1>GoKept, ZenonT(60)
    <3>2. ASSUME NEW code, Return(c, code) PROVE SingleInv'
      BY <3>0, <3>2, <1>FailEnds, <1>QuietKept, SMTT(30)
    <3>3. QED
      BY <2>1, <2>a, <3>1, <3>2, ZenonT(60) DEF TryDeleteShare
  <2>2. CASE c \in Creates /\ GrantAccess(c)
    <3>0. call[c].pc = "grant"
      BY <2>2, Zenon DEF GrantAccess, At
    <3>1. CASE share' = [share EXCEPT ![call[c].s].right = "queued"] /\ UNCHANGED others
      <4>1. Keeps
        BY <3>1, <1>FieldKeeps, ZenonT(60) DEF others
      <4>2. ASSUME NEW p \in {"answer", "key"}, Goto(c, p), UNCHANGED pending PROVE SingleInv'
        BY <3>0, <4>1, <4>2, <1>GotoMoves, <1>GoKept, Zenon
      <4>3. QED
        BY <2>2, <2>a, <2>b, <4>1, <4>2, SMTT(30) DEF GrantAccess
    <3>2. QED
      BY <2>2, <2>a, <3>1, SMTT(30) DEF GrantAccess
  <2>3. CASE c \in Expands /\ ExtendShare(c)
    <3>0. c \notin Creates \cup Snaps
      BY <2>3, Zenon DEF Creates, Expands, Snaps
    <3>1. CASE /\ share[call[c].s].st = "available"
               /\ share' = [share EXCEPT ![call[c].s].st = "extending", ![call[c].s].to = call[c].want]
               /\ UNCHANGED others
      <4>1. Keeps
        BY <3>1, <1>FieldKeeps, Zenon DEF others
      <4>2. CASE Goto(c, "extending") /\ UNCHANGED pending
        BY <3>0, <4>1, <4>2, <1>GotoMoves, <1>GoKept, Zenon
      <4>3. QED
        BY <2>3, <2>a, <2>b, <3>0, <3>1, <4>1, <4>2, <1>FailEnds, <1>QuietKept, <1>IdleMoves, SMTT(30)
           DEF ExtendShare, ExpandAnswer, Quiet, Ends
    <3>2. ExpandAnswer(c) => SingleInv'
      BY <3>0, <1>IdleMoves, <1>SameKeeps, <1>EndKept, Zenon DEF ExpandAnswer, Ends
    <3>3. QED
      BY <2>3, <2>a, <3>0, <3>1, <3>2, <1>FailEnds, <1>QuietKept, Zenon DEF ExtendShare
  <2>4. CASE c = "delete" /\ DeleteVolume
    <3>0. c \notin Creates \cup Snaps
      BY <2>4, Zenon DEF Creates, Snaps
    <3>1. CASE /\ share' = [share EXCEPT ![volume] = IF MayDelete(volume) THEN [@ EXCEPT !.st = "deleting"] ELSE @]
               /\ UNCHANGED others
      <4>1. Keeps
        <5>1. CASE MayDelete(volume)
          <6>1. share' = [share EXCEPT ![volume].st = "deleting"]
            BY <3>1, <5>1, Zenon
          <6>2. QED
            BY <3>1, <5>1, <6>1, <1>FieldKeeps, Zenon DEF MayDelete, others
        <5>2. CASE ~MayDelete(volume)
          <6>1. share' = share
            BY <3>1, <5>2, Zenon DEF SharesInv
          <6>2. QED
            BY <3>1, <6>1, <1>SameKeeps, Zenon DEF manila
        <5>3. QED
          BY <5>1, <5>2, SMTT(30)
      <4>2. CASE call' = [call EXCEPT ![c] = Idle] /\ UNCHANGED pending
        BY <3>0, <4>1, <4>2, <1>IdleMoves, <1>GoKept, ZenonT(60)
      <4>3. QED
        BY <2>4, <2>a, <2>b, <3>0, <4>1, <4>2, <1>FailEnds, <1>QuietKept, SMTT(30) DEF DeleteVolume
    <3>2. QED
      BY <2>4, <2>a, <3>0, <3>1, <1>FailEnds, <1>QuietKept, Zenon DEF DeleteVolume
  <2>5. QED
    BY <2>1, <2>2, <2>3, <2>4, SMTT(30)

\* The requests that delete a snapshot.
<1>SnapshotRequestKept.
  ASSUME SingleInv, NEW c \in Calls,
         \/ c \in Snaps /\ TryDeleteSnapshot(c)
         \/ c = "unsnap" /\ DeleteSnapshot
  PROVE  SingleInv'
  <2> USE <1>SnapshotRequestKept
  <2> USE DEF SingleInv
  <2>a. Fault(c) /\ UNCHANGED manila => SingleInv'
    BY <1>FailEnds, <1>SameKeeps, <1>EndKept, Zenon
  <2>b. Fault(c) /\ Keeps => SingleInv'
    BY <1>FailEnds, <1>EndKept, Zenon
  <2>1. CASE c \in Snaps /\ TryDeleteSnapshot(c)
    <3>0. call[c].pc = "untake"
      BY <2>1, SMTT(30) DEF TryDeleteSnapshot, At
    <3>1. Goto(c, "untaken") /\ UNCHANGED pending
      BY <2>1, Zenon DEF TryDeleteSnapshot, Step
    <3>2. Moves(c, "untaken")
      BY <3>1, <1>GotoMoves, SMTT(30)
    <3>3. Keeps
      <4>1. CASE /\ MayDeleteSnapshot(call[c].s)
                 /\ snapshot' = [snapshot EXCEPT ![call[c].s] = "deleting"] /\ UNCHANGED share
        BY <4>1, <1>SnapshotKeeps, Zenon DEF MayDeleteSnapshot
      <4>2. QED
        BY <2>1, <4>1, <1>SameKeeps, SMTT(30) DEF TryDeleteSnapshot, Step
    <3>4. QED
      BY <3>0, <3>1, <3>2, <3>3, <1>GoKept, Zenon
  <2>2. CASE c = "unsnap" /\ DeleteSnapshot
    <3>0. c \notin Creates \cup Snaps
      BY <2>2, Zenon DEF Creates, Snaps
    <3>1. CASE /\ snapshot' = [snapshot EXCEPT ![content.id] = IF MayDeleteSnapshot(content.id) THEN "deleting" ELSE @]
               /\ UNCHANGED <<share, kind, source>>
      <4>1. Keeps
        <5>1. CASE MayDeleteSnapshot(content.id)
          BY <3>1, <5>1, <1>SnapshotKeeps, Zenon DEF MayDeleteSnapshot
        <5>2. CASE ~MayDeleteSnapshot(content.id)
          BY <3>1, <5>2, <1>SameKeeps, Zenon DEF SharesInv, manila, others
        <5>3. QED
          BY <5>1, <5>2, Zenon
      <4>2. CASE call' = [call EXCEPT ![c] = Idle] /\ UNCHANGED pending
        BY <3>0, <4>1, <4>2, <1>IdleMoves, <1>GoKept, Zenon
      <4>3. QED
        BY <2>2, <2>a, <2>b, <3>0, <4>1, <4>2, <1>FailEnds, <1>QuietKept, Zenon DEF DeleteSnapshot
    <3>2. QED
      BY <2>2, <2>a, <3>0, <3>1, <1>FailEnds, <1>QuietKept, Zenon DEF DeleteSnapshot
  <2>3. QED
    BY <2>1, <2>2, Zenon

\* The driver dies, and with it its calls and its entries.
<1>PanicKept. ASSUME SingleInv, Panic PROVE SingleInv'
  <2> USE <1>PanicKept
  <2>1. CallsInv' /\ \A c \in Calls : call'[c].pc = "idle"
    BY Zenon DEF Panic, CallsInv, IsCall, Idle
  <2>2. Keeps /\ pending' = {}
    BY <1>SameKeeps, Zenon DEF Panic, SingleInv
  <2>3. PendingInv' /\ NameInv'
    BY <2>1, <2>2, SMTT(30) DEF SingleInv, PendingInv, NameInv, Keeps, Calls
  <2>4. QED
    BY <2>1, <2>2, <2>3, Zenon DEF SingleInv, Keeps

\* Every request of every handler keeps the invariant.
<1>HandlerKept. ASSUME SingleInv, NEW c \in Calls, Handler(c) PROVE SingleInv'
  <2> USE <1>HandlerKept
  <2>0. CallsInv
    BY Zenon DEF SingleInv
  <2>1. CASE StartCreate(c) /\ c \in Creates
    BY <2>1, <1>LoadOrStoreKept, Zenon DEF StartCreate
  <2>2. CASE StartExpand(c) /\ c \in Expands
    BY <2>2, <1>LoadOrStoreKept, Zenon DEF StartExpand
  <2>3. CASE StartSnapshot(c) /\ c \in Snaps
    BY <2>3, <1>LoadOrStoreKept, SMTT(30) DEF StartSnapshot
  <2>4. CASE \/ GetSourceSnapshot(c) \/ WaitForShareStatus(c) \/ RolledBack(c) \/ GetAccessRights(c)
             \/ NFSGetAccessRights(c) \/ WaitForKey(c) \/ CreateAnswer(c) \/ GetShareByID(c)
             \/ GetSourceShare(c) \/ WaitSnapshotDeleted(c)
    BY <2>0, <2>4, <1>ReadingQuiet, <1>QuietKept, SMTT(30)
  <2>5. CASE WaitForExtended(c) /\ c \in Expands
    <3>1. ExpandAnswer(c) => Quiet(c)
      BY <2>0, <1>IdleMoves, ZenonT(60) DEF ExpandAnswer, Quiet, Ends
    <3>2. Panic \/ (Quiet(c) /\ call[c].pc = "extending")
      BY <2>0, <2>5, <3>1, <1>FailEnds, Zenon DEF WaitForExtended, At
    <3>3. QED
      BY <3>2, <1>PanicKept, <1>QuietKept, SMTT(30)
  <2>6. CASE \/ c \in Creates /\ GetShareByName(c)
             \/ c \in Snaps /\ GetSnapshotByName(c)
    BY <2>6, <1>LookUpKept, Zenon
  <2>7. CASE \/ c \in Creates /\ CreateShare(c)
             \/ c \in Snaps /\ CreateSnapshot(c)
    BY <2>7, <1>CreateShareKept, <1>CreateSnapshotKept, Zenon
  <2>8. CASE \/ c \in Creates /\ (TryDeleteShare(c) \/ GrantAccess(c))
             \/ c \in Expands /\ ExtendShare(c)
             \/ c = "delete" /\ DeleteVolume
    BY <2>8, <1>ShareRequestKept, Zenon
  <2>9. CASE \/ c \in Snaps /\ TryDeleteSnapshot(c)
             \/ c = "unsnap" /\ DeleteSnapshot
    BY <2>9, <1>SnapshotRequestKept, Zenon
  <2>10. QED
    BY <2>1, <2>2, <2>3, <2>4, <2>5, <2>6, <2>7, <2>8, <2>9, SMTT(30) DEF Handler

\* The fields of a share that Manila changes.
<1>FieldsOfShare.
  ASSUME NEW x, IsShare(x), NEW a, NEW b
  PROVE  /\ IsShare([x EXCEPT !.st = a])
         /\ IsShare([x EXCEPT !.st = a, !.size = b])
         /\ IsShare([x EXCEPT !.st = a, !.code = b])
         /\ IsShare([x EXCEPT !.right = a]) /\ [x EXCEPT !.right = a].st = x.st
  <2> USE <1>FieldsOfShare
  <2>1. IsShare([x EXCEPT !.st = a])
    BY SMT DEF IsShare
  <2>2. IsShare([x EXCEPT !.st = a, !.size = b])
    <3>1. ASSUME NEW y, IsShare(y) PROVE IsShare([y EXCEPT !.size = b])
      BY <3>1, SMT DEF IsShare
    <3>2. QED
      BY <2>1, <3>1, Zenon
  <2>3. IsShare([x EXCEPT !.st = a, !.code = b])
    <3>1. ASSUME NEW y, IsShare(y) PROVE IsShare([y EXCEPT !.code = b])
      BY <3>1, SMT DEF IsShare
    <3>2. QED
      BY <2>1, <3>1, Zenon
  <2>4. IsShare([x EXCEPT !.right = a])
    BY SMT DEF IsShare
  <2>5. [x EXCEPT !.right = a].st = x.st
    BY SMT DEF IsShare
  <2>6. QED
    BY <2>1, <2>2, <2>3, <2>4, <2>5, Zenon

\* Manila's own steps change shares and snapshots that there are.
<1>ManilaKept. ASSUME SingleInv, NEW s \in Shares, ManilaStep(s) \/ ManilaFails(s) PROVE SingleInv'
  <2> USE <1>ManilaKept
  <2>1. ASSUME NEW x, Becomes(s, x), IsShare(x), share[s].st # "none" \/ x.st = share[s].st PROVE SingleInv'
    <3>1. Keeps
      BY <2>1, <1>ShareKeeps, Zenon DEF SingleInv, Becomes, others
    <3>2. QED
      BY <2>1, <3>1, <1>NobodyMoves, SMTT(30) DEF Becomes
  <2>2. ASSUME NEW v, SnapshotBecomes(s, v), snapshot[s] # "none" PROVE SingleInv'
    <3>1. Keeps
      BY <2>2, <1>SnapshotKeeps, Zenon DEF SingleInv, SnapshotBecomes
    <3>2. QED
      BY <2>2, <3>1, <1>NobodyMoves, Zenon DEF SnapshotBecomes
  <2>3. ASSUME NEW v, SourceBecomes(v) PROVE SingleInv'
    <3>1. Keeps
      BY <2>3, Zenon DEF SingleInv, SourceBecomes, SharesInv, Keeps, Named, NamedSnaps
    <3>2. QED
      BY <2>3, <3>1, <1>NobodyMoves, Zenon DEF SourceBecomes
  <2>4. IsShare(share[s])
    BY Zenon DEF SingleInv, SharesInv
  <2>5. IsShare(NoShare)
    BY Zenon DEF IsShare, NoShare
  <2>6. \A a, b : /\ IsShare([share[s] EXCEPT !.st = a])
                 /\ IsShare([share[s] EXCEPT !.st = a, !.size = b])
                 /\ IsShare([share[s] EXCEPT !.st = a, !.code = b])
    BY <2>4, <1>FieldsOfShare, Zenon
  <2>7. \A a : IsShare([share[s] EXCEPT !.right = a]) /\ [share[s] EXCEPT !.right = a].st = share[s].st
    BY <2>4, <1>FieldsOfShare, Zenon
  <2>8. CASE ManilaStep(s)
    BY <2>1, <2>2, <2>3, <2>5, <2>6, <2>7, <2>8, ZenonT(60) DEF ManilaStep
  <2>9. CASE ManilaFails(s)
    BY <2>1, <2>2, <2>3, <2>6, <2>7, <2>9, ZenonT(60) DEF ManilaFails
  <2>10. QED
    BY <2>8, <2>9, Zenon

\* A call that begins creates nothing.
<1>StartKept.
  ASSUME SingleInv, NEW c \in Calls, NEW p, NEW z, Start(c, p, z), p \notin {"create", "take"},
         c \in Creates \cup Snaps => p = "start"
  PROVE  SingleInv'
  <2> USE <1>StartKept
  <2>1. Moves(c, p)
    BY <1>StartMoves, Zenon DEF SingleInv
  <2>2. Keeps /\ UNCHANGED pending
    BY <1>SameKeeps, Zenon DEF SingleInv, Start
  <2>3. QED
    BY <2>1, <2>2, <1>GoKept, Zenon

<1> SUFFICES ASSUME SingleInv, [Next]_vars PROVE SingleInv'
  BY Zenon
<1>a. ASSUME UNCHANGED <<manila, pending, call>> PROVE SingleInv'
  BY <1>a, <1>SameKeeps, <1>NobodyMoves, Zenon DEF SingleInv
<1>b. /\ Creates \subseteq Calls /\ Expands \subseteq Calls /\ Snaps \subseteq Calls
      /\ {"delete", "unsnap"} \subseteq Calls
  BY Zenon DEF Calls
<1>1. ASSUME NEW c \in Calls, Handler(c) PROVE SingleInv'
  BY <1>1, <1>HandlerKept, Zenon
<1>2. ASSUME NEW c \in Calls, GiveUp(c) PROVE SingleInv'
  BY <1>a, <1>2, Zenon DEF GiveUp
<1>3. ASSUME NEW c \in Creates, CallCreate(c) PROVE SingleInv'
  BY <1>b, <1>3, <1>StartKept, SMTT(30) DEF CallCreate
<1>4. ASSUME NEW c \in Expands, CallExpand(c) PROVE SingleInv'
  BY <1>b, <1>4, <1>StartKept, SMTT(30) DEF CallExpand, Creates, Expands, Snaps
<1>5. ASSUME NEW c \in Snaps, CallSnapshot(c) PROVE SingleInv'
  BY <1>b, <1>5, <1>StartKept, SMTT(30) DEF CallSnapshot
<1>6. CASE CallDelete \/ CallUnsnap
  BY <1>b, <1>6, <1>StartKept, Zenon DEF CallDelete, CallUnsnap, Creates, Snaps
<1>7. CASE UserDeletes \/ UserSnapshots
  BY <1>a, <1>7, Zenon DEF UserDeletes, UserSnapshots
<1>8. ASSUME NEW s \in Shares, ManilaStep(s) \/ ManilaFails(s) PROVE SingleInv'
  BY <1>8, <1>ManilaKept, Zenon
<1>9. CASE UNCHANGED vars
  BY <1>a, <1>9, Zenon DEF vars
<1>10. QED
  BY <1>1, <1>2, <1>3, <1>4, <1>5, <1>6, <1>7, <1>8, <1>9, SMTT(30) DEF Next

\* There is nothing of the name at first.
LEMMA InitSingle == Init => SingleInv
<1> SUFFICES ASSUME Init PROVE SingleInv
  BY Zenon
<1>1. SharesInv
  BY Zenon DEF Init, SharesInv, IsShare, NoShare
<1>2. CallsInv
  BY ZenonT(60) DEF Init, CallsInv, IsCall, Idle
<1>3. PendingInv
  BY Zenon DEF Init, PendingInv, Calls, Idle
<1>4. Named = {} /\ NamedSnaps = {}
  BY Zenon DEF Init, Named, NamedSnaps, NoShare
<1>5. QED
  BY <1>1, <1>2, <1>3, <1>4, Zenon DEF SingleInv, NameInv

-----------------------------------------------------------------------------
(* What was answered *)

States == {"none", "creating", "available", "error", "deleting", "error_deleting",
           "extending", "extending_error"}
Working == {"wait", "rollback", "rolled back", "access", "grant", "key", "answer"}
Using == {"access", "grant", "key", "answer"}

\* The access right that CreateVolume answers with.
Granted(s) == IF kind.nfs THEN share[s].right # "none" ELSE share[s].right = "active"

\* CreateVolume runs before there is a volume, on the one share of the name that, when
\* it answers, can be used; what it rolls back is in error.
CreateOK(c) ==
  /\ call[c].pc # "idle" => volume = 0 /\ pvc \in {"wanted", "unwanted"} /\ maybe
  /\ call[c].pc = "start" => c \in awaited
  /\ call[c].pc \in Working => call[c].s \in Shares /\ Named \subseteq {call[c].s}
  /\ call[c].pc \in Using => share[call[c].s].st = "available"
  /\ call[c].pc = "answer" => Granted(call[c].s)
  /\ call[c].pc = "rollback" => share[call[c].s].st = "error" \/ "error stays" \in doubts
  /\ call[c].pc = "rolled back" => share[call[c].s].st \in {"none", "deleting"} \/ "error stays" \in doubts

\* ControllerExpandVolume knows a size that the volume has, and has entered the size
\* it asked for.
ExpandOK(c) ==
  /\ call[c].pc # "idle" => volume # 0
  /\ call[c].pc \in {"lock", "extend", "extending"} =>
       call[c].s = volume /\ (share[volume].st # "none" => call[c].size <= share[volume].size)
  /\ call[c].pc \in {"extend", "extending"} => c \in pending
  /\ call[c].pc = "extending" =>
       /\ share[volume].st = "extending" => share[volume].to >= call[c].want
       /\ share[volume].st = "available" => share[volume].size >= call[c].want

\* CreateSnapshot runs for a snapshot that is wanted and, unless it is lost, is waited
\* for and does not meet DeleteSnapshot.
SnapOK(c) ==
  /\ call[c].pc # "idle" => content.st \notin {"none", "ready"}
  /\ call[c].pc = "start" => c \in awaited
  /\ call[c].pc # "idle" /\ "lost snapshot" \notin doubts =>
       c \in awaited /\ content.st # "gone" /\ call["unsnap"].pc = "idle"

Fits(c) ==
  /\ call[c].size \in Nat /\ call[c].want \in Nat
  /\ c \in Creates => CreateOK(c)
  /\ c \in Expands => ExpandOK(c)
  /\ c \in Snaps => SnapOK(c)
  /\ c = "delete" /\ call[c].pc # "idle" => pvc = "released"
  /\ c = "unsnap" /\ call[c].pc # "idle" => content.st = "released"

\* Before CreateVolume is answered shares are as they were created; afterwards one is
\* left.  Errors that the driver does not know are recorded.
ShareOK(s) ==
  /\ share[s].st \in States /\ share[s].size \in Nat /\ share[s].to \in Nat
  /\ share[s].st = "extending" => share[s].to > share[s].size
  /\ share[s].st # "none" =>
       /\ IF volume = 0 THEN share[s].size = 1 /\ share[s].st \notin {"extending", "extending_error"}
                        ELSE s = volume /\ share[s].st # "creating"
       /\ share[s].code = "unknown" \/ share[s].st = "error_deleting" => "error stays" \in doubts
       /\ InError(s) => share[s].code \in {"known", "unknown"}

\* What the provisioner knows, and the share behind it.
ClaimOK ==
  /\ volume \in Shares \cup {0} /\ expanded \in Nat /\ maybe \in BOOLEAN
  /\ IF volume = 0 THEN pvc \in {"wanted", "unwanted", "gone"} /\ expanded = 1
                   ELSE pvc \in {"bound", "released", "gone"}
  /\ pvc = "bound" => share[volume].st \in {"available", "extending", "extending_error"}
                      /\ share[volume].size >= expanded
  /\ pvc \in {"bound", "released"} /\ share[volume].st # "none" => Granted(volume)
  /\ pvc = "unwanted" => maybe
  /\ pvc = "gone" \/ (pvc = "wanted" /\ ~maybe) =>
       (doubts \subseteq {"lost snapshot"} => \A s \in Shares : share[s].st \in {"none", "deleting"})

\* The provisioner and the snapshotter wait for one call.
AwaitOK == \A c, d \in awaited : {c, d} \subseteq Creates \/ {c, d} \subseteq Snaps => c = d

\* The VolumeSnapshotContent, and the snapshot behind it.
ContentOK ==
  /\ content = [st |-> content.st, id |-> content.id]
  /\ content.st \in {"none", "wanted", "ready", "released", "gone"} /\ content.id \in Shares \cup {0}
  /\ content.st = "none" => content.id = 0
  /\ content.st \in {"ready", "released", "gone"} => content.id \in Shares
  /\ content.st = "ready" => snapshot[content.id] = "available"
  /\ "lost snapshot" \notin doubts =>
       /\ NamedSnaps \subseteq {content.id}
       /\ content.st = "gone" => snapshot[content.id] \in {"none", "deleting", "error_deleting"}

AnswerInv ==
  /\ \A c \in Calls : Fits(c)
  /\ \A s \in Shares : ShareOK(s)
  /\ ClaimOK /\ AwaitOK /\ ContentOK

\* The call c comes to these values; the others stay as they are.
Sets(c, p, s, z, x) ==
  /\ call'[c].pc = p /\ call'[c].s = s /\ call'[c].size = z /\ call'[c].want = x
  /\ \A d \in Calls \ {c} : call'[d] = call[d]

\* What the forms of steps do to the calls.
LEMMA CallSets ==
  ASSUME CallsInv, NEW c \in Calls, NEW p, NEW s, NEW z
  PROVE  /\ Goto(c, p) => Sets(c, p, call[c].s, call[c].size, call[c].want)
         /\ call' = [call EXCEPT ![c].pc = p, ![c].s = s] => Sets(c, p, s, call[c].size, call[c].want)
         /\ call' = [call EXCEPT ![c].pc = p, ![c].s = s, ![c].size = z] => Sets(c, p, s, z, call[c].want)
         /\ call' = [call EXCEPT ![c] = Idle] => Sets(c, "idle", 0, 0, 0)
         /\ Start(c, p, z) => Sets(c, p, 0, 0, z)
<1> USE DEF CallsInv, IsCall, Sets
<1>1. Goto(c, p) => Sets(c, p, call[c].s, call[c].size, call[c].want)
  BY Zenon DEF Goto
<1>2. call' = [call EXCEPT ![c].pc = p, ![c].s = s] => Sets(c, p, s, call[c].size, call[c].want)
  BY Zenon
<1>3. call' = [call EXCEPT ![c].pc = p, ![c].s = s, ![c].size = z] => Sets(c, p, s, z, call[c].want)
  OBVIOUS
<1>4. call' = [call EXCEPT ![c] = Idle] => Sets(c, "idle", 0, 0, 0)
  BY DEF Idle
<1>5. Start(c, p, z) => Sets(c, p, 0, 0, z)
  BY Zenon DEF Start, Idle
<1>6. QED
  BY <1>1, <1>2, <1>3, <1>4, <1>5, Zenon

\* An error ends the call; unless it is CreateVolume nobody learns anything.
LEMMA FailSets ==
  ASSUME CallsInv, NEW c \in Calls, NEW code, Fail(c, code)
  PROVE  /\ Sets(c, "idle", 0, 0, 0) /\ pending' = pending \ {c} /\ awaited' = awaited \ {c}
         /\ UNCHANGED <<volume, expanded, content>>
         /\ c \notin Creates \/ c \notin awaited => UNCHANGED <<pvc, maybe>>
<1>1. Sets(c, "idle", 0, 0, 0)
  BY CallSets, Zenon DEF Fail
<1>2. QED
  BY <1>1, Zenon DEF Fail

-----------------------------------------------------------------------------
(* What a step leaves alone *)

\* The shares stay.
LEMMA SameShares ==
  ASSUME AnswerInv, UNCHANGED <<share, volume>>, doubts \subseteq doubts'
  PROVE  \A s \in Shares : ShareOK(s)'
  BY Zenon DEF AnswerInv, ShareOK, InError

\* The claim stays.
LEMMA SameClaim ==
  ASSUME AnswerInv, UNCHANGED <<share, kind, pvc, maybe, volume, expanded>>, doubts \subseteq doubts'
  PROVE  ClaimOK'
  BY Zenon DEF AnswerInv, ClaimOK, Granted

\* The content stays.
LEMMA SameContent ==
  ASSUME AnswerInv, UNCHANGED <<snapshot, content>>, doubts \subseteq doubts'
  PROVE  ContentOK'
  BY Zenon DEF AnswerInv, ContentOK, NamedSnaps

\* Nobody starts to wait.
LEMMA SameAwait == ASSUME AnswerInv, awaited' \subseteq awaited PROVE AwaitOK'
  BY DEF AnswerInv, AwaitOK

\* A call of which nothing changes.
LEMMA SameFits ==
  ASSUME AnswerInv, NEW d \in Calls, call'[d] = call[d], doubts \subseteq doubts',
         UNCHANGED <<share, kind, pvc, maybe, volume, content>>,
         d \in awaited => d \in awaited', d \in pending => d \in pending',
         call'["unsnap"].pc \in {"idle", call["unsnap"].pc}
  PROVE  Fits(d)'
<1>0. Fits(d)
  BY Zenon DEF AnswerInv
<1>1. d \in Creates => CreateOK(d)'
  BY <1>0, Zenon DEF Fits, CreateOK, Granted, Named
<1>2. d \in Expands => ExpandOK(d)'
  BY <1>0, Zenon DEF Fits, ExpandOK
<1>3. d \in Snaps => SnapOK(d)'
  BY <1>0, Zenon DEF Fits, SnapOK
<1>4. QED
  BY <1>0, <1>1, <1>2, <1>3, Zenon DEF Fits

\* A call that is over.
LEMMA IdleFits ==
  ASSUME NEW c \in Calls, Sets(c, "idle", 0, 0, 0)
  PROVE  Fits(c)'
<1>1. call'[c].pc = "idle" /\ call'[c].size = 0 /\ call'[c].want = 0
  BY Zenon DEF Sets
<1>2. CreateOK(c)' /\ ExpandOK(c)'
  BY <1>1, Zenon DEF CreateOK, ExpandOK, Working, Using
<1>3. SnapOK(c)'
  BY <1>1, Zenon DEF SnapOK
<1>4. QED
  BY <1>1, <1>2, <1>3 DEF Fits

\* A call that goes on or ends, and leaves the shares alone.
LEMMA ContentAnswer ==
  ASSUME AnswerInv, NEW c \in Calls, UNCHANGED <<share, kind, sidecars>>, doubts \subseteq doubts',
         awaited' \in {awaited, awaited \ {c}}, pending \ {c} \subseteq pending',
         \A d \in Calls \ {c} : call'[d] = call[d], Fits(c)', ContentOK',
         c = "unsnap" => call'[c].pc \in {"idle", call[c].pc}
  PROVE  AnswerInv'
<1>0. UNCHANGED <<pvc, maybe, volume, expanded, content>>
  BY Zenon DEF sidecars
<1>1. call'["unsnap"].pc \in {"idle", call["unsnap"].pc}
  BY Zenon DEF Calls
<1>2. \A d \in Calls \ {c} : Fits(d)'
  BY <1>0, <1>1, SameFits, Zenon
<1>3. (\A s \in Shares : ShareOK(s)') /\ ClaimOK' /\ AwaitOK'
  BY <1>0, SameShares, SameClaim, SameAwait, Zenon
<1>4. QED
  BY <1>2, <1>3, Zenon DEF AnswerInv

\* A call that goes on or ends, and changes nothing else.
LEMMA QuietAnswer ==
  ASSUME AnswerInv, NEW c \in Calls, UNCHANGED <<manila, sidecars>>, doubts \subseteq doubts',
         awaited' \in {awaited, awaited \ {c}}, pending \ {c} \subseteq pending',
         \A d \in Calls \ {c} : call'[d] = call[d], Fits(c)',
         c = "unsnap" => call'[c].pc \in {"idle", call[c].pc}
  PROVE  AnswerInv'
<1>1. UNCHANGED <<share, kind, snapshot, content>>
  BY Zenon DEF manila, others, sidecars
<1>2. ContentOK'
  BY <1>1, SameContent, Zenon
<1>3. QED
  BY <1>1, <1>2, ContentAnswer, Zenon

\* An error that ends a call other than CreateVolume.
LEMMA FailAnswer ==
  ASSUME SingleInv, AnswerInv, NEW c \in Calls \ Creates, NEW code, Fail(c, code),
         UNCHANGED <<share, kind>>, doubts \subseteq doubts', ContentOK'
  PROVE  AnswerInv'
<1>1. /\ Sets(c, "idle", 0, 0, 0) /\ pending' = pending \ {c} /\ awaited' = awaited \ {c}
      /\ UNCHANGED sidecars
  BY FailSets, Zenon DEF SingleInv, sidecars
<1>2. Fits(c)' /\ call'[c].pc = "idle" /\ \A d \in Calls \ {c} : call'[d] = call[d]
  BY <1>1, IdleFits, Zenon DEF Sets
<1>3. QED
  BY <1>1, <1>2, ContentAnswer, Zenon

\* The errors of the requests that read.
LEMMA EndAnswer ==
  ASSUME SingleInv, AnswerInv, NEW c \in Calls \ Creates,
         \/ Fault(c) /\ UNCHANGED manila
         \/ TimedOut(c)
         \/ \E code : Return(c, code)
         \/ \E code : Fail(c, code) /\ UNCHANGED <<manila, doubts>>
  PROVE  AnswerInv'
<1>1. PICK code : Fail(c, code)
  BY Zenon DEF Fault, TimedOut, Return
<1>2. UNCHANGED manila /\ doubts \subseteq doubts'
  BY Zenon DEF Fault, TimedOut, Return
<1>3. UNCHANGED content
  BY <1>1, Zenon DEF Fail
<1>4. ContentOK' /\ UNCHANGED <<share, kind>>
  BY <1>2, <1>3, SameContent, Zenon DEF manila, others
<1>5. QED
  BY <1>1, <1>2, <1>4, FailAnswer, Zenon

\* Manila changes a snapshot, or the snapshot to be restored.
LEMMA ElsewhereAnswer ==
  ASSUME SingleInv, AnswerInv, doubts \subseteq doubts',
         UNCHANGED <<share, kind, pending, call, awaited, sidecars>>, ContentOK'
  PROVE  AnswerInv'
<1>1. "unsnap" \in Calls /\ Fits("unsnap")'
  BY SameFits, Zenon DEF Calls, sidecars
<1>2. QED
  BY <1>1, ContentAnswer, Zenon

\* A share changes and the others stay.
LEMMA OneShare ==
  ASSUME SharesInv, NEW s \in Shares, NEW x
  PROVE  /\ share' = [share EXCEPT ![s] = x] => share'[s] = x
         /\ share' = [share EXCEPT ![s] = x] => \A t \in Shares \ {s} : share'[t] = share[t]
  BY Zenon DEF SharesInv

\* The fields of a share that a request or Manila changes.
LEMMA ShareFields ==
  ASSUME NEW x, IsShare(x), NEW a, NEW b
  PROVE  /\ LET y == [x EXCEPT !.st = a] IN
              y.st = a /\ y.size = x.size /\ y.to = x.to /\ y.code = x.code /\ y.right = x.right
         /\ LET y == [x EXCEPT !.st = a, !.to = b] IN
              y.st = a /\ y.size = x.size /\ y.to = b /\ y.code = x.code /\ y.right = x.right
         /\ LET y == [x EXCEPT !.st = a, !.size = b] IN
              y.st = a /\ y.size = b /\ y.to = x.to /\ y.code = x.code /\ y.right = x.right
         /\ LET y == [x EXCEPT !.st = a, !.code = b] IN
              y.st = a /\ y.size = x.size /\ y.to = x.to /\ y.code = b /\ y.right = x.right
         /\ LET y == [x EXCEPT !.right = a] IN
              y.st = x.st /\ y.size = x.size /\ y.to = x.to /\ y.code = x.code /\ y.right = a
  BY SMT DEF IsShare

\* Only the share s changes, to these values.
Becoming(s, st, size, to, code, right) ==
  /\ share'[s].st = st /\ share'[s].size = size /\ share'[s].to = to
  /\ share'[s].code = code /\ share'[s].right = right
  /\ \A t \in Shares \ {s} : share'[t] = share[t]

\* What the requests of the handlers do to a share.
LEMMA RequestBecomes ==
  ASSUME SharesInv, NEW s \in Shares, NEW z
  PROVE  /\ share' = [share EXCEPT ![s] = NewShare] => Becoming(s, "creating", 1, 0, "none", "none")
         /\ share' = [share EXCEPT ![s].st = "deleting"] =>
              Becoming(s, "deleting", share[s].size, share[s].to, share[s].code, share[s].right)
         /\ share' = [share EXCEPT ![s].right = "queued"] =>
              Becoming(s, share[s].st, share[s].size, share[s].to, share[s].code, "queued")
         /\ share' = [share EXCEPT ![s].st = "extending", ![s].to = z] =>
              Becoming(s, "extending", share[s].size, z, share[s].code, share[s].right)
<1>0. IsShare(share[s])
  BY Zenon DEF SharesInv
<1>1. share' = [share EXCEPT ![s] = NewShare] => Becoming(s, "creating", 1, 0, "none", "none")
  <2> SUFFICES ASSUME share' = [share EXCEPT ![s] = NewShare]
               PROVE  Becoming(s, "creating", 1, 0, "none", "none")
    BY Zenon
  <2>1. share'[s] = NewShare /\ \A t \in Shares \ {s} : share'[t] = share[t]
    BY OneShare, Zenon
  <2>2. QED
    <3>1. /\ NewShare.st = "creating" /\ NewShare.size = 1 /\ NewShare.to = 0
          /\ NewShare.code = "none" /\ NewShare.right = "none"
      BY Zenon DEF NewShare
    <3>2. QED
      BY <2>1, <3>1, Zenon DEF Becoming
<1>2. share' = [share EXCEPT ![s].st = "deleting"] =>
        Becoming(s, "deleting", share[s].size, share[s].to, share[s].code, share[s].right)
  BY Zenon DEF SharesInv, IsShare, Becoming
<1>3. share' = [share EXCEPT ![s].right = "queued"] =>
        Becoming(s, share[s].st, share[s].size, share[s].to, share[s].code, "queued")
  BY Zenon DEF SharesInv, IsShare, Becoming
<1>4. share' = [share EXCEPT ![s].st = "extending", ![s].to = z] =>
        Becoming(s, "extending", share[s].size, z, share[s].code, share[s].right)
  BY ZenonT(40) DEF SharesInv, IsShare, Becoming
<1>5. QED
  BY <1>1, <1>2, <1>3, <1>4, Zenon

\* A snapshot that is neither ready nor gone for the snapshotter changes, or goes.
LEMMA SnapshotContent ==
  ASSUME SingleInv, AnswerInv, NEW s, NEW v, snapshot' = [snapshot EXCEPT ![s] = v], UNCHANGED content,
         doubts \subseteq doubts',
         s \in Shares /\ v # "none" => snapshot[s] # "none" \/ "lost snapshot" \in doubts',
         s = content.id /\ content.st = "ready" => v = "available",
         s = content.id /\ content.st = "gone" /\ "lost snapshot" \notin doubts' =>
           v \in {"none", "deleting", "error_deleting"}
  PROVE  ContentOK'
<1>1. (s \in Shares => snapshot'[s] = v) /\ \A t \in Shares \ {s} : snapshot'[t] = snapshot[t]
  BY Zenon DEF SingleInv, SharesInv
<1>2. ContentOK
  BY Zenon DEF AnswerInv
<1>3. "lost snapshot" \notin doubts' => NamedSnaps' \subseteq {content.id}
  BY <1>1, <1>2, Zenon DEF ContentOK, NamedSnaps
<1>4. content.st = "ready" => snapshot'[content.id] = "available"
  BY <1>1, <1>2, Zenon DEF ContentOK
<1>5. content.st = "gone" /\ "lost snapshot" \notin doubts' =>
        snapshot'[content.id] \in {"none", "deleting", "error_deleting"}
  BY <1>1, <1>2, Zenon DEF ContentOK
<1>6. QED
  BY <1>2, <1>3, <1>4, <1>5, Zenon DEF ContentOK

-----------------------------------------------------------------------------
(* CreateVolume *)

\* The steps of CreateVolume keep AnswerInv.
LEMMA CreateVolumeAnswer ==
  ASSUME SingleInv, AnswerInv, Cardinality(Named) \in {0, 1},
         \E c \in Creates :
           \/ StartCreate(c) \/ GetSourceSnapshot(c) \/ GetShareByName(c) \/ CreateShare(c)
           \/ WaitForShareStatus(c) \/ TryDeleteShare(c) \/ RolledBack(c) \/ GetAccessRights(c)
           \/ NFSGetAccessRights(c) \/ GrantAccess(c) \/ WaitForKey(c) \/ CreateAnswer(c)
  PROVE  AnswerInv'
\* A call of CreateVolume past LoadOrStore: there is no volume yet, and nobody else
\* works on shares.
<1>CreateFacts.
  ASSUME SingleInv, AnswerInv, NEW c \in Creates, call[c].pc \notin {"idle", "start"}
  PROVE  /\ c \in Calls /\ c \notin Expands /\ c \notin Snaps /\ c \notin {"delete", "unsnap"}
         /\ Fits(c) /\ CreateOK(c) /\ c \in pending
         /\ volume = 0 /\ pvc \in {"wanted", "unwanted"} /\ maybe = TRUE
         /\ \A s \in Named : share[s].size = 1
  <2> USE <1>CreateFacts
  <2>1. c \in Calls /\ c \notin Expands /\ c \notin Snaps /\ c \notin {"delete", "unsnap"}
    BY Zenon DEF Calls, Creates, Expands, Snaps
  <2>2. Fits(c) /\ CreateOK(c) /\ ClaimOK /\ \A s \in Shares : ShareOK(s)
    BY <2>1, Zenon DEF AnswerInv, Fits
  <2>3. c \in pending
    BY Zenon DEF SingleInv, PendingInv
  <2>4. volume = 0 /\ pvc \in {"wanted", "unwanted"} /\ maybe = TRUE
    BY <2>2, Zenon DEF CreateOK, ClaimOK
  <2>5. \A s \in Named : share[s].size = 1
    BY <2>2, <2>4, Zenon DEF ShareOK, Named
  <2>6. QED
    BY <2>1, <2>2, <2>3, <2>4, <2>5, Zenon

\* What it does is no concern of other calls.
<1>CreateOthers.
  ASSUME SingleInv, AnswerInv, NEW c \in Creates, call[c].pc \notin {"idle", "start"},
         NEW d \in Calls \ {c}, \A e \in Calls \ {c} : call'[e] = call[e],
         awaited' \in {awaited, awaited \ {c}}, UNCHANGED content, doubts \subseteq doubts',
         c \in awaited \/ UNCHANGED <<volume, pvc, maybe>>
  PROVE  Fits(d)'
  <2> USE <1>CreateOthers
  <2>0. Fits(d) /\ call'[d] = call[d] /\ (d \in awaited => d \in awaited') /\ call'["unsnap"] = call["unsnap"]
    BY <1>CreateFacts, Zenon DEF AnswerInv, Calls
  <2>c. volume = 0 /\ pvc \in {"wanted", "unwanted"} /\ c \in pending
    BY <1>CreateFacts, Zenon
  <2>1. d \in Creates => CreateOK(d)'
    <3> SUFFICES ASSUME d \in Creates PROVE CreateOK(d)'
      BY Zenon
    <3>1. call[d].pc \in {"idle", "start"}
      BY <2>c DEF SingleInv, PendingInv
    <3>2. CASE call[d].pc = "idle"
      BY <2>0, <3>2, Zenon DEF CreateOK, Working, Using
    <3>3. CASE call[d].pc = "start"
      <4>1. CreateOK(d)
        BY <2>0, Zenon DEF Fits
      <4>2. c \notin awaited
        BY <3>3, <4>1, Zenon DEF CreateOK, AnswerInv, AwaitOK
      <4>3. QED
        BY <2>0, <3>3, <4>1, <4>2, Zenon DEF CreateOK, Working, Using
    <3>4. QED
      BY <3>1, <3>2, <3>3, Zenon
  <2>2. d \in Expands => ExpandOK(d)'
    BY <2>0, <2>c, Zenon DEF Fits, ExpandOK
  <2>3. d \in Snaps => SnapOK(d)'
    BY <2>0, Zenon DEF Fits, SnapOK
  <2>4. d = "delete" => call[d].pc = "idle"
    BY <2>0, <2>c, Zenon DEF Fits
  <2>5. QED
    BY <2>0, <2>1, <2>2, <2>3, <2>4, Zenon DEF Fits

\* It goes on, and may change shares.
<1>CreateGoes.
  ASSUME SingleInv, AnswerInv, NEW c \in Creates, call[c].pc \notin {"idle", "start"},
         \A d \in Calls \ {c} : call'[d] = call[d], Fits(c)', \A s \in Shares : ShareOK(s)',
         awaited' \in {awaited, awaited \ {c}}, UNCHANGED <<kind, snapshot, sidecars>>, doubts \subseteq doubts'
  PROVE  AnswerInv'
  <2> USE <1>CreateGoes
  <2>0. UNCHANGED <<pvc, maybe, volume, expanded, content>>
    BY Zenon DEF sidecars
  <2>1. \A d \in Calls \ {c} : Fits(d)'
    BY <2>0, <1>CreateOthers, Zenon
  <2>2. ContentOK' /\ AwaitOK'
    BY <2>0, SameContent, SameAwait, Zenon
  <2>3. ClaimOK /\ volume = 0 /\ pvc \in {"wanted", "unwanted"} /\ maybe = TRUE
    BY <1>CreateFacts, Zenon DEF AnswerInv
  <2>4. ClaimOK'
    BY <2>0, <2>3, Zenon DEF ClaimOK
  <2>5. QED
    BY <2>1, <2>2, <2>4, Zenon DEF AnswerInv

\* It ends with an error.  When the provisioner takes it that there is no share,
\* there is none or it is known to be in doubt.
<1>CreateFails.
  ASSUME SingleInv, AnswerInv, NEW c \in Creates, call[c].pc \notin {"idle", "start"},
         NEW code, Fail(c, code), \A s \in Shares : ShareOK(s)',
         UNCHANGED <<kind, snapshot>>, doubts \subseteq doubts',
         Final(code) /\ doubts' \subseteq {"lost snapshot"} =>
           \A s \in Shares : share'[s].st \in {"none", "deleting"}
  PROVE  AnswerInv'
  <2> USE <1>CreateFails
  <2>0. ClaimOK /\ volume = 0 /\ pvc \in {"wanted", "unwanted"} /\ maybe = TRUE /\ c \in Calls
    BY <1>CreateFacts, Zenon DEF AnswerInv
  <2>1. /\ Sets(c, "idle", 0, 0, 0) /\ awaited' = awaited \ {c} /\ UNCHANGED <<volume, expanded, content>>
        /\ c \notin awaited => UNCHANGED <<pvc, maybe>>
    BY <2>0, FailSets, Zenon DEF SingleInv
  <2>2. Fits(c)' /\ \A d \in Calls \ {c} : call'[d] = call[d]
    BY <2>0, <2>1, IdleFits, Zenon DEF Sets
  <2>3. \A d \in Calls \ {c} : Fits(d)'
    BY <2>1, <2>2, <1>CreateOthers, Zenon
  <2>4. ContentOK' /\ AwaitOK'
    BY <2>1, SameContent, SameAwait, Zenon
  <2>5. ClaimOK'
    <3>1. CASE c \in awaited
      <4>1. /\ maybe' = ~Final(code) /\ pvc' = (IF pvc = "unwanted" /\ Final(code) THEN "gone" ELSE pvc)
        BY <2>0, <3>1, Zenon DEF Fail
      <4>2. CASE Final(code)
        BY <2>0, <2>1, <4>1, <4>2, Zenon DEF ClaimOK
      <4>3. CASE ~Final(code)
        BY <2>0, <2>1, <4>1, <4>3, Zenon DEF ClaimOK
      <4>4. QED
        BY <4>2, <4>3, Zenon
    <3>2. CASE c \notin awaited
      BY <2>0, <2>1, <3>2, Zenon DEF ClaimOK
    <3>3. QED
      BY <3>1, <3>2, Zenon
  <2>6. QED
    BY <2>2, <2>3, <2>4, <2>5, Zenon DEF AnswerInv

\* A request of it fails.
<1>CreateFaults.
  ASSUME SingleInv, AnswerInv, NEW c \in Creates, call[c].pc \notin {"idle", "start"},
         Fault(c), UNCHANGED <<kind, snapshot>>, \A s \in Shares : ShareOK(s)'
  PROVE  AnswerInv'
  <2> USE <1>CreateFaults
  <2>1. Fail(c, "Internal") /\ doubts' = doubts \cup {"failed request"}
    BY Zenon DEF Fault, Creates, Snaps
  <2>2. QED
    BY <2>1, <1>CreateFails, Zenon

\* The forms of its steps that leave Manila alone.
<1>CreateReads.
  ASSUME SingleInv, AnswerInv, NEW c \in Creates, call[c].pc \notin {"idle", "start"}, UNCHANGED manila
  PROVE  /\ Fault(c) \/ TimedOut(c) => AnswerInv'
         /\ UNCHANGED <<awaited, sidecars, doubts>> /\ Fits(c)' /\ (\A d \in Calls \ {c} : call'[d] = call[d])
            => AnswerInv'
         /\ \A code : /\ Fail(c, code) /\ UNCHANGED doubts
                      /\ Final(code) /\ doubts \subseteq {"lost snapshot"} =>
                           \A s \in Shares : share[s].st \in {"none", "deleting"}
                      => AnswerInv'
  <2> USE <1>CreateReads
  <2>0. UNCHANGED <<share, kind, snapshot>>
    BY Zenon DEF manila, others
  <2>1. doubts \subseteq doubts' /\ UNCHANGED volume => \A s \in Shares : ShareOK(s)'
    BY <2>0, SameShares, Zenon
  <2>c. c \in Calls
    BY <1>CreateFacts, Zenon
  <2>2. ASSUME Fault(c) PROVE AnswerInv'
    <3>1. doubts \subseteq doubts' /\ UNCHANGED volume
      BY <2>2, Zenon DEF Fault, Fail
    <3>2. QED
      BY <2>0, <2>1, <2>2, <3>1, <1>CreateFaults, Zenon
  <2>3. ASSUME NEW code, Fail(c, code), UNCHANGED doubts,
               Final(code) /\ doubts \subseteq {"lost snapshot"} =>
                 \A s \in Shares : share[s].st \in {"none", "deleting"}
        PROVE  AnswerInv'
    <3>1. doubts \subseteq doubts' /\ UNCHANGED volume
      BY <2>3, Zenon DEF Fail
    <3>2. QED
      BY <2>0, <2>1, <2>3, <3>1, <1>CreateFails, Zenon
  <2>4. ASSUME TimedOut(c) PROVE AnswerInv'
    <3>1. Fail(c, "DeadlineExceeded") /\ UNCHANGED doubts /\ ~Final("DeadlineExceeded")
      BY <2>4, Zenon DEF TimedOut, Final
    <3>2. QED
      BY <3>1, <2>3, Zenon
  <2>5. ASSUME UNCHANGED <<awaited, sidecars, doubts>>, Fits(c)', \A d \in Calls \ {c} : call'[d] = call[d]
        PROVE  AnswerInv'
    BY <2>0, <2>1, <2>5, <1>CreateGoes, Zenon DEF sidecars
  <2>6. QED
    BY <2>2, <2>3, <2>4, <2>5, Zenon

\* Where CreateVolume may go.
<1>CreateFits.
  ASSUME SingleInv, AnswerInv, NEW c \in Creates, call[c].pc \notin {"idle", "start"},
         NEW p, NEW s, Sets(c, p, s, call[c].size, call[c].want), p # "start",
         UNCHANGED sidecars,
         p \in Working => s \in Shares /\ Named' \subseteq {s},
         p \in Using => share'[s].st = "available",
         p = "answer" => IF kind'.nfs THEN share'[s].right # "none" ELSE share'[s].right = "active",
         p = "rollback" => share'[s].st = "error" \/ "error stays" \in doubts',
         p = "rolled back" => share'[s].st \in {"none", "deleting"} \/ "error stays" \in doubts'
  PROVE  Fits(c)' /\ \A d \in Calls \ {c} : call'[d] = call[d]
  <2> USE <1>CreateFits
  <2>1. /\ c \in Calls /\ c \notin Expands /\ c \notin Snaps /\ c \notin {"delete", "unsnap"}
        /\ Fits(c) /\ CreateOK(c) /\ UNCHANGED <<pvc, maybe, volume>>
    BY <1>CreateFacts, Zenon DEF sidecars
  <2>2. call'[c].pc = p /\ call'[c].s = s /\ call'[c].size \in Nat /\ call'[c].want \in Nat
    BY <2>1, Zenon DEF Sets, Fits
  <2>3. CreateOK(c)'
    BY <2>1, <2>2, Zenon DEF CreateOK, Granted
  <2>4. QED
    BY <2>1, <2>2, <2>3, Zenon DEF Fits, Sets

\* It goes on to the next request.
<1>CreateNext.
  ASSUME SingleInv, AnswerInv, NEW c \in Creates, call[c].pc \notin {"idle", "start"}, NEW p,
         Step(c, p), p # "start",
         p \in Working => call[c].s \in Shares /\ Named \subseteq {call[c].s},
         p \in Using => share[call[c].s].st = "available",
         p = "answer" => Granted(call[c].s),
         p = "rollback" => share[call[c].s].st = "error" \/ "error stays" \in doubts,
         p # "rolled back"
  PROVE  AnswerInv'
  <2> USE <1>CreateNext
  <2>0. UNCHANGED <<manila, awaited, sidecars, doubts, share, kind>> /\ c \in Calls
    BY <1>CreateFacts, Zenon DEF Step, manila, others
  <2>1. Sets(c, p, call[c].s, call[c].size, call[c].want)
    BY <2>0, CallSets, Zenon DEF Step, SingleInv
  <2>a. Named' = Named /\ share' = share /\ kind' = kind /\ doubts' = doubts
    BY <2>0, Zenon DEF Named
  <2>b. p = "answer" => IF kind'.nfs THEN share'[call[c].s].right # "none"
                                     ELSE share'[call[c].s].right = "active"
    BY <2>a, Zenon DEF Granted
  <2>2. Fits(c)' /\ \A d \in Calls \ {c} : call'[d] = call[d]
    BY <2>0, <2>1, <2>a, <2>b, <1>CreateFits, Zenon
  <2>3. QED
    BY <2>0, <2>2, <1>CreateReads, Zenon

\* It has found its share.
<1>FoundNext.
  ASSUME SingleInv, AnswerInv, NEW c \in Creates, call[c].pc \notin {"idle", "start"},
         NEW s \in Named, NEW p \in {"wait", "access"}, call' = [call EXCEPT ![c].pc = p, ![c].s = s],
         p = "access" => share[s].st = "available",
         UNCHANGED <<manila, pending, awaited, sidecars, doubts, troubles>>
  PROVE  AnswerInv'
  <2> USE <1>FoundNext
  <2>0. UNCHANGED <<share, kind>> /\ c \in Calls /\ s \in Shares /\ Named' \subseteq {s}
    BY <1>CreateFacts, Zenon DEF manila, others, Named, SingleInv, NameInv
  <2>1. Sets(c, p, s, call[c].size, call[c].want)
    BY <2>0, CallSets, Zenon DEF SingleInv
  <2>2. Fits(c)' /\ \A d \in Calls \ {c} : call'[d] = call[d]
    BY <2>0, <2>1, <1>CreateFits, Zenon DEF Using
  <2>3. QED
    BY <2>2, <1>CreateReads, Zenon

\* An available share of the name is the one that was asked for.
<1>GotNext.
  ASSUME SingleInv, AnswerInv, NEW c \in Creates, call[c].pc \notin {"idle", "start"},
         NEW s \in Shares, share[s].st = "available", Got(c, s)
  PROVE  AnswerInv'
  <2> USE <1>GotNext
  <2>1. s \in Named /\ share[s].size = 1
    BY <1>CreateFacts, Zenon DEF Named
  <2>2. QED
    BY <2>1, <1>FoundNext, Zenon DEF Got

\* The source snapshot.
<1>GetSourceSnapshotAnswer.
  ASSUME SingleInv, AnswerInv, NEW c \in Creates, GetSourceSnapshot(c)
  PROVE  AnswerInv'
  <2> USE <1>GetSourceSnapshotAnswer
  <2>0. call[c].pc = "restore"
    BY Zenon DEF GetSourceSnapshot, At
  <2>1. CASE Step(c, "byname")
    BY <2>0, <2>1, <1>CreateNext, Zenon DEF Working, Using
  <2>2. CASE Return(c, "Unavailable")
    <3>1. ~Final("Unavailable")
      BY Zenon DEF Final
    <3>2. QED
      BY <2>0, <2>2, <3>1, <1>CreateReads, Zenon DEF Return
  <2>3. ASSUME NEW code, Fail(c, code), UNCHANGED <<manila, troubles>>,
               doubts' = IF Named = {} THEN doubts ELSE doubts \cup {"source gone"}
        PROVE  AnswerInv'
    <3>1. UNCHANGED <<share, kind, snapshot>> /\ doubts \subseteq doubts' /\ UNCHANGED volume
      BY <2>3, Zenon DEF manila, others, Fail
    <3>2. doubts' \subseteq {"lost snapshot"} => \A s \in Shares : share'[s].st \in {"none", "deleting"}
      BY <2>3, <3>1, Zenon DEF Named
    <3>3. \A s \in Shares : ShareOK(s)'
      BY <3>1, SameShares, Zenon
    <3>4. QED
      BY <2>0, <2>3, <3>1, <3>2, <3>3, <1>CreateFails, Zenon
  <2>4. CASE Fault(c) /\ UNCHANGED manila
    BY <2>0, <2>4, <1>CreateReads, Zenon
  <2>5. QED
    BY <2>1, <2>2, <2>3, <2>4, Zenon DEF GetSourceSnapshot

\* The look-up: two shares of the name cannot be found.
<1>GetShareByNameAnswer.
  ASSUME SingleInv, AnswerInv, NEW c \in Creates, GetShareByName(c), Cardinality(Named) \in {0, 1}
  PROVE  AnswerInv'
  <2> USE <1>GetShareByNameAnswer
  <2>0. call[c].pc = "byname" /\ Named \subseteq Shares
    BY Zenon DEF GetShareByName, At, Named
  <2>1. CASE Step(c, "create")
    BY <2>0, <2>1, <1>CreateNext, Zenon DEF Working, Using
  <2>2. ~(Cardinality(Named) > 1)
    OBVIOUS
  <2>3. ASSUME NEW s \in Named, share[s].st = "available", Got(c, s) PROVE AnswerInv'
    BY <2>0, <2>3, <1>GotNext, Zenon
  <2>4. ASSUME NEW s \in Named, call' = [call EXCEPT ![c].pc = "wait", ![c].s = s],
               UNCHANGED <<manila, pending, awaited, sidecars, doubts, troubles>>
        PROVE  AnswerInv'
    BY <2>0, <2>4, <1>FoundNext, Zenon
  <2>5. CASE Fault(c) /\ UNCHANGED manila
    BY <2>0, <2>5, <1>CreateReads, Zenon
  <2>6. QED
    BY <2>1, <2>2, <2>3, <2>4, <2>5, Zenon DEF GetShareByName

\* The share is created.
<1>CreateShareAnswer.
  ASSUME SingleInv, AnswerInv, NEW c \in Creates, CreateShare(c)
  PROVE  AnswerInv'
  <2> USE <1>CreateShareAnswer
  <2>0. call[c].pc = "create" /\ volume = 0 /\ c \in Calls /\ Named = {}
    BY <1>CreateFacts, Zenon DEF CreateShare, At, SingleInv, NameInv
  <2>1. CASE Fault(c) /\ UNCHANGED manila
    BY <2>0, <2>1, <1>CreateReads, Zenon
  <2>2. ASSUME NEW s \in Shares, share' = [share EXCEPT ![s] = NewShare], UNCHANGED others,
               \/ /\ call' = [call EXCEPT ![c].pc = "wait", ![c].s = s]
                  /\ UNCHANGED <<pending, awaited, sidecars, doubts, troubles>>
               \/ Fault(c)
        PROVE  AnswerInv'
    <3>1. Becoming(s, "creating", 1, 0, "none", "none") /\ UNCHANGED <<kind, snapshot>>
      BY <2>2, RequestBecomes, Zenon DEF SingleInv, others
    <3>2. doubts \subseteq doubts' /\ UNCHANGED volume
      BY <2>2, Zenon DEF Fault, Fail, sidecars
    <3>3. \A t \in Shares : ShareOK(t)'
      <4> SUFFICES ASSUME NEW t \in Shares PROVE ShareOK(t)'
        BY Zenon
      <4>1. ShareOK(t) /\ (t # s => share'[t] = share[t])
        BY <3>1, Zenon DEF AnswerInv, Becoming
      <4>2. CASE t # s
        BY <3>2, <4>1, <4>2, Zenon DEF ShareOK, InError
      <4>3. CASE t = s
        <5>1. /\ share'[t].st = "creating" /\ share'[t].size = 1 /\ share'[t].to = 0 /\ share'[t].code = "none"
              /\ volume' = 0
          BY <2>0, <3>1, <3>2, <4>3, Zenon DEF Becoming
        <5>2. QED
          BY <5>1 DEF ShareOK, InError, States
      <4>4. QED
        BY <4>2, <4>3, Zenon
    <3>4. CASE Fault(c)
      BY <2>0, <3>1, <3>3, <3>4, <1>CreateFaults, Zenon
    <3>5. CASE /\ call' = [call EXCEPT ![c].pc = "wait", ![c].s = s]
               /\ UNCHANGED <<pending, awaited, sidecars, doubts, troubles>>
      <4>1. Sets(c, "wait", s, call[c].size, call[c].want)
        BY <2>0, <3>5, CallSets, Zenon DEF SingleInv
      <4>2. Named' \subseteq {s}
        BY <2>0, <3>1 DEF Becoming, Named
      <4>3. Fits(c)' /\ \A d \in Calls \ {c} : call'[d] = call[d]
        BY <2>0, <3>5, <4>1, <4>2, <1>CreateFits, Zenon DEF Using
      <4>4. QED
        BY <2>0, <3>1, <3>3, <3>5, <4>3, <1>CreateGoes, Zenon
    <3>6. QED
      BY <2>2, <3>4, <3>5, Zenon
  <2>3. QED
    BY <2>1, <2>2, Zenon DEF CreateShare

\* The wait for the share: what it does not know is in doubt.
<1>WaitForShareStatusAnswer.
  ASSUME SingleInv, AnswerInv, NEW c \in Creates, WaitForShareStatus(c)
  PROVE  AnswerInv'
  <2> USE <1>WaitForShareStatusAnswer
  <2> DEFINE s == call[c].s
  <2>0. call[c].pc = "wait" /\ s \in Shares /\ Named \subseteq {s} /\ volume = 0 /\ ShareOK(s)
    BY <1>CreateFacts, Zenon DEF WaitForShareStatus, At, CreateOK, Working, AnswerInv
  <2>1. CASE share[s].st = "available" /\ Got(c, s)
    BY <2>0, <2>1, <1>GotNext, Zenon
  <2>2. CASE TimedOut(c)
    BY <2>0, <2>2, <1>CreateReads, Zenon DEF TimedOut
  <2>3. CASE InError(s) /\ share[s].code = "known" /\ Step(c, "rollback")
    <3>1. share[s].st = "error" \/ "error stays" \in doubts
      BY <2>0, <2>3, Zenon DEF ShareOK, InError
    <3>2. QED
      BY <2>0, <2>3, <3>1, <1>CreateNext, Zenon DEF Using
  <2>4. CASE InError(s) /\ share[s].code = "unknown" /\ Return(c, "Internal")
    <3>1. "error stays" \in doubts
      BY <2>0, <2>4, Zenon DEF ShareOK, InError
    <3>2. QED
      BY <2>0, <2>4, <3>1, <1>CreateReads, Zenon DEF Return
  <2>5. CASE share[s].st \notin {"available", "creating"} /\ ~InError(s) /\ Return(c, "Internal")
    <3>1. share[s].st \in {"none", "deleting"}
      BY <2>0, <2>5, Zenon DEF ShareOK, InError, States
    <3>2. \A t \in Shares : share[t].st \in {"none", "deleting"}
      BY <2>0, <3>1, Zenon DEF Named
    <3>3. QED
      BY <2>0, <2>5, <3>2, <1>CreateReads, Zenon DEF Return
  <2>6. CASE Fault(c) /\ UNCHANGED manila
    BY <2>0, <2>6, <1>CreateReads, Zenon
  <2>7. QED
    BY <2>1, <2>2, <2>3, <2>4, <2>5, <2>6, Zenon DEF WaitForShareStatus

\* The roll-back is asked for.
<1>TryDeleteShareAnswer.
  ASSUME SingleInv, AnswerInv, NEW c \in Creates, TryDeleteShare(c)
  PROVE  AnswerInv'
  <2> USE <1>TryDeleteShareAnswer
  <2> DEFINE s == call[c].s
  <2>0. /\ call[c].pc = "rollback" /\ s \in Shares /\ Named \subseteq {s} /\ volume = 0 /\ c \in Calls
        /\ share[s].st = "error" \/ "error stays" \in doubts
    BY <1>CreateFacts, Zenon DEF TryDeleteShare, At, CreateOK, Working
  <2>1. CASE Fault(c) /\ UNCHANGED manila
    BY <2>0, <2>1, <1>CreateReads, Zenon
  <2>2. ASSUME ~MayDelete(s), NEW code, Return(c, code) PROVE AnswerInv'
    <3>1. s # volume
      <4>1. s \in Shares /\ volume = 0
        BY <2>0, Zenon
      <4>2. QED
        BY <4>1 DEF Shares
    <3>2. "error stays" \in doubts
      BY <2>0, <2>2, <3>1, Zenon DEF MayDelete
    <3>3. QED
      BY <2>0, <2>2, <3>2, <1>CreateReads, Zenon DEF Return
  <2>3. CASE /\ MayDelete(s) /\ share' = [share EXCEPT ![s].st = "deleting"] /\ UNCHANGED others
             /\ Goto(c, "rolled back") /\ UNCHANGED <<pending, awaited, sidecars, doubts, troubles>>
    <3>1. /\ Becoming(s, "deleting", share[s].size, share[s].to, share[s].code, share[s].right)
          /\ UNCHANGED <<kind, snapshot, volume>>
      BY <2>0, <2>3, RequestBecomes, Zenon DEF SingleInv, others, sidecars
    <3>2. share[s].st # "none"
      BY <2>3, Zenon DEF MayDelete
    <3>3. \A t \in Shares : ShareOK(t)'
      <4> SUFFICES ASSUME NEW t \in Shares PROVE ShareOK(t)'
        BY Zenon
      <4>0. UNCHANGED doubts
        BY <2>3, Zenon
      <4>1. ShareOK(t) /\ (t # s => share'[t] = share[t])
        BY <3>1, Zenon DEF AnswerInv, Becoming
      <4>2. CASE t # s
        BY <3>1, <4>0, <4>1, <4>2, Zenon DEF ShareOK, InError
      <4>3. CASE t = s
        <5>1. /\ share'[t].st = "deleting" /\ share'[t].size = share[t].size /\ share'[t].to = share[t].to
              /\ share'[t].code = share[t].code /\ volume' = volume /\ volume = 0
          BY <2>0, <3>1, <4>3, Zenon DEF Becoming
        <5>2. QED
          BY <3>2, <4>0, <4>1, <4>3, <5>1, Zenon DEF ShareOK, InError, States
      <4>4. QED
        BY <4>2, <4>3, Zenon
    <3>4. Named' \subseteq {s}
      BY <2>0, <3>1, <3>2, Zenon DEF Becoming, Named
    <3>5. Sets(c, "rolled back", s, call[c].size, call[c].want)
      BY <2>0, <2>3, CallSets, Zenon DEF SingleInv
    <3>6. share'[s].st = "deleting"
      BY <3>1, Zenon DEF Becoming
    <3>7. Fits(c)' /\ \A d \in Calls \ {c} : call'[d] = call[d]
      BY <2>0, <2>3, <3>4, <3>5, <3>6, <1>CreateFits, Zenon DEF Using
    <3>8. QED
      BY <2>0, <2>3, <3>1, <3>3, <3>7, <1>CreateGoes, Zenon
  <2>4. QED
    BY <2>1, <2>2, <2>3, Zenon DEF TryDeleteShare

\* The roll-back is over, or is left to Manila.
<1>RolledBackAnswer.
  ASSUME SingleInv, AnswerInv, NEW c \in Creates, RolledBack(c)
  PROVE  AnswerInv'
  <2> USE <1>RolledBackAnswer
  <2> DEFINE s == call[c].s
  <2>0. /\ call[c].pc = "rolled back" /\ s \in Shares /\ Named \subseteq {s}
        /\ share[s].st \in {"none", "deleting"} \/ "error stays" \in doubts
    BY <1>CreateFacts, Zenon DEF RolledBack, At, CreateOK, Working
  <2>1. "error stays" \in doubts \/ \A t \in Shares : share[t].st \in {"none", "deleting"}
    BY <2>0, Zenon DEF Named
  <2>2. PICK code : Fail(c, code) /\ UNCHANGED <<manila, doubts>>
    BY Zenon DEF RolledBack, Return
  <2>3. QED
    BY <2>0, <2>1, <2>2, <1>CreateReads, Zenon

\* The access right.
<1>AccessAnswer.
  ASSUME SingleInv, AnswerInv, NEW c \in Creates,
         GetAccessRights(c) \/ NFSGetAccessRights(c) \/ WaitForKey(c)
  PROVE  AnswerInv'
  <2> USE <1>AccessAnswer
  <2> DEFINE s == call[c].s
  <2>0. call[c].pc \in {"access", "key"}
    BY Zenon DEF GetAccessRights, NFSGetAccessRights, WaitForKey, At
  <2>1. s \in Shares /\ Named \subseteq {s} /\ share[s].st = "available"
    BY <2>0, <1>CreateFacts, Zenon DEF CreateOK, Working, Using
  <2>2. ASSUME NEW p \in {"answer", "key", "grant"}, Step(c, p), p = "answer" => Granted(s)
        PROVE  AnswerInv'
    BY <2>0, <2>1, <2>2, <1>CreateNext, Zenon
  <2>3. CASE Fault(c) /\ UNCHANGED manila
    BY <2>0, <2>3, <1>CreateReads, Zenon
  <2>4. CASE GetAccessRights(c)
    <3>1. CASE share[s].right = "active" /\ Step(c, "answer")
      BY <2>2, <2>4, <3>1, Zenon DEF GetAccessRights, Granted
    <3>2. CASE Step(c, "key") \/ Step(c, "grant")
      BY <2>2, <3>2, Zenon
    <3>3. QED
      BY <2>3, <2>4, <3>1, <3>2, Zenon DEF GetAccessRights
  <2>5. CASE NFSGetAccessRights(c)
    <3>1. CASE share[s].right # "none" /\ Step(c, "answer")
      BY <2>2, <2>5, <3>1 DEF NFSGetAccessRights, Granted
    <3>2. CASE Step(c, "grant")
      BY <2>2, <3>2, Zenon
    <3>3. QED
      BY <2>3, <2>5, <3>1, <3>2, Zenon DEF NFSGetAccessRights
  <2>6. CASE WaitForKey(c)
    <3>1. CASE share[s].right = "active" /\ Step(c, "answer")
      BY <2>2, <3>1, Zenon DEF Granted
    <3>2. CASE TimedOut(c)
      BY <2>0, <3>2, <1>CreateReads, Zenon DEF TimedOut
    <3>3. CASE Return(c, "DeadlineExceeded")
      <4>1. ~Final("DeadlineExceeded")
        BY Zenon DEF Final
      <4>2. QED
        BY <2>0, <3>3, <4>1, <1>CreateReads, Zenon DEF Return
    <3>4. QED
      BY <2>3, <2>6, <3>1, <3>2, <3>3, Zenon DEF WaitForKey
  <2>7. QED
    BY <2>4, <2>5, <2>6, Zenon

\* The grant of access.
<1>GrantAccessAnswer.
  ASSUME SingleInv, AnswerInv, NEW c \in Creates, GrantAccess(c)
  PROVE  AnswerInv'
  <2> USE <1>GrantAccessAnswer
  <2> DEFINE s == call[c].s
  <2>0. call[c].pc = "grant"
    BY Zenon DEF GrantAccess, At
  <2>1. s \in Shares /\ Named \subseteq {s} /\ share[s].st = "available" /\ c \in Calls
    BY <2>0, <1>CreateFacts, Zenon DEF CreateOK, Working, Using
  <2>2. CASE Fault(c) /\ UNCHANGED manila
    BY <2>0, <2>2, <1>CreateReads, Zenon
  <2>3. ASSUME share' = [share EXCEPT ![s].right = "queued"], UNCHANGED others,
               \/ /\ Goto(c, IF kind.nfs THEN "answer" ELSE "key")
                  /\ UNCHANGED <<pending, awaited, sidecars, doubts, troubles>>
               \/ Fault(c)
        PROVE  AnswerInv'
    <3>1. /\ Becoming(s, share[s].st, share[s].size, share[s].to, share[s].code, "queued")
          /\ UNCHANGED <<kind, snapshot>>
      BY <2>1, <2>3, RequestBecomes, Zenon DEF SingleInv, others
    <3>2. doubts \subseteq doubts' /\ UNCHANGED volume
      BY <2>3, Zenon DEF Fault, Fail, sidecars
    <3>3. \A t \in Shares : ShareOK(t)'
      <4> SUFFICES ASSUME NEW t \in Shares PROVE ShareOK(t)'
        BY Zenon
      <4>1. /\ share'[t].st = share[t].st /\ share'[t].size = share[t].size
            /\ share'[t].to = share[t].to /\ share'[t].code = share[t].code
        BY <3>1, Zenon DEF Becoming
      <4>2. ShareOK(t)
        BY Zenon DEF AnswerInv
      <4>3. QED
        BY <3>2, <4>1, <4>2, Zenon DEF ShareOK, InError
    <3>4. CASE Fault(c)
      BY <2>0, <3>1, <3>3, <3>4, <1>CreateFaults, Zenon
    <3>5. CASE /\ Goto(c, IF kind.nfs THEN "answer" ELSE "key")
               /\ UNCHANGED <<pending, awaited, sidecars, doubts, troubles>>
      <4>1. PICK p \in {"answer", "key"} : Goto(c, p) /\ (p = "answer" => kind.nfs)
        BY <3>5, Zenon
      <4>2. Sets(c, p, s, call[c].size, call[c].want)
        BY <2>1, <4>1, CallSets, Zenon DEF SingleInv
      <4>3. Named' \subseteq {s} /\ share'[s].st = "available" /\ share'[s].right = "queued"
        BY <2>1, <3>1, Zenon DEF Becoming, Named
      <4>4. Fits(c)' /\ \A d \in Calls \ {c} : call'[d] = call[d]
        BY <2>0, <2>1, <3>1, <3>5, <4>1, <4>2, <4>3, <1>CreateFits, Zenon
      <4>5. QED
        BY <2>0, <3>1, <3>3, <3>5, <4>4, <1>CreateGoes, Zenon
    <3>6. QED
      BY <2>3, <3>4, <3>5, Zenon
  <2>4. QED
    BY <2>2, <2>3, Zenon DEF GrantAccess

\* The answer: the share becomes the volume.
<1>CreateAnswerAnswer.
  ASSUME SingleInv, AnswerInv, NEW c \in Creates, CreateAnswer(c)
  PROVE  AnswerInv'
  <2> USE <1>CreateAnswerAnswer
  <2> DEFINE s == call[c].s
  <2>0. call[c].pc = "answer" /\ UNCHANGED <<share, kind, snapshot, maybe, expanded, content, doubts>>
    BY Zenon DEF CreateAnswer, At, manila, others
  <2>1. /\ s \in Shares /\ Named \subseteq {s} /\ share[s].st = "available" /\ Granted(s) /\ c \in Calls
        /\ volume = 0 /\ pvc \in {"wanted", "unwanted"} /\ ClaimOK /\ \A t \in Named : share[t].size = 1
    BY <2>0, <1>CreateFacts, Zenon DEF CreateOK, Working, Using, AnswerInv
  <2>2. Sets(c, "idle", 0, 0, 0) /\ awaited' = awaited \ {c}
    BY <2>1, CallSets, Zenon DEF CreateAnswer, SingleInv
  <2>3. Fits(c)' /\ \A d \in Calls \ {c} : call'[d] = call[d]
    BY <2>1, <2>2, IdleFits, Zenon DEF Sets
  <2>4. \A d \in Calls \ {c} : Fits(d)'
    BY <2>0, <2>2, <2>3, <1>CreateOthers, Zenon DEF CreateAnswer
  <2>5. ContentOK' /\ AwaitOK'
    BY <2>0, <2>2, SameContent, SameAwait, Zenon
  <2>6. CASE c \in awaited
    <3>1. volume' = s /\ pvc' = (IF pvc = "wanted" THEN "bound" ELSE "released")
      BY <2>6, Zenon DEF CreateAnswer
    <3>2. \A t \in Shares : ShareOK(t)'
      <4> SUFFICES ASSUME NEW t \in Shares PROVE ShareOK(t)'
        BY Zenon
      <4>1. ShareOK(t) /\ (share[t].st # "none" => t = s) /\ s # 0 /\ share[s].st = "available"
        BY <2>1 DEF AnswerInv, Named, Shares
      <4>2. QED
        BY <2>0, <3>1, <4>1, Zenon DEF ShareOK, InError
    <3>3. ClaimOK'
      <4>1. s # 0
        BY <2>1 DEF Shares
      <4>2. share[s].size = 1 /\ expanded = 1
        BY <2>1, Zenon DEF Named, ClaimOK
      <4>3. /\ volume' = s /\ pvc' \in {"bound", "released"} /\ maybe' \in BOOLEAN
            /\ share' = share /\ kind' = kind /\ share[s].st = "available" /\ Granted(s)
        BY <2>0, <2>1, <3>1, Zenon DEF ClaimOK
      <4>4. share'[s].size >= expanded' /\ expanded' \in Nat
        <5>1. share'[s].size = 1 /\ expanded' = 1
          BY <2>0, <4>2, Zenon
        <5>2. QED
          BY <5>1
      <4>5. pvc' \notin {"gone", "wanted", "unwanted"} /\ s \in Shares \cup {0}
        BY <2>1, <4>3, Zenon
      <4>6. QED
        BY <4>1, <4>3, <4>4, <4>5, Zenon DEF ClaimOK, Granted
    <3>4. QED
      BY <2>3, <2>4, <2>5, <3>2, <3>3, Zenon DEF AnswerInv
  <2>7. CASE c \notin awaited
    <3>1. UNCHANGED <<volume, pvc>>
      BY <2>7, Zenon DEF CreateAnswer
    <3>2. (\A t \in Shares : ShareOK(t)') /\ ClaimOK'
      BY <2>0, <3>1, SameShares, SameClaim
    <3>3. QED
      BY <2>3, <2>4, <2>5, <3>2, Zenon DEF AnswerInv
  <2>8. QED
    BY <2>6, <2>7, Zenon

\* LoadOrStore lets CreateVolume in, or it returns Aborted.
<1>StartCreateAnswer.
  ASSUME SingleInv, AnswerInv, NEW c \in Creates, StartCreate(c)
  PROVE  AnswerInv'
  <2> USE <1>StartCreateAnswer
  <2>0. /\ c \in Calls /\ c \notin Expands /\ c \notin Snaps /\ c \notin {"delete", "unsnap"}
        /\ call[c].pc = "start" /\ Fits(c) /\ CreateOK(c) /\ maybe = TRUE /\ pvc \in {"wanted", "unwanted"}
    BY Zenon DEF Calls, Creates, Expands, Snaps, StartCreate, At, AnswerInv, Fits, CreateOK, ClaimOK
  <2>1. ASSUME NEW p \in {"byname", "restore"}, Goto(c, p), pending' = pending \cup {c},
               UNCHANGED <<manila, awaited, sidecars, doubts, troubles>>
        PROVE  AnswerInv'
    <3>1. Sets(c, p, call[c].s, call[c].size, call[c].want)
      BY <2>0, <2>1, CallSets, Zenon DEF SingleInv
    <3>2. CreateOK(c)'
      BY <2>0, <2>1, <3>1, Zenon DEF CreateOK, Sets, Working, Using, sidecars
    <3>3. Fits(c)' /\ \A d \in Calls \ {c} : call'[d] = call[d]
      BY <2>0, <3>1, <3>2, Zenon DEF Fits, Sets
    <3>4. QED
      BY <2>0, <2>1, <3>3, QuietAnswer
  <2>2. CASE Return(c, "Aborted")
    <3>1. /\ Sets(c, "idle", 0, 0, 0) /\ pending' = pending \ {c} /\ awaited' = awaited \ {c}
          /\ UNCHANGED <<volume, expanded, content, manila, doubts>>
      BY <2>0, <2>2, FailSets, Zenon DEF SingleInv, Return
    <3>2. ~Final("Aborted")
      BY Zenon DEF Final
    <3>3. UNCHANGED <<pvc, maybe>>
      BY <2>0, <2>2, <3>2, Zenon DEF Return, Fail
    <3>4. Fits(c)' /\ \A d \in Calls \ {c} : call'[d] = call[d]
      BY <2>0, <3>1, IdleFits, Zenon DEF Sets
    <3>5. QED
      BY <2>0, <3>1, <3>3, <3>4, QuietAnswer, Zenon DEF sidecars
  <2>3. QED
    BY <2>1, <2>2, Zenon DEF StartCreate, LoadOrStore
<1>1. QED
  BY <1>StartCreateAnswer, <1>GetSourceSnapshotAnswer, <1>GetShareByNameAnswer, <1>CreateShareAnswer,
     <1>WaitForShareStatusAnswer, <1>TryDeleteShareAnswer, <1>RolledBackAnswer, <1>AccessAnswer,
     <1>GrantAccessAnswer, <1>CreateAnswerAnswer, Zenon

-----------------------------------------------------------------------------
(* ControllerExpandVolume and DeleteVolume *)

\* The steps of ControllerExpandVolume and DeleteVolume keep AnswerInv.
LEMMA ExpandDeleteAnswer ==
  ASSUME SingleInv, AnswerInv,
         \/ \E c \in Expands : GetShareByID(c) \/ StartExpand(c) \/ ExtendShare(c) \/ WaitForExtended(c)
         \/ DeleteVolume
  PROVE  AnswerInv'
\* While they run there is a volume, and CreateVolume is over.
<1>VolumeFacts.
  ASSUME SingleInv, AnswerInv, NEW c \in Expands \cup {"delete"}, call[c].pc # "idle"
  PROVE  /\ c \in Calls \ Creates /\ c \notin Snaps /\ c # "unsnap" /\ Fits(c)
         /\ c \in Expands => ExpandOK(c) /\ c # "delete"
         /\ c = "delete" => c \notin Expands /\ pvc = "released"
         /\ volume \in Shares /\ volume # 0 /\ ShareOK(volume) /\ ClaimOK
  <2> USE <1>VolumeFacts
  <2>1. c \in Calls \ Creates /\ c \notin Snaps /\ c # "unsnap" /\ (c \in Expands <=> c # "delete")
    BY Zenon DEF Calls, Creates, Expands, Snaps
  <2>2. Fits(c) /\ ClaimOK
    BY <2>1, Zenon DEF AnswerInv
  <2>3. volume # 0
    BY <2>1, <2>2, Zenon DEF Fits, ExpandOK, ClaimOK
  <2>4. volume \in Shares
    BY <2>2, <2>3, Zenon DEF ClaimOK
  <2>5. QED
    BY <2>1, <2>2, <2>3, <2>4, Zenon DEF Fits, AnswerInv

\* A request of theirs on the volume is no concern of other calls: one extension at a
\* time is under way, and the share keeps its size.
<1>VolumeOthers.
  ASSUME SingleInv, AnswerInv, NEW c \in Expands \cup {"delete"}, call[c].pc # "idle", NEW d \in Calls \ {c},
         \A e \in Calls \ {c} : call'[e] = call[e], UNCHANGED <<kind, volume, content>>,
         share'[volume].size = share[volume].size,
         \/ share'[volume].st = share[volume].st /\ share'[volume].to = share[volume].to
         \/ share'[volume].st = "deleting" /\ share[volume].st # "none"
         \/ c \in Expands /\ c \in pending /\ share[volume].st # "none",
         awaited' \in {awaited, awaited \ {c}}, pending \ {c} \subseteq pending', doubts \subseteq doubts',
         UNCHANGED pvc \/ c = "delete"
  PROVE  Fits(d)'
  <2> USE <1>VolumeOthers
  <2>0. Fits(d) /\ call'[d] = call[d] /\ (d \in awaited => d \in awaited') /\ (d \in pending => d \in pending')
        /\ call'["unsnap"] = call["unsnap"]
    BY <1>VolumeFacts, Zenon DEF AnswerInv, Calls
  <2>1. d \in Creates => CreateOK(d)'
    <3>1. d \in Creates => call[d].pc = "idle"
      BY <2>0, <1>VolumeFacts, Zenon DEF Fits, CreateOK
    <3>2. QED
      BY <2>0, <3>1, Zenon DEF CreateOK, Working, Using
  <2>2. d \in Expands => ExpandOK(d)'
    <3>1. d \in Expands => ExpandOK(d)
      BY <2>0, Zenon DEF Fits
    <3>2. c \in Expands /\ c \in pending /\ d \in Expands => d \notin pending
      BY Zenon DEF SingleInv, PendingInv
    <3>3. QED
      BY <2>0, <3>1, <3>2, Zenon DEF ExpandOK
  <2>3. d \in Snaps => SnapOK(d)'
    BY <2>0, Zenon DEF Fits, SnapOK
  <2>4. QED
    BY <2>0, <2>1, <2>2, <2>3 DEF Fits

\* The volume is read, before the entry in pendingVolumes is made.
<1>GetShareByIDAnswer.
  ASSUME SingleInv, AnswerInv, NEW c \in Expands, GetShareByID(c)
  PROVE  AnswerInv'
  <2> USE <1>GetShareByIDAnswer
  <2>0. call[c].pc = "get"
    BY Zenon DEF GetShareByID, At
  <2>f. /\ c \in Calls \ Creates /\ c \notin Snaps /\ c \notin {"delete", "unsnap"} /\ Fits(c) /\ volume # 0
        /\ ShareOK(volume)
    BY <2>0, <1>VolumeFacts, Zenon
  <2>1. CASE (\E code : Return(c, code)) \/ (Fault(c) /\ UNCHANGED manila)
    BY <2>1, <2>f, EndAnswer, Zenon
  <2>2. CASE /\ call' = [call EXCEPT ![c].pc = "lock", ![c].s = volume, ![c].size = share[volume].size]
             /\ UNCHANGED <<manila, pending, awaited, sidecars, doubts, troubles>>
    <3>1. Sets(c, "lock", volume, share[volume].size, call[c].want)
      BY <2>2, <2>f, CallSets, Zenon DEF SingleInv
    <3>2. UNCHANGED <<share, volume>>
      BY <2>2, Zenon DEF manila, sidecars
    <3>3. ExpandOK(c)'
      <4>1. /\ call'[c].pc = "lock" /\ call'[c].s = volume /\ call'[c].size = share[volume].size
            /\ share' = share /\ volume' = volume /\ volume # 0
        BY <2>f, <3>1, <3>2, Zenon DEF Sets
      <4>2. share[volume].size \in Nat
        BY <2>f, Zenon DEF ShareOK
      <4>3. share[volume].size <= share[volume].size
        BY <4>2
      <4>4. QED
        BY <4>1, <4>3, Zenon DEF ExpandOK
    <3>4. Fits(c)' /\ \A d \in Calls \ {c} : call'[d] = call[d]
      BY <2>f, <3>1, <3>3, Zenon DEF Fits, Sets, ShareOK
    <3>5. QED
      BY <2>2, <2>f, <3>4, QuietAnswer, Zenon
  <2>3. QED
    BY <2>1, <2>2, Zenon DEF GetShareByID

\* LoadOrStore lets ControllerExpandVolume in, or it returns Aborted.
<1>StartExpandAnswer.
  ASSUME SingleInv, AnswerInv, NEW c \in Expands, StartExpand(c)
  PROVE  AnswerInv'
  <2> USE <1>StartExpandAnswer
  <2>0. call[c].pc = "lock"
    BY Zenon DEF StartExpand, At
  <2>f. /\ c \in Calls \ Creates /\ c \notin Snaps /\ c \notin {"delete", "unsnap"} /\ Fits(c) /\ ExpandOK(c)
    BY <2>0, <1>VolumeFacts, Zenon
  <2>1. CASE Return(c, "Aborted")
    BY <2>1, <2>f, EndAnswer, Zenon
  <2>2. CASE /\ pending' = pending \cup {c} /\ Goto(c, "extend")
             /\ UNCHANGED <<manila, awaited, sidecars, doubts, troubles>>
    <3>1. Sets(c, "extend", call[c].s, call[c].size, call[c].want)
      BY <2>2, <2>f, CallSets, Zenon DEF SingleInv
    <3>2. UNCHANGED <<share, volume>>
      BY <2>2, Zenon DEF manila, sidecars
    <3>3. ExpandOK(c)'
      BY <2>0, <2>2, <2>f, <3>1, <3>2, Zenon DEF ExpandOK, Sets
    <3>4. Fits(c)' /\ \A d \in Calls \ {c} : call'[d] = call[d]
      BY <2>f, <3>1, <3>3, Zenon DEF Fits, Sets
    <3>5. QED
      BY <2>2, <2>f, <3>4, QuietAnswer, Zenon
  <2>3. QED
    BY <2>1, <2>2, Zenon DEF StartExpand, LoadOrStore

\* The answer of ControllerExpandVolume is true.
<1>ExpandAnswerAnswer.
  ASSUME SingleInv, AnswerInv, NEW c \in Expands, call[c].pc # "idle", ExpandAnswer(c),
         pvc = "bound" => share[volume].size >= call[c].want
  PROVE  AnswerInv'
  <2> USE <1>ExpandAnswerAnswer
  <2>f. c \in Calls \ Creates /\ c \notin {"delete", "unsnap"} /\ Fits(c) /\ volume # 0 /\ ClaimOK
    BY <1>VolumeFacts, Zenon
  <2>0. UNCHANGED <<share, kind, snapshot, pvc, maybe, volume, content, doubts>>
    BY Zenon DEF ExpandAnswer, manila, others
  <2>1. Sets(c, "idle", 0, 0, 0) /\ pending' = pending \ {c} /\ awaited' = awaited \ {c}
    BY <2>f, CallSets, Zenon DEF ExpandAnswer, SingleInv
  <2>2. Fits(c)' /\ call'["unsnap"] = call["unsnap"] /\ \A d \in Calls \ {c} : call'[d] = call[d]
    BY <2>f, <2>1, IdleFits, Zenon DEF Sets, Calls
  <2>3. \A d \in Calls \ {c} : Fits(d)'
    BY <2>0, <2>1, <2>2, SameFits, Zenon
  <2>4. (\A t \in Shares : ShareOK(t)') /\ ContentOK' /\ AwaitOK'
    BY <2>0, <2>1, SameShares, SameContent, SameAwait, Zenon
  <2>5. expanded' \in {expanded, call[c].want} /\ call[c].want \in Nat
    BY <2>f, Zenon DEF ExpandAnswer, Fits
  <2>6. ClaimOK'
    BY <2>0, <2>5, <2>f, Zenon DEF ClaimOK, Granted
  <2>7. QED
    BY <2>2, <2>3, <2>4, <2>6, Zenon DEF AnswerInv

\* What happens to the claim when the volume's share changes.
<1>VolumeShares.
  ASSUME SingleInv, AnswerInv, volume # 0, NEW st, NEW to,
         Becoming(volume, st, share[volume].size, to, share[volume].code, share[volume].right),
         share[volume].st \in {"available", "error"}, doubts \subseteq doubts', UNCHANGED volume,
         \/ st = "extending" /\ to \in Nat /\ to > share[volume].size
         \/ st = "deleting" /\ to \in Nat
  PROVE  \A s \in Shares : ShareOK(s)'
  <2> USE <1>VolumeShares
  <2> SUFFICES ASSUME NEW s \in Shares PROVE ShareOK(s)'
    BY Zenon
  <2>1. ShareOK(s) /\ (s # volume => share'[s] = share[s])
    BY Zenon DEF AnswerInv, Becoming
  <2>2. CASE s # volume
    BY <2>1, <2>2, Zenon DEF ShareOK, InError
  <2>3. CASE s = volume
    <3>1. /\ share'[s].st = st /\ share'[s].size = share[s].size /\ share'[s].to = to
          /\ share'[s].code = share[s].code
      BY <2>3, Zenon DEF Becoming
    <3>2. st \in States /\ st # "error_deleting" /\ ~InError(s)'
      BY <2>3, <3>1, Zenon DEF States, InError
    <3>3. QED
      BY <2>1, <2>3, <3>1, <3>2, Zenon DEF ShareOK
  <2>4. QED
    BY <2>2, <2>3, Zenon

\* The request to extend the volume, for which the size read before the entry was
\* made decides.
<1>ExtendShareAnswer.
  ASSUME SingleInv, AnswerInv, NEW c \in Expands, ExtendShare(c)
  PROVE  AnswerInv'
  <2> USE <1>ExtendShareAnswer
  <2>0. call[c].pc = "extend"
    BY Zenon DEF ExtendShare, At
  <2>f. /\ c \in Calls \ Creates /\ c \notin Snaps /\ c \notin {"delete", "unsnap"} /\ Fits(c) /\ ExpandOK(c)
        /\ volume \in Shares /\ volume # 0 /\ ShareOK(volume) /\ ClaimOK
    BY <2>0, <1>VolumeFacts, Zenon
  <2>g. /\ call[c].s = volume /\ (share[volume].st # "none" => call[c].size <= share[volume].size) /\ c \in pending
        /\ call[c].size \in Nat /\ call[c].want \in Nat /\ share[volume].size \in Nat
    BY <2>0, <2>f, Zenon DEF ExpandOK, Fits, ShareOK
  <2>1. CASE (\E code : Return(c, code)) \/ (Fault(c) /\ UNCHANGED manila)
    BY <2>1, <2>f, EndAnswer, Zenon
  <2>2. CASE call[c].size >= call[c].want /\ ExpandAnswer(c)
    <3>1. pvc = "bound" => share[volume].st # "none"
      BY <2>f, Zenon DEF ClaimOK
    <3>2. pvc = "bound" => share[volume].size >= call[c].want
      BY <2>2, <2>g, <3>1
    <3>3. QED
      BY <2>0, <2>2, <3>2, <1>ExpandAnswerAnswer, Zenon
  <2>3. CASE /\ share[volume].st = "available" /\ call[c].want > share[volume].size
             /\ share' = [share EXCEPT ![volume].st = "extending", ![volume].to = call[c].want]
             /\ UNCHANGED others
             /\ \/ Goto(c, "extending") /\ UNCHANGED <<pending, awaited, sidecars, doubts, troubles>>
                \/ Fault(c)
    <3>1. /\ Becoming(volume, "extending", share[volume].size, call[c].want, share[volume].code, share[volume].right)
          /\ UNCHANGED <<kind, snapshot>>
      BY <2>3, <2>f, RequestBecomes, Zenon DEF SingleInv, others
    <3>2. /\ Sets(c, "idle", 0, 0, 0) \/ Sets(c, "extending", call[c].s, call[c].size, call[c].want)
          /\ UNCHANGED <<pvc, maybe, volume, expanded, content>> /\ doubts \subseteq doubts'
          /\ awaited' \in {awaited, awaited \ {c}} /\ pending \ {c} \subseteq pending'
          /\ call'[c].pc # "idle" => c \in pending'
      <4>1. CASE Goto(c, "extending") /\ UNCHANGED <<pending, awaited, sidecars, doubts, troubles>>
        <5>1. Sets(c, "extending", call[c].s, call[c].size, call[c].want)
          BY <4>1, <2>f, CallSets, Zenon DEF SingleInv
        <5>2. QED
          BY <5>1, <4>1, <2>g, Zenon DEF sidecars
      <4>2. CASE Fault(c)
        <5>1. Fail(c, "Internal") /\ doubts \subseteq doubts'
          BY <4>2, Zenon DEF Fault
        <5>2. Sets(c, "idle", 0, 0, 0) /\ call'[c].pc = "idle"
          BY <5>1, <2>f, FailSets, Zenon DEF SingleInv, Sets
        <5>3. QED
          BY <5>1, <5>2, <2>f, FailSets, Zenon DEF SingleInv
      <4>3. QED
        BY <2>3, <4>1, <4>2, Zenon
    <3>3. \A s \in Shares : ShareOK(s)'
      BY <2>3, <2>f, <2>g, <3>1, <3>2, <1>VolumeShares, Zenon
    <3>4. Fits(c)' /\ \A e \in Calls \ {c} : call'[e] = call[e]
      <4>1. CASE Sets(c, "idle", 0, 0, 0)
        BY <4>1, <2>f, IdleFits, Zenon DEF Sets
      <4>2. CASE Sets(c, "extending", call[c].s, call[c].size, call[c].want)
        <5>1. ExpandOK(c)'
          BY <2>3, <2>f, <2>g, <3>1, <3>2, <4>2 DEF ExpandOK, Sets, Becoming
        <5>2. QED
          BY <2>f, <2>g, <4>2, <5>1, Zenon DEF Fits, Sets
      <4>3. QED
        BY <3>2, <4>1, <4>2, Zenon
    <3>5. \A d \in Calls \ {c} : Fits(d)'
      BY <2>0, <2>3, <2>g, <3>1, <3>2, <3>4, <1>VolumeOthers, Zenon DEF Becoming
    <3>6. ClaimOK'
      <4>1. /\ share'[volume].st = "extending" /\ share'[volume].size = share[volume].size
            /\ share'[volume].right = share[volume].right /\ pvc \in {"bound", "released", "gone"}
            /\ ~(pvc = "gone" /\ doubts \subseteq {"lost snapshot"})
        BY <2>3, <2>f, <3>1, Zenon DEF Becoming, ClaimOK
      <4>2. QED
        BY <2>3, <2>f, <3>1, <3>2, <4>1, Zenon DEF ClaimOK, Granted
    <3>7. ContentOK' /\ AwaitOK'
      BY <3>1, <3>2, SameContent, SameAwait, Zenon
    <3>8. QED
      BY <3>3, <3>4, <3>5, <3>6, <3>7, Zenon DEF AnswerInv
  <2>4. QED
    BY <2>1, <2>2, <2>3, <2>g, Zenon DEF ExtendShare

\* When the driver dies all calls are over.
<1>PanicAnswer. ASSUME AnswerInv, Panic PROVE AnswerInv'
  <2> USE <1>PanicAnswer
  <2>0. UNCHANGED <<share, kind, snapshot, pvc, maybe, volume, expanded, content, doubts>> /\ awaited' = {}
    BY Zenon DEF Panic, manila, others, sidecars
  <2>1. \A c \in Calls : Fits(c)'
    <3> SUFFICES ASSUME NEW c \in Calls PROVE Fits(c)'
      BY Zenon
    <3>1. call'[c].pc = "idle" /\ call'[c].size = 0 /\ call'[c].want = 0
      BY Zenon DEF Panic, Idle
    <3>2. CreateOK(c)' /\ ExpandOK(c)' /\ SnapOK(c)'
      BY <3>1, Zenon DEF CreateOK, ExpandOK, SnapOK, Working, Using
    <3>3. QED
      BY <3>1, <3>2 DEF Fits
  <2>2. (\A s \in Shares : ShareOK(s)') /\ ClaimOK' /\ ContentOK' /\ AwaitOK'
    BY <2>0, SameShares, SameClaim, SameContent, SameAwait, Zenon
  <2>3. QED
    BY <2>1, <2>2, Zenon DEF AnswerInv

\* The wait for the extension.
<1>WaitForExtendedAnswer.
  ASSUME SingleInv, AnswerInv, NEW c \in Expands, WaitForExtended(c)
  PROVE  AnswerInv'
  <2> USE <1>WaitForExtendedAnswer
  <2>0. call[c].pc = "extending"
    BY Zenon DEF WaitForExtended, At
  <2>f. c \in Calls \ Creates /\ ExpandOK(c)
    BY <2>0, <1>VolumeFacts, Zenon
  <2>1. CASE TimedOut(c) \/ \E code : Return(c, code)
    BY <2>1, <2>f, EndAnswer, Zenon
  <2>2. CASE Panic
    BY <2>2, <1>PanicAnswer, Zenon
  <2>3. CASE share[call[c].s].st = "available" /\ ExpandAnswer(c)
    <3>1. share[volume].size >= call[c].want
      BY <2>0, <2>3, <2>f, Zenon DEF ExpandOK
    <3>2. QED
      BY <2>0, <2>3, <3>1, <1>ExpandAnswerAnswer, Zenon
  <2>4. QED
    BY <2>1, <2>2, <2>3, Zenon DEF WaitForExtended

\* The answer of DeleteVolume: the share goes, whatever calls of ControllerExpandVolume
\* still wait for it.
<1>DeleteVolumeAnswer.
  ASSUME SingleInv, AnswerInv, DeleteVolume
  PROVE  AnswerInv'
  <2> USE <1>DeleteVolumeAnswer
  <2> DEFINE c == "delete"
  <2>0. call[c].pc = "delete"
    BY Zenon DEF DeleteVolume, At
  <2>f. /\ c \in Calls \ Creates /\ c \notin Snaps /\ c \notin Expands /\ pvc = "released"
        /\ volume \in Shares /\ volume # 0 /\ ShareOK(volume) /\ ClaimOK
    BY <2>0, <1>VolumeFacts, Zenon
  <2>1. CASE (\E code : Return(c, code)) \/ (Fault(c) /\ UNCHANGED manila)
    BY <2>1, <2>f, EndAnswer, Zenon
  <2>2. CASE /\ share[volume].st = "none" \/ MayDelete(volume)
             /\ share' = [share EXCEPT ![volume] = IF MayDelete(volume) THEN [@ EXCEPT !.st = "deleting"] ELSE @]
             /\ UNCHANGED others
             /\ \/ /\ call' = [call EXCEPT ![c] = Idle] /\ awaited' = awaited \ {c}
                   /\ pvc' = IF c \in awaited THEN "gone" ELSE pvc
                   /\ UNCHANGED <<pending, maybe, volume, expanded, content, doubts, troubles>>
                \/ Fault(c)
    <3>0. UNCHANGED <<kind, snapshot>>
      BY <2>2, Zenon DEF others
    <3>1. /\ share'[volume].size = share[volume].size /\ share'[volume].right = share[volume].right
          /\ share'[volume].st \in {"none", "deleting"} /\ (share[volume].st = "none" => share'[volume].st = "none")
          /\ \A s \in Shares : ShareOK(s)' /\ (s # volume => share'[s] = share[s])
      <4>0. doubts \subseteq doubts' /\ UNCHANGED volume
        BY <2>2, Zenon DEF Fault, Fail
      <4>1. CASE MayDelete(volume)
        <5>1. share' = [share EXCEPT ![volume].st = "deleting"] /\ share[volume].st \in {"available", "error"}
          BY <2>2, <4>1, Zenon DEF MayDelete
        <5>2. Becoming(volume, "deleting", share[volume].size, share[volume].to, share[volume].code, share[volume].right)
          BY <5>1, <2>f, RequestBecomes, Zenon DEF SingleInv
        <5>3. \A s \in Shares : ShareOK(s)'
          BY <2>f, <4>0, <5>1, <5>2, <1>VolumeShares, Zenon DEF ShareOK
        <5>4. QED
          BY <5>1, <5>2, <5>3, Zenon DEF Becoming
      <4>2. CASE ~MayDelete(volume)
        <5>1. UNCHANGED share /\ share[volume].st = "none"
          BY <2>2, <4>2, Zenon DEF SingleInv, SharesInv
        <5>2. QED
          BY <5>1, <4>0, SameShares, Zenon
      <4>3. QED
        BY <4>1, <4>2, Zenon
    <3>2. /\ Sets(c, "idle", 0, 0, 0) /\ UNCHANGED <<maybe, volume, expanded, content>>
          /\ doubts \subseteq doubts' /\ awaited' = awaited \ {c} /\ pending \ {c} \subseteq pending'
          /\ pvc' \in {"released", "gone"}
      <4>1. CASE Fault(c)
        <5>1. Fail(c, "Internal") /\ doubts \subseteq doubts'
          BY <4>1, Zenon DEF Fault
        <5>2. QED
          BY <5>1, <2>f, FailSets, Zenon DEF SingleInv
      <4>2. CASE /\ call' = [call EXCEPT ![c] = Idle] /\ awaited' = awaited \ {c}
                 /\ pvc' = IF c \in awaited THEN "gone" ELSE pvc
                 /\ UNCHANGED <<pending, maybe, volume, expanded, content, doubts, troubles>>
        BY <4>2, <2>f, CallSets, Zenon DEF SingleInv
      <4>3. QED
        BY <2>2, <4>1, <4>2, Zenon
    <3>3. Fits(c)' /\ \A e \in Calls \ {c} : call'[e] = call[e]
      BY <2>f, <3>2, IdleFits, Zenon DEF Sets
    <3>4. \A d \in Calls \ {c} : Fits(d)'
      <4>1. \/ share'[volume].st = share[volume].st /\ share'[volume].to = share[volume].to
            \/ share'[volume].st = "deleting" /\ share[volume].st # "none"
        BY <2>2, <2>f, <3>1 DEF SingleInv, SharesInv
      <4>2. QED
        BY <2>0, <3>0, <3>1, <3>2, <3>3, <4>1, <1>VolumeOthers, Zenon
    <3>5. ClaimOK'
      <4>1. \A s \in Shares : share'[s].st \in {"none", "deleting"}
        BY <3>1, <2>f, Zenon DEF AnswerInv, ShareOK
      <4>2. QED
        BY <2>f, <3>0, <3>1, <3>2, <4>1, Zenon DEF ClaimOK, Granted
    <3>6. ContentOK' /\ AwaitOK'
      BY <3>0, <3>2, SameContent, SameAwait, Zenon
    <3>7. QED
      BY <3>1, <3>3, <3>4, <3>5, <3>6, Zenon DEF AnswerInv
  <2>3. QED
    BY <2>1, <2>2, Zenon DEF DeleteVolume
<1>1. QED
  BY <1>GetShareByIDAnswer, <1>StartExpandAnswer, <1>ExtendShareAnswer, <1>WaitForExtendedAnswer,
     <1>DeleteVolumeAnswer, Zenon

-----------------------------------------------------------------------------
(* CreateSnapshot and DeleteSnapshot *)

\* The steps of CreateSnapshot and DeleteSnapshot keep AnswerInv.
LEMMA SnapshotsAnswer ==
  ASSUME SingleInv, AnswerInv,
         \/ \E c \in Snaps : \/ StartSnapshot(c) \/ GetSourceShare(c) \/ GetSnapshotByName(c)
                             \/ CreateSnapshot(c) \/ TryDeleteSnapshot(c) \/ WaitSnapshotDeleted(c)
         \/ DeleteSnapshot
  PROVE  AnswerInv'
\* While CreateSnapshot runs the snapshot is neither ready nor unheard of.
<1>SnapFacts.
  ASSUME SingleInv, AnswerInv, NEW c \in Snaps, call[c].pc # "idle"
  PROVE  /\ c \in Calls \ Creates /\ c \notin Expands /\ c \notin {"delete", "unsnap"}
         /\ Fits(c) /\ SnapOK(c) /\ content.st \in {"wanted", "released", "gone"} /\ ContentOK
  <2> USE <1>SnapFacts
  <2>1. c \in Calls \ Creates /\ c \notin Expands /\ c \notin {"delete", "unsnap"}
    BY Zenon DEF Calls, Creates, Expands, Snaps
  <2>2. Fits(c) /\ SnapOK(c) /\ ContentOK
    BY <2>1, Zenon DEF AnswerInv, Fits
  <2>3. QED
    BY <2>1, <2>2, Zenon DEF SnapOK, ContentOK

\* CreateSnapshot goes on, and keeps the shares as they are.
<1>SnapGoes.
  ASSUME SingleInv, AnswerInv, NEW c \in Snaps, call[c].pc # "idle", NEW p, NEW s, p # "start",
         Sets(c, p, s, call[c].size, call[c].want), UNCHANGED <<share, kind, awaited, sidecars, doubts>>,
         pending \ {c} \subseteq pending', ContentOK'
  PROVE  AnswerInv'
  <2> USE <1>SnapGoes
  <2>f. c \in Calls \ Creates /\ c \notin Expands /\ c \notin {"delete", "unsnap"} /\ Fits(c) /\ SnapOK(c)
    BY <1>SnapFacts, Zenon
  <2>1. call'[c].pc = p /\ call'["unsnap"] = call["unsnap"] /\ \A d \in Calls \ {c} : call'[d] = call[d]
    BY <2>f DEF Sets, Calls
  <2>2. SnapOK(c)'
    BY <2>f, <2>1, Zenon DEF SnapOK, sidecars
  <2>3. Fits(c)'
    BY <2>f, <2>2 DEF Fits, Sets
  <2>4. QED
    BY <2>f, <2>1, <2>3, ContentAnswer, Zenon

\* The same, and nothing happens to the snapshots.
<1>SnapNext.
  ASSUME SingleInv, AnswerInv, NEW c \in Snaps, call[c].pc # "idle", NEW p, NEW s, p # "start",
         Goto(c, p) \/ call' = [call EXCEPT ![c].pc = p, ![c].s = s],
         UNCHANGED <<manila, awaited, sidecars, doubts>>, pending \ {c} \subseteq pending'
  PROVE  AnswerInv'
  <2> USE <1>SnapNext
  <2>0. UNCHANGED <<share, kind, snapshot, content>>
    BY Zenon DEF manila, others, sidecars
  <2>1. ContentOK'
    BY <2>0, SameContent, Zenon
  <2>2. PICK t : Sets(c, p, t, call[c].size, call[c].want)
    BY <1>SnapFacts, CallSets, Zenon DEF SingleInv
  <2>3. QED
    BY <2>0, <2>1, <2>2, <1>SnapGoes, Zenon

\* LoadOrStore lets CreateSnapshot in, or it returns Aborted; the volume is looked up.
<1>StartSnapshotAnswer.
  ASSUME SingleInv, AnswerInv, NEW c \in Snaps, StartSnapshot(c) \/ GetSourceShare(c)
  PROVE  AnswerInv'
  <2> USE <1>StartSnapshotAnswer
  <2>0. call[c].pc # "idle"
    BY Zenon DEF StartSnapshot, GetSourceShare, At
  <2>f. c \in Calls \ Creates
    BY <2>0, <1>SnapFacts, Zenon
  <2>1. CASE (\E code : Return(c, code)) \/ (Fault(c) /\ UNCHANGED manila)
    BY <2>1, <2>f, EndAnswer, Zenon
  <2>2. ASSUME NEW p \in {"parent", "snapshot"}, Goto(c, p), pending \subseteq pending',
               UNCHANGED <<manila, awaited, sidecars, doubts>>
        PROVE  AnswerInv'
    BY <2>0, <2>2, <1>SnapNext, Zenon
  <2>3. CASE StartSnapshot(c)
    BY <2>1, <2>2, <2>3, Zenon DEF StartSnapshot, LoadOrStore
  <2>4. CASE GetSourceShare(c)
    BY <2>1, <2>2, <2>4, Zenon DEF GetSourceShare, Step
  <2>5. QED
    BY <2>3, <2>4, Zenon

\* The answer of CreateSnapshot, which becomes the id of the content.
<1>SnapshotAnswerAnswer.
  ASSUME SingleInv, AnswerInv, NEW c \in Snaps, call[c].pc \notin {"idle", "start"}, NEW s \in Shares,
         NEW r \in BOOLEAN, SnapshotAnswer(c, s, r), UNCHANGED <<share, kind>>,
         r => snapshot'[s] = "available",
         "lost snapshot" \notin doubts => NamedSnaps' \subseteq {s}
  PROVE  AnswerInv'
  <2> USE <1>SnapshotAnswerAnswer
  <2>f. /\ c \in Calls \ Creates /\ c \notin Expands /\ c \notin {"delete", "unsnap"} /\ SnapOK(c)
        /\ content.st \in {"wanted", "released", "gone"} /\ ContentOK /\ c \in pending
    BY <1>SnapFacts, Zenon DEF SingleInv, PendingInv
  <2>0. UNCHANGED <<pvc, maybe, volume, expanded, doubts>> /\ pending' = pending \ {c} /\ awaited' = awaited \ {c}
    BY Zenon DEF SnapshotAnswer
  <2>1. Sets(c, "idle", 0, 0, 0)
    BY <2>f, CallSets, Zenon DEF SnapshotAnswer, SingleInv
  <2>2. Fits(c)' /\ call'["unsnap"] = call["unsnap"] /\ \A d \in Calls \ {c} : call'[d] = call[d]
    BY <2>f, <2>1, IdleFits, Zenon DEF Sets, Calls
  <2>3. (\A t \in Shares : ShareOK(t)') /\ ClaimOK' /\ AwaitOK'
    BY <2>0, SameShares, SameClaim, SameAwait, Zenon
  <2>4. CASE c \notin awaited
    <3>1. UNCHANGED content /\ "lost snapshot" \in doubts
      BY <2>4, <2>f, Zenon DEF SnapshotAnswer, SnapOK
    <3>2. \A d \in Calls \ {c} : Fits(d)'
      BY <2>0, <2>2, <3>1, SameFits, Zenon
    <3>3. ContentOK'
      BY <2>0, <2>f, <3>1, Zenon DEF ContentOK
    <3>4. QED
      BY <2>2, <2>3, <3>2, <3>3, Zenon DEF AnswerInv
  <2>5. CASE c \in awaited
    <3>1. /\ content' = [st |-> content'.st, id |-> s] /\ content'.id = s
          /\ content'.st \in {content.st, "ready"}
          /\ content.st = "released" => content'.st = "released"
          /\ content'.st = "ready" => r
          /\ content'.st = "gone" => content.st = "gone"
      BY <2>5, <2>f, Zenon DEF SnapshotAnswer
    <3>2. \A d \in Snaps \ {c} : call[d].pc = "idle"
      <4> SUFFICES ASSUME NEW d \in Snaps \ {c} PROVE call[d].pc = "idle"
        BY Zenon
      <4>0. {c, d} \subseteq Snaps /\ c # d
        BY Zenon
      <4>1. d \notin pending
        BY <2>f, <4>0, Zenon DEF SingleInv, PendingInv
      <4>2. d \notin awaited
        BY <2>5, <4>0, Zenon DEF AnswerInv, AwaitOK
      <4>3. SnapOK(d)
        BY Zenon DEF AnswerInv, Fits, Calls
      <4>4. QED
        BY <4>1, <4>2, <4>3, Zenon DEF SingleInv, PendingInv, SnapOK
    <3>3. \A d \in Calls \ {c} : Fits(d)'
      <4> SUFFICES ASSUME NEW d \in Calls \ {c} PROVE Fits(d)'
        BY Zenon
      <4>1. Fits(d) /\ call'[d] = call[d] /\ (d \in awaited' <=> d \in awaited) /\ (d \in pending' <=> d \in pending)
        BY <2>0, <2>2, Zenon DEF AnswerInv
      <4>2. d \in Creates => CreateOK(d)'
        BY <2>0, <4>1, Zenon DEF Fits, CreateOK, Granted, Named
      <4>3. d \in Expands => ExpandOK(d)'
        BY <2>0, <4>1, Zenon DEF Fits, ExpandOK
      <4>4. d \in Snaps => SnapOK(d)'
        BY <3>2, <4>1, Zenon DEF SnapOK
      <4>5. QED
        BY <2>0, <3>1, <4>1, <4>2, <4>3, <4>4, Zenon DEF Fits
    <3>4. ContentOK'
      <4>1. "lost snapshot" \notin doubts => content.st # "gone"
        BY <2>f, Zenon DEF SnapOK
      <4>2. QED
        BY <2>0, <2>f, <3>1, <4>1, Zenon DEF ContentOK, NamedSnaps
    <3>5. QED
      BY <2>2, <2>3, <3>3, <3>4, Zenon DEF AnswerInv
  <2>6. QED
    BY <2>4, <2>5, Zenon

\* The snapshot is looked up by its name.
<1>GetSnapshotByNameAnswer.
  ASSUME SingleInv, AnswerInv, NEW c \in Snaps, GetSnapshotByName(c)
  PROVE  AnswerInv'
  <2> USE <1>GetSnapshotByNameAnswer
  <2>0. call[c].pc = "snapshot" /\ c \in Calls \ Creates
    BY <1>SnapFacts, Zenon DEF GetSnapshotByName, At
  <2>1. CASE (\E code : Return(c, code)) \/ (Fault(c) /\ UNCHANGED manila)
    BY <2>0, <2>1, EndAnswer, Zenon
  <2>2. CASE Step(c, "take")
    BY <2>0, <2>2, <1>SnapNext, Zenon DEF Step
  <2>3. ASSUME NEW s \in NamedSnaps, call' = [call EXCEPT ![c].pc = "untake", ![c].s = s],
               UNCHANGED <<manila, pending, awaited, sidecars, doubts, troubles>>
        PROVE  AnswerInv'
    BY <2>0, <2>3, <1>SnapNext, Zenon
  <2>4. ASSUME NEW s \in NamedSnaps, SnapshotAnswer(c, s, snapshot[s] = "available"), UNCHANGED manila
        PROVE  AnswerInv'
    <3>1. s \in Shares /\ UNCHANGED <<share, kind, snapshot>> /\ NamedSnaps' \subseteq {s}
      BY <2>4, Zenon DEF NamedSnaps, manila, others, SingleInv, NameInv
    <3>2. QED
      BY <2>0, <2>4, <3>1, <1>SnapshotAnswerAnswer, Zenon
  <2>5. QED
    BY <2>1, <2>2, <2>3, <2>4, Zenon DEF GetSnapshotByName

\* The snapshot is created; when the answer is lost it may stay.
<1>CreateSnapshotAnswer.
  ASSUME SingleInv, AnswerInv, NEW c \in Snaps, CreateSnapshot(c)
  PROVE  AnswerInv'
  <2> USE <1>CreateSnapshotAnswer
  <2>0. call[c].pc = "take" /\ c \in Calls \ Creates /\ NamedSnaps = {} /\ content.st \notin {"none", "ready"}
    BY <1>SnapFacts, Zenon DEF CreateSnapshot, At, SingleInv, NameInv
  <2>1. CASE (\E code : Return(c, code)) \/ (Fault(c) /\ UNCHANGED manila)
    BY <2>0, <2>1, EndAnswer, Zenon
  <2>2. ASSUME NEW s \in Shares, snapshot' = [snapshot EXCEPT ![s] = "creating"],
               UNCHANGED <<share, kind, source>>, SnapshotAnswer(c, s, FALSE) \/ Fault(c)
        PROVE  AnswerInv'
    <3>1. CASE SnapshotAnswer(c, s, FALSE)
      <4>1. NamedSnaps' \subseteq {s}
        BY <2>0, <2>2, Zenon DEF NamedSnaps, SingleInv, SharesInv
      <4>2. QED
        BY <2>0, <2>2, <3>1, <4>1, <1>SnapshotAnswerAnswer, Zenon
    <3>2. CASE Fault(c)
      <4>1. Fail(c, "Internal") /\ doubts' = doubts \cup {"lost snapshot"} /\ UNCHANGED content
        BY <2>0, <3>2, Zenon DEF Fault, Fail
      <4>2. ContentOK'
        BY <2>0, <2>2, <4>1, SnapshotContent, Zenon
      <4>3. QED
        BY <2>0, <2>2, <4>1, <4>2, FailAnswer, Zenon
    <3>3. QED
      BY <2>2, <3>1, <3>2, Zenon
  <2>3. QED
    BY <2>1, <2>2, Zenon DEF CreateSnapshot

\* A snapshot in error is deleted again.
<1>TryDeleteSnapshotAnswer.
  ASSUME SingleInv, AnswerInv, NEW c \in Snaps, TryDeleteSnapshot(c) \/ WaitSnapshotDeleted(c)
  PROVE  AnswerInv'
  <2> USE <1>TryDeleteSnapshotAnswer
  <2>0. call[c].pc # "idle"
    BY Zenon DEF TryDeleteSnapshot, WaitSnapshotDeleted, At
  <2>f. c \in Calls \ Creates /\ SnapOK(c)
    BY <2>0, <1>SnapFacts, Zenon
  <2>1. CASE WaitSnapshotDeleted(c)
    BY <2>1, <2>f, EndAnswer, Zenon DEF WaitSnapshotDeleted
  <2>2. CASE Goto(c, "untaken") /\ UNCHANGED <<manila, pending, awaited, sidecars, doubts>>
    BY <2>0, <2>2, <1>SnapNext, Zenon
  <2>3. CASE /\ MayDeleteSnapshot(call[c].s)
             /\ snapshot' = [snapshot EXCEPT ![call[c].s] = "deleting"]
             /\ Goto(c, "untaken")
             /\ UNCHANGED <<share, kind, source, pending, awaited, sidecars, doubts, troubles>>
    <3>1. snapshot[call[c].s] # "none" /\ UNCHANGED content /\ content.st # "ready"
      BY <2>0, <2>3, <2>f, Zenon DEF MayDeleteSnapshot, sidecars, SnapOK
    <3>2. ContentOK'
      BY <2>3, <3>1, SnapshotContent, Zenon
    <3>3. Sets(c, "untaken", call[c].s, call[c].size, call[c].want)
      BY <2>3, <2>f, CallSets, Zenon DEF SingleInv
    <3>4. QED
      BY <2>0, <2>3, <3>2, <3>3, <1>SnapGoes, Zenon
  <2>4. CASE TryDeleteSnapshot(c)
    BY <2>2, <2>3, <2>4, Zenon DEF TryDeleteSnapshot, Step
  <2>5. QED
    BY <2>1, <2>4, Zenon

\* The answer of DeleteSnapshot: the snapshot goes, and no call of CreateSnapshot is
\* there to make another.
<1>DeleteSnapshotAnswer.
  ASSUME SingleInv, AnswerInv, DeleteSnapshot
  PROVE  AnswerInv'
  <2> USE <1>DeleteSnapshotAnswer
  <2> DEFINE c == "unsnap"
             s == content.id
  <2>0. call[c].pc # "idle" /\ c \in Calls \ Creates /\ c \notin Snaps /\ c \notin Expands /\ c # "delete"
    BY Zenon DEF DeleteSnapshot, At, Calls, Creates, Snaps, Expands
  <2>f. content.st = "released" /\ s \in Shares /\ ContentOK
    BY <2>0, Zenon DEF AnswerInv, Fits, ContentOK
  <2>1. CASE (\E code : Return(c, code)) \/ (Fault(c) /\ UNCHANGED manila)
    BY <2>0, <2>1, EndAnswer, Zenon
  <2>2. CASE /\ snapshot[s] = "none" \/ MayDeleteSnapshot(s)
             /\ snapshot' = [snapshot EXCEPT ![s] = IF MayDeleteSnapshot(s) THEN "deleting" ELSE @]
             /\ UNCHANGED <<share, kind, source>>
             /\ \/ /\ call' = [call EXCEPT ![c] = Idle] /\ awaited' = awaited \ {c}
                   /\ content' = IF c \in awaited THEN [content EXCEPT !.st = "gone"] ELSE content
                   /\ UNCHANGED <<pending, pvc, maybe, volume, expanded, doubts, troubles>>
                \/ Fault(c)
    <3>1. /\ snapshot'[s] \in {"none", "deleting"} /\ (snapshot[s] = "none" => snapshot'[s] = "none")
          /\ \A t \in Shares \ {s} : snapshot'[t] = snapshot[t]
      BY <2>2, <2>f, Zenon DEF SingleInv, SharesInv, MayDeleteSnapshot
    <3>2. NamedSnaps' \subseteq NamedSnaps
      BY <3>1, Zenon DEF NamedSnaps
    <3>3. CASE Fault(c)
      <4>1. Fail(c, "Internal") /\ doubts' = doubts /\ UNCHANGED content
        BY <2>0, <3>3, Zenon DEF Fault, Fail
      <4>2. ContentOK'
        BY <2>f, <3>1, <3>2, <4>1, Zenon DEF ContentOK
      <4>3. QED
        BY <2>0, <2>2, <4>1, <4>2, FailAnswer, Zenon
    <3>4. CASE /\ call' = [call EXCEPT ![c] = Idle] /\ awaited' = awaited \ {c}
               /\ content' = IF c \in awaited THEN [content EXCEPT !.st = "gone"] ELSE content
               /\ UNCHANGED <<pending, pvc, maybe, volume, expanded, doubts, troubles>>
      <4>1. Sets(c, "idle", 0, 0, 0)
        BY <2>0, <3>4, CallSets, Zenon DEF SingleInv
      <4>2. Fits(c)' /\ call'[c].pc = "idle" /\ \A d \in Calls \ {c} : call'[d] = call[d]
        BY <2>0, <4>1, IdleFits, Zenon DEF Sets
      <4>3. content' = [st |-> content'.st, id |-> s] /\ content'.id = s /\ content'.st \in {"released", "gone"}
        BY <2>f, <3>4, Zenon DEF ContentOK
      <4>4. \A d \in Calls \ {c} : Fits(d)'
        <5> SUFFICES ASSUME NEW d \in Calls \ {c} PROVE Fits(d)'
          BY Zenon
        <5>1. Fits(d) /\ call'[d] = call[d] /\ (d \in awaited' <=> d \in awaited) /\ pending' = pending
          BY <3>4, <4>2, Zenon DEF AnswerInv
        <5>2. d \in Creates => CreateOK(d)'
          BY <2>2, <3>4, <5>1, Zenon DEF Fits, CreateOK, Granted, Named
        <5>3. d \in Expands => ExpandOK(d)'
          BY <2>2, <3>4, <5>1, Zenon DEF Fits, ExpandOK
        <5>4. d \in Snaps => SnapOK(d)'
          <6>1. d \in Snaps /\ "lost snapshot" \notin doubts => call[d].pc = "idle"
            BY <2>0, <5>1, Zenon DEF Fits, SnapOK
          <6>2. QED
            BY <3>4, <4>3, <5>1, <6>1, Zenon DEF Fits, SnapOK
        <5>5. QED
          BY <3>4, <5>1, <5>2, <5>3, <5>4, Zenon DEF Fits
      <4>5. ContentOK'
        BY <2>f, <3>1, <3>2, <3>4, <4>3, Zenon DEF ContentOK
      <4>6. (\A t \in Shares : ShareOK(t)') /\ ClaimOK' /\ AwaitOK'
        BY <2>2, <3>4, SameShares, SameClaim, SameAwait, Zenon
      <4>7. QED
        BY <4>2, <4>4, <4>5, <4>6, Zenon DEF AnswerInv
    <3>5. QED
      BY <2>2, <3>3, <3>4, Zenon
  <2>3. QED
    BY <2>1, <2>2, Zenon DEF DeleteSnapshot
<1>1. QED
  BY <1>StartSnapshotAnswer, <1>GetSnapshotByNameAnswer, <1>CreateSnapshotAnswer,
     <1>TryDeleteSnapshotAnswer, <1>DeleteSnapshotAnswer, Zenon

-----------------------------------------------------------------------------
(* Manila *)

\* How Manila changes a share: it ends the operation that it was asked for, in an
\* error or not.
Works(s, st, size, to, code, right) ==
  \/ /\ st = share[s].st /\ size = share[s].size /\ to = share[s].to /\ code = share[s].code
     /\ share[s].right = "queued" /\ right \in {"active", "error"}
  \/ /\ share[s].st = "creating" /\ st = "available"
     /\ size = share[s].size /\ to = share[s].to /\ code = share[s].code /\ right = share[s].right
  \/ /\ share[s].st = "extending" /\ st = "available"
     /\ size = share[s].to /\ to = share[s].to /\ code = share[s].code /\ right = share[s].right
  \/ share[s].st = "deleting" /\ st = "none" /\ size = 0 /\ to = 0
  \/ /\ \/ share[s].st = "creating" /\ st = "error"
        \/ share[s].st = "extending" /\ st = "extending_error"
        \/ share[s].st = "deleting" /\ st = "error_deleting"
     /\ size = share[s].size /\ to = share[s].to /\ right = share[s].right /\ code \in {"known", "unknown"}
     /\ code = "unknown" \/ st = "error_deleting" => "error stays" \in doubts'

\* Manila's own steps keep AnswerInv.
LEMMA ManilaAnswer ==
  ASSUME SingleInv, AnswerInv, \E s \in Shares : ManilaStep(s) \/ ManilaFails(s)
  PROVE  AnswerInv'
\* The shares fit what Manila does.
<1>WorksShares.
  ASSUME SingleInv, AnswerInv, NEW s \in Shares, NEW st, NEW size, NEW to, NEW code, NEW right,
         Becoming(s, st, size, to, code, right), Works(s, st, size, to, code, right),
         doubts \subseteq doubts', UNCHANGED volume
  PROVE  \A t \in Shares : ShareOK(t)'
  <2> USE <1>WorksShares
  <2> SUFFICES ASSUME NEW t \in Shares PROVE ShareOK(t)'
    BY Zenon
  <2>1. ShareOK(t) /\ (t # s => share'[t] = share[t])
    BY Zenon DEF AnswerInv, Becoming
  <2>2. CASE t # s
    BY <2>1, <2>2, Zenon DEF ShareOK, InError
  <2>3. CASE t = s
    <3>1. share'[t].st = st /\ share'[t].size = size /\ share'[t].to = to /\ share'[t].code = code
      BY <2>3, Zenon DEF Becoming
    <3>2. QED
      <4>1. CASE st = share[t].st /\ size = share[t].size /\ to = share[t].to /\ code = share[t].code
        BY <2>1, <3>1, <4>1, Zenon DEF ShareOK, InError
      <4>2. CASE /\ share[t].st \in {"creating", "extending"} /\ st = "available" /\ to = share[t].to
                 /\ size = (IF share[t].st = "creating" THEN share[t].size ELSE share[t].to)
                 /\ code = share[t].code
        BY <2>1, <3>1, <4>2, Zenon DEF ShareOK, InError, States
      <4>3. CASE st = "none" /\ size = 0 /\ to = 0
        BY <3>1, <4>3 DEF ShareOK, InError, States
      <4>4. CASE /\ \/ share[t].st = "creating" /\ st = "error"
                    \/ share[t].st = "extending" /\ st = "extending_error"
                    \/ share[t].st = "deleting" /\ st = "error_deleting"
                 /\ size = share[t].size /\ to = share[t].to /\ code \in {"known", "unknown"}
                 /\ code = "unknown" \/ st = "error_deleting" => "error stays" \in doubts'
        BY <2>1, <3>1, <4>4, Zenon DEF ShareOK, States
      <4>5. QED
        BY <2>3, <4>1, <4>2, <4>3, <4>4, Zenon DEF Works
  <2>4. QED
    BY <2>2, <2>3, Zenon

\* So does the claim.
<1>WorksClaim.
  ASSUME SingleInv, AnswerInv, NEW s \in Shares, NEW st, NEW size, NEW to, NEW code, NEW right,
         Becoming(s, st, size, to, code, right), Works(s, st, size, to, code, right),
         doubts \subseteq doubts', UNCHANGED <<kind, pvc, maybe, volume, expanded>>
  PROVE  ClaimOK'
  <2> USE <1>WorksClaim
  <2>0. ClaimOK /\ ShareOK(s) /\ \A t \in Shares \ {s} : share'[t] = share[t]
    BY Zenon DEF AnswerInv, Becoming
  <2>1. pvc = "bound" => share'[volume].st \in {"available", "extending", "extending_error"}
                         /\ share'[volume].size >= expanded
    <3> SUFFICES ASSUME pvc = "bound"
                 PROVE  /\ share'[volume].st \in {"available", "extending", "extending_error"}
                        /\ share'[volume].size >= expanded
      BY Zenon
    <3>1. /\ volume \in Shares /\ share[volume].st \in {"available", "extending", "extending_error"}
          /\ share[volume].size >= expanded /\ expanded \in Nat
      BY <2>0, Zenon DEF ClaimOK
    <3>2. CASE volume # s
      BY <2>0, <3>1, <3>2, Zenon
    <3>3. CASE volume = s
      <4>1. share'[s].st = st /\ share'[s].size = size
        BY Zenon DEF Becoming
      <4>2. st \in {"available", "extending", "extending_error"} /\ (size = share[s].size \/ size = share[s].to)
        BY <3>1, <3>3, Zenon DEF Works
      <4>3. size = share[s].size \/ (share[s].st = "extending" /\ size = share[s].to)
        BY <3>1, <3>3, Zenon DEF Works
      <4>4. /\ share[s].size \in Nat /\ share[s].to \in Nat
            /\ share[s].st = "extending" => share[s].to > share[s].size
        BY <2>0, Zenon DEF ShareOK
      <4>5. size >= share[s].size /\ size \in Nat /\ share[s].size \in Nat
        BY <4>3, <4>4
      <4>6. QED
        BY <3>1, <3>3, <4>1, <4>2, <4>5
    <3>4. QED
      BY <3>2, <3>3, Zenon
  <2>2. pvc \in {"bound", "released"} /\ share'[volume].st # "none" => Granted(volume)'
    <3>1. CASE volume = s
      BY <2>0, <3>1, Zenon DEF ClaimOK, Granted, Becoming, Works
    <3>2. CASE volume # s
      BY <2>0, <3>2, Zenon DEF ClaimOK, Granted
    <3>3. QED
      BY <3>1, <3>2, Zenon
  <2>3. doubts' \subseteq {"lost snapshot"} => doubts \subseteq {"lost snapshot"} /\ "error stays" \notin doubts'
    BY Zenon
  <2>4. pvc = "gone" \/ (pvc = "wanted" /\ ~maybe) =>
          (doubts' \subseteq {"lost snapshot"} => \A t \in Shares : share'[t].st \in {"none", "deleting"})
    BY <2>0, <2>3, Zenon DEF ClaimOK, Becoming, Works
  <2>5. QED
    BY <2>0, <2>1, <2>2, <2>4, Zenon DEF ClaimOK

\* So do the calls.
<1>WorksFits.
  ASSUME SingleInv, AnswerInv, NEW s \in Shares, NEW st, NEW size, NEW to, NEW code, NEW right,
         Becoming(s, st, size, to, code, right), Works(s, st, size, to, code, right),
         doubts \subseteq doubts', UNCHANGED <<kind, pending, call, awaited, pvc, maybe, volume, content>>,
         NEW c \in Calls
  PROVE  Fits(c)'
  <2> USE <1>WorksFits
  <2>0. Fits(c) /\ ShareOK(s) /\ \A t \in Shares \ {s} : share'[t] = share[t]
    BY Zenon DEF AnswerInv, Becoming
  <2>1. c \in Creates => CreateOK(c)'
    <3> SUFFICES ASSUME c \in Creates, call[c].pc \in Working PROVE CreateOK(c)'
      BY <2>0, Zenon DEF Fits, CreateOK, Working, Using
    <3>1. CreateOK(c) /\ call[c].s \in Shares /\ Named \subseteq {call[c].s}
      BY <2>0, Zenon DEF Fits, CreateOK
    <3>2. Named' \subseteq Named
      BY <2>0, Zenon DEF Named, Becoming, Works
    <3>3. CASE call[c].s # s
      BY <2>0, <3>1, <3>2, <3>3, Zenon DEF CreateOK, Granted
    <3>4. CASE call[c].s = s
      <4>1. call[c].pc \in Using => share'[s].st = "available"
        BY <3>1, <3>4, Zenon DEF CreateOK, Becoming, Works
      <4>2. call[c].pc = "answer" => Granted(s)'
        BY <3>1, <3>4, Zenon DEF CreateOK, Becoming, Works, Granted, Using
      <4>3. /\ call[c].pc = "rollback" => share'[s].st = "error" \/ "error stays" \in doubts'
            /\ call[c].pc = "rolled back" => share'[s].st \in {"none", "deleting"} \/ "error stays" \in doubts'
        BY <3>1, <3>4, Zenon DEF CreateOK, Becoming, Works
      <4>4. QED
        BY <3>1, <3>2, <3>4, <4>1, <4>2, <4>3, Zenon DEF CreateOK
    <3>5. QED
      BY <3>3, <3>4, Zenon
  <2>2. c \in Expands => ExpandOK(c)'
    <3> SUFFICES ASSUME c \in Expands PROVE ExpandOK(c)'
      BY Zenon
    <3>1. ExpandOK(c) /\ call[c].size \in Nat /\ call[c].want \in Nat
      BY <2>0, Zenon DEF Fits
    <3>2. CASE volume # s
      <4>1. call[c].pc # "idle" => share'[volume] = share[volume]
        BY <2>0, <3>1, <3>2, Zenon DEF ExpandOK, AnswerInv, ClaimOK
      <4>2. QED
        BY <3>1, <4>1, Zenon DEF ExpandOK
    <3>3. CASE volume = s
      <4>1. share'[s].st = st /\ share'[s].size = size /\ share'[s].to = to
        BY Zenon DEF Becoming
      <4>2. QED
        <5>0. /\ share[s].size \in Nat /\ share[s].to \in Nat
              /\ share[s].st = "extending" => share[s].to > share[s].size
          BY <2>0, Zenon DEF ShareOK
        <5>1. ASSUME st # "none"
              PROVE  \/ size = share[s].size /\ to = share[s].to /\ share[s].st # "none"
                     \/ size = share[s].to /\ to = share[s].to /\ share[s].st = "extending"
          BY <5>1, Zenon DEF Works
        <5>2. share[s].size >= share[s].size /\ (share[s].to > share[s].size => share[s].to >= share[s].size)
          BY <5>0
        <5>3. st # "none" => share[s].st # "none" /\ size >= share[s].size /\ size \in Nat
          BY <5>0, <5>1, <5>2, Zenon
        <5>4. st = "extending" => share[s].st = "extending" /\ to = share[s].to
          BY Zenon DEF Works
        <5>5. ASSUME st = "available"
              PROVE  \/ share[s].st = "available" /\ size = share[s].size
                     \/ share[s].st = "extending" /\ size = share[s].to
                     \/ share[s].st = "creating"
          BY <5>5, Zenon DEF Works
        <5>6. call[c].pc # "idle" => share[s].st # "creating"
          BY <2>0, <3>1, <3>3, Zenon DEF ShareOK, ExpandOK
        <5>7. /\ call[c].pc # "idle" => volume # 0
              /\ call[c].pc \in {"lock", "extend", "extending"} =>
                   call[c].s = volume /\ (st # "none" => call[c].size <= size)
              /\ call[c].pc \in {"extend", "extending"} => c \in pending
          <6>1. st # "none" /\ call[c].size <= share[s].size => call[c].size <= size
            BY <3>1, <5>0, <5>3
          <6>2. QED
            BY <3>1, <3>3, <5>3, <6>1, Zenon DEF ExpandOK
        <5>8. call[c].pc = "extending" =>
                /\ st = "extending" => to >= call[c].want
                /\ st = "available" => size >= call[c].want
          BY <3>1, <3>3, <5>4, <5>5, <5>6, Zenon DEF ExpandOK
        <5>9. QED
          <6>1. volume' = s /\ call' = call /\ pending' = pending /\ volume = s
            BY <3>3, Zenon
          <6>2. QED
            BY <4>1, <5>7, <5>8, <6>1, Zenon DEF ExpandOK
    <3>4. QED
      BY <3>2, <3>3, Zenon
  <2>3. c \in Snaps => SnapOK(c)'
    BY <2>0, Zenon DEF Fits, SnapOK
  <2>4. QED
    BY <2>0, <2>1, <2>2, <2>3, Zenon DEF Fits

\* Manila changes a share.
<1>WorksAnswer.
  ASSUME SingleInv, AnswerInv, NEW s \in Shares, NEW st, NEW size, NEW to, NEW code, NEW right,
         Becoming(s, st, size, to, code, right), Works(s, st, size, to, code, right),
         doubts \subseteq doubts', UNCHANGED <<others, pending, call, awaited, sidecars>>
  PROVE  AnswerInv'
  <2> USE <1>WorksAnswer
  <2>0. UNCHANGED <<kind, snapshot, pvc, maybe, volume, expanded, content>>
    BY Zenon DEF others, sidecars
  <2>1. (\A t \in Shares : ShareOK(t)') /\ ClaimOK' /\ \A c \in Calls : Fits(c)'
    BY <2>0, <1>WorksShares, <1>WorksClaim, <1>WorksFits, Zenon
  <2>2. ContentOK' /\ AwaitOK'
    BY <2>0, SameContent, SameAwait, Zenon
  <2>3. QED
    BY <2>1, <2>2, Zenon DEF AnswerInv

\* Manila's snapshots become available, go, or end in error.
<1>SnapshotBecomesAnswer.
  ASSUME SingleInv, AnswerInv, NEW s \in Shares, NEW v, SnapshotBecomes(s, v), doubts \subseteq doubts',
         \/ snapshot[s] = "creating"
         \/ snapshot[s] = "deleting" /\ v \in {"none", "error_deleting"}
  PROVE  AnswerInv'
  <2> USE <1>SnapshotBecomesAnswer
  <2>0. /\ snapshot' = [snapshot EXCEPT ![s] = v]
        /\ UNCHANGED <<share, kind, pending, call, awaited, sidecars, content>>
    BY Zenon DEF SnapshotBecomes, sidecars
  <2>1. ContentOK /\ snapshot[s] \notin {"none", "available"}
    BY Zenon DEF AnswerInv
  <2>2. ContentOK'
    <3>1. ~(s = content.id /\ content.st = "ready")
      BY <2>1, Zenon DEF ContentOK
    <3>2. s = content.id /\ content.st = "gone" /\ "lost snapshot" \notin doubts' =>
            v \in {"none", "deleting", "error_deleting"}
      BY <2>1, Zenon DEF ContentOK
    <3>3. QED
      BY <2>0, <2>1, <3>1, <3>2, SnapshotContent, Zenon
  <2>3. QED
    BY <2>0, <2>2, ElsewhereAnswer, Zenon

\* What happens to the snapshot that is restored.
<1>SourceBecomesAnswer.
  ASSUME SingleInv, AnswerInv, NEW v, SourceBecomes(v), doubts \subseteq doubts'
  PROVE  AnswerInv'
  <2> USE <1>SourceBecomesAnswer
  <2>1. UNCHANGED <<share, kind, snapshot, pending, call, awaited, sidecars, content>>
    BY Zenon DEF SourceBecomes, sidecars
  <2>2. ContentOK'
    BY <2>1, SameContent, Zenon
  <2>3. QED
    BY <2>1, <2>2, ElsewhereAnswer, Zenon

\* What Manila's own steps do to a share.
<1>ManilaBecomes.
  ASSUME SharesInv, NEW s \in Shares, NEW a, NEW b
  PROVE  /\ Becomes(s, [share[s] EXCEPT !.st = a]) =>
              Becoming(s, a, share[s].size, share[s].to, share[s].code, share[s].right)
         /\ Becomes(s, [share[s] EXCEPT !.st = a, !.size = b]) =>
              Becoming(s, a, b, share[s].to, share[s].code, share[s].right)
         /\ Becomes(s, [share[s] EXCEPT !.st = a, !.code = b]) =>
              Becoming(s, a, share[s].size, share[s].to, b, share[s].right)
         /\ Becomes(s, [share[s] EXCEPT !.right = a]) =>
              Becoming(s, share[s].st, share[s].size, share[s].to, share[s].code, a)
         /\ Becomes(s, NoShare) =>
              Becoming(s, "none", 0, 0, "none", "none")
  <2> USE <1>ManilaBecomes
  <2>0. IsShare(share[s])
    BY Zenon DEF SharesInv
  <2>1. Becomes(s, [share[s] EXCEPT !.st = a]) => Becoming(s, a, share[s].size, share[s].to, share[s].code, share[s].right)
    <3> SUFFICES ASSUME Becomes(s, [share[s] EXCEPT !.st = a])
                 PROVE  Becoming(s, a, share[s].size, share[s].to, share[s].code, share[s].right)
      BY Zenon
    <3>1. share'[s] = [share[s] EXCEPT !.st = a] /\ \A t \in Shares \ {s} : share'[t] = share[t]
      BY OneShare, Zenon DEF Becomes
    <3>2. QED
      BY <2>0, <3>1, ShareFields DEF Becoming
  <2>2. Becomes(s, [share[s] EXCEPT !.st = a, !.size = b]) => Becoming(s, a, b, share[s].to, share[s].code, share[s].right)
    <3> SUFFICES ASSUME Becomes(s, [share[s] EXCEPT !.st = a, !.size = b])
                 PROVE  Becoming(s, a, b, share[s].to, share[s].code, share[s].right)
      BY Zenon
    <3>1. share'[s] = [share[s] EXCEPT !.st = a, !.size = b] /\ \A t \in Shares \ {s} : share'[t] = share[t]
      BY OneShare, Zenon DEF Becomes
    <3>2. QED
      BY <2>0, <3>1, ShareFields DEF Becoming
  <2>3. Becomes(s, [share[s] EXCEPT !.st = a, !.code = b]) => Becoming(s, a, share[s].size, share[s].to, b, share[s].right)
    <3> SUFFICES ASSUME Becomes(s, [share[s] EXCEPT !.st = a, !.code = b])
                 PROVE  Becoming(s, a, share[s].size, share[s].to, b, share[s].right)
      BY Zenon
    <3>1. share'[s] = [share[s] EXCEPT !.st = a, !.code = b] /\ \A t \in Shares \ {s} : share'[t] = share[t]
      BY OneShare, Zenon DEF Becomes
    <3>2. QED
      BY <2>0, <3>1, ShareFields DEF Becoming
  <2>4. Becomes(s, [share[s] EXCEPT !.right = a]) => Becoming(s, share[s].st, share[s].size, share[s].to, share[s].code, a)
    <3> SUFFICES ASSUME Becomes(s, [share[s] EXCEPT !.right = a])
                 PROVE  Becoming(s, share[s].st, share[s].size, share[s].to, share[s].code, a)
      BY Zenon
    <3>1. share'[s] = [share[s] EXCEPT !.right = a] /\ \A t \in Shares \ {s} : share'[t] = share[t]
      BY OneShare, Zenon DEF Becomes
    <3>2. QED
      BY <2>0, <3>1, ShareFields DEF Becoming
  <2>5. Becomes(s, NoShare) => Becoming(s, "none", 0, 0, "none", "none")
    <3> SUFFICES ASSUME Becomes(s, NoShare)
                 PROVE  Becoming(s, "none", 0, 0, "none", "none")
      BY Zenon
    <3>1. share'[s] = NoShare /\ \A t \in Shares \ {s} : share'[t] = share[t]
      BY OneShare, Zenon DEF Becomes
    <3>2. QED
      BY <3>1 DEF Becoming, NoShare
  <2>6. QED
    BY <2>1, <2>2, <2>3, <2>4, <2>5, Zenon

\* Manila works.
<1>ManilaStepAnswer.
  ASSUME SingleInv, AnswerInv, NEW s \in Shares, ManilaStep(s)
  PROVE  AnswerInv'
  <2> USE <1>ManilaStepAnswer
  <2> DEFINE x == share[s]
  <2>0. UNCHANGED doubts /\ IsShare(x) /\ SharesInv
    BY Zenon DEF ManilaStep, SingleInv, SharesInv
  <2>1. CASE x.st = "creating" /\ Becomes(s, [x EXCEPT !.st = "available"])
    <3>1. Becoming(s, "available", x.size, x.to, x.code, x.right)
      BY <2>0, <2>1, <1>ManilaBecomes, Zenon
    <3>2. Works(s, "available", x.size, x.to, x.code, x.right)
      BY <2>1, Zenon DEF Works
    <3>3. QED
      BY <2>0, <2>1, <3>1, <3>2, <1>WorksAnswer, Zenon DEF Becomes
  <2>2. CASE x.st = "extending" /\ Becomes(s, [x EXCEPT !.st = "available", !.size = x.to])
    <3>1. Becoming(s, "available", x.to, x.to, x.code, x.right)
      BY <2>0, <2>2, <1>ManilaBecomes, Zenon
    <3>2. Works(s, "available", x.to, x.to, x.code, x.right)
      BY <2>2, Zenon DEF Works
    <3>3. QED
      BY <2>0, <2>2, <3>1, <3>2, <1>WorksAnswer, Zenon DEF Becomes
  <2>3. CASE x.st = "deleting" /\ Becomes(s, NoShare)
    <3>1. Becoming(s, "none", 0, 0, "none", "none")
      BY <2>0, <2>3, <1>ManilaBecomes, Zenon
    <3>2. Works(s, "none", 0, 0, "none", "none")
      BY <2>3, Zenon DEF Works
    <3>3. QED
      BY <2>0, <2>3, <3>1, <3>2, <1>WorksAnswer, Zenon DEF Becomes
  <2>4. CASE x.right = "queued" /\ Becomes(s, [x EXCEPT !.right = "active"])
    <3>1. Becoming(s, x.st, x.size, x.to, x.code, "active")
      BY <2>0, <2>4, <1>ManilaBecomes, Zenon
    <3>2. Works(s, x.st, x.size, x.to, x.code, "active")
      BY <2>4, Zenon DEF Works
    <3>3. QED
      BY <2>0, <2>4, <3>1, <3>2, <1>WorksAnswer, Zenon DEF Becomes
  <2>5. CASE snapshot[s] = "creating" /\ SnapshotBecomes(s, "available")
    BY <2>0, <2>5, <1>SnapshotBecomesAnswer, Zenon
  <2>6. CASE snapshot[s] = "deleting" /\ SnapshotBecomes(s, "none")
    BY <2>0, <2>6, <1>SnapshotBecomesAnswer, Zenon
  <2>7. CASE SourceBecomes("available")
    BY <2>0, <2>7, <1>SourceBecomesAnswer, Zenon
  <2>8. QED
    BY <2>1, <2>2, <2>3, <2>4, <2>5, <2>6, <2>7, Zenon DEF ManilaStep

\* Manila's operations end in errors.
<1>ManilaFailsAnswer.
  ASSUME SingleInv, AnswerInv, NEW s \in Shares, ManilaFails(s)
  PROVE  AnswerInv'
  <2> USE <1>ManilaFailsAnswer
  <2> DEFINE x == share[s]
  <2>0. IsShare(x) /\ SharesInv
    BY Zenon DEF SingleInv, SharesInv
  <2>1. ASSUME NEW code \in {"known", "unknown"}, NEW st, Becomes(s, [x EXCEPT !.st = st, !.code = code]),
               doubts' = IF code = "unknown" \/ x.st = "deleting" THEN doubts \cup {"error stays"} ELSE doubts,
               \/ x.st = "creating" /\ st = "error"
               \/ x.st = "extending" /\ st = "extending_error"
               \/ x.st = "deleting" /\ st = "error_deleting"
        PROVE  AnswerInv'
    <3>1. Becoming(s, st, x.size, x.to, code, x.right)
      BY <2>0, <2>1, <1>ManilaBecomes, Zenon
    <3>2. Works(s, st, x.size, x.to, code, x.right) /\ doubts \subseteq doubts'
      BY <2>1, Zenon DEF Works
    <3>3. QED
      BY <2>1, <3>1, <3>2, <1>WorksAnswer, Zenon DEF Becomes
  <2>2. CASE /\ x.right = "queued" /\ Becomes(s, [x EXCEPT !.right = "error"])
             /\ doubts' = doubts \cup {"bad right"}
    <3>1. Becoming(s, x.st, x.size, x.to, x.code, "error")
      BY <2>0, <2>2, <1>ManilaBecomes, Zenon
    <3>2. Works(s, x.st, x.size, x.to, x.code, "error") /\ doubts \subseteq doubts'
      BY <2>2, Zenon DEF Works
    <3>3. QED
      BY <2>2, <3>1, <3>2, <1>WorksAnswer, Zenon DEF Becomes
  <2>3. CASE snapshot[s] = "creating" /\ SnapshotBecomes(s, "error") /\ UNCHANGED doubts
    BY <2>3, <1>SnapshotBecomesAnswer, Zenon
  <2>4. CASE snapshot[s] = "deleting" /\ SnapshotBecomes(s, "error_deleting") /\ doubts' = doubts \cup {"error stays"}
    BY <2>4, <1>SnapshotBecomesAnswer, Zenon
  <2>5. CASE UNCHANGED doubts /\ \E v : SourceBecomes(v)
    BY <2>5, <1>SourceBecomesAnswer, Zenon
  <2>6. QED
    BY <2>1, <2>2, <2>3, <2>4, <2>5, Zenon DEF ManilaFails
<1>1. QED
  BY <1>ManilaStepAnswer, <1>ManilaFailsAnswer, Zenon

-----------------------------------------------------------------------------
(* The sidecars and users *)

\* The steps of the sidecars and the users keep AnswerInv.
LEMMA SidecarsAnswer ==
  ASSUME SingleInv, AnswerInv,
         \/ \E c \in Calls : GiveUp(c)
         \/ \E c \in Creates : CallCreate(c)
         \/ \E c \in Expands : CallExpand(c)
         \/ \E c \in Snaps : CallSnapshot(c)
         \/ CallDelete \/ CallUnsnap \/ UserDeletes \/ UserSnapshots
  PROVE  AnswerInv'
\* A sidecar calls.
<1>StartAnswer.
  ASSUME SingleInv, AnswerInv, NEW c \in Calls, NEW p, NEW want \in Nat, Start(c, p, want), Fits(c)',
         maybe' \in {TRUE, maybe}, ClaimOK',
         \A d \in awaited : {c, d} \subseteq Creates \/ {c, d} \subseteq Snaps => c = d,
         c = "unsnap" => awaited \cap Snaps = {}
  PROVE  AnswerInv'
  <2> USE <1>StartAnswer
  <2>0. UNCHANGED <<share, kind, snapshot, pending, volume, expanded, pvc, content, doubts>> /\ awaited' = awaited \cup {c}
    BY Zenon DEF Start, manila, others
  <2>1. Sets(c, p, 0, 0, want)
    BY CallSets, Zenon DEF SingleInv
  <2>2. \A d \in Calls \ {c} : Fits(d)'
    <3> SUFFICES ASSUME NEW d \in Calls \ {c} PROVE Fits(d)'
      BY Zenon
    <3>1. Fits(d) /\ call'[d] = call[d] /\ (d \in awaited' <=> d \in awaited)
      BY <2>0, <2>1, Zenon DEF AnswerInv, Sets
    <3>2. d \in Creates => CreateOK(d)'
      BY <2>0, <3>1, Zenon DEF Fits, CreateOK, Granted, Named
    <3>3. d \in Expands => ExpandOK(d)'
      BY <2>0, <3>1, Zenon DEF Fits, ExpandOK
    <3>4. d \in Snaps => SnapOK(d)'
      <4>1. c # "unsnap" => call'["unsnap"] = call["unsnap"]
        BY <2>1, Zenon DEF Sets, Calls
      <4>2. QED
        BY <2>0, <3>1, <4>1, Zenon DEF Fits, SnapOK
    <3>5. QED
      BY <2>0, <3>1, <3>2, <3>3, <3>4, Zenon DEF Fits
  <2>3. AwaitOK'
    <3> SUFFICES ASSUME NEW x \in awaited', NEW y \in awaited', {x, y} \subseteq Creates \/ {x, y} \subseteq Snaps
                 PROVE  x = y
      BY Zenon DEF AwaitOK
    <3>1. CASE x \in awaited /\ y \in awaited
      BY <3>1, Zenon DEF AnswerInv, AwaitOK
    <3>2. CASE x = c
      BY <2>0, <3>2, Zenon
    <3>3. CASE y = c
      <4>1. {c, x} = {x, y}
        BY <3>3, Zenon
      <4>2. QED
        BY <2>0, <3>3, <4>1, Zenon
    <3>4. QED
      BY <2>0, <3>1, <3>2, <3>3, Zenon
  <2>4. (\A s \in Shares : ShareOK(s)') /\ ContentOK'
    BY <2>0, SameShares, SameContent, Zenon
  <2>5. QED
    BY <2>2, <2>3, <2>4, Zenon DEF AnswerInv

\* The calls of the sidecars.
<1>CallAnswer.
  ASSUME SingleInv, AnswerInv,
         \/ \E c \in Creates : CallCreate(c)
         \/ \E c \in Expands : CallExpand(c)
         \/ \E c \in Snaps : CallSnapshot(c)
         \/ CallDelete \/ CallUnsnap
  PROVE  AnswerInv'
  <2> USE <1>CallAnswer
  <2>0. ClaimOK /\ ContentOK /\ \A c \in Calls : Fits(c)
    BY Zenon DEF AnswerInv
  <2>1. ASSUME NEW c \in Creates, CallCreate(c) PROVE AnswerInv'
    <3>1. /\ c \in Calls /\ c \notin Expands /\ c \notin Snaps /\ c \notin {"delete", "unsnap"}
          /\ awaited \cap Creates = {} /\ pvc \in {"wanted", "unwanted"} /\ Start(c, "start", 1) /\ maybe' = TRUE
      BY <2>1, Zenon DEF CallCreate, Calls, Creates, Expands, Snaps
    <3>2. Sets(c, "start", 0, 0, 1) /\ UNCHANGED <<share, kind, volume, expanded, pvc, doubts>> /\ c \in awaited'
      BY <3>1, CallSets, Zenon DEF SingleInv, Start, manila, others
    <3>3. CreateOK(c)'
      BY <2>0, <3>1, <3>2, Zenon DEF CreateOK, ClaimOK, Sets, Working, Using
    <3>4. Fits(c)'
      BY <3>1, <3>2, <3>3 DEF Fits, Sets
    <3>5. ClaimOK'
      BY <2>0, <3>1, <3>2, Zenon DEF ClaimOK
    <3>6. \A d \in awaited : {c, d} \subseteq Creates \/ {c, d} \subseteq Snaps => c = d
      BY <3>1, Zenon
    <3>7. QED
      BY <3>1, <3>4, <3>5, <3>6, <1>StartAnswer, Zenon
  <2>2. ASSUME NEW c \in Expands, CallExpand(c) PROVE AnswerInv'
    <3>1. /\ c \in Calls /\ c \notin Creates /\ c \notin Snaps /\ c \notin {"delete", "unsnap"}
          /\ pvc = "bound" /\ UNCHANGED maybe
      BY <2>2, Zenon DEF CallExpand, Calls, Creates, Expands, Snaps
    <3>2. PICK want \in Nat : Start(c, "get", want)
      BY <2>0, <2>2, ConstantsAssumption DEF CallExpand, ClaimOK
    <3>3. Sets(c, "get", 0, 0, want) /\ UNCHANGED <<share, kind, volume, expanded, pvc, doubts>>
      BY <3>1, <3>2, CallSets, Zenon DEF SingleInv, Start, manila, others
    <3>4. ExpandOK(c)'
      BY <2>0, <3>1, <3>3, Zenon DEF ExpandOK, ClaimOK, Sets
    <3>5. Fits(c)'
      <4>1. call'[c].size = 0 /\ call'[c].want = want
        BY <3>3, Zenon DEF Sets
      <4>2. call'[c].size \in Nat /\ call'[c].want \in Nat
        BY <3>2, <4>1
      <4>3. QED
        BY <3>1, <3>4, <4>2, Zenon DEF Fits
    <3>6. ClaimOK'
      BY <3>1, <3>3, SameClaim, Zenon
    <3>7. QED
      BY <3>1, <3>2, <3>5, <3>6, <1>StartAnswer, Zenon
  <2>3. ASSUME NEW c \in Snaps, CallSnapshot(c) PROVE AnswerInv'
    <3>1. /\ c \in Calls /\ c \notin Creates /\ c \notin Expands /\ c \notin {"delete", "unsnap"}
          /\ awaited \cap Snaps = {} /\ content.st = "wanted" /\ Start(c, "start", 0) /\ UNCHANGED maybe
      BY <2>3, Zenon DEF CallSnapshot, Calls, Creates, Expands, Snaps
    <3>2. /\ Sets(c, "start", 0, 0, 0) /\ UNCHANGED <<share, kind, volume, expanded, pvc, content, doubts>>
          /\ c \in awaited'
      BY <3>1, CallSets, Zenon DEF SingleInv, Start, manila, others
    <3>3. call["unsnap"].pc = "idle" /\ call'["unsnap"] = call["unsnap"]
      BY <2>0, <3>1, <3>2, Zenon DEF Fits, Sets, Calls
    <3>4. SnapOK(c)'
      BY <3>1, <3>2, <3>3, Zenon DEF SnapOK
    <3>5. Fits(c)'
      <4>1. call'[c].size = 0 /\ call'[c].want = 0
        BY <3>2, Zenon DEF Sets
      <4>2. call'[c].size \in Nat /\ call'[c].want \in Nat
        BY <4>1
      <4>3. QED
        BY <3>1, <3>4, <4>2, Zenon DEF Fits
    <3>6. ClaimOK'
      BY <3>1, <3>2, SameClaim, Zenon
    <3>7. QED
      BY <3>1, <3>5, <3>6, <1>StartAnswer, Zenon
  <2>4. CASE CallDelete
    <3>1. /\ "delete" \in Calls /\ "delete" \notin Creates \cup Expands \cup Snaps
          /\ pvc = "released" /\ Start("delete", "delete", 0) /\ UNCHANGED maybe
      BY <2>4, Zenon DEF CallDelete, Calls, Creates, Expands, Snaps
    <3>2. Sets("delete", "delete", 0, 0, 0) /\ UNCHANGED <<share, kind, volume, expanded, pvc, doubts>>
      BY <3>1, CallSets, Zenon DEF SingleInv, Start, manila, others
    <3>3. Fits("delete")'
      BY <3>1, <3>2 DEF Fits, Sets
    <3>4. ClaimOK'
      BY <3>1, <3>2, SameClaim, Zenon
    <3>5. QED
      BY <3>1, <3>3, <3>4, <1>StartAnswer, Zenon
  <2>5. CASE CallUnsnap
    <3>1. /\ "unsnap" \in Calls /\ "unsnap" \notin Creates \cup Expands \cup Snaps /\ awaited \cap Snaps = {}
          /\ content.st = "released" /\ Start("unsnap", "unsnap", 0) /\ UNCHANGED maybe
      BY <2>5, Zenon DEF CallUnsnap, Calls, Creates, Expands, Snaps
    <3>2. /\ Sets("unsnap", "unsnap", 0, 0, 0)
          /\ UNCHANGED <<share, kind, volume, expanded, pvc, content, doubts>>
      BY <3>1, CallSets, Zenon DEF SingleInv, Start, manila, others
    <3>3. Fits("unsnap")'
      BY <3>1, <3>2 DEF Fits, Sets
    <3>4. ClaimOK'
      BY <3>1, <3>2, SameClaim, Zenon
    <3>5. QED
      BY <3>1, <3>3, <3>4, <1>StartAnswer, Zenon
  <2>6. QED
    BY <2>1, <2>2, <2>3, <2>4, <2>5, Zenon

\* A sidecar stops waiting.
<1>GiveUpAnswer.
  ASSUME SingleInv, AnswerInv, NEW c \in Calls, GiveUp(c)
  PROVE  AnswerInv'
  <2> USE <1>GiveUpAnswer
  <2>0. /\ call[c].pc # "start" /\ awaited' = awaited \ {c} /\ doubts \subseteq doubts'
        /\ c \in Snaps => "lost snapshot" \in doubts'
        /\ UNCHANGED <<manila, pending, call, sidecars, share, kind, pvc, maybe, volume, content>>
    BY Zenon DEF GiveUp, At, manila, others, sidecars
  <2>1. Fits(c)
    BY Zenon DEF AnswerInv
  <2>2. c \in Creates => CreateOK(c)'
    BY <2>0, <2>1, Zenon DEF Fits, CreateOK, Granted, Named
  <2>3. c \in Expands => ExpandOK(c)'
    BY <2>0, <2>1, Zenon DEF Fits, ExpandOK
  <2>4. c \in Snaps => SnapOK(c)'
    BY <2>0, <2>1, Zenon DEF Fits, SnapOK
  <2>5. Fits(c)'
    BY <2>0, <2>1, <2>2, <2>3, <2>4, Zenon DEF Fits
  <2>6. QED
    BY <2>0, <2>5, QuietAnswer, Zenon

\* The claim is deleted.
<1>UserDeletesAnswer.
  ASSUME SingleInv, AnswerInv, UserDeletes
  PROVE  AnswerInv'
  <2> USE <1>UserDeletesAnswer
  <2>0. /\ UNCHANGED <<share, kind, snapshot, pending, call, awaited, maybe, volume, expanded, content, doubts>>
        /\ \/ pvc = "bound" /\ pvc' = "released"
           \/ pvc = "wanted" /\ pvc' = IF maybe THEN "unwanted" ELSE "gone"
    BY Zenon DEF UserDeletes, manila, others
  <2>1. ClaimOK'
    BY <2>0, Zenon DEF AnswerInv, ClaimOK, Granted
  <2>2. \A c \in Calls : Fits(c)'
    <3> SUFFICES ASSUME NEW c \in Calls PROVE Fits(c)'
      BY Zenon
    <3>1. Fits(c)
      BY Zenon DEF AnswerInv
    <3>2. c \in Creates => CreateOK(c)'
      BY <2>0, <3>1, Zenon DEF Fits, CreateOK, Granted, Named
    <3>3. c \in Expands => ExpandOK(c)'
      BY <2>0, <3>1, Zenon DEF Fits, ExpandOK
    <3>4. c \in Snaps => SnapOK(c)'
      BY <2>0, <3>1, Zenon DEF Fits, SnapOK
    <3>5. QED
      BY <2>0, <3>1, <3>2, <3>3, <3>4, Zenon DEF Fits
  <2>3. (\A s \in Shares : ShareOK(s)') /\ ContentOK' /\ AwaitOK'
    BY <2>0, SameShares, SameContent, SameAwait, Zenon
  <2>4. QED
    BY <2>1, <2>2, <2>3, Zenon DEF AnswerInv

\* A VolumeSnapshot is made or deleted.
<1>UserSnapshotsAnswer.
  ASSUME SingleInv, AnswerInv, UserSnapshots
  PROVE  AnswerInv'
  <2> USE <1>UserSnapshotsAnswer
  <2>0. /\ UNCHANGED <<share, kind, snapshot, pending, call, awaited, pvc, maybe, volume, expanded, doubts>>
        /\ content.st \in {"none", "wanted", "ready"}
        /\ \/ content.st = "none" /\ content' = [st |-> "wanted", id |-> 0]
           \/ content.id # 0 /\ content.st # "none" /\ content' = [content EXCEPT !.st = "released"]
    BY Zenon DEF UserSnapshots, manila, others
  <2>1. ContentOK
    BY Zenon DEF AnswerInv
  <2>2. /\ content' = [st |-> content'.st, id |-> content'.id] /\ content'.id = content.id
        /\ \/ content.st = "none" /\ content'.st = "wanted"
           \/ content.id # 0 /\ content.st # "none" /\ content'.st = "released"
    <3>1. CASE content.st = "none" /\ content' = [st |-> "wanted", id |-> 0]
      BY <2>1, <3>1, Zenon DEF ContentOK
    <3>2. CASE content.id # 0 /\ content.st # "none" /\ content' = [content EXCEPT !.st = "released"]
      <4>1. content = [st |-> content.st, id |-> content.id]
        BY <2>1, Zenon DEF ContentOK
      <4>2. content' = [st |-> "released", id |-> content.id]
        BY <3>2, <4>1, Zenon
      <4>3. QED
        BY <3>2, <4>2, Zenon
    <3>3. QED
      BY <2>0, <3>1, <3>2, Zenon
  <2>3. ContentOK'
    BY <2>0, <2>1, <2>2, Zenon DEF ContentOK, NamedSnaps
  <2>4. \A c \in Calls : Fits(c)'
    <3> SUFFICES ASSUME NEW c \in Calls PROVE Fits(c)'
      BY Zenon
    <3>1. Fits(c)
      BY Zenon DEF AnswerInv
    <3>2. c \in Creates => CreateOK(c)'
      BY <2>0, <3>1, Zenon DEF Fits, CreateOK, Granted, Named
    <3>3. c \in Expands => ExpandOK(c)'
      BY <2>0, <3>1, Zenon DEF Fits, ExpandOK
    <3>4. c \in Snaps => SnapOK(c)'
      BY <2>0, <2>2, <3>1, Zenon DEF Fits, SnapOK
    <3>5. QED
      BY <2>0, <3>1, <3>2, <3>3, <3>4, Zenon DEF Fits
  <2>5. (\A s \in Shares : ShareOK(s)') /\ ClaimOK' /\ AwaitOK'
    BY <2>0, SameShares, SameClaim, SameAwait, Zenon
  <2>6. QED
    BY <2>3, <2>4, <2>5, Zenon DEF AnswerInv
<1>1. QED
  BY <1>CallAnswer, <1>GiveUpAnswer, <1>UserDeletesAnswer, <1>UserSnapshotsAnswer, Zenon

-----------------------------------------------------------------------------
(* The theorems *)

\* Every step keeps AnswerInv.
LEMMA NextAnswer ==
  ASSUME SingleInv, AnswerInv, Cardinality(Named) \in {0, 1}, [Next]_vars
  PROVE  AnswerInv'
<1>1. CASE UNCHANGED vars
  <2>1. UNCHANGED <<share, kind, snapshot, pending, call, awaited, sidecars, content, doubts>>
    BY <1>1, Zenon DEF vars, manila, others, sidecars
  <2>2. ContentOK'
    BY <2>1, SameContent, Zenon
  <2>3. QED
    BY <2>1, <2>2, ElsewhereAnswer, Zenon
<1>2. CASE Next
  BY <1>2, CreateVolumeAnswer, ExpandDeleteAnswer, SnapshotsAnswer, ManilaAnswer, SidecarsAnswer, Zenon
     DEF Next, Handler
<1>3. QED
  BY <1>1, <1>2, Zenon

INSTANCE FiniteSetTheorems

\* A set without two members has at most one.
LEMMA AtMostOne == ASSUME NEW S, \A s, t \in S : s = t PROVE Cardinality(S) \in {0, 1}
<1>1. CASE S = {}
  BY <1>1, FS_EmptySet, Zenon
<1>2. ASSUME NEW s \in S PROVE Cardinality(S) \in {0, 1}
  <2>1. S = {s}
    BY Zenon
  <2>2. Cardinality({s}) = 1
    BY FS_Singleton, Zenon
  <2>3. QED
    BY <2>1, <2>2, Zenon
<1>3. QED
  BY <1>1, <1>2, Zenon

\* pendingVolumes and pendingSnapshots, with the look-ups by name under them, leave at
\* most one share and one snapshot of a name, however many calls of CreateVolume and
\* CreateSnapshot are made, abandoned and repeated, and whatever requests fail.
THEOREM OneSharePerName == Spec => []OnePerName
<1>1. SingleInv => OnePerName
  BY AtMostOne DEF SingleInv, NameInv, OnePerName
<1>2. QED
  BY <1>1, InitSingle, NextSingle, PTL DEF Spec

\* AnswerInv holds throughout.
LEMMA AnswerAlways == Spec => [](SingleInv /\ AnswerInv)
<1>1. Init => AnswerInv
  <2> SUFFICES ASSUME Init PROVE AnswerInv
    BY Zenon
  <2>1. \A c \in Calls : Fits(c)
    BY Zenon DEF Init, Idle, Fits, CreateOK, ExpandOK, SnapOK, Working, Using
  <2>2. \A s \in Shares : ShareOK(s)
    BY Zenon DEF Init, NoShare, ShareOK, States, InError
  <2>3. ClaimOK
    BY Zenon DEF Init, NoShare, ClaimOK
  <2>4. AwaitOK /\ ContentOK
    BY Zenon DEF Init, AwaitOK, ContentOK, NamedSnaps
  <2>5. QED
    BY <2>1, <2>2, <2>3, <2>4, Zenon DEF AnswerInv
<1>2. SingleInv /\ AnswerInv /\ [Next]_vars => AnswerInv'
  <2>1. SingleInv => Cardinality(Named) \in {0, 1}
    BY AtMostOne, Zenon DEF SingleInv, NameInv
  <2>2. QED
    BY <2>1, NextAnswer, Zenon
<1>3. QED
  BY <1>1, <1>2, InitSingle, NextSingle, PTL DEF Spec

\* What CreateVolume, ControllerExpandVolume and CreateSnapshot answered stays true of
\* the share and the snapshot until the volume is deleted and the snapshot released,
\* however calls that were given up, Manila's errors and restarts of the driver meet.
THEOREM AnswersHold == Spec => []AnsweredHolds
<1>1. AnswerInv => AnsweredHolds
  BY Zenon DEF AnswerInv, ClaimOK, ContentOK, Granted, AnsweredHolds
<1>2. QED
  BY <1>1, AnswerAlways, PTL

\* When the claim is gone no share is left that is not being deleted, and when the
\* VolumeSnapshot is, no snapshot; the exceptions are the doubts.
THEOREM NothingIsLeft == Spec => []NothingLeft
<1>1. ASSUME AnswerInv PROVE NothingLeft
  <2>1. pvc = "gone" /\ doubts \subseteq {"lost snapshot"} => \A s \in Named : share[s].st = "deleting"
    BY <1>1, Zenon DEF AnswerInv, ClaimOK, Named
  <2>2. content.st = "gone" /\ "lost snapshot" \notin doubts =>
          \A s \in NamedSnaps : snapshot[s] \in {"deleting", "error_deleting"}
    BY <1>1, Zenon DEF AnswerInv, ContentOK, NamedSnaps
  <2>3. QED
    BY <2>1, <2>2, Zenon DEF NothingLeft
<1>2. QED
  BY <1>1, AnswerAlways, PTL
=============================================================================
