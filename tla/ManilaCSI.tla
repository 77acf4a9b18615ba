----------------------------- MODULE ManilaCSI -----------------------------
(***************************************************************************)
(* The controller service of the Manila CSI driver (pkg/csi/manila) on one *)
(* volume, CephFS or NFS, blank or restored from a snapshot, and one       *)
(* snapshot of it: CreateVolume, ControllerExpandVolume, DeleteVolume,     *)
(* CreateSnapshot and DeleteSnapshot, each a handler of several requests   *)
(* to Manila.  pendingVolumes and pendingSnapshots let one                 *)
(* handler at a time work on the volume or snapshot of a name; another is  *)
(* answered Aborted.  A sidecar may stop waiting for a handler, which then *)
(* goes on, and call again.  Manila's requests fail before or after they   *)
(* take effect and shares end in error states.  The order in which         *)
(* "return share, manilaErrCode, wait.ExponentialBackoff(...)" evaluates   *)
(* its operands is the one of the gc compiler: the call comes first.       *)
(***************************************************************************)
EXTENDS Naturals, FiniteSets

CONSTANTS
    MaxShares,   \* bound: shares that exist at once, and snapshots
    MaxSize,     \* bound: GiB; the volume is created with 1
    MaxTroubles  \* bound: failures, error states, calls given up

ASSUME ConstantsAssumption ==
  /\ MaxShares \in Nat \ {0} /\ MaxSize \in Nat \ {0} /\ MaxTroubles \in Nat

VARIABLES
    share,     \* share[s]: the share s, all of them with the volume's name
    kind,      \* of the share: whether it is NFS, and supports snapshots
    source,    \* the snapshot that the volume is restored from: its state, or "blank"
    snapshot,  \* snapshot[s]: the state of the snapshot s, all of the same name
    content,   \* the VolumeSnapshotContent: its state and the snapshot's id
    pending,   \* the handlers that have an entry in pendingVolumes or pendingSnapshots
    call,      \* call[c]: the handler that serves a call
    awaited,   \* the handlers whose answer a sidecar waits for
    pvc,       \* "wanted", "unwanted" (deleted), "bound" or "gone"
    maybe,     \* whether the provisioner holds that a share may exist
    volume,    \* the share of the answered CreateVolume, 0 before
    expanded,  \* the size last answered by ControllerExpandVolume
    doubts,    \* what happened that the driver cannot set right
    troubles

sidecars == <<pvc, maybe, volume, expanded, content>>
others == <<kind, source, snapshot>>
manila == <<share, others>>
vars == <<manila, pending, call, awaited, sidecars, doubts, troubles>>

Shares == 1..MaxShares
Creates == {"create1", "create2"}
Expands == {"expand1", "expand2"}
Snaps == {"snap1", "snap2"}
Calls == Creates \cup Expands \cup Snaps \cup {"delete", "unsnap"}

NoShare == [st |-> "none", size |-> 0, to |-> 0, code |-> "none", right |-> "none"]

\* bytesToGiB rounds up.
NewShare == [st |-> "creating", size |-> 1, to |-> 0, code |-> "none", right |-> "none"]

Idle == [pc |-> "idle", s |-> 0, size |-> 0, want |-> 0]

Named == {s \in Shares : share[s].st # "none"}
NamedSnaps == {s \in Shares : snapshot[s] # "none"}
InError(s) == share[s].st \in {"error", "error_deleting", "extending_error"}

At(c, pc) == call[c].pc = pc
Goto(c, pc) == call' = [call EXCEPT ![c].pc = pc]
Trouble == troubles < MaxTroubles /\ troubles' = troubles + 1

\* Errors after which the provisioner takes it that there is no share.
Final(code) == code \notin {"DeadlineExceeded", "Aborted", "ResourceExhausted", "Unavailable"}

\* A handler returns an error; its entry in pendingVolumes is deleted.
Fail(c, code) ==
  /\ call' = [call EXCEPT ![c] = Idle]
  /\ pending' = pending \ {c}
  /\ awaited' = awaited \ {c}
  /\ IF c \in Creates /\ c \in awaited
       THEN /\ maybe' = (maybe /\ ~Final(code))
            /\ pvc' = IF pvc = "unwanted" /\ Final(code) THEN "gone" ELSE pvc
       ELSE UNCHANGED <<maybe, pvc>>
  /\ UNCHANGED <<volume, expanded, content>>

\* A request fails, or its answer is lost.
Fault(c) ==
  /\ Trouble /\ Fail(c, "Internal")
  /\ doubts' = CASE c \in Creates -> doubts \cup {"failed request"}
                 [] c \in Snaps -> doubts \cup {"lost snapshot"}
                 [] OTHER -> doubts

\* The back-off of a wait ends.
TimedOut(c) == Trouble /\ Fail(c, "DeadlineExceeded") /\ UNCHANGED <<manila, doubts>>

\* A step of a handler that goes to pc and does nothing else.
Step(c, pc) == Goto(c, pc) /\ UNCHANGED <<manila, pending, awaited, sidecars, doubts, troubles>>

\* A handler returns an error and nothing else happens.
Return(c, code) == Fail(c, code) /\ UNCHANGED <<manila, doubts, troubles>>

-----------------------------------------------------------------------------
(* CreateVolume *)

\* Mutant of LoadOrStore: nobody looks whether another call is pending.
LoadOrStoreOnly(c, next) ==
  /\ pending' = pending \cup {c} /\ Goto(c, next)
  /\ UNCHANGED <<manila, awaited, sidecars, doubts, troubles>>

\* "Check for pending CreateVolume for this volume name"; snapshots have a map of
\* their own.
LoadOrStore(c, next) ==
  IF pending \cap (IF c \in Snaps THEN Snaps ELSE Creates \cup Expands) = {}
    THEN /\ pending' = pending \cup {c} /\ Goto(c, next)
         /\ UNCHANGED <<manila, awaited, sidecars, doubts, troubles>>
    ELSE Return(c, "Aborted")

StartCreate(c) ==
  At(c, "start") /\ LoadOrStore(c, IF source = "blank" THEN "byname" ELSE "restore")

\* The snapshot to be restored is looked at before the share, also when the share has
\* been made by an earlier call.
GetSourceSnapshot(c) ==
  /\ At(c, "restore")
  /\ \/ source = "available" /\ Step(c, "byname")
     \/ source = "creating" /\ Return(c, "Unavailable")
     \/ /\ source \in {"error", "gone"}
        /\ Fail(c, IF source = "gone" THEN "NotFound" ELSE "FailedPrecondition")
        /\ doubts' = IF Named = {} THEN doubts ELSE doubts \cup {"source gone"}
        /\ UNCHANGED <<manila, troubles>>
     \/ Fault(c) /\ UNCHANGED manila

\* The share is available; verifyVolumeCompatibility.
Got(c, s) ==
  IF share[s].size = 1
    THEN /\ call' = [call EXCEPT ![c].pc = "access", ![c].s = s]
         /\ UNCHANGED <<manila, pending, awaited, sidecars, doubts, troubles>>
    ELSE Return(c, "AlreadyExists")

\* getOrCreateShare up to the creation.
GetShareByName(c) ==
  /\ At(c, "byname")
  /\ \/ Named = {} /\ Step(c, "create")
     \/ \E s \in Named :
          IF Cardinality(Named) > 1 THEN Return(c, "Internal")
          ELSE IF share[s].st = "available" THEN Got(c, s)
               ELSE /\ call' = [call EXCEPT ![c].pc = "wait", ![c].s = s]
                    /\ UNCHANGED <<manila, pending, awaited, sidecars, doubts, troubles>>
     \/ Fault(c) /\ UNCHANGED manila

CreateShare(c) ==
  /\ At(c, "create")
  /\ \/ \E s \in Shares \ (Named \cup {volume}) :
          /\ share' = [share EXCEPT ![s] = NewShare] /\ UNCHANGED others
          /\ \/ /\ call' = [call EXCEPT ![c].pc = "wait", ![c].s = s]
                /\ UNCHANGED <<pending, awaited, sidecars, doubts, troubles>>
             \/ Fault(c)
     \/ Fault(c) /\ UNCHANGED manila

\* Mutant of WaitForShareStatus: error states are waited for to go away.
WaitForShareStatusLong(c) ==
  LET s == call[c].s IN
  /\ At(c, "wait")
  /\ \/ share[s].st = "available" /\ Got(c, s)
     \/ share[s].st # "available" /\ TimedOut(c)

\* waitForShareStatus: the share is read until it is available, is in neither of
\* the transient states, or the back-off ends.  The error's code comes from
\* Manila's messages, and may be unknown.
WaitForShareStatus(c) ==
  LET s == call[c].s IN
  /\ At(c, "wait")
  /\ \/ share[s].st = "available" /\ Got(c, s)
     \/ share[s].st = "creating" /\ TimedOut(c)
     \/ InError(s) /\ share[s].code = "known" /\ Step(c, "rollback")
     \/ InError(s) /\ share[s].code = "unknown" /\ Return(c, "Internal")
     \/ share[s].st \notin {"available", "creating"} /\ ~InError(s) /\ Return(c, "Internal")
     \/ Fault(c) /\ UNCHANGED manila

\* Manila deletes shares in these states that have no snapshot.
MayDelete(s) ==
  share[s].st \in {"available", "error"} /\ (s = volume => NamedSnaps = {})

\* toRPCErrorCode of the codes that the driver knows.
RollbackCodes == {"OutOfRange", "InvalidArgument", "ResourceExhausted"}

\* Mutant of TryDeleteShare: nothing is rolled back.
TryDeleteShareNot(c) == At(c, "rollback") /\ Return(c, "OutOfRange")

\* tryDeleteShare: errors are logged, and the first one is returned.
TryDeleteShare(c) ==
  LET s == call[c].s IN
  /\ At(c, "rollback")
  /\ \/ /\ MayDelete(s)
        /\ share' = [share EXCEPT ![s].st = "deleting"] /\ UNCHANGED others
        /\ Goto(c, "rolled back")
        /\ UNCHANGED <<pending, awaited, sidecars, doubts, troubles>>
     \/ ~MayDelete(s) /\ \E code \in RollbackCodes : Return(c, code)
     \/ Fault(c) /\ UNCHANGED manila

RolledBack(c) ==
  /\ At(c, "rolled back")
  /\ \/ share[call[c].s].st # "deleting" /\ \E code \in RollbackCodes : Return(c, code)
     \/ Trouble /\ \E code \in RollbackCodes : Fail(c, code) /\ UNCHANGED <<manila, doubts>>

\* Cephfs.GetOrGrantAccess: an access right that exists is used.
GetAccessRights(c) ==
  LET s == call[c].s IN
  /\ At(c, "access") /\ ~kind.nfs
  /\ \/ Step(c, CASE share[s].right = "active" -> "answer"
                  [] share[s].right \in {"queued", "error"} -> "key"
                  [] OTHER -> "grant")
     \/ Fault(c) /\ UNCHANGED manila

\* NFS.GetOrGrantAccess: neither a right that exists nor a new one is waited for.
NFSGetAccessRights(c) ==
  /\ At(c, "access") /\ kind.nfs
  /\ \/ Step(c, IF share[call[c].s].right = "none" THEN "grant" ELSE "answer")
     \/ Fault(c) /\ UNCHANGED manila

GrantAccess(c) ==
  LET s == call[c].s IN
  /\ At(c, "grant")
  /\ \/ /\ share' = [share EXCEPT ![s].right = "queued"] /\ UNCHANGED others
        /\ \/ /\ Goto(c, IF kind.nfs THEN "answer" ELSE "key")
              /\ UNCHANGED <<pending, awaited, sidecars, doubts, troubles>>
           \/ Fault(c)
     \/ Fault(c) /\ UNCHANGED manila

\* Mutant of WaitForKey: a right that exists is taken to be ready.
WaitForKeyNot(c) == At(c, "key") /\ Step(c, "answer")

\* "Wait till a ceph key is assigned to the access right"
WaitForKey(c) ==
  LET s == call[c].s IN
  /\ At(c, "key")
  /\ \/ share[s].right = "active" /\ Step(c, "answer")
     \/ share[s].right = "queued" /\ TimedOut(c)
     \/ share[s].right = "error" /\ Return(c, "DeadlineExceeded")
     \/ Fault(c) /\ UNCHANGED manila

\* The answer; the provisioner makes the PersistentVolume, or deletes the volume
\* that nobody wants any more.
CreateAnswer(c) ==
  /\ At(c, "answer")
  /\ call' = [call EXCEPT ![c] = Idle]
  /\ pending' = pending \ {c} /\ awaited' = awaited \ {c}
  /\ IF c \in awaited
       THEN /\ volume' = call[c].s
            /\ pvc' = IF pvc = "wanted" THEN "bound" ELSE "released"
       ELSE UNCHANGED <<volume, pvc>>
  /\ UNCHANGED <<manila, maybe, expanded, content, doubts, troubles>>

-----------------------------------------------------------------------------
(* ControllerExpandVolume and DeleteVolume *)

\* GetShareByID, before the entry in pendingVolumes is made.
GetShareByID(c) ==
  LET s == volume IN
  /\ At(c, "get")
  /\ \/ share[s].st = "none" /\ Return(c, "NotFound")
     \/ /\ share[s].st # "none"
        /\ call' = [call EXCEPT ![c].pc = "lock", ![c].s = s, ![c].size = share[s].size]
        /\ UNCHANGED <<manila, pending, awaited, sidecars, doubts, troubles>>
     \/ Fault(c) /\ UNCHANGED manila

ExpandAnswer(c) ==
  /\ call' = [call EXCEPT ![c] = Idle]
  /\ pending' = pending \ {c} /\ awaited' = awaited \ {c}
  /\ expanded' = IF c \in awaited THEN call[c].want ELSE expanded
  /\ UNCHANGED <<manila, pvc, maybe, volume, content, doubts, troubles>>

StartExpand(c) == At(c, "lock") /\ LoadOrStore(c, "extend")

\* The size read earlier decides.  Manila extends an available share to a larger
\* size only.
ExtendShare(c) ==
  LET s == call[c].s
      ok == share[s].st = "available" /\ call[c].want > share[s].size IN
  /\ At(c, "extend")
  /\ \/ call[c].size >= call[c].want /\ ExpandAnswer(c)
     \/ /\ call[c].size < call[c].want /\ ok
        /\ share' = [share EXCEPT ![s].st = "extending", ![s].to = call[c].want]
        /\ UNCHANGED others
        /\ \/ Goto(c, "extending") /\ UNCHANGED <<pending, awaited, sidecars, doubts, troubles>>
           \/ Fault(c)
     \/ call[c].size < call[c].want /\ ~ok /\ Return(c, "Unknown")
     \/ call[c].size < call[c].want /\ Fault(c) /\ UNCHANGED manila

\* The driver dies: "share.Name" of a share that could not be read.
Panic ==
  /\ call' = [c \in Calls |-> Idle]
  /\ pending' = {} /\ awaited' = {}
  /\ UNCHANGED <<manila, sidecars, doubts>>

WaitForExtended(c) ==
  LET s == call[c].s IN
  /\ At(c, "extending")
  /\ \/ share[s].st = "available" /\ ExpandAnswer(c)
     \/ share[s].st = "extending" /\ TimedOut(c)
     \/ share[s].st \notin {"available", "extending", "none"} /\ Return(c, "Internal")
     \/ share[s].st = "none" /\ Panic /\ UNCHANGED troubles
     \/ Panic /\ Trouble

DeleteVolume ==
  LET c == "delete"
      s == volume IN
  /\ At(c, "delete")
  /\ \/ /\ share[s].st = "none" \/ MayDelete(s)
        /\ share' = [share EXCEPT ![s] = IF MayDelete(s) THEN [@ EXCEPT !.st = "deleting"] ELSE @]
        /\ UNCHANGED others
        /\ \/ /\ call' = [call EXCEPT ![c] = Idle] /\ awaited' = awaited \ {c}
              /\ pvc' = IF c \in awaited THEN "gone" ELSE pvc
              /\ UNCHANGED <<pending, maybe, volume, expanded, content, doubts, troubles>>
           \/ Fault(c)
     \/ share[s].st # "none" /\ ~MayDelete(s) /\ Return(c, "Internal")
     \/ Fault(c) /\ UNCHANGED manila

-----------------------------------------------------------------------------
(* CreateSnapshot and DeleteSnapshot *)

StartSnapshot(c) == At(c, "start") /\ LoadOrStore(c, "parent")

GetSourceShare(c) ==
  /\ At(c, "parent")
  /\ \/ share[volume].st = "none" /\ Return(c, "NotFound")
     \/ share[volume].st # "none" /\ ~kind.snapshots /\ Return(c, "InvalidArgument")
     \/ share[volume].st # "none" /\ kind.snapshots /\ Step(c, "snapshot")
     \/ Fault(c) /\ UNCHANGED manila

\* The answer; the content keeps the last id answered, and the snapshotter calls
\* again until the snapshot is ready.
SnapshotAnswer(c, s, readyToUse) ==
  /\ call' = [call EXCEPT ![c] = Idle]
  /\ pending' = pending \ {c} /\ awaited' = awaited \ {c}
  /\ content' = IF c \in awaited
                  THEN [st |-> IF content.st = "wanted" /\ readyToUse THEN "ready" ELSE content.st,
                        id |-> s]
                  ELSE content
  /\ UNCHANGED <<pvc, maybe, volume, expanded, doubts, troubles>>

\* getOrCreateSnapshot up to the creation, and what is done about the status of a
\* snapshot that exists.
GetSnapshotByName(c) ==
  /\ At(c, "snapshot")
  /\ \/ NamedSnaps = {} /\ Step(c, "take")
     \/ \E s \in NamedSnaps :
          IF Cardinality(NamedSnaps) > 1 THEN Return(c, "Internal")
          ELSE \/ /\ snapshot[s] \in {"creating", "available"}
                  /\ SnapshotAnswer(c, s, snapshot[s] = "available") /\ UNCHANGED manila
               \/ /\ snapshot[s] = "error"
                  /\ call' = [call EXCEPT ![c].pc = "untake", ![c].s = s]
                  /\ UNCHANGED <<manila, pending, awaited, sidecars, doubts, troubles>>
               \/ snapshot[s] \in {"deleting", "error_deleting"} /\ Return(c, "Internal")
     \/ Fault(c) /\ UNCHANGED manila

\* The creation, which is not waited for.  Manila takes snapshots of available shares.
CreateSnapshot(c) ==
  /\ At(c, "take")
  /\ \/ /\ share[volume].st = "available"
        /\ \E s \in Shares \ (NamedSnaps \cup {content.id}) :
             /\ snapshot' = [snapshot EXCEPT ![s] = "creating"]
             /\ UNCHANGED <<share, kind, source>>
             /\ SnapshotAnswer(c, s, FALSE) \/ Fault(c)
     \/ share[volume].st # "available" /\ Return(c, "Internal")
     \/ Fault(c) /\ UNCHANGED manila

\* Manila deletes snapshots in these states.
MayDeleteSnapshot(s) == snapshot[s] \in {"available", "error"}

\* tryDeleteSnapshot, whose errors are logged; the deletion is waited for.
TryDeleteSnapshot(c) ==
  LET s == call[c].s IN
  /\ At(c, "untake")
  /\ \/ /\ MayDeleteSnapshot(s)
        /\ snapshot' = [snapshot EXCEPT ![s] = "deleting"]
        /\ Goto(c, "untaken")
        /\ UNCHANGED <<share, kind, source, pending, awaited, sidecars, doubts, troubles>>
     \/ ~MayDeleteSnapshot(s) /\ Step(c, "untaken")
     \/ Trouble /\ Goto(c, "untaken") /\ UNCHANGED <<manila, pending, awaited, sidecars, doubts>>

\* The wait of tryDeleteSnapshot, and the code of Manila's last message.
WaitSnapshotDeleted(c) ==
  /\ At(c, "untaken")
  /\ \E code \in RollbackCodes \cup {"Internal"} :
       \/ snapshot[call[c].s] # "deleting" /\ Return(c, code)
       \/ Trouble /\ Fail(c, code) /\ UNCHANGED <<manila, doubts>>

DeleteSnapshot ==
  LET c == "unsnap"
      s == content.id IN
  /\ At(c, "unsnap")
  /\ \/ /\ snapshot[s] = "none" \/ MayDeleteSnapshot(s)
        /\ snapshot' = [snapshot EXCEPT ![s] = IF MayDeleteSnapshot(s) THEN "deleting" ELSE @]
        /\ UNCHANGED <<share, kind, source>>
        /\ \/ /\ call' = [call EXCEPT ![c] = Idle] /\ awaited' = awaited \ {c}
              /\ content' = IF c \in awaited THEN [content EXCEPT !.st = "gone"] ELSE content
              /\ UNCHANGED <<pending, pvc, maybe, volume, expanded, doubts, troubles>>
           \/ Fault(c)
     \/ snapshot[s] # "none" /\ ~MayDeleteSnapshot(s) /\ Return(c, "Internal")
     \/ Fault(c) /\ UNCHANGED manila

Handler(c) ==
  \/ c \in Creates /\ (StartCreate(c) \/ GetSourceSnapshot(c) \/ GetShareByName(c) \/ CreateShare(c)
       \/ WaitForShareStatus(c) \/ TryDeleteShare(c) \/ RolledBack(c) \/ GetAccessRights(c)
       \/ NFSGetAccessRights(c) \/ GrantAccess(c) \/ WaitForKey(c) \/ CreateAnswer(c))
  \/ c \in Expands /\ (GetShareByID(c) \/ StartExpand(c) \/ ExtendShare(c) \/ WaitForExtended(c))
  \/ c \in Snaps /\ (StartSnapshot(c) \/ GetSourceShare(c) \/ GetSnapshotByName(c)
       \/ CreateSnapshot(c) \/ TryDeleteSnapshot(c) \/ WaitSnapshotDeleted(c))
  \/ c = "delete" /\ DeleteVolume
  \/ c = "unsnap" /\ DeleteSnapshot

-----------------------------------------------------------------------------
(* Manila *)

Becomes(s, new) ==
  /\ share' = [share EXCEPT ![s] = new]
  /\ UNCHANGED <<others, pending, call, awaited, sidecars>>

SnapshotBecomes(s, new) ==
  /\ snapshot' = [snapshot EXCEPT ![s] = new]
  /\ UNCHANGED <<share, kind, source, pending, call, awaited, sidecars>>

SourceBecomes(new) ==
  /\ source' = new
  /\ UNCHANGED <<share, kind, snapshot, pending, call, awaited, sidecars>>

ManilaStep(s) ==
  /\ \/ share[s].st = "creating" /\ Becomes(s, [share[s] EXCEPT !.st = "available"])
     \/ share[s].st = "extending"
          /\ Becomes(s, [share[s] EXCEPT !.st = "available", !.size = share[s].to])
     \/ share[s].st = "deleting" /\ Becomes(s, NoShare)
     \/ share[s].right = "queued" /\ Becomes(s, [share[s] EXCEPT !.right = "active"])
     \/ snapshot[s] = "creating" /\ SnapshotBecomes(s, "available")
     \/ snapshot[s] = "deleting" /\ SnapshotBecomes(s, "none")
     \/ source = "creating" /\ SourceBecomes("available")
  /\ UNCHANGED <<doubts, troubles>>

\* An operation ends in an error state; its message has a code the driver knows
\* or another one.
ManilaFails(s) ==
  /\ Trouble
  /\ \/ \E code \in {"known", "unknown"} :
          /\ \/ share[s].st = "creating" /\ Becomes(s, [share[s] EXCEPT !.st = "error", !.code = code])
             \/ share[s].st = "extending" /\ Becomes(s, [share[s] EXCEPT !.st = "extending_error", !.code = code])
             \/ share[s].st = "deleting" /\ Becomes(s, [share[s] EXCEPT !.st = "error_deleting", !.code = code])
          /\ doubts' = IF code = "unknown" \/ share[s].st = "deleting"
                         THEN doubts \cup {"error stays"} ELSE doubts
     \/ /\ share[s].right = "queued"
        /\ Becomes(s, [share[s] EXCEPT !.right = "error"])
        /\ doubts' = doubts \cup {"bad right"}
     \/ /\ snapshot[s] = "creating" /\ SnapshotBecomes(s, "error")
        /\ UNCHANGED doubts
     \/ /\ snapshot[s] = "deleting" /\ SnapshotBecomes(s, "error_deleting")
        /\ doubts' = doubts \cup {"error stays"}
     \/ /\ source = "creating" /\ SourceBecomes("error")
        /\ UNCHANGED doubts
     \/ /\ source \in {"available", "error"} /\ SourceBecomes("gone")
        /\ UNCHANGED doubts

-----------------------------------------------------------------------------
(* The sidecars: each makes a call when none is awaited *)

Start(c, pc, want) ==
  /\ At(c, "idle")
  /\ call' = [call EXCEPT ![c] = [Idle EXCEPT !.pc = pc, !.want = want]]
  /\ awaited' = awaited \cup {c}
  /\ UNCHANGED <<manila, pending, volume, expanded, pvc, content, doubts, troubles>>

\* csi-provisioner goes on, for a claim that was deleted, until it knows.
CallCreate(c) ==
  /\ awaited \cap Creates = {}
  /\ pvc = "wanted" \/ (pvc = "unwanted" /\ maybe)
  /\ Start(c, "start", 1) /\ maybe' = TRUE

CallExpand(c) ==
  /\ awaited \cap Expands = {} /\ pvc = "bound"
  /\ \E want \in (expanded + 1)..MaxSize : Start(c, "get", want)
  /\ UNCHANGED maybe

CallDelete ==
  /\ pvc = "released"
  /\ Start("delete", "delete", 0) /\ UNCHANGED maybe

CallSnapshot(c) ==
  /\ awaited \cap Snaps = {} /\ content.st = "wanted"
  /\ Start(c, "start", 0) /\ UNCHANGED maybe

CallUnsnap ==
  /\ awaited \cap Snaps = {} /\ content.st = "released"
  /\ Start("unsnap", "unsnap", 0) /\ UNCHANGED maybe

\* The sidecar's timeout, which is longer than CreateVolume or CreateSnapshot take to
\* come to their first request.
GiveUp(c) ==
  /\ c \in awaited /\ ~At(c, "start") /\ Trouble
  /\ awaited' = awaited \ {c}
  /\ doubts' = IF c \in Snaps THEN doubts \cup {"lost snapshot"} ELSE doubts
  /\ UNCHANGED <<manila, pending, call, sidecars>>

UserDeletes ==
  /\ pvc \in {"wanted", "bound"}
  /\ pvc' = CASE pvc = "bound" -> "released"
               [] pvc = "wanted" -> IF maybe THEN "unwanted" ELSE "gone"
  /\ UNCHANGED <<manila, pending, call, awaited, maybe, volume, expanded, content, doubts, troubles>>

\* A VolumeSnapshot is made and deleted; without an id there is nothing to delete.
UserSnapshots ==
  /\ \/ pvc = "bound" /\ content.st = "none" /\ content' = [st |-> "wanted", id |-> 0]
     \/ /\ content.st \in {"wanted", "ready"} /\ content.id # 0
        /\ content' = [content EXCEPT !.st = "released"]
  /\ UNCHANGED <<manila, pending, call, awaited, pvc, maybe, volume, expanded, doubts, troubles>>

Init ==
  /\ share = [s \in Shares |-> NoShare] /\ snapshot = [s \in Shares |-> "none"]
  /\ kind \in [nfs : BOOLEAN, snapshots : BOOLEAN]
  /\ source \in {"blank", "creating", "available"}
  /\ content = [st |-> "none", id |-> 0]
  /\ pending = {} /\ call = [c \in Calls |-> Idle] /\ awaited = {}
  /\ pvc = "wanted" /\ maybe = FALSE /\ volume = 0 /\ expanded = 1
  /\ doubts = {} /\ troubles = 0

Next ==
  \/ \E c \in Calls : Handler(c) \/ GiveUp(c)
  \/ \E c \in Creates : CallCreate(c)
  \/ \E c \in Expands : CallExpand(c)
  \/ \E c \in Snaps : CallSnapshot(c)
  \/ CallDelete \/ CallUnsnap \/ UserDeletes \/ UserSnapshots
  \/ \E s \in Shares : ManilaStep(s) \/ ManilaFails(s)

Spec == Init /\ [][Next]_vars

\* Handlers run, Manila works, and the provisioner and the snapshotter call again.
Fairness ==
  /\ \A c \in Calls : WF_vars(Handler(c))
  /\ \A s \in Shares : WF_vars(ManilaStep(s))
  /\ WF_vars(\E c \in Creates : CallCreate(c)) /\ WF_vars(CallDelete)
  /\ WF_vars(\E c \in Snaps : CallSnapshot(c)) /\ WF_vars(CallUnsnap)

-----------------------------------------------------------------------------
(* Properties *)

\* However often CreateVolume and CreateSnapshot are called, and whatever calls
\* overlap, there is at most one share and one snapshot of a name.
OnePerName == Cardinality(Named) <= 1 /\ Cardinality(NamedSnaps) <= 1

\* What was answered holds: the share of CreateVolume has an access right, for CephFS
\* with its key, until the volume is deleted; one that was answered as expanded has
\* the size; a snapshot that was answered as ready is available.
AnsweredHolds ==
  /\ pvc \in {"bound", "released"} /\ share[volume].st # "none" =>
       IF kind.nfs THEN share[volume].right # "none" ELSE share[volume].right = "active"
  /\ pvc = "bound" => share[volume].size >= expanded
  /\ content.st = "ready" => snapshot[content.id] = "available"

\* When the claim is gone so is the share, or it is being deleted; unless a request
\* of CreateVolume failed, Manila's error was one the driver does not know, or the
\* snapshot to be restored had gone when CreateVolume was called again.  The same of
\* the snapshot, unless a call of CreateSnapshot failed or was given up.
NothingLeft ==
  /\ pvc = "gone" /\ awaited = {} /\ pending = {} /\ doubts \subseteq {"lost snapshot"} =>
       \A s \in Named : share[s].st = "deleting"
  /\ content.st = "gone" /\ "lost snapshot" \notin doubts =>
       \A s \in NamedSnaps : snapshot[s] \in {"deleting", "error_deleting"}

\* A claim that stays wanted is bound, unless an error of an unknown kind stays or
\* there is nothing to restore; a snapshot that stays wanted becomes ready, unless
\* the share does not support it or is deleted or in error.
Provisioned ==
  /\ pvc = "wanted" ~>
       \/ pvc # "wanted" \/ source \in {"error", "gone"}
       \/ doubts \cap {"error stays", "bad right"} # {}
  /\ content.st = "wanted" ~>
       \/ content.st # "wanted" \/ ~kind.snapshots \/ pvc # "bound"
       \/ "error stays" \in doubts \/ InError(volume)
=============================================================================
