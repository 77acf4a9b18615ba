----------------------------- MODULE CinderCSI -----------------------------
(***************************************************************************)
(* The controller service of the Cinder CSI driver                         *)
(* (pkg/csi/cinder/controllerserver.go) and its Cinder and Nova client     *)
(* (pkg/csi/cinder/openstack): CreateVolume, DeleteVolume,                 *)
(* ControllerPublishVolume, ControllerUnpublishVolume,                     *)
(* ControllerExpandVolume, CreateSnapshot and DeleteSnapshot for one       *)
(* PersistentVolumeClaim and one VolumeSnapshot of it.  The driver keeps   *)
(* no state and takes no lock.  It is called by four sidecars              *)
(* (provisioner, attacher, resizer, snapshotter) that run side by side;    *)
(* each repeats a call until it succeeds, and may give up on one that is   *)
(* still running.                                                          *)
(* Every request to Cinder or Nova whose answer is used later is one step. *)
(***************************************************************************)
EXTENDS Naturals, FiniteSets

CONSTANTS
    MaxVolumes,   \* that Cinder may be asked for, and as many snapshots
    Instances,    \* Nova instances
    MaxSize,      \* of a volume, in GiB
    None,
    MaxTroubles   \* failing requests, and calls that a sidecar gives up on

Ids == 1..MaxVolumes   \* in the order of their creation

ASSUME ConstantsAssumption ==
  /\ None \notin Ids \cup Instances
  /\ {MaxVolumes, MaxSize, MaxTroubles} \subseteq Nat /\ MaxSize > 0

VARIABLES
    vol,       \* vol[v]: the volume as Cinder has it (all bear the name of the PV)
    snap,      \* snap[s]: the state of a snapshot (all bear the same name)
    running,   \* existing instances
    pvc,       \* "absent", "wanted", "bound", "released" or "gone"
    handle,    \* the volume id that the provisioner was given
    va,        \* the VolumeAttachment: instance and state
    want,      \* the size that the PVC asks for
    grown,     \* the size that the resizer was told
    content,   \* the VolumeSnapshotContent: state, snapshot id, whether it is forced
    call,      \* call[c]: the handler that sidecar c waits for; and a late one
    gaveUp,    \* operations that a sidecar gave up on while they were running
    faults

userVars == <<pvc, handle, va, want, grown, content>>
cloudVars == <<vol, snap>>
vars == <<cloudVars, running, userVars, call, gaveUp, faults>>

Sidecars == {"prov", "att", "exp", "snap"}
Slots == Sidecars \cup {"late"}

Absent == [st |-> "absent", size |-> 0, at |-> None, to |-> None]
NoCall == [op |-> "none", pc |-> "idle", vid |-> None, inst |-> None, size |-> 0, seen |-> None]
NoContent == [st |-> "absent", sid |-> None, force |-> FALSE]
NoVA == [inst |-> None, st |-> "none"]

\* GET of a volume finds it.
Found(v) == v \in Ids /\ vol[v].st \notin {"absent", "deleted"}
Named == {v \in Ids : Found(v)}

FoundSnap(s) == s \in Ids /\ snap[s] \notin {"absent", "deleted"}
NamedSnaps == {s \in Ids : FoundSnap(s)}

-----------------------------------------------------------------------------
(* How a handler goes on, and what the sidecar does with its answer *)

Goto(c, pc) == call' = [call EXCEPT ![c].pc = pc] /\ UNCHANGED userVars
Done(c) == call' = [call EXCEPT ![c] = NoCall]

Fail(c) == Done(c) /\ UNCHANGED userVars

\* Success, with the id for CreateVolume and CreateSnapshot.  Nobody hears a late
\* handler.
Answer(c, v) ==
  /\ Done(c)
  /\ handle' = IF c = "prov" /\ call[c].op = "create" THEN v ELSE handle
  /\ pvc' = CASE c = "prov" /\ call[c].op = "create" /\ pvc = "wanted" -> "bound"
              [] c = "prov" /\ call[c].op = "delete" -> "gone"
              [] OTHER -> pvc
  /\ va' = CASE c = "att" /\ call[c].op = "publish" /\ va.st = "attaching" -> [va EXCEPT !.st = "attached"]
             [] c = "att" /\ call[c].op = "unpublish" -> NoVA
             [] OTHER -> va
  /\ grown' = IF c = "exp" THEN call[c].size ELSE grown
  /\ content' = CASE c = "snap" /\ call[c].op = "snapshot" ->
                       [content EXCEPT !.sid = v, !.st = IF @ = "wanted" THEN "ready" ELSE @]
                  [] c = "snap" /\ call[c].op = "unsnapshot" -> [content EXCEPT !.st = "gone"]
                  [] OTHER -> content
  /\ UNCHANGED want

\* A request has no effect, or an effect and no answer.
Trouble == faults + Cardinality(gaveUp) < MaxTroubles
Fault == Trouble /\ faults' = faults + 1
NoFault == UNCHANGED faults

\* A write: it is done and answered, done with the answer lost, or refused.
Write(c, allowed, v, new, pc) ==
  \/ /\ allowed /\ vol' = [vol EXCEPT ![v] = new]
     /\ \/ Goto(c, pc) /\ NoFault
        \/ Fail(c) /\ Fault
  \/ ~allowed /\ Fail(c) /\ UNCHANGED vol /\ NoFault

At(c, op, pc) == call[c].op = op /\ call[c].pc = pc

-----------------------------------------------------------------------------
(* CreateVolume and DeleteVolume *)

\* Mutant of GetVolumesByName: only volumes that are ready count.
GetVolumesByNameReady(c) ==
  LET found == {v \in Named : vol[v].st \in {"available", "in-use"}} IN
  /\ At(c, "create", "byName")
  /\ \/ found # {} /\ \E v \in found : Answer(c, v)
     \/ found = {} /\ Goto(c, "create")
  /\ UNCHANGED vol /\ NoFault

\* One volume of the right size is the answer, whatever its state; with several
\* the call fails.
GetVolumesByName(c) ==
  /\ At(c, "create", "byName")
  /\ \/ \E v \in Named : Named = {v} /\ IF vol[v].size = 1 THEN Answer(c, v) ELSE Fail(c)
     \/ Cardinality(Named) > 1 /\ Fail(c)
     \/ Named = {} /\ Goto(c, "create")
  /\ UNCHANGED vol /\ NoFault

CreateVolume(c) ==
  /\ At(c, "create", "create")
  /\ \E v \in Ids :
       /\ \A w \in Ids : (vol[w] = Absent) <=> (w >= v)
       /\ vol' = [vol EXCEPT ![v] = [Absent EXCEPT !.st = "creating", !.size = 1]]
       /\ \/ Answer(c, v) /\ NoFault
          \/ Fail(c) /\ Fault

\* Mutant of DiskIsUsed: a volume that is used is left alone.
DiskIsUsedOrDone(c) ==
  LET v == call[c].vid IN
  /\ At(c, "delete", "used")
  /\ \/ (~Found(v) \/ vol[v].at # None) /\ Answer(c, v)
     \/ Found(v) /\ vol[v].at = None /\ Goto(c, "delete")
  /\ UNCHANGED vol /\ NoFault

\* DeleteVolume asks for the attachments first.
DiskIsUsed(c) ==
  LET v == call[c].vid IN
  /\ At(c, "delete", "used")
  /\ \/ ~Found(v) /\ Answer(c, v)
     \/ Found(v) /\ vol[v].at # None /\ Fail(c)
     \/ Found(v) /\ vol[v].at = None /\ Goto(c, "delete")
  /\ UNCHANGED vol /\ NoFault

\* Cinder deletes volumes that are available or in error, not attached and without
\* snapshots.
DeleteVolume(c) ==
  LET v == call[c].vid
      allowed == vol[v].st \in {"available", "error"} /\ vol[v].at = None /\ NamedSnaps = {} IN
  /\ At(c, "delete", "delete")
  /\ \/ ~Found(v) /\ Answer(c, v) /\ UNCHANGED vol /\ NoFault
     \/ /\ Found(v) /\ allowed
        /\ vol' = [vol EXCEPT ![v].st = "deleting"]
        /\ \/ Answer(c, v) /\ NoFault
           \/ Fail(c) /\ Fault
     \/ Found(v) /\ ~allowed /\ Fail(c) /\ UNCHANGED vol /\ NoFault

-----------------------------------------------------------------------------
(* ControllerPublishVolume *)

\* Mutant of GetForAttach: the attachments are not looked at.
GetForAttachAlways(c) ==
  /\ At(c, "publish", "get")
  /\ IF Found(call[c].vid) /\ call[c].inst \in running THEN Goto(c, "attach") ELSE Fail(c)
  /\ UNCHANGED vol /\ NoFault

\* GetVolume, GetInstanceByID and the GetVolume of AttachVolume: only the last
\* answer is used, and Nova looks at the instance again.
GetForAttach(c) ==
  LET v == call[c].vid IN
  /\ At(c, "publish", "get")
  /\ \/ (~Found(v) \/ call[c].inst \notin running) /\ Fail(c)
     \/ /\ Found(v) /\ call[c].inst \in running
        /\ Goto(c, IF vol[v].at = call[c].inst THEN "wait" ELSE "attach")
  /\ UNCHANGED vol /\ NoFault

AttachVolume(c) ==
  LET v == call[c].vid IN
  /\ At(c, "publish", "attach")
  /\ Write(c, Found(v) /\ vol[v].st = "available" /\ call[c].inst \in running,
           v, [vol[v] EXCEPT !.st = "attaching", !.to = call[c].inst], "wait")

\* Mutant of WaitDiskAttached: the request was accepted, that is enough.
WaitDiskAttachedNot(c) ==
  At(c, "publish", "wait") /\ Answer(c, call[c].vid) /\ UNCHANGED vol /\ NoFault

\* Polls until the attachment is there (a missing volume is polled as well) or
\* the steps are used up; then GetAttachmentDiskPath looks again, and its answer
\* decides.
WaitDiskAttached(c) ==
  LET v == call[c].vid IN
  /\ At(c, "publish", "wait")
  /\ IF Found(v) /\ vol[v].st = "in-use" /\ vol[v].at = call[c].inst
       THEN Answer(c, v)
       ELSE Fail(c)
  /\ UNCHANGED vol /\ NoFault

-----------------------------------------------------------------------------
(* ControllerUnpublishVolume *)

\* GetInstanceByID and the GetVolume of DetachVolume.
GetForDetach(c) ==
  LET v == call[c].vid IN
  /\ At(c, "unpublish", "get")
  /\ \/ (call[c].inst \notin running \/ ~Found(v)) /\ Answer(c, v)
     \/ /\ call[c].inst \in running /\ Found(v)
        /\ \/ vol[v].st = "available" /\ Goto(c, "wait")
           \/ vol[v].st \notin {"available", "in-use"} /\ Fail(c)
           \/ vol[v].st = "in-use" /\ Goto(c, IF vol[v].at = call[c].inst THEN "detach" ELSE "wait")
  /\ UNCHANGED vol /\ NoFault

DetachVolume(c) ==
  LET v == call[c].vid IN
  /\ At(c, "unpublish", "detach")
  /\ Write(c, Found(v) /\ vol[v].st = "in-use" /\ vol[v].at = call[c].inst,
           v, [vol[v] EXCEPT !.st = "detaching"], "wait")

WaitDiskDetached(c) ==
  LET v == call[c].vid IN
  /\ At(c, "unpublish", "wait")
  /\ IF Found(v) /\ vol[v].at = call[c].inst THEN Fail(c) ELSE Answer(c, v)
  /\ UNCHANGED vol /\ NoFault

-----------------------------------------------------------------------------
(* ControllerExpandVolume *)

GetForExpand(c) ==
  LET v == call[c].vid IN
  /\ At(c, "expand", "get")
  /\ \/ ~Found(v) /\ Fail(c)
     \/ Found(v) /\ vol[v].size >= call[c].size /\ Answer(c, v)
     \/ /\ Found(v) /\ vol[v].size < call[c].size
        /\ IF vol[v].st \in {"available", "in-use"}
             THEN call' = [call EXCEPT ![c].pc = "extend", ![c].seen = vol[v].st] /\ UNCHANGED userVars
             ELSE Fail(c)
  /\ UNCHANGED vol /\ NoFault

\* The microversion chosen by the status that was read also accepts volumes in
\* use; the plain request only available ones.
ExpandVolume(c) ==
  LET v == call[c].vid IN
  /\ At(c, "expand", "extend")
  /\ Write(c, /\ Found(v) /\ vol[v].size < call[c].size
              /\ vol[v].st \in {"available", call[c].seen},
           v, [vol[v] EXCEPT !.st = "extending"], "wait")

\* Mutant of WaitVolumeTargetStatus: no wait.
WaitVolumeTargetStatusNot(c) ==
  At(c, "expand", "wait") /\ Answer(c, call[c].vid) /\ UNCHANGED vol /\ NoFault

WaitVolumeTargetStatus(c) ==
  LET v == call[c].vid IN
  /\ At(c, "expand", "wait")
  /\ IF Found(v) /\ vol[v].st \in {"available", "in-use"} THEN Answer(c, v) ELSE Fail(c)
  /\ UNCHANGED vol /\ NoFault

-----------------------------------------------------------------------------
(* CreateSnapshot and DeleteSnapshot *)

\* As with volumes: one snapshot of the name is taken, whatever its state, and with
\* several the call fails.
ListSnapshots(c) ==
  /\ At(c, "snapshot", "byName")
  /\ \/ \E s \in NamedSnaps :
          /\ NamedSnaps = {s}
          /\ call' = [call EXCEPT ![c].pc = "wait", ![c].vid = s] /\ UNCHANGED userVars
     \/ Cardinality(NamedSnaps) > 1 /\ Fail(c)
     \/ NamedSnaps = {} /\ Goto(c, "create")
  /\ UNCHANGED cloudVars /\ NoFault

\* Cinder takes a snapshot of a volume in use only when it is forced to.
CreateSnapshot(c) ==
  LET v == call[c].vid
      allowed == Found(v) /\ vol[v].st \in {"available"} \cup IF content.force THEN {"in-use"} ELSE {} IN
  /\ At(c, "snapshot", "create")
  /\ \/ /\ allowed
        /\ \E s \in Ids :
             /\ \A t \in Ids : (snap[t] = "absent") <=> (t >= s)
             /\ snap' = [snap EXCEPT ![s] = "creating"]
             /\ \/ call' = [call EXCEPT ![c].pc = "wait", ![c].vid = s] /\ UNCHANGED userVars /\ NoFault
                \/ Fail(c) /\ Fault
     \/ ~allowed /\ Fail(c) /\ UNCHANGED snap /\ NoFault
  /\ UNCHANGED vol

\* Mutant of WaitSnapshotReady: the request was accepted, that is enough.
WaitSnapshotReadyNot(c) ==
  At(c, "snapshot", "wait") /\ Answer(c, call[c].vid) /\ UNCHANGED cloudVars /\ NoFault

\* Polls until the snapshot is available, is not found or the steps are used up.
WaitSnapshotReady(c) ==
  /\ At(c, "snapshot", "wait")
  /\ IF snap[call[c].vid] = "available" THEN Answer(c, call[c].vid) ELSE Fail(c)
  /\ UNCHANGED cloudVars /\ NoFault

\* Cinder deletes snapshots that are available or in error.
DeleteSnapshot(c) ==
  LET s == call[c].vid
      allowed == snap[s] \in {"available", "error"} IN
  /\ At(c, "unsnapshot", "delete")
  /\ \/ ~FoundSnap(s) /\ Answer(c, s) /\ UNCHANGED snap /\ NoFault
     \/ /\ allowed
        /\ snap' = [snap EXCEPT ![s] = "deleting"]
        /\ \/ Answer(c, s) /\ NoFault
           \/ Fail(c) /\ Fault
     \/ FoundSnap(s) /\ ~allowed /\ Fail(c) /\ UNCHANGED snap /\ NoFault
  /\ UNCHANGED vol

-----------------------------------------------------------------------------
\* A request of any step fails without effect.
CallFails(c) == call[c].op # "none" /\ Fail(c) /\ Fault /\ UNCHANGED cloudVars

VolumeStep(c) ==
  /\ \/ GetVolumesByName(c) \/ CreateVolume(c) \/ DiskIsUsed(c) \/ DeleteVolume(c)
     \/ GetForAttach(c) \/ AttachVolume(c) \/ WaitDiskAttached(c)
     \/ GetForDetach(c) \/ DetachVolume(c) \/ WaitDiskDetached(c)
     \/ GetForExpand(c) \/ ExpandVolume(c) \/ WaitVolumeTargetStatus(c)
  /\ UNCHANGED snap

Handler(c) ==
  /\ \/ VolumeStep(c)
     \/ ListSnapshots(c) \/ CreateSnapshot(c) \/ WaitSnapshotReady(c) \/ DeleteSnapshot(c)
     \/ CallFails(c)
  /\ UNCHANGED <<running, gaveUp>>

-----------------------------------------------------------------------------
(* Cinder and Nova at work *)

\* Where an attached or a free volume comes to rest.
Rest(x) == [x EXCEPT !.st = IF x.at = None THEN "available" ELSE "in-use", !.to = None]

CloudStep(v) ==
  /\ vol[v].st \in {"creating", "attaching", "detaching", "extending", "deleting"}
  /\ vol' = [vol EXCEPT ![v] =
       CASE @.st = "creating" -> Rest(@)
         [] @.st = "attaching" -> Rest([@ EXCEPT !.at = vol[v].to])
         [] @.st = "detaching" -> Rest([@ EXCEPT !.at = None])
         [] @.st = "extending" -> Rest([@ EXCEPT !.size = MaxSize])
         [] @.st = "deleting" -> [Absent EXCEPT !.st = "deleted"]]
  /\ UNCHANGED <<snap, running, userVars, call, faults, gaveUp>>

SnapshotStep(s) ==
  /\ snap[s] \in {"creating", "deleting"}
  /\ \/ snap' = [snap EXCEPT ![s] = IF @ = "creating" THEN "available" ELSE "deleted"] /\ NoFault
     \/ snap[s] = "creating" /\ snap' = [snap EXCEPT ![s] = "error"] /\ Fault
  /\ UNCHANGED <<vol, running, userVars, call, gaveUp>>

\* An attachment is undone, a creation or an extension ends in an error state.
CloudFails(v) ==
  /\ vol[v].st \in {"creating", "attaching", "extending"}
  /\ Fault
  /\ vol' = [vol EXCEPT ![v] = IF @.st = "attaching" THEN Rest(@) ELSE [@ EXCEPT !.st = "error"]]
  /\ UNCHANGED <<snap, running, userVars, call, gaveUp>>

InstanceDeleted(i) ==
  /\ running' = running \ {i} /\ i \in running
  /\ vol' = [v \in Ids |->
       CASE vol[v].at = i /\ vol[v].st \in {"in-use", "detaching"} -> Rest([vol[v] EXCEPT !.at = None])
         [] vol[v].at = i /\ vol[v].st \in {"extending", "error"} -> [vol[v] EXCEPT !.at = None]
         [] vol[v].to = i -> Rest(vol[v])
         [] OTHER -> vol[v]]
  /\ UNCHANGED <<snap, userVars, call, faults, gaveUp>>

-----------------------------------------------------------------------------
(* The users and the sidecars *)

Idle(c) == call[c].op = "none"
Call(c, op, pc) ==
  /\ Idle(c)
  /\ call' = [call EXCEPT ![c] = [NoCall EXCEPT !.op = op, !.pc = pc,
                                                !.vid = IF op = "unsnapshot" THEN content.sid ELSE handle,
                                                !.inst = va.inst, !.size = want]]
  /\ UNCHANGED <<cloudVars, running, userVars, faults, gaveUp>>

Sidecar(c) ==
  \/ c = "prov" /\ pvc = "wanted" /\ Call(c, "create", "byName")
  \/ c = "prov" /\ pvc = "released" /\ handle # None /\ Call(c, "delete", "used")
  \/ c = "att" /\ va.st = "attaching" /\ Call(c, "publish", "get")
  \/ c = "att" /\ va.st = "detaching" /\ Call(c, "unpublish", "get")
  \/ c = "exp" /\ pvc = "bound" /\ want > grown /\ Call(c, "expand", "get")
  \/ c = "snap" /\ content.st = "wanted" /\ Call(c, "snapshot", "byName")
  \/ c = "snap" /\ content.st = "released" /\ content.sid # None /\ Call(c, "unsnapshot", "delete")

\* The deadline of the call passes; the handler does not look at it and goes on.
GiveUp(c) ==
  /\ ~Idle(c) /\ Idle("late")
  /\ Trouble
  /\ gaveUp' = gaveUp \cup {call[c].op}
  /\ call' = [call EXCEPT ![c] = NoCall, !["late"] = call[c]]
  /\ UNCHANGED <<cloudVars, running, userVars, faults>>

ClaimEdit ==
  /\ \/ pvc = "absent" /\ pvc' = "wanted" /\ UNCHANGED <<handle, va, want, grown>>
     \/ pvc \in {"wanted", "bound"} /\ pvc' = "released" /\ UNCHANGED <<handle, va, want, grown>>
     \/ /\ pvc = "released" /\ handle = None /\ Idle("prov")
        /\ pvc' = "gone" /\ UNCHANGED <<handle, va, want, grown>>
     \/ /\ pvc = "bound" /\ va = NoVA
        /\ \E i \in running : va' = [inst |-> i, st |-> "attaching"]
        /\ UNCHANGED <<pvc, handle, want, grown>>
     \/ /\ va.st \in {"attaching", "attached"}
        /\ va' = [va EXCEPT !.st = "detaching"]
        /\ UNCHANGED <<pvc, handle, want, grown>>
     \/ /\ pvc = "bound" /\ want < MaxSize /\ want' = MaxSize
        /\ UNCHANGED <<pvc, handle, va, grown>>
  /\ UNCHANGED content

\* A VolumeSnapshot that goes before its snapshot is known leaves what there is.
SnapshotEdit ==
  /\ \/ /\ pvc = "bound" /\ content = NoContent
        /\ \E f \in BOOLEAN : content' = [content EXCEPT !.st = "wanted", !.force = f]
     \/ content.st \in {"wanted", "ready"} /\ content' = [content EXCEPT !.st = "released"]
     \/ /\ content.st = "released" /\ content.sid = None /\ Idle("snap")
        /\ content' = [content EXCEPT !.st = "gone"]
  /\ UNCHANGED <<pvc, handle, va, want, grown>>

User == (ClaimEdit \/ SnapshotEdit) /\ UNCHANGED <<cloudVars, running, call, faults, gaveUp>>

Init ==
  /\ vol = [v \in Ids |-> Absent]
  /\ snap = [s \in Ids |-> "absent"] /\ content = NoContent
  /\ running = Instances
  /\ pvc = "absent" /\ handle = None /\ va = NoVA /\ want = 1 /\ grown = 1
  /\ call = [c \in Slots |-> NoCall]
  /\ faults = 0 /\ gaveUp = {}

Next ==
  \/ \E c \in Slots : Handler(c)
  \/ \E v \in Ids : CloudStep(v) \/ CloudFails(v) \/ SnapshotStep(v)
  \/ \E i \in Instances : InstanceDeleted(i)
  \/ \E c \in Sidecars : Sidecar(c) \/ GiveUp(c)
  \/ User

\* The sidecars repeat their calls, the handlers and the cloud get on.
Fairness ==
  /\ \A c \in Sidecars : WF_vars(Sidecar(c))
  /\ \A c \in Slots : WF_vars(Handler(c))
  /\ \A v \in Ids : WF_vars(CloudStep(v)) /\ WF_vars(SnapshotStep(v))

Spec == Init /\ [][Next]_vars /\ Fairness

-----------------------------------------------------------------------------
(* Properties *)

\* CreateVolume and CreateSnapshot, repeated after failures and lost answers, make one
\* volume and one snapshot, unless a sidecar gives up on a call that is still running.
OnePerName ==
  /\ "create" \notin gaveUp => \A v, w \in Named : v = w
  /\ "snapshot" \notin gaveUp => \A s, t \in NamedSnaps : s = t

\* After ControllerPublishVolume the volume stays attached to the instance until
\* it is unpublished or the instance is deleted, and after ControllerUnpublishVolume
\* it is attached to nothing and no attachment is under way, whatever the others do to
\* it; only a late handler of the opposite call may interfere.
AttachedAsPublished ==
  /\ "unpublish" \notin gaveUp /\ va.st = "attached" /\ va.inst \in running =>
       Found(handle) /\ vol[handle].at = va.inst
  /\ "publish" \notin gaveUp /\ va = NoVA =>
       \A v \in Ids : vol[v].at = None /\ vol[v].to = None

\* After DeleteVolume nothing is left of the volume, nor of the snapshot after
\* DeleteSnapshot, unless a late handler made another.
DeletedIsGone ==
  /\ "create" \notin gaveUp /\ pvc = "gone" /\ handle # None =>
       \A v \in Named : vol[v].st = "deleting"
  /\ "snapshot" \notin gaveUp /\ content.st = "gone" /\ content.sid # None =>
       \A s \in NamedSnaps : snap[s] = "deleting"

\* After ControllerExpandVolume the volume has the size that was asked for, also
\* when an earlier handler is still running.
ExpandedIsLarge == Found(handle) => vol[handle].size >= grown

\* A snapshot that CreateSnapshot calls ready is complete, and its volume is kept: it
\* can be restored from until it is deleted, also when the claim is deleted meanwhile.
ReadyIsRestorable ==
  content.st = "ready" => snap[content.sid] = "available" /\ Found(handle) /\ vol[handle].st # "deleting"

Broken == \E v \in Ids : vol[v].st = "error" \/ snap[v] = "error"

\* What the users ask for comes about.  A wanted attachment does, and an unwanted one
\* goes away, unless the volume is in an error state or a late ControllerPublishVolume
\* attached it to another instance.  A snapshot is made unless the volume is used or
\* gone or a late handler made two, and one that is not wanted goes away.
Settles ==
  /\ va.st = "attaching" ~> va.st # "attaching" \/ pvc # "bound" \/ va.inst \notin running
                             \/ Broken \/ "publish" \in gaveUp
  /\ va.st = "detaching" ~> va.st # "detaching" \/ Broken
  /\ content.st = "wanted" ~> content.st # "wanted" \/ pvc # "bound" \/ va # NoVA \/ Broken
                               \/ gaveUp \cap {"publish", "snapshot"} # {}
  /\ content.st = "released" /\ content.sid # None ~> content.st = "gone"
=============================================================================
