----------------------------- MODULE CinderNode -----------------------------
(***************************************************************************)
(* The node service of the Cinder CSI driver (pkg/csi/cinder/nodeserver.go *)
(* with pkg/util/mount, pkg/util/blockdevice and pkg/util/metadata) and    *)
(* the kubelet that calls it, for one volume on one node: a filesystem, a  *)
(* filesystem cloned from a snapshot, a raw block device, or an inline     *)
(* ephemeral volume that the node service itself creates and deletes.      *)
(* The driver keeps no record of its mounts and takes no lock.  The        *)
(* kubelet has one call in hand; a call whose deadline passed goes on      *)
(* beside the next one.  Requests to the cloud, mount table look-ups and   *)
(* mounts are steps of their own.                                          *)
(***************************************************************************)
EXTENDS Naturals, Sequences, FiniteSets

CONSTANTS
    MaxBacking,    \* Cinder volumes that one ephemeral volume may leave behind
    MaxSize,       \* of a volume
    MaxPods,       \* that use the volume one after the other
    None,
    Serials,       \* the hypervisor names disks by the id of their volume
    MaxTroubles    \* failing requests, lost answers, crashes, reboots

Backing == 1..MaxBacking
Disks == {0} \cup Backing      \* 0: the persistent volume

ASSUME ConstantsAssumption ==
  /\ {MaxBacking, MaxSize, MaxPods, MaxTroubles} \subseteq Nat
  /\ MaxBacking > 0 /\ MaxSize > 0
  /\ None \notin Nat /\ Serials \in BOOLEAN

VARIABLES
    kind,      \* "fs", "clone", "block" or "ephemeral"
    rescan,    \* the option rescan-on-resize
    cinder,    \* cinder[d]: state and size of the volume
    dev,       \* dev[d]: the size of the device as the kernel knows it; 0: no device
    fsSize,    \* of the filesystem on the persistent volume; 0: none yet
    stage,     \* the staging path is a mount point
    target,    \* what is mounted on the target path, one upon the other
    cached,    \* the instance metadata has been read
    pods,      \* pods so far
    wanted,    \* the pod is to run
    st, pb,    \* the kubelet: "no", "yes" or "unsure" staged, published
    grown,     \* the size that the kubelet was told
    call,      \* the call in hand and a late one
    gaveUp,    \* operations that the kubelet gave up on
    undone,    \* a failed call left its work behind
    troubles

kubelet == <<pods, wanted, st, pb, grown>>
node == <<stage, target, fsSize, cached>>
fixed == <<kind, rescan>>
vars == <<kind, rescan, cinder, dev, fsSize, stage, target, cached, pods, wanted, st, pb,
          grown, call, gaveUp, undone, troubles>>

NoCall == [op |-> "none", pc |-> "idle", d |-> None, size |-> 0]
Slots == {"cur", "late"}
Absent == [st |-> "absent", size |-> 0]
Ephemeral == kind = "ephemeral"

Trouble == troubles < MaxTroubles
Fault == Trouble /\ troubles' = troubles + 1
NoFault == UNCHANGED troubles

-----------------------------------------------------------------------------
(* How a handler goes on, and what the kubelet makes of its answer *)

At(c, op, pc) == call[c].op = op /\ call[c].pc = pc
GotoWith(c, pc, d) ==
  call' = [call EXCEPT ![c].pc = pc, ![c].d = d] /\ UNCHANGED <<kubelet, undone>>
Goto(c, pc) == GotoWith(c, pc, call[c].d)
Done(c) == call' = [call EXCEPT ![c] = NoCall]

Answer(c) ==
  LET op == IF c = "cur" THEN call[c].op ELSE "none" IN
  /\ Done(c)
  /\ st' = CASE op = "stage" -> "yes" [] op = "unstage" -> "no" [] OTHER -> st
  /\ pb' = CASE op = "publish" -> "yes" [] op = "unpublish" -> "no" [] OTHER -> pb
  /\ grown' = IF op = "expand" THEN call[c].size ELSE grown
  /\ UNCHANGED <<pods, wanted, undone>>

\* What a call leaves behind when it ends here: a mount that the kubelet does not
\* know of, an ephemeral volume that is not the next call's, or one that is
\* detached and will not be deleted.
LeavesWork(c) ==
  \/ call[c].op = "stage" /\ stage
  \/ call[c].op = "publish" /\ (target # <<>> \/ call[c].d # None)
  \/ call[c].op = "unpublish" /\ call[c].pc = "detached"

\* The codes that the driver returns are final ones: the kubelet concludes that
\* nothing was mounted; after a failed unmount it does not know.
Fail(c) ==
  LET op == IF c = "cur" THEN call[c].op ELSE "none" IN
  /\ Done(c)
  /\ st' = CASE op = "stage" -> "no" [] op = "unstage" -> "unsure" [] OTHER -> st
  /\ pb' = CASE op = "publish" -> "no" [] op = "unpublish" -> "unsure" [] OTHER -> pb
  /\ undone' = (undone \/ LeavesWork(c))
  /\ UNCHANGED <<pods, wanted, grown>>

\* A call ends without an answer: the kubelet knows nothing of its effect.
Unsure(op) ==
  /\ st' = IF op \in {"stage", "unstage"} THEN "unsure" ELSE st
  /\ pb' = IF op \in {"publish", "unpublish"} THEN "unsure" ELSE pb
  /\ UNCHANGED <<pods, wanted, grown>>

-----------------------------------------------------------------------------
(* Devices, mounts and the metadata *)

\* GetVolume: the persistent volume by its id.
Found == cinder[0].st \notin {"absent", "gone"}

\* The first answer of the config drive or the metadata service is kept for the
\* life of the process.
Get(c, pc) ==
  \/ cached' = TRUE /\ Goto(c, pc) /\ NoFault
  \/ ~cached /\ Fail(c) /\ Fault /\ UNCHANGED cached

\* The device that bears the id of the volume; it is looked for until the steps
\* are used up.
getDevicePathBySerialID(d) == Serials /\ dev[d] # 0

\* The device at the address that fresh metadata give for the volume.
GetDevicePath(d) == dev[d] # 0

getDevicePath(d) == getDevicePathBySerialID(d) \/ GetDevicePath(d)

\* A path that is no mount point yet; it is created when missing.
IsLikelyNotMountPoint(path) == IF path = "staging" THEN ~stage ELSE target = <<>>

\* Mutant of UnmountPath: the upper mount is gone, so the path is free.
UnmountPathOnce(c, path, pc) ==
  /\ stage' = (stage /\ path # "staging")
  /\ target' = IF path = "staging" \/ target = <<>> THEN target ELSE Tail(target)
  /\ Goto(c, pc)

\* Mutant of UnmountPath: a path that is no mount point is an error.
UnmountPathStrict(c, path, pc) ==
  /\ stage' = (stage /\ path # "staging")
  /\ target' = IF path = "staging" \/ target = <<>> THEN target ELSE Tail(target)
  /\ IF IsLikelyNotMountPoint(path) THEN Fail(c)
     ELSE Goto(c, pc)

\* CleanupMountPoint: a path that is a mount point is unmounted once, and the
\* directory removed unless it still is a mount point.
UnmountPath(c, path, pc) ==
  /\ stage' = (stage /\ path # "staging")
  /\ target' = IF path = "staging" \/ target = <<>> THEN target ELSE Tail(target)
  /\ IF path = "target" /\ target' # <<>> THEN Fail(c)
     ELSE Goto(c, pc)

-----------------------------------------------------------------------------
(* NodeStageVolume and NodeUnstageVolume *)

StageGetVolume(c) ==
  /\ At(c, "stage", "get")
  /\ IF Found THEN Goto(c, "device") ELSE Fail(c)
  /\ UNCHANGED <<cinder, dev, node>> /\ NoFault

\* A volume made from a snapshot or a volume has the filesystem of its source.
Mounted(c) == Goto(c, IF kind = "clone" THEN "resize" ELSE "return")

\* Mutant of StageDevice: without a device there is nothing to mount.
StageDeviceLenient(c) ==
  /\ At(c, "stage", "device")
  /\ \/ getDevicePath(0) /\ kind # "block" /\ Goto(c, "mount")
     \/ (~getDevicePath(0) \/ kind = "block") /\ Answer(c)
  /\ UNCHANGED <<cinder, dev, node>> /\ NoFault

\* The device is waited for until the steps are used up; nothing is mounted for
\* a raw block volume.
StageDevice(c) ==
  /\ At(c, "stage", "device")
  /\ \/ /\ getDevicePath(0)
        /\ \/ kind = "block" /\ Answer(c)
           \/ kind # "block" /\ IsLikelyNotMountPoint("staging") /\ Goto(c, "mount")
           \/ kind # "block" /\ ~IsLikelyNotMountPoint("staging") /\ Mounted(c)
     \/ ~getDevicePath(0) /\ Fail(c)
  /\ UNCHANGED <<cinder, dev, node>> /\ NoFault

\* Formats an empty device.  The same device on the same path is refused.
FormatAndMount(c) ==
  /\ At(c, "stage", "mount")
  /\ \/ /\ getDevicePath(0) /\ ~stage
        /\ fsSize' = IF fsSize = 0 THEN dev[0] ELSE fsSize
        /\ stage' = TRUE
        /\ Mounted(c)
     \/ (~getDevicePath(0) \/ stage) /\ Fail(c) /\ UNCHANGED <<fsSize, stage>>
  /\ UNCHANGED <<cinder, dev, target, cached>> /\ NoFault

\* NeedResize and Resize, also when the path was mounted by an earlier call.
StageResize(c) ==
  /\ At(c, "stage", "resize")
  /\ \/ getDevicePath(0) /\ fsSize' = dev[0] /\ Answer(c)
     \/ ~getDevicePath(0) /\ Fail(c) /\ UNCHANGED fsSize
  /\ UNCHANGED <<cinder, dev, stage, target, cached>> /\ NoFault

UnstageGetVolume(c) ==
  /\ At(c, "unstage", "get")
  /\ IF Found THEN Goto(c, "unmount") ELSE Fail(c)
  /\ UNCHANGED <<cinder, dev, node>> /\ NoFault

UnstageUnmount(c) ==
  /\ At(c, "unstage", "unmount")
  /\ UnmountPath(c, "staging", "return")
  /\ UNCHANGED <<cinder, dev, fsSize, cached>> /\ NoFault

-----------------------------------------------------------------------------
(* NodePublishVolume of a staged volume *)

PublishGetVolume(c) ==
  /\ At(c, "publish", "get")
  /\ \/ ~Found /\ Fail(c)
     \/ Found /\ kind = "block" /\ Goto(c, "block")
     \/ Found /\ kind # "block" /\ IsLikelyNotMountPoint("target") /\ Goto(c, "bind")
     \/ Found /\ kind # "block" /\ ~IsLikelyNotMountPoint("target") /\ Answer(c)
  /\ UNCHANGED <<cinder, dev, node>> /\ NoFault

\* Binds the staging path over whatever the target path shows.
PublishBind(c) ==
  /\ At(c, "publish", "bind")
  /\ target' = <<<<IF stage THEN "fs" ELSE "dir", 0>>>> \o target
  /\ Goto(c, "return")
  /\ UNCHANGED <<cinder, dev, stage, fsSize, cached>> /\ NoFault

\* The device itself is bound, and not only when nothing is there.
nodePublishVolumeForBlock(c) ==
  /\ At(c, "publish", "block")
  /\ \/ getDevicePath(0) /\ target' = <<<<"dev", 0>>>> \o target /\ Goto(c, "return")
     \/ ~getDevicePath(0) /\ Fail(c) /\ UNCHANGED target
  /\ UNCHANGED <<cinder, dev, stage, fsSize, cached>> /\ NoFault

-----------------------------------------------------------------------------
(* nodePublishEphemeral: every call creates a volume of its own *)

EphemeralZone(c) ==
  /\ At(c, "publish", "zone")
  /\ Get(c, "create")
  /\ UNCHANGED <<cinder, dev, stage, target, fsSize>>

\* Beyond MaxBacking the quota is exhausted.
EphemeralCreate(c) ==
  LET free == {d \in Backing : cinder[d].st = "absent"} IN
  /\ At(c, "publish", "create")
  /\ \/ free = {} /\ Fail(c) /\ UNCHANGED cinder
     \/ \E d \in free :
          /\ \A e \in free : d <= e
          /\ cinder' = [cinder EXCEPT ![d] = [st |-> "creating", size |-> 1]]
          /\ GotoWith(c, "available", d)
  /\ UNCHANGED <<dev, node>> /\ NoFault

\* WaitVolumeTargetStatus, GetInstanceID and AttachVolume.
EphemeralAttach(c) ==
  LET d == call[c].d IN
  /\ At(c, "publish", "available")
  /\ \/ /\ cinder[d].st = "available"
        /\ cinder' = [cinder EXCEPT ![d].st = "attaching"]
        /\ Goto(c, "attached")
     \/ cinder[d].st \notin {"available", "creating"} /\ Fail(c) /\ UNCHANGED cinder
  /\ UNCHANGED <<dev, node>> /\ NoFault

\* WaitDiskAttached and getDevicePath.
EphemeralAttached(c) ==
  LET d == call[c].d IN
  /\ At(c, "publish", "attached")
  /\ \/ /\ cinder[d].st = "in-use" /\ getDevicePath(d)
        /\ IF IsLikelyNotMountPoint("target") THEN Goto(c, "mount") ELSE Answer(c)
     \/ cinder[d].st \notin {"in-use", "attaching"} /\ Fail(c)
  /\ UNCHANGED <<cinder, dev, node>> /\ NoFault

EphemeralMount(c) ==
  LET d == call[c].d IN
  /\ At(c, "publish", "mount")
  /\ \/ getDevicePath(d) /\ target' = <<<<"fs", d>>>> \o target /\ Goto(c, "return")
     \/ ~getDevicePath(d) /\ Fail(c) /\ UNCHANGED target
  /\ UNCHANGED <<cinder, dev, stage, fsSize, cached>> /\ NoFault

-----------------------------------------------------------------------------
(* NodeUnpublishVolume *)

Named == {d \in Backing : cinder[d].st \notin {"absent", "deleting"}}

\* A volume that is not found by its id may be an ephemeral one: the first of
\* that name is taken, with the attachments it has now.
UnpublishGetVolume(c) ==
  /\ At(c, "unpublish", "get")
  /\ \/ Found /\ Goto(c, "unmount")
     \/ ~Found /\ Named = {} /\ Fail(c)
     \/ ~Found /\ \E d \in Named :
          GotoWith(c, IF cinder[d].st = "in-use" THEN "unmountAttached" ELSE "unmountLoose", d)
  /\ UNCHANGED <<cinder, dev, node>> /\ NoFault

\* Without an attachment the ephemeral volume is not deleted either.
UnpublishUnmount(c) ==
  /\ \/ At(c, "unpublish", "unmount") /\ UnmountPath(c, "target", "return")
     \/ At(c, "unpublish", "unmountAttached") /\ UnmountPath(c, "target", "detach")
     \/ At(c, "unpublish", "unmountLoose") /\ UnmountPath(c, "target", "loose")
  /\ UNCHANGED <<cinder, dev, fsSize, cached>> /\ NoFault

EphemeralDetach(c) ==
  LET d == call[c].d IN
  /\ \/ At(c, "unpublish", "loose") /\ Fail(c) /\ UNCHANGED cinder
     \/ /\ At(c, "unpublish", "detach")
        /\ \/ /\ cinder[d].st \in {"in-use", "available"}
              /\ cinder' = [cinder EXCEPT ![d].st = IF @ = "in-use" THEN "detaching" ELSE @]
              /\ Goto(c, "detached")
           \/ cinder[d].st \notin {"in-use", "available"} /\ Fail(c) /\ UNCHANGED cinder
  /\ UNCHANGED <<dev, node>> /\ NoFault

\* WaitDiskDetached, and DeleteVolume of a volume that nobody uses.
EphemeralDelete(c) ==
  LET d == call[c].d IN
  /\ At(c, "unpublish", "detached")
  /\ \/ cinder[d].st = "available" /\ cinder' = [cinder EXCEPT ![d].st = "deleting"] /\ Answer(c)
     \/ cinder[d].st \in {"absent", "deleting"} /\ Answer(c) /\ UNCHANGED cinder
     \/ cinder[d].st \in {"attaching", "in-use", "error"} /\ Fail(c) /\ UNCHANGED cinder
  /\ UNCHANGED <<dev, node>> /\ NoFault

-----------------------------------------------------------------------------
(* NodeExpandVolume of a mounted filesystem *)

ExpandGetVolume(c) ==
  /\ At(c, "expand", "get")
  /\ IF Found /\ stage THEN Goto(c, "rescan") ELSE Fail(c)
  /\ UNCHANGED <<cinder, dev, node>> /\ NoFault

checkBlockDeviceSize(newSize) == getDevicePath(0) /\ dev[0] >= newSize

\* A device that is too small is scanned again and looked at once more.  Not
\* every bus has a file to ask for that.
RescanBlockDeviceGeometry(c) ==
  LET newSize == call[c].size IN
  /\ At(c, "expand", "rescan")
  /\ \/ /\ ~rescan \/ newSize = 0 \/ checkBlockDeviceSize(newSize)
        /\ Goto(c, "resize") /\ UNCHANGED dev
     \/ /\ rescan /\ newSize > 0 /\ ~checkBlockDeviceSize(newSize) /\ getDevicePath(0)
        /\ dev' = [dev EXCEPT ![0] = cinder[0].size]
        /\ IF dev'[0] >= newSize THEN Goto(c, "resize") ELSE Fail(c)
     \/ rescan /\ newSize > 0 /\ ~checkBlockDeviceSize(newSize) /\ Fail(c) /\ UNCHANGED dev
  /\ UNCHANGED <<cinder, node>> /\ NoFault

ExpandResize(c) ==
  /\ At(c, "expand", "resize")
  /\ \/ getDevicePath(0) /\ stage /\ fsSize' = dev[0] /\ Answer(c)
     \/ (~getDevicePath(0) \/ ~stage) /\ Fail(c) /\ UNCHANGED fsSize
  /\ UNCHANGED <<cinder, dev, stage, target, cached>> /\ NoFault

-----------------------------------------------------------------------------
\* The work is done, the answer is still to be sent.
Return(c) ==
  call[c].pc = "return" /\ Answer(c) /\ UNCHANGED <<cinder, dev, node>> /\ NoFault

\* A request to the cloud, a look-up or a mount fails without effect.
CallFails(c) ==
  call[c].pc \notin {"idle", "return"} /\ Fail(c) /\ Fault /\ UNCHANGED <<fixed, gaveUp, cinder, dev, node>>

Handler(c) ==
  /\ \/ StageGetVolume(c) \/ StageDevice(c) \/ FormatAndMount(c)
     \/ StageResize(c) \/ UnstageGetVolume(c) \/ UnstageUnmount(c)
     \/ PublishGetVolume(c) \/ PublishBind(c) \/ nodePublishVolumeForBlock(c)
     \/ EphemeralZone(c) \/ EphemeralCreate(c) \/ EphemeralAttach(c)
     \/ EphemeralAttached(c) \/ EphemeralMount(c)
     \/ UnpublishGetVolume(c) \/ UnpublishUnmount(c) \/ EphemeralDetach(c) \/ EphemeralDelete(c)
     \/ Return(c) \/ ExpandGetVolume(c) \/ RescanBlockDeviceGeometry(c) \/ ExpandResize(c)
  /\ UNCHANGED <<fixed, gaveUp>>

-----------------------------------------------------------------------------
(* The cloud and the kernel *)

\* Cinder and Nova finish what they were asked for.
CloudStep(d) ==
  /\ cinder[d].st \in {"creating", "attaching", "detaching", "deleting"}
  /\ cinder' = [cinder EXCEPT ![d] =
       CASE @.st = "deleting" -> Absent
         [] @.st = "attaching" -> [@ EXCEPT !.st = "in-use"]
         [] OTHER -> [@ EXCEPT !.st = "available"]]
  /\ dev' = [dev EXCEPT ![d] = IF cinder[d].st = "detaching" THEN 0 ELSE @]
  /\ UNCHANGED <<fixed, node, kubelet, call, gaveUp, undone, troubles>>

\* The device of an attached volume shows.
DeviceShows(d) ==
  /\ cinder[d].st = "in-use" /\ dev[d] = 0
  /\ dev' = [dev EXCEPT ![d] = cinder[d].size]
  /\ UNCHANGED <<fixed, cinder, node, kubelet, call, gaveUp, undone, troubles>>

\* The creation of an ephemeral volume ends in an error.
CreationFails(d) ==
  /\ cinder[d].st = "creating" /\ cinder' = [cinder EXCEPT ![d].st = "error"]
  /\ Fault
  /\ UNCHANGED <<fixed, dev, node, kubelet, call, gaveUp, undone>>

\* The kernel learns of the new size by itself.
KernelNotices ==
  /\ getDevicePath(0) /\ dev[0] < cinder[0].size
  /\ dev' = [dev EXCEPT ![0] = cinder[0].size]
  /\ UNCHANGED <<fixed, cinder, node, kubelet, call, gaveUp, undone, troubles>>

\* The attach/detach controller: it attaches what a pod needs, and detaches what
\* the kubelet no longer holds.
AttachDetach ==
  /\ ~Ephemeral
  /\ \/ wanted /\ cinder[0].st = "available" /\ cinder' = [cinder EXCEPT ![0].st = "attaching"]
     \/ /\ ~wanted /\ st = "no" /\ pb = "no" /\ call["cur"] = NoCall
        /\ cinder[0].st = "in-use" /\ cinder' = [cinder EXCEPT ![0].st = "detaching"]
  /\ UNCHANGED <<fixed, dev, node, kubelet, call, gaveUp, undone, troubles>>

\* The volume is grown by the controller service; or somebody deletes it.
VolumeGrows ==
  /\ kind \in {"fs", "clone"} /\ Found /\ cinder[0].size < MaxSize
  /\ cinder' = [cinder EXCEPT ![0].size = MaxSize]
  /\ UNCHANGED <<fixed, dev, node, kubelet, call, gaveUp, undone, troubles>>

VolumeVanishes ==
  /\ Found /\ Fault
  /\ cinder' = [cinder EXCEPT ![0].st = "gone"] /\ dev' = [dev EXCEPT ![0] = 0]
  /\ UNCHANGED <<fixed, node, kubelet, call, gaveUp, undone>>

-----------------------------------------------------------------------------
(* The kubelet *)

Call(op, pc) ==
  /\ call["cur"] = NoCall
  /\ call' = [call EXCEPT !["cur"] = [op |-> op, pc |-> pc, d |-> None, size |-> cinder[0].size]]

Kubelet ==
  /\ \/ wanted /\ ~Ephemeral /\ cinder[0].st \in {"in-use", "gone"} /\ st # "yes" /\ Call("stage", "get")
     \/ wanted /\ ~Ephemeral /\ st = "yes" /\ pb # "yes" /\ Call("publish", "get")
     \/ wanted /\ Ephemeral /\ pb # "yes" /\ Call("publish", "zone")
     \/ wanted /\ kind \in {"fs", "clone"} /\ pb = "yes" /\ grown < cinder[0].size /\ Call("expand", "get")
     \/ ~wanted /\ pb # "no" /\ Call("unpublish", "get")
     \/ ~wanted /\ pb = "no" /\ st # "no" /\ Call("unstage", "get")
  /\ UNCHANGED <<fixed, cinder, dev, node, kubelet, gaveUp, undone, troubles>>

\* A pod is created, and deleted.  Every pod has a target path of its own: the
\* next one is only created when nothing of the last is left or under way.
Pods ==
  /\ \/ /\ ~wanted /\ pb = "no" /\ call["cur"] = NoCall /\ pods < MaxPods
        /\ target = <<>> /\ call["late"].op \notin {"publish", "unpublish"}
        /\ wanted' = TRUE /\ pods' = pods + 1
     \/ wanted /\ wanted' = FALSE /\ UNCHANGED pods
  /\ UNCHANGED <<fixed, cinder, dev, node, st, pb, grown, call, gaveUp, undone, troubles>>

\* The deadline of a call passes; the handler goes on.
GiveUp ==
  /\ call["cur"] # NoCall /\ call["late"] = NoCall
  /\ Unsure(call["cur"].op)
  /\ Fault
  /\ gaveUp' = gaveUp \cup {call["cur"].op}
  /\ call' = [call EXCEPT !["cur"] = NoCall, !["late"] = call["cur"]]
  /\ UNCHANGED <<fixed, cinder, dev, node, undone>>

\* The driver is restarted: the mounts stay, the calls and the cache are lost.
Crash ==
  /\ Fault
  /\ call' = [c \in Slots |-> NoCall]
  /\ Unsure(call["cur"].op)
  /\ undone' = (undone \/ \E c \in Slots : call[c].d # None /\ LeavesWork(c))
  /\ cached' = FALSE
  /\ UNCHANGED <<fixed, cinder, dev, stage, target, fsSize, gaveUp>>

\* The node is rebooted: the mounts are lost as well, and the kubelet finds none.
Reboot ==
  /\ Fault
  /\ call' = [c \in Slots |-> NoCall]
  /\ stage' = FALSE /\ target' = <<>> /\ cached' = FALSE
  /\ st' = "no" /\ pb' = "no"
  /\ undone' = (undone \/ Ephemeral)
  /\ UNCHANGED <<fixed, cinder, dev, fsSize, pods, wanted, grown, gaveUp>>

Init ==
  /\ kind \in {"fs", "clone", "block", "ephemeral"}
  /\ rescan \in BOOLEAN
  /\ cinder = [d \in Disks |-> IF d = 0 /\ ~Ephemeral
                               THEN [st |-> "available", size |-> IF kind = "clone" THEN 2 ELSE 1]
                               ELSE Absent]
  /\ dev = [d \in Disks |-> 0]
  /\ fsSize = IF kind = "clone" THEN 1 ELSE 0
  /\ stage = FALSE /\ target = <<>> /\ cached = FALSE
  /\ pods = 0 /\ wanted = FALSE /\ st = "no" /\ pb = "no" /\ grown = cinder[0].size
  /\ call = [c \in Slots |-> NoCall]
  /\ gaveUp = {} /\ undone = FALSE /\ troubles = 0

Next ==
  \/ \E c \in Slots : Handler(c) \/ CallFails(c)
  \/ \E d \in Disks : CloudStep(d) \/ CreationFails(d) \/ DeviceShows(d)
  \/ KernelNotices \/ AttachDetach \/ VolumeGrows \/ VolumeVanishes
  \/ Kubelet \/ Pods \/ GiveUp \/ Crash \/ Reboot

Spec == Init /\ [][Next]_vars

\* The kubelet repeats its calls, the handlers, the cloud and the attach/detach
\* controller get on.
FairSpec ==
  /\ Spec
  /\ WF_vars(Kubelet) /\ WF_vars(AttachDetach)
  /\ \A c \in Slots : WF_vars(Handler(c))
  /\ \A d \in Disks : WF_vars(CloudStep(d)) /\ WF_vars(DeviceShows(d))

-----------------------------------------------------------------------------
(* Properties *)

Gone == ~Ephemeral /\ ~Found

\* The size of the block device or of the filesystem that the path shows.
GetDeviceStats == IF target[1][1] = "dev" THEN dev[0] ELSE fsSize

NodeGetVolumeStats == IF target = <<>> THEN None ELSE GetDeviceStats

\* A pod that was told its volume is published sees that volume on its path: the
\* staged filesystem and not the bare directory below it, the raw device, or an
\* ephemeral volume that is attached.  Only a late NodeUnstageVolume may take it
\* away.  It finds the space that the kubelet was told of: in a clone, whose
\* filesystem came with the size of its source, and after NodeExpandVolume when the
\* device is scanned again.
PublishedIsMounted ==
  pb = "yes" /\ ~Gone =>
    /\ call["cur"].op # "unpublish" /\ "unstage" \notin gaveUp =>
         /\ target # <<>>
         /\ target[1][1] = IF kind = "block" THEN "dev" ELSE "fs"
         /\ cinder[target[1][2]].st = "in-use"
    /\ ~Ephemeral /\ NodeGetVolumeStats # None /\ (rescan \/ grown = 1) =>
         NodeGetVolumeStats >= grown

\* When the kubelet has let go of a volume, so that it is detached, nothing of it
\* is mounted: also after crashes, and when a path was mounted more than once; an
\* ephemeral volume is deleted.  A late call, or one that failed half-way, may
\* leave something behind.
ReleasedIsClean ==
  st = "no" /\ pb = "no" /\ call["cur"] = NoCall /\ ~undone =>
    /\ gaveUp \cap {"publish", "stage"} = {} => ~stage /\ target = <<>>
    /\ gaveUp = {} => Named = {}

\* A pod gets its volume and a deleted pod is rid of it, whatever failed before,
\* if the volume exists and no ephemeral volume was left behind.  NodeUnpublish
\* of an ephemeral volume that is deleted already fails for good.
Settles ==
  LET lost == Gone \/ (Ephemeral /\ (undone \/ gaveUp # {})) IN
  /\ wanted ~> pb = "yes" \/ ~wanted \/ lost
  /\ ~wanted ~> (pb = "no" /\ st = "no") \/ wanted \/ lost \/ (Ephemeral /\ Named = {})
=============================================================================
