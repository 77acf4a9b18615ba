-------------------------- MODULE CinderCSIProofs ---------------------------
(***************************************************************************)
(* Proofs about CinderCSI, for any number of volumes, instances, failures  *)
(* and calls that are given up: one volume and one snapshot per name, what *)
(* is deleted stays deleted, a ready snapshot can be restored from, an     *)
(* expanded volume is as large as was answered, and a volume is attached   *)
(* as it was published.  They rest on BaseInv (the shapes of volumes and   *)
(* calls, what a volume and a call hold in each state, and which call      *)
(* belongs to which object of the users) with what every step does to the  *)
(* volumes, the snapshots and the calls, and each on an invariant of its   *)
(* own.                                                                    *)
(***************************************************************************)
EXTENDS CinderCSI, TLAPS

-----------------------------------------------------------------------------
(* The shape of volumes and calls, and what holds of each by itself *)

IsVolume(x) == x = [st |-> x.st, size |-> x.size, at |-> x.at, to |-> x.to]
IsCall(k) == k = [op |-> k.op, pc |-> k.pc, vid |-> k.vid, inst |-> k.inst, size |-> k.size, seen |-> k.seen]

VolumesShape == vol = [v \in Ids |-> vol[v]] /\ \A v \in Ids : IsVolume(vol[v])
CallsShape == call = [c \in Slots |-> call[c]] /\ \A c \in Slots : IsCall(call[c])
Shapes ==
  /\ VolumesShape /\ CallsShape
  /\ snap = [s \in Ids |-> snap[s]]
  /\ va = [inst |-> va.inst, st |-> va.st]
  /\ content = [st |-> content.st, sid |-> content.sid, force |-> content.force]

\* A volume that is attached, or is being attached, says to what.
VolumeOK(x, up) ==
  /\ x.st \in {"absent", "creating", "available", "attaching", "in-use", "detaching", "extending",
               "error", "deleting", "deleted"}
  /\ x.size \in 0..MaxSize /\ (x.st \notin {"absent", "deleted"} => x.size >= 1)
  /\ x.at \in up \cup {None} /\ x.to \in up \cup {None}
  /\ x.to # None <=> x.st = "attaching"
  /\ x.st \in {"in-use", "detaching"} => x.at # None
  /\ x.at # None => x.st \in {"in-use", "detaching", "extending", "error"}

\* Who makes which calls.
OpsOf(c) ==
  CASE c = "prov" -> {"create", "delete"}
    [] c = "att" -> {"publish", "unpublish"}
    [] c = "exp" -> {"expand"}
    [] c = "snap" -> {"snapshot", "unsnapshot"}
    [] OTHER -> gaveUp

\* A handler works on the volume that the provisioner was given, and a call that is
\* waited for belongs to what the users want at the time.
CallOK(c, k) ==
  /\ k.op \in OpsOf(c) \cup {"none"}
  /\ k.op \in {"delete", "publish", "unpublish", "expand"} \/ (k.op = "snapshot" /\ k.pc # "wait") =>
       k.vid = handle /\ handle # None
  /\ c = "prov" /\ k.op = "create" => handle = None /\ pvc \in {"wanted", "released"}
  /\ c = "att" /\ k.op \in {"publish", "unpublish"} =>
       k.inst = va.inst /\ va # NoVA /\ (k.op = "unpublish" => va.st = "detaching")
  /\ k.op = "expand" => k.size \in Nat /\ k.size <= MaxSize
  /\ k.op = "expand" /\ k.pc = "extend" => k.seen \in {"available", "in-use"}
  /\ c = "snap" /\ k.op = "snapshot" => content.st \in {"wanted", "released"} /\ content.sid = None
  /\ k.op = "snapshot" /\ k.pc = "wait" => k.vid \in Ids
  /\ k.op = "unsnapshot" => content.st \in {"released", "gone"} /\ k.vid = content.sid /\ k.vid # None

\* The objects of the users.
UserInv ==
  /\ pvc \in {"absent", "wanted", "bound", "released", "gone"}
  /\ handle \in Ids \cup {None} /\ (handle # None => vol[handle].st # "absent")
  /\ pvc \in {"absent", "wanted"} => handle = None
  /\ pvc = "bound" => handle # None
  /\ IF va.st = "none" THEN va = NoVA
     ELSE va.st \in {"attaching", "attached", "detaching"} /\ va.inst \in Instances /\ handle # None
  /\ IF content.st = "absent" THEN content = NoContent
     ELSE content.st \in {"wanted", "ready", "released", "gone"} /\ handle # None
  /\ content.sid \in Ids \cup {None} /\ (content.st = "wanted" => content.sid = None)
  /\ want \in Nat /\ want <= MaxSize /\ grown \in Nat /\ grown <= MaxSize
  /\ handle = None => grown = 1
  /\ running \subseteq Instances

VolumesInv == \A v \in Ids : VolumeOK(vol[v], running)
CallsInv == \A c \in Slots : CallOK(c, call[c])
BaseInv == Shapes /\ VolumesInv /\ CallsInv /\ UserInv

-----------------------------------------------------------------------------
(* What may become of a volume *)

\* No volume comes back, shrinks or leaves an error state; an extension grows it.
Drift(x, y) ==
  /\ y.st = "absent" => x.st = "absent"
  /\ x.st = "deleted" => y.st = "deleted"
  /\ x.st = "deleting" => y.st \in {"deleting", "deleted"}
  /\ y.st = "deleted" => x.st \in {"deleting", "deleted"}
  /\ x.st = "error" => y.st \in {"error", "deleting"}
  /\ x.st = "extending" => y.st \in {"extending", "error"} \/ y.size >= MaxSize
  /\ y.st = "deleted" \/ y.size >= x.size

Drifts == \A v \in Ids : Drift(vol[v], vol'[v])

\* The constants.
LEMMA Constants ==
  /\ None \notin Ids /\ None \notin Instances
  /\ MaxSize \in Nat /\ MaxSize >= 1
PROOF BY ConstantsAssumption

\* A record with one field changed is the record of its fields.
LEMMA VolumeExcept ==
  ASSUME NEW x, NEW y, IsVolume(x)
  PROVE  /\ [x EXCEPT !.st = y] = [st |-> y, size |-> x.size, at |-> x.at, to |-> x.to]
         /\ [x EXCEPT !.size = y] = [st |-> x.st, size |-> y, at |-> x.at, to |-> x.to]
         /\ [x EXCEPT !.at = y] = [st |-> x.st, size |-> x.size, at |-> y, to |-> x.to]
         /\ [x EXCEPT !.to = y] = [st |-> x.st, size |-> x.size, at |-> x.at, to |-> y]
PROOF BY SMT DEF IsVolume

\* A record of a volume is one.
LEMMA VolumeRecord ==
  ASSUME NEW s, NEW z, NEW a, NEW t,
         NEW x, x = [st |-> s, size |-> z, at |-> a, to |-> t]
  PROVE  IsVolume(x) /\ x.st = s /\ x.size = z /\ x.at = a /\ x.to = t
PROOF BY SMT DEF IsVolume

\* What Rest makes of a volume.
LEMMA RestFields ==
  ASSUME NEW x, IsVolume(x)
  PROVE  Rest(x) = [st |-> IF x.at = None THEN "available" ELSE "in-use",
                    size |-> x.size, at |-> x.at, to |-> None]
PROOF
  <1> DEFINE s == IF x.at = None THEN "available" ELSE "in-use"
             y == [x EXCEPT !.st = s]
  <1>1. y = [st |-> s, size |-> x.size, at |-> x.at, to |-> x.to]
    BY VolumeExcept, Zenon
  <1>2. Rest(x) = [y EXCEPT !.to = None]
    BY Zenon DEF Rest
  <1> HIDE DEF s, y
  <1>3. IsVolume(y) /\ y.st = s /\ y.size = x.size /\ y.at = x.at
    BY <1>1, VolumeRecord
  <1>4. [y EXCEPT !.to = None] = [st |-> y.st, size |-> y.size, at |-> y.at, to |-> None]
    BY <1>3, VolumeExcept, Zenon
  <1>5. QED
    BY <1>2, <1>3, <1>4, Zenon DEF s

\* The record of a volume that was never made.
LEMMA AbsentFields ==
  IsVolume(Absent) /\ Absent.st = "absent" /\ Absent.size = 0 /\ Absent.at = None /\ Absent.to = None
PROOF BY SMT DEF IsVolume, Absent

\* A volume that is left alone drifts nowhere.
LEMMA DriftReflexive ==
  ASSUME NEW x, VolumeOK(x, running)
  PROVE  Drift(x, x)
PROOF BY SMT DEF VolumeOK, Drift

\* One volume changes.
LEMMA OneVolume ==
  ASSUME BaseInv, NEW v \in Ids, NEW y, vol' = [vol EXCEPT ![v] = y], running' = running,
         IsVolume(y), VolumeOK(y, running), Drift(vol[v], y)
  PROVE  /\ VolumesShape' /\ VolumesInv' /\ Drifts
         /\ vol'[v] = y /\ \A w \in Ids \ {v} : vol'[w] = vol[w]
PROOF
  <1>1. /\ vol' = [w \in Ids |-> IF w = v THEN y ELSE vol[w]]
        /\ vol'[v] = y /\ \A w \in Ids \ {v} : vol'[w] = vol[w]
    BY SMT DEF BaseInv, Shapes, VolumesShape
  <1>2. vol' = [w \in Ids |-> vol'[w]]
    BY <1>1, Zenon
  <1>3. \A w \in Ids : IsVolume(vol'[w]) /\ VolumeOK(vol'[w], running') /\ Drift(vol[w], vol'[w])
    <2>1. SUFFICES ASSUME NEW w \in Ids
                   PROVE  IsVolume(vol'[w]) /\ VolumeOK(vol'[w], running') /\ Drift(vol[w], vol'[w])
      BY Zenon
    <2>2. CASE w = v
      BY <1>1, <2>2, Zenon
    <2>3. CASE w # v
      <3>1. vol'[w] = vol[w] /\ IsVolume(vol[w]) /\ VolumeOK(vol[w], running)
        BY <1>1, <2>3, Zenon DEF BaseInv, Shapes, VolumesShape, VolumesInv
      <3>2. QED
        BY <3>1, DriftReflexive, Zenon
    <2>4. QED
      BY <2>2, <2>3, Zenon
  <1>4. QED
    BY <1>1, <1>2, <1>3, Zenon DEF VolumesShape, VolumesInv, Drifts

\* No volume changes.
LEMMA NoVolume ==
  ASSUME BaseInv, vol' = vol, running' = running
  PROVE  VolumesShape' /\ VolumesInv' /\ Drifts
PROOF
  <1>1. VolumesShape' /\ VolumesInv'
    BY Zenon DEF BaseInv, Shapes, VolumesShape, VolumesInv, VolumeOK
  <1>2. Drifts
    BY DriftReflexive, Zenon DEF BaseInv, VolumesInv, Drifts
  <1>3. QED
    BY <1>1, <1>2, Zenon

\* The requests of the handlers are among the changes that are allowed.
LEMMA Creating ==
  ASSUME NEW y, y = [Absent EXCEPT !.st = "creating", !.size = 1]
  PROVE  /\ IsVolume(y) /\ VolumeOK(y, running) /\ Drift(Absent, y)
         /\ y.st = "creating" /\ y.size = 1 /\ y.at = None /\ y.to = None
PROOF
  <1> DEFINE z == [Absent EXCEPT !.st = "creating"]
  <1>1. z = [st |-> "creating", size |-> 0, at |-> None, to |-> None]
    BY SMT DEF Absent
  <1>2. y = [z EXCEPT !.size = 1]
    BY Zenon
  <1> HIDE DEF z
  <1>3. IsVolume(z) /\ z.st = "creating" /\ z.at = None /\ z.to = None
    BY <1>1, VolumeRecord
  <1>4. [z EXCEPT !.size = 1] = [st |-> z.st, size |-> 1, at |-> z.at, to |-> z.to]
    BY <1>3, VolumeExcept, Zenon
  <1>5. IsVolume(y) /\ y.st = "creating" /\ y.size = 1 /\ y.at = None /\ y.to = None
    BY <1>2, <1>3, <1>4, VolumeRecord, Zenon
  <1>6. QED
    BY <1>5, AbsentFields, Constants, SMT DEF VolumeOK, Drift

MayAttach(x, i) == x.st = "available" /\ i \in running /\ i # None
Attached(x, i, y) == y = [x EXCEPT !.st = "attaching", !.to = i]

\* A volume that is asked to be attached.
LEMMA Attaching ==
  ASSUME NEW x, NEW i, NEW y, IsVolume(x), VolumeOK(x, running), MayAttach(x, i), Attached(x, i, y)
  PROVE  /\ IsVolume(y) /\ VolumeOK(y, running) /\ Drift(x, y)
         /\ y.st = "attaching" /\ y.size = x.size /\ y.at = x.at /\ y.to = i
PROOF
  <1> DEFINE z == [x EXCEPT !.st = "attaching"]
  <1>1. z = [st |-> "attaching", size |-> x.size, at |-> x.at, to |-> x.to]
    BY VolumeExcept, Zenon
  <1>2. y = [z EXCEPT !.to = i]
    BY Zenon DEF Attached
  <1> HIDE DEF z
  <1>3. IsVolume(z) /\ z.st = "attaching" /\ z.size = x.size /\ z.at = x.at
    BY <1>1, VolumeRecord
  <1>4. [z EXCEPT !.to = i] = [st |-> z.st, size |-> z.size, at |-> z.at, to |-> i]
    BY <1>3, VolumeExcept, Zenon
  <1>5. IsVolume(y) /\ y.st = "attaching" /\ y.size = x.size /\ y.at = x.at /\ y.to = i
    BY <1>2, <1>3, <1>4, VolumeRecord
  <1>6. QED
    BY <1>5, SMT DEF VolumeOK, Drift, MayAttach

\* The changes that leave the attachments alone.
MayTurn(x, s) ==
  \/ x.st = "in-use" /\ s = "detaching"
  \/ x.st \in {"available", "in-use"} /\ s = "extending"
  \/ x.st \in {"creating", "extending"} /\ s = "error"
  \/ x.st \in {"available", "error"} /\ x.at = None /\ s = "deleting"

Turned(x, s, y) == y = [x EXCEPT !.st = s]

\* A volume that changes its state and nothing else.
LEMMA StateChange ==
  ASSUME NEW x, NEW s, NEW y, IsVolume(x), VolumeOK(x, running), MayTurn(x, s), Turned(x, s, y)
  PROVE  /\ IsVolume(y) /\ VolumeOK(y, running) /\ Drift(x, y)
         /\ y.st = s /\ y.size = x.size /\ y.at = x.at /\ y.to = x.to
PROOF
  <1>1. y = [st |-> s, size |-> x.size, at |-> x.at, to |-> x.to]
    BY VolumeExcept, Zenon DEF Turned
  <1>2. IsVolume(y) /\ y.st = s /\ y.size = x.size /\ y.at = x.at /\ y.to = x.to
    BY <1>1, VolumeRecord
  <1>3. QED
    BY <1>2, SMT DEF VolumeOK, Drift, MayTurn

\* A volume that comes to rest.
MayRest(x, z, up) ==
  /\ z.at \in up \cup {None}
  /\ \/ z.at = x.at /\ z.size = x.size /\ x.st \in {"creating", "attaching"}
     \/ z.at = x.to /\ z.size = x.size /\ x.st = "attaching"
     \/ z.at = None /\ z.size = x.size /\ x.st \in {"in-use", "detaching"}
     \/ z.at = x.at /\ z.size = MaxSize /\ x.st = "extending"

\* A volume that comes to rest.
LEMMA RestDrifts ==
  ASSUME NEW x, NEW z, NEW up, VolumeOK(x, running), IsVolume(z), MayRest(x, z, up)
  PROVE  /\ IsVolume(Rest(z)) /\ VolumeOK(Rest(z), up) /\ Drift(x, Rest(z))
         /\ Rest(z).st \in {"available", "in-use"} /\ Rest(z).at = z.at /\ Rest(z).to = None
PROOF
  <1> DEFINE y == Rest(z)
             s == IF z.at = None THEN "available" ELSE "in-use"
  <1>1. y = [st |-> s, size |-> z.size, at |-> z.at, to |-> None]
    BY RestFields, Zenon
  <1> HIDE DEF y, s
  <1>2. IsVolume(y) /\ y.st = s /\ y.size = z.size /\ y.at = z.at /\ y.to = None
    BY <1>1, VolumeRecord
  <1>3. y.size \in 0..MaxSize /\ (y.st \notin {"absent", "deleted"} => y.size >= 1) /\ y.size >= x.size
    BY <1>2, Constants, SMT DEF VolumeOK, MayRest
  <1>4. VolumeOK(y, up) /\ Drift(x, y) /\ y.st \in {"available", "in-use"}
    BY <1>2, <1>3, Constants, SMT DEF VolumeOK, Drift, MayRest, s
  <1>5. QED
    BY <1>2, <1>4, Zenon DEF y

\* A volume that is deleted.
LEMMA Deleted ==
  ASSUME NEW x, VolumeOK(x, running), x.st = "deleting", NEW y, y = [Absent EXCEPT !.st = "deleted"]
  PROVE  /\ IsVolume(y) /\ VolumeOK(y, running) /\ Drift(x, y)
         /\ y.st = "deleted" /\ y.at = None /\ y.to = None
PROOF
  <1>1. y = [st |-> "deleted", size |-> Absent.size, at |-> Absent.at, to |-> Absent.to]
    BY AbsentFields, VolumeExcept, Zenon
  <1>2. IsVolume(y) /\ y.st = "deleted" /\ y.size = 0 /\ y.at = None /\ y.to = None
    BY <1>1, AbsentFields, VolumeRecord, Zenon
  <1>3. QED
    BY <1>2, Constants, SMT DEF VolumeOK, Drift

-----------------------------------------------------------------------------
(* What each step does to the volumes *)

VolumesKept == VolumesShape' /\ VolumesInv' /\ Drifts

\* Volume v, and no other, goes into state s.
Turns(v, s) ==
  /\ v \in Ids /\ vol'[v].st = s
  /\ \A w \in Ids \ {v} : vol'[w] = vol[w]

\* What is known of a volume.
LEMMA VolumeFacts ==
  ASSUME BaseInv, NEW v \in Ids
  PROVE  IsVolume(vol[v]) /\ VolumeOK(vol[v], running)
PROOF BY Zenon DEF BaseInv, Shapes, VolumesShape, VolumesInv

\* CreateVolume asks for a new volume.
LEMMA CreateVolumeDoes ==
  ASSUME BaseInv, NEW c \in Slots, CreateVolume(c), running' = running
  PROVE  /\ VolumesKept
         /\ \E v \in Ids :
              /\ vol[v].st = "absent" /\ Turns(v, "creating") /\ vol'[v].at = None /\ vol'[v].to = None
              /\ Answer(c, v) \/ Fail(c)
PROOF
  <1>1. PICK v \in Ids : /\ \A w \in Ids : (vol[w] = Absent) <=> (w >= v)
                         /\ vol' = [vol EXCEPT ![v] = [Absent EXCEPT !.st = "creating", !.size = 1]]
                         /\ Answer(c, v) \/ Fail(c)
    BY Zenon DEF CreateVolume
  <1>2. vol[v] = Absent
    <2>1. v >= v
      BY SMT DEF Ids
    <2>2. QED
      BY <1>1, <2>1, Zenon
  <1> DEFINE y == [Absent EXCEPT !.st = "creating", !.size = 1]
  <1>3. /\ IsVolume(y) /\ VolumeOK(y, running) /\ Drift(Absent, y)
        /\ y.st = "creating" /\ y.at = None /\ y.to = None
    BY Creating, Zenon
  <1>4. vol' = [vol EXCEPT ![v] = y]
    BY <1>1, Zenon
  <1> HIDE DEF y
  <1>5. /\ VolumesKept
        /\ vol'[v] = y /\ \A w \in Ids \ {v} : vol'[w] = vol[w]
    BY <1>2, <1>3, <1>4, OneVolume, Zenon DEF VolumesKept
  <1>6. QED
    BY <1>1, <1>2, <1>3, <1>5, AbsentFields, Zenon DEF Turns

\* DeleteVolume deletes the volume when nothing depends on it.
LEMMA DeleteVolumeDoes ==
  ASSUME BaseInv, NEW c \in Slots, DeleteVolume(c), running' = running
  PROVE  /\ VolumesKept
         /\ \/ vol' = vol
            \/ LET v == call[c].vid IN
               /\ NamedSnaps = {} /\ Found(v) /\ Turns(v, "deleting")
               /\ vol[v].at = None /\ vol'[v].at = None /\ vol'[v].to = vol[v].to
PROOF
  <1> DEFINE v == call[c].vid
             y == [vol[v] EXCEPT !.st = "deleting"]
  <1>1. CASE vol' = vol
    BY <1>1, NoVolume, Zenon DEF VolumesKept
  <1>2. CASE /\ Found(v) /\ vol[v].st \in {"available", "error"} /\ vol[v].at = None /\ NamedSnaps = {}
             /\ vol' = [vol EXCEPT ![v].st = "deleting"]
    <2>1. v \in Ids
      BY <1>2, Zenon DEF Found
    <2>2. vol' = [vol EXCEPT ![v] = y]
      BY <1>2, Zenon
    <2>3. /\ IsVolume(y) /\ VolumeOK(y, running) /\ Drift(vol[v], y)
          /\ y.st = "deleting" /\ y.at = vol[v].at /\ y.to = vol[v].to
      <3>1. IsVolume(vol[v]) /\ VolumeOK(vol[v], running)
        BY <2>1, VolumeFacts, Zenon
      <3>2. MayTurn(vol[v], "deleting")
        BY <1>2, Zenon DEF MayTurn
      <3>3. Turned(vol[v], "deleting", y)
        BY Zenon DEF Turned
      <3> HIDE DEF y, v
      <3>4. QED
        BY <3>1, <3>2, <3>3, StateChange
    <2> HIDE DEF y
    <2>4. /\ VolumesKept
          /\ vol'[v] = y /\ \A w \in Ids \ {v} : vol'[w] = vol[w]
      BY <2>1, <2>2, <2>3, OneVolume, Zenon DEF VolumesKept
    <2>5. QED
      BY <1>2, <2>1, <2>3, <2>4, Zenon DEF Turns
  <1>3. QED
    BY <1>1, <1>2, Zenon DEF DeleteVolume

\* AttachVolume attaches an available volume.
LEMMA AttachVolumeDoes ==
  ASSUME BaseInv, NEW c \in Slots, AttachVolume(c), running' = running
  PROVE  /\ VolumesKept
         /\ \/ vol' = vol
            \/ LET v == call[c].vid IN
               /\ vol[v].st = "available" /\ Turns(v, "attaching")
               /\ vol'[v].at = vol[v].at /\ vol'[v].to = call[c].inst
PROOF
  <1> DEFINE v == call[c].vid
             y == [vol[v] EXCEPT !.st = "attaching", !.to = call[c].inst]
  <1>1. CASE vol' = vol
    BY <1>1, NoVolume, Zenon DEF VolumesKept
  <1>2. CASE /\ Found(v) /\ vol[v].st = "available" /\ call[c].inst \in running
             /\ vol' = [vol EXCEPT ![v] = y]
    <2>1. v \in Ids /\ call[c].inst # None
      BY <1>2, Constants, Zenon DEF Found, BaseInv, UserInv
    <2>2. /\ IsVolume(y) /\ VolumeOK(y, running) /\ Drift(vol[v], y)
          /\ y.st = "attaching" /\ y.at = vol[v].at /\ y.to = call[c].inst
      <3>1. IsVolume(vol[v]) /\ VolumeOK(vol[v], running)
        BY <2>1, VolumeFacts, Zenon
      <3>2. Attached(vol[v], call[c].inst, y)
        BY Zenon DEF Attached
      <3>3. MayAttach(vol[v], call[c].inst)
        BY <1>2, <2>1, Zenon DEF MayAttach
      <3> HIDE DEF y, v
      <3>4. QED
        BY <3>1, <3>2, <3>3, Attaching
    <2>3. vol' = [vol EXCEPT ![v] = y]
      BY <1>2, Zenon
    <2> HIDE DEF y
    <2>4. /\ VolumesKept
          /\ vol'[v] = y /\ \A w \in Ids \ {v} : vol'[w] = vol[w]
      BY <2>1, <2>2, <2>3, OneVolume, Zenon DEF VolumesKept
    <2>5. QED
      BY <1>2, <2>1, <2>2, <2>4, Zenon DEF Turns
  <1>3. QED
    BY <1>1, <1>2, Zenon DEF AttachVolume, Write

\* DetachVolume detaches a volume from the instance that has it.
LEMMA DetachVolumeDoes ==
  ASSUME BaseInv, NEW c \in Slots, DetachVolume(c), running' = running
  PROVE  /\ VolumesKept
         /\ \/ vol' = vol
            \/ LET v == call[c].vid IN
               /\ vol[v].st = "in-use" /\ vol[v].at = call[c].inst /\ Turns(v, "detaching")
               /\ vol'[v].at = vol[v].at /\ vol'[v].to = vol[v].to
PROOF
  <1> DEFINE v == call[c].vid
             y == [vol[v] EXCEPT !.st = "detaching"]
  <1>1. CASE vol' = vol
    BY <1>1, NoVolume, Zenon DEF VolumesKept
  <1>2. CASE /\ Found(v) /\ vol[v].st = "in-use" /\ vol[v].at = call[c].inst
             /\ vol' = [vol EXCEPT ![v] = y]
    <2>1. v \in Ids
      BY <1>2, Zenon DEF Found
    <2>2. /\ IsVolume(y) /\ VolumeOK(y, running) /\ Drift(vol[v], y)
          /\ y.st = "detaching" /\ y.at = vol[v].at /\ y.to = vol[v].to
      <3>1. IsVolume(vol[v]) /\ VolumeOK(vol[v], running)
        BY <2>1, VolumeFacts, Zenon
      <3>2. MayTurn(vol[v], "detaching")
        BY <1>2, Zenon DEF MayTurn
      <3>3. Turned(vol[v], "detaching", y)
        BY Zenon DEF Turned
      <3> HIDE DEF y, v
      <3>4. QED
        BY <3>1, <3>2, <3>3, StateChange
    <2>3. vol' = [vol EXCEPT ![v] = y]
      BY <1>2, Zenon
    <2> HIDE DEF y
    <2>4. /\ VolumesKept
          /\ vol'[v] = y /\ \A w \in Ids \ {v} : vol'[w] = vol[w]
      BY <2>1, <2>2, <2>3, OneVolume, Zenon DEF VolumesKept
    <2>5. QED
      BY <1>2, <2>1, <2>2, <2>4, Zenon DEF Turns
  <1>3. QED
    BY <1>1, <1>2, Zenon DEF DetachVolume, Write

\* ExpandVolume extends a volume at rest.
LEMMA ExpandVolumeDoes ==
  ASSUME BaseInv, NEW c \in Slots, ExpandVolume(c), running' = running
  PROVE  /\ VolumesKept
         /\ \/ vol' = vol
            \/ LET v == call[c].vid IN
               /\ vol[v].st \in {"available", "in-use"} /\ Turns(v, "extending")
               /\ vol'[v].at = vol[v].at /\ vol'[v].to = vol[v].to
PROOF
  <1> DEFINE v == call[c].vid
             y == [vol[v] EXCEPT !.st = "extending"]
  <1>1. CASE vol' = vol
    BY <1>1, NoVolume, Zenon DEF VolumesKept
  <1>2. CASE /\ Found(v) /\ vol[v].st \in {"available", "in-use"}
             /\ vol' = [vol EXCEPT ![v] = y]
    <2>1. v \in Ids
      BY <1>2, Zenon DEF Found
    <2>2. /\ IsVolume(y) /\ VolumeOK(y, running) /\ Drift(vol[v], y)
          /\ y.st = "extending" /\ y.at = vol[v].at /\ y.to = vol[v].to
      <3>1. IsVolume(vol[v]) /\ VolumeOK(vol[v], running)
        BY <2>1, VolumeFacts, Zenon
      <3>2. MayTurn(vol[v], "extending")
        BY <1>2, Zenon DEF MayTurn
      <3>3. Turned(vol[v], "extending", y)
        BY Zenon DEF Turned
      <3> HIDE DEF y, v
      <3>4. QED
        BY <3>1, <3>2, <3>3, StateChange
    <2>3. vol' = [vol EXCEPT ![v] = y]
      BY <1>2, Zenon
    <2> HIDE DEF y
    <2>4. /\ VolumesKept
          /\ vol'[v] = y /\ \A w \in Ids \ {v} : vol'[w] = vol[w]
      BY <2>1, <2>2, <2>3, OneVolume, Zenon DEF VolumesKept
    <2>5. QED
      BY <1>2, <2>1, <2>2, <2>4, Zenon DEF Turns
  <1>3. ASSUME vol' # vol
        PROVE  Found(v) /\ vol[v].st \in {"available", call[c].seen} /\ vol' = [vol EXCEPT ![v] = y]
    BY <1>3, Zenon DEF ExpandVolume, Write
  <1>4. call[c].op = "expand" /\ call[c].pc = "extend"
    BY Zenon DEF ExpandVolume, At
  <1>5. call[c].seen \in {"available", "in-use"}
    BY <1>4, Zenon DEF BaseInv, CallsInv, CallOK
  <1>6. vol[v].st \in {"available", call[c].seen} => vol[v].st \in {"available", "in-use"}
    BY <1>5, Zenon
  <1> HIDE DEF v, y
  <1>7. QED
    BY <1>1, <1>2, <1>3, <1>6, Zenon

\* Cinder brings a volume to rest, or is done with it.
LEMMA CloudStepDoes ==
  ASSUME BaseInv, NEW v \in Ids, CloudStep(v)
  PROVE  /\ VolumesKept /\ Turns(v, vol'[v].st)
         /\ vol[v].st \in {"creating", "attaching", "detaching", "extending", "deleting"}
         /\ vol'[v].st \in {"available", "in-use", "deleted"}
         /\ vol[v].st = "attaching" => vol'[v].at = vol[v].to
         /\ vol[v].st = "detaching" => vol'[v].at = None
         /\ vol[v].st \in {"creating", "extending"} => vol'[v].at = vol[v].at
         /\ vol[v].st = "deleting" => vol'[v].at = None
         /\ vol'[v].to = None
PROOF
  <1> DEFINE y == vol'[v]
             x == vol[v]
  <1>1. /\ y = CASE vol[v].st = "creating" -> Rest(vol[v])
                 [] vol[v].st = "attaching" -> Rest([vol[v] EXCEPT !.at = vol[v].to])
                 [] vol[v].st = "detaching" -> Rest([vol[v] EXCEPT !.at = None])
                 [] vol[v].st = "extending" -> Rest([vol[v] EXCEPT !.size = MaxSize])
                 [] vol[v].st = "deleting" -> [Absent EXCEPT !.st = "deleted"]
        /\ vol' = [vol EXCEPT ![v] = y]
        /\ vol[v].st \in {"creating", "attaching", "detaching", "extending", "deleting"}
        /\ running' = running
    BY Zenon DEF CloudStep, BaseInv, Shapes, VolumesShape
  <1>2. IsVolume(vol[v]) /\ VolumeOK(vol[v], running)
    BY VolumeFacts, Zenon
  <1> DEFINE Good ==
        /\ IsVolume(y) /\ VolumeOK(y, running) /\ Drift(vol[v], y)
        /\ y.st \in {"available", "in-use", "deleted"} /\ y.to = None
        /\ vol[v].st = "attaching" => y.at = vol[v].to
        /\ vol[v].st = "detaching" => y.at = None
        /\ vol[v].st \in {"creating", "extending"} => y.at = vol[v].at
        /\ vol[v].st = "deleting" => y.at = None
  <1>a. SUFFICES Good
    <2> HIDE DEF y
    <2>1. VolumesKept /\ vol'[v] = y /\ \A w \in Ids \ {v} : vol'[w] = vol[w]
      BY <1>1, <1>a, OneVolume, Zenon DEF VolumesKept
    <2>2. QED
      BY <1>1, <1>a, <2>1, Zenon DEF Turns, y
  <1>3. CASE vol[v].st = "creating"
    <2> DEFINE z == vol[v]
    <2>1. y = Rest(z)
      BY <1>3, <1>1, Zenon
    <2>2. IsVolume(z) /\ z.at = vol[v].at /\ z.size = vol[v].size
      BY <1>2
    <2>3. MayRest(vol[v], z, running)
      BY <1>2, <1>3, <2>2, Constants, SMT DEF MayRest, VolumeOK
    <2> HIDE DEF z, y
    <2>4. /\ IsVolume(y) /\ VolumeOK(y, running) /\ Drift(vol[v], y)
          /\ y.st \in {"available", "in-use"} /\ y.at = z.at /\ y.to = None
      BY <1>2, <2>1, <2>2, <2>3, RestDrifts
    <2>5. QED
      BY <1>3, <2>2, <2>4, Zenon
  <1>4. CASE vol[v].st = "attaching"
    <2> DEFINE z == [vol[v] EXCEPT !.at = vol[v].to]
    <2>1. y = Rest(z)
      BY <1>4, <1>1, Zenon
    <2>2. IsVolume(z) /\ z.at = vol[v].to /\ z.size = vol[v].size
      <3>1. z = [st |-> x.st, size |-> x.size, at |-> x.to, to |-> x.to]
        BY <1>2, VolumeExcept, Zenon
      <3> HIDE DEF z
      <3>2. QED
        BY <3>1, VolumeRecord
    <2>3. MayRest(vol[v], z, running)
      BY <1>2, <1>4, <2>2, Constants, SMT DEF MayRest, VolumeOK
    <2> HIDE DEF z, y
    <2>4. /\ IsVolume(y) /\ VolumeOK(y, running) /\ Drift(vol[v], y)
          /\ y.st \in {"available", "in-use"} /\ y.at = z.at /\ y.to = None
      BY <1>2, <2>1, <2>2, <2>3, RestDrifts
    <2>5. QED
      BY <1>4, <2>2, <2>4
  <1>5. CASE vol[v].st = "detaching"
    <2> DEFINE z == [vol[v] EXCEPT !.at = None]
    <2>1. y = Rest(z)
      BY <1>5, <1>1
    <2>2. IsVolume(z) /\ z.at = None /\ z.size = vol[v].size
      <3>1. z = [st |-> x.st, size |-> x.size, at |-> None, to |-> x.to]
        BY <1>2, VolumeExcept, Zenon
      <3> HIDE DEF z
      <3>2. QED
        BY <3>1, VolumeRecord
    <2>3. MayRest(vol[v], z, running)
      BY <1>2, <1>5, <2>2, Constants, SMT DEF MayRest, VolumeOK
    <2> HIDE DEF z, y
    <2>4. /\ IsVolume(y) /\ VolumeOK(y, running) /\ Drift(vol[v], y)
          /\ y.st \in {"available", "in-use"} /\ y.at = z.at /\ y.to = None
      BY <1>2, <2>1, <2>2, <2>3, RestDrifts
    <2>5. QED
      BY <1>5, <2>2, <2>4, Zenon
  <1>6. CASE vol[v].st = "extending"
    <2> DEFINE z == [vol[v] EXCEPT !.size = MaxSize]
    <2>1. y = Rest(z)
      BY <1>6, <1>1, Zenon
    <2>2. IsVolume(z) /\ z.at = vol[v].at /\ z.size = MaxSize
      <3>1. z = [st |-> x.st, size |-> MaxSize, at |-> x.at, to |-> x.to]
        BY <1>2, VolumeExcept, Zenon
      <3> HIDE DEF z
      <3>2. QED
        BY <3>1, VolumeRecord
    <2>3. MayRest(vol[v], z, running)
      BY <1>2, <1>6, <2>2, Constants, SMT DEF MayRest, VolumeOK
    <2> HIDE DEF z, y
    <2>4. /\ IsVolume(y) /\ VolumeOK(y, running) /\ Drift(vol[v], y)
          /\ y.st \in {"available", "in-use"} /\ y.at = z.at /\ y.to = None
      BY <1>2, <2>1, <2>2, <2>3, RestDrifts, Zenon
    <2>5. QED
      BY <1>6, <2>2, <2>4, Zenon
  <1>7. CASE vol[v].st = "deleting"
    <2>1. y = [Absent EXCEPT !.st = "deleted"]
      BY <1>7, <1>1, Zenon
    <2> HIDE DEF y
    <2>2. /\ IsVolume(y) /\ VolumeOK(y, running) /\ Drift(vol[v], y)
          /\ y.st = "deleted" /\ y.at = None /\ y.to = None
      BY <1>2, <1>7, <2>1, Deleted, Zenon
    <2>3. QED
      BY <1>7, <2>2, Zenon
  <1>8. QED
    BY <1>1, <1>3, <1>4, <1>5, <1>6, <1>7

\* Cinder fails on a volume: an attachment is undone, the rest is an error state.
LEMMA CloudFailsDoes ==
  ASSUME BaseInv, NEW v \in Ids, CloudFails(v)
  PROVE  /\ VolumesKept /\ Turns(v, vol'[v].st)
         /\ vol[v].st \in {"creating", "attaching", "extending"}
         /\ vol'[v].st \in {"available", "in-use", "error"}
         /\ vol'[v].at = vol[v].at /\ vol'[v].to = None
PROOF
  <1> DEFINE y == vol'[v]
             x == vol[v]
  <1>1. /\ y = IF vol[v].st = "attaching" THEN Rest(vol[v]) ELSE [vol[v] EXCEPT !.st = "error"]
        /\ vol' = [vol EXCEPT ![v] = y]
        /\ vol[v].st \in {"creating", "attaching", "extending"}
        /\ running' = running
    BY Zenon DEF CloudFails, BaseInv, Shapes, VolumesShape
  <1>2. IsVolume(vol[v]) /\ VolumeOK(vol[v], running)
    BY VolumeFacts, Zenon
  <1> DEFINE Good ==
        /\ IsVolume(y) /\ VolumeOK(y, running) /\ Drift(vol[v], y)
        /\ y.st \in {"available", "in-use", "error"} /\ y.to = None /\ y.at = vol[v].at
  <1>a. SUFFICES Good
    <2> HIDE DEF y
    <2>1. VolumesKept /\ vol'[v] = y /\ \A w \in Ids \ {v} : vol'[w] = vol[w]
      BY <1>1, <1>a, OneVolume, Zenon DEF VolumesKept
    <2>2. QED
      BY <1>1, <1>a, <2>1, Zenon DEF Turns, y
  <1>3. CASE vol[v].st = "attaching"
    <2>1. y = Rest(vol[v])
      BY <1>3, <1>1, Zenon
    <2>2. MayRest(vol[v], vol[v], running)
      BY <1>2, <1>3, SMT DEF MayRest, VolumeOK
    <2> HIDE DEF y
    <2>3. QED
      BY <1>2, <2>1, <2>2, RestDrifts, Zenon
  <1>4. CASE vol[v].st \in {"creating", "extending"}
    <2>1. Turned(vol[v], "error", y)
      BY <1>4, <1>1, Zenon DEF Turned
    <2>2. MayTurn(vol[v], "error") /\ vol[v].to = None
      BY <1>2, <1>4, SMT DEF MayTurn, VolumeOK
    <2> HIDE DEF y
    <2>3. QED
      BY <1>2, <2>1, <2>2, StateChange
  <1>5. QED
    BY <1>1, <1>3, <1>4, Zenon

\* Nova deletes an instance and its attachments.
LEMMA InstanceDeletedDoes ==
  ASSUME BaseInv, NEW i \in Instances, InstanceDeleted(i)
  PROVE  /\ VolumesKept
         /\ \A v \in Ids : /\ vol'[v].at = IF vol[v].at = i THEN None ELSE vol[v].at
                           /\ vol'[v].to = IF vol[v].to = i THEN None ELSE vol[v].to
                           /\ vol'[v].st \in {vol[v].st, "available", "in-use"}
                           /\ vol[v].at # i /\ vol[v].to # i => vol'[v] = vol[v]
                           /\ vol'[v].st = "detaching" => vol'[v] = vol[v]
PROOF
  <1>1. /\ running' = running \ {i} /\ i \in running /\ i # None
        /\ vol' = [v \in Ids |->
             CASE vol[v].at = i /\ vol[v].st \in {"in-use", "detaching"} -> Rest([vol[v] EXCEPT !.at = None])
               [] vol[v].at = i /\ vol[v].st \in {"extending", "error"} -> [vol[v] EXCEPT !.at = None]
               [] vol[v].to = i -> Rest(vol[v])
               [] OTHER -> vol[v]]
    BY Constants, Zenon DEF InstanceDeleted
  <1> DEFINE Good(v) ==
        /\ IsVolume(vol'[v]) /\ VolumeOK(vol'[v], running') /\ Drift(vol[v], vol'[v])
        /\ vol'[v].at = IF vol[v].at = i THEN None ELSE vol[v].at
        /\ vol'[v].to = IF vol[v].to = i THEN None ELSE vol[v].to
        /\ vol'[v].st \in {vol[v].st, "available", "in-use"}
        /\ vol[v].at # i /\ vol[v].to # i => vol'[v] = vol[v]
        /\ vol'[v].st = "detaching" => vol'[v] = vol[v]
  <1>2. ASSUME NEW v \in Ids PROVE Good(v)
    <2> DEFINE x == vol[v]
               y == vol'[v]
    <2>1. y = CASE x.at = i /\ x.st \in {"in-use", "detaching"} -> Rest([x EXCEPT !.at = None])
                [] x.at = i /\ x.st \in {"extending", "error"} -> [x EXCEPT !.at = None]
                [] x.to = i -> Rest(x)
                [] OTHER -> x
      BY <1>1, Zenon
    <2>2. IsVolume(x) /\ VolumeOK(x, running)
      BY VolumeFacts, Zenon
    <2> SUFFICES /\ IsVolume(y) /\ VolumeOK(y, running') /\ Drift(x, y)
                 /\ y.at = IF x.at = i THEN None ELSE x.at
                 /\ y.to = IF x.to = i THEN None ELSE x.to
                 /\ y.st \in {x.st, "available", "in-use"}
                 /\ x.at # i /\ x.to # i => y = x
                 /\ y.st = "detaching" => y = x
      BY Zenon
    <2> HIDE DEF x, y
    <2>a. x.st # "attaching" => x.to # i
      BY <1>1, <2>2, SMT DEF VolumeOK
    <2>3. CASE x.at = i /\ x.st \in {"in-use", "detaching"}
      <3> DEFINE z == [x EXCEPT !.at = None]
      <3>1. y = Rest(z)
        BY <2>1, <2>3, <2>a, Zenon
      <3>2. z = [st |-> x.st, size |-> x.size, at |-> None, to |-> x.to]
        BY <2>2, VolumeExcept, Zenon
      <3> HIDE DEF z
      <3>3. IsVolume(z) /\ z.at = None /\ z.size = x.size
        BY <3>2, VolumeRecord
      <3>4. MayRest(x, z, running') /\ x.to = None
        BY <2>2, <2>3, <3>3, SMT DEF MayRest, VolumeOK
      <3>5. /\ IsVolume(y) /\ VolumeOK(y, running') /\ Drift(x, y)
            /\ y.st \in {"available", "in-use"} /\ y.at = None /\ y.to = None
        BY <2>2, <3>1, <3>3, <3>4, RestDrifts, Zenon
      <3>6. QED
        BY <1>1, <2>3, <3>4, <3>5
    <2>4. CASE x.at = i /\ x.st \in {"extending", "error"}
      <3>1. y = [x EXCEPT !.at = None]
        BY <2>1, <2>4, <2>a, Zenon
      <3>2. y = [st |-> x.st, size |-> x.size, at |-> None, to |-> x.to]
        BY <2>2, <3>1, VolumeExcept, Zenon
      <3>3. IsVolume(y) /\ y.st = x.st /\ y.at = None /\ y.size = x.size /\ y.to = x.to
        BY <3>2, VolumeRecord
      <3>4. x.to = None
        BY <2>2, <2>4, SMT DEF VolumeOK
      <3>5. VolumeOK(y, running') /\ Drift(x, y)
        BY <2>2, <2>4, <3>3, <3>4, SMT DEF VolumeOK, Drift
      <3>6. QED
        BY <1>1, <2>4, <3>3, <3>4, <3>5, Zenon
    <2>5. CASE x.at # i /\ x.to = i
      <3>1. y = Rest(x)
        BY <2>1, <2>5, Zenon
      <3>2. MayRest(x, x, running') /\ x.at = None
        BY <1>1, <2>2, <2>5, SMT DEF MayRest, VolumeOK
      <3>3. /\ IsVolume(y) /\ VolumeOK(y, running') /\ Drift(x, y)
            /\ y.st \in {"available", "in-use"} /\ y.at = x.at /\ y.to = None
        BY <2>2, <3>1, <3>2, RestDrifts, Zenon
      <3>4. QED
        BY <1>1, <2>5, <3>2, <3>3, Zenon
    <2>6. CASE x.at # i /\ x.to # i
      <3>1. y = x
        BY <2>1, <2>6
      <3>2. VolumeOK(x, running')
        BY <1>1, <2>2, <2>6, SMT DEF VolumeOK
      <3>3. QED
        BY <2>2, <2>6, <3>1, <3>2, DriftReflexive, Zenon
    <2>7. x.at = i => x.st \in {"in-use", "detaching", "extending", "error"}
      BY <1>1, <2>2, SMT DEF VolumeOK
    <2>8. QED
      BY <2>3, <2>4, <2>5, <2>6, <2>7
  <1>3. vol' = [v \in Ids |-> vol'[v]]
    BY <1>1, SMT
  <1>4. QED
    BY <1>2, <1>3, Zenon DEF VolumesKept, VolumesShape, VolumesInv, Drifts

-----------------------------------------------------------------------------
(* How handlers go on and end *)

CallsOnly(c) == CallsShape' /\ \A d \in Slots \ {c} : call'[d] = call[d]

\* The call goes on at another step, with what it has been called with.
WentOn(c, p, v) ==
  /\ CallsOnly(c) /\ UNCHANGED userVars
  /\ call'[c].op = call[c].op /\ call'[c].inst = call[c].inst /\ call'[c].size = call[c].size
  /\ call'[c].pc = p /\ call'[c].vid = v

\* A call with one field changed is the record of its fields.
LEMMA CallExcept ==
  ASSUME NEW k, NEW y, IsCall(k)
  PROVE  /\ [k EXCEPT !.pc = y] = [op |-> k.op, pc |-> y, vid |-> k.vid, inst |-> k.inst,
                                   size |-> k.size, seen |-> k.seen]
         /\ [k EXCEPT !.vid = y] = [op |-> k.op, pc |-> k.pc, vid |-> y, inst |-> k.inst,
                                    size |-> k.size, seen |-> k.seen]
         /\ [k EXCEPT !.seen = y] = [op |-> k.op, pc |-> k.pc, vid |-> k.vid, inst |-> k.inst,
                                     size |-> k.size, seen |-> y]
PROOF BY SMT DEF IsCall

\* A record of a call is one.
LEMMA CallRecord ==
  ASSUME NEW o, NEW p, NEW v, NEW i, NEW z, NEW n,
         NEW k, k = [op |-> o, pc |-> p, vid |-> v, inst |-> i, size |-> z, seen |-> n]
  PROVE  IsCall(k) /\ k.op = o /\ k.pc = p /\ k.vid = v /\ k.inst = i /\ k.size = z /\ k.seen = n
PROOF BY SMT DEF IsCall

\* The record of no call.
LEMMA NoCallFields == IsCall(NoCall) /\ NoCall.op = "none" /\ NoCall.pc = "idle"
PROOF BY SMT DEF IsCall, NoCall

\* One slot changes.
LEMMA CallPut ==
  ASSUME CallsShape, NEW c \in Slots, NEW k, IsCall(k), call' = [call EXCEPT ![c] = k]
  PROVE  CallsOnly(c) /\ call'[c] = k
PROOF
  <1>1. /\ call' = [d \in Slots |-> IF d = c THEN k ELSE call[d]]
        /\ call'[c] = k /\ \A d \in Slots \ {c} : call'[d] = call[d]
    BY SMT DEF CallsShape
  <1>2. call' = [d \in Slots |-> call'[d]]
    BY <1>1, Zenon
  <1>3. \A d \in Slots : IsCall(call'[d])
    BY <1>1, Zenon DEF CallsShape
  <1>4. QED
    BY <1>1, <1>2, <1>3, Zenon DEF CallsShape, CallsOnly

\* A handler that is done.
LEMMA DoneForm ==
  ASSUME CallsShape, NEW c \in Slots, Done(c)
  PROVE  CallsOnly(c) /\ call'[c] = NoCall /\ call'[c].op = "none" /\ call'[c].pc = "idle"
PROOF
  <1>1. call' = [call EXCEPT ![c] = NoCall]
    BY Zenon DEF Done
  <1>2. QED
    BY <1>1, NoCallFields, CallPut, Zenon

\* A handler that goes on.
LEMMA GotoForm ==
  ASSUME CallsShape, NEW c \in Slots, NEW p, Goto(c, p)
  PROVE  WentOn(c, p, call[c].vid)
PROOF
  <1> DEFINE k == [call[c] EXCEPT !.pc = p]
  <1>1. call' = [call EXCEPT ![c] = k] /\ UNCHANGED userVars
    BY Zenon DEF Goto
  <1>2. IsCall(call[c])
    BY Zenon DEF CallsShape
  <1>3. k = [op |-> call[c].op, pc |-> p, vid |-> call[c].vid, inst |-> call[c].inst,
             size |-> call[c].size, seen |-> call[c].seen]
    BY <1>2, CallExcept, Zenon
  <1> HIDE DEF k
  <1>4. /\ IsCall(k) /\ k.op = call[c].op /\ k.pc = p /\ k.vid = call[c].vid
        /\ k.inst = call[c].inst /\ k.size = call[c].size
    BY <1>3, CallRecord
  <1>5. CallsOnly(c) /\ call'[c] = k
    BY <1>1, <1>4, CallPut, Zenon
  <1>6. QED
    BY <1>1, <1>4, <1>5, Zenon DEF WentOn

\* The second of two changes counts.
LEMMA PutTwice ==
  ASSUME NEW f, NEW S, f = [d \in S |-> f[d]], NEW c \in S, NEW a, NEW b
  PROVE  /\ [f EXCEPT ![c] = a][c] = a
         /\ [[f EXCEPT ![c] = a] EXCEPT ![c] = b] = [f EXCEPT ![c] = b]
PROOF
  <1> DEFINE g == [f EXCEPT ![c] = a]
  <1>1. g = [d \in S |-> IF d = c THEN a ELSE f[d]]
    BY Zenon
  <1> HIDE DEF g
  <1>2. [g EXCEPT ![c] = b] = [d \in S |-> IF d = c THEN b ELSE g[d]]
    BY <1>1, Zenon
  <1>3. [f EXCEPT ![c] = b] = [d \in S |-> IF d = c THEN b ELSE f[d]]
    BY Zenon
  <1>4. \A d \in S : (IF d = c THEN b ELSE g[d]) = (IF d = c THEN b ELSE f[d])
    BY <1>1, Zenon
  <1>5. [g EXCEPT ![c] = b] = [f EXCEPT ![c] = b]
    BY <1>2, <1>3, <1>4, Zenon
  <1>6. QED
    BY <1>1, <1>5, Zenon DEF g

\* CreateSnapshot goes on with the snapshot.
LEMMA GotoSnapshotForm ==
  ASSUME CallsShape, NEW c \in Slots, NEW s,
         call' = [call EXCEPT ![c].pc = "wait", ![c].vid = s], UNCHANGED userVars
  PROVE  WentOn(c, "wait", s)
PROOF
  <1> DEFINE j == [call[c] EXCEPT !.pc = "wait"]
             k == [j EXCEPT !.vid = s]
             m == [call EXCEPT ![c] = j]
  <1>1. call' = [call EXCEPT ![c] = k]
    <2>1. call' = [m EXCEPT ![c] = [m[c] EXCEPT !.vid = s]]
      BY Zenon
    <2> HIDE DEF j
    <2>2. m[c] = j
      BY PutTwice, Zenon DEF CallsShape
    <2>3. call' = [m EXCEPT ![c] = k]
      BY <2>1, <2>2, Zenon
    <2> HIDE DEF k
    <2>4. QED
      BY <2>3, PutTwice, Zenon DEF CallsShape
  <1>2. IsCall(call[c])
    BY Zenon DEF CallsShape
  <1>3. j = [op |-> call[c].op, pc |-> "wait", vid |-> call[c].vid, inst |-> call[c].inst,
             size |-> call[c].size, seen |-> call[c].seen]
    BY <1>2, CallExcept, Zenon
  <1> HIDE DEF j
  <1>4. IsCall(j) /\ j.op = call[c].op /\ j.pc = "wait" /\ j.inst = call[c].inst /\ j.size = call[c].size
    BY <1>3, CallRecord
  <1>5. k = [op |-> j.op, pc |-> j.pc, vid |-> s, inst |-> j.inst, size |-> j.size, seen |-> j.seen]
    BY <1>4, CallExcept, Zenon
  <1> HIDE DEF k
  <1>6. IsCall(k) /\ k.op = j.op /\ k.pc = j.pc /\ k.vid = s /\ k.inst = j.inst /\ k.size = j.size
    BY <1>5, CallRecord
  <1>7. CallsOnly(c) /\ call'[c] = k
    BY <1>1, <1>6, CallPut, Zenon
  <1>8. QED
    BY <1>4, <1>6, <1>7, Zenon DEF WentOn

\* ControllerExpandVolume remembers the state of the volume.
LEMMA GotoExtendForm ==
  ASSUME CallsShape, NEW c \in Slots, NEW s,
         call' = [call EXCEPT ![c].pc = "extend", ![c].seen = s], UNCHANGED userVars
  PROVE  WentOn(c, "extend", call[c].vid) /\ call'[c].seen = s
PROOF
  <1> DEFINE j == [call[c] EXCEPT !.pc = "extend"]
             k == [j EXCEPT !.seen = s]
             m == [call EXCEPT ![c] = j]
  <1>1. call' = [call EXCEPT ![c] = k]
    <2>1. call' = [m EXCEPT ![c] = [m[c] EXCEPT !.seen = s]]
      BY Zenon
    <2> HIDE DEF j
    <2>2. m[c] = j
      BY PutTwice, Zenon DEF CallsShape
    <2>3. call' = [m EXCEPT ![c] = k]
      BY <2>1, <2>2, Zenon
    <2> HIDE DEF k
    <2>4. QED
      BY <2>3, PutTwice, Zenon DEF CallsShape
  <1>2. IsCall(call[c])
    BY Zenon DEF CallsShape
  <1>3. j = [op |-> call[c].op, pc |-> "extend", vid |-> call[c].vid, inst |-> call[c].inst,
             size |-> call[c].size, seen |-> call[c].seen]
    BY <1>2, CallExcept, Zenon
  <1> HIDE DEF j
  <1>4. /\ IsCall(j) /\ j.op = call[c].op /\ j.pc = "extend" /\ j.vid = call[c].vid
        /\ j.inst = call[c].inst /\ j.size = call[c].size
    BY <1>3, CallRecord
  <1>5. k = [op |-> j.op, pc |-> j.pc, vid |-> j.vid, inst |-> j.inst, size |-> j.size, seen |-> s]
    BY <1>4, CallExcept, Zenon
  <1> HIDE DEF k
  <1>6. /\ IsCall(k) /\ k.op = j.op /\ k.pc = j.pc /\ k.vid = j.vid /\ k.inst = j.inst
        /\ k.size = j.size /\ k.seen = s
    BY <1>5, CallRecord
  <1>7. CallsOnly(c) /\ call'[c] = k
    BY <1>1, <1>6, CallPut, Zenon
  <1>8. QED
    BY <1>4, <1>6, <1>7, Zenon DEF WentOn

-----------------------------------------------------------------------------
(* What the sidecars make of an answer *)

AnswersCreate(v) ==
  /\ handle' = v /\ pvc' = IF pvc = "wanted" THEN "bound" ELSE pvc
  /\ UNCHANGED <<va, want, grown, content>>
AnswersDelete == pvc' = "gone" /\ UNCHANGED <<handle, va, want, grown, content>>
AnswersPublish ==
  /\ va' = [inst |-> va.inst, st |-> IF va.st = "attaching" THEN "attached" ELSE va.st]
  /\ UNCHANGED <<pvc, handle, want, grown, content>>
AnswersUnpublish == va' = NoVA /\ UNCHANGED <<pvc, handle, want, grown, content>>
AnswersExpand(z) == grown' = z /\ UNCHANGED <<pvc, handle, va, want, content>>
AnswersSnapshot(v) ==
  /\ content' = [st |-> IF content.st = "wanted" THEN "ready" ELSE content.st,
                 sid |-> v, force |-> content.force]
  /\ UNCHANGED <<pvc, handle, va, want, grown>>
AnswersUnsnapshot ==
  /\ content' = [st |-> "gone", sid |-> content.sid, force |-> content.force]
  /\ UNCHANGED <<pvc, handle, va, want, grown>>

Answered(c, v) ==
  \/ c = "prov" /\ call[c].op = "create" /\ AnswersCreate(v)
  \/ c = "prov" /\ call[c].op = "delete" /\ AnswersDelete
  \/ c = "att" /\ call[c].op = "publish" /\ AnswersPublish
  \/ c = "att" /\ call[c].op = "unpublish" /\ AnswersUnpublish
  \/ c = "exp" /\ call[c].op = "expand" /\ AnswersExpand(call[c].size)
  \/ c = "snap" /\ call[c].op = "snapshot" /\ AnswersSnapshot(v)
  \/ c = "snap" /\ call[c].op = "unsnapshot" /\ AnswersUnsnapshot
  \/ c = "late" /\ UNCHANGED userVars

\* Answer, by cases.
LEMMA AnswerCases ==
  ASSUME BaseInv, NEW c \in Slots, NEW v, Answer(c, v), call[c].op # "none"
  PROVE  Answered(c, v)
PROOF
  <1>1. call[c].op \in OpsOf(c)
    BY Zenon DEF BaseInv, CallsInv, CallOK
  <1>2. CASE c = "prov"
    BY <1>1, <1>2 DEF OpsOf, Answer, Answered, AnswersCreate, AnswersDelete
  <1>3. CASE c = "att" /\ call[c].op = "publish"
    <2>1. [va EXCEPT !.st = "attached"] = [inst |-> va.inst, st |-> "attached"]
      BY SMT DEF BaseInv, Shapes
    <2>2. va = [inst |-> va.inst, st |-> va.st]
      BY Zenon DEF BaseInv, Shapes
    <2>3. va' = IF va.st = "attaching" THEN [va EXCEPT !.st = "attached"] ELSE va
      BY <1>3 DEF Answer
    <2>4. va' = [inst |-> va.inst, st |-> IF va.st = "attaching" THEN "attached" ELSE va.st]
      BY <2>1, <2>2, <2>3, Zenon
    <2>5. UNCHANGED <<pvc, handle, want, grown, content>>
      BY <1>3 DEF Answer
    <2>6. QED
      BY <1>3, <2>4, <2>5, Zenon DEF Answered, AnswersPublish
  <1>4. CASE c = "att" /\ call[c].op = "unpublish"
    BY <1>4, Zenon DEF Answer, Answered, AnswersUnpublish
  <1>5. CASE c = "exp"
    BY <1>1, <1>5 DEF OpsOf, Answer, Answered, AnswersExpand
  <1>6. CASE c = "snap" /\ call[c].op = "snapshot"
    <2> DEFINE s == IF content.st = "wanted" THEN "ready" ELSE content.st
               d == [content EXCEPT !.sid = v]
    <2>1. content = [st |-> content.st, sid |-> content.sid, force |-> content.force]
      BY Zenon DEF BaseInv, Shapes
    <2>2. d = [st |-> content.st, sid |-> v, force |-> content.force]
      BY <2>1, SMT
    <2>3. content' = [d EXCEPT !.st = IF @ = "wanted" THEN "ready" ELSE @]
      BY <1>6, Zenon DEF Answer
    <2>4. d.st = content.st
      BY <2>2, SMT
    <2>5. content' = [d EXCEPT !.st = s]
      BY <2>3, <2>4, Zenon
    <2> HIDE DEF s, d
    <2>6. content' = [st |-> s, sid |-> v, force |-> content.force]
      BY <2>2, <2>5, SMT
    <2>7. UNCHANGED <<pvc, handle, va, want, grown>>
      BY <1>6 DEF Answer
    <2>8. QED
      BY <1>6, <2>6, <2>7, Zenon DEF Answered, AnswersSnapshot, s
  <1>7. CASE c = "snap" /\ call[c].op = "unsnapshot"
    <2>1. content = [st |-> content.st, sid |-> content.sid, force |-> content.force]
      BY Zenon DEF BaseInv, Shapes
    <2>2. content' = [content EXCEPT !.st = "gone"] /\ UNCHANGED <<pvc, handle, va, want, grown>>
      BY <1>7 DEF Answer
    <2>3. content' = [st |-> "gone", sid |-> content.sid, force |-> content.force]
      BY <2>1, <2>2, SMT
    <2>4. QED
      BY <1>7, <2>2, <2>3, Zenon DEF Answered, AnswersUnsnapshot
  <1>8. CASE c = "late"
    BY <1>8, Zenon DEF Answer, Answered, userVars
  <1>9. QED
    BY <1>1, <1>2, <1>3, <1>4, <1>5, <1>6, <1>7, <1>8 DEF Slots, Sidecars, OpsOf

-----------------------------------------------------------------------------
(* How the step of a handler comes out *)

Follows(k, l) ==
  /\ l.op = k.op /\ l.inst = k.inst /\ l.size = k.size
  /\ k.op = "expand" /\ l.pc = "extend" => l.seen \in {"available", "in-use"}
  /\ IF k.op = "snapshot" /\ l.pc = "wait" THEN l.vid \in Ids
     ELSE l.vid = k.vid /\ (k.op = "snapshot" => k.pc # "wait")

Went(c) == CallsOnly(c) /\ UNCHANGED userVars /\ Follows(call[c], call'[c])

\* The answer has the id of what there is.
GoodAnswer(c, v) ==
  /\ call[c].op # "none"
  /\ c = "prov" /\ call[c].op = "create" => v \in Ids /\ vol'[v].st # "absent"
  /\ c = "snap" /\ call[c].op = "snapshot" => v \in Ids

Outcome(c) == Fail(c) \/ Went(c) \/ \E v : Answer(c, v) /\ GoodAnswer(c, v)

SnapsShape == snap = [s \in Ids |-> snap[s]]

\* A handler that goes on to another step keeps what it was called with.
LEMMA GotoWent ==
  ASSUME BaseInv, NEW c \in Slots, NEW p, Goto(c, p),
         call[c].op = "expand" => p # "extend", call[c].op = "snapshot" => p # "wait" /\ call[c].pc # "wait"
  PROVE  Went(c)
PROOF
  <1>1. WentOn(c, p, call[c].vid)
    BY GotoForm, Zenon DEF BaseInv, Shapes
  <1>2. Follows(call[c], call'[c])
    BY <1>1, Zenon DEF WentOn, Follows
  <1>3. QED
    BY <1>1, <1>2, Zenon DEF WentOn, Went

\* The steps that leave the volumes alone.
LEMMA ReadingOutcome ==
  ASSUME BaseInv, NEW c \in Slots, running' = running,
         \/ GetVolumesByName(c) \/ DiskIsUsed(c) \/ GetForAttach(c) \/ WaitDiskAttached(c)
         \/ GetForDetach(c) \/ WaitDiskDetached(c) \/ GetForExpand(c) \/ WaitVolumeTargetStatus(c)
  PROVE  VolumesKept /\ vol' = vol /\ Outcome(c)
PROOF
  <1>1. vol' = vol
    BY Zenon DEF GetVolumesByName, DiskIsUsed, GetForAttach, WaitDiskAttached,
          GetForDetach, WaitDiskDetached, GetForExpand, WaitVolumeTargetStatus
  <1>2. VolumesKept
    BY <1>1, NoVolume, Zenon DEF VolumesKept
  <1>a. SUFFICES Outcome(c)
    BY <1>1, <1>2
  <1>3. CASE GetVolumesByName(c)
    <2>1. call[c].op = "create"
      BY <1>3, Zenon DEF GetVolumesByName, At
    <2>2. CASE \E v \in Named : Answer(c, v)
      <3>1. PICK v \in Named : Answer(c, v)
        BY <2>2, Zenon
      <3>2. v \in Ids /\ vol'[v].st # "absent"
        BY <1>1, <3>1, Zenon DEF Named, Found
      <3>3. GoodAnswer(c, v)
        BY <2>1, <3>2, Zenon DEF GoodAnswer
      <3>4. QED
        BY <3>1, <3>3, Zenon DEF Outcome
    <2>3. CASE Goto(c, "create")
      BY <2>1, <2>3, GotoWent, Zenon DEF Outcome
    <2>4. QED
      BY <1>3, <2>2, <2>3, Zenon DEF GetVolumesByName, Outcome
  <1>4. CASE \E v : Answer(c, v) /\ call[c].op \notin {"none", "create", "snapshot"}
    BY <1>4, Zenon DEF GoodAnswer, Outcome
  <1>5. CASE \E p : Goto(c, p) /\ call[c].op # "snapshot" /\ p # "extend"
    BY <1>5, GotoWent, Zenon DEF Outcome
  <1>6. CASE DiskIsUsed(c)
    BY <1>4, <1>5, <1>6, Zenon DEF DiskIsUsed, At, Outcome
  <1>7. CASE GetForAttach(c)
    BY <1>4, <1>5, <1>7, Zenon DEF GetForAttach, At, Outcome
  <1>8. CASE WaitDiskAttached(c) \/ WaitDiskDetached(c) \/ WaitVolumeTargetStatus(c)
    BY <1>4, <1>8, Zenon DEF WaitDiskAttached, WaitDiskDetached, WaitVolumeTargetStatus, At, Outcome
  <1>9. CASE GetForDetach(c)
    BY <1>4, <1>5, <1>9, Zenon DEF GetForDetach, At, Outcome
  <1>10. CASE GetForExpand(c)
    <2> DEFINE v == call[c].vid
    <2>1. CASE /\ vol[v].st \in {"available", "in-use"}
               /\ call' = [call EXCEPT ![c].pc = "extend", ![c].seen = vol[v].st] /\ UNCHANGED userVars
      <3>1. WentOn(c, "extend", call[c].vid) /\ call'[c].seen = vol[v].st
        BY <2>1, GotoExtendForm, Zenon DEF BaseInv, Shapes
      <3>2. call[c].op = "expand"
        BY <1>10, Zenon DEF GetForExpand, At
      <3>3. Follows(call[c], call'[c])
        BY <2>1, <3>1, <3>2, Zenon DEF WentOn, Follows
      <3>4. QED
        BY <3>1, <3>3, Zenon DEF WentOn, Went, Outcome
    <2>2. QED
      BY <1>4, <1>10, <2>1, Zenon DEF GetForExpand, At, Outcome
  <1>11. QED
    BY <1>3, <1>6, <1>7, <1>8, <1>9, <1>10, Zenon

\* The steps that write to a volume.
LEMMA WritingOutcome ==
  ASSUME BaseInv, NEW c \in Slots, running' = running,
         CreateVolume(c) \/ DeleteVolume(c) \/ AttachVolume(c) \/ DetachVolume(c) \/ ExpandVolume(c)
  PROVE  VolumesKept /\ Outcome(c)
PROOF
  <1>1. VolumesKept
    BY CreateVolumeDoes, DeleteVolumeDoes, AttachVolumeDoes, DetachVolumeDoes, ExpandVolumeDoes, Zenon
  <1>a. SUFFICES Outcome(c)
    BY <1>1, Zenon
  <1>2. CASE CreateVolume(c)
    <2>1. call[c].op = "create"
      BY <1>2, Zenon DEF CreateVolume, At
    <2>2. PICK v \in Ids : Turns(v, "creating") /\ (Answer(c, v) \/ Fail(c))
      BY <1>2, CreateVolumeDoes, Zenon
    <2>3. GoodAnswer(c, v)
      BY <2>1, <2>2, Zenon DEF GoodAnswer, Turns
    <2>4. QED
      BY <2>2, <2>3, Zenon DEF Outcome
  <1>3. CASE \E v : Answer(c, v) /\ call[c].op \notin {"none", "create", "snapshot"}
    BY <1>3, Zenon DEF GoodAnswer, Outcome
  <1>4. CASE \E p : Goto(c, p) /\ call[c].op # "snapshot" /\ p # "extend"
    BY <1>4, GotoWent, Zenon DEF Outcome
  <1>5. CASE DeleteVolume(c)
    BY <1>3, <1>5, Zenon DEF DeleteVolume, At, Outcome
  <1>6. CASE AttachVolume(c)
    BY <1>4, <1>6, Zenon DEF AttachVolume, Write, At, Outcome
  <1>7. CASE DetachVolume(c)
    BY <1>4, <1>7, Zenon DEF DetachVolume, Write, At, Outcome
  <1>8. CASE ExpandVolume(c)
    BY <1>4, <1>8, Zenon DEF ExpandVolume, Write, At, Outcome
  <1>9. QED
    BY <1>2, <1>5, <1>6, <1>7, <1>8, Zenon

\* One snapshot changes.
LEMMA SnapPut ==
  ASSUME SnapsShape, NEW s \in Ids, NEW x, snap' = [snap EXCEPT ![s] = x]
  PROVE  SnapsShape' /\ snap'[s] = x /\ \A t \in Ids \ {s} : snap'[t] = snap[t]
PROOF
  <1>1. snap' = [t \in Ids |-> IF t = s THEN x ELSE snap[t]]
    BY Zenon DEF SnapsShape
  <1>2. snap' = [t \in Ids |-> snap'[t]]
    BY <1>1, Zenon
  <1>3. QED
    BY <1>1, <1>2, Zenon DEF SnapsShape

\* Snapshot s, and no other, goes into state x.
SnapTurns(s, x) == s \in Ids /\ snap'[s] = x /\ \A t \in Ids \ {s} : snap'[t] = snap[t]

\* What a call of DeleteSnapshot is about.
LEMMA UnsnapshotFacts ==
  ASSUME BaseInv, NEW c \in Slots, call[c].op = "unsnapshot"
  PROVE  /\ call[c].vid = content.sid /\ call[c].vid \in Ids
         /\ content.st \in {"released", "gone"}
PROOF
  <1>1. CallOK(c, call[c])
    BY Zenon DEF BaseInv, CallsInv
  <1>2. content.sid \in Ids \cup {None}
    BY Zenon DEF BaseInv, UserInv
  <1>3. QED
    BY <1>1, <1>2, Zenon DEF CallOK

\* CreateSnapshot goes on with a snapshot that was there or is made.
LEMMA SnapshotFollows ==
  ASSUME BaseInv, NEW c \in Slots, call[c].op = "snapshot", NEW s \in Ids,
         call' = [call EXCEPT ![c].pc = "wait", ![c].vid = s], UNCHANGED userVars
  PROVE  WentOn(c, "wait", s) /\ Outcome(c)
PROOF
  <1>1. WentOn(c, "wait", s)
    BY GotoSnapshotForm, Zenon DEF BaseInv, Shapes
  <1>2. Follows(call[c], call'[c])
    BY <1>1, Zenon DEF WentOn, Follows
  <1>3. QED
    BY <1>1, <1>2, Zenon DEF WentOn, Went, Outcome

\* ListSnapshots answers nothing yet.
LEMMA ListSnapshotsDoes ==
  ASSUME BaseInv, NEW c \in Slots, ListSnapshots(c)
  PROVE  /\ vol' = vol /\ snap' = snap /\ Outcome(c)
         /\ \/ Fail(c)
            \/ NamedSnaps = {} /\ WentOn(c, "create", call[c].vid)
            \/ \E s \in NamedSnaps : NamedSnaps = {s} /\ WentOn(c, "wait", s)
PROOF
  <1>1. call[c].op = "snapshot" /\ call[c].pc = "byName" /\ snap' = snap /\ vol' = vol
    BY Zenon DEF ListSnapshots, At, cloudVars
  <1> DEFINE Goes(s) == call' = [call EXCEPT ![c].pc = "wait", ![c].vid = s] /\ UNCHANGED userVars
  <1>2. CASE \E s \in NamedSnaps : NamedSnaps = {s} /\ Goes(s)
    <2>1. PICK s \in NamedSnaps : NamedSnaps = {s} /\ Goes(s)
      BY <1>2, Zenon
    <2>2. s \in Ids
      BY <2>1, Zenon DEF NamedSnaps
    <2>3. WentOn(c, "wait", s) /\ Outcome(c)
      BY <1>1, <2>1, <2>2, SnapshotFollows, Zenon
    <2>4. QED
      BY <1>1, <2>1, <2>3, Zenon
  <1>3. CASE NamedSnaps = {} /\ Goto(c, "create")
    <2>1. WentOn(c, "create", call[c].vid)
      BY <1>3, GotoForm, Zenon DEF BaseInv, Shapes
    <2>2. Outcome(c)
      BY <1>1, <1>3, GotoWent, Zenon DEF Outcome
    <2>3. QED
      BY <1>1, <1>3, <2>1, <2>2, Zenon
  <1>4. CASE Fail(c)
    BY <1>1, <1>4, Zenon DEF Outcome
  <1>5. QED
    BY <1>2, <1>3, <1>4, Zenon DEF ListSnapshots

\* CreateSnapshot asks for a snapshot of a volume at rest.
LEMMA CreateSnapshotDoes ==
  ASSUME BaseInv, NEW c \in Slots, CreateSnapshot(c)
  PROVE  /\ vol' = vol /\ SnapsShape' /\ Outcome(c)
         /\ \/ snap' = snap /\ Fail(c)
            \/ /\ Found(call[c].vid) /\ vol[call[c].vid].st \in {"available", "in-use"}
               /\ \E s \in Ids : /\ snap[s] = "absent" /\ SnapTurns(s, "creating")
                                 /\ WentOn(c, "wait", s) \/ Fail(c)
PROOF
  <1> DEFINE v == call[c].vid
             allowed == Found(v) /\ vol[v].st \in {"available"} \cup IF content.force THEN {"in-use"} ELSE {}
             Goes(s) == call' = [call EXCEPT ![c].pc = "wait", ![c].vid = s] /\ UNCHANGED userVars
  <1>1. call[c].op = "snapshot" /\ vol' = vol
    BY Zenon DEF CreateSnapshot, At
  <1>2. SnapsShape
    BY Zenon DEF BaseInv, Shapes, SnapsShape
  <1>3. CASE Fail(c) /\ snap' = snap
    BY <1>1, <1>2, <1>3, Zenon DEF SnapsShape, Outcome
  <1>4. CASE allowed /\ \E s \in Ids : /\ \A t \in Ids : (snap[t] = "absent") <=> (t >= s)
                                       /\ snap' = [snap EXCEPT ![s] = "creating"]
                                       /\ Goes(s) \/ Fail(c)
    <2>1. PICK s \in Ids : /\ \A t \in Ids : (snap[t] = "absent") <=> (t >= s)
                           /\ snap' = [snap EXCEPT ![s] = "creating"]
                           /\ Goes(s) \/ Fail(c)
      BY <1>4, Zenon
    <2>2. Found(v) /\ vol[v].st \in {"available", "in-use"}
      BY <1>4, Zenon
    <2>3. Outcome(c) /\ (WentOn(c, "wait", s) \/ Fail(c))
      BY <1>1, <2>1, SnapshotFollows, Zenon DEF Outcome
    <2> HIDE DEF Goes, allowed, v
    <2>4. SnapsShape' /\ SnapTurns(s, "creating")
      BY <1>2, <2>1, SnapPut, Zenon DEF SnapTurns
    <2>5. s >= s
      BY SMT DEF Ids
    <2>6. snap[s] = "absent"
      BY <2>1, <2>5, Zenon
    <2>7. QED
      BY <1>1, <2>2, <2>3, <2>4, <2>6, Zenon DEF v
  <1>5. QED
    BY <1>3, <1>4, Zenon DEF CreateSnapshot

\* DeleteSnapshot deletes a snapshot at rest.
LEMMA DeleteSnapshotDoes ==
  ASSUME BaseInv, NEW c \in Slots, DeleteSnapshot(c)
  PROVE  /\ vol' = vol /\ SnapsShape' /\ Outcome(c)
         /\ \/ snap' = snap
            \/ snap[call[c].vid] \in {"available", "error"} /\ SnapTurns(call[c].vid, "deleting")
PROOF
  <1> DEFINE s == call[c].vid
  <1>1. call[c].op = "unsnapshot" /\ vol' = vol
    BY Zenon DEF DeleteSnapshot, At
  <1>2. GoodAnswer(c, s)
    BY <1>1, Zenon DEF GoodAnswer
  <1>3. Outcome(c)
    BY <1>2, Zenon DEF DeleteSnapshot, Outcome
  <1>4. SnapsShape
    BY Zenon DEF BaseInv, Shapes, SnapsShape
  <1>5. CASE snap' = snap
    BY <1>1, <1>3, <1>4, <1>5, Zenon DEF SnapsShape
  <1>6. CASE snap[s] \in {"available", "error"} /\ snap' = [snap EXCEPT ![s] = "deleting"]
    <2>1. s \in Ids
      BY <1>1, UnsnapshotFacts, Zenon
    <2>2. SnapsShape' /\ SnapTurns(s, "deleting")
      BY <1>4, <1>6, <2>1, SnapPut, Zenon DEF SnapTurns
    <2>3. QED
      BY <1>1, <1>3, <1>6, <2>2, Zenon
  <1>7. QED
    BY <1>5, <1>6, Zenon DEF DeleteSnapshot

\* WaitSnapshotReady answers with the snapshot.
LEMMA WaitSnapshotReadyDoes ==
  ASSUME BaseInv, NEW c \in Slots, WaitSnapshotReady(c)
  PROVE  /\ vol' = vol /\ snap' = snap /\ Outcome(c) /\ call[c].vid \in Ids
         /\ Fail(c) \/ (snap[call[c].vid] = "available" /\ Answer(c, call[c].vid))
PROOF
  <1>1. call[c].op = "snapshot" /\ call[c].pc = "wait" /\ snap' = snap /\ vol' = vol
    BY Zenon DEF WaitSnapshotReady, At, cloudVars
  <1>2. call[c].vid \in Ids
    BY <1>1, Zenon DEF BaseInv, CallsInv, CallOK
  <1>3. GoodAnswer(c, call[c].vid)
    BY <1>1, <1>2, Zenon DEF GoodAnswer
  <1>4. QED
    BY <1>1, <1>2, <1>3, Zenon DEF WaitSnapshotReady, Outcome

\* The steps of CreateSnapshot and DeleteSnapshot, and a request that fails.
LEMMA SnapshotOutcome ==
  ASSUME BaseInv, NEW c \in Slots, running' = running,
         ListSnapshots(c) \/ CreateSnapshot(c) \/ WaitSnapshotReady(c) \/ DeleteSnapshot(c) \/ CallFails(c)
  PROVE  VolumesKept /\ vol' = vol /\ SnapsShape' /\ Outcome(c)
PROOF
  <1>1. SnapsShape
    BY Zenon DEF BaseInv, Shapes, SnapsShape
  <1>2. CASE CallFails(c)
    <2>1. vol' = vol /\ SnapsShape' /\ Outcome(c)
      BY <1>1, <1>2, Zenon DEF CallFails, cloudVars, SnapsShape, Outcome
    <2>2. QED
      BY <2>1, NoVolume, Zenon DEF VolumesKept
  <1>3. CASE ~CallFails(c)
    <2>1. vol' = vol /\ Outcome(c)
      BY <1>3, ListSnapshotsDoes, CreateSnapshotDoes, DeleteSnapshotDoes, WaitSnapshotReadyDoes, Zenon
    <2>2. snap' = snap => SnapsShape'
      BY <1>1, Zenon DEF SnapsShape
    <2>3. SnapsShape'
      BY <1>3, <2>2, ListSnapshotsDoes, CreateSnapshotDoes, DeleteSnapshotDoes, WaitSnapshotReadyDoes, Zenon
    <2>4. QED
      BY <2>1, <2>3, NoVolume, Zenon DEF VolumesKept
  <1>4. QED
    BY <1>2, <1>3, Zenon

\* The step of any handler.
LEMMA HandlerOutcome ==
  ASSUME BaseInv, NEW c \in Slots, Handler(c)
  PROVE  VolumesKept /\ SnapsShape' /\ Outcome(c) /\ running' = running /\ gaveUp' = gaveUp
PROOF
  <1>1. running' = running /\ gaveUp' = gaveUp
    BY Zenon DEF Handler
  <1>2. CASE VolumeStep(c)
    <2>1. SnapsShape'
      BY <1>2, Zenon DEF VolumeStep, BaseInv, Shapes, SnapsShape
    <2>2. VolumesKept /\ Outcome(c)
      BY <1>1, <1>2, ReadingOutcome, WritingOutcome, Zenon DEF VolumeStep
    <2>3. QED
      BY <1>1, <2>1, <2>2, Zenon
  <1>3. CASE ~VolumeStep(c)
    BY <1>1, <1>3, SnapshotOutcome, Zenon DEF Handler
  <1>4. QED
    BY <1>2, <1>3, Zenon

-----------------------------------------------------------------------------
(* BaseInv *)

\* A step of one slot that changes nothing for the users.
LEMMA BaseSame ==
  ASSUME BaseInv, VolumesKept, SnapsShape', UNCHANGED userVars, gaveUp' = gaveUp, running' \subseteq running,
         NEW c \in Slots, CallsOnly(c), CallOK(c, call'[c])
  PROVE  BaseInv'
PROOF
  <1>1. \A d \in Slots : CallOK(d, call'[d])
    BY Zenon DEF BaseInv, CallsInv, CallsOnly
  <1>2. CallsInv'
    BY <1>1 DEF CallsInv, CallOK, OpsOf, userVars
  <1>3. handle # None => vol'[handle].st # "absent"
    BY Zenon DEF BaseInv, UserInv, VolumesKept, Drifts, Drift
  <1>4. UserInv'
    BY <1>3, Zenon DEF BaseInv, UserInv, userVars
  <1>5. Shapes'
    BY Zenon DEF BaseInv, Shapes, VolumesKept, CallsOnly, SnapsShape, userVars
  <1>6. QED
    BY <1>2, <1>4, <1>5, Zenon DEF BaseInv, VolumesKept

\* Nothing is asked of a slot without a call.
LEMMA NoCallOK ==
  ASSUME NEW c
  PROVE  CallOK(c, NoCall)
PROOF BY NoCallFields DEF CallOK

\* A handler goes on or fails.
LEMMA BaseFailOrGo ==
  ASSUME BaseInv, VolumesKept, SnapsShape', gaveUp' = gaveUp, running' = running,
         NEW c \in Slots, Fail(c) \/ Went(c)
  PROVE  BaseInv'
PROOF
  <1>1. CASE Fail(c)
    <2>1. CallsOnly(c) /\ call'[c] = NoCall /\ UNCHANGED userVars
      BY <1>1, DoneForm, Zenon DEF Fail, BaseInv, Shapes
    <2>2. QED
      BY <2>1, NoCallOK, BaseSame, Zenon
  <1>2. CASE Went(c)
    <2>1. CallOK(c, call[c])
      BY Zenon DEF BaseInv, CallsInv
    <2>2. CallOK(c, call'[c])
      BY <1>2, <2>1 DEF CallOK, Went, Follows
    <2>3. QED
      BY <1>2, <2>2, BaseSame, Zenon DEF Went
  <1>3. QED
    BY <1>1, <1>2, Zenon

\* A handler answers.
LEMMA BaseAnswer ==
  ASSUME BaseInv, VolumesKept, SnapsShape', gaveUp' = gaveUp, running' = running,
         NEW c \in Slots, NEW v, Answer(c, v), GoodAnswer(c, v)
  PROVE  BaseInv'
PROOF
  <1>1. /\ CallsOnly(c) /\ call'[c] = NoCall
        /\ handle # None => vol'[handle].st # "absent"
    <2>1. CallsShape /\ Done(c)
      BY Zenon DEF BaseInv, Shapes, Answer
    <2>2. QED
      BY <2>1, DoneForm, Zenon DEF BaseInv, UserInv, VolumesKept, Drifts, Drift
  <1>2. \A d \in Slots : CallOK(d, call[d])
    BY Zenon DEF BaseInv, CallsInv
  <1>3. UserInv
    BY Zenon DEF BaseInv
  <1>a. /\ va = [inst |-> va.inst, st |-> va.st]
        /\ content = [st |-> content.st, sid |-> content.sid, force |-> content.force]
    BY Zenon DEF BaseInv, Shapes
  <1>4. ASSUME \A d \in Slots \ {c} : CallOK(d, call[d])', UserInv',
               va' = [inst |-> va'.inst, st |-> va'.st],
               content' = [st |-> content'.st, sid |-> content'.sid, force |-> content'.force]
        PROVE  BaseInv'
    <2>1. CallOK(c, call[c])'
      BY <1>1, NoCallFields, Zenon DEF CallOK
    <2>2. CallsInv'
      BY <1>4, <2>1, Zenon DEF CallsInv
    <2>3. Shapes'
      BY <1>1, <1>4, Zenon DEF Shapes, VolumesKept, CallsOnly, SnapsShape
    <2>4. QED
      BY <1>4, <2>2, <2>3, Zenon DEF BaseInv, VolumesKept
  <1>5. Answered(c, v)
    BY AnswerCases, Zenon DEF GoodAnswer
  <1>6. CASE c = "prov" /\ call[c].op = "create" /\ AnswersCreate(v)
    <2>1. CallOK(c, call[c])
      BY <1>2, Zenon
    <2>2. ASSUME NEW d \in Slots \ {c} PROVE CallOK(d, call[d])'
      <3>1. CallOK(d, call[d]) /\ call'[d] = call[d]
        BY <1>1, <1>2, Zenon DEF CallsOnly
      <3>2. QED
        BY <1>3, <1>6, <2>1, <2>2, <3>1, Zenon DEF CallOK, OpsOf, UserInv, AnswersCreate
    <2>3. UserInv'
      BY <1>1, <1>3, <1>6, <2>1, Constants, Zenon DEF UserInv, CallOK, GoodAnswer, AnswersCreate
    <2>4. QED
      BY <1>4, <1>6, <1>a, <2>2, <2>3, Zenon DEF AnswersCreate
  <1>7. CASE c = "prov" /\ call[c].op = "delete" /\ AnswersDelete
    <2>1. CallOK(c, call[c])
      BY <1>2, Zenon
    <2>2. ASSUME NEW d \in Slots \ {c} PROVE CallOK(d, call[d])'
      <3>1. CallOK(d, call[d]) /\ call'[d] = call[d]
        BY <1>1, <1>2, Zenon DEF CallsOnly
      <3>2. QED
        BY <1>3, <1>7, <2>1, <2>2, <3>1 DEF CallOK, OpsOf, UserInv, AnswersDelete
    <2>3. UserInv'
      BY <1>1, <1>3, <1>7, <2>1, Constants, Zenon DEF UserInv, CallOK, GoodAnswer, AnswersDelete
    <2>4. QED
      BY <1>4, <1>7, <1>a, <2>2, <2>3, Zenon DEF AnswersDelete
  <1>8. CASE c = "att" /\ call[c].op = "publish" /\ AnswersPublish
    <2>1. CallOK(c, call[c])
      BY <1>2, Zenon
    <2>2. ASSUME NEW d \in Slots \ {c} PROVE CallOK(d, call[d])'
      <3>1. CallOK(d, call[d]) /\ call'[d] = call[d]
        BY <1>1, <1>2, Zenon DEF CallsOnly
      <3>2. QED
        BY <1>3, <1>8, <2>1, <2>2, <3>1 DEF CallOK, OpsOf, UserInv, AnswersPublish
    <2>3. UserInv'
      BY <1>1, <1>3, <1>8, <2>1, Constants, Zenon DEF UserInv, CallOK, GoodAnswer, AnswersPublish
    <2>4. QED
      BY <1>4, <1>8, <1>a, <2>2, <2>3, Zenon DEF AnswersPublish
  <1>9. CASE c = "att" /\ call[c].op = "unpublish" /\ AnswersUnpublish
    <2>1. CallOK(c, call[c])
      BY <1>2, Zenon
    <2>2. ASSUME NEW d \in Slots \ {c} PROVE CallOK(d, call[d])'
      <3>1. CallOK(d, call[d]) /\ call'[d] = call[d]
        BY <1>1, <1>2, Zenon DEF CallsOnly
      <3>2. QED
        BY <1>3, <1>9, <2>1, <2>2, <3>1 DEF CallOK, OpsOf, UserInv, AnswersUnpublish
    <2>3. UserInv'
      BY <1>1, <1>3, <1>9, <2>1, Constants, Zenon DEF UserInv, CallOK, GoodAnswer, AnswersUnpublish, NoVA
    <2>4. QED
      BY <1>4, <1>9, <1>a, <2>2, <2>3, Zenon DEF AnswersUnpublish, NoVA
  <1>10. CASE c = "exp" /\ call[c].op = "expand" /\ AnswersExpand(call[c].size)
    <2>1. CallOK(c, call[c])
      BY <1>2, Zenon
    <2>2. ASSUME NEW d \in Slots \ {c} PROVE CallOK(d, call[d])'
      <3>1. CallOK(d, call[d]) /\ call'[d] = call[d]
        BY <1>1, <1>2, Zenon DEF CallsOnly
      <3>2. QED
        BY <1>3, <1>10, <2>1, <2>2, <3>1 DEF CallOK, OpsOf, UserInv, AnswersExpand
    <2>3. UserInv'
      BY <1>1, <1>3, <1>10, <2>1, Constants, Zenon DEF UserInv, CallOK, GoodAnswer, AnswersExpand
    <2>4. QED
      BY <1>4, <1>10, <1>a, <2>2, <2>3, Zenon DEF AnswersExpand
  <1>11. CASE c = "snap" /\ call[c].op = "snapshot" /\ AnswersSnapshot(v)
    <2>1. CallOK(c, call[c])
      BY <1>2, Zenon
    <2>2. ASSUME NEW d \in Slots \ {c} PROVE CallOK(d, call[d])'
      <3>1. CallOK(d, call[d]) /\ call'[d] = call[d]
        BY <1>1, <1>2, Zenon DEF CallsOnly
      <3>2. QED
        BY <1>3, <1>11, <2>1, <2>2, <3>1 DEF CallOK, OpsOf, UserInv, AnswersSnapshot
    <2>3. UserInv'
      BY <1>1, <1>3, <1>11, <2>1, Constants, Zenon DEF UserInv, CallOK, GoodAnswer, AnswersSnapshot
    <2>4. QED
      BY <1>4, <1>11, <1>a, <2>2, <2>3, Zenon DEF AnswersSnapshot
  <1>12. CASE c = "snap" /\ call[c].op = "unsnapshot" /\ AnswersUnsnapshot
    <2>1. CallOK(c, call[c])
      BY <1>2, Zenon
    <2>2. ASSUME NEW d \in Slots \ {c} PROVE CallOK(d, call[d])'
      <3>1. CallOK(d, call[d]) /\ call'[d] = call[d]
        BY <1>1, <1>2, Zenon DEF CallsOnly
      <3>2. QED
        BY <1>3, <1>12, <2>1, <2>2, <3>1 DEF CallOK, OpsOf, UserInv, AnswersUnsnapshot
    <2>3. UserInv'
      BY <1>1, <1>3, <1>12, <2>1, Constants, Zenon DEF UserInv, CallOK, GoodAnswer, AnswersUnsnapshot
    <2>4. QED
      BY <1>4, <1>12, <1>a, <2>2, <2>3, Zenon DEF AnswersUnsnapshot
  <1>13. CASE c = "late" /\ UNCHANGED userVars
    <2>1. CallOK(c, call'[c])
      BY <1>1, NoCallOK, Zenon
    <2>2. QED
      BY <1>1, <1>13, <2>1, BaseSame, Zenon
  <1>14. QED
    BY <1>5, <1>6, <1>7, <1>8, <1>9, <1>10, <1>11, <1>12, <1>13, Zenon DEF Answered

\* A step that leaves the calls and the users alone.
LEMMA BaseQuiet ==
  ASSUME BaseInv, VolumesKept, SnapsShape', UNCHANGED <<userVars, call, gaveUp>>, running' \subseteq running
  PROVE  BaseInv'
PROOF
  <1>1. "prov" \in Slots
    BY Zenon DEF Slots, Sidecars
  <1>2. CallsOnly("prov")
    BY Zenon DEF BaseInv, Shapes, CallsShape, CallsOnly
  <1>3. CallOK("prov", call'["prov"])
    BY <1>1, Zenon DEF BaseInv, CallsInv
  <1>4. QED
    BY <1>1, <1>2, <1>3, BaseSame, Zenon

\* The clouds.
LEMMA BaseCloud ==
  ASSUME BaseInv,
         \/ \E v \in Ids : CloudStep(v) \/ CloudFails(v) \/ SnapshotStep(v)
         \/ \E i \in Instances : InstanceDeleted(i)
  PROVE  BaseInv' /\ Drifts
PROOF
  <1>1. SnapsShape
    BY Zenon DEF BaseInv, Shapes, SnapsShape
  <1>2. ASSUME NEW v \in Ids, CloudStep(v) PROVE BaseInv' /\ Drifts
    <2>1. UNCHANGED <<userVars, call, gaveUp>> /\ running' \subseteq running /\ SnapsShape'
      BY <1>1, <1>2, Zenon DEF CloudStep, SnapsShape
    <2>2. QED
      BY <1>2, <2>1, CloudStepDoes, BaseQuiet, Zenon DEF VolumesKept
  <1>3. ASSUME NEW v \in Ids, CloudFails(v) PROVE BaseInv' /\ Drifts
    <2>1. UNCHANGED <<userVars, call, gaveUp>> /\ running' \subseteq running /\ SnapsShape'
      BY <1>1, <1>3, Zenon DEF CloudFails, SnapsShape
    <2>2. QED
      BY <1>3, <2>1, CloudFailsDoes, BaseQuiet, Zenon DEF VolumesKept
  <1>4. ASSUME NEW s \in Ids, SnapshotStep(s) PROVE BaseInv' /\ Drifts
    <2>1. UNCHANGED <<userVars, call, gaveUp>> /\ vol' = vol /\ running' = running
      BY <1>4, Zenon DEF SnapshotStep
    <2>2. SnapsShape'
      <3>1. PICK x : snap' = [snap EXCEPT ![s] = x]
        BY <1>4, Zenon DEF SnapshotStep
      <3>2. QED
        BY <1>1, <3>1, SnapPut, Zenon
    <2>3. VolumesKept
      BY <2>1, NoVolume, Zenon DEF VolumesKept
    <2>4. QED
      BY <2>1, <2>2, <2>3, BaseQuiet, Zenon DEF VolumesKept
  <1>5. ASSUME NEW i \in Instances, InstanceDeleted(i) PROVE BaseInv' /\ Drifts
    <2>1. UNCHANGED <<userVars, call, gaveUp>> /\ running' \subseteq running /\ SnapsShape'
      BY <1>1, <1>5, Zenon DEF InstanceDeleted, SnapsShape
    <2>2. QED
      BY <1>5, <2>1, InstanceDeletedDoes, BaseQuiet, Zenon DEF VolumesKept
  <1>6. QED
    BY <1>2, <1>3, <1>4, <1>5, Zenon

\* The record of a new call.
CallOf(o, p, w, i, z) == [NoCall EXCEPT !.op = o, !.pc = p, !.vid = w, !.inst = i, !.size = z]

\* The fields of a new call.
LEMMA NewCall ==
  ASSUME NEW o, NEW p, NEW w, NEW i, NEW z
  PROVE  CallOf(o, p, w, i, z) =
           [op |-> o, pc |-> p, vid |-> w, inst |-> i, size |-> z, seen |-> None]
PROOF
  <1> DEFINE m1 == [NoCall EXCEPT !.op = o]
             m2 == [m1 EXCEPT !.pc = p]
             m3 == [m2 EXCEPT !.vid = w]
             m4 == [m3 EXCEPT !.inst = i]
             m5 == [m4 EXCEPT !.size = z]
  <1>1. CallOf(o, p, w, i, z) = m5
    BY Zenon DEF CallOf
  <1>2. m1 = [op |-> o, pc |-> "idle", vid |-> None, inst |-> None, size |-> 0, seen |-> None]
    BY SMT DEF NoCall
  <1> HIDE DEF m1
  <1>3. m2 = [op |-> o, pc |-> p, vid |-> None, inst |-> None, size |-> 0, seen |-> None]
    BY <1>2, SMT
  <1> HIDE DEF m2
  <1>4. m3 = [op |-> o, pc |-> p, vid |-> w, inst |-> None, size |-> 0, seen |-> None]
    BY <1>3, SMT
  <1> HIDE DEF m3
  <1>5. m4 = [op |-> o, pc |-> p, vid |-> w, inst |-> i, size |-> 0, seen |-> None]
    BY <1>4, SMT
  <1> HIDE DEF m4
  <1>6. m5 = [op |-> o, pc |-> p, vid |-> w, inst |-> i, size |-> z, seen |-> None]
    BY <1>5, SMT
  <1>7. QED
    BY <1>1, <1>6, Zenon

\* A sidecar calls.
LEMMA CallForm ==
  ASSUME BaseInv, NEW c \in Slots, NEW o, NEW p, Call(c, o, p)
  PROVE  /\ CallsOnly(c) /\ call[c].op = "none"
         /\ call'[c].op = o /\ call'[c].pc = p /\ call'[c].inst = va.inst /\ call'[c].size = want
         /\ call'[c].vid = IF o = "unsnapshot" THEN content.sid ELSE handle
         /\ UNCHANGED <<vol, snap, running, userVars, gaveUp>>
PROOF
  <1> DEFINE w == IF o = "unsnapshot" THEN content.sid ELSE handle
             k == CallOf(o, p, w, va.inst, want)
  <1>1. call' = [call EXCEPT ![c] = k] /\ call[c].op = "none" /\ UNCHANGED <<vol, snap, running, userVars, gaveUp>>
    BY Zenon DEF Call, Idle, cloudVars, CallOf
  <1> HIDE DEF w
  <1>2. k = [op |-> o, pc |-> p, vid |-> w, inst |-> va.inst, size |-> want, seen |-> None]
    BY NewCall, Zenon
  <1> HIDE DEF k
  <1>3. IsCall(k) /\ k.op = o /\ k.pc = p /\ k.vid = w /\ k.inst = va.inst /\ k.size = want
    BY <1>2, CallRecord
  <1>4. CallsOnly(c) /\ call'[c] = k
    BY <1>1, <1>3, CallPut, Zenon DEF BaseInv, Shapes
  <1>5. QED
    BY <1>1, <1>3, <1>4, Zenon DEF w

\* A sidecar calls with what the users want at the time.
LEMMA BaseSidecar ==
  ASSUME BaseInv, NEW c \in Sidecars, Sidecar(c)
  PROVE  BaseInv' /\ Drifts
PROOF
  <1>1. c \in Slots
    BY Zenon DEF Slots
  <1>2. PICK o, p : /\ Call(c, o, p)
                    /\ \/ c = "prov" /\ pvc = "wanted" /\ o = "create" /\ p = "byName"
                       \/ c = "prov" /\ handle # None /\ o = "delete"
                       \/ c = "att" /\ va.st = "attaching" /\ o = "publish"
                       \/ c = "att" /\ va.st = "detaching" /\ o = "unpublish"
                       \/ c = "exp" /\ pvc = "bound" /\ o = "expand" /\ p = "get"
                       \/ c = "snap" /\ content.st = "wanted" /\ o = "snapshot" /\ p = "byName"
                       \/ c = "snap" /\ content.st = "released" /\ content.sid # None /\ o = "unsnapshot"
    BY Zenon DEF Sidecar
  <1>3. /\ CallsOnly(c) /\ call[c].op = "none"
        /\ call'[c].op = o /\ call'[c].pc = p /\ call'[c].inst = va.inst /\ call'[c].size = want
        /\ call'[c].vid = IF o = "unsnapshot" THEN content.sid ELSE handle
        /\ UNCHANGED <<vol, snap, running, userVars, gaveUp>>
    BY <1>1, <1>2, CallForm, Zenon
  <1>4. UserInv
    BY Zenon DEF BaseInv
  <1>5. CallOK(c, call'[c])
    BY <1>2, <1>3, <1>4 DEF CallOK, OpsOf, UserInv, NoVA
  <1>6. VolumesKept
    BY <1>3, NoVolume, Zenon DEF VolumesKept
  <1>7. SnapsShape' /\ running' \subseteq running
    BY <1>3, Zenon DEF BaseInv, Shapes, SnapsShape
  <1>8. QED
    BY <1>1, <1>3, <1>5, <1>6, <1>7, BaseSame, Zenon DEF VolumesKept

\* A call that is given up goes on.
LEMMA GiveUpForm ==
  ASSUME BaseInv, NEW c \in Sidecars, GiveUp(c)
  PROVE  /\ CallsShape' /\ call'[c] = NoCall /\ call'["late"] = call[c] /\ call["late"].op = "none"
         /\ \A d \in Slots \ {c, "late"} : call'[d] = call[d]
         /\ gaveUp' = gaveUp \cup {call[c].op}
         /\ UNCHANGED <<vol, snap, running, userVars>>
PROOF
  <1>1. c \in Slots /\ "late" \in Slots /\ c # "late"
    BY Zenon DEF Slots, Sidecars
  <1> DEFINE m == [call EXCEPT ![c] = NoCall]
             k == call[c]
  <1>2. call' = [m EXCEPT !["late"] = k]
    BY Zenon DEF GiveUp
  <1>3. m = [d \in Slots |-> IF d = c THEN NoCall ELSE call[d]]
    BY Zenon DEF BaseInv, Shapes, CallsShape
  <1> HIDE DEF m, k
  <1>4. call' = [d \in Slots |-> IF d = "late" THEN k ELSE m[d]]
    BY <1>2, <1>3, Zenon
  <1>5. /\ call'[c] = NoCall /\ call'["late"] = k
        /\ \A d \in Slots \ {c, "late"} : call'[d] = call[d]
    BY <1>1, <1>3, <1>4, Zenon
  <1>6. call' = [d \in Slots |-> call'[d]]
    BY <1>4, Zenon
  <1>7. \A d \in Slots : IsCall(call'[d])
    BY <1>1, <1>5, NoCallFields, Zenon DEF BaseInv, Shapes, CallsShape, k
  <1>8. QED
    BY <1>5, <1>6, <1>7, Zenon DEF GiveUp, Idle, cloudVars, CallsShape, k

\* A call that is given up is nobody's, and its handler goes on.
LEMMA BaseGiveUp ==
  ASSUME BaseInv, NEW c \in Sidecars, GiveUp(c)
  PROVE  BaseInv' /\ Drifts
PROOF
  <1>1. /\ CallsShape' /\ call'[c] = NoCall /\ call'["late"] = call[c]
        /\ \A d \in Slots \ {c, "late"} : call'[d] = call[d]
        /\ gaveUp' = gaveUp \cup {call[c].op}
        /\ UNCHANGED <<vol, snap, running, userVars>>
    BY GiveUpForm, Zenon
  <1>2. VolumesKept
    BY <1>1, NoVolume, Zenon DEF VolumesKept
  <1>3. CallOK(c, call[c])
    BY Zenon DEF BaseInv, CallsInv, Slots
  <1>4. ASSUME NEW d \in Slots PROVE CallOK(d, call[d])'
    <2>1. CASE d = c
      BY <1>1, <2>1, NoCallFields, Zenon DEF CallOK
    <2>2. CASE d = "late"
      BY <1>1, <1>3, <2>2, Zenon DEF CallOK, OpsOf, userVars
    <2>3. CASE d \notin {c, "late"}
      <3>1. CallOK(d, call[d]) /\ call'[d] = call[d]
        BY <1>1, <2>3, Zenon DEF BaseInv, CallsInv
      <3>2. d \in {"prov", "att", "exp", "snap"}
        BY <2>3, Zenon DEF Slots, Sidecars
      <3>3. QED
        BY <1>1, <3>1, <3>2 DEF CallOK, OpsOf, userVars
    <2>4. QED
      BY <2>1, <2>2, <2>3, Zenon
  <1>5. UserInv'
    BY <1>1 DEF BaseInv, UserInv, userVars
  <1>6. Shapes'
    BY <1>1, <1>2, Zenon DEF BaseInv, Shapes, VolumesKept, userVars
  <1>7. QED
    BY <1>2, <1>4, <1>5, <1>6, Zenon DEF BaseInv, VolumesKept, CallsInv

\* A user edits an object.
LEMMA BaseUser ==
  ASSUME BaseInv, User
  PROVE  BaseInv' /\ Drifts
PROOF
  <1>1. UNCHANGED <<vol, snap, running, call, gaveUp>>
    BY Zenon DEF User, cloudVars
  <1>2. VolumesKept
    BY <1>1, NoVolume, Zenon DEF VolumesKept
  <1>3. \A d \in Slots : CallOK(d, call[d])
    BY Zenon DEF BaseInv, CallsInv
  <1>4. UserInv /\ Shapes
    BY Zenon DEF BaseInv
  <1>5. ASSUME \A d \in Slots : CallOK(d, call[d])', UserInv',
               va' = [inst |-> va'.inst, st |-> va'.st],
               content' = [st |-> content'.st, sid |-> content'.sid, force |-> content'.force]
        PROVE  BaseInv'
    <2>1. Shapes'
      BY <1>1, <1>2, <1>4, <1>5, Zenon DEF Shapes, VolumesKept, CallsShape
    <2>2. QED
      BY <1>2, <1>5, <2>1, Zenon DEF BaseInv, VolumesKept, CallsInv
  <1>6. CASE ClaimEdit
    <2>1. content' = content /\ grown' = grown /\ handle' = handle
      BY <1>6, Zenon DEF ClaimEdit
    <2>2. va = [inst |-> va.inst, st |-> va.st]
      BY <1>4, Zenon DEF Shapes
    <2>3. CASE /\ UNCHANGED <<va, want>>
               /\ \/ pvc = "absent" /\ pvc' = "wanted"
                  \/ pvc \in {"wanted", "bound"} /\ pvc' = "released"
                  \/ pvc = "released" /\ handle = None /\ Idle("prov") /\ pvc' = "gone"
      <3>1. ASSUME NEW d \in Slots PROVE CallOK(d, call[d])'
        <4>1. CallOK(d, call[d]) /\ call'[d] = call[d]
          BY <1>1, <1>3, Zenon
        <4>2. QED
          BY <1>1, <1>4, <2>1, <2>3, <4>1 DEF CallOK, OpsOf, UserInv, Idle
      <3>2. UserInv'
        BY <1>1, <1>4, <2>1, <2>3 DEF UserInv
      <3>3. QED
        BY <1>2, <1>4, <1>5, <2>1, <2>3, <3>1, <3>2 DEF Shapes, VolumesKept
    <2>4. CASE /\ pvc = "bound" /\ va = NoVA /\ \E i \in running : va' = [inst |-> i, st |-> "attaching"]
               /\ UNCHANGED <<pvc, want>>
      <3>1. PICK i \in running : va' = [inst |-> i, st |-> "attaching"]
        BY <2>4, Zenon
      <3>2. ASSUME NEW d \in Slots PROVE CallOK(d, call[d])'
        <4>1. CallOK(d, call[d]) /\ call'[d] = call[d]
          BY <1>1, <1>3, Zenon
        <4>2. QED
          BY <1>1, <2>1, <2>4, <4>1 DEF CallOK, OpsOf
      <3>3. UserInv'
        BY <1>1, <1>4, <2>1, <2>4, <3>1, Zenon DEF UserInv
      <3>4. QED
        BY <1>2, <1>4, <1>5, <2>1, <3>1, <3>2, <3>3 DEF Shapes, VolumesKept
    <2>5. CASE /\ va.st \in {"attaching", "attached"} /\ va' = [va EXCEPT !.st = "detaching"]
               /\ UNCHANGED <<pvc, want>>
      <3>1. va' = [inst |-> va.inst, st |-> "detaching"]
        BY <2>2, <2>5, SMT
      <3>2. ASSUME NEW d \in Slots PROVE CallOK(d, call[d])'
        <4>1. CallOK(d, call[d]) /\ call'[d] = call[d]
          BY <1>1, <1>3, Zenon
        <4>2. QED
          BY <1>1, <2>1, <2>5, <3>1, <4>1 DEF CallOK, OpsOf, NoVA
      <3>3. UserInv'
        BY <1>1, <1>4, <2>1, <2>5, <3>1, Zenon DEF UserInv
      <3>4. QED
        BY <1>2, <1>4, <1>5, <2>1, <3>1, <3>2, <3>3 DEF Shapes, VolumesKept
    <2>6. CASE pvc = "bound" /\ want' = MaxSize /\ UNCHANGED <<pvc, va>>
      <3>1. ASSUME NEW d \in Slots PROVE CallOK(d, call[d])'
        <4>1. CallOK(d, call[d]) /\ call'[d] = call[d]
          BY <1>1, <1>3, Zenon
        <4>2. QED
          BY <1>1, <2>1, <2>6, <4>1 DEF CallOK, OpsOf
      <3>2. UserInv'
        BY <1>1, <1>4, <2>1, <2>6, Constants DEF UserInv
      <3>3. QED
        BY <1>2, <1>4, <1>5, <2>1, <2>6, <3>1, <3>2, Zenon DEF Shapes, VolumesKept
    <2>7. QED
      BY <1>6, <2>3, <2>4, <2>5, <2>6, Zenon DEF ClaimEdit
  <1>7. CASE SnapshotEdit
    <2>1. UNCHANGED <<pvc, handle, va, want, grown>>
      BY <1>7, Zenon DEF SnapshotEdit
    <2>2. content = [st |-> content.st, sid |-> content.sid, force |-> content.force]
      BY <1>4, Zenon DEF Shapes
    <2>3. PICK f, s : /\ content' = [st |-> s, sid |-> content.sid, force |-> f]
                      /\ \/ pvc = "bound" /\ content = NoContent /\ s = "wanted"
                         \/ content.st \in {"wanted", "ready"} /\ s = "released"
                         \/ content.st = "released" /\ content.sid = None /\ Idle("snap") /\ s = "gone"
      <3>1. CASE /\ pvc = "bound" /\ content = NoContent
                 /\ \E f \in BOOLEAN : content' = [content EXCEPT !.st = "wanted", !.force = f]
        <4>1. PICK f \in BOOLEAN : content' = [content EXCEPT !.st = "wanted", !.force = f]
          BY <3>1, Zenon
        <4> DEFINE d == [content EXCEPT !.st = "wanted"]
        <4>2. d = [st |-> "wanted", sid |-> content.sid, force |-> content.force]
          BY <2>2, SMT
        <4>3. content' = [d EXCEPT !.force = f]
          BY <4>1, Zenon
        <4> HIDE DEF d
        <4>4. content' = [st |-> "wanted", sid |-> content.sid, force |-> f]
          BY <4>2, <4>3, SMT
        <4>5. QED
          BY <3>1, <4>4, Zenon
      <3>2. ASSUME NEW s, content' = [content EXCEPT !.st = s]
            PROVE  content' = [st |-> s, sid |-> content.sid, force |-> content.force]
        BY <2>2, <3>2, SMT
      <3>3. QED
        BY <1>7, <3>1, <3>2, Zenon DEF SnapshotEdit
    <2>4. content'.st = s /\ content'.sid = content.sid
      BY <2>3, SMT
    <2>5. ASSUME NEW d \in Slots PROVE CallOK(d, call[d])'
      <3>1. CallOK(d, call[d]) /\ call'[d] = call[d]
        BY <1>1, <1>3, Zenon
      <3>2. QED
        BY <1>1, <1>4, <2>1, <2>3, <2>4, <3>1 DEF CallOK, OpsOf, UserInv, NoContent, Idle
    <2>6. UserInv'
      BY <1>1, <1>4, <2>1, <2>3, <2>4 DEF UserInv, NoContent
    <2>7. QED
      BY <1>2, <1>4, <1>5, <2>1, <2>3, <2>4, <2>5, <2>6, Zenon DEF Shapes, VolumesKept
  <1>8. QED
    BY <1>6, <1>7, Zenon DEF User

\* It holds at first.
LEMMA BaseInit == Init => BaseInv
PROOF
  <1> SUFFICES ASSUME Init PROVE BaseInv
    BY Zenon
  <1>1. VolumesShape /\ VolumesInv
    BY AbsentFields, Constants, SMT DEF Init, VolumesShape, VolumesInv, VolumeOK
  <1>2. CallsShape /\ \A c \in Slots : call[c] = NoCall
    BY NoCallFields, Zenon DEF Init, CallsShape
  <1>3. CallsInv
    BY <1>2, NoCallOK, Zenon DEF CallsInv
  <1>4. Shapes
    BY <1>1, <1>2, Zenon DEF Init, Shapes, NoVA, NoContent
  <1>5. UserInv
    BY Constants, Zenon DEF Init, UserInv, NoVA, NoContent
  <1>6. QED
    BY <1>1, <1>3, <1>4, <1>5, Zenon DEF BaseInv

\* The steps of the handlers.
LEMMA BaseHandler ==
  ASSUME BaseInv, NEW c \in Slots, Handler(c)
  PROVE  BaseInv' /\ Drifts
PROOF
  <1>1. VolumesKept /\ SnapsShape' /\ Outcome(c) /\ running' = running /\ gaveUp' = gaveUp
    BY HandlerOutcome, Zenon
  <1>2. BaseInv'
    BY <1>1, BaseFailOrGo, BaseAnswer, Zenon DEF Outcome
  <1>3. QED
    BY <1>1, <1>2, Zenon DEF VolumesKept

\* Every step keeps the invariant, and volumes only move forward.
LEMMA BaseStep ==
  ASSUME BaseInv, [Next]_vars
  PROVE  BaseInv' /\ Drifts
PROOF
  <1>1. CASE UNCHANGED vars
    <2>1. UNCHANGED <<vol, snap, running, userVars, call, gaveUp>>
      BY <1>1, Zenon DEF vars, cloudVars
    <2>2. VolumesKept
      BY <2>1, NoVolume, Zenon DEF VolumesKept
    <2>3. SnapsShape' /\ running' \subseteq running
      BY <2>1 DEF BaseInv, Shapes, SnapsShape
    <2>4. QED
      BY <2>1, <2>2, <2>3, BaseQuiet, Zenon DEF VolumesKept
  <1>2. CASE Next
    BY <1>2, BaseHandler, BaseCloud, BaseSidecar, BaseGiveUp, BaseUser, Zenon DEF Next
  <1>3. QED
    BY <1>1, <1>2

\* The shapes, the volumes, the calls and the objects of the users are always as
\* BaseInv says, whatever fails, is given up or is interleaved.
THEOREM BaseInvariant == Spec => []BaseInv
PROOF
  <1>1. BaseInv /\ [Next]_vars => BaseInv'
    BY BaseStep, Zenon
  <1>2. QED
    BY <1>1, BaseInit, PTL DEF Spec

-----------------------------------------------------------------------------
(* The steps that are not of a handler *)

Calm ==
  /\ gaveUp \subseteq gaveUp' /\ UNCHANGED <<handle, grown>> /\ content'.sid = content.sid
  /\ \A c \in Sidecars : \/ call'[c] = call[c] \/ call'[c].op \in {"none", "unsnapshot"}
                         \/ call'[c].pc \in {"byName", "used", "get"}
  /\ pvc' = "gone" => pvc = "gone" \/ handle = None
  /\ content'.st = "gone" => content.st = "gone" \/ content.sid = None
  /\ content'.st = "ready" => content.st = "ready"
  /\ \A v \in Ids : /\ vol[v].st = "absent" => vol'[v].st = "absent"
                    /\ vol'[v].st = "deleting" => vol[v].st = "deleting"
  /\ \A s \in Ids : \/ snap'[s] = snap[s]
                    \/ snap[s] = "creating" /\ snap'[s] \in {"available", "error"}
                    \/ snap[s] = "deleting" /\ snap'[s] = "deleted"

\* Every other step is calm.
LEMMA CalmStep ==
  ASSUME BaseInv, [Next]_vars
  PROVE  Calm \/ \E c \in Slots : Handler(c)
PROOF
  <1>1. CASE \E c \in Slots : Handler(c)
    BY <1>1, Zenon
  <1>2. CASE UNCHANGED vars
    BY <1>2, Zenon DEF vars, cloudVars, userVars, Calm
  <1>3. CASE User
    <2>1. UNCHANGED <<vol, snap, call, gaveUp>> /\ (ClaimEdit \/ SnapshotEdit)
      BY <1>3, Zenon DEF User, cloudVars
    <2>2. CASE ClaimEdit
      BY <2>1, <2>2, Zenon DEF ClaimEdit, Calm
    <2>3. CASE SnapshotEdit
      <3>1. content = [st |-> content.st, sid |-> content.sid, force |-> content.force]
        BY Zenon DEF BaseInv, Shapes
      <3>2. /\ content'.sid = content.sid
            /\ content'.st = "gone" => content.sid = None
            /\ content'.st # "ready"
        BY <2>3, <3>1, Zenon DEF SnapshotEdit, NoContent
      <3>3. UNCHANGED <<pvc, handle, grown>>
        BY <2>3, Zenon DEF SnapshotEdit
      <3>4. QED
        BY <2>1, <3>2, <3>3 DEF Calm
    <2>4. QED
      BY <2>1, <2>2, <2>3, Zenon
  <1>4. ASSUME NEW c \in Sidecars, Sidecar(c) PROVE Calm
    <2>1. c \in Slots
      BY Zenon DEF Slots
    <2>2. PICK o, p : Call(c, o, p) /\ (o = "unsnapshot" \/ p \in {"byName", "used", "get"})
      BY <1>4, Zenon DEF Sidecar
    <2>3. /\ CallsOnly(c) /\ call'[c].op = o /\ call'[c].pc = p
          /\ UNCHANGED <<vol, snap, running, userVars, gaveUp>>
      BY <2>1, <2>2, CallForm, Zenon
    <2>4. \A d \in Sidecars : \/ call'[d] = call[d] \/ call'[d].op \in {"none", "unsnapshot"}
                              \/ call'[d].pc \in {"byName", "used", "get"}
      BY <2>2, <2>3, Zenon DEF CallsOnly, Slots
    <2>5. QED
      BY <2>3, <2>4, Zenon DEF userVars, Calm
  <1>5. ASSUME NEW c \in Sidecars, GiveUp(c) PROVE Calm
    <2>1. /\ call'[c] = NoCall /\ \A d \in Slots \ {c, "late"} : call'[d] = call[d]
          /\ gaveUp' = gaveUp \cup {call[c].op} /\ UNCHANGED <<vol, snap, running, userVars>>
      BY <1>5, GiveUpForm, Zenon
    <2>2. \A d \in Sidecars : call'[d] = call[d] \/ call'[d].op \in {"none", "unsnapshot"}
      BY <2>1, NoCallFields, Zenon DEF Slots, Sidecars
    <2>3. QED
      BY <2>1, <2>2, Zenon DEF userVars, Calm
  <1>6. ASSUME NEW v \in Ids, CloudStep(v) \/ CloudFails(v) PROVE Calm
    <2>1. UNCHANGED <<snap, userVars, call, gaveUp>>
      BY <1>6, Zenon DEF CloudStep, CloudFails
    <2>2. ASSUME NEW w \in Ids
          PROVE  /\ vol[w].st = "absent" => vol'[w].st = "absent"
                 /\ vol'[w].st = "deleting" => vol[w].st = "deleting"
      BY <1>6, CloudStepDoes, CloudFailsDoes, Zenon DEF Turns
    <2>3. QED
      BY <2>1, <2>2, Zenon DEF userVars, Calm
  <1>7. ASSUME NEW s \in Ids, SnapshotStep(s) PROVE Calm
    <2>1. UNCHANGED <<vol, userVars, call, gaveUp>>
      BY <1>7, Zenon DEF SnapshotStep
    <2>2. PICK x : /\ snap' = [snap EXCEPT ![s] = x]
                   /\ \/ snap[s] = "creating" /\ x \in {"available", "error"}
                      \/ snap[s] = "deleting" /\ x = "deleted"
      BY <1>7, Zenon DEF SnapshotStep
    <2>3. snap'[s] = x /\ \A t \in Ids \ {s} : snap'[t] = snap[t]
      BY <2>2, SnapPut, Zenon DEF BaseInv, Shapes, SnapsShape
    <2>4. QED
      BY <2>1, <2>2, <2>3, Zenon DEF userVars, Calm
  <1>8. ASSUME NEW i \in Instances, InstanceDeleted(i) PROVE Calm
    <2>1. UNCHANGED <<snap, userVars, call, gaveUp>> /\ i # None
      BY <1>8, Constants, Zenon DEF InstanceDeleted
    <2>2. ASSUME NEW w \in Ids
          PROVE  /\ vol[w].st = "absent" => vol'[w].st = "absent"
                 /\ vol'[w].st = "deleting" => vol[w].st = "deleting"
      <3>1. VolumeOK(vol[w], running)
        BY VolumeFacts, Zenon
      <3>2. /\ vol[w].at # i /\ vol[w].to # i => vol'[w] = vol[w]
            /\ vol'[w].st \in {vol[w].st, "available", "in-use"}
        BY <1>8, InstanceDeletedDoes, Zenon
      <3>3. QED
        BY <2>1, <3>1, <3>2 DEF VolumeOK
    <2>3. QED
      BY <2>1, <2>2, Zenon DEF userVars, Calm
  <1>9. QED
    BY <1>1, <1>2, <1>3, <1>4, <1>5, <1>6, <1>7, <1>8, Zenon DEF Next

-----------------------------------------------------------------------------
(* The steps of the handlers *)

\* The steps of each handler.
LEMMA HandlerOps ==
  ASSUME NEW c, Handler(c)
  PROVE  /\ call[c].op # "none"
         /\ call[c].op = "create" => GetVolumesByName(c) \/ CreateVolume(c) \/ CallFails(c)
         /\ call[c].op = "delete" => DiskIsUsed(c) \/ DeleteVolume(c) \/ CallFails(c)
         /\ call[c].op = "publish" => GetForAttach(c) \/ AttachVolume(c) \/ WaitDiskAttached(c) \/ CallFails(c)
         /\ call[c].op = "unpublish" => GetForDetach(c) \/ DetachVolume(c) \/ WaitDiskDetached(c) \/ CallFails(c)
         /\ call[c].op = "expand" => GetForExpand(c) \/ ExpandVolume(c) \/ WaitVolumeTargetStatus(c) \/ CallFails(c)
         /\ call[c].op = "snapshot" => ListSnapshots(c) \/ CreateSnapshot(c) \/ WaitSnapshotReady(c) \/ CallFails(c)
         /\ call[c].op = "unsnapshot" => DeleteSnapshot(c) \/ CallFails(c)
PROOF
  <1>1. GetVolumesByName(c) \/ CreateVolume(c) => call[c].op = "create"
    BY Zenon DEF GetVolumesByName, CreateVolume, At
  <1>2. DiskIsUsed(c) \/ DeleteVolume(c) => call[c].op = "delete"
    BY Zenon DEF DiskIsUsed, DeleteVolume, At
  <1>3. GetForAttach(c) \/ AttachVolume(c) \/ WaitDiskAttached(c) => call[c].op = "publish"
    BY Zenon DEF GetForAttach, AttachVolume, WaitDiskAttached, At
  <1>4. GetForDetach(c) \/ DetachVolume(c) \/ WaitDiskDetached(c) => call[c].op = "unpublish"
    BY Zenon DEF GetForDetach, DetachVolume, WaitDiskDetached, At
  <1>5. GetForExpand(c) \/ ExpandVolume(c) \/ WaitVolumeTargetStatus(c) => call[c].op = "expand"
    BY Zenon DEF GetForExpand, ExpandVolume, WaitVolumeTargetStatus, At
  <1>6. ListSnapshots(c) \/ CreateSnapshot(c) \/ WaitSnapshotReady(c) => call[c].op = "snapshot"
    BY Zenon DEF ListSnapshots, CreateSnapshot, WaitSnapshotReady, At
  <1>7. DeleteSnapshot(c) => call[c].op = "unsnapshot"
    BY Zenon DEF DeleteSnapshot, At
  <1>8. CASE CallFails(c)
    BY <1>8, Zenon DEF CallFails
  <1>9. CASE ~CallFails(c)
    BY <1>1, <1>2, <1>3, <1>4, <1>5, <1>6, <1>7, <1>9, Zenon DEF Handler, VolumeStep
  <1>10. QED
    BY <1>8, <1>9, Zenon

\* A handler ends its call, and may answer it, or goes on.
LEMMA HandlerFrame ==
  ASSUME BaseInv, NEW c \in Slots, Handler(c)
  PROVE  /\ CallsOnly(c) /\ gaveUp' = gaveUp /\ call[c].op # "none" /\ call[c].op \in OpsOf(c)
         /\ \/ call'[c].op = "none" /\ (UNCHANGED userVars \/ \E v : Answered(c, v))
            \/ Went(c)
PROOF
  <1>1. Outcome(c) /\ gaveUp' = gaveUp
    BY HandlerOutcome, Zenon
  <1>2. call[c].op # "none"
    BY HandlerOps, Zenon
  <1>3. call[c].op \in OpsOf(c)
    BY <1>2, Zenon DEF BaseInv, CallsInv, CallOK
  <1>4. CallsShape
    BY Zenon DEF BaseInv, Shapes
  <1>5. CASE Fail(c)
    BY <1>1, <1>2, <1>3, <1>4, <1>5, DoneForm, Zenon DEF Fail
  <1>6. CASE Went(c)
    BY <1>1, <1>2, <1>3, <1>6, Zenon DEF Went
  <1>7. ASSUME NEW v, Answer(c, v) PROVE CallsOnly(c) /\ call'[c].op = "none" /\ Answered(c, v)
    BY <1>2, <1>4, <1>7, AnswerCases, DoneForm, Zenon DEF Answer
  <1>8. QED
    BY <1>1, <1>2, <1>3, <1>5, <1>6, <1>7, Zenon DEF Outcome

\* Only CreateVolume makes a volume, and nothing is deleted that has snapshots.
LEMMA HandlerVolumes ==
  ASSUME BaseInv, NEW c \in Slots, Handler(c), NEW v \in Ids
  PROVE  /\ vol[v].st = "absent" /\ ~CreateVolume(c) => vol'[v].st = "absent"
         /\ vol'[v].st = "deleting" => vol[v].st = "deleting" \/ (NamedSnaps = {} /\ snap' = snap)
PROOF
  <1>1. running' = running
    BY Zenon DEF Handler
  <1>2. CASE vol' = vol
    BY <1>2, Zenon
  <1>3. CASE VolumeStep(c) /\ vol' # vol
    <2>1. snap' = snap
      BY <1>3, Zenon DEF VolumeStep
    <2>2. CreateVolume(c) \/ DeleteVolume(c) \/ AttachVolume(c) \/ DetachVolume(c) \/ ExpandVolume(c)
      BY <1>1, <1>3, ReadingOutcome, Zenon DEF VolumeStep
    <2>3. CASE CreateVolume(c)
      BY <1>1, <2>3, CreateVolumeDoes DEF Turns
    <2>4. CASE DeleteVolume(c)
      BY <1>1, <1>3, <2>1, <2>4, DeleteVolumeDoes DEF Turns, Found
    <2>5. CASE AttachVolume(c)
      BY <1>1, <1>3, <2>5, AttachVolumeDoes DEF Turns
    <2>6. CASE DetachVolume(c)
      BY <1>1, <1>3, <2>6, DetachVolumeDoes DEF Turns
    <2>7. CASE ExpandVolume(c)
      BY <1>1, <1>3, <2>7, ExpandVolumeDoes DEF Turns
    <2>8. QED
      BY <2>2, <2>3, <2>4, <2>5, <2>6, <2>7
  <1>4. CASE ~VolumeStep(c)
    BY <1>1, <1>2, <1>4, SnapshotOutcome, Zenon DEF Handler
  <1>5. QED
    BY <1>2, <1>3, <1>4, Zenon

\* What the handlers do to the snapshots.
LEMMA HandlerSnaps ==
  ASSUME BaseInv, NEW c \in Slots, Handler(c), NEW s \in Ids
  PROVE  \/ snap'[s] = snap[s]
         \/ CreateSnapshot(c) /\ snap[s] = "absent" /\ snap'[s] = "creating"
         \/ DeleteSnapshot(c) /\ s = call[c].vid /\ snap[s] \in {"available", "error"} /\ snap'[s] = "deleting"
PROOF
  <1>1. CASE snap' = snap
    BY <1>1, Zenon
  <1>2. CASE CreateSnapshot(c)
    BY <1>1, <1>2, CreateSnapshotDoes DEF SnapTurns
  <1>3. CASE DeleteSnapshot(c)
    BY <1>1, <1>3, DeleteSnapshotDoes DEF SnapTurns
  <1>4. CASE ~CreateSnapshot(c) /\ ~DeleteSnapshot(c)
    BY <1>1, <1>4, Zenon DEF Handler, VolumeStep, ListSnapshots, WaitSnapshotReady, CallFails, cloudVars
  <1>5. QED
    BY <1>2, <1>3, <1>4

\* A call that was not given up is the sidecar's whose call it is.
LEMMA OpOwner ==
  ASSUME BaseInv, NEW c \in Slots, call[c].op \notin gaveUp
  PROVE  /\ call[c].op \in {"create", "delete"} => c = "prov"
         /\ call[c].op \in {"publish", "unpublish"} => c = "att"
         /\ call[c].op = "expand" => c = "exp"
         /\ call[c].op \in {"snapshot", "unsnapshot"} => c = "snap"
PROOF
  <1>1. call[c].op \in OpsOf(c) \cup {"none"}
    BY Zenon DEF BaseInv, CallsInv, CallOK
  <1>2. QED
    BY <1>1 DEF OpsOf, Slots, Sidecars


-----------------------------------------------------------------------------
(* One volume per name *)

\* CreateVolume and CreateSnapshot have looked before they create, and what they
\* answered is the only one of its name.
OnceVolume ==
  "create" \notin gaveUp =>
    /\ \A v, w \in Named : v = w
    /\ At("prov", "create", "create") => Named = {}
    /\ handle # None => Named \subseteq {handle}
OnceSnapshot ==
  "snapshot" \notin gaveUp =>
    /\ \A s, t \in NamedSnaps : s = t
    /\ At("snap", "snapshot", "create") => NamedSnaps = {}
    /\ At("snap", "snapshot", "wait") => NamedSnaps \subseteq {call["snap"].vid}
    /\ content.sid # None => NamedSnaps \subseteq {content.sid}

\* Without a new volume the name has no more volumes than before.
LEMMA NamedShrinks ==
  ASSUME Drifts, \A v \in Ids : vol[v].st = "absent" => vol'[v].st = "absent"
  PROVE  Named' \subseteq Named
PROOF BY DEF Drifts, Drift, Named, Found

\* Every step keeps it: CreateVolume makes a volume only when there is none.
LEMMA OnceVolumeStep ==
  ASSUME BaseInv, OnceVolume, [Next]_vars
  PROVE  OnceVolume'
PROOF
  <1>1. Drifts
    BY BaseStep, Zenon
  <1>p. "prov" \in Slots /\ "prov" \in Sidecars
    BY Zenon DEF Slots, Sidecars
  <1>2. ASSUME Named' \subseteq Named, gaveUp \subseteq gaveUp', handle' = handle,
               At("prov", "create", "create")' => At("prov", "create", "create")
        PROVE  OnceVolume'
    BY <1>2, Zenon DEF OnceVolume
  <1>3. CASE Calm
    <2>1. Named' \subseteq Named
      BY <1>1, <1>3, NamedShrinks, Zenon DEF Calm
    <2>2. At("prov", "create", "create")' => At("prov", "create", "create")
      BY <1>3, <1>p, Zenon DEF Calm, At
    <2>3. QED
      BY <1>2, <1>3, <2>1, <2>2, Zenon DEF Calm
  <1>4. ASSUME NEW c \in Slots, Handler(c) PROVE OnceVolume'
    <2>1. /\ CallsOnly(c) /\ gaveUp' = gaveUp /\ call[c].op # "none" /\ call[c].op \in OpsOf(c)
          /\ \/ call'[c].op = "none" /\ (UNCHANGED userVars \/ \E v : Answered(c, v))
             \/ Went(c)
      BY <1>4, HandlerFrame, Zenon
    <2>r. running' = running
      BY <1>4, Zenon DEF Handler
    <2>2. CASE CreateVolume(c)
      <3>1. SUFFICES ASSUME "create" \notin gaveUp PROVE OnceVolume'
        BY <2>1, Zenon DEF OnceVolume
      <3>2. c = "prov" /\ At("prov", "create", "create")
        BY <2>2, <3>1, OpOwner, Zenon DEF CreateVolume, At
      <3>3. Named = {} /\ handle = None
        BY <3>1, <3>2, <1>p, Zenon DEF OnceVolume, BaseInv, CallsInv, CallOK, At
      <3>4. PICK v \in Ids : Turns(v, "creating") /\ (Answer(c, v) \/ Fail(c))
        BY <2>2, <2>r, CreateVolumeDoes, Zenon
      <3>5. Named' = {v}
        BY <3>3, <3>4, Zenon DEF Turns, Named, Found
      <3>6. handle' \in {v, None} /\ call'["prov"].op = "none"
        <4>1. CASE Answer(c, v)
          BY <3>2, <4>1, DoneForm, Zenon DEF Answer, BaseInv, Shapes, At
        <4>2. CASE Fail(c)
          BY <3>2, <3>3, <4>2, DoneForm, Zenon DEF Fail, BaseInv, Shapes, userVars
        <4>3. QED
          BY <3>4, <4>1, <4>2, Zenon
      <3>7. QED
        BY <3>5, <3>6, Zenon DEF OnceVolume, At
    <2>3. ASSUME ~CreateVolume(c) PROVE Named' \subseteq Named
      BY <1>1, <1>4, <2>3, HandlerVolumes, NamedShrinks, Zenon
    <2>4. CASE GetVolumesByName(c)
      <3>1. SUFFICES ASSUME "create" \notin gaveUp PROVE OnceVolume'
        BY <2>1 DEF OnceVolume
      <3>2. c = "prov" /\ At("prov", "create", "byName")
        BY <2>4, <3>1, OpOwner, Zenon DEF GetVolumesByName, At
      <3>3. Named' = Named
        BY <2>4, Zenon DEF GetVolumesByName, Named, Found
      <3>4. handle = None
        BY <3>2, <1>p, Zenon DEF BaseInv, CallsInv, CallOK, At
      <3>5. CASE Fail(c)
        BY <1>p, <3>1, <3>2, <3>3, <3>4, <3>5, DoneForm, Zenon DEF Fail, BaseInv, Shapes, userVars, OnceVolume, At
      <3>6. CASE Named = {} /\ Goto(c, "create")
        BY <3>3, <3>6, Zenon DEF OnceVolume
      <3>7. CASE \E v \in Named : Named = {v} /\ Answer(c, v)
        <4>1. PICK v \in Named : Named = {v} /\ Answer(c, v)
          BY <3>7, Zenon
        <4>2. handle' = v /\ call'["prov"].op = "none"
          BY <3>2, <4>1, DoneForm, Zenon DEF Answer, BaseInv, Shapes, At
        <4>3. QED
          BY <3>3, <4>1, <4>2, Zenon DEF OnceVolume, At
      <3>8. QED
        BY <2>4, <3>5, <3>6, <3>7, Zenon DEF GetVolumesByName
    <2>5. CASE ~CreateVolume(c) /\ ~GetVolumesByName(c)
      <3>1. call[c].op # "create" \/ Fail(c)
        BY <1>4, <2>5, HandlerOps, Zenon DEF CallFails
      <3>2. handle' = handle /\ call'[c].op # "create"
        <4>1. CASE Fail(c)
          BY <4>1, DoneForm, Zenon DEF Fail, BaseInv, Shapes, userVars
        <4>2. CASE call[c].op # "create"
          BY <2>1, <4>2, Zenon DEF Answered, AnswersDelete, AnswersPublish, AnswersUnpublish, AnswersExpand,
             AnswersSnapshot, AnswersUnsnapshot, Went, Follows, userVars
        <4>3. QED
          BY <3>1, <4>1, <4>2, Zenon
      <3>3. At("prov", "create", "create")' => At("prov", "create", "create")
        BY <1>p, <2>1, <3>2, Zenon DEF CallsOnly, At
      <3>4. QED
        BY <1>2, <2>1, <2>3, <2>5, <3>2, <3>3, Zenon
    <2>6. QED
      BY <2>2, <2>4, <2>5, Zenon
  <1>5. QED
    BY <1>3, <1>4, CalmStep, Zenon

-----------------------------------------------------------------------------
(* One snapshot per name *)

\* Every step keeps it: CreateSnapshot makes a snapshot only when there is none.
LEMMA OnceSnapshotStep ==
  ASSUME BaseInv, OnceSnapshot, [Next]_vars
  PROVE  OnceSnapshot'
PROOF
  <1>p. "snap" \in Slots /\ "snap" \in Sidecars
    BY Zenon DEF Slots, Sidecars
  <1>1. ASSUME NamedSnaps' \subseteq NamedSnaps, gaveUp \subseteq gaveUp', content'.sid = content.sid,
               At("snap", "snapshot", "create")' => At("snap", "snapshot", "create"),
               At("snap", "snapshot", "wait")' =>
                 At("snap", "snapshot", "wait") /\ call'["snap"].vid = call["snap"].vid
        PROVE  OnceSnapshot'
    BY <1>1, Zenon DEF OnceSnapshot
  <1>2. CASE Calm
    <2>1. NamedSnaps' \subseteq NamedSnaps
      BY <1>2, Zenon DEF Calm, NamedSnaps, FoundSnap
    <2>2. /\ At("snap", "snapshot", "create")' => At("snap", "snapshot", "create")
          /\ At("snap", "snapshot", "wait")' =>
               At("snap", "snapshot", "wait") /\ call'["snap"].vid = call["snap"].vid
      BY <1>2, <1>p, Zenon DEF Calm, At
    <2>3. QED
      BY <1>1, <1>2, <2>1, <2>2, Zenon DEF Calm
  <1>3. ASSUME NEW c \in Slots, Handler(c) PROVE OnceSnapshot'
    <2>1. /\ CallsOnly(c) /\ gaveUp' = gaveUp /\ call[c].op # "none" /\ call[c].op \in OpsOf(c)
          /\ \/ call'[c].op = "none" /\ (UNCHANGED userVars \/ \E v : Answered(c, v))
             \/ Went(c)
      BY <1>3, HandlerFrame, Zenon
    <2>f. CallsShape
      BY Zenon DEF BaseInv, Shapes
    <2>2. ASSUME call[c].op = "snapshot", "snapshot" \notin gaveUp
          PROVE  c = "snap" /\ content.sid = None
      BY <1>p, <2>2, OpOwner, Zenon DEF BaseInv, CallsInv, CallOK
    <2>3. ASSUME Fail(c) PROVE content' = content /\ call'[c].op = "none"
      BY <2>3, <2>f, DoneForm, Zenon DEF Fail, userVars
    <2>4. CASE CreateSnapshot(c)
      <3>1. SUFFICES ASSUME "snapshot" \notin gaveUp PROVE OnceSnapshot'
        BY <2>1, Zenon DEF OnceSnapshot
      <3>2. c = "snap" /\ At("snap", "snapshot", "create") /\ content.sid = None
        BY <2>2, <2>4, <3>1, Zenon DEF CreateSnapshot, At
      <3>3. NamedSnaps = {}
        BY <3>1, <3>2, Zenon DEF OnceSnapshot
      <3>4. CASE snap' = snap /\ Fail(c)
        BY <2>3, <3>2, <3>3, <3>4, Zenon DEF OnceSnapshot, At, NamedSnaps, FoundSnap
      <3>5. CASE \E s \in Ids : SnapTurns(s, "creating") /\ (WentOn(c, "wait", s) \/ Fail(c))
        <4>1. PICK s \in Ids : SnapTurns(s, "creating") /\ (WentOn(c, "wait", s) \/ Fail(c))
          BY <3>5, Zenon
        <4>2. NamedSnaps' = {s}
          BY <3>3, <4>1, Zenon DEF SnapTurns, NamedSnaps, FoundSnap
        <4>3. CASE WentOn(c, "wait", s)
          BY <3>2, <4>2, <4>3, Zenon DEF WentOn, userVars, OnceSnapshot, At
        <4>4. CASE Fail(c)
          BY <2>3, <3>2, <4>2, <4>4, Zenon DEF OnceSnapshot, At
        <4>5. QED
          BY <4>1, <4>3, <4>4, Zenon
      <3>6. QED
        BY <2>4, <3>4, <3>5, CreateSnapshotDoes, Zenon
    <2>5. ASSUME ~CreateSnapshot(c) PROVE NamedSnaps' \subseteq NamedSnaps
      BY <1>3, <2>5, HandlerSnaps, Zenon DEF NamedSnaps, FoundSnap
    <2>6. CASE ListSnapshots(c)
      <3>1. SUFFICES ASSUME "snapshot" \notin gaveUp PROVE OnceSnapshot'
        BY <2>1 DEF OnceSnapshot
      <3>2. c = "snap" /\ content.sid = None
        BY <2>2, <2>6, <3>1, Zenon DEF ListSnapshots, At
      <3>3. NamedSnaps' = NamedSnaps
        BY <2>6, ListSnapshotsDoes, Zenon DEF NamedSnaps, FoundSnap
      <3>4. CASE Fail(c)
        BY <2>3, <3>1, <3>2, <3>3, <3>4, Zenon DEF OnceSnapshot, At
      <3>5. CASE NamedSnaps = {} /\ WentOn(c, "create", call[c].vid)
        BY <3>2, <3>3, <3>5, Zenon DEF OnceSnapshot, At, WentOn, userVars
      <3>6. CASE \E s \in NamedSnaps : NamedSnaps = {s} /\ WentOn(c, "wait", s)
        BY <3>2, <3>3, <3>6, Zenon DEF OnceSnapshot, At, WentOn, userVars
      <3>7. QED
        BY <2>6, <3>4, <3>5, <3>6, ListSnapshotsDoes, Zenon
    <2>7. CASE WaitSnapshotReady(c)
      <3>1. SUFFICES ASSUME "snapshot" \notin gaveUp PROVE OnceSnapshot'
        BY <2>1 DEF OnceSnapshot
      <3>2. c = "snap" /\ content.sid = None /\ At("snap", "snapshot", "wait")
        BY <2>2, <2>7, <3>1, Zenon DEF WaitSnapshotReady, At
      <3>3. NamedSnaps' = NamedSnaps /\ NamedSnaps \subseteq {call[c].vid}
        BY <2>7, <3>1, <3>2, WaitSnapshotReadyDoes, Zenon DEF NamedSnaps, FoundSnap, OnceSnapshot
      <3>4. CASE Fail(c)
        BY <2>3, <3>1, <3>2, <3>3, <3>4, Zenon DEF OnceSnapshot, At
      <3>5. CASE Answer(c, call[c].vid)
        <4>1. Answered(c, call[c].vid) /\ call'[c].op = "none"
          BY <2>1, <2>f, <3>5, AnswerCases, DoneForm, Zenon DEF Answer
        <4>2. content'.sid = call[c].vid
          BY <3>2, <4>1 DEF Answered, AnswersSnapshot, At
        <4>3. QED
          BY <3>2, <3>3, <4>1, <4>2, Zenon DEF OnceSnapshot, At
      <3>6. QED
        BY <2>7, <3>4, <3>5, WaitSnapshotReadyDoes, Zenon
    <2>8. CASE ~CreateSnapshot(c) /\ ~ListSnapshots(c) /\ ~WaitSnapshotReady(c)
      <3>1. call[c].op # "snapshot" \/ Fail(c)
        BY <1>3, <2>8, HandlerOps, Zenon DEF CallFails
      <3>2. content'.sid = content.sid /\ call'[c].op # "snapshot"
        <4>1. CASE Fail(c)
          BY <2>3, <4>1, Zenon
        <4>2. CASE call[c].op # "snapshot"
          BY <2>1, <4>2 DEF Answered, AnswersCreate, AnswersDelete, AnswersPublish, AnswersUnpublish,
             AnswersExpand, AnswersUnsnapshot, Went, Follows, userVars
        <4>3. QED
          BY <3>1, <4>1, <4>2, Zenon
      <3>3. /\ At("snap", "snapshot", "create")' => At("snap", "snapshot", "create")
            /\ At("snap", "snapshot", "wait")' =>
                 At("snap", "snapshot", "wait") /\ call'["snap"].vid = call["snap"].vid
        BY <1>p, <2>1, <3>2, Zenon DEF CallsOnly, At
      <3>4. QED
        BY <1>1, <2>1, <2>5, <2>8, <3>2, <3>3, Zenon
    <2>9. QED
      BY <2>4, <2>6, <2>7, <2>8, Zenon
  <1>4. QED
    BY <1>2, <1>3, CalmStep, Zenon

\* CreateVolume and CreateSnapshot make one volume and one snapshot of a name, however
\* often they are repeated, unless one is given up.
THEOREM OneVolumePerName == Spec => []OnePerName
PROOF
  <1> DEFINE Inv == BaseInv /\ OnceVolume /\ OnceSnapshot
  <1>1. Init => Inv
    <2>1. Init => Named = {} /\ NamedSnaps = {}
      BY AbsentFields, Zenon DEF Init, Named, NamedSnaps, Found, FoundSnap
    <2>2. QED
      BY <2>1, BaseInit, Zenon DEF OnceVolume, OnceSnapshot
  <1>2. Inv /\ [Next]_vars => Inv'
    BY BaseStep, OnceVolumeStep, OnceSnapshotStep, Zenon
  <1>3. Inv => OnePerName
    BY Zenon DEF OnceVolume, OnceSnapshot, OnePerName
  <1>4. QED
    BY <1>1, <1>2, <1>3, PTL DEF Spec

-----------------------------------------------------------------------------
(* What is deleted is gone *)

\* What was answered to be deleted is on its way out.
GoneInv ==
  /\ pvc = "gone" /\ handle # None => ~Found(handle) \/ vol[handle].st = "deleting"
  /\ content.sid # None => snap[content.sid] # "absent"
  /\ content.st = "gone" /\ content.sid # None => ~FoundSnap(content.sid) \/ snap[content.sid] = "deleting"

\* The id of the volume is answered once.
LEMMA HandleFixed ==
  ASSUME BaseInv, NEW c \in Slots, Handler(c)
  PROVE  \/ handle' = handle
         \/ /\ handle = None /\ c = "prov" /\ call[c].op = "create" /\ pvc \in {"wanted", "released"}
            /\ pvc' # "gone" /\ UNCHANGED <<grown, va, content>>
PROOF
  <1>1. CallOK(c, call[c])
    BY Zenon DEF BaseInv, CallsInv
  <1>2. UNCHANGED userVars \/ \E v : Answered(c, v)
    BY HandlerFrame, Zenon DEF Went
  <1>3. QED
    BY <1>1, <1>2, Zenon DEF CallOK, userVars, Answered, AnswersCreate, AnswersDelete, AnswersPublish,
       AnswersUnpublish, AnswersExpand, AnswersSnapshot, AnswersUnsnapshot

\* A call about the volume.
LEMMA VolumeCallFacts ==
  ASSUME BaseInv, NEW c \in Slots, call[c].op \in {"delete", "publish", "unpublish", "expand"}
  PROVE  call[c].vid = handle /\ handle \in Ids
PROOF BY DEF BaseInv, CallsInv, CallOK, UserInv

\* After the answer of DeleteVolume the volume is on its way out.
LEMMA DeleteAnswered ==
  ASSUME BaseInv, NEW c \in Slots, Handler(c), call[c].op = "delete", ~UNCHANGED userVars
  PROVE  vol'[handle].st \in {"absent", "deleted", "deleting"}
PROOF
  <1>1. call[c].vid = handle /\ handle \in Ids
    BY VolumeCallFacts, Zenon
  <1>2. running' = running
    BY Zenon DEF Handler
  <1>3. ~Fail(c) /\ \A p : ~Goto(c, p)
    BY Zenon DEF Fail, Goto
  <1>4. CASE DiskIsUsed(c)
    BY <1>1, <1>3, <1>4, Zenon DEF DiskIsUsed, Found
  <1>5. CASE DeleteVolume(c)
    <2>1. CASE vol' = vol
      <3>1. ~Found(handle) \/ (Found(handle) /\ vol' = [vol EXCEPT ![handle].st = "deleting"])
        BY <1>1, <1>3, <1>5, Zenon DEF DeleteVolume
      <3>2. CASE ~Found(handle)
        BY <1>1, <2>1, <3>2, Zenon DEF Found
      <3>3. CASE Found(handle) /\ vol' = [vol EXCEPT ![handle].st = "deleting"]
        BY <1>1, <3>3 DEF BaseInv, Shapes, VolumesShape, IsVolume
      <3>4. QED
        BY <3>1, <3>2, <3>3, Zenon
    <2>2. CASE vol' # vol
      BY <1>1, <1>2, <1>5, <2>2, DeleteVolumeDoes, Zenon DEF Turns
    <2>3. QED
      BY <2>1, <2>2, Zenon
  <1>6. QED
    BY <1>3, <1>4, <1>5, HandlerOps, Zenon DEF CallFails

\* After the answer of DeleteSnapshot the snapshot is.
LEMMA UnsnapshotAnswered ==
  ASSUME BaseInv, NEW c \in Slots, Handler(c), call[c].op = "unsnapshot", ~UNCHANGED userVars
  PROVE  snap'[content.sid] \in {"absent", "deleted", "deleting"}
PROOF
  <1>1. call[c].vid = content.sid /\ content.sid \in Ids
    BY UnsnapshotFacts, Zenon
  <1>2. ~Fail(c)
    BY Zenon DEF Fail
  <1>3. DeleteSnapshot(c)
    BY <1>2, HandlerOps, Zenon DEF CallFails
  <1>4. CASE snap' = [snap EXCEPT ![content.sid] = "deleting"]
    BY <1>1, <1>4, Zenon DEF BaseInv, Shapes
  <1>5. CASE ~FoundSnap(content.sid) /\ snap' = snap
    BY <1>1, <1>5, Zenon DEF FoundSnap
  <1>6. QED
    BY <1>1, <1>2, <1>3, <1>4, <1>5, Zenon DEF DeleteSnapshot

\* Every step keeps it: what is being deleted never comes back.
LEMMA GoneStep ==
  ASSUME BaseInv, GoneInv, [Next]_vars
  PROVE  GoneInv'
PROOF
  <1>1. Drifts
    BY BaseStep, Zenon
  <1>2. handle \in Ids \cup {None} /\ content.sid \in Ids \cup {None}
    BY Zenon DEF BaseInv, UserInv
  <1>3. ASSUME handle' = handle, handle # None, pvc = "gone"
        PROVE  vol'[handle].st \in {"deleted", "deleting"}
    BY <1>1, <1>2, <1>3, Zenon DEF GoneInv, BaseInv, UserInv, Drifts, Drift, Found
  <1>4. CASE Calm
    <2>1. pvc' = "gone" /\ handle' # None => ~Found(handle)' \/ vol'[handle'].st = "deleting"
      BY <1>3, <1>4, Zenon DEF Calm, Found
    <2>2. /\ content'.sid # None => snap'[content'.sid] # "absent"
          /\ content'.st = "gone" /\ content'.sid # None =>
               ~FoundSnap(content.sid)' \/ snap'[content'.sid] = "deleting"
      BY <1>2, <1>4, Zenon DEF Calm, GoneInv, FoundSnap
    <2>3. QED
      BY <2>1, <2>2, Zenon DEF GoneInv
  <1>5. ASSUME NEW c \in Slots, Handler(c) PROVE GoneInv'
    <2>1. CallOK(c, call[c])
      BY Zenon DEF BaseInv, CallsInv
    <2>2. UNCHANGED userVars \/ \E v : Answered(c, v)
      BY <1>5, HandlerFrame, Zenon DEF Went
    <2>3. pvc' = "gone" /\ handle' # None => ~Found(handle)' \/ vol'[handle'].st = "deleting"
      <3>1. SUFFICES ASSUME pvc' = "gone", handle' # None
                     PROVE  vol'[handle'].st \in {"absent", "deleted", "deleting"}
        BY Zenon DEF Found
      <3>2. handle' = handle
        BY <1>5, <3>1, HandleFixed, Zenon
      <3>3. CASE pvc = "gone"
        BY <1>3, <3>1, <3>2, <3>3, Zenon
      <3>4. CASE pvc # "gone"
        <4>1. call[c].op = "delete" /\ ~UNCHANGED userVars
          BY <2>2, <3>1, <3>4, Zenon DEF userVars, Answered, AnswersCreate, AnswersDelete, AnswersPublish,
             AnswersUnpublish, AnswersExpand, AnswersSnapshot, AnswersUnsnapshot
        <4>2. QED
          BY <1>5, <3>2, <4>1, DeleteAnswered, Zenon
      <3>5. QED
        BY <3>3, <3>4, Zenon
    <2>4. CASE content' = content
      <3>1. content.sid # None => snap'[content.sid] # "absent"
        BY <1>2, <1>5, HandlerSnaps, Zenon DEF GoneInv
      <3>2. content.st = "gone" /\ content.sid # None =>
              ~FoundSnap(content.sid)' \/ snap'[content.sid] = "deleting"
        BY <1>2, <1>5, <2>4, HandlerSnaps, Zenon DEF GoneInv, FoundSnap
      <3>3. QED
        BY <2>3, <2>4, <3>1, <3>2, Zenon DEF GoneInv
    <2>5. CASE content' # content /\ call[c].op = "snapshot"
      <3>1. c = "snap" /\ \E v : AnswersSnapshot(v)
        BY <2>2, <2>5, Zenon DEF userVars, Answered
      <3>2. ~Fail(c) /\ \A p, v : ~WentOn(c, p, v)
        BY <2>5, Zenon DEF Fail, WentOn, userVars
      <3>3. WaitSnapshotReady(c)
        BY <1>5, <2>5, <3>2, HandlerOps, ListSnapshotsDoes, CreateSnapshotDoes, Zenon DEF CallFails
      <3>4. snap' = snap /\ call[c].vid \in Ids /\ snap[call[c].vid] = "available" /\ Answer(c, call[c].vid)
        BY <3>2, <3>3, WaitSnapshotReadyDoes, Zenon
      <3>5. content'.sid = call[c].vid
        <4>1. Answered(c, call[c].vid)
          BY <2>5, <3>4, AnswerCases, Zenon
        <4>2. QED
          BY <2>5, <3>1, <4>1 DEF Answered, AnswersSnapshot
      <3>6. content'.st # "gone"
        BY <2>1, <2>5, <3>1 DEF CallOK, AnswersSnapshot
      <3>7. QED
        BY <2>3, <3>4, <3>5, <3>6, Zenon DEF GoneInv
    <2>6. CASE content' # content /\ call[c].op # "snapshot"
      <3>1. call[c].op = "unsnapshot" /\ AnswersUnsnapshot
        BY <2>2, <2>6, Zenon DEF userVars, Answered, AnswersCreate, AnswersDelete, AnswersPublish,
             AnswersUnpublish, AnswersExpand
      <3>2. ~UNCHANGED userVars
        BY <2>6, Zenon DEF userVars
      <3>3. snap'[content.sid] \in {"absent", "deleted", "deleting"} /\ content'.sid = content.sid
        BY <1>5, <3>1, <3>2, UnsnapshotAnswered, Zenon DEF AnswersUnsnapshot
      <3>4. content.sid # None => snap'[content.sid] # "absent"
        BY <1>2, <1>5, HandlerSnaps DEF GoneInv
      <3>5. QED
        BY <2>3, <3>3, <3>4, Zenon DEF GoneInv, FoundSnap
    <2>7. QED
      BY <2>4, <2>5, <2>6, Zenon
  <1>6. QED
    BY <1>4, <1>5, CalmStep, Zenon

\* After DeleteVolume nothing is left of the volume, nor of the snapshot after
\* DeleteSnapshot, unless CreateVolume or CreateSnapshot was given up.
THEOREM DeletedStaysDeleted == Spec => []DeletedIsGone
PROOF
  <1> DEFINE Inv == BaseInv /\ OnceVolume /\ OnceSnapshot /\ GoneInv
  <1>1. Init => Inv
    <2>1. Init => Named = {} /\ NamedSnaps = {}
      BY AbsentFields DEF Init, Named, NamedSnaps, Found, FoundSnap
    <2>2. QED
      BY <2>1, BaseInit DEF OnceVolume, OnceSnapshot, GoneInv, Init, NoContent
  <1>2. Inv /\ [Next]_vars => Inv'
    BY BaseStep, OnceVolumeStep, OnceSnapshotStep, GoneStep, Zenon
  <1>3. Inv => DeletedIsGone
    BY Zenon DEF OnceVolume, OnceSnapshot, GoneInv, DeletedIsGone, Named, NamedSnaps
  <1>4. QED
    BY <1>1, <1>2, <1>3, PTL DEF Spec

-----------------------------------------------------------------------------
(* A ready snapshot can be restored from *)

\* Snapshots keep the volume.
KeptInv ==
  /\ NamedSnaps # {} => Found(handle) /\ vol[handle].st # "deleting"
  /\ content.st = "ready" => content.sid # None /\ snap[content.sid] = "available"

\* When a handler changes the content, it is of CreateSnapshot and the snapshot is
\* available, or of DeleteSnapshot.
LEMMA ContentChanged ==
  ASSUME BaseInv, NEW c \in Slots, Handler(c), content' # content
  PROVE  \/ call[c].op = "unsnapshot" /\ content'.st = "gone"
         \/ /\ WaitSnapshotReady(c) /\ snap' = snap
            /\ content'.sid \in Ids /\ snap[content'.sid] = "available"
PROOF
  <1>1. UNCHANGED userVars \/ \E v : Answered(c, v)
    BY HandlerFrame, Zenon DEF Went
  <1>2. CASE call[c].op # "snapshot"
    BY <1>1, <1>2 DEF userVars, Answered, AnswersCreate, AnswersDelete, AnswersPublish,
       AnswersUnpublish, AnswersExpand, AnswersUnsnapshot
  <1>3. CASE call[c].op = "snapshot"
    <2>1. c = "snap"
      BY <1>1, <1>3, Zenon DEF userVars, Answered
    <2>2. ~Fail(c) /\ \A p, v : ~WentOn(c, p, v)
      BY Zenon DEF Fail, WentOn, userVars
    <2>3. WaitSnapshotReady(c)
      BY <1>3, <2>2, HandlerOps, ListSnapshotsDoes, CreateSnapshotDoes, Zenon DEF CallFails
    <2>4. snap' = snap /\ call[c].vid \in Ids /\ snap[call[c].vid] = "available" /\ Answer(c, call[c].vid)
      BY <2>2, <2>3, WaitSnapshotReadyDoes, Zenon
    <2>5. Answered(c, call[c].vid)
      BY <1>3, <2>4, AnswerCases, Zenon
    <2>6. content'.sid = call[c].vid
      BY <1>3, <2>1, <2>5 DEF Answered, AnswersSnapshot
    <2>7. QED
      BY <2>3, <2>4, <2>6, Zenon
  <1>4. QED
    BY <1>2, <1>3, Zenon

\* Every step keeps it: Cinder deletes no volume that has snapshots.
LEMMA KeptStep ==
  ASSUME BaseInv, KeptInv, [Next]_vars
  PROVE  KeptInv'
PROOF
  <1>1. Drifts
    BY BaseStep, Zenon
  <1>2. handle \in Ids \cup {None} /\ content.sid \in Ids \cup {None}
    BY Zenon DEF BaseInv, UserInv
  <1>3. ASSUME NamedSnaps # {}, handle' = handle, vol'[handle].st = "deleting" => vol[handle].st = "deleting"
        PROVE  Found(handle)' /\ vol'[handle'].st # "deleting"
    BY <1>1, <1>3, Zenon DEF KeptInv, Found, Drifts, Drift
  <1>4. CASE Calm
    <2>1. NamedSnaps' \subseteq NamedSnaps
      BY <1>4 DEF Calm, NamedSnaps, FoundSnap
    <2>2. NamedSnaps' # {} => Found(handle)' /\ vol'[handle'].st # "deleting"
      <3>1. SUFFICES ASSUME NamedSnaps # {} PROVE Found(handle)' /\ vol'[handle'].st # "deleting"
        BY <2>1, Zenon
      <3>2. handle \in Ids
        BY <3>1, Zenon DEF KeptInv, Found
      <3>3. QED
        BY <1>3, <1>4, <3>1, <3>2, Zenon DEF Calm
    <2>3. content'.st = "ready" => content'.sid # None /\ snap'[content'.sid] = "available"
      BY <1>2, <1>4 DEF Calm, KeptInv
    <2>4. QED
      BY <2>2, <2>3, Zenon DEF KeptInv
  <1>5. ASSUME NEW c \in Slots, Handler(c) PROVE KeptInv'
    <2>1. NamedSnaps' # {} => Found(handle)' /\ vol'[handle'].st # "deleting"
      <3>1. ASSUME NamedSnaps # {} PROVE Found(handle)' /\ vol'[handle'].st # "deleting"
        <4>1. handle \in Ids /\ handle # None
          BY <3>1, Constants, Zenon DEF KeptInv, Found
        <4>2. handle' = handle
          BY <1>5, <4>1, HandleFixed, Zenon
        <4>3. QED
          BY <1>3, <1>5, <3>1, <4>1, <4>2, HandlerVolumes, Zenon
      <3>2. ASSUME NamedSnaps = {}, NamedSnaps' # {}
            PROVE  Found(handle)' /\ vol'[handle'].st # "deleting"
        <4>1. CreateSnapshot(c) /\ snap' # snap
          BY <1>5, <3>2, HandlerSnaps, Zenon DEF NamedSnaps, FoundSnap
        <4>2. /\ vol' = vol /\ Found(call[c].vid) /\ vol[call[c].vid].st \in {"available", "in-use"}
              /\ UNCHANGED userVars
          BY <4>1, CreateSnapshotDoes, Zenon DEF WentOn, Fail
        <4>3. call[c].vid = handle
          BY <4>1, Zenon DEF CreateSnapshot, At, BaseInv, CallsInv, CallOK
        <4>4. QED
          BY <4>2, <4>3, Zenon DEF userVars, Found
      <3>3. QED
        BY <3>1, <3>2, Zenon
    <2>2. content'.st = "ready" => content'.sid # None /\ snap'[content'.sid] = "available"
      <3>1. CASE content' # content
        BY <1>5, <3>1, ContentChanged, Constants, Zenon
      <3>2. CASE content' = content
        <4>1. SUFFICES ASSUME content.st = "ready" PROVE content.sid # None /\ snap'[content.sid] = "available"
          BY <3>2, Zenon
        <4>2. content.sid # None /\ snap[content.sid] = "available" /\ content.sid \in Ids
          BY <1>2, <4>1, Zenon DEF KeptInv
        <4>3. ~DeleteSnapshot(c)
          BY <4>1, UnsnapshotFacts, Zenon DEF DeleteSnapshot, At
        <4>4. QED
          BY <1>5, <4>2, <4>3, HandlerSnaps, Zenon
      <3>3. QED
        BY <3>1, <3>2, Zenon
    <2>3. QED
      BY <2>1, <2>2, Zenon DEF KeptInv
  <1>6. QED
    BY <1>4, <1>5, CalmStep, Zenon

\* A snapshot that CreateSnapshot calls ready is available and its volume is kept.
THEOREM ReadyStaysRestorable == Spec => []ReadyIsRestorable
PROOF
  <1> DEFINE Inv == BaseInv /\ KeptInv
  <1>1. Init => Inv
    <2>1. Init => NamedSnaps = {}
      BY Zenon DEF Init, NamedSnaps, FoundSnap
    <2>2. QED
      BY <2>1, BaseInit DEF KeptInv, Init, NoContent
  <1>2. Inv /\ [Next]_vars => Inv'
    BY BaseStep, KeptStep, Zenon
  <1>3. Inv => ReadyIsRestorable
    <2>1. SUFFICES ASSUME BaseInv, KeptInv, content.st = "ready" PROVE ReadyIsRestorable
      BY Zenon DEF ReadyIsRestorable
    <2>2. content.sid \in NamedSnaps
      BY <2>1, Zenon DEF BaseInv, UserInv, KeptInv, NamedSnaps, FoundSnap
    <2>3. QED
      BY <2>1, <2>2, Zenon DEF KeptInv, ReadyIsRestorable
  <1>4. QED
    BY <1>1, <1>2, <1>3, PTL DEF Spec

-----------------------------------------------------------------------------
(* An expanded volume is large *)

\* The extension that the resizer waits for has been made, has failed, or is under way.
SizeInv ==
  /\ Found(handle) => vol[handle].size >= grown
  /\ At("exp", "expand", "wait") /\ Found(handle) =>
       vol[handle].st \in {"extending", "error", "deleting"} \/ vol[handle].size >= call["exp"].size

\* When the resizer is told a size, the volume has it.
LEMMA ExpandAnswered ==
  ASSUME BaseInv, SizeInv, NEW c \in Slots, Handler(c), grown' # grown, Found(handle)'
  PROVE  handle' = handle /\ vol'[handle].size >= grown'
PROOF
  <1>1. UNCHANGED userVars \/ \E v : Answered(c, v)
    BY HandlerFrame, Zenon DEF Went
  <1>2. c = "exp" /\ call[c].op = "expand" /\ AnswersExpand(call[c].size)
    BY <1>1, Zenon DEF userVars, Answered, AnswersCreate, AnswersDelete, AnswersPublish,
       AnswersUnpublish, AnswersSnapshot, AnswersUnsnapshot
  <1>3. ~Fail(c) /\ \A p : ~Goto(c, p)
    BY Zenon DEF Fail, Goto, userVars
  <1>4. ~UNCHANGED userVars
    BY Zenon DEF userVars
  <1>5. call[c].vid = handle /\ handle \in Ids /\ handle' = handle
    BY <1>2, VolumeCallFacts, Zenon DEF AnswersExpand
  <1>6. CASE GetForExpand(c)
    BY <1>2, <1>3, <1>4, <1>5, <1>6, Zenon DEF GetForExpand, AnswersExpand
  <1>7. CASE ExpandVolume(c)
    BY <1>3, <1>7, Zenon DEF ExpandVolume, Write
  <1>8. CASE WaitVolumeTargetStatus(c)
    <2>1. Found(handle) /\ vol[handle].st \in {"available", "in-use"} /\ vol' = vol
      BY <1>3, <1>5, <1>8, Zenon DEF WaitVolumeTargetStatus
    <2>2. At("exp", "expand", "wait")
      BY <1>2, <1>8, Zenon DEF WaitVolumeTargetStatus
    <2>3. vol[handle].size >= call["exp"].size
      BY <2>1, <2>2, Zenon DEF SizeInv
    <2>4. QED
      BY <1>2, <1>5, <2>1, <2>3, Zenon DEF AnswersExpand
  <1>9. QED
    BY <1>2, <1>3, <1>6, <1>7, <1>8, HandlerOps, Zenon DEF CallFails

\* Every step keeps it: volumes never shrink.
LEMMA SizeStep ==
  ASSUME BaseInv, SizeInv, [Next]_vars
  PROVE  SizeInv'
PROOF
  <1>p. "exp" \in Slots /\ "exp" \in Sidecars
    BY Zenon DEF Slots, Sidecars
  <1>1. Drifts /\ BaseInv'
    BY BaseStep, Zenon
  <1>2. ASSUME handle' = handle, Found(handle)'
        PROVE  /\ Found(handle) /\ vol[handle].size \in Nat /\ vol'[handle].size \in Nat
               /\ vol'[handle].size >= vol[handle].size /\ Drift(vol[handle], vol'[handle])
    <2>1. handle \in Ids /\ vol'[handle].st \notin {"absent", "deleted"}
      BY <1>2, Zenon DEF Found
    <2>2. Drift(vol[handle], vol'[handle])
      BY <1>1, <2>1, Zenon DEF Drifts
    <2>3. VolumeOK(vol[handle], running) /\ VolumeOK(vol'[handle], running')
      BY <1>1, <2>1, Zenon DEF BaseInv, VolumesInv
    <2>4. handle # None /\ vol[handle].st # "absent"
      BY <2>1, Constants, Zenon DEF BaseInv, UserInv
    <2>5. QED
      BY <2>1, <2>2, <2>3, <2>4, Constants DEF Drift, VolumeOK, Found
  <1>3. ASSUME handle' = handle, grown' = grown, Found(handle)'
        PROVE  vol'[handle'].size >= grown'
    <2>1. vol[handle].size >= grown /\ grown \in Nat
      BY <1>2, <1>3, Zenon DEF SizeInv, BaseInv, UserInv
    <2>2. QED
      BY <1>2, <1>3, <2>1
  <1>4. ASSUME handle' = handle, call'["exp"] = call["exp"], At("exp", "expand", "wait")', Found(handle)'
        PROVE  \/ vol'[handle'].st \in {"extending", "error", "deleting"}
               \/ vol'[handle'].size >= call'["exp"].size
    <2>1. At("exp", "expand", "wait")
      BY <1>4, Zenon DEF At
    <2>2. call["exp"].size \in Nat /\ call["exp"].size <= MaxSize
      BY <1>p, <2>1 DEF At, BaseInv, CallsInv, CallOK
    <2>3. vol[handle].st \in {"extending", "error", "deleting"} \/ vol[handle].size >= call["exp"].size
      BY <1>2, <1>4, <2>1, Zenon DEF SizeInv
    <2>4. QED
      BY <1>2, <1>4, <2>2, <2>3, Constants DEF Drift, Found
  <1>5. CASE Calm
    <2>1. At("exp", "expand", "wait")' => call'["exp"] = call["exp"]
      BY <1>5, <1>p, Zenon DEF Calm, At
    <2>2. handle' = handle /\ grown' = grown
      BY <1>5, Zenon DEF Calm
    <2>3. QED
      BY <1>3, <1>4, <2>1, <2>2, Zenon DEF SizeInv
  <1>6. ASSUME NEW c \in Slots, Handler(c) PROVE SizeInv'
    <2>1. Found(handle)' => vol'[handle'].size >= grown'
      <3>1. CASE grown' # grown
        BY <1>6, <3>1, ExpandAnswered, Zenon
      <3>2. CASE grown' = grown /\ handle' = handle
        BY <1>3, <3>2
      <3>3. CASE grown' = grown /\ handle' # handle
        <4>1. grown' = 1
          BY <1>6, <3>3, HandleFixed DEF BaseInv, UserInv
        <4>2. Found(handle)' => vol'[handle'].size >= 1
          BY <1>1 DEF BaseInv, VolumesInv, VolumeOK, Found
        <4>3. QED
          BY <4>1, <4>2
      <3>4. QED
        BY <3>1, <3>2, <3>3, Zenon
    <2>2. ASSUME At("exp", "expand", "wait")', Found(handle)'
          PROVE  \/ vol'[handle'].st \in {"extending", "error", "deleting"}
                 \/ vol'[handle'].size >= call'["exp"].size
      <3>1. CASE c # "exp"
        <4>1. call'["exp"] = call["exp"]
          BY <1>6, <1>p, <3>1, HandlerFrame, Zenon DEF CallsOnly
        <4>2. call["exp"].op = "expand"
          BY <2>2, <4>1, Zenon DEF At
        <4>3. handle # None
          BY <1>p, <4>2, VolumeCallFacts, Constants, Zenon
        <4>4. handle' = handle
          BY <1>6, <4>3, HandleFixed, Zenon
        <4>5. QED
          BY <1>4, <2>2, <4>1, <4>4, Zenon
      <3>2. CASE c = "exp"
        <4>1. call'[c].op # "none" /\ call'[c].op = "expand" /\ call'[c].pc = "wait"
          BY <2>2, <3>2, Zenon DEF At
        <4>2. Went(c) /\ call[c].op = "expand"
          BY <1>6, <4>1, HandlerFrame DEF Went, Follows
        <4>3. /\ call[c].vid = handle /\ handle \in Ids /\ handle' = handle
              /\ CallsShape /\ running' = running
          BY <1>6, <4>2, VolumeCallFacts DEF Went, userVars, BaseInv, Shapes, Handler
        <4>4. ~Done(c)
          BY <4>1, <4>3, DoneForm, Zenon
        <4>5. ~GetForExpand(c)
          <5>1. SUFFICES ASSUME GetForExpand(c) PROVE FALSE
            BY Zenon
          <5>2. call' = [call EXCEPT ![c].pc = "extend", ![c].seen = vol[call[c].vid].st] /\ UNCHANGED userVars
            BY <4>4, <5>1, Zenon DEF GetForExpand, Fail, Answer
          <5>3. call'[c].pc = "extend"
            BY <4>3, <5>2, GotoExtendForm, Zenon DEF WentOn
          <5>4. QED
            BY <4>1, <5>3, Zenon
        <4>6. ~WaitVolumeTargetStatus(c) /\ ~CallFails(c)
          BY <4>4, Zenon DEF WaitVolumeTargetStatus, CallFails, Fail, Answer
        <4>7. ExpandVolume(c)
          BY <1>6, <4>2, <4>5, <4>6, HandlerOps, Zenon
        <4>8. vol'[handle].st = "extending"
          <5>1. vol' = [vol EXCEPT ![handle] = [vol[handle] EXCEPT !.st = "extending"]]
            BY <4>3, <4>4, <4>7, Zenon DEF ExpandVolume, Write, Fail
          <5>2. QED
            BY <4>3, <5>1 DEF BaseInv, Shapes, VolumesShape, IsVolume
        <4>9. QED
          BY <4>3, <4>7, <4>8, ExpandVolumeDoes, Zenon DEF Turns
      <3>3. QED
        BY <3>1, <3>2
    <2>3. QED
      BY <2>1, <2>2, Zenon DEF SizeInv
  <1>7. QED
    BY <1>5, <1>6, CalmStep, Zenon

\* After ControllerExpandVolume the volume has the size that was asked for, whatever
\* other handlers do.
THEOREM ExpandedStaysLarge == Spec => []ExpandedIsLarge
PROOF
  <1> DEFINE Inv == BaseInv /\ SizeInv
  <1>1. Init => Inv
    <2>1. Init => ~Found(handle)
      BY AbsentFields, Constants DEF Init, Found
    <2>2. QED
      BY <2>1, BaseInit, Zenon DEF SizeInv
  <1>2. Inv /\ [Next]_vars => Inv'
    BY BaseStep, SizeStep, Zenon
  <1>3. Inv => ExpandedIsLarge
    BY Zenon DEF SizeInv, ExpandedIsLarge
  <1>4. QED
    BY <1>1, <1>2, <1>3, PTL DEF Spec

-----------------------------------------------------------------------------
(* A volume is attached as it was published *)

\* Without a late ControllerUnpublishVolume only a detachment that is wanted is under
\* way; without a late ControllerPublishVolume only the wanted attachment is.
AttachInv ==
  /\ "unpublish" \notin gaveUp =>
       /\ \A v \in Ids : vol[v].st = "detaching" => v = handle /\ va.st = "detaching" /\ vol[v].at = va.inst
       /\ va.st = "attached" /\ va.inst \in running => Found(handle) /\ vol[handle].at = va.inst
  /\ "publish" \notin gaveUp =>
       /\ \A v \in Ids : vol[v].at # None \/ vol[v].to # None =>
            v = handle /\ va # NoVA /\ {vol[v].at, vol[v].to} \subseteq {None, va.inst}
       /\ call["att"].op = "unpublish" /\ call["att"].pc # "get" => vol[handle].to = None

\* What the steps that are not of a handler do to attachments: one is made that was
\* asked for, is removed as was asked for, or goes with its instance.
AttachmentMoves(v) ==
  /\ \/ vol'[v].at = vol[v].at
     \/ vol'[v].at = vol[v].to /\ vol[v].to # None /\ vol[v].at = None
     \/ vol'[v].at = None /\ (vol[v].st = "detaching" \/ vol[v].at \notin running')
  /\ vol'[v].to \in {vol[v].to, None}
  /\ vol'[v].st = "detaching" => vol'[v] = vol[v]
AttachmentsSettle ==
  /\ gaveUp \subseteq gaveUp' /\ handle' = handle /\ running' \subseteq running
  /\ call'["att"] = call["att"] \/ call'["att"].op = "none" \/ call'["att"].pc = "get"
  /\ \/ va' = va
     \/ va = NoVA /\ va'.st = "attaching"
     \/ va.st \in {"attaching", "attached"} /\ va' = [inst |-> va.inst, st |-> "detaching"]
  /\ \A v \in Ids : AttachmentMoves(v)

\* Nothing happens to a volume that stays as it is.
LEMMA NoAttachmentMoves ==
  ASSUME NEW v, vol'[v] = vol[v]
  PROVE  AttachmentMoves(v)
PROOF BY Zenon DEF AttachmentMoves

\* Every step that is not of a handler settles attachments.
LEMMA SettlesStep ==
  ASSUME BaseInv, [Next]_vars
  PROVE  AttachmentsSettle \/ \E c \in Slots : Handler(c)
PROOF
  <1>1. CASE \E c \in Slots : Handler(c)
    BY <1>1, Zenon
  <1>p. "att" \in Slots /\ "att" \in Sidecars /\ "att" # "late"
    BY Zenon DEF Slots, Sidecars
  <1>2. CASE UNCHANGED vars
    <2>1. UNCHANGED <<vol, running, handle, va, call, gaveUp>>
      BY <1>2, Zenon DEF vars, cloudVars, userVars
    <2>2. QED
      BY <2>1, NoAttachmentMoves DEF AttachmentsSettle
  <1>3. CASE User
    <2>1. UNCHANGED <<vol, running, call, gaveUp>> /\ (ClaimEdit \/ SnapshotEdit)
      BY <1>3, Zenon DEF User, cloudVars
    <2>2. va = [inst |-> va.inst, st |-> va.st]
      BY Zenon DEF BaseInv, Shapes
    <2>3. [va EXCEPT !.st = "detaching"] = [inst |-> va.inst, st |-> "detaching"]
      BY <2>2, SMT
    <2>4. /\ handle' = handle
          /\ \/ va' = va
             \/ va = NoVA /\ \E i : va' = [inst |-> i, st |-> "attaching"]
             \/ va.st \in {"attaching", "attached"} /\ va' = [va EXCEPT !.st = "detaching"]
      BY <2>1, Zenon DEF ClaimEdit, SnapshotEdit
    <2>5. QED
      BY <2>1, <2>3, <2>4, NoAttachmentMoves DEF AttachmentsSettle
  <1>4. ASSUME NEW c \in Sidecars, Sidecar(c) PROVE AttachmentsSettle
    <2>1. c \in Slots
      BY Zenon DEF Slots
    <2>2. PICK o, p : Call(c, o, p) /\ (c = "att" => p = "get")
      BY <1>4 DEF Sidecar
    <2>3. CallsOnly(c) /\ call'[c].pc = p /\ UNCHANGED <<vol, snap, running, userVars, gaveUp>>
      BY <2>1, <2>2, CallForm, Zenon
    <2>4. call'["att"] = call["att"] \/ call'["att"].pc = "get"
      BY <1>p, <2>2, <2>3, Zenon DEF CallsOnly
    <2>5. UNCHANGED <<vol, running, handle, va, gaveUp>>
      BY <2>3 DEF userVars
    <2>6. QED
      BY <2>4, <2>5, NoAttachmentMoves DEF AttachmentsSettle
  <1>5. ASSUME NEW c \in Sidecars, GiveUp(c) PROVE AttachmentsSettle
    <2>1. /\ call'[c] = NoCall /\ \A d \in Slots \ {c, "late"} : call'[d] = call[d]
          /\ gaveUp' = gaveUp \cup {call[c].op} /\ UNCHANGED <<vol, snap, running, userVars>>
      BY <1>5, GiveUpForm, Zenon
    <2>2. call'["att"] = call["att"] \/ call'["att"].op = "none"
      BY <1>p, <2>1, NoCallFields, Zenon
    <2>3. UNCHANGED <<vol, running, handle, va>>
      BY <2>1, Zenon DEF userVars
    <2>4. QED
      BY <2>1, <2>2, <2>3, NoAttachmentMoves DEF AttachmentsSettle
  <1>6. ASSUME NEW v \in Ids, CloudStep(v) \/ CloudFails(v) PROVE AttachmentsSettle
    <2>1. UNCHANGED <<running, handle, va, call, gaveUp>>
      BY <1>6, Zenon DEF CloudStep, CloudFails, userVars
    <2>2. VolumeOK(vol[v], running)
      BY VolumeFacts, Zenon
    <2>3. AttachmentMoves(v)
      <3>1. CASE CloudStep(v)
        BY <2>2, <3>1, CloudStepDoes, Zenon DEF AttachmentMoves, VolumeOK
      <3>2. CASE CloudFails(v)
        BY <3>2, CloudFailsDoes, Zenon DEF AttachmentMoves
      <3>3. QED
        BY <1>6, <3>1, <3>2
    <2>4. \A w \in Ids \ {v} : vol'[w] = vol[w]
      BY <1>6, CloudStepDoes, CloudFailsDoes, Zenon DEF Turns
    <2>5. QED
      BY <2>1, <2>3, <2>4, NoAttachmentMoves DEF AttachmentsSettle
  <1>7. ASSUME NEW s \in Ids, SnapshotStep(s) PROVE AttachmentsSettle
    <2>1. UNCHANGED <<vol, running, handle, va, call, gaveUp>>
      BY <1>7, Zenon DEF SnapshotStep, userVars
    <2>2. QED
      BY <2>1, NoAttachmentMoves, Zenon DEF AttachmentsSettle
  <1>8. ASSUME NEW i \in Instances, InstanceDeleted(i) PROVE AttachmentsSettle
    <2>1. UNCHANGED <<handle, va, call, gaveUp>> /\ running' = running \ {i}
      BY <1>8, Zenon DEF InstanceDeleted, userVars
    <2>2. ASSUME NEW w \in Ids PROVE AttachmentMoves(w)
      <3>1. /\ vol'[w].at = IF vol[w].at = i THEN None ELSE vol[w].at
            /\ vol'[w].to = IF vol[w].to = i THEN None ELSE vol[w].to
            /\ vol'[w].st = "detaching" => vol'[w] = vol[w]
        BY <1>8, InstanceDeletedDoes, Zenon
      <3>2. QED
        BY <2>1, <3>1, Zenon DEF AttachmentMoves
    <2>3. QED
      BY <2>1, <2>2, Zenon DEF AttachmentsSettle
  <1>9. QED
    BY <1>1, <1>2, <1>3, <1>4, <1>5, <1>6, <1>7, <1>8, Zenon DEF Next

\* A step that settles attachments keeps the invariant.
LEMMA AttachSettles ==
  ASSUME BaseInv, BaseInv', AttachInv, AttachmentsSettle
  PROVE  AttachInv'
PROOF
  <1>1. /\ va.st = "none" <=> va = NoVA
        /\ va.st # "none" => va.inst \in Instances /\ va.inst # None /\ handle \in Ids
        /\ handle \in Ids \cup {None} /\ handle' = handle
        /\ gaveUp \subseteq gaveUp' /\ running' \subseteq running
    <2>1. UserInv /\ NoVA.st = "none"
      BY Zenon DEF BaseInv, NoVA
    <2>2. handle' = handle /\ gaveUp \subseteq gaveUp' /\ running' \subseteq running
      BY Zenon DEF AttachmentsSettle
    <2>3. QED
      BY <2>1, <2>2, Constants, Zenon DEF UserInv
  <1>2. va # NoVA => va' # NoVA /\ va'.inst = va.inst
    BY <1>1 DEF AttachmentsSettle, NoVA
  <1>3. \A v \in Ids : VolumeOK(vol[v], running) /\ VolumeOK(vol'[v], running') /\ AttachmentMoves(v)
    BY Zenon DEF BaseInv, VolumesInv, AttachmentsSettle
  <1>4. ASSUME "unpublish" \notin gaveUp, NEW v \in Ids, vol'[v].st = "detaching"
        PROVE  v = handle /\ va'.st = "detaching" /\ vol'[v].at = va'.inst
    <2>1. vol'[v] = vol[v]
      BY <1>3, <1>4, Zenon DEF AttachmentMoves
    <2>2. v = handle /\ va.st = "detaching" /\ vol[v].at = va.inst
      BY <1>4, <2>1, Zenon DEF AttachInv
    <2>3. va' = va
      BY <1>1, <2>2, Zenon DEF AttachmentsSettle
    <2>4. QED
      BY <2>1, <2>2, <2>3
  <1>5. ASSUME "unpublish" \notin gaveUp, va'.st = "attached", va'.inst \in running'
        PROVE  Found(handle)' /\ vol'[handle'].at = va'.inst
    <2>1. va' = va
      BY <1>5 DEF AttachmentsSettle
    <2>2. va.inst \in running /\ va.inst # None /\ handle \in Ids
      BY <1>1, <1>5, <2>1, Zenon
    <2>3. Found(handle) /\ vol[handle].at = va.inst
      BY <1>5, <2>1, <2>2, Zenon DEF AttachInv
    <2>4. vol[handle].st # "detaching"
      BY <1>5, <2>1, <2>2, Zenon DEF AttachInv
    <2>5. vol'[handle].at = va.inst
      BY <1>3, <1>5, <2>1, <2>2, <2>3, <2>4, Zenon DEF AttachmentMoves
    <2>6. vol'[handle].st \notin {"absent", "deleted"}
      BY <1>3, <2>2, <2>5, Zenon DEF VolumeOK
    <2>7. QED
      BY <1>1, <2>1, <2>2, <2>5, <2>6, Zenon DEF Found
  <1>6. ASSUME "publish" \notin gaveUp, NEW v \in Ids, vol'[v].at # None \/ vol'[v].to # None
        PROVE  v = handle /\ va' # NoVA /\ {vol'[v].at, vol'[v].to} \subseteq {None, va'.inst}
    <2>1. /\ vol[v].at # None \/ vol[v].to # None
          /\ vol'[v].at \in {vol[v].at, vol[v].to, None} /\ vol'[v].to \in {vol[v].to, None}
      BY <1>3, <1>6, Zenon DEF AttachmentMoves
    <2>2. v = handle /\ va # NoVA /\ {vol[v].at, vol[v].to} \subseteq {None, va.inst}
      BY <1>6, <2>1, Zenon DEF AttachInv
    <2>3. QED
      BY <1>2, <2>1, <2>2, Zenon
  <1>7. ASSUME "publish" \notin gaveUp, call'["att"].op = "unpublish", call'["att"].pc # "get"
        PROVE  vol'[handle'].to = None
    <2>1. call'["att"] = call["att"]
      BY <1>7, Zenon DEF AttachmentsSettle
    <2>2. vol[handle].to = None
      BY <1>7, <2>1, Zenon DEF AttachInv
    <2>3. "att" \in Slots
      BY Zenon DEF Slots, Sidecars
    <2>4. handle \in Ids
      BY <1>7, <2>1, <2>3, VolumeCallFacts, Zenon
    <2>5. QED
      BY <1>1, <1>3, <2>2, <2>4, Zenon DEF AttachmentMoves
  <1>8. QED
    BY <1>1, <1>4, <1>5, <1>6, <1>7, Zenon DEF AttachInv

\* A handler asks for attachments and detachments as it was told.
LEMMA HandlerAttachments ==
  ASSUME BaseInv, NEW c \in Slots, Handler(c), NEW v \in Ids
  PROVE  /\ vol'[v].at = vol[v].at
         /\ \/ vol'[v].to = vol[v].to
            \/ call[c].op = "publish" /\ v = handle /\ vol'[v].to = call[c].inst
         /\ \/ vol'[v].st # "detaching" \/ vol[v].st = "detaching"
            \/ call[c].op = "unpublish" /\ v = handle /\ vol[v].at = call[c].inst
PROOF
  <1>1. running' = running /\ VolumeOK(vol[v], running)
    BY VolumeFacts, Zenon DEF Handler
  <1>2. CASE vol' = vol
    BY <1>2, Zenon
  <1>3. CASE vol' # vol
    <2>1. VolumeStep(c)
      BY <1>3, Zenon DEF Handler, ListSnapshots, CreateSnapshot, WaitSnapshotReady, DeleteSnapshot, CallFails, cloudVars
    <2>2. CreateVolume(c) \/ DeleteVolume(c) \/ AttachVolume(c) \/ DetachVolume(c) \/ ExpandVolume(c)
      BY <1>1, <1>3, <2>1, ReadingOutcome, Zenon DEF VolumeStep
    <2>3. CASE CreateVolume(c)
      BY <1>1, <2>3, CreateVolumeDoes, Zenon DEF Turns, VolumeOK
    <2>4. CASE DeleteVolume(c)
      BY <1>1, <1>3, <2>4, DeleteVolumeDoes, Zenon DEF Turns
    <2>5. CASE AttachVolume(c)
      <3>1. call[c].op = "publish" /\ call[c].vid = handle
        BY <2>5, VolumeCallFacts, Zenon DEF AttachVolume, At
      <3>2. QED
        BY <1>1, <1>3, <2>5, <3>1, AttachVolumeDoes, Zenon DEF Turns
    <2>6. CASE DetachVolume(c)
      <3>1. call[c].op = "unpublish" /\ call[c].vid = handle
        BY <2>6, VolumeCallFacts, Zenon DEF DetachVolume, At
      <3>2. QED
        BY <1>1, <1>3, <2>6, <3>1, DetachVolumeDoes, Zenon DEF Turns
    <2>7. CASE ExpandVolume(c)
      BY <1>1, <1>3, <2>7, ExpandVolumeDoes, Zenon DEF Turns
    <2>8. QED
      BY <2>2, <2>3, <2>4, <2>5, <2>6, <2>7, Zenon
  <1>4. QED
    BY <1>2, <1>3, Zenon

\* What the attacher was told: the volume is attached, or it is not.
Published ==
  /\ va.st = "attaching" /\ va' = [inst |-> va.inst, st |-> "attached"]
  /\ vol' = vol /\ Found(handle) /\ vol[handle].at = va.inst
Unpublished ==
  /\ call["att"].op = "unpublish" /\ va' = NoVA /\ vol' = vol
  /\ \/ va.inst \notin running \/ ~Found(handle)
     \/ call["att"].pc = "wait" /\ vol[handle].at # va.inst

\* ControllerPublishVolume and ControllerUnpublishVolume look before they answer.
LEMMA AttacherTold ==
  ASSUME BaseInv, NEW c \in Slots, Handler(c), va' # va
  PROVE  c = "att" /\ handle \in Ids /\ handle' = handle /\ va # NoVA /\ (Published \/ Unpublished)
PROOF
  <1>1. UNCHANGED userVars \/ \E v : Answered(c, v)
    BY HandlerFrame, Zenon DEF Went
  <1>2. \/ c = "att" /\ call[c].op = "publish" /\ AnswersPublish
        \/ c = "att" /\ call[c].op = "unpublish" /\ AnswersUnpublish
    BY <1>1, Zenon DEF userVars, Answered, AnswersCreate, AnswersDelete, AnswersExpand, AnswersSnapshot, AnswersUnsnapshot
  <1>3. ~Fail(c) /\ \A p : ~Goto(c, p)
    BY Zenon DEF Fail, Goto, userVars
  <1>4. call[c].vid = handle /\ handle \in Ids /\ handle' = handle
    BY <1>2, VolumeCallFacts, Zenon DEF AnswersPublish, AnswersUnpublish
  <1>5. call[c].inst = va.inst /\ va # NoVA /\ va = [inst |-> va.inst, st |-> va.st]
    BY <1>2, Zenon DEF BaseInv, CallsInv, CallOK, Shapes
  <1>6. CASE call[c].op = "publish"
    <2>1. WaitDiskAttached(c)
      BY <1>3, <1>6, HandlerOps, Zenon DEF CallFails, GetForAttach, AttachVolume, Write
    <2>2. vol' = vol /\ Found(handle) /\ vol[handle].at = va.inst
      BY <1>3, <1>4, <1>5, <2>1, Zenon DEF WaitDiskAttached
    <2>3. va.st = "attaching" /\ va' = [inst |-> va.inst, st |-> "attached"]
      <3>1. va' = [inst |-> va.inst, st |-> IF va.st = "attaching" THEN "attached" ELSE va.st]
        BY <1>2, <1>6, Zenon DEF AnswersPublish
      <3>2. va.st = "attaching"
        BY <1>5, <3>1, Zenon
      <3>3. QED
        BY <3>1, <3>2, Zenon
    <2>4. QED
      BY <1>2, <1>4, <1>5, <2>2, <2>3, Zenon DEF Published
  <1>7. CASE call[c].op = "unpublish"
    <2>1. GetForDetach(c) \/ WaitDiskDetached(c)
      BY <1>3, <1>7, HandlerOps, Zenon DEF CallFails, DetachVolume, Write
    <2>2. /\ vol' = vol
          /\ \/ va.inst \notin running \/ ~Found(handle)
             \/ call[c].pc = "wait" /\ vol[handle].at # va.inst
      <3>1. CASE GetForDetach(c)
        BY <1>3, <1>4, <1>5, <3>1, Zenon DEF GetForDetach
      <3>2. CASE WaitDiskDetached(c)
        BY <1>3, <1>4, <1>5, <3>2, Zenon DEF WaitDiskDetached, At
      <3>3. QED
        BY <2>1, <3>1, <3>2, Zenon
    <2>3. va' = NoVA
      BY <1>2, <1>7, Zenon DEF AnswersUnpublish
    <2>4. QED
      BY <1>2, <1>4, <1>5, <1>7, <2>2, <2>3, Zenon DEF Unpublished
  <1>8. QED
    BY <1>2, <1>6, <1>7, Zenon

\* The steps of the handlers keep the invariant.
LEMMA AttachHandler ==
  ASSUME BaseInv, BaseInv', AttachInv, NEW c \in Slots, Handler(c)
  PROVE  AttachInv'
PROOF
  <1>1. /\ va.st = "none" <=> va = NoVA
        /\ va # NoVA => va.inst \in Instances /\ va.inst # None /\ handle \in Ids
        /\ handle \in Ids \cup {None}
    BY Constants DEF BaseInv, UserInv, NoVA
  <1>2. gaveUp' = gaveUp /\ running' = running /\ CallsOnly(c)
    BY HandlerFrame, Zenon DEF Handler
  <1>3. \A v \in Ids : VolumeOK(vol[v], running) /\ VolumeOK(vol'[v], running')
    BY Zenon DEF BaseInv, VolumesInv
  <1>4. handle \in Ids => handle' = handle
    BY HandleFixed, Constants, Zenon
  <1>5. /\ call[c].op \in {"publish", "unpublish"} /\ call[c].op \notin gaveUp =>
             c = "att" /\ call[c].inst = va.inst /\ va # NoVA
        /\ call[c].op = "unpublish" /\ "unpublish" \notin gaveUp => va.st = "detaching"
    <2>1. CallOK(c, call[c])
      BY Zenon DEF BaseInv, CallsInv
    <2>2. QED
      BY <2>1, OpOwner, Zenon DEF CallOK
  <1>6. ASSUME "unpublish" \notin gaveUp, NEW v \in Ids, vol'[v].st = "detaching"
        PROVE  v = handle' /\ va'.st = "detaching" /\ vol'[v].at = va'.inst
    <2>1. v = handle /\ va.st = "detaching" /\ vol[v].at = va.inst
      <3>1. CASE vol[v].st = "detaching"
        BY <1>6, <3>1, Zenon DEF AttachInv
      <3>2. CASE vol[v].st # "detaching"
        <4>1. call[c].op = "unpublish" /\ v = handle /\ vol[v].at = call[c].inst
          BY <1>6, <3>2, HandlerAttachments, Zenon
        <4>2. QED
          BY <1>5, <1>6, <4>1, Zenon
      <3>3. QED
        BY <3>1, <3>2, Zenon
    <2>2. handle' = handle /\ vol'[v].at = vol[v].at
      BY <1>4, <2>1, HandlerAttachments, Zenon
    <2>3. va' = va
      <3>1. SUFFICES ASSUME va' # va PROVE FALSE
        BY Zenon
      <3>2. vol' = vol /\ (Published \/ Unpublished)
        BY <3>1, AttacherTold, Zenon DEF Published, Unpublished
      <3>3. VolumeOK(vol[v], running) /\ vol[v].st = "detaching" /\ v = handle /\ vol[v].at = va.inst
        BY <1>3, <1>6, <2>1, <3>2, Zenon
      <3>4. Published
        BY <2>1, <3>2, <3>3, <1>1, Zenon DEF VolumeOK, Unpublished, Found
      <3>5. QED
        BY <2>1, <3>4, Zenon DEF Published
    <2>4. QED
      BY <2>1, <2>2, <2>3, Zenon
  <1>7. ASSUME "unpublish" \notin gaveUp, va'.st = "attached", va'.inst \in running'
        PROVE  Found(handle)' /\ vol'[handle'].at = va'.inst
    <2>1. handle \in Ids /\ Found(handle) /\ vol[handle].at = va.inst /\ va'.inst = va.inst /\ va.inst # None
      <3>1. CASE va' = va
        BY <1>1, <1>2, <1>7, <3>1, Zenon DEF AttachInv, NoVA
      <3>2. CASE va' # va
        BY <1>1, <1>7, <3>2, AttacherTold DEF Published, Unpublished, NoVA
      <3>3. QED
        BY <3>1, <3>2, Zenon
    <2>2. handle' = handle /\ vol'[handle].at = vol[handle].at
      BY <1>4, <2>1, HandlerAttachments, Zenon
    <2>3. vol'[handle].st \notin {"absent", "deleted"}
      BY <1>3, <2>1, <2>2, Zenon DEF VolumeOK
    <2>4. QED
      BY <2>1, <2>2, <2>3, Zenon DEF Found
  <1>8. ASSUME "publish" \notin gaveUp, NEW v \in Ids, vol'[v].at # None \/ vol'[v].to # None
        PROVE  v = handle' /\ va' # NoVA /\ {vol'[v].at, vol'[v].to} \subseteq {None, va'.inst}
    <2>1. /\ v = handle /\ va # NoVA /\ {vol'[v].at, vol'[v].to} \subseteq {None, va.inst}
          /\ {vol[v].at, vol[v].to} \subseteq {None, va.inst}
      <3>1. /\ vol'[v].at = vol[v].at
            /\ vol'[v].to = vol[v].to \/ (v = handle /\ vol'[v].to = va.inst /\ va # NoVA)
        BY <1>5, <1>8, HandlerAttachments, Zenon
      <3>2. vol[v].at # None \/ vol[v].to # None =>
              v = handle /\ va # NoVA /\ {vol[v].at, vol[v].to} \subseteq {None, va.inst}
        BY <1>8, Zenon DEF AttachInv
      <3>3. QED
        BY <1>8, <3>1, <3>2, Zenon
    <2>2. handle' = handle
      BY <1>4, <2>1, Zenon
    <2>3. va' # NoVA /\ va'.inst = va.inst
      <3>1. CASE va' = va
        BY <2>1, <3>1, Zenon
      <3>2. CASE va' # va
        <4>1. c = "att" /\ (Published \/ Unpublished)
          BY <3>2, AttacherTold, Zenon
        <4>2. CASE Published
          BY <4>2, Zenon DEF Published, NoVA
        <4>3. CASE Unpublished
          <5>1. vol' = vol /\ VolumeOK(vol[v], running)
            BY <1>3, <4>3, Zenon DEF Unpublished
          <5>2. call["att"].pc = "wait" => vol[handle].to = None
            BY <1>8, <4>3, Zenon DEF Unpublished, AttachInv
          <5>3. vol[v].at = None /\ vol[v].to = None
            BY <2>1, <4>3, <5>1, <5>2, Zenon DEF Unpublished, VolumeOK, Found
          <5>4. QED
            BY <1>8, <5>1, <5>3, Zenon
        <4>4. QED
          BY <4>1, <4>2, <4>3, Zenon
      <3>3. QED
        BY <3>1, <3>2, Zenon
    <2>4. QED
      BY <2>1, <2>2, <2>3, Zenon
  <1>9. ASSUME "publish" \notin gaveUp, call'["att"].op = "unpublish", call'["att"].pc # "get"
        PROVE  vol'[handle'].to = None
    <2>p. "att" \in Slots
      BY Zenon DEF Slots, Sidecars
    <2>1. call["att"].op = "unpublish" /\ call[c].op # "publish" /\ vol[handle].to = None
      <3>1. CASE c # "att"
        <4>1. call'["att"] = call["att"]
          BY <1>2, <2>p, <3>1, Zenon DEF CallsOnly
        <4>2. QED
          BY <1>5, <1>9, <3>1, <4>1, Zenon DEF AttachInv
      <3>2. CASE c = "att"
        <4>1. Went(c) /\ call[c].op = "unpublish"
          BY <1>9, <3>2, HandlerFrame, Zenon DEF Went, Follows
        <4>2. CASE call[c].pc # "get"
          BY <1>9, <3>2, <4>1, <4>2, Zenon DEF AttachInv
        <4>3. CASE call[c].pc = "get"
          <5>1. ~Done(c)
            BY <1>9, <3>2, DoneForm, Zenon DEF BaseInv, Shapes
          <5>2. GetForDetach(c)
            BY <4>1, <4>3, <5>1, HandlerOps, Zenon DEF CallFails, Fail, DetachVolume, WaitDiskDetached, At
          <5>3. Found(handle) /\ vol[handle].st \in {"available", "in-use"}
            BY <4>1, <5>1, <5>2, VolumeCallFacts DEF GetForDetach, Fail, Answer
          <5>4. QED
            BY <1>3, <3>2, <4>1, <5>3, Zenon DEF VolumeOK, Found
        <4>4. QED
          BY <4>2, <4>3, Zenon
      <3>3. QED
        BY <3>1, <3>2, Zenon
    <2>2. handle \in Ids
      BY <2>p, <2>1, VolumeCallFacts
    <2>3. QED
      BY <1>4, <2>1, <2>2, HandlerAttachments, Zenon
  <1>10. QED
    BY <1>2, <1>6, <1>7, <1>8, <1>9, Zenon DEF AttachInv

\* After ControllerPublishVolume the volume is attached until it is unpublished, and
\* after ControllerUnpublishVolume it is not, as long as no late call interferes.
THEOREM AttachedAsAnswered == Spec => []AttachedAsPublished
PROOF
  <1> DEFINE Inv == BaseInv /\ AttachInv
  <1>1. Init => Inv
    <2>1. SUFFICES ASSUME Init PROVE AttachInv
      BY BaseInit, Zenon
    <2>2. \A v \in Ids : vol[v].st = "absent" /\ vol[v].at = None /\ vol[v].to = None
      BY <2>1, AbsentFields, Zenon DEF Init
    <2>3. va.st = "none" /\ call["att"].op = "none"
      BY <2>1, NoCallFields, Zenon DEF Init, NoVA, Slots, Sidecars
    <2>4. QED
      BY <2>2, <2>3, Zenon DEF AttachInv
  <1>2. Inv /\ [Next]_vars => Inv'
    BY BaseStep, SettlesStep, AttachSettles, AttachHandler, Zenon
  <1>3. Inv => AttachedAsPublished
    BY Zenon DEF AttachInv, AttachedAsPublished
  <1>4. QED
    BY <1>1, <1>2, <1>3, PTL DEF Spec

=============================================================================
