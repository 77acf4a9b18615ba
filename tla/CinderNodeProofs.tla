-------------------------- MODULE CinderNodeProofs --------------------------
(***************************************************************************)
(* What the node service of the Cinder CSI driver promises, for any number *)
(* of troubles, pods and ephemeral volumes: a published volume is on the   *)
(* path of its pod with the space that the kubelet was told of, and a      *)
(* released one is clean.  The invariant has seven parts: the form of the  *)
(* state (Shape), what a call has found out at each of its points          *)
(* (CallsInv), what the kubelet believes and asks for (KubeletInv), the    *)
(* mounts of a volume it has let go (MountsInv), the ephemeral volumes     *)
(* that exist (BackingInv), the mounts a pod may rely on (LiveInv) and the *)
(* sizes of volume, device and filesystem (SizesInv).                      *)
(***************************************************************************)
EXTENDS CinderNode, TLAPS

-----------------------------------------------------------------------------
(* The invariant *)

Cur == call["cur"]
Late == call["late"]
Filesystem == kind \in {"fs", "clone"}

IsCall(k) == k = [op |-> k.op, pc |-> k.pc, d |-> k.d, size |-> k.size]
IsVolume(v) == v = [st |-> v.st, size |-> v.size]

\* What may be mounted on the target path.
Mounts ==
  IF kind = "block" THEN {<<"dev", 0>>}
  ELSE IF Ephemeral THEN {"fs"} \X Backing ELSE {<<"fs", 0>>, <<"dir", 0>>}

Shape ==
  /\ kind \in {"fs", "clone", "block", "ephemeral"}
  /\ call = [c \in Slots |-> call[c]]
  /\ \A c \in Slots : IsCall(call[c]) /\ call[c].size \in Nat
  /\ cinder = [d \in Disks |-> cinder[d]]
  /\ \A d \in Disks : IsVolume(cinder[d]) /\ cinder[d].size \in Nat
  /\ dev \in [Disks -> Nat]
  /\ fsSize \in Nat /\ grown \in Nat /\ stage \in BOOLEAN
  /\ target \in Seq(Mounts)

\* Where a call that publishes or unpublishes an ephemeral volume holds one, and
\* where its target path is no mount point.
Holding == {"available", "attached", "mount"}
Freed == {"detach", "detached", "loose"}
Taking == {"unmountAttached", "unmountLoose"} \cup Freed

CallOK(k) ==
  /\ k.op = "publish" =>
       /\ k.pc \in {"zone", "create"} => Ephemeral /\ k.d = None
       /\ k.pc \in Holding => Ephemeral /\ k.d \in Backing
       /\ k.pc = "bind" => Filesystem
       /\ k.pc = "block" => kind = "block"
  /\ k.op = "unpublish" =>
       /\ k.pc \in {"unmount", "return"} => ~Ephemeral
       /\ k.pc \in Taking => k.d \in Backing
  /\ k.op = "stage" =>
       /\ ~Ephemeral
       /\ k.pc = "mount" => Filesystem
       /\ k.pc = "resize" => kind = "clone"
       /\ k.pc = "return" => kind = "fs"
  /\ k.op = "expand" => Filesystem /\ k.pc # "return"

CallsInv ==
  /\ \A c \in Slots : CallOK(call[c])
  /\ Late.op \in gaveUp \cup {"none"}
  /\ cinder[0].st # "deleting"
  /\ Ephemeral => cinder[0].st = "absent"
  /\ ~Ephemeral => \A d \in Backing : cinder[d].st = "absent"

KubeletInv ==
  /\ Cur.op = "stage" => st # "yes"
  /\ Cur.op = "unstage" => ~wanted /\ pb = "no" /\ st # "no"
  /\ Cur.op = "unpublish" => ~wanted /\ pb # "no"
  /\ Late.op = "unpublish" => ~wanted /\ pb # "yes" /\ Cur.op # "publish"
  /\ ~Ephemeral =>
       /\ pb # "no" \/ Cur.op = "publish" \/ (wanted /\ Late.op = "publish") => st = "yes"
       /\ st # "no" \/ Cur.op = "stage" => cinder[0].st \in {"in-use", "gone"}

MountsInv ==
  ~undone /\ gaveUp \cap {"publish", "stage"} = {} =>
    /\ stage /\ st = "no" => Cur.op = "stage"
    /\ target # <<>> /\ pb = "no" => Cur.op = "publish"
    /\ Cur.op = "unstage" /\ Cur.pc = "return" => ~stage
    /\ Cur.op = "unpublish" /\ Cur.pc \in Freed \cup {"return"} => target = <<>>

IsNamed(d) == cinder[d].st \notin {"absent", "deleting"}

BackingInv ==
  ~undone /\ gaveUp = {} =>
    /\ \A d, e \in Backing : IsNamed(d) /\ IsNamed(e) => d = e
    /\ Cur.op = "publish" \/ (Cur.op = "unpublish" /\ Cur.pc \in Taking) =>
         \A d \in Backing : IsNamed(d) => d = Cur.d
    /\ (pb = "no" \/ (wanted /\ pb # "yes")) /\ Cur.op # "publish" =>
         \A d \in Backing : ~IsNamed(d)

\* The pod is to run, or the kubelet has not begun to take its volume away.
Live == (wanted \/ pb = "yes" \/ Cur.op = "publish") /\ Cur.op # "unpublish"

Good(e) ==
  IF Ephemeral THEN cinder[e[2]].st = "in-use"
  ELSE kind # "block" => e[1] = "fs"

LiveInv ==
  /\ "unstage" \notin gaveUp /\ Filesystem =>
       /\ st = "yes" => stage \/ Cur.op = "unstage"
       /\ Cur.op = "stage" /\ Cur.pc \in {"resize", "return"} => stage
  /\ Cur.op = "publish" /\ Cur.pc = "return" => target # <<>>
  /\ pb = "yes" /\ Cur.op # "unpublish" => target # <<>>
  /\ Live =>
       /\ \A c \in Slots :
            call[c].op = "publish" /\ call[c].pc = "mount" => cinder[call[c].d].st = "in-use"
       /\ "unstage" \notin gaveUp /\ target # <<>> => Good(target[1])

\* The size that the volume was created with.
FirstSize == IF kind = "clone" THEN 2 ELSE 1

ExpandOK(k) ==
  k.op = "expand" =>
    /\ k.size > 0 /\ k.size <= cinder[0].size
    /\ k.pc = "resize" /\ rescan /\ dev[0] # 0 => dev[0] >= k.size

SizesInv ==
  ~Ephemeral =>
    /\ cinder[0].size >= FirstSize
    /\ fsSize <= cinder[0].size
    /\ dev[0] # 0 => dev[0] >= FirstSize /\ dev[0] <= cinder[0].size /\ fsSize <= dev[0]
    /\ \A c \in Slots : ExpandOK(call[c])
    /\ Found /\ (st = "yes" \/ (Cur.op = "stage" /\ Cur.pc \in {"mount", "resize", "return"})) => dev[0] # 0
    /\ stage => fsSize > 0
    /\ Filesystem => \A c \in Slots : call[c].op = "stage" /\ call[c].pc = "return" => fsSize > 0
    /\ Filesystem /\ st = "yes" => fsSize >= FirstSize
    /\ Filesystem /\ rescan => grown = FirstSize \/ fsSize >= grown
    /\ kind = "block" => grown = 1

Inv ==
  /\ Shape /\ CallsInv /\ KubeletInv
  /\ MountsInv /\ BackingInv /\ LiveInv /\ SizesInv

-----------------------------------------------------------------------------
(* What a part of the invariant depends on *)

\* The form of the calls and of the volumes.
Calls ==
  /\ call = [c \in Slots |-> call[c]]
  /\ \A c \in Slots : IsCall(call[c]) /\ call[c].size \in Nat

Volumes ==
  /\ cinder = [d \in Disks |-> cinder[d]]
  /\ \A d \in Disks : IsVolume(cinder[d]) /\ cinder[d].size \in Nat

\* The calls have their form in every state.
LEMMA CallsOfInv ==
  ASSUME Inv PROVE Calls
BY Zenon DEF Inv, Shape, Calls

\* So do the volumes.
LEMMA VolumesOfInv ==
  ASSUME Inv PROVE Volumes
BY Zenon DEF Inv, Shape, Volumes

\* The sizes are numbers.
LEMMA NumbersOfInv ==
  ASSUME Inv
  PROVE  /\ 0 \in Disks /\ dev[0] \in Nat /\ cinder[0].size \in Nat
         /\ fsSize \in Nat /\ grown \in Nat /\ \A c \in Slots : call[c].size \in Nat
<1>1. 0 \in Disks BY Zenon DEF Disks
<1>2. dev[0] \in Nat BY <1>1, Zenon DEF Inv, Shape
<1> QED BY <1>1, <1>2, Zenon DEF Inv, Shape

\* The form of the state, variable by variable.
LEMMA ShapeStays ==
  ASSUME Inv, kind' = kind, Calls' \/ call' = call, Volumes' \/ cinder' = cinder,
         dev' \in [Disks -> Nat] \/ dev' = dev, fsSize' \in Nat \/ fsSize' = fsSize,
         grown' \in Nat \/ grown' = grown, stage' \in BOOLEAN \/ stage' = stage,
         target' \in Seq(Mounts) \/ target' = target
  PROVE  Shape'
<1>1. Mounts' = Mounts BY Zenon DEF Mounts, Ephemeral, Backing
<1>2. Calls' /\ Volumes'
  <2>1. Calls' BY CallsOfInv, Zenon DEF Calls
  <2>2. Volumes' BY VolumesOfInv, Zenon DEF Volumes
  <2> QED BY <2>1, <2>2, Zenon
<1>3. kind \in {"fs", "clone", "block", "ephemeral"} /\ dev \in [Disks -> Nat] /\ fsSize \in Nat
      /\ grown \in Nat /\ stage \in BOOLEAN /\ target \in Seq(Mounts)
  BY Zenon DEF Inv, Shape
<1>4. target' \in Seq(Mounts') BY <1>1, <1>3, Zenon
<1> HIDE DEF Mounts
<1> QED BY <1>2, <1>3, <1>4, Zenon DEF Shape, Calls, Volumes

\* The calls are where they may be, and the volume of the pod and the ephemeral
\* ones are not there together.
LEMMA CallsStay ==
  ASSUME Inv, kind' = kind, gaveUp \subseteq gaveUp', \A c \in Slots : CallOK(call'[c]),
         Late'.op \in gaveUp' \cup {Late.op, "none"},
         cinder'[0] = cinder[0] \/ (~Ephemeral /\ cinder'[0].st # "deleting"),
         Ephemeral \/ \A d \in Backing : cinder'[d] = cinder[d]
  PROVE  CallsInv'
<1>1. \A c \in Slots : CallOK(call[c])' BY Zenon DEF CallOK, Ephemeral, Filesystem
<1>2. Ephemeral' = Ephemeral BY Zenon DEF Ephemeral
<1>3. Late'.op \in gaveUp' \cup {"none"} BY Zenon DEF Inv, CallsInv
<1>4. cinder'[0].st # "deleting" /\ (Ephemeral => cinder'[0].st = "absent") BY Zenon DEF Inv, CallsInv
<1>5. ~Ephemeral => \A d \in Backing : cinder'[d].st = "absent" BY Zenon DEF Inv, CallsInv
<1> HIDE DEF CallOK, Ephemeral
<1> QED BY <1>1, <1>2, <1>3, <1>4, <1>5, Zenon DEF CallsInv

\* What the kubelet believes stays true when it learns nothing and no call begins.
LEMMA KubeletStays ==
  ASSUME Inv, kind' = kind, wanted' = wanted, st' = st, pb' = pb,
         Cur'.op = Cur.op, Late'.op \in {Late.op, "none"},
         cinder'[0].st \in {cinder[0].st, "gone"}
  PROVE  KubeletInv'
<1>1. Ephemeral' = Ephemeral BY Zenon DEF Ephemeral
<1> HIDE DEF Ephemeral, Cur, Late
<1>2. Late'.op = "unpublish" => Late.op = "unpublish" BY Zenon
<1>3. Late'.op = "publish" => Late.op = "publish" BY Zenon
<1>4. cinder[0].st \in {"in-use", "gone"} => cinder'[0].st \in {"in-use", "gone"} BY Zenon
<1> QED BY <1>1, <1>2, <1>3, <1>4, Zenon DEF Inv, KubeletInv

\* The sizes stay right when nothing grows and no call comes nearer to its end.
LEMMA SizesStay ==
  ASSUME Inv, UNCHANGED <<kind, rescan, cinder, dev, fsSize, grown>>, stage' => stage,
         st' = "yes" => st = "yes",
         \A c \in Slots : call'[c].op \in {"expand", "stage"} => \E s \in Slots : call'[c] = call[s],
         Cur'.op = "stage" => Cur' = Cur
  PROVE  SizesInv'
<1>1. Ephemeral' = Ephemeral /\ Filesystem' = Filesystem /\ FirstSize' = FirstSize /\ Found' = Found
  BY Zenon DEF Ephemeral, Filesystem, FirstSize, Found
<1> SUFFICES ASSUME ~Ephemeral PROVE SizesInv' BY <1>1, Zenon DEF SizesInv
<1>2. \A s \in Slots : ExpandOK(call[s]) BY Zenon DEF Inv, SizesInv
<1>3. \A c \in Slots : ExpandOK(call[c])'
  <2> SUFFICES ASSUME NEW c \in Slots, call'[c].op = "expand" PROVE ExpandOK(call[c])' BY Zenon DEF ExpandOK
  <2>1. PICK s \in Slots : call'[c] = call[s] BY Zenon
  <2> QED BY <1>2, <2>1, Zenon DEF ExpandOK
<1>4. Filesystem => \A c \in Slots : call'[c].op = "stage" /\ call'[c].pc = "return" => fsSize > 0
  BY Zenon DEF Inv, SizesInv
<1> HIDE DEF Ephemeral, Filesystem, FirstSize, Found, Cur, Late, ExpandOK
<1> QED BY <1>1, <1>3, <1>4, Zenon DEF Inv, SizesInv

\* No mount comes to a volume that the kubelet has let go.
LEMMA MountsStay ==
  ASSUME Inv, undone => undone', gaveUp \subseteq gaveUp', st' = st, pb' = pb, Cur'.op = Cur.op,
         stage' => stage, target = <<>> => target' = <<>>,
         Cur.op = "unstage" => Cur'.pc = Cur.pc,
         Cur.op = "unpublish" /\ Cur'.pc \in Freed \cup {"return"} => Cur.pc \in Freed \cup {"return"}
  PROVE  MountsInv'
<1> HIDE DEF Cur
<1>1. gaveUp' \cap {"publish", "stage"} = {} => gaveUp \cap {"publish", "stage"} = {} BY Zenon
<1> QED BY <1>1, Zenon DEF Inv, MountsInv

\* No ephemeral volume comes to exist, and the call that holds one goes on holding it.
LEMMA BackingStays ==
  ASSUME Inv, undone => undone', gaveUp' = gaveUp, wanted' = wanted, pb' = pb,
         Cur'.op = Cur.op, Cur'.d = Cur.d,
         Cur.op = "unpublish" /\ Cur'.pc \in Taking => Cur.pc \in Taking,
         \A d \in Backing : IsNamed(d)' => IsNamed(d)
  PROVE  BackingInv'
<1> HIDE DEF Cur, IsNamed
<1> QED BY Zenon DEF Inv, BackingInv

\* What a pod relies on stays when nothing of it is touched.
LEMMA LiveStays ==
  ASSUME Inv, UNCHANGED <<kind, gaveUp, target, wanted, st, pb>>, stage => stage', Cur'.op = Cur.op,
         Cur.op = "publish" => Cur'.pc = Cur.pc,
         Cur.op = "stage" => Cur'.pc = Cur.pc \/ Cur'.pc \notin {"resize", "return"} \/ stage',
         \A c \in Slots : call'[c].op = "publish" => call'[c] = call[c],
         Ephemeral => cinder' = cinder
  PROVE  LiveInv'
<1>1. /\ Ephemeral' = Ephemeral /\ Filesystem' = Filesystem /\ Live' = Live
  <2>1. Ephemeral' = Ephemeral /\ Filesystem' = Filesystem BY Zenon DEF Ephemeral, Filesystem
  <2> HIDE DEF Cur
  <2>2. Live' = Live BY Zenon DEF Live
  <2> QED BY <2>1, <2>2, Zenon
<1>2. Good(target[1])' = Good(target[1]) BY Zenon DEF Good, Ephemeral
<1>3. ~Ephemeral => \A c \in Slots : call[c].op = "publish" => call[c].pc # "mount"
  BY Zenon DEF Inv, CallsInv, CallOK, Holding
<1>4. Live => \A c \in Slots :
        call'[c].op = "publish" /\ call'[c].pc = "mount" => cinder'[call'[c].d].st = "in-use"
  BY <1>3, Zenon DEF Inv, LiveInv
<1> HIDE DEF Cur, Ephemeral, Filesystem, Live, Good
<1> QED BY <1>1, <1>2, <1>4, Zenon DEF Inv, LiveInv

\* Calls that stay where they are.
LEMMA SameCalls ==
  ASSUME Inv, call' = call
  PROVE  /\ \A c \in Slots : CallOK(call'[c]) /\ \E s \in Slots : call'[c] = call[s]
         /\ Cur' = Cur /\ Late' = Late
<1>1. \A c \in Slots : CallOK(call'[c]) BY Zenon DEF Inv, CallsInv
<1>2. \A c \in Slots : \E s \in Slots : call'[c] = call[s] BY Zenon
<1> QED BY <1>1, <1>2, Zenon DEF Cur, Late

-----------------------------------------------------------------------------
(* What the end of a step does to the calls and to the kubelet *)

\* The call c goes on at pc with the volume d; or it is over.
Goes(c, pc, d) ==
  /\ call'[c].op = call[c].op /\ call'[c].pc = pc
  /\ call'[c].d = d /\ call'[c].size = call[c].size
  /\ \A s \in Slots : s # c => call'[s] = call[s]
  /\ wanted' = wanted /\ st' = st /\ pb' = pb /\ grown' = grown /\ undone' = undone

Over(c) ==
  /\ call'[c] = NoCall
  /\ \A s \in Slots : s # c => call'[s] = call[s]
  /\ wanted' = wanted

Answered(c) ==
  /\ Over(c) /\ undone' = undone
  /\ c # "cur" => st' = st /\ pb' = pb /\ grown' = grown
  /\ c = "cur" =>
       /\ st' = IF call[c].op = "stage" THEN "yes" ELSE IF call[c].op = "unstage" THEN "no" ELSE st
       /\ pb' = IF call[c].op = "publish" THEN "yes" ELSE IF call[c].op = "unpublish" THEN "no" ELSE pb
       /\ grown' = IF call[c].op = "expand" THEN call[c].size ELSE grown

Failed(c) ==
  /\ Over(c) /\ undone' = (undone \/ LeavesWork(c)) /\ grown' = grown
  /\ c # "cur" => st' = st /\ pb' = pb
  /\ c = "cur" =>
       /\ st' = IF call[c].op = "stage" THEN "no" ELSE IF call[c].op = "unstage" THEN "unsure" ELSE st
       /\ pb' = IF call[c].op = "publish" THEN "no" ELSE IF call[c].op = "unpublish" THEN "unsure" ELSE pb

\* A call k that goes on, as the two updates of one record.
LEMMA CallGoes ==
  ASSUME NEW k, IsCall(k), NEW pc, NEW d
  PROVE  [[k EXCEPT !.pc = pc] EXCEPT !.d = d] = [op |-> k.op, pc |-> pc, d |-> d, size |-> k.size]
<1> DEFINE m == [k EXCEPT !.pc = pc]
<1>1. m = [op |-> k.op, pc |-> pc, d |-> k.d, size |-> k.size]
  BY SMT DEF IsCall
<1> HIDE DEF m
<1>2. [m EXCEPT !.d = d] = [op |-> k.op, pc |-> pc, d |-> d, size |-> k.size]
  BY <1>1, SMT
<1> QED BY <1>2, Zenon DEF m

\* Goto and GotoWith: the call is at its next point, nothing else has changed.
LEMMA GotoGoes ==
  ASSUME Calls, NEW c \in Slots, NEW pc, NEW d, GotoWith(c, pc, d)
  PROVE  Calls' /\ Goes(c, pc, d)
<1> DEFINE k == [op |-> call[c].op, pc |-> pc, d |-> d, size |-> call[c].size]
           f == [call EXCEPT ![c].pc = pc]
<1>1. IsCall(call[c]) /\ call[c].size \in Nat BY Zenon DEF Calls
<1>2. f = [s \in Slots |-> IF s = c THEN [call[c] EXCEPT !.pc = pc] ELSE call[s]]
  BY Zenon DEF Calls
<1>3. call' = [f EXCEPT ![c].d = d] BY Zenon DEF GotoWith
<1> HIDE DEF f
<1>4. f[c] = [call[c] EXCEPT !.pc = pc] BY <1>2, Zenon
<1> DEFINE m == [call[c] EXCEPT !.pc = pc]
<1> HIDE DEF m
<1>5. f = [s \in Slots |-> IF s = c THEN m ELSE call[s]] BY <1>2, Zenon DEF m
<1>6. call' = [s \in Slots |-> IF s = c THEN [m EXCEPT !.d = d] ELSE call[s]]
  BY <1>3, <1>5, Zenon
<1>7. [[call[c] EXCEPT !.pc = pc] EXCEPT !.d = d] = k BY <1>1, CallGoes, Zenon
<1>7a. [m EXCEPT !.d = d] = k BY <1>7, Zenon DEF m
<1> HIDE DEF k
<1>8. call' = [s \in Slots |-> IF s = c THEN k ELSE call[s]] BY <1>6, <1>7a, Zenon
<1>9. IsCall(k) /\ k.op = call[c].op /\ k.pc = pc /\ k.d = d /\ k.size = call[c].size
  BY Zenon DEF k, IsCall
<1>10. Calls' BY <1>1, <1>8, <1>9, Zenon DEF Calls
<1>11. call'[c] = k /\ \A s \in Slots : s # c => call'[s] = call[s] BY <1>8, Zenon
<1>12. wanted' = wanted /\ st' = st /\ pb' = pb /\ grown' = grown /\ undone' = undone
  BY Zenon DEF GotoWith, kubelet
<1> QED BY <1>9, <1>10, <1>11, <1>12, Zenon DEF Goes

\* One call becomes k, the other stays.
LEMMA CallBecomes ==
  ASSUME Calls, NEW c \in Slots, NEW k, IsCall(k), k.size \in Nat, call' = [call EXCEPT ![c] = k]
  PROVE  Calls' /\ call'[c] = k /\ \A s \in Slots : s # c => call'[s] = call[s]
<1> HIDE DEF IsCall
<1>1. call' = [s \in Slots |-> IF s = c THEN k ELSE call[s]] BY Zenon DEF Calls
<1> QED BY <1>1, Zenon DEF Calls

\* A call that is over leaves its slot to the next one.
LEMMA DoneOver ==
  ASSUME Calls, NEW c \in Slots, Done(c)
  PROVE  Calls' /\ call'[c] = NoCall /\ \A s \in Slots : s # c => call'[s] = call[s]
<1>1. IsCall(NoCall) /\ NoCall.size \in Nat BY Zenon DEF NoCall, IsCall
<1> HIDE DEF NoCall
<1> QED BY <1>1, CallBecomes, Zenon DEF Done

\* Answer: the kubelet believes what it asked for.
LEMMA AnswerAnswered ==
  ASSUME Calls, NEW c \in Slots, Answer(c)
  PROVE  Calls' /\ Answered(c)
<1>1. Calls' /\ call'[c] = NoCall /\ \A s \in Slots : s # c => call'[s] = call[s]
  BY DoneOver, Zenon DEF Answer
<1> QED BY <1>1, Zenon DEF Answer, Answered, Over

\* Fail: the kubelet learns that the call did not do its work.
LEMMA FailFailed ==
  ASSUME Calls, NEW c \in Slots, Fail(c)
  PROVE  Calls' /\ Failed(c)
<1>1. Calls' /\ call'[c] = NoCall /\ \A s \in Slots : s # c => call'[s] = call[s]
  BY DoneOver, Zenon DEF Fail
<1>2. undone' = (undone \/ LeavesWork(c)) BY Zenon DEF Fail
<1>3. Over(c) BY <1>1, Zenon DEF Fail, Over
<1> HIDE DEF LeavesWork
<1> QED BY <1>1, <1>2, <1>3, Zenon DEF Fail, Failed

\* What the kubelet's call shows of one that goes on.
LEMMA GoCur ==
  ASSUME NEW c \in Slots, NEW pc, NEW d, Goes(c, pc, d)
  PROVE  /\ UNCHANGED <<wanted, st, pb, grown, undone>>
         /\ Cur'.op = Cur.op /\ (d = call[c].d => Cur'.d = Cur.d)
         /\ Cur.op = call[c].op => Cur'.pc \in {Cur.pc, pc}
         /\ Cur.op # call[c].op => Cur' = Cur
         /\ \A s \in Slots : call'[s].op # call[c].op => call'[s] = call[s]
<1>1. Cur = call["cur"] /\ Cur' = call'["cur"] /\ "cur" \in Slots BY Zenon DEF Cur, Slots
<1>2. CASE c = "cur" BY <1>1, <1>2, Zenon DEF Goes
<1>3. CASE c # "cur" BY <1>1, <1>3, Zenon DEF Goes
<1> QED BY <1>2, <1>3, Zenon

\* A call that goes on changes nothing that the kubelet knows of.
LEMMA GoParts ==
  ASSUME Inv, NEW c \in Slots, NEW pc, NEW d, Goes(c, pc, d), kind' = kind, gaveUp' = gaveUp,
         CallOK(call'[c]), cinder'[0] = cinder[0],
         Ephemeral \/ \A e \in Backing : cinder'[e] = cinder[e]
  PROVE  CallsInv' /\ KubeletInv'
<1>1. \A s \in Slots : CallOK(call'[s]) /\ call'[s].op = call[s].op
  BY Zenon DEF Goes, Inv, CallsInv
<1>2. Cur'.op = Cur.op /\ Late'.op = Late.op BY <1>1, Zenon DEF Cur, Late, Slots
<1>3. wanted' = wanted /\ st' = st /\ pb' = pb BY Zenon DEF Goes
<1> HIDE DEF CallOK, Cur, Late
<1>4. CallsInv' BY <1>1, <1>2, CallsStay, Zenon
<1>5. KubeletInv' BY <1>2, <1>3, KubeletStays, Zenon
<1> QED BY <1>4, <1>5, Zenon

\* No call is in hand: nothing is asked of it.
LEMMA NoCallOK == CallOK(NoCall) /\ NoCall.op = "none"
BY SMT DEF NoCall, CallOK

\* A call that is over leaves the others where they are.
LEMMA OverCalls ==
  ASSUME Inv, NEW c \in Slots, Over(c), kind' = kind, gaveUp' = gaveUp, cinder'[0] = cinder[0],
         Ephemeral \/ \A e \in Backing : cinder'[e] = cinder[e]
  PROVE  CallsInv'
<1>1. \A s \in Slots : CallOK(call'[s]) /\ call'[s].op \in {call[s].op, "none"}
  BY NoCallOK, Zenon DEF Over, Inv, CallsInv
<1>2. Late'.op \in {Late.op, "none"} BY <1>1, Zenon DEF Late, Slots
<1> HIDE DEF CallOK, Late
<1> QED BY <1>1, <1>2, CallsStay, Zenon

-----------------------------------------------------------------------------
(* Steps of a handler that leave volumes, devices and mounts alone *)

Still == UNCHANGED <<kind, rescan, gaveUp, cinder, dev, stage, target, fsSize>>

\* A call that fails keeps the invariant: what it leaves behind is recorded.
LEMMA FailKeeps ==
  ASSUME Inv, NEW c \in Slots, Calls', Failed(c), Still
  PROVE  Inv'
<1>a. /\ Over(c) /\ grown' = grown
      /\ c # "cur" => st' = st /\ pb' = pb
      /\ c = "cur" =>
           /\ st' = IF call[c].op = "stage" THEN "no" ELSE IF call[c].op = "unstage" THEN "unsure" ELSE st
           /\ pb' = IF call[c].op = "publish" THEN "no" ELSE IF call[c].op = "unpublish" THEN "unsure" ELSE pb
  BY Zenon DEF Failed
<1>b. ~undone' => ~undone /\ ~LeavesWork(c) BY Zenon DEF Failed
<1> USE <1>a DEF Still, Over, Slots, Cur, Late, NoCall
<1>1. Shape' BY Zenon DEF Inv, Shape, Calls, Mounts, Ephemeral
<1>2. CallsInv' BY SMT DEF Inv, CallsInv, CallOK, Ephemeral, Filesystem
<1>3. KubeletInv' BY SMT DEF Inv, KubeletInv, Ephemeral
<1>4. MountsInv' BY <1>b, SMT DEF Inv, CallsInv, MountsInv, LeavesWork
<1>5. BackingInv'
  BY <1>b, ConstantsAssumption, SMT DEF Inv, CallsInv, KubeletInv, BackingInv, IsNamed, LeavesWork, Backing
<1>6. LiveInv' BY SMT DEF Inv, KubeletInv, LiveInv, Live, Good, Ephemeral, Filesystem
<1>7. SizesInv' BY SMT DEF Inv, SizesInv, ExpandOK, FirstSize, Found, Ephemeral, Filesystem
<1> QED BY <1>1, <1>2, <1>3, <1>4, <1>5, <1>6, <1>7, Zenon DEF Inv

\* A call may answer when its work is done: the volume is mounted, or nothing of
\* it is left.
MayAnswer(c) ==
  /\ call[c].op = "stage" => call[c].pc = "return" \/ (kind = "block" /\ dev[0] # 0)
  /\ call[c].op = "unstage" => call[c].pc = "return"
  /\ call[c].op = "publish" => call[c].pc = "return" \/ target # <<>>
  /\ call[c].op = "unpublish" =>
       call[c].pc = "return" \/ (call[c].pc = "detached" /\ ~IsNamed(call[c].d))
  /\ call[c].op # "expand"

\* A call that answers keeps the invariant.
LEMMA AnswerKeeps ==
  ASSUME Inv, NEW c \in Slots, Calls', Answered(c), Still, MayAnswer(c)
  PROVE  Inv'
<1> USE DEF Still, Answered, Over, Slots, Cur, Late, NoCall, MayAnswer
<1>1. Shape' BY Zenon DEF Inv, Shape, Calls, Mounts, Ephemeral
<1>2. CallsInv' BY SMT DEF Inv, CallsInv, CallOK, Ephemeral, Filesystem
<1>3. KubeletInv' BY SMT DEF Inv, KubeletInv, Ephemeral
<1>4. MountsInv' BY SMT DEF Inv, CallsInv, MountsInv, Freed
<1>5. BackingInv'
  BY SMT DEF Inv, CallsInv, CallOK, KubeletInv, BackingInv, IsNamed, Taking, Freed, Ephemeral
<1>6. LiveInv'
  BY SMT DEF Inv, CallsInv, CallOK, KubeletInv, LiveInv, Live, Good, Ephemeral, Filesystem
<1>7. SizesInv'
  BY SMT DEF Inv, Shape, CallsInv, CallOK, SizesInv, ExpandOK, FirstSize, Found, Ephemeral, Filesystem
<1> QED BY <1>1, <1>2, <1>3, <1>4, <1>5, <1>6, <1>7, Zenon DEF Inv

\* A call may go on to a point whose conditions it has checked.
MayGo(c, pc, d) ==
  /\ CallOK([op |-> call[c].op, pc |-> pc, d |-> d, size |-> call[c].size])
  /\ call[c].op = "stage" =>
       /\ pc \in {"mount", "resize", "return"} => dev[0] # 0
       /\ pc \in {"resize", "return"} => stage
  /\ call[c].op = "unstage" => pc # "return"
  /\ call[c].op = "publish" => d = call[c].d /\ pc # "return" /\ (pc = "mount" => cinder[d].st = "in-use")
  /\ call[c].op = "unpublish" => pc \notin Freed \cup {"return"} /\ (pc \in Taking => IsNamed(d))
  /\ call[c].op = "expand" /\ pc = "resize" /\ rescan /\ dev[0] # 0 => dev[0] >= call[c].size

\* A call that goes on keeps the invariant.
LEMMA GoKeeps ==
  ASSUME Inv, NEW c \in Slots, NEW pc, NEW d, Calls', Goes(c, pc, d), Still, MayGo(c, pc, d)
  PROVE  Inv'
<1> USE DEF Still, Goes, Slots, Cur, Late, NoCall, MayGo
<1>1. Shape' BY Zenon DEF Inv, Shape, Calls, Mounts, Ephemeral
<1>2. CallsInv' BY SMT DEF Inv, CallsInv, CallOK, Ephemeral, Filesystem
<1>3. KubeletInv' BY SMT DEF Inv, KubeletInv, Ephemeral
<1>4. MountsInv' BY SMT DEF Inv, CallsInv, MountsInv, Freed
<1>5. BackingInv'
  BY SMT DEF Inv, CallsInv, CallOK, KubeletInv, BackingInv, IsNamed, Taking, Freed, Ephemeral
<1>6. LiveInv'
  BY SMT DEF Inv, CallsInv, CallOK, KubeletInv, LiveInv, Live, Good, Ephemeral, Filesystem
<1>7. SizesInv'
  BY SMT DEF Inv, CallsInv, CallOK, SizesInv, ExpandOK, FirstSize, Found, Ephemeral, Filesystem
<1> QED BY <1>1, <1>2, <1>3, <1>4, <1>5, <1>6, <1>7, Zenon DEF Inv

\* A call that fails.
LEMMA FailStep ==
  ASSUME Inv, NEW c \in Slots, Fail(c), Still
  PROVE  Inv'
BY CallsOfInv, FailFailed, FailKeeps, Zenon

\* A call that answers.
LEMMA AnswerStep ==
  ASSUME Inv, NEW c \in Slots, Answer(c), Still, MayAnswer(c)
  PROVE  Inv'
BY CallsOfInv, AnswerAnswered, AnswerKeeps, Zenon

\* A call that goes on with a volume it has found.
LEMMA GoStep ==
  ASSUME Inv, NEW c \in Slots, NEW pc, NEW d, GotoWith(c, pc, d), Still, MayGo(c, pc, d)
  PROVE  Inv'
BY CallsOfInv, GotoGoes, GoKeeps, Zenon

\* A call that goes on with the volume it has.
LEMMA GotoStep ==
  ASSUME Inv, NEW c \in Slots, NEW pc, Goto(c, pc), Still, MayGo(c, pc, call[c].d)
  PROVE  Inv'
BY GoStep, Zenon DEF Goto

-----------------------------------------------------------------------------
(* The handlers that only look *)

\* NodeStageVolume, NodeUnstageVolume and NodeExpandVolume look for their volume.
LEMMA GetVolumeKeeps ==
  ASSUME Inv, NEW c \in Slots, StageGetVolume(c) \/ UnstageGetVolume(c) \/ ExpandGetVolume(c),
         UNCHANGED <<fixed, gaveUp>>
  PROVE  Inv'
<1>1. Still BY Zenon DEF StageGetVolume, UnstageGetVolume, ExpandGetVolume, Still, fixed, node
<1>2. CASE Fail(c) BY <1>1, <1>2, FailStep, Zenon
<1>3. CASE At(c, "stage", "get") /\ Goto(c, "device")
  <2>1. MayGo(c, "device", call[c].d) BY <1>3, Zenon DEF Inv, CallsInv, At, MayGo, CallOK
  <2> QED BY <1>1, <1>3, <2>1, GotoStep, Zenon
<1>4. CASE At(c, "unstage", "get") /\ Goto(c, "unmount")
  <2>1. MayGo(c, "unmount", call[c].d) BY <1>4, Zenon DEF At, MayGo, CallOK
  <2> QED BY <1>1, <1>4, <2>1, GotoStep, Zenon
<1>5. CASE At(c, "expand", "get") /\ Goto(c, "rescan")
  <2>1. MayGo(c, "rescan", call[c].d)
    BY <1>5, Zenon DEF Inv, CallsInv, At, MayGo, CallOK
  <2> QED BY <1>1, <1>5, <2>1, GotoStep, Zenon
<1> QED
  BY <1>2, <1>3, <1>4, <1>5, Zenon DEF StageGetVolume, UnstageGetVolume, ExpandGetVolume

\* NodeStageVolume looks for the device and for a mount.
LEMMA StageDeviceKeeps ==
  ASSUME Inv, NEW c \in Slots, StageDevice(c), UNCHANGED <<fixed, gaveUp>>
  PROVE  Inv'
<1>1. Still BY Zenon DEF StageDevice, Still, fixed, node
<1>2. CASE Fail(c) BY <1>1, <1>2, FailStep, Zenon
<1>3. CASE getDevicePath(0) /\ kind = "block" /\ Answer(c)
  <2>1. MayAnswer(c)
    BY <1>3, Zenon DEF StageDevice, At, MayAnswer, getDevicePath, getDevicePathBySerialID, GetDevicePath
  <2> QED BY <1>1, <1>3, <2>1, AnswerStep, Zenon
<1>4. getDevicePath(0) => dev[0] # 0
  BY Zenon DEF getDevicePath, getDevicePathBySerialID, GetDevicePath
<1>5. call[c].op = "stage" BY Zenon DEF StageDevice, At
<1>6. kind # "block" => Filesystem
  BY <1>5, Zenon DEF Inv, Shape, CallsInv, CallOK, Ephemeral, Filesystem
<1>7. CASE getDevicePath(0) /\ kind # "block" /\ Goto(c, "mount")
  <2>1. MayGo(c, "mount", call[c].d)
    BY <1>4, <1>5, <1>6, <1>7, Zenon DEF MayGo, CallOK, Ephemeral, Filesystem
  <2> QED BY <1>1, <1>7, <2>1, GotoStep, Zenon
<1>8. CASE getDevicePath(0) /\ kind # "block" /\ ~IsLikelyNotMountPoint("staging") /\ Mounted(c)
  <2>1. stage BY <1>8, Zenon DEF IsLikelyNotMountPoint
  <2>2. CASE kind = "clone" /\ Goto(c, "resize")
    <3>1. MayGo(c, "resize", call[c].d)
      BY <1>4, <1>5, <1>8, <2>1, <2>2, Zenon DEF MayGo, CallOK, Ephemeral, Filesystem
    <3> QED BY <1>1, <2>2, <3>1, GotoStep, Zenon
  <2>3. CASE kind # "clone" /\ Goto(c, "return")
    <3>1. MayGo(c, "return", call[c].d)
      BY <1>4, <1>5, <1>6, <1>8, <2>1, <2>3, Zenon DEF MayGo, CallOK, Ephemeral, Filesystem
    <3> QED BY <1>1, <2>3, <3>1, GotoStep, Zenon
  <2> QED BY <1>8, <2>2, <2>3, Zenon DEF Mounted
<1> QED BY <1>2, <1>3, <1>7, <1>8, Zenon DEF StageDevice

\* NodePublishVolume of a staged volume looks for it and for a mount.
LEMMA PublishGetVolumeKeeps ==
  ASSUME Inv, NEW c \in Slots, PublishGetVolume(c), UNCHANGED <<fixed, gaveUp>>
  PROVE  Inv'
<1>1. Still BY Zenon DEF PublishGetVolume, Still, fixed, node
<1>2. CASE Fail(c) BY <1>1, <1>2, FailStep, Zenon
<1>3. call[c].op = "publish" BY Zenon DEF PublishGetVolume, At
<1>4. CASE ~IsLikelyNotMountPoint("target") /\ Answer(c)
  <2>1. target # <<>> BY <1>4, Zenon DEF IsLikelyNotMountPoint
  <2>2. MayAnswer(c) BY <1>3, <2>1, Zenon DEF MayAnswer
  <2> QED BY <1>1, <1>4, <2>2, AnswerStep, Zenon
<1>5. CASE kind = "block" /\ Goto(c, "block")
  <2>1. MayGo(c, "block", call[c].d) BY <1>3, <1>5, Zenon DEF MayGo, CallOK, Holding
  <2> QED BY <1>1, <1>5, <2>1, GotoStep, Zenon
<1>6. CASE Found /\ kind # "block" /\ Goto(c, "bind")
  <2>1. Filesystem BY <1>6, Zenon DEF Inv, Shape, CallsInv, Ephemeral, Filesystem, Found
  <2>2. MayGo(c, "bind", call[c].d) BY <1>3, <2>1, Zenon DEF MayGo, CallOK, Holding
  <2> QED BY <1>1, <1>6, <2>2, GotoStep, Zenon
<1> QED BY <1>2, <1>4, <1>5, <1>6, Zenon DEF PublishGetVolume

\* nodePublishEphemeral asks for the zone, and waits for the attachment.
LEMMA EphemeralLooksKeeps ==
  ASSUME Inv, NEW c \in Slots, EphemeralZone(c) \/ EphemeralAttached(c), UNCHANGED <<fixed, gaveUp>>
  PROVE  Inv'
<1>1. Still BY Zenon DEF EphemeralZone, EphemeralAttached, Still, fixed, node
<1>2. CASE Fail(c) BY <1>1, <1>2, FailStep, Zenon
<1>3. CASE At(c, "publish", "zone") /\ Goto(c, "create")
  <2>1. MayGo(c, "create", call[c].d)
    BY <1>3, Zenon DEF Inv, CallsInv, At, MayGo, CallOK, Holding
  <2> QED BY <1>1, <1>3, <2>1, GotoStep, Zenon
<1>4. CASE At(c, "publish", "attached") /\ cinder[call[c].d].st = "in-use" /\ Goto(c, "mount")
  <2>1. MayGo(c, "mount", call[c].d)
    BY <1>4, Zenon DEF Inv, CallsInv, At, MayGo, CallOK, Holding
  <2> QED BY <1>1, <1>4, <2>1, GotoStep, Zenon
<1>5. CASE At(c, "publish", "attached") /\ ~IsLikelyNotMountPoint("target") /\ Answer(c)
  <2>1. target # <<>> BY <1>5, Zenon DEF IsLikelyNotMountPoint
  <2>2. MayAnswer(c) BY <1>5, <2>1, Zenon DEF MayAnswer, At
  <2> QED BY <1>1, <1>5, <2>2, AnswerStep, Zenon
<1> QED
  BY <1>2, <1>3, <1>4, <1>5, Zenon DEF EphemeralZone, EphemeralAttached, Get

\* NodeUnpublishVolume looks for the volume, by its id and then by its name.
LEMMA UnpublishGetVolumeKeeps ==
  ASSUME Inv, NEW c \in Slots, UnpublishGetVolume(c), UNCHANGED <<fixed, gaveUp>>
  PROVE  Inv'
<1>1. Still BY Zenon DEF UnpublishGetVolume, Still, fixed, node
<1>2. CASE Fail(c) BY <1>1, <1>2, FailStep, Zenon
<1>3. call[c].op = "unpublish" BY Zenon DEF UnpublishGetVolume, At
<1>4. CASE Found /\ Goto(c, "unmount")
  <2>1. MayGo(c, "unmount", call[c].d)
    BY <1>3, <1>4, Zenon DEF Inv, CallsInv, MayGo, CallOK, Taking, Freed, Found
  <2> QED BY <1>1, <1>4, <2>1, GotoStep, Zenon
<1>5. ASSUME NEW d \in Named, NEW pc \in {"unmountAttached", "unmountLoose"}, GotoWith(c, pc, d)
      PROVE  Inv'
  <2>1. d \in Backing /\ IsNamed(d) BY <1>5, Zenon DEF Named, IsNamed
  <2>2. MayGo(c, pc, d) BY <1>3, <1>5, <2>1, Zenon DEF MayGo, CallOK, Taking, Freed
  <2> QED BY <1>1, <1>5, <2>2, GoStep, Zenon
<1> QED BY <1>2, <1>4, <1>5, Zenon DEF UnpublishGetVolume

\* The answer is sent.
LEMMA ReturnKeeps ==
  ASSUME Inv, NEW c \in Slots, Return(c), UNCHANGED <<fixed, gaveUp>>
  PROVE  Inv'
<1>1. Still BY Zenon DEF Return, Still, fixed, node
<1>2. MayAnswer(c) BY Zenon DEF Inv, CallsInv, CallOK, Return, MayAnswer
<1> QED BY <1>1, <1>2, AnswerStep, Zenon DEF Return

\* A request, a look-up or a mount fails without effect.
LEMMA CallFailsKeeps ==
  ASSUME Inv, NEW c \in Slots, CallFails(c)
  PROVE  Inv'
<1>1. Still BY Zenon DEF CallFails, Still, fixed, node
<1> QED BY <1>1, FailStep, Zenon DEF CallFails

-----------------------------------------------------------------------------
(* The handlers that mount and unmount *)

\* A mount covers what the path showed.
LEMMA Push ==
  ASSUME NEW S, NEW s \in Seq(S), NEW x \in S
  PROVE  <<x>> \o s \in Seq(S) /\ <<x>> \o s # <<>> /\ (<<x>> \o s)[1] = x
BY SMT

\* An unmount leaves what was below.
LEMMA Pop ==
  ASSUME NEW S, NEW s \in Seq(S), s # <<>>
  PROVE  Tail(s) \in Seq(S)
BY SMT

\* A device that is found has a size.
LEMMA DeviceHasSize ==
  ASSUME NEW d, getDevicePath(d) PROVE dev[d] # 0
BY Zenon DEF getDevicePath, getDevicePathBySerialID, GetDevicePath

\* The staging path is mounted: only NodeStageVolume does that, and the kubelet
\* knows of it or the call is its own.
LEMMA FormatAndMountKeeps ==
  ASSUME Inv, NEW c \in Slots, FormatAndMount(c), UNCHANGED <<fixed, gaveUp>>
  PROVE  Inv'
<1>1. CASE Fail(c) /\ UNCHANGED <<fsSize, stage>>
  <2>1. Still BY <1>1, Zenon DEF FormatAndMount, Still, fixed
  <2> QED BY <1>1, <2>1, FailStep, Zenon
<1>2. CASE /\ getDevicePath(0) /\ ~stage
           /\ fsSize' = IF fsSize = 0 THEN dev[0] ELSE fsSize
           /\ stage' = TRUE /\ Mounted(c)
  <2>1. dev[0] # 0 BY <1>2, DeviceHasSize, Zenon
  <2>2. PICK pc : pc = (IF kind = "clone" THEN "resize" ELSE "return") /\ Goto(c, pc)
    BY <1>2, Zenon DEF Mounted
  <2>3. Calls' /\ Goes(c, pc, call[c].d) BY <2>2, CallsOfInv, GotoGoes, Zenon DEF Goto
  <2>4. At(c, "stage", "mount") /\ UNCHANGED <<kind, rescan, gaveUp, cinder, dev, target>>
    BY Zenon DEF FormatAndMount, fixed
  <2>5. Filesystem /\ ~Ephemeral /\ dev[0] \in Nat /\ fsSize \in Nat
    BY <2>4, Zenon DEF Inv, Shape, CallsInv, CallOK, At, Disks
  <2>a. CallsInv' /\ KubeletInv'
    <3>1. CallOK(call'[c]) BY <2>2, <2>3, <2>4, <2>5, SMT DEF Goes, At, CallOK, Filesystem, Ephemeral
    <3> QED BY <2>3, <2>4, <3>1, GoParts, Zenon
  <2>b. Shape'
    <3>1. fsSize' \in Nat /\ stage' \in BOOLEAN BY <1>2, <2>5, Zenon
    <3> QED BY <2>3, <2>4, <3>1, ShapeStays, Zenon DEF Goes
  <2> USE <1>2, <2>1, <2>2, <2>3, <2>4, <2>5 DEF Goes, At, Slots, Cur, Late
  <2>14. MountsInv' BY Zenon DEF Inv, CallsInv, MountsInv
  <2>15. BackingInv' BY GoCur, BackingStays, Zenon DEF IsNamed
  <2>16. LiveInv' BY GoCur, LiveStays, Zenon
  <2>17. SizesInv' BY SMT DEF Inv, Shape, SizesInv, ExpandOK, FirstSize, Found, Ephemeral, Filesystem
  <2> QED BY <2>a, <2>b, <2>14, <2>15, <2>16, <2>17, Zenon DEF Inv
<1> QED BY <1>1, <1>2, Zenon DEF FormatAndMount

\* The filesystem of a clone, or of a volume that was expanded, gets the size of
\* the device: never less than it had, and no less than the kubelet is told.
LEMMA ResizeKeeps ==
  ASSUME Inv, NEW c \in Slots, StageResize(c) \/ ExpandResize(c), UNCHANGED <<fixed, gaveUp>>
  PROVE  Inv'
<1>1. CASE Fail(c) /\ UNCHANGED fsSize
  <2>1. Still BY <1>1, Zenon DEF StageResize, ExpandResize, Still, fixed
  <2> QED BY <1>1, <2>1, FailStep, Zenon
<1>2. CASE getDevicePath(0) /\ fsSize' = dev[0] /\ Answer(c)
  <2>1. dev[0] # 0 BY <1>2, DeviceHasSize, Zenon
  <2>2. Calls' /\ Answered(c) BY <1>2, CallsOfInv, AnswerAnswered, Zenon
  <2>3. UNCHANGED <<kind, rescan, gaveUp, cinder, dev, stage, target>>
    BY Zenon DEF StageResize, ExpandResize, fixed
  <2>4. call[c].op \in {"stage", "expand"} /\ call[c].pc = "resize"
    BY Zenon DEF StageResize, ExpandResize, At
  <2>5. Filesystem /\ ~Ephemeral /\ dev[0] \in Nat /\ fsSize \in Nat /\ call[c].size \in Nat
    BY <2>4, SMT DEF Inv, Shape, CallsInv, CallOK, Disks, Filesystem, Ephemeral
  <2>a. CallsInv' BY <2>2, <2>3, OverCalls, Zenon DEF Answered
  <2>b. Shape'
    <3>1. grown' \in Nat BY <2>2, <2>5, NumbersOfInv, Zenon DEF Answered
    <3> QED BY <1>2, <2>2, <2>3, <2>5, <3>1, ShapeStays, Zenon
  <2> USE <1>2, <2>1, <2>2, <2>3, <2>4, <2>5 DEF Answered, Over, NoCall, Slots, Cur, Late
  <2>13. KubeletInv' BY SMT DEF Inv, KubeletInv, Ephemeral
  <2>14. MountsInv' BY SMT DEF Inv, CallsInv, MountsInv
  <2>15. BackingInv' BY SMT DEF Inv, BackingInv, IsNamed
  <2>16. LiveInv' BY SMT DEF Inv, LiveInv, Live, Good, Ephemeral, Filesystem
  <2>17. SizesInv' BY SMT DEF Inv, Shape, CallsInv, CallOK, SizesInv, ExpandOK, FirstSize, Found, Ephemeral, Filesystem
  <2> QED BY <2>a, <2>b, <2>13, <2>14, <2>15, <2>16, <2>17, Zenon DEF Inv
<1> QED BY <1>1, <1>2, Zenon DEF StageResize, ExpandResize

\* The staging path is unmounted: the kubelet asks for that when no pod uses it.
LEMMA UnstageUnmountKeeps ==
  ASSUME Inv, NEW c \in Slots, UnstageUnmount(c), UNCHANGED <<fixed, gaveUp>>
  PROVE  Inv'
<1>1. At(c, "unstage", "unmount") /\ ~stage' /\ target' = target /\ Goto(c, "return")
  BY Zenon DEF UnstageUnmount, UnmountPath
<1>2. Calls' /\ Goes(c, "return", call[c].d) BY <1>1, CallsOfInv, GotoGoes, Zenon DEF Goto
<1>3. UNCHANGED <<kind, rescan, gaveUp, cinder, dev, fsSize>> BY Zenon DEF UnstageUnmount, fixed
<1>4. stage' \in BOOLEAN BY Zenon DEF UnstageUnmount, UnmountPath
<1>a. CallsInv' /\ KubeletInv'
  <2>1. CallOK(call'[c]) BY <1>1, <1>2, SMT DEF Goes, At, CallOK
  <2> QED BY <1>2, <1>3, <2>1, GoParts, Zenon
<1>b. Shape' BY <1>1, <1>2, <1>3, <1>4, ShapeStays, Zenon DEF Goes
<1> USE <1>1, <1>2, <1>3 DEF Goes, At, Slots, Cur, Late
<1>14. MountsInv' BY Zenon DEF Inv, CallsInv, MountsInv
<1>15. BackingInv' BY GoCur, BackingStays, Zenon DEF IsNamed
<1>16. LiveInv' BY SMT DEF Inv, CallsInv, LiveInv, Live, Good, Ephemeral, Filesystem
<1>17. SizesInv' BY GoCur, SizesStay, Zenon
<1> QED BY <1>a, <1>b, <1>14, <1>15, <1>16, <1>17, Zenon DEF Inv

\* The target path is mounted: only NodePublishVolume does that.  What it mounts
\* must be what a pod may rely on.
LEMMA PublishMounts ==
  ASSUME Inv, NEW c \in Slots, call[c].op = "publish", Goto(c, "return"),
         NEW x \in Mounts, target' = <<x>> \o target,
         UNCHANGED <<kind, rescan, gaveUp, cinder, dev, stage, fsSize>>,
         Live /\ "unstage" \notin gaveUp => Good(x)
  PROVE  Inv'
<1>1. Calls' /\ Goes(c, "return", call[c].d) BY CallsOfInv, GotoGoes, Zenon DEF Goto
<1>2. target' \in Seq(Mounts) /\ target' # <<>> /\ target'[1] = x
  <2>1. target \in Seq(Mounts) BY Zenon DEF Inv, Shape
  <2> HIDE DEF Mounts
  <2> QED BY <2>1, Push, Zenon
<1>3. Mounts' = Mounts /\ Good(x)' = Good(x) BY Zenon DEF Mounts, Good, Ephemeral, Backing
<1>a. CallsInv' /\ KubeletInv'
  <2>1. CallOK(call'[c]) BY <1>1, SMT DEF Goes, CallOK, Holding
  <2> QED BY <1>1, <2>1, GoParts, Zenon
<1>b. Shape' BY <1>1, <1>2, ShapeStays, Zenon DEF Goes
<1> USE <1>1 DEF Goes, Slots, Cur, Late
<1>14. MountsInv' BY Zenon DEF Inv, CallsInv, MountsInv
<1>15. BackingInv' BY GoCur, BackingStays, Zenon DEF IsNamed
<1>16. LiveInv'
  <2>1. Live' => Live BY Zenon DEF Live
  <2>2. Good(target[1])' = Good(x) BY <1>2, Zenon DEF Good, Ephemeral
  <2>3. target' # <<>> BY <1>2, Zenon
  <2> HIDE DEF Good
  <2> QED BY <2>1, <2>2, <2>3, SMT DEF Inv, LiveInv, Filesystem
<1>17. SizesInv' BY GoCur, SizesStay, Zenon
<1> QED BY <1>a, <1>b, <1>14, <1>15, <1>16, <1>17, Zenon DEF Inv

\* The staging path is a mount point whenever a pod may rely on what is bound.
LEMMA PublishBindKeeps ==
  ASSUME Inv, NEW c \in Slots, PublishBind(c), UNCHANGED <<fixed, gaveUp>>
  PROVE  Inv'
<1> DEFINE x == <<IF stage THEN "fs" ELSE "dir", 0>>
<1>1. call[c].op = "publish" /\ call[c].pc = "bind" BY Zenon DEF PublishBind, At
<1>2. Filesystem /\ ~Ephemeral BY <1>1, Zenon DEF Inv, CallsInv, CallOK, Filesystem, Ephemeral
<1>3. x \in Mounts BY <1>2, Zenon DEF Mounts, Filesystem
<1>4. ASSUME Live, "unstage" \notin gaveUp PROVE Good(x)
  <2>1. st = "yes"
    BY <1>1, <1>2, <1>4, SMT DEF Inv, KubeletInv, Live, Slots, Cur, Late
  <2>2. Cur.op # "unstage"
    BY <1>4, Zenon DEF Inv, KubeletInv, Live
  <2>3. stage BY <1>2, <1>4, <2>1, <2>2, Zenon DEF Inv, LiveInv
  <2> QED BY <1>2, <2>3, SMT DEF Good
<1>5. target' = <<x>> \o target BY Zenon DEF PublishBind
<1>6. Goto(c, "return") /\ UNCHANGED <<kind, rescan, gaveUp, cinder, dev, stage, fsSize>>
  BY Zenon DEF PublishBind, fixed
<1> HIDE DEF x
<1> QED BY <1>1, <1>3, <1>4, <1>5, <1>6, PublishMounts, Zenon

\* The device is bound, also over an earlier mount of it.
LEMMA PublishBlockKeeps ==
  ASSUME Inv, NEW c \in Slots, nodePublishVolumeForBlock(c), UNCHANGED <<fixed, gaveUp>>
  PROVE  Inv'
<1>1. CASE Fail(c) /\ UNCHANGED target
  <2>1. Still BY <1>1, Zenon DEF nodePublishVolumeForBlock, Still, fixed
  <2> QED BY <1>1, <2>1, FailStep, Zenon
<1>2. CASE target' = <<<<"dev", 0>>>> \o target /\ Goto(c, "return")
  <2> DEFINE x == <<"dev", 0>>
  <2>1. call[c].op = "publish" /\ call[c].pc = "block" BY Zenon DEF nodePublishVolumeForBlock, At
  <2>2. kind = "block" BY <2>1, Zenon DEF Inv, CallsInv, CallOK
  <2>3. x \in Mounts /\ Good(x) BY <2>2, Zenon DEF Mounts, Good, Ephemeral
  <2>4. UNCHANGED <<kind, rescan, gaveUp, cinder, dev, stage, fsSize>>
    BY Zenon DEF nodePublishVolumeForBlock, fixed
  <2>5. target' = <<x>> \o target BY <1>2, Zenon
  <2> HIDE DEF x
  <2> QED BY <1>2, <2>1, <2>3, <2>4, <2>5, PublishMounts, Zenon
<1> QED BY <1>1, <1>2, Zenon DEF nodePublishVolumeForBlock

\* While the pod lives nobody detaches the ephemeral volume that is mounted.
LEMMA EphemeralMountKeeps ==
  ASSUME Inv, NEW c \in Slots, EphemeralMount(c), UNCHANGED <<fixed, gaveUp>>
  PROVE  Inv'
<1>1. CASE Fail(c) /\ UNCHANGED target
  <2>1. Still BY <1>1, Zenon DEF EphemeralMount, Still, fixed
  <2> QED BY <1>1, <2>1, FailStep, Zenon
<1>2. CASE target' = <<<<"fs", call[c].d>>>> \o target /\ Goto(c, "return")
  <2> DEFINE x == <<"fs", call[c].d>>
  <2>1. call[c].op = "publish" /\ call[c].pc = "mount" BY Zenon DEF EphemeralMount, At
  <2>2. Ephemeral /\ call[c].d \in Backing BY <2>1, Zenon DEF Inv, CallsInv, CallOK, Holding
  <2>3. x \in Mounts BY <2>2, Zenon DEF Mounts, Ephemeral
  <2>4. Live => cinder[call[c].d].st = "in-use" BY <2>1, Zenon DEF Inv, LiveInv
  <2>5. Live => Good(x) BY <2>2, <2>4, Zenon DEF Good
  <2>6. UNCHANGED <<kind, rescan, gaveUp, cinder, dev, stage, fsSize>>
    BY Zenon DEF EphemeralMount, fixed
  <2>7. target' = <<x>> \o target BY <1>2, Zenon
  <2> HIDE DEF x
  <2> QED BY <1>2, <2>1, <2>3, <2>5, <2>6, <2>7, PublishMounts, Zenon
<1> QED BY <1>1, <1>2, Zenon DEF EphemeralMount

\* The target path is unmounted: the kubelet asks for that when the pod is gone,
\* and its next call does not begin before the path is free.
LEMMA UnpublishUnmountKeeps ==
  ASSUME Inv, NEW c \in Slots, UnpublishUnmount(c), UNCHANGED <<fixed, gaveUp>>
  PROVE  Inv'
<1>1. /\ call[c].op = "unpublish" /\ call[c].pc # "detached"
      /\ UNCHANGED <<kind, rescan, gaveUp, cinder, dev, fsSize>>
  BY Zenon DEF UnpublishUnmount, At, fixed
<1>2. /\ stage' = (stage /\ "target" # "staging")
      /\ target' = IF "target" = "staging" \/ target = <<>> THEN target ELSE Tail(target)
  BY Zenon DEF UnpublishUnmount, UnmountPath
<1>3. stage' = stage BY <1>2, Zenon DEF Inv, Shape
<1>4. target' \in Seq(Mounts) /\ (target = <<>> => target' = <<>>)
  <2>1. target \in Seq(Mounts) BY Zenon DEF Inv, Shape
  <2> HIDE DEF Mounts
  <2>2. CASE target = <<>> BY <1>2, <2>1, <2>2, Zenon
  <2>3. CASE target # <<>>
    <3>1. target' = Tail(target) BY <1>2, <2>3, Zenon
    <3> QED BY <2>1, <2>3, <3>1, Pop, Zenon
  <2> QED BY <2>2, <2>3, Zenon
<1>5. Mounts' = Mounts BY <1>1, Zenon DEF Mounts, Ephemeral, Backing
<1>6. CASE target' # <<>> /\ Fail(c)
  <2>1. Calls' /\ Failed(c) BY <1>6, CallsOfInv, FailFailed, Zenon
  <2>2. Over(c) /\ grown' = grown /\ (~undone' => ~undone)
    BY <2>1, Zenon DEF Failed
  <2>3. (c # "cur" => st' = st /\ pb' = pb) /\ (c = "cur" => st' = st /\ pb' = "unsure")
    <3>1. CASE c # "cur" BY <2>1, <3>1, Zenon DEF Failed
    <3>2. CASE c = "cur"
      <4>1. /\ st' = IF call[c].op = "stage" THEN "no" ELSE IF call[c].op = "unstage" THEN "unsure" ELSE st
            /\ pb' = IF call[c].op = "publish" THEN "no" ELSE IF call[c].op = "unpublish" THEN "unsure" ELSE pb
        BY <2>1, <3>2, Zenon DEF Failed
      <4> QED BY <1>1, <3>2, <4>1, Zenon
    <3> QED BY <3>1, <3>2, Zenon
  <2>a. CallsInv' BY <1>1, <2>2, OverCalls, Zenon
  <2>b. Shape' BY <1>1, <1>3, <1>4, <2>1, <2>2, ShapeStays, Zenon
  <2> USE <1>1, <1>3, <2>2, <2>3 DEF Over, NoCall, Slots, Cur, Late
  <2>13. KubeletInv' BY SMT DEF Inv, KubeletInv, Ephemeral
  <2>14. MountsInv' BY <1>4, SMT DEF Inv, CallsInv, MountsInv
  <2>15. BackingInv' BY SMT DEF Inv, KubeletInv, BackingInv, IsNamed
  <2>16. LiveInv' BY SMT DEF Inv, KubeletInv, LiveInv, Live, Filesystem
  <2>17. SizesInv' BY SMT DEF Inv, SizesInv, ExpandOK, FirstSize, Found, Ephemeral, Filesystem
  <2> QED BY <2>a, <2>b, <2>13, <2>14, <2>15, <2>16, <2>17, Zenon DEF Inv
<1>7. ASSUME NEW pc, target' = <<>>, Goto(c, pc),
             \/ call[c].pc = "unmount" /\ pc = "return"
             \/ call[c].pc \in Taking /\ pc \in Freed
      PROVE  Inv'
  <2>1. Calls' /\ Goes(c, pc, call[c].d) BY <1>7, CallsOfInv, GotoGoes, Zenon DEF Goto
  <2>a. CallsInv' /\ KubeletInv'
    <3>1. CallOK(call[c]) /\ (pc = "return" => call[c].pc = "unmount") BY <1>7, Zenon DEF Inv, CallsInv, Freed
    <3>2. CallOK(call'[c]) BY <1>1, <1>7, <2>1, <3>1, SMT DEF Goes, CallOK, Taking, Freed
    <3> QED BY <1>1, <2>1, <3>2, GoParts, Zenon
  <2>b. Shape' BY <1>1, <1>3, <1>4, <2>1, ShapeStays, Zenon DEF Goes
  <2> USE <1>1, <1>3, <2>1 DEF Goes, Slots, Cur, Late
  <2>14. MountsInv' BY <1>7, Zenon DEF Inv, CallsInv, MountsInv
  <2>15. BackingInv' BY <1>7, SMT DEF Inv, BackingInv, IsNamed, Taking, Freed
  <2>16. LiveInv' BY <1>7, SMT DEF Inv, KubeletInv, LiveInv, Live, Filesystem
  <2>17. SizesInv' BY GoCur, SizesStay, Zenon
  <2> QED BY <2>a, <2>b, <2>14, <2>15, <2>16, <2>17, Zenon DEF Inv
<1>8. PICK pc : /\ \/ target' # <<>> /\ Fail(c)
                   \/ target' = <<>> /\ Goto(c, pc)
                /\ \/ call[c].pc = "unmount" /\ pc = "return"
                   \/ call[c].pc \in {"unmountAttached", "unmountLoose"} /\ pc \in {"detach", "loose"}
  BY Zenon DEF UnpublishUnmount, UnmountPath, At
<1>9. /\ call[c].pc \in {"unmountAttached", "unmountLoose"} => call[c].pc \in Taking
      /\ pc \in {"detach", "loose"} => pc \in Freed
  BY Zenon DEF Taking, Freed
<1> QED BY <1>6, <1>7, <1>8, <1>9, Zenon

-----------------------------------------------------------------------------
(* The handlers that change a volume or a device *)

\* One volume becomes v, the others stay.
LEMMA VolumeBecomes ==
  ASSUME Volumes, NEW d \in Disks, NEW v, IsVolume(v), v.size \in Nat,
         cinder' = [cinder EXCEPT ![d] = v]
  PROVE  Volumes' /\ cinder'[d] = v /\ \A e \in Disks : e # d => cinder'[e] = cinder[e]
<1> HIDE DEF IsVolume
<1>1. cinder' = [e \in Disks |-> IF e = d THEN v ELSE cinder[e]] BY SMT DEF Volumes
<1> QED BY <1>1, SMT DEF Volumes

\* The state of one volume becomes s.
LEMMA StateBecomes ==
  ASSUME Volumes, NEW d \in Disks, NEW s, cinder' = [cinder EXCEPT ![d].st = s]
  PROVE  /\ Volumes' /\ cinder'[d].st = s /\ cinder'[d].size = cinder[d].size
         /\ \A e \in Disks : e # d => cinder'[e] = cinder[e]
<1> DEFINE v == [st |-> s, size |-> cinder[d].size]
<1>1. IsVolume(cinder[d]) /\ cinder[d].size \in Nat BY Zenon DEF Volumes
<1> DEFINE w == [cinder[d] EXCEPT !.st = s]
<1>2. w = v BY <1>1, SMT DEF IsVolume
<1>3. cinder' = [cinder EXCEPT ![d] = w] BY Zenon
<1>4. IsVolume(v) /\ v.size \in Nat /\ v.st = s /\ v.size = cinder[d].size BY <1>1, Zenon DEF IsVolume
<1> HIDE DEF v, w
<1>5. cinder' = [cinder EXCEPT ![d] = v] BY <1>2, <1>3, Zenon
<1>6. Volumes' /\ cinder'[d] = v /\ \A e \in Disks : e # d => cinder'[e] = cinder[e]
  BY <1>4, <1>5, VolumeBecomes, Zenon
<1> QED BY <1>4, <1>6, Zenon

\* An ephemeral volume is created: the call that did it is the only one that has
\* one, unless an earlier call left its own behind.
LEMMA EphemeralCreateKeeps ==
  ASSUME Inv, NEW c \in Slots, EphemeralCreate(c), UNCHANGED <<fixed, gaveUp>>
  PROVE  Inv'
<1>1. CASE Fail(c) /\ UNCHANGED cinder
  <2>1. Still BY <1>1, Zenon DEF EphemeralCreate, Still, fixed, node
  <2> QED BY <1>1, <2>1, FailStep, Zenon
<1>2. ASSUME NEW d \in Backing, cinder[d].st = "absent",
             cinder' = [cinder EXCEPT ![d] = [st |-> "creating", size |-> 1]],
             GotoWith(c, "available", d)
      PROVE  Inv'
  <2> DEFINE v == [st |-> "creating", size |-> 1]
  <2>1. IsVolume(v) /\ v.size \in Nat /\ v.st = "creating" BY Zenon DEF IsVolume
  <2>2. d \in Disks /\ d # 0 BY <1>2, ConstantsAssumption, SMT DEF Disks, Backing
  <2>3. cinder' = [cinder EXCEPT ![d] = v] BY <1>2, Zenon
  <2> HIDE DEF v
  <2>4. Volumes' /\ cinder'[d] = v /\ \A e \in Disks : e # d => cinder'[e] = cinder[e]
    BY <2>1, <2>2, <2>3, VolumesOfInv, VolumeBecomes, Zenon
  <2>5. cinder'[d].st = "creating" BY <2>1, <2>4, Zenon
  <2>6. Calls' /\ Goes(c, "available", d) BY <1>2, CallsOfInv, GotoGoes, Zenon
  <2>7. /\ call[c].op = "publish" /\ call[c].pc = "create"
        /\ UNCHANGED <<kind, rescan, gaveUp, dev, stage, target, fsSize>>
    BY Zenon DEF EphemeralCreate, At, fixed, node
  <2>8. Ephemeral /\ call[c].d = None BY <2>7, Zenon DEF Inv, CallsInv, CallOK
  <2>9. cinder'[0] = cinder[0] BY <2>2, <2>4, SMT DEF Disks
  <2>10. \A e \in Backing : e # d => cinder'[e] = cinder[e] BY <2>4, Zenon DEF Disks
  <2>a. CallsInv' /\ KubeletInv'
    <3>1. CallOK(call'[c]) BY <1>2, <2>6, <2>7, <2>8, SMT DEF Goes, CallOK, Holding, Taking, Freed
    <3> QED BY <2>1, <2>7, <2>8, <2>6, <2>9, <3>1, GoParts, Zenon
  <2>b. Shape' BY <2>1, <2>4, <2>6, <2>7, ShapeStays, Zenon DEF Goes
  <2> USE <1>2, <2>5, <2>6, <2>7, <2>8, <2>9, <2>10 DEF Goes, Slots, Cur, Late
  <2>14. MountsInv' BY GoCur, MountsStay, Zenon
  <2>15. BackingInv'
    BY ConstantsAssumption, SMT DEF Inv, CallsInv, BackingInv, IsNamed, Backing
  <2>16. LiveInv'
    <3>1. Live' => Live BY Zenon DEF Live
    <3>2. ASSUME Live PROVE \A s \in Slots : call'[s].op = "publish" /\ call'[s].pc = "mount" =>
                              cinder'[call'[s].d].st = "in-use"
      <4> SUFFICES ASSUME NEW s \in Slots, call'[s].op = "publish", call'[s].pc = "mount"
                   PROVE  cinder'[call'[s].d].st = "in-use"
        OBVIOUS
      <4>1. call'[s] = call[s] BY Zenon
      <4>2. call[s].d \in Backing BY <4>1, SMT DEF Inv, CallsInv, CallOK, Holding
      <4>3. cinder[call[s].d].st = "in-use" BY <3>2, <4>1, Zenon DEF Inv, LiveInv
      <4> QED BY <4>1, <4>2, <4>3, SMT
    <3>3. ASSUME Live, "unstage" \notin gaveUp, target # <<>> PROVE Good(target[1])'
      <4>1. target[1] \in Mounts BY <3>3, SMT DEF Inv, Shape
      <4>2. target[1][2] \in Backing BY <4>1, SMT DEF Mounts, Ephemeral
      <4>3. cinder[target[1][2]].st = "in-use" BY <3>3, Zenon DEF Inv, LiveInv, Good
      <4> QED BY <4>2, <4>3, SMT DEF Good, Ephemeral
    <3> QED BY <3>1, <3>2, <3>3, SMT DEF Inv, LiveInv, Filesystem, Ephemeral
  <2>17. SizesInv' BY Zenon DEF SizesInv, Ephemeral
  <2> QED BY <2>a, <2>b, <2>14, <2>15, <2>16, <2>17, Zenon DEF Inv
<1> QED BY <1>1, <1>2, Zenon DEF EphemeralCreate

\* What a pod relies on is not touched by a change of a volume that is not in use,
\* or of any volume once the pod is gone.
LEMMA GoodStays ==
  ASSUME Inv, Ephemeral, kind' = kind, target' = target, NEW d \in Backing,
         \A e \in Backing : e # d => cinder'[e] = cinder[e],
         cinder[d].st # "in-use",
         Live, "unstage" \notin gaveUp, target # <<>>
  PROVE  Good(target[1])'
<1>1. target[1] \in Mounts BY SMT DEF Inv, Shape
<1>2. target[1][2] \in Backing BY <1>1, Zenon DEF Mounts, Ephemeral
<1>3. cinder[target[1][2]].st = "in-use" BY Zenon DEF Inv, LiveInv, Good
<1> QED BY <1>2, <1>3, SMT DEF Good, Ephemeral

\* The ephemeral volume is attached.
LEMMA EphemeralAttachKeeps ==
  ASSUME Inv, NEW c \in Slots, EphemeralAttach(c), UNCHANGED <<fixed, gaveUp>>
  PROVE  Inv'
<1>1. CASE Fail(c) /\ UNCHANGED cinder
  <2>1. Still BY <1>1, Zenon DEF EphemeralAttach, Still, fixed, node
  <2> QED BY <1>1, <2>1, FailStep, Zenon
<1>2. ASSUME NEW d, d = call[c].d, cinder[d].st = "available",
             cinder' = [cinder EXCEPT ![d].st = "attaching"], Goto(c, "attached")
      PROVE  Inv'
  <2>1. /\ call[c].op = "publish" /\ call[c].pc = "available"
        /\ UNCHANGED <<kind, rescan, gaveUp, dev, stage, target, fsSize>>
    BY Zenon DEF EphemeralAttach, At, fixed, node
  <2>2. Ephemeral /\ d \in Backing BY <1>2, <2>1, SMT DEF Inv, CallsInv, CallOK, Holding
  <2>3. d \in Disks /\ d # 0 BY <2>2, ConstantsAssumption, SMT DEF Disks, Backing
  <2>4. /\ Volumes' /\ cinder'[d].st = "attaching" /\ cinder'[d].size = cinder[d].size
        /\ \A e \in Disks : e # d => cinder'[e] = cinder[e]
    BY <1>2, <2>3, VolumesOfInv, StateBecomes, Zenon
  <2>6. Calls' /\ Goes(c, "attached", d) BY <1>2, CallsOfInv, GotoGoes, Zenon DEF Goto
  <2>9. cinder'[0] = cinder[0] BY <2>3, <2>4, SMT DEF Disks
  <2>10. \A e \in Backing : e # d => cinder'[e] = cinder[e] BY <2>4, Zenon DEF Disks
  <2>a. CallsInv' /\ KubeletInv'
    <3>1. CallOK(call'[c]) BY <2>1, <2>2, <2>6, SMT DEF Goes, CallOK, Holding, Taking, Freed
    <3> QED BY <2>1, <2>2, <2>6, <2>9, <3>1, GoParts, Zenon
  <2>b. Shape' BY <2>1, <2>4, <2>6, ShapeStays, Zenon DEF Goes
  <2> USE <2>1, <2>2, <2>6, <2>9 DEF Goes, Slots, Cur, Late
  <2>14. MountsInv' BY GoCur, MountsStay, Zenon
  <2>15. BackingInv'
    <3>1. \A e \in Backing : IsNamed(e)' => IsNamed(e) BY <1>2, <2>10, Zenon DEF IsNamed
    <3> QED BY <1>2, <3>1, GoCur, BackingStays, Zenon
  <2>16. LiveInv'
    <3>1. Live' => Live BY Zenon DEF Live
    <3>2. ASSUME Live PROVE \A s \in Slots : call'[s].op = "publish" /\ call'[s].pc = "mount" =>
                              cinder'[call'[s].d].st = "in-use"
      BY <1>2, <2>10, <3>2, SMT DEF Inv, CallsInv, CallOK, LiveInv, Holding
    <3>3. Live /\ "unstage" \notin gaveUp /\ target # <<>> => Good(target[1])'
      BY <1>2, <2>10, GoodStays, SMT
    <3> QED BY <3>1, <3>2, <3>3, SMT DEF Inv, LiveInv, Filesystem, Ephemeral
  <2>17. SizesInv' BY Zenon DEF SizesInv, Ephemeral
  <2> QED BY <2>a, <2>b, <2>14, <2>15, <2>16, <2>17, Zenon DEF Inv
<1> QED BY <1>1, <1>2, Zenon DEF EphemeralAttach

\* A pod whose volume is taken away does not live any more.
LEMMA UnpublishedIsDead ==
  ASSUME Inv, NEW c \in Slots, call[c].op = "unpublish"
  PROVE  ~Live
BY Zenon DEF Inv, KubeletInv, Live, Slots, Cur, Late

\* The ephemeral volume is detached, when its path is free.
LEMMA EphemeralDetachKeeps ==
  ASSUME Inv, NEW c \in Slots, EphemeralDetach(c), UNCHANGED <<fixed, gaveUp>>
  PROVE  Inv'
<1>1. CASE Fail(c) /\ UNCHANGED cinder
  <2>1. Still BY <1>1, Zenon DEF EphemeralDetach, Still, fixed, node
  <2> QED BY <1>1, <2>1, FailStep, Zenon
<1>2. ASSUME NEW d, d = call[c].d, At(c, "unpublish", "detach"), cinder[d].st \in {"in-use", "available"},
             cinder' = [cinder EXCEPT ![d].st = IF cinder[d].st = "in-use" THEN "detaching" ELSE cinder[d].st],
             Goto(c, "detached")
      PROVE  Inv'
  <2> DEFINE s == IF cinder[d].st = "in-use" THEN "detaching" ELSE cinder[d].st
  <2>1. /\ call[c].op = "unpublish" /\ call[c].pc = "detach"
        /\ UNCHANGED <<kind, rescan, gaveUp, dev, stage, target, fsSize>>
    BY <1>2, Zenon DEF EphemeralDetach, At, fixed, node
  <2>2. d \in Backing BY <1>2, <2>1, SMT DEF Inv, CallsInv, CallOK, Taking, Freed
  <2>2a. Ephemeral BY <1>2, <2>2, SMT DEF Inv, CallsInv
  <2>3. d \in Disks /\ d # 0 BY <2>2, ConstantsAssumption, SMT DEF Disks, Backing
  <2>3a. cinder' = [cinder EXCEPT ![d].st = s] BY <1>2, Zenon
  <2>3b. s \in {"detaching", "available"} BY <1>2, Zenon
  <2> HIDE DEF s
  <2>4. /\ Volumes' /\ cinder'[d].st = s /\ cinder'[d].size = cinder[d].size
        /\ \A e \in Disks : e # d => cinder'[e] = cinder[e]
    BY <2>3, <2>3a, VolumesOfInv, StateBecomes, Zenon
  <2>6. Calls' /\ Goes(c, "detached", d) BY <1>2, CallsOfInv, GotoGoes, Zenon DEF Goto
  <2>9. cinder'[0] = cinder[0] BY <2>3, <2>4, Zenon DEF Disks
  <2>10. \A e \in Backing : e # d => cinder'[e] = cinder[e] BY <2>4, Zenon DEF Disks
  <2>a. CallsInv' /\ KubeletInv'
    <3>1. CallOK(call'[c]) BY <2>1, <2>2, <2>6, SMT DEF Goes, CallOK, Holding, Taking, Freed
    <3> QED BY <2>1, <2>2a, <2>6, <2>9, <3>1, GoParts, Zenon
  <2>b. Shape' BY <2>1, <2>4, <2>6, ShapeStays, Zenon DEF Goes
  <2> USE <2>1, <2>2, <2>2a, <2>6, <2>9 DEF Goes, Slots, Cur, Late
  <2>14. MountsInv' BY GoCur, MountsStay, Zenon DEF Freed
  <2>15. BackingInv'
    <3>1. \A e \in Backing : IsNamed(e)' => IsNamed(e) BY <1>2, <2>10, Zenon DEF IsNamed
    <3>2. call[c].pc \in Taking BY Zenon DEF Taking, Freed
    <3> QED BY <1>2, <3>1, <3>2, GoCur, BackingStays, Zenon
  <2>16. LiveInv'
    <3>1. ~Live' BY UnpublishedIsDead, SMT DEF Live
    <3> QED BY <3>1, SMT DEF Inv, LiveInv, Filesystem, Ephemeral
  <2>17. SizesInv' BY Zenon DEF SizesInv, Ephemeral
  <2> QED BY <2>a, <2>b, <2>14, <2>15, <2>16, <2>17, Zenon DEF Inv
<1> QED BY <1>1, <1>2, Zenon DEF EphemeralDetach

\* The ephemeral volume is deleted: no other one is left.
LEMMA EphemeralDeleteKeeps ==
  ASSUME Inv, NEW c \in Slots, EphemeralDelete(c), UNCHANGED <<fixed, gaveUp>>
  PROVE  Inv'
<1>1. CASE Fail(c) /\ UNCHANGED cinder
  <2>1. Still BY <1>1, Zenon DEF EphemeralDelete, Still, fixed, node
  <2> QED BY <1>1, <2>1, FailStep, Zenon
<1>2. CASE cinder[call[c].d].st \in {"absent", "deleting"} /\ Answer(c) /\ UNCHANGED cinder
  <2>1. Still BY <1>2, Zenon DEF EphemeralDelete, Still, fixed, node
  <2>2. MayAnswer(c) BY <1>2, Zenon DEF EphemeralDelete, At, MayAnswer, IsNamed
  <2> QED BY <1>2, <2>1, <2>2, AnswerStep, Zenon
<1>3. ASSUME NEW d, d = call[c].d, cinder[d].st = "available",
             cinder' = [cinder EXCEPT ![d].st = "deleting"], Answer(c)
      PROVE  Inv'
  <2>1. /\ call[c].op = "unpublish" /\ call[c].pc = "detached"
        /\ UNCHANGED <<kind, rescan, gaveUp, dev, stage, target, fsSize>>
    BY <1>3, Zenon DEF EphemeralDelete, At, fixed, node
  <2>2. d \in Backing BY <1>3, <2>1, SMT DEF Inv, CallsInv, CallOK, Taking, Freed
  <2>2a. Ephemeral BY <1>3, <2>2, SMT DEF Inv, CallsInv
  <2>3. d \in Disks /\ d # 0 BY <2>2, ConstantsAssumption, SMT DEF Disks, Backing
  <2>4. /\ Volumes' /\ cinder'[d].st = "deleting" /\ cinder'[d].size = cinder[d].size
        /\ \A e \in Disks : e # d => cinder'[e] = cinder[e]
    BY <1>3, <2>3, VolumesOfInv, StateBecomes, Zenon
  <2>6. Calls' /\ Answered(c) BY <1>3, CallsOfInv, AnswerAnswered, Zenon
  <2>9. cinder'[0] = cinder[0] BY <2>3, <2>4, SMT DEF Disks
  <2>10. \A e \in Backing : e # d => cinder'[e] = cinder[e] BY <2>4, Zenon DEF Disks
  <2>a. CallsInv' BY <2>1, <2>2a, <2>6, <2>9, OverCalls, Zenon DEF Answered
  <2>b. Shape' BY <2>1, <2>4, <2>6, ShapeStays, Zenon DEF Answered
  <2> USE <2>1, <2>2, <2>2a, <2>6, <2>9 DEF Answered, Over, NoCall, Slots, Cur, Late
  <2>13. KubeletInv' BY SMT DEF Inv, KubeletInv, Ephemeral
  <2>14. MountsInv' BY SMT DEF Inv, CallsInv, MountsInv, Freed
  <2>15. BackingInv'
    BY <1>3, <2>4, <2>10, SMT DEF Inv, CallsInv, BackingInv, IsNamed, Taking, Freed
  <2>16. LiveInv'
    <3>1. ~Live' BY UnpublishedIsDead, SMT DEF Inv, KubeletInv, Live
    <3> QED BY <3>1, SMT DEF Inv, KubeletInv, LiveInv, Filesystem, Ephemeral
  <2>17. SizesInv' BY Zenon DEF SizesInv, Ephemeral
  <2> QED BY <2>a, <2>b, <2>13, <2>14, <2>15, <2>16, <2>17, Zenon DEF Inv
<1> QED BY <1>1, <1>2, <1>3, Zenon DEF EphemeralDelete

\* A device that is scanned again shows the size of its volume.
LEMMA RescanKeeps ==
  ASSUME Inv, NEW c \in Slots, RescanBlockDeviceGeometry(c), UNCHANGED <<fixed, gaveUp>>
  PROVE  Inv'
<1>1. CASE Fail(c) /\ UNCHANGED dev
  <2>1. Still BY <1>1, Zenon DEF RescanBlockDeviceGeometry, Still, fixed, node
  <2> QED BY <1>1, <2>1, FailStep, Zenon
<1>2. call[c].op = "expand" /\ UNCHANGED <<kind, rescan, gaveUp, cinder, stage, target, fsSize>>
  BY Zenon DEF RescanBlockDeviceGeometry, At, fixed, node
<1>3. /\ Filesystem /\ ~Ephemeral
      /\ dev[0] \in Nat /\ cinder[0].size \in Nat /\ call[c].size \in Nat
      /\ call[c].size > 0 /\ call[c].size <= cinder[0].size
  <2>1. Filesystem /\ ~Ephemeral BY <1>2, SMT DEF Inv, CallsInv, CallOK, Filesystem, Ephemeral
  <2>2. dev[0] \in Nat /\ cinder[0].size \in Nat /\ call[c].size \in Nat BY NumbersOfInv, Zenon
  <2>3. ExpandOK(call[c]) BY <2>1, Zenon DEF Inv, SizesInv
  <2> QED BY <1>2, <2>1, <2>2, <2>3, Zenon DEF ExpandOK
<1>4. CASE (~rescan \/ call[c].size = 0 \/ checkBlockDeviceSize(call[c].size)) /\ Goto(c, "resize") /\ UNCHANGED dev
  <2>1. Still BY <1>2, <1>4, Zenon DEF Still
  <2>2. MayGo(c, "resize", call[c].d)
    <3>1. CallOK([op |-> call[c].op, pc |-> "resize", d |-> call[c].d, size |-> call[c].size])
      BY <1>2, <1>3, Zenon DEF CallOK
    <3>2. rescan /\ dev[0] # 0 => dev[0] >= call[c].size BY <1>3, <1>4, SMT DEF checkBlockDeviceSize
    <3> QED BY <1>2, <3>1, <3>2, Zenon DEF MayGo
  <2> QED BY <1>4, <2>1, <2>2, GotoStep, Zenon
<1>5. CASE /\ rescan /\ dev' = [dev EXCEPT ![0] = cinder[0].size]
           /\ IF dev'[0] >= call[c].size THEN Goto(c, "resize") ELSE Fail(c)
  <2>1. dev' \in [Disks -> Nat] /\ dev'[0] = cinder[0].size BY <1>3, <1>5, Zenon DEF Inv, Shape, Disks
  <2>2. dev'[0] >= call[c].size BY <1>3, <2>1, Zenon
  <2>3. Calls' /\ Goes(c, "resize", call[c].d) BY <1>5, <2>2, CallsOfInv, GotoGoes, Zenon DEF Goto
  <2>a. CallsInv' /\ KubeletInv'
    <3>1. CallOK(call'[c]) BY <1>2, <1>3, <2>3, SMT DEF Goes, CallOK
    <3> QED BY <1>2, <2>3, <3>1, GoParts, Zenon
  <2>b. Shape' BY <1>2, <2>1, <2>3, ShapeStays, Zenon DEF Goes
  <2> USE <1>2, <1>3, <2>1, <2>2, <2>3 DEF Goes, Slots, Cur, Late
  <2>14. MountsInv' BY GoCur, MountsStay, Zenon
  <2>15. BackingInv' BY GoCur, BackingStays, Zenon DEF IsNamed
  <2>16. LiveInv' BY GoCur, LiveStays, Zenon
  <2>17. SizesInv' BY SMT DEF Inv, Shape, SizesInv, ExpandOK, FirstSize, Found, Ephemeral, Filesystem
  <2> QED BY <2>a, <2>b, <2>14, <2>15, <2>16, <2>17, Zenon DEF Inv
<1> QED BY <1>1, <1>4, <1>5, Zenon DEF RescanBlockDeviceGeometry

\* Every step of a handler keeps the invariant.
LEMMA HandlerKeeps ==
  ASSUME Inv, NEW c \in Slots, Handler(c)
  PROVE  Inv'
BY GetVolumeKeeps, StageDeviceKeeps, FormatAndMountKeeps, ResizeKeeps, UnstageUnmountKeeps,
   PublishGetVolumeKeeps, PublishBindKeeps, PublishBlockKeeps, EphemeralLooksKeeps,
   EphemeralCreateKeeps, EphemeralAttachKeeps, EphemeralMountKeeps,
   UnpublishGetVolumeKeeps, UnpublishUnmountKeeps, EphemeralDetachKeeps, EphemeralDeleteKeeps,
   ReturnKeeps, RescanKeeps, Zenon DEF Handler

-----------------------------------------------------------------------------
(* The cloud and the kernel *)

Elsewhere ==
  UNCHANGED <<kind, rescan, fsSize, stage, target, wanted, st, pb, grown, call, gaveUp, undone>>

\* Cinder finishes its work on an ephemeral volume, which is not in use meanwhile.
LEMMA BackingMoves ==
  ASSUME Inv, Elsewhere, NEW d \in Backing, Ephemeral, Volumes', dev' \in [Disks -> Nat],
         \A e \in Disks : e # d => cinder'[e] = cinder[e],
         cinder[d].st # "in-use", IsNamed(d)' => IsNamed(d)
  PROVE  Inv'
<1>1. cinder'[0] = cinder[0] BY ConstantsAssumption, SMT DEF Disks, Backing
<1>2. \A e \in Backing : e # d => cinder'[e] = cinder[e] BY Zenon DEF Disks
<1>a. Shape' BY ShapeStays, Zenon DEF Elsewhere
<1>b. CallsInv' BY <1>1, SameCalls, CallsStay, Zenon DEF Elsewhere
<1>c. KubeletInv' BY <1>1, SameCalls, KubeletStays, Zenon DEF Elsewhere
<1> USE DEF Elsewhere, Slots, Cur, Late
<1>14. MountsInv' BY SameCalls, MountsStay, Zenon
<1>15. BackingInv'
  <2>1. \A e \in Backing : IsNamed(e)' => IsNamed(e) BY <1>2, Zenon DEF IsNamed
  <2> HIDE DEF IsNamed
  <2> QED BY <2>1, Zenon DEF Inv, BackingInv
<1>16. LiveInv'
  <2>1. Live' = Live BY Zenon DEF Live
  <2>2. ASSUME Live PROVE \A s \in Slots : call'[s].op = "publish" /\ call'[s].pc = "mount" =>
                            cinder'[call'[s].d].st = "in-use"
    BY <1>2, <2>2, SMT DEF Inv, CallsInv, CallOK, LiveInv, Holding
  <2>3. Live /\ "unstage" \notin gaveUp /\ target # <<>> => Good(target[1])'
    BY <1>2, GoodStays, Zenon
  <2> QED BY <2>1, <2>2, <2>3, SMT DEF Inv, LiveInv, Filesystem, Ephemeral
<1>17. SizesInv' BY Zenon DEF SizesInv, Ephemeral
<1> QED BY <1>a, <1>b, <1>c, <1>14, <1>15, <1>16, <1>17, Zenon DEF Inv

\* The persistent volume changes its state, but not while the kubelet uses it; or
\* it grows, or disappears.  Its device shows a size of the volume.
LEMMA PersistentMoves ==
  ASSUME Inv, Elsewhere, ~Ephemeral, Volumes', dev' \in [Disks -> Nat],
         \A e \in Disks : e # 0 => cinder'[e] = cinder[e],
         cinder'[0].size >= cinder[0].size, cinder'[0].st # "deleting",
         \/ cinder'[0].st = cinder[0].st
         \/ cinder'[0].st = "gone"
         \/ cinder[0].st = "in-use" /\ st = "no" /\ Cur = NoCall
         \/ cinder[0].st \notin {"in-use", "gone"},
         \/ dev'[0] = dev[0]
         \/ dev'[0] = cinder'[0].size
         \/ dev'[0] = 0 /\ (cinder'[0].st = "gone" \/ cinder[0].st \notin {"in-use", "gone"})
  PROVE  Inv'
<1>1. \A e \in Backing : cinder'[e] = cinder[e] BY ConstantsAssumption, SMT DEF Disks, Backing
<1>2. cinder[0].size \in Nat /\ cinder'[0].size \in Nat /\ dev[0] \in Nat /\ dev'[0] \in Nat
      /\ fsSize \in Nat /\ grown \in Nat
  <2>1. dev'[0] \in Nat BY NumbersOfInv, Zenon
  <2>2. cinder'[0].size \in Nat BY NumbersOfInv, Zenon DEF Volumes
  <2> QED BY <2>1, <2>2, NumbersOfInv, Zenon
<1>a. Shape' BY ShapeStays, Zenon DEF Elsewhere
<1>b. CallsInv' BY <1>1, SameCalls, CallsStay, Zenon DEF Elsewhere
<1> USE DEF Elsewhere, Slots, Cur, Late
<1>13. KubeletInv' BY SMT DEF Inv, KubeletInv, Ephemeral, NoCall
<1>14. MountsInv' BY SameCalls, MountsStay, Zenon
<1>15. BackingInv' BY <1>1, SameCalls, BackingStays, Zenon DEF IsNamed
<1>16. LiveInv' BY SameCalls, LiveStays, Zenon
<1>17. SizesInv'
  <2>1. \A s \in Slots : call[s].op = "expand" => call[s].size \in Nat BY Zenon DEF Inv, Shape
  <2> QED BY <1>2, <2>1, SMT DEF Inv, KubeletInv, SizesInv, ExpandOK, FirstSize, Found, Ephemeral, Filesystem, NoCall
<1> QED BY <1>a, <1>b, <1>13, <1>14, <1>15, <1>16, <1>17, Zenon DEF Inv

\* A device of size n shows, or disappears.
LEMMA DeviceBecomes ==
  ASSUME dev \in [Disks -> Nat], NEW d \in Disks, NEW n \in Nat, dev' = [dev EXCEPT ![d] = n]
  PROVE  dev' \in [Disks -> Nat] /\ dev'[d] = n /\ \A e \in Disks : e # d => dev'[e] = dev[e]
BY Zenon

\* Cinder and Nova finish what they were asked for.
LEMMA CloudStepKeeps ==
  ASSUME Inv, NEW d \in Disks, CloudStep(d)
  PROVE  Inv'
<1> DEFINE k == cinder[d]
           v == CASE k.st = "deleting" -> Absent
                  [] k.st = "attaching" -> [k EXCEPT !.st = "in-use"]
                  [] OTHER -> [k EXCEPT !.st = "available"]
           n == IF cinder[d].st = "detaching" THEN 0 ELSE dev[d]
<1>1. IsVolume(k) /\ k.size \in Nat /\ dev \in [Disks -> Nat] BY Zenon DEF Inv, Shape
<1>2. /\ IsVolume(v) /\ v.size \in Nat
      /\ k.st = "deleting" => v.st = "absent"
      /\ k.st # "deleting" => v.size = k.size /\ v.st \in {"in-use", "available"}
  <2> HIDE DEF k
  <2>1. CASE k.st = "deleting"
    <3>1. v = Absent BY <2>1, Zenon
    <3> HIDE DEF v
    <3> QED BY <2>1, <3>1, Zenon DEF Absent, IsVolume
  <2>2. CASE k.st = "attaching"
    <3>1. v = [k EXCEPT !.st = "in-use"] BY <2>2, Zenon
    <3> HIDE DEF v
    <3> QED BY <1>1, <2>2, <3>1, SMT DEF IsVolume
  <2>3. CASE k.st # "deleting" /\ k.st # "attaching"
    <3>1. v = [k EXCEPT !.st = "available"] BY <2>3, Zenon
    <3> HIDE DEF v
    <3> QED BY <1>1, <2>3, <3>1, SMT DEF IsVolume
  <2> QED BY <2>1, <2>2, <2>3
<1>3. n \in Nat BY <1>1, Zenon
<1>4. /\ k.st \in {"creating", "attaching", "detaching", "deleting"} /\ Elsewhere
      /\ cinder' = [cinder EXCEPT ![d] = v] /\ dev' = [dev EXCEPT ![d] = n]
  BY Zenon DEF CloudStep, Elsewhere, fixed, node, kubelet
<1> HIDE DEF v
<1>5. Volumes' /\ cinder'[d] = v /\ \A e \in Disks : e # d => cinder'[e] = cinder[e]
  BY <1>2, <1>4, VolumesOfInv, VolumeBecomes, Zenon
<1>6. n = 0 \/ n = dev[d] BY Zenon
<1>7. n = 0 => cinder[d].st = "detaching" \/ n = dev[d] BY Zenon
<1> HIDE DEF n
<1>8. dev' \in [Disks -> Nat] /\ dev'[d] = n BY <1>1, <1>3, <1>4, DeviceBecomes, Zenon
<1>9. CASE d \in Backing
  <2>1. Ephemeral BY <1>4, <1>9, Zenon DEF Inv, CallsInv
  <2>2. IsNamed(d)' => IsNamed(d) BY <1>2, <1>4, <1>5, Zenon DEF IsNamed
  <2>3. cinder[d].st # "in-use" BY <1>4, Zenon
  <2> QED BY <1>4, <1>5, <1>8, <1>9, <2>1, <2>2, <2>3, BackingMoves, Zenon
<1>10. CASE d = 0
  <2>1. ~Ephemeral /\ cinder[0].st # "deleting" BY <1>4, <1>10, Zenon DEF Inv, CallsInv
  <2>2. cinder'[0].size >= cinder[0].size /\ cinder'[0].st # "deleting"
    BY <1>1, <1>2, <1>5, <1>10, <2>1, SMT
  <2>3. cinder[0].st \notin {"in-use", "gone"} BY <1>4, <1>10, Zenon
  <2>4. dev'[0] = dev[0] \/ dev'[0] = 0 BY <1>6, <1>8, <1>10
  <2> QED BY <1>4, <1>5, <1>8, <1>10, <2>1, <2>2, <2>3, <2>4, PersistentMoves, Zenon
<1> QED BY <1>9, <1>10, Zenon DEF Disks

\* The creation of an ephemeral volume ends in an error.
LEMMA CreationFailsKeeps ==
  ASSUME Inv, NEW d \in Disks, CreationFails(d)
  PROVE  Inv'
<1>1. /\ cinder[d].st = "creating" /\ Elsewhere /\ dev' = dev
      /\ cinder' = [cinder EXCEPT ![d].st = "error"]
  BY Zenon DEF CreationFails, Elsewhere, fixed, node, kubelet
<1>2. /\ Volumes' /\ cinder'[d].st = "error" /\ cinder'[d].size = cinder[d].size
      /\ \A e \in Disks : e # d => cinder'[e] = cinder[e]
  BY <1>1, VolumesOfInv, StateBecomes, Zenon
<1>3. dev' \in [Disks -> Nat] BY <1>1, Zenon DEF Inv, Shape
<1>4. CASE d \in Backing
  <2>1. Ephemeral BY <1>1, <1>4, Zenon DEF Inv, CallsInv
  <2>2. IsNamed(d)' => IsNamed(d) BY <1>1, Zenon DEF IsNamed
  <2>3. cinder[d].st # "in-use" BY <1>1, Zenon
  <2> QED BY <1>1, <1>2, <1>3, <1>4, <2>1, <2>2, <2>3, BackingMoves, Zenon
<1>5. CASE d = 0
  <2>1. ~Ephemeral BY <1>1, <1>5, Zenon DEF Inv, CallsInv
  <2>2. cinder'[0].size >= cinder[0].size /\ cinder'[0].st # "deleting"
    BY <1>2, <1>5, NumbersOfInv, SMT
  <2>3. cinder[0].st \notin {"in-use", "gone"} BY <1>1, <1>5, Zenon
  <2>4. dev'[0] = dev[0] BY <1>1, Zenon
  <2> QED BY <1>1, <1>2, <1>3, <1>5, <2>1, <2>2, <2>3, <2>4, PersistentMoves, Zenon
<1> QED BY <1>4, <1>5, Zenon DEF Disks

\* The device of an attached volume shows, or the kernel learns of a new size.
LEMMA DeviceKeeps ==
  ASSUME Inv, NEW d \in Disks, DeviceShows(d) \/ (d = 0 /\ KernelNotices)
  PROVE  Inv'
<1>1. Elsewhere /\ cinder' = cinder /\ dev' = [dev EXCEPT ![d] = cinder[d].size]
  BY Zenon DEF DeviceShows, KernelNotices, Elsewhere, fixed, node, kubelet
<1>2. cinder[d].size \in Nat /\ dev \in [Disks -> Nat] BY Zenon DEF Inv, Shape
<1>3. /\ dev' \in [Disks -> Nat] /\ dev'[d] = cinder[d].size
      /\ \A e \in Disks : e # d => dev'[e] = dev[e]
  BY <1>1, <1>2, DeviceBecomes, Zenon
<1>4. CASE ~Ephemeral
  <2>1. Volumes' BY <1>1, VolumesOfInv, Zenon DEF Volumes
  <2>2. cinder'[0].size >= cinder[0].size /\ cinder'[0].st = cinder[0].st /\ cinder'[0].st # "deleting"
    BY <1>1, NumbersOfInv, SMT DEF Inv, CallsInv
  <2>3. dev'[0] = dev[0] \/ dev'[0] = cinder'[0].size BY <1>1, <1>3, NumbersOfInv, Zenon
  <2>4. \A e \in Disks : e # 0 => cinder'[e] = cinder[e] BY <1>1, Zenon
  <2> QED BY <1>1, <1>3, <1>4, <2>1, <2>2, <2>3, <2>4, PersistentMoves, Zenon
<1>5. CASE Ephemeral
  <2>a. Shape' BY <1>1, <1>3, ShapeStays, Zenon DEF Elsewhere
  <2>b. CallsInv' BY <1>1, <1>5, SameCalls, CallsStay, Zenon DEF Elsewhere
  <2>c. KubeletInv' BY <1>1, SameCalls, KubeletStays, Zenon DEF Elsewhere
  <2> USE <1>1, <1>5 DEF Elsewhere, Slots, Cur, Late
  <2>14. MountsInv' BY SameCalls, MountsStay, Zenon
  <2>15. BackingInv' BY SameCalls, BackingStays, Zenon DEF IsNamed
  <2>16. LiveInv' BY SameCalls, LiveStays, Zenon
  <2>17. SizesInv' BY Zenon DEF SizesInv, Ephemeral
  <2> QED BY <2>a, <2>b, <2>c, <2>14, <2>15, <2>16, <2>17, Zenon DEF Inv
<1> QED BY <1>4, <1>5, Zenon

\* The attach/detach controller detaches only what the kubelet does not hold.
LEMMA AttachDetachKeeps ==
  ASSUME Inv, AttachDetach
  PROVE  Inv'
<1>1. PICK s \in {"attaching", "detaching"} :
        /\ cinder' = [cinder EXCEPT ![0].st = s]
        /\ \/ cinder[0].st = "available"
           \/ cinder[0].st = "in-use" /\ st = "no" /\ Cur = NoCall
  BY Zenon DEF AttachDetach, Cur
<1>2. ~Ephemeral /\ Elsewhere /\ dev' = dev
  BY Zenon DEF AttachDetach, Elsewhere, fixed, node, kubelet
<1>3. /\ Volumes' /\ cinder'[0].st = s /\ cinder'[0].size = cinder[0].size
      /\ \A e \in Disks : e # 0 => cinder'[e] = cinder[e]
  BY <1>1, VolumesOfInv, NumbersOfInv, StateBecomes, Zenon
<1>4. dev' \in [Disks -> Nat] /\ dev'[0] = dev[0] BY <1>2, Zenon DEF Inv, Shape
<1>5. cinder'[0].size >= cinder[0].size /\ cinder'[0].st # "deleting" BY <1>1, <1>3, NumbersOfInv, SMT
<1>6. \/ cinder[0].st = "in-use" /\ st = "no" /\ Cur = NoCall
      \/ cinder[0].st \notin {"in-use", "gone"}
  BY <1>1, Zenon
<1> QED BY <1>2, <1>3, <1>4, <1>5, <1>6, PersistentMoves, Zenon

\* The volume is deleted by somebody else.
LEMMA VolumeVanishesKeeps ==
  ASSUME Inv, VolumeVanishes
  PROVE  Inv'
<1>1. /\ Elsewhere /\ Found /\ cinder' = [cinder EXCEPT ![0].st = "gone"]
      /\ dev' = [dev EXCEPT ![0] = 0]
  BY Zenon DEF VolumeVanishes, Elsewhere, fixed, node, kubelet
<1>2. ~Ephemeral BY <1>1, Zenon DEF Inv, CallsInv, Found
<1>3. /\ Volumes' /\ cinder'[0].st = "gone" /\ cinder'[0].size = cinder[0].size
      /\ \A e \in Disks : e # 0 => cinder'[e] = cinder[e]
  BY <1>1, VolumesOfInv, NumbersOfInv, StateBecomes, Zenon
<1>4. dev' \in [Disks -> Nat] /\ dev'[0] = 0
  <2>1. 0 \in Nat /\ 0 \in Disks /\ dev \in [Disks -> Nat] BY NumbersOfInv, Zenon DEF Inv, Shape
  <2> QED BY <1>1, <2>1, DeviceBecomes, Zenon
<1>5. cinder'[0].size >= cinder[0].size /\ cinder'[0].st # "deleting" BY <1>3, NumbersOfInv, SMT
<1> QED BY <1>1, <1>2, <1>3, <1>4, <1>5, PersistentMoves, Zenon

\* The volume is grown by the controller service.
LEMMA VolumeGrowsKeeps ==
  ASSUME Inv, VolumeGrows
  PROVE  Inv'
<1> DEFINE k == cinder[0]
           v == [k EXCEPT !.size = MaxSize]
<1>1. /\ Elsewhere /\ Found /\ k.size < MaxSize /\ dev' = dev /\ kind \in {"fs", "clone"}
      /\ cinder' = [cinder EXCEPT ![0] = v]
  <2>1. cinder' = [cinder EXCEPT ![0] = v] BY Zenon DEF VolumeGrows
  <2> QED BY <2>1, Zenon DEF VolumeGrows, Elsewhere, fixed, node, kubelet
<1>2. IsVolume(k) /\ k.size \in Nat /\ MaxSize \in Nat
  BY NumbersOfInv, ConstantsAssumption, Zenon DEF Inv, Shape
<1>3. IsVolume(v) /\ v.size = MaxSize /\ v.st = k.st
  <2> HIDE DEF k
  <2> QED BY <1>2, SMT DEF IsVolume
<1> HIDE DEF v
<1>4. Volumes' /\ cinder'[0] = v /\ \A e \in Disks : e # 0 => cinder'[e] = cinder[e]
  BY <1>1, <1>2, <1>3, VolumesOfInv, NumbersOfInv, VolumeBecomes, Zenon
<1>5. dev' \in [Disks -> Nat] /\ dev'[0] = dev[0] BY <1>1, Zenon DEF Inv, Shape
<1>6. cinder'[0].size >= cinder[0].size BY <1>1, <1>2, <1>3, <1>4, SMT
<1>7. cinder'[0].st = cinder[0].st /\ cinder'[0].st # "deleting" BY <1>3, <1>4, Zenon DEF Inv, CallsInv
<1>8. ~Ephemeral BY <1>1, Zenon DEF Ephemeral
<1> QED BY <1>1, <1>4, <1>5, <1>6, <1>7, <1>8, PersistentMoves, Zenon

-----------------------------------------------------------------------------
(* The kubelet *)

\* The kubelet calls for what it believes is to be done next.
LEMMA KubeletKeeps ==
  ASSUME Inv, Kubelet
  PROVE  Inv'
<1>1. PICK op, pc :
        /\ Call(op, pc)
        /\ \/ op = "stage" /\ pc = "get" /\ ~Ephemeral /\ cinder[0].st \in {"in-use", "gone"} /\ st # "yes"
           \/ op = "publish" /\ pc = "get" /\ wanted /\ ~Ephemeral /\ st = "yes" /\ pb # "yes"
           \/ op = "publish" /\ pc = "zone" /\ wanted /\ Ephemeral /\ pb # "yes"
           \/ op = "expand" /\ pc = "get" /\ kind \in {"fs", "clone"}
           \/ op = "unpublish" /\ pc = "get" /\ ~wanted /\ pb # "no"
           \/ op = "unstage" /\ pc = "get" /\ ~wanted /\ pb = "no" /\ st # "no"
  BY Zenon DEF Kubelet
<1>2. UNCHANGED <<kind, rescan, cinder, dev, fsSize, stage, target, wanted, st, pb, grown, gaveUp, undone>>
  BY Zenon DEF Kubelet, fixed, node, kubelet
<1> DEFINE k == [op |-> op, pc |-> pc, d |-> None, size |-> cinder[0].size]
<1>3. IsCall(k) /\ k.op = op /\ k.pc = pc /\ k.d = None /\ k.size = cinder[0].size BY Zenon DEF IsCall
<1>4. Cur = NoCall /\ call' = [call EXCEPT !["cur"] = k] BY <1>1, Zenon DEF Call, Cur
<1> HIDE DEF k
<1>5. Calls' /\ call'["cur"] = k /\ call'["late"] = call["late"]
  <2>1. "cur" \in Slots /\ "late" \in Slots /\ "late" # "cur" BY Zenon DEF Slots
  <2>2. k.size \in Nat BY <1>3, NumbersOfInv, Zenon
  <2> QED BY <1>3, <1>4, <2>1, <2>2, CallsOfInv, CallBecomes, Zenon
<1>6. cinder[0].size \in Nat BY NumbersOfInv
<1>a. Shape' BY <1>2, <1>5, ShapeStays, Zenon
<1>b. CallsInv'
  <2>1. CallOK(k) BY <1>1, <1>3, SMT DEF CallOK, Ephemeral, Filesystem, Holding, Taking, Freed
  <2>2. \A c \in Slots : CallOK(call'[c]) BY <1>5, <2>1, Zenon DEF Slots, Inv, CallsInv
  <2> QED BY <1>2, <1>5, <2>2, CallsStay, Zenon DEF Late
<1> USE <1>2, <1>3, <1>4, <1>5 DEF Slots, Cur, Late, NoCall
<1>13. KubeletInv' BY <1>1, Zenon DEF Inv, KubeletInv, Ephemeral
<1>14. MountsInv' BY <1>1, SMT DEF Inv, MountsInv, Freed
<1>15. BackingInv' BY <1>1, SMT DEF Inv, BackingInv, IsNamed, Taking, Freed
<1>16. LiveInv' BY <1>1, SMT DEF Inv, LiveInv, Live, Good, Ephemeral, Filesystem
<1>17. SizesInv' BY <1>1, <1>6, SMT DEF Inv, SizesInv, ExpandOK, FirstSize, Found, Ephemeral, Filesystem
<1> QED BY <1>a, <1>b, <1>13, <1>14, <1>15, <1>16, <1>17, Zenon DEF Inv

\* A pod is created when nothing of the last one is left, or deleted.
LEMMA PodsKeeps ==
  ASSUME Inv, Pods
  PROVE  Inv'
<1>1. \/ /\ pb = "no" /\ Cur = NoCall /\ target = <<>>
         /\ Late.op \notin {"publish", "unpublish"} /\ wanted'
      \/ wanted /\ ~wanted'
  BY Zenon DEF Pods, Cur, Late
<1>2. UNCHANGED <<kind, rescan, cinder, dev, fsSize, stage, target, st, pb, grown, call, gaveUp, undone>>
  BY Zenon DEF Pods, fixed, node
<1>a. Shape' BY <1>2, ShapeStays, Zenon
<1>b. CallsInv' BY <1>2, SameCalls, CallsStay, Zenon
<1>c. SizesInv' BY <1>2, SameCalls, SizesStay, Zenon
<1> USE <1>2 DEF Slots, Cur, Late, NoCall
<1>13. KubeletInv' BY <1>1, SMT DEF Inv, KubeletInv, Ephemeral
<1>14. MountsInv' BY SameCalls, MountsStay, Zenon
<1>15. BackingInv' BY <1>1, SMT DEF Inv, BackingInv, IsNamed
<1>16. LiveInv' BY <1>1, SMT DEF Inv, LiveInv, Live, Good, Ephemeral, Filesystem
<1> QED BY <1>a, <1>b, <1>c, <1>13, <1>14, <1>15, <1>16, Zenon DEF Inv

\* The deadline of a call passes: it becomes the late one.
LEMMA GiveUpKeeps ==
  ASSUME Inv, GiveUp
  PROVE  Inv'
<1>1. /\ Late = NoCall /\ Unsure(Cur.op) /\ gaveUp' = gaveUp \cup {Cur.op}
      /\ call' = [[call EXCEPT !["cur"] = NoCall] EXCEPT !["late"] = Cur]
  BY Zenon DEF GiveUp, Cur, Late
<1>2. UNCHANGED <<kind, rescan, cinder, dev, fsSize, stage, target, undone>>
  BY Zenon DEF GiveUp, fixed, node
<1>3. Calls' /\ call'["cur"] = NoCall /\ call'["late"] = Cur
  <2>1. IsCall(NoCall) /\ NoCall.size \in Nat BY Zenon DEF NoCall, IsCall
  <2>2. IsCall(Cur) /\ Cur.size \in Nat BY CallsOfInv, Zenon DEF Calls, Slots, Cur
  <2> DEFINE f == [call EXCEPT !["cur"] = NoCall]
  <2> HIDE DEF NoCall, Cur
  <2>3. call = [c \in Slots |-> call[c]] /\ "cur" \in Slots /\ "late" \in Slots
    BY CallsOfInv, Zenon DEF Calls, Slots
  <2>4. f = [c \in Slots |-> IF c = "cur" THEN NoCall ELSE call[c]] BY <2>3, Zenon
  <2>5. call' = [f EXCEPT !["late"] = Cur] BY <1>1, Zenon
  <2> HIDE DEF f
  <2>6. call' = [c \in Slots |-> IF c = "late" THEN Cur ELSE IF c = "cur" THEN NoCall ELSE call[c]]
    BY <2>3, <2>4, <2>5, SMT
  <2>7. call'["cur"] = NoCall /\ call'["late"] = Cur BY <2>3, <2>6, Zenon
  <2> QED BY <2>1, <2>2, <2>6, <2>7, Zenon DEF Calls, Slots
<1>4. /\ wanted' = wanted /\ grown' = grown
      /\ st' = IF Cur.op \in {"stage", "unstage"} THEN "unsure" ELSE st
      /\ pb' = IF Cur.op \in {"publish", "unpublish"} THEN "unsure" ELSE pb
  BY <1>1, Zenon DEF Unsure
<1>a. Shape' BY <1>2, <1>3, <1>4, ShapeStays, Zenon
<1>b. CallsInv'
  <2>1. \A c \in Slots : CallOK(call'[c]) BY <1>3, NoCallOK, Zenon DEF Slots, Cur, Inv, CallsInv
  <2>2. gaveUp \subseteq gaveUp' /\ Late'.op \in gaveUp' BY <1>1, <1>3, SMT DEF Late
  <2> QED BY <1>2, <2>1, <2>2, CallsStay, Zenon
<1>c. SizesInv'
  <2>1. \A c \in Slots : call'[c].op \in {"expand", "stage"} => \E s \in Slots : call'[c] = call[s]
    BY <1>3, NoCallOK, Zenon DEF Slots, Cur
  <2>2. Cur'.op = "none" /\ (st' = "yes" => st = "yes") BY <1>3, <1>4, NoCallOK, Zenon DEF Cur
  <2> QED BY <1>2, <1>4, <2>1, <2>2, SizesStay, Zenon
<1> USE <1>1, <1>2, <1>3, <1>4 DEF Slots, Cur, Late, NoCall
<1>13. KubeletInv' BY SMT DEF Inv, KubeletInv, Ephemeral
<1>14. MountsInv' BY SMT DEF Inv, MountsInv
<1>15. BackingInv' BY Zenon DEF BackingInv
<1>16. LiveInv' BY SMT DEF Inv, KubeletInv, LiveInv, Live, Good, Ephemeral, Filesystem
<1> QED BY <1>a, <1>b, <1>c, <1>13, <1>14, <1>15, <1>16, Zenon DEF Inv

\* No call is in hand.
LEMMA AllOver ==
  ASSUME call' = [c \in Slots |-> NoCall]
  PROVE  Calls' /\ call'["cur"] = NoCall /\ call'["late"] = NoCall
<1>1. IsCall(NoCall) /\ NoCall.size \in Nat BY Zenon DEF NoCall, IsCall
<1> HIDE DEF NoCall
<1> QED BY <1>1, Zenon DEF Calls, Slots

\* The driver is restarted: the kubelet does not know what its call has done.
LEMMA CrashKeeps ==
  ASSUME Inv, Crash
  PROVE  Inv'
<1>1. Calls' /\ call'["cur"] = NoCall /\ call'["late"] = NoCall BY AllOver, Zenon DEF Crash
<1>2. UNCHANGED <<kind, rescan, cinder, dev, fsSize, stage, target, gaveUp>>
  BY Zenon DEF Crash, fixed
<1>3. /\ wanted' = wanted /\ grown' = grown
      /\ st' = IF Cur.op \in {"stage", "unstage"} THEN "unsure" ELSE st
      /\ pb' = IF Cur.op \in {"publish", "unpublish"} THEN "unsure" ELSE pb
  BY Zenon DEF Crash, Unsure, Cur
<1>4. ~undone' => ~undone /\ (Cur.op = "publish" => Cur.d = None)
  BY Zenon DEF Crash, LeavesWork, Slots, Cur
<1>a. Shape' BY <1>1, <1>2, <1>3, ShapeStays, Zenon
<1>b. CallsInv'
  <2>1. \A c \in Slots : CallOK(call'[c]) BY <1>1, NoCallOK, Zenon DEF Slots
  <2>2. Late'.op = "none" BY <1>1, NoCallOK, Zenon DEF Late
  <2> QED BY <1>2, <2>1, <2>2, CallsStay, Zenon
<1>c. SizesInv'
  <2>1. \A c \in Slots : call'[c].op = "none" BY <1>1, NoCallOK, Zenon DEF Slots
  <2>2. Cur'.op = "none" /\ (st' = "yes" => st = "yes") BY <1>1, <1>2, <1>3, NoCallOK, Zenon DEF Cur
  <2> QED BY <1>2, <1>3, <2>1, <2>2, SizesStay, Zenon
<1> USE <1>1, <1>2, <1>3 DEF Slots, Cur, Late, NoCall
<1>13. KubeletInv' BY SMT DEF Inv, KubeletInv, Ephemeral
<1>14. MountsInv' BY <1>4, SMT DEF Inv, MountsInv
<1>15. BackingInv'
  BY <1>4, ConstantsAssumption, SMT DEF Inv, KubeletInv, BackingInv, IsNamed, Backing
<1>16. LiveInv' BY SMT DEF Inv, KubeletInv, LiveInv, Live, Good, Ephemeral, Filesystem
<1> QED BY <1>a, <1>b, <1>c, <1>13, <1>14, <1>15, <1>16, Zenon DEF Inv

\* The node is rebooted: an ephemeral volume is left behind, no mount is.
LEMMA RebootKeeps ==
  ASSUME Inv, Reboot
  PROVE  Inv'
<1>1. Calls' /\ call'["cur"] = NoCall /\ call'["late"] = NoCall BY AllOver, Zenon DEF Reboot
<1>2. /\ UNCHANGED <<kind, rescan, cinder, dev, fsSize, wanted, grown, gaveUp>>
      /\ stage' = FALSE /\ target' = <<>> /\ st' = "no" /\ pb' = "no"
  BY Zenon DEF Reboot, fixed
<1>3. ~undone' => ~Ephemeral BY Zenon DEF Reboot
<1>4. target' \in Seq(Mounts) /\ stage' \in BOOLEAN
  <2>1. stage' \in BOOLEAN BY <1>2, Zenon
  <2>2. <<>> \in Seq(Mounts) BY SMT
  <2> QED BY <1>2, <2>1, <2>2, Zenon
<1>a. Shape' BY <1>1, <1>2, <1>4, ShapeStays, Zenon
<1>b. CallsInv'
  <2>1. \A c \in Slots : CallOK(call'[c]) BY <1>1, NoCallOK, Zenon DEF Slots
  <2>2. Late'.op = "none" BY <1>1, NoCallOK, Zenon DEF Late
  <2> QED BY <1>2, <2>1, <2>2, CallsStay, Zenon
<1>c. SizesInv'
  <2>1. \A c \in Slots : call'[c].op = "none" BY <1>1, NoCallOK, Zenon DEF Slots
  <2>2. Cur'.op = "none" /\ (st' = "yes" => st = "yes") BY <1>1, <1>2, NoCallOK, Zenon DEF Cur
  <2> QED BY <1>2, <2>1, <2>2, SizesStay, Zenon
<1> USE <1>1, <1>2 DEF Slots, Cur, Late, NoCall
<1>13. KubeletInv' BY SMT DEF KubeletInv
<1>14. MountsInv' BY Zenon DEF MountsInv
<1>15. BackingInv' BY <1>3, SMT DEF Inv, CallsInv, BackingInv, IsNamed
<1>16. LiveInv' BY SMT DEF LiveInv
<1> QED BY <1>a, <1>b, <1>c, <1>13, <1>14, <1>15, <1>16, Zenon DEF Inv

-----------------------------------------------------------------------------
(* The invariant holds *)

\* At the start nothing is attached or mounted, and no call is in hand.
LEMMA InitInv == Init => Inv
<1> SUFFICES ASSUME Init PROVE Inv OBVIOUS
<1> DEFINE v(d) == IF d = 0 /\ ~Ephemeral
                   THEN [st |-> "available", size |-> IF kind = "clone" THEN 2 ELSE 1]
                   ELSE Absent
<1>1. /\ kind \in {"fs", "clone", "block", "ephemeral"}
      /\ cinder = [d \in Disks |-> v(d)] /\ dev = [d \in Disks |-> 0]
      /\ fsSize = (IF kind = "clone" THEN 1 ELSE 0)
      /\ ~stage /\ stage \in BOOLEAN /\ target = <<>> /\ ~wanted
      /\ st = "no" /\ pb = "no" /\ grown = cinder[0].size
      /\ call = [c \in Slots |-> NoCall] /\ gaveUp = {}
  BY Zenon DEF Init
<1>2. \A d \in Disks : /\ IsVolume(v(d)) /\ v(d).size \in Nat
                       /\ d = 0 /\ ~Ephemeral => v(d).st = "available" /\ v(d).size = FirstSize
                       /\ d # 0 \/ Ephemeral => v(d).st = "absent"
  BY Zenon DEF IsVolume, Absent, FirstSize
<1>3. IsCall(NoCall) /\ NoCall.size \in Nat /\ NoCall.op = "none" BY Zenon DEF NoCall, IsCall
<1>4. 0 \in Disks /\ \A d \in Backing : d \in Disks /\ d # 0 BY ConstantsAssumption, SMT DEF Disks, Backing
<1> HIDE DEF v, NoCall
<1>5. Volumes /\ \A d \in Disks : cinder[d] = v(d) BY <1>1, <1>2, SMT DEF Volumes
<1>6. Calls /\ \A c \in Slots : call[c] = NoCall BY <1>1, <1>3, SMT DEF Calls
<1>7. Cur = NoCall /\ Late = NoCall BY <1>6, Zenon DEF Cur, Late, Slots
<1>8. cinder[0].size \in Nat /\ grown \in Nat BY <1>1, <1>2, <1>4, <1>5, Zenon
<1>9. dev \in [Disks -> Nat] /\ fsSize \in Nat /\ target \in Seq(Mounts) /\ dev[0] = 0 BY <1>1, <1>4, SMT
<1>11. Shape BY <1>1, <1>5, <1>6, <1>8, <1>9, Zenon DEF Shape, Volumes, Calls
<1>12. CallsInv BY <1>2, <1>3, <1>4, <1>5, <1>6, <1>7, SMT DEF CallsInv, CallOK
<1>13. KubeletInv BY <1>1, <1>3, <1>7, SMT DEF KubeletInv
<1>14. MountsInv BY <1>1, <1>3, <1>7, SMT DEF MountsInv
<1>15. BackingInv BY <1>2, <1>3, <1>4, <1>5, <1>7, SMT DEF BackingInv, IsNamed
<1>16. LiveInv BY <1>1, <1>3, <1>6, <1>7, SMT DEF LiveInv
<1>17. SizesInv
  <2>1. ~Ephemeral => cinder[0].size = FirstSize BY <1>2, <1>4, <1>5, Zenon
  <2> QED BY <1>1, <1>3, <1>6, <1>7, <1>9, <2>1, SMT DEF SizesInv, ExpandOK, FirstSize, Filesystem, Ephemeral
<1> QED BY <1>11, <1>12, <1>13, <1>14, <1>15, <1>16, <1>17, Zenon DEF Inv

\* Every step keeps the invariant.
LEMMA NextInv == Inv /\ [Next]_vars => Inv'
<1> SUFFICES ASSUME Inv, [Next]_vars PROVE Inv' OBVIOUS
<1>1. ASSUME NEW c \in Slots, Handler(c) \/ CallFails(c) PROVE Inv'
  BY <1>1, HandlerKeeps, CallFailsKeeps, Zenon
<1>2. ASSUME NEW d \in Disks, CloudStep(d) \/ CreationFails(d) \/ DeviceShows(d) PROVE Inv'
  BY <1>2, CloudStepKeeps, CreationFailsKeeps, DeviceKeeps, Zenon
<1>3. CASE KernelNotices \/ AttachDetach \/ VolumeGrows \/ VolumeVanishes
  <2>1. 0 \in Disks BY Zenon DEF Disks
  <2> QED BY <1>3, <2>1, DeviceKeeps, AttachDetachKeeps, VolumeGrowsKeeps, VolumeVanishesKeeps, Zenon
<1>4. CASE Kubelet \/ Pods \/ GiveUp \/ Crash \/ Reboot
  BY <1>4, KubeletKeeps, PodsKeeps, GiveUpKeeps, CrashKeeps, RebootKeeps, Zenon
<1>5. CASE UNCHANGED vars
  <2>a. Shape' BY <1>5, ShapeStays, Zenon DEF vars
  <2>b. CallsInv' BY <1>5, SameCalls, CallsStay, Zenon DEF vars
  <2>c. KubeletInv' BY <1>5, SameCalls, KubeletStays, Zenon DEF vars
  <2>d. SizesInv' BY <1>5, SameCalls, SizesStay, Zenon DEF vars
  <2> USE <1>5 DEF vars, Cur, Late
  <2>14. MountsInv' BY SameCalls, MountsStay, Zenon
  <2>15. BackingInv' BY SameCalls, BackingStays, Zenon DEF IsNamed
  <2>16. LiveInv' BY SameCalls, LiveStays, Zenon
  <2> QED BY <2>a, <2>b, <2>c, <2>d, <2>14, <2>15, <2>16, Zenon DEF Inv
<1> QED BY <1>1, <1>2, <1>3, <1>4, <1>5, Zenon DEF Next

\* The invariant holds in every reachable state.
LEMMA SpecInv == Spec => []Inv
BY InitInv, NextInv, PTL DEF Spec

-----------------------------------------------------------------------------
(* What follows from it *)

\* What the kubelet has let go of is clean: no mount of the volume is left, and no
\* ephemeral volume, unless a call that was given up on, or one that failed
\* half-way, has left it.
THEOREM ReleasedVolumesAreClean == Spec => []ReleasedIsClean
<1>1. Inv => ReleasedIsClean
  <2> SUFFICES ASSUME Inv, st = "no", pb = "no", Cur = NoCall, ~undone
               PROVE  /\ gaveUp \cap {"publish", "stage"} = {} => ~stage /\ target = <<>>
                      /\ gaveUp = {} => Named = {}
    BY Zenon DEF ReleasedIsClean, Cur
  <2>1. Cur.op = "none" BY Zenon DEF NoCall
  <2>2. gaveUp \cap {"publish", "stage"} = {} => ~stage /\ target = <<>>
    BY <2>1, SMT DEF Inv, MountsInv
  <2>3. gaveUp = {} => \A d \in Backing : ~IsNamed(d) BY <2>1, Zenon DEF Inv, BackingInv
  <2>4. gaveUp = {} => Named = {} BY <2>3, Zenon DEF Named, IsNamed
  <2> QED BY <2>2, <2>4, Zenon
<1> QED BY <1>1, SpecInv, PTL

\* A pod whose volume is published sees it: the staged filesystem, the raw device
\* or an ephemeral volume that is attached; and it finds the space that the kubelet
\* was told of.
THEOREM PublishedVolumesAreMounted == Spec => []PublishedIsMounted
<1>1. Inv => PublishedIsMounted
  <2> SUFFICES ASSUME Inv, pb = "yes", ~Gone PROVE PublishedIsMounted
    BY Zenon DEF PublishedIsMounted
  <2>1. ~Ephemeral => Found /\ st = "yes" /\ cinder[0].st = "in-use"
    BY SMT DEF Gone, Inv, KubeletInv, Found
  <2>2. target # <<>> => target[1] \in Mounts BY SMT DEF Inv, Shape
  <2>3. ASSUME Cur.op # "unpublish", "unstage" \notin gaveUp
        PROVE  /\ target # <<>>
               /\ target[1][1] = IF kind = "block" THEN "dev" ELSE "fs"
               /\ cinder[target[1][2]].st = "in-use"
    <3>1. target # <<>> BY <2>3, SMT DEF Inv, LiveInv
    <3>2. Good(target[1]) BY <2>3, <3>1, SMT DEF Inv, LiveInv, Live
    <3>3. CASE Ephemeral BY <2>2, <3>1, <3>2, <3>3, SMT DEF Good, Mounts, Ephemeral
    <3>4. CASE ~Ephemeral BY <2>1, <2>2, <3>1, <3>2, <3>4, SMT DEF Good, Mounts
    <3> QED BY <3>3, <3>4, Zenon
  <2>4. ASSUME ~Ephemeral, NodeGetVolumeStats # None, rescan \/ grown = 1
        PROVE  NodeGetVolumeStats >= grown
    <3>1. target # <<>> /\ NodeGetVolumeStats = GetDeviceStats BY <2>4, Zenon DEF NodeGetVolumeStats
    <3>2. dev[0] \in Nat /\ fsSize \in Nat /\ grown \in Nat BY NumbersOfInv, Zenon
    <3>3. CASE kind = "block"
      <4>1. GetDeviceStats = dev[0] BY <2>2, <3>1, <3>3, SMT DEF Mounts, GetDeviceStats
      <4>2. grown = 1 /\ dev[0] # 0 BY <2>1, <2>4, <3>3, SMT DEF Inv, SizesInv
      <4> QED BY <3>1, <3>2, <4>1, <4>2, SMT
    <3>4. CASE kind # "block"
      <4>1. GetDeviceStats = fsSize BY <2>2, <2>4, <3>1, <3>4, SMT DEF Mounts, GetDeviceStats
      <4>2. Filesystem BY <2>4, <3>4, SMT DEF Inv, Shape, Filesystem, Ephemeral
      <4>3. fsSize >= FirstSize /\ (rescan => grown = FirstSize \/ fsSize >= grown)
        BY <2>1, <2>4, <4>2, SMT DEF Inv, SizesInv
      <4> QED BY <2>4, <3>1, <3>2, <4>1, <4>3, SMT DEF FirstSize
    <3> QED BY <3>3, <3>4
  <2> QED BY <2>3, <2>4, Zenon DEF PublishedIsMounted, Cur
<1> QED BY <1>1, SpecInv, PTL
=============================================================================
