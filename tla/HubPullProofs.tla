--------------------------- MODULE HubPullProofs ---------------------------
(***************************************************************************)
(* Proofs about HubPull, for any number of instances and any bounds.       *)
(***************************************************************************)
EXTENDS HubPull, TLAPS

Reconciling == {"document", "target", "write", "status"}

InstType ==
  [pc : {"down", "idle"} \cup Reconciling, due : BOOLEAN,
   cpull : CopyOf(PullType), ctarget : CopyOf(TargetType), pull : CopyOf(PullType),
   doc : [n : 0..MaxDocs, ver : 0..MaxDocs], target : CopyOf(TargetType)]

(* The types of all variables the steps depend on. *)
Shape ==
  /\ doc \in [n : 1..MaxDocs, ver : 0..MaxDocs] /\ doc.ver <= doc.n
  /\ pull \in PullType /\ target \in TargetType
  /\ inst \in [Instances -> InstType]
  /\ overlapped \in BOOLEAN

(* What an instance relies on: copies marked as current are the object; a  *)
(* reconcile has a HubPull, and a document once it has asked for it.       *)
Reliable(r) ==
  /\ r.cpull.current => r.cpull.val = pull
  /\ r.pull.current => r.pull.val = pull
  /\ r.ctarget.current => r.ctarget.val = target
  /\ r.target.current => r.target.val = target
  /\ r.pc \in Reconciling => r.pull.val # Absent
  /\ r.pc \in {"target", "write", "status"} => r.doc.n \in 1..MaxDocs

TypeInv == Shape /\ \A i \in Instances : Reliable(inst[i])

(* Records: what the steps make of an instance is an instance.             *)
LEMMA DownType == Down \in InstType /\ Reliable(Down)
<1>1. NoCopy \in CopyOf(PullType) /\ NoCopy \in CopyOf(TargetType)
  BY DEF NoCopy, CopyOf, PullType, TargetType
<1>2. [n |-> 0, ver |-> 0] \in [n : 0..MaxDocs, ver : 0..MaxDocs]
  BY BoundsAssumption
<1> QED
  BY <1>1, <1>2 DEF Down, InstType, Reconciling, Reliable, NoCopy

LEMMA CopyType ==
  ASSUME NEW S, NEW c \in CopyOf(S), NEW v \in S
  PROVE  Copy(v) \in CopyOf(S) /\ Copy(v).val = v /\ [c EXCEPT !.current = FALSE] \in CopyOf(S)
         /\ [c EXCEPT !.current = FALSE].val = c.val /\ ~[c EXCEPT !.current = FALSE].current
BY DEF Copy, CopyOf

LEMMA OldPullType ==
  ASSUME NEW r \in InstType
  PROVE  /\ OldPull(r) \in InstType
         /\ ~OldPull(r).cpull.current /\ ~OldPull(r).pull.current
         /\ OldPull(r).pull.val = r.pull.val /\ OldPull(r).cpull.val = r.cpull.val
         /\ OldPull(r).pc = r.pc /\ OldPull(r).doc = r.doc
         /\ OldPull(r).ctarget = r.ctarget /\ OldPull(r).target = r.target
BY DEF InstType, OldPull, CopyOf

LEMMA OldTargetType ==
  ASSUME NEW r \in InstType
  PROVE  /\ OldTarget(r) \in InstType
         /\ ~OldTarget(r).ctarget.current /\ ~OldTarget(r).target.current
         /\ OldTarget(r).pc = r.pc /\ OldTarget(r).doc = r.doc
         /\ OldTarget(r).cpull = r.cpull /\ OldTarget(r).pull = r.pull
BY DEF InstType, OldTarget, CopyOf

LEMMA DoneType ==
  ASSUME NEW r \in InstType, Reliable(r), NEW again \in BOOLEAN
  PROVE  Done(r, again) \in InstType /\ Reliable(Done(r, again))
         /\ Done(r, again).pc = "idle" /\ Done(r, again).cpull = r.cpull
         /\ Done(r, again).pull = NoCopy /\ ~Done(r, again).pull.current
<1>1. /\ NoCopy \in CopyOf(PullType) /\ NoCopy \in CopyOf(TargetType)
      /\ [n |-> 0, ver |-> 0] \in [n : 0..MaxDocs, ver : 0..MaxDocs]
  BY BoundsAssumption DEF NoCopy, CopyOf, PullType, TargetType
<1>2. (r.due \/ again) \in BOOLEAN
  BY DEF InstType
<1>3. /\ Done(r, again) = [r EXCEPT !.pc = "idle", !.due = r.due \/ again, !.pull = NoCopy,
                                    !.doc = [n |-> 0, ver |-> 0], !.target = NoCopy]
  BY DEF Done, Down
<1> HIDE DEF Done
<1>4. Done(r, again) \in InstType
  BY <1>1, <1>2, <1>3 DEF InstType
<1>5. /\ Done(r, again).pc = "idle" /\ Done(r, again).cpull = r.cpull /\ Done(r, again).ctarget = r.ctarget
      /\ Done(r, again).pull = NoCopy /\ Done(r, again).target = NoCopy
  BY <1>3 DEF InstType
<1> QED
  BY <1>4, <1>5 DEF Reliable, Reconciling, NoCopy

LEMMA TypeInit == Init => TypeInv
<1> SUFFICES ASSUME Init PROVE TypeInv
  OBVIOUS
<1>1. doc \in [n : 1..MaxDocs, ver : 0..MaxDocs] /\ doc.ver <= doc.n
  <2>1. doc = [n |-> 1, ver |-> 1]
    BY DEF Init
  <2> QED
    BY <2>1, BoundsAssumption
<1>2. pull \in PullType /\ target \in TargetType
  BY BoundsAssumption DEF Init, PullType, TargetType
<1>3. inst \in [Instances -> InstType] /\ \A i \in Instances : inst[i] = Down
  BY DownType DEF Init
<1>4. Reliable(Down)
  BY DownType
<1> QED
  BY <1>1, <1>2, <1>3, <1>4 DEF TypeInv, Shape, Init

(* A step that replaces one instance, and neither object. *)
LEMMA OneStep ==
  ASSUME TypeInv, NEW i \in Instances, NEW r \in InstType, Reliable(r),
         inst' = [inst EXCEPT ![i] = r], UNCHANGED <<doc, pull, target>>, overlapped' \in BOOLEAN
  PROVE  TypeInv'
<1>1. inst' \in [Instances -> InstType] /\ inst'[i] = r /\ \A j \in Instances \ {i} : inst'[j] = inst[j]
  BY DEF TypeInv, Shape
<1>2. \A j \in Instances : Reliable(inst'[j])
  BY <1>1 DEF TypeInv
<1>3. \A j \in Instances : Reliable(inst[j])'
  BY <1>2 DEF Reliable
<1> QED
  BY <1>1, <1>3 DEF TypeInv, Shape

(* A step that makes the copies of the HubPull, or of the target, old. *)
LEMMA PullStep ==
  ASSUME TypeInv, NEW p \in PullType, SetPull(p), UNCHANGED <<doc, target, overlapped>>
  PROVE  TypeInv'
<1> USE DEF TypeInv, Shape
<1>1. inst' \in [Instances -> InstType] /\ \A i \in Instances : inst'[i] = OldPull(inst[i])
  BY OldPullType DEF SetPull
<1>2. ASSUME NEW i \in Instances PROVE Reliable(inst[i])'
  BY <1>1, OldPullType DEF Reliable
<1> QED
  BY <1>1, <1>2 DEF SetPull

LEMMA TargetStep ==
  ASSUME TypeInv, NEW t \in TargetType, NEW after \in [Instances -> InstType],
         \A i \in Instances : Reliable(after[i]),
         SetTarget(t, after), UNCHANGED <<doc, pull, overlapped>>
  PROVE  TypeInv'
<1> USE DEF TypeInv, Shape
<1>1. CASE t = target
  <2>1. inst' = after /\ target' = target
    BY <1>1 DEF SetTarget
  <2> QED
    BY <2>1 DEF Reliable
<1>2. CASE t # target
  <2>1. inst' \in [Instances -> InstType] /\ \A i \in Instances : inst'[i] = OldTarget(after[i])
    BY <1>2, OldTargetType DEF SetTarget
  <2>2. ASSUME NEW i \in Instances PROVE Reliable(inst[i])'
    BY <2>1, OldTargetType DEF Reliable
  <2> QED
    BY <2>1, <2>2 DEF SetTarget
<1> QED
  BY <1>1, <1>2

LEMMA TypeNext == TypeInv /\ [Next]_vars => TypeInv'
<1> SUFFICES ASSUME TypeInv, [Next]_vars PROVE TypeInv'
  OBVIOUS
<1> USE DEF TypeInv, Shape, cluster, At
<1>1. CASE Apply
  BY <1>1, BoundsAssumption DEF Apply, Reliable
<1>2. CASE Delete
  BY <1>2, BoundsAssumption DEF Delete, Reliable
<1>3. CASE EditPull
  BY <1>3, PullStep, BoundsAssumption DEF EditPull, PullType
<1>4. CASE DeletePull
  BY <1>4, PullStep DEF DeletePull, PullType
<1>5. CASE CreatePull
  BY <1>5, PullStep, BoundsAssumption DEF CreatePull, PullType
<1>6. CASE EditTarget
  BY <1>6, TargetStep DEF EditTarget, TargetType
<1>7. ASSUME NEW i \in Instances, Up(i) PROVE TypeInv'
  <2> DEFINE r == [Down EXCEPT !.pc = "idle", !.due = pull # Absent, !.cpull = Copy(pull), !.ctarget = Copy(target)]
  <2>1. r \in InstType /\ Reliable(r)
    BY DownType DEF InstType, Copy, CopyOf, Reliable, Reconciling, Down, NoCopy
  <2>2. overlapped' \in BOOLEAN
    BY <1>7 DEF Up
  <2> QED
    BY <1>7, <2>1, <2>2, OneStep DEF Up
<1>8. ASSUME NEW i \in Instances, Stop(i) PROVE TypeInv'
  BY <1>8, DownType, OneStep DEF Stop
<1>9. ASSUME NEW i \in Instances, SyncPull(i) PROVE TypeInv'
  <2>1. PICK d \in BOOLEAN : inst' = [inst EXCEPT ![i] = [inst[i] EXCEPT !.cpull = Copy(pull), !.due = d]]
    BY <1>9 DEF SyncPull, InstType
  <2> DEFINE r == [inst[i] EXCEPT !.cpull = Copy(pull), !.due = d]
  <2>2. r \in InstType /\ Reliable(r)
    BY ZenonT(60) DEF InstType, Copy, CopyOf, Reliable
  <2> QED
    BY <1>9, <2>1, <2>2, OneStep DEF SyncPull
<1>10. ASSUME NEW i \in Instances, SyncTarget(i) PROVE TypeInv'
  <2> DEFINE r == [inst[i] EXCEPT !.ctarget = Copy(target)]
  <2>1. r \in InstType /\ Reliable(r)
    BY ZenonT(60) DEF InstType, Copy, CopyOf, Reliable
  <2>2. inst' = [inst EXCEPT ![i] = r]
    BY <1>10 DEF SyncTarget
  <2> QED
    BY <1>10, <2>1, <2>2, OneStep DEF SyncTarget
<1>11. ASSUME NEW i \in Instances, Begin(i) PROVE TypeInv'
  <2>1. CASE inst[i].cpull.val = Absent
    <3>0. PICK due \in BOOLEAN : inst' = [inst EXCEPT ![i] = [inst[i] EXCEPT !.due = due]]
      BY <1>11, <2>1 DEF Begin
    <3> DEFINE r == [inst[i] EXCEPT !.due = due]
    <3>1. r \in InstType /\ Reliable(r)
      BY ZenonT(60) DEF InstType, Reliable
    <3> QED
      BY <1>11, <3>0, <3>1, OneStep DEF Begin
  <2>2. CASE inst[i].cpull.val # Absent
    <3>0. PICK due \in BOOLEAN :
            inst' = [inst EXCEPT ![i] = [inst[i] EXCEPT !.pc = "document", !.due = due, !.pull = inst[i].cpull]]
      BY <1>11, <2>2 DEF Begin
    <3> DEFINE r == [inst[i] EXCEPT !.pc = "document", !.due = due, !.pull = inst[i].cpull]
    <3>1. r \in InstType /\ Reliable(r)
      BY <2>2, ZenonT(60) DEF InstType, Reliable, Reconciling
    <3> QED
      BY <1>11, <3>0, <3>1, OneStep DEF Begin
  <2> QED
    BY <2>1, <2>2
<1>12. ASSUME NEW i \in Instances, GetDocument(i) PROVE TypeInv'
  <2> DEFINE r == [inst[i] EXCEPT !.pc = "target", !.doc = doc]
  <2>0. doc \in [n : 0..MaxDocs, ver : 0..MaxDocs] /\ doc.n \in 1..MaxDocs /\ inst[i].pc = "document"
    BY <1>12, BoundsAssumption DEF GetDocument
  <2>1. r \in InstType /\ Reliable(r)
    BY <2>0, ZenonT(60) DEF InstType, Reliable, Reconciling
  <2>2. inst' = [inst EXCEPT ![i] = r]
    BY <1>12 DEF GetDocument
  <2> QED
    BY <1>12, <2>1, <2>2, OneStep DEF GetDocument
<1>13. ASSUME NEW i \in Instances, GetTarget(i) PROVE TypeInv'
  <2> DEFINE r == [inst[i] EXCEPT !.pc = "write", !.target = inst[i].ctarget]
  <2>1. r \in InstType /\ Reliable(r)
    BY <1>13 DEF InstType, Reliable, Reconciling, GetTarget
  <2>2. inst' = [inst EXCEPT ![i] = r]
    BY <1>13 DEF GetTarget
  <2> QED
    BY <1>13, <2>1, <2>2, OneStep DEF GetTarget
<1>14. ASSUME NEW i \in Instances, Write(i) PROVE TypeInv'
  <2> DEFINE r == [inst[i] EXCEPT !.pc = "status"]
  <2> DEFINE after == [inst EXCEPT ![i].pc = "status"]
  <2>1. r \in InstType /\ Reliable(r)
    BY <1>14 DEF InstType, Reliable, Reconciling, Write
  <2>2. after \in [Instances -> InstType] /\ \A j \in Instances : Reliable(after[j])
    BY <2>1
  <2>3. Rendered(i) \in TargetType
    BY <1>14 DEF Write, Rendered, Reliable, InstType, CopyOf, PullType, TargetType, Reconciling
  <2>4. SetTarget(Rendered(i), after) /\ UNCHANGED <<doc, pull, overlapped>>
    BY <1>14 DEF Write
  <2> HIDE DEF after
  <2> QED
    BY <2>2, <2>3, <2>4, TargetStep
<1>15. ASSUME NEW i \in Instances, Refused(i) PROVE TypeInv'
  BY <1>15, DoneType, OneStep DEF Refused
<1>16. ASSUME NEW i \in Instances, UpdateStatus(i) PROVE TypeInv'
  <2> DEFINE s == OldPull(inst[i])
  <2>1. pull' \in PullType
    BY <1>16 DEF UpdateStatus, PullType, InstType, CopyOf, Reliable, Reconciling
  <2>2. s \in InstType /\ Reliable(s)
    BY OldPullType DEF Reliable
  <2> DEFINE again == Requeue(inst[i].pull.val)
  <2>3. inst' \in [Instances -> InstType] /\ inst'[i] = Done(s, again) /\ again \in BOOLEAN
        /\ \A j \in Instances \ {i} : inst'[j] = OldPull(inst[j])
    BY <1>16, <2>2, DoneType, OldPullType DEF UpdateStatus, Requeue
  <2>4. Reliable(inst[i])'
    <3>1. Reliable(Done(s, again)) /\ Done(s, again).pc = "idle" /\ Done(s, again).cpull = s.cpull
          /\ Done(s, again).pull = NoCopy /\ ~s.cpull.current
      BY <2>2, <2>3, DoneType, OldPullType
    <3>2. target' = target
      BY <1>16 DEF UpdateStatus
    <3> HIDE DEF s, again
    <3> QED
      BY <2>3, <3>1, <3>2 DEF Reliable, Reconciling, NoCopy
  <2>5. ASSUME NEW j \in Instances \ {i} PROVE Reliable(inst[j])'
    BY <1>16, <2>3, OldPullType DEF Reliable, UpdateStatus
  <2> QED
    BY <1>16, <2>1, <2>3, <2>4, <2>5 DEF UpdateStatus
<1>17. ASSUME NEW i \in Instances, StatusLost(i) PROVE TypeInv'
  BY <1>17, DoneType, OneStep DEF StatusLost, Requeue
<1>18. ASSUME NEW i \in Instances, Fail(i) PROVE TypeInv'
  BY <1>18, DoneType, OneStep DEF Fail
<1>19. CASE UNCHANGED vars
  BY <1>19 DEF vars, Reliable
<1> QED
  BY <1>1, <1>2, <1>3, <1>4, <1>5, <1>6, <1>7, <1>8, <1>9, <1>10, <1>11, <1>12, <1>13, <1>14,
     <1>15, <1>16, <1>17, <1>18, <1>19 DEF Next

LEMMA TypeAlways == Spec => []TypeInv
BY TypeInit, TypeNext, PTL DEF Spec

(* The types, and what marks a copy of an object as current, are as the    *)
(* operator relies on them, for any number of instances.                   *)
THEOREM TypeCorrect == Spec => []TypeOK
<1>1. TypeInv => TypeOK
  BY DEF TypeInv, Shape, TypeOK, Reliable, InstType, Reconciling
<1> QED
  BY <1>1, TypeAlways, PTL

-----------------------------------------------------------------------------
(* What a step does to each instance and to the objects.                   *)

Kept(i) ==
  /\ inst'[i].pc = inst[i].pc /\ inst'[i].doc = inst[i].doc
  /\ inst'[i].pull.val = inst[i].pull.val

Move(i) ==
  \/ Kept(i)
  \/ At(i, "document") /\ inst'[i].pc = "target" /\ inst'[i].doc = doc
  \/ At(i, "target") /\ inst'[i].pc = "write" /\ inst'[i].doc = inst[i].doc
  \/ Write(i) /\ inst'[i].pc = "status" /\ inst'[i].doc = inst[i].doc
  \/ (Up(i) \/ ~At(i, "down")) /\ inst'[i].pc \in {"down", "idle", "document"}

World ==
  /\ doc.n <= doc'.n
  /\ overlapped => overlapped'
  /\ \/ target' \in {target, Absent, Edited} /\ applied' = applied
     \/ \E i \in Instances : Write(i)

(* The HubPull that an instance holds is one it has read.                  *)
Seen(i) ==
  /\ inst'[i].cpull.val \in {inst[i].cpull.val, pull, Absent}
  /\ inst'[i].pull.val \in {inst[i].pull.val, inst[i].cpull.val, Absent}

Observes ==
  pull' # Absent =>
    \/ pull # Absent /\ pull'.observed = pull.observed
    \/ pull'.observed = 0
    \/ \E i \in Instances : At(i, "status") /\ pull'.observed = inst[i].doc.ver

LEMMA OneMoves ==
  ASSUME TypeInv, NEW i \in Instances, NEW r \in InstType, inst' = [inst EXCEPT ![i] = r]
  PROVE  inst'[i] = r /\ \A j \in Instances \ {i} : Kept(j) /\ inst'[j] = inst[j]
BY DEF TypeInv, Shape, Kept

LEMMA StepOf ==
  ASSUME TypeInv, Next
  PROVE  World /\ Observes /\ \A i \in Instances : Move(i) /\ Seen(i)
<1> USE DEF TypeInv, Shape, cluster, At
<1>1. CASE Apply
  BY <1>1 DEF Apply, World, Observes, Move, Kept, Seen
<1>2. CASE Delete
  BY <1>2 DEF Delete, World, Observes, Move, Kept, Seen
<1>3. ASSUME NEW p, SetPull(p), p = Absent \/ p.observed = 0 \/ (pull # Absent /\ p.observed = pull.observed),
             UNCHANGED <<cluster, target, applied>>
      PROVE  World /\ Observes /\ \A i \in Instances : Move(i) /\ Seen(i)
  <2>1. \A i \in Instances : inst'[i] = OldPull(inst[i])
    BY <1>3 DEF SetPull
  <2>2. \A i \in Instances : Kept(i) /\ Seen(i)
    BY <2>1, OldPullType DEF Kept, Seen
  <2> QED
    BY <1>3, <2>2 DEF SetPull, World, Observes, Move
<1>4. CASE EditPull
  <2>1. [pull EXCEPT !.gen = @ + 1].observed = pull.observed /\ pull # Absent
    BY <1>4 DEF EditPull, PullType
  <2> QED
    BY <1>3, <1>4, <2>1 DEF EditPull
<1>5. CASE DeletePull
  BY <1>3, <1>5 DEF DeletePull
<1>6. CASE CreatePull
  BY <1>3, <1>6 DEF CreatePull
<1>7. CASE EditTarget
  <2>1. \A i \in Instances : inst'[i] \in {inst[i], OldTarget(inst[i])}
    BY <1>7 DEF EditTarget, SetTarget
  <2>2. \A i \in Instances : Kept(i) /\ Seen(i)
    BY <2>1, OldTargetType DEF Kept, Seen
  <2> QED
    BY <1>7, <2>2 DEF EditTarget, SetTarget, World, Observes, Move
<1>8. ASSUME NEW i \in Instances, NEW r \in InstType, inst' = [inst EXCEPT ![i] = r],
             Move(i), Seen(i), World, Observes
      PROVE  World /\ Observes /\ \A j \in Instances : Move(j) /\ Seen(j)
  <2>1. \A j \in Instances \ {i} : Kept(j) /\ inst'[j] = inst[j]
    BY <1>8, OneMoves
  <2>2. \A j \in Instances \ {i} : Move(j) /\ Seen(j)
    BY <2>1 DEF Move, Seen
  <2> QED
    BY <1>8, <2>2
<1> DEFINE Same == doc' = doc /\ (overlapped => overlapped') /\ pull' = pull /\ target' = target /\ applied' = applied
<1>9. Same => World /\ Observes
  BY DEF World, Observes
<1>10. ASSUME NEW i \in Instances,
              Up(i) \/ Stop(i) \/ SyncPull(i) \/ SyncTarget(i) \/ Begin(i) \/ GetDocument(i)
              \/ GetTarget(i) \/ Refused(i) \/ StatusLost(i) \/ Fail(i)
       PROVE  World /\ Observes /\ \A j \in Instances : Move(j) /\ Seen(j)
  <2>1. Same
    BY <1>10 DEF Up, Stop, SyncPull, SyncTarget, Begin, GetDocument, GetTarget, Refused, StatusLost, Fail
  <2>2. inst'[i] \in InstType /\ inst' = [inst EXCEPT ![i] = inst'[i]]
    <3>1. inst' \in [Instances -> InstType]
      BY TypeNext DEF vars
    <3> QED
      BY <1>10, <3>1 DEF Up, Stop, SyncPull, SyncTarget, Begin, GetDocument, GetTarget, Refused, StatusLost, Fail
  <2>3. CASE Up(i)
    <3>1. inst'[i].pc = "idle" /\ inst'[i].cpull.val = pull /\ inst'[i].pull.val = Absent
      BY <2>3 DEF Up, Down, Copy, NoCopy
    <3> QED
      BY <2>3, <3>1 , <2>1, <2>2, <1>8, <1>9 DEF Move, Seen
  <2>4. CASE Stop(i)
    <3>1. inst'[i].pc = "down" /\ inst'[i].cpull.val = Absent /\ inst'[i].pull.val = Absent
      BY <2>4 DEF Stop, Down, NoCopy
    <3> QED
      BY <2>4, <3>1, <2>1, <2>2, <1>8, <1>9 DEF Move, Seen, Stop
  <2>5. CASE SyncPull(i)
    <3>1. Kept(i) /\ inst'[i].cpull.val = pull
      BY <2>5 DEF SyncPull, Kept, InstType, Copy
    <3> QED
      BY <3>1, <2>1, <2>2, <1>8, <1>9 DEF Move, Seen, Kept
  <2>6. CASE SyncTarget(i)
    <3>1. Kept(i) /\ inst'[i].cpull.val = inst[i].cpull.val
      BY <2>6 DEF SyncTarget, Kept, InstType
    <3> QED
      BY <3>1, <2>1, <2>2, <1>8, <1>9 DEF Move, Seen, Kept
  <2>7. CASE Begin(i)
    <3>1. inst'[i].cpull = inst[i].cpull /\ inst'[i].pull \in {inst[i].pull, inst[i].cpull}
          /\ inst'[i].pc \in {"idle", "document"}
      BY <2>7 DEF Begin, InstType
    <3> QED
      BY <2>7, <3>1, <2>1, <2>2, <1>8, <1>9 DEF Move, Seen, Begin
  <2>8. CASE GetDocument(i)
    <3>1. inst'[i].cpull = inst[i].cpull /\ inst'[i].pull = inst[i].pull
          /\ inst[i].pc = "document" /\ inst'[i].pc = "target" /\ inst'[i].doc = doc
      BY <2>8 DEF GetDocument, InstType
    <3> QED
      BY <3>1, <2>1, <2>2, <1>8, <1>9 DEF Move, Seen
  <2>9. CASE GetTarget(i)
    <3>1. inst'[i].cpull = inst[i].cpull /\ inst'[i].pull = inst[i].pull
          /\ inst[i].pc = "target" /\ inst'[i].pc = "write" /\ inst'[i].doc = inst[i].doc
      BY <2>9 DEF GetTarget, InstType
    <3> QED
      BY <3>1, <2>1, <2>2, <1>8, <1>9 DEF Move, Seen
  <2>10. CASE Refused(i) \/ StatusLost(i) \/ Fail(i)
    <3>1. PICK again \in BOOLEAN : inst'[i] = Done(inst[i], again) /\ inst[i].pc # "down"
      BY <2>10 DEF Refused, StatusLost, Fail, Requeue
    <3>2. inst'[i].pc = "idle" /\ inst'[i].cpull = inst[i].cpull /\ inst'[i].pull.val = Absent
      BY <3>1, DoneType DEF NoCopy
    <3> QED
      BY <3>1, <3>2, <2>1, <2>2, <1>8, <1>9 DEF Move, Seen
  <2> QED
    BY <1>10, <2>3, <2>4, <2>5, <2>6, <2>7, <2>8, <2>9, <2>10
<1>11. ASSUME NEW i \in Instances, Write(i)
       PROVE  World /\ Observes /\ \A j \in Instances : Move(j) /\ Seen(j)
  <2> DEFINE after == [inst EXCEPT ![i].pc = "status"]
  <2>1. \A j \in Instances : after[j] \in InstType /\ inst'[j] \in {after[j], OldTarget(after[j])}
    <3>1. \A j \in Instances : after[j] \in InstType
      BY DEF InstType, Reconciling
    <3> HIDE DEF after
    <3> QED
      BY <1>11, <3>1 DEF Write, SetTarget, after
  <2>2. \A j \in Instances : after[j].pull = inst[j].pull /\ after[j].cpull = inst[j].cpull /\ after[j].doc = inst[j].doc
        /\ (j # i => after[j].pc = inst[j].pc)
    BY DEF InstType
  <2>3. after[i].pc = "status"
    BY DEF InstType
  <2> HIDE DEF after
  <2>4. \A j \in Instances : Seen(j) /\ (j # i => Kept(j)) /\ inst'[j].doc = inst[j].doc /\ inst'[i].pc = "status"
    BY <2>1, <2>2, <2>3, OldTargetType DEF Seen, Kept
  <2>5. World /\ Observes
    <3>1. doc' = doc /\ pull' = pull /\ overlapped' = overlapped
      BY <1>11 DEF Write
    <3> QED
      BY <1>11, <3>1 DEF World, Observes
  <2> QED
    BY <1>11, <2>4, <2>5 DEF Move
<1>12. ASSUME NEW i \in Instances, UpdateStatus(i)
       PROVE  World /\ Observes /\ \A j \in Instances : Move(j) /\ Seen(j)
  <2> DEFINE again == Requeue(inst[i].pull.val)
  <2>1. \A j \in Instances : inst'[j] = IF j = i THEN Done(OldPull(inst[i]), again) ELSE OldPull(inst[j])
    BY <1>12 DEF UpdateStatus
  <2>2. \A j \in Instances \ {i} : Kept(j) /\ Seen(j)
    BY <2>1, OldPullType DEF Kept, Seen
  <2>3. inst'[i].pc = "idle" /\ inst'[i].pull.val = Absent /\ inst'[i].cpull.val = inst[i].cpull.val
    <3>1. OldPull(inst[i]) \in InstType /\ OldPull(inst[i]).cpull.val = inst[i].cpull.val
      BY OldPullType
    <3>2. ASSUME NEW r \in InstType PROVE Done(r, again).pc = "idle" /\ Done(r, again).pull = NoCopy
                                           /\ Done(r, again).cpull = r.cpull
      BY DEF Done, InstType, Down
    <3> QED
      BY <2>1, <3>1, <3>2 DEF NoCopy
  <2>4. pull'.observed = inst[i].doc.ver
    <3>1. inst[i].pull.val \in [gen : 1..MaxGen, observed : 0..MaxDocs]
      BY <1>12 DEF UpdateStatus, Reliable, InstType, CopyOf, PullType, Reconciling
    <3> QED
      BY <1>12, <3>1 DEF UpdateStatus
  <2>5. inst[i].pc = "status" /\ doc' = doc /\ overlapped' = overlapped /\ target' = target /\ applied' = applied
    BY <1>12 DEF UpdateStatus
  <2>6. World /\ Observes
    BY <2>4, <2>5 DEF World, Observes
  <2>7. Move(i) /\ Seen(i)
    BY <2>3, <2>5 DEF Move, Seen
  <2> QED
    BY <2>2, <2>6, <2>7 DEF Move
<1> QED
  BY <1>1, <1>2, <1>4, <1>5, <1>6, <1>7, <1>10, <1>11, <1>12 DEF Next

-----------------------------------------------------------------------------
(* The invariants.                                                         *)

Alone == ~overlapped => \A i, j \in Instances : ~At(i, "down") /\ ~At(j, "down") => i = j

(* The content of the target, and of a reconcile, is not newer than the    *)
(* document; a reconcile of an instance that is alone is not behind the    *)
(* target from the time it has the document until it writes.               *)
Behind ==
  /\ IsRendered(target) => target.doc <= doc.n
  /\ \A i \in Instances : inst[i].pc \in {"target", "write"} => inst[i].doc.n <= doc.n

Fresh ==
  ~overlapped => \A i \in Instances :
    inst[i].pc \in {"target", "write"} /\ IsRendered(target) => target.doc <= inst[i].doc.n

Written(p) == p # Absent => p.observed \in applied \cup {0}

Applied ==
  /\ Written(pull)
  /\ \A i \in Instances :
       /\ Written(inst[i].cpull.val) /\ Written(inst[i].pull.val)
       /\ At(i, "status") => inst[i].doc.ver \in applied

IInv == TypeInv /\ Alone /\ Behind /\ Fresh /\ Applied

LEMMA WriteDoes ==
  ASSUME TypeInv, NEW i \in Instances, Write(i)
  PROVE  /\ inst[i].pc = "write" /\ inst'[i].pc = "status" /\ CanWrite(i)
         /\ target' = Rendered(i) /\ applied' = applied \cup {inst[i].doc.ver}
         /\ UNCHANGED <<doc, pull, overlapped>>
<1> DEFINE after == [inst EXCEPT ![i].pc = "status"]
<1>1. after[i] \in InstType /\ after[i].pc = "status"
  BY DEF TypeInv, Shape, InstType, Reconciling
<1>2. inst'[i] \in {after[i], OldTarget(after[i])}
  <2> HIDE DEF after
  <2> QED
    BY DEF Write, SetTarget, after
<1> HIDE DEF after
<1>3. inst'[i].pc = "status"
  BY <1>1, <1>2, OldTargetType
<1> QED
  BY <1>3 DEF Write, SetTarget, cluster, At

LEMMA InvInit == Init => IInv
<1> SUFFICES ASSUME Init PROVE IInv
  OBVIOUS
<1>1. \A i \in Instances : inst[i] = Down
  BY DEF Init
<1>2. Down.pc = "down" /\ Down.cpull.val = Absent /\ Down.pull.val = Absent
  BY DEF Down, NoCopy
<1>3. target = Absent /\ pull # Absent => pull.observed = 0
  BY DEF Init
<1> QED
  BY TypeInit, <1>1, <1>2, <1>3 DEF IInv, Alone, Behind, Fresh, Applied, Written, At, IsRendered, Init

LEMMA AloneNext ==
  ASSUME IInv, Next PROVE Alone'
<1> USE DEF IInv, At
<1>1. SUFFICES ASSUME ~overlapped', NEW i \in Instances, NEW j \in Instances, i # j,
                      inst'[i].pc # "down", inst'[j].pc # "down"
      PROVE FALSE
  BY DEF Alone
<1>2. World /\ \A k \in Instances : Move(k)
  BY StepOf
<1>3. ~overlapped
  BY <1>1, <1>2 DEF World
<1>4. ASSUME NEW k \in Instances, NEW l \in Instances, k # l, Up(k)
      PROVE  inst[l].pc = "down" /\ inst'[l].pc = "down"
  <2>1. inst[l].pc = "down"
    BY <1>1, <1>4 DEF Up
  <2>2. inst'[l] = inst[l]
    BY <1>4 DEF Up, TypeInv, Shape
  <2> QED
    BY <2>1, <2>2
<1>5. ~Up(i) /\ ~Up(j)
  BY <1>1, <1>4
<1>6. inst[i].pc # "down" /\ inst[j].pc # "down"
  BY <1>1, <1>2, <1>5 DEF Move, Kept, Write
<1> QED
  BY <1>1, <1>3, <1>6 DEF Alone

LEMMA BehindNext ==
  ASSUME IInv, Next PROVE Behind'
<1> USE DEF IInv, At
<1>1. World /\ \A k \in Instances : Move(k)
  BY StepOf
<1>2. doc.n \in Nat /\ doc'.n \in Nat /\ doc.n <= doc'.n /\ \A i \in Instances : inst[i].doc.n \in Nat
  <2>1. TypeInv'
    BY TypeNext
  <2> QED
    BY <1>1, <2>1 DEF World, TypeInv, Shape, InstType
<1>3. IsRendered(target)' => target'.doc <= doc'.n
  <2>1. CASE target' \in {target, Absent, Edited}
    <3>1. CASE target' = target /\ IsRendered(target)
      <4>1. target.doc \in Nat
        BY <3>1 DEF TypeInv, Shape, TargetType, IsRendered
      <4> QED
        BY <1>2, <3>1, <4>1 DEF Behind
    <3> QED
      BY <2>1, <3>1 DEF IsRendered
  <2>2. ASSUME NEW i \in Instances, Write(i) PROVE target'.doc <= doc'.n
    BY <2>2, <1>2, WriteDoes DEF Behind, Rendered
  <2> QED
    BY <1>1, <2>1, <2>2 DEF World
<1>4. ASSUME NEW i \in Instances, inst'[i].pc \in {"target", "write"} PROVE inst'[i].doc.n <= doc'.n
  <2>1. \/ inst[i].pc \in {"target", "write"} /\ inst'[i].doc = inst[i].doc
        \/ inst'[i].doc = doc
    BY <1>1, <1>4 DEF Move, Kept
  <2> QED
    BY <2>1, <1>2 DEF Behind
<1> QED
  BY <1>3, <1>4 DEF Behind

LEMMA FreshNext ==
  ASSUME IInv, Next PROVE Fresh'
<1> USE DEF IInv, At
<1>1. SUFFICES ASSUME ~overlapped', NEW i \in Instances, inst'[i].pc \in {"target", "write"}, IsRendered(target)'
      PROVE  target'.doc <= inst'[i].doc.n
  BY DEF Fresh
<1>2. World /\ \A k \in Instances : Move(k)
  BY StepOf
<1>3. ~overlapped
  BY <1>1, <1>2 DEF World
<1>4. inst[i].pc # "down"
  BY <1>1, <1>2 DEF Move, Kept
<1>5. \A k \in Instances : ~Write(k)
  <2> SUFFICES ASSUME NEW k \in Instances, Write(k) PROVE FALSE
    OBVIOUS
  <2>1. inst[k].pc = "write" /\ inst'[k].pc = "status"
    BY WriteDoes
  <2>2. k = i
    BY <2>1, <1>3, <1>4 DEF Alone
  <2> QED
    BY <2>1, <2>2, <1>1
<1>6. target' = target /\ IsRendered(target)
  BY <1>1, <1>2, <1>5 DEF World, IsRendered
<1>7. CASE inst[i].pc \in {"target", "write"} /\ inst'[i].doc = inst[i].doc
  BY <1>3, <1>6, <1>7 DEF Fresh
<1>8. CASE inst'[i].doc = doc
  BY <1>6, <1>8 DEF Behind
<1> QED
  BY <1>1, <1>2, <1>7, <1>8 DEF Move, Kept

LEMMA AppliedNext ==
  ASSUME IInv, Next PROVE Applied'
<1> USE DEF IInv, At
<1>1. World /\ Observes /\ \A k \in Instances : Move(k) /\ Seen(k)
  BY StepOf
<1>2. applied \subseteq applied'
  BY <1>1, WriteDoes DEF World
<1>3. \A p : Written(p) => Written(p)'
  BY <1>2 DEF Written
<1>4. Written(pull)'
  BY <1>1, <1>2 DEF Observes, Written, Applied
<1>5. ASSUME NEW i \in Instances
      PROVE  Written(inst[i].cpull.val)' /\ Written(inst[i].pull.val)'
  <2>1. \A p : Written(p) => (p # Absent => p.observed \in applied' \cup {0})
    BY <1>2 DEF Written
  <2>2. Seen(i) /\ Written(pull) /\ Written(inst[i].cpull.val) /\ Written(inst[i].pull.val)
    BY <1>1 DEF Applied
  <2> QED
    BY <2>1, <2>2 DEF Seen, Written
<1>6. ASSUME NEW i \in Instances, inst'[i].pc = "status" PROVE inst'[i].doc.ver \in applied'
  <2>1. CASE Kept(i)
    BY <1>2, <1>6, <2>1 DEF Kept, Applied
  <2>2. CASE Write(i) /\ inst'[i].doc = inst[i].doc
    BY <2>2, WriteDoes
  <2> QED
    BY <1>1, <1>6, <2>1, <2>2 DEF Move
<1> QED
  BY <1>4, <1>5, <1>6 DEF Applied

LEMMA InvNext == IInv /\ [Next]_vars => IInv'
<1>1. IInv /\ Next => IInv'
  BY TypeNext, AloneNext, BehindNext, FreshNext, AppliedNext DEF IInv
<1>2. IInv /\ UNCHANGED vars => IInv'
  <2> SUFFICES ASSUME IInv, UNCHANGED vars PROVE IInv'
    OBVIOUS
  <2>1. TypeInv'
    BY TypeNext DEF IInv
  <2> QED
    BY <2>1 DEF vars, IInv, Alone, Behind, Fresh, Applied, Written, At, IsRendered
<1> QED
  BY <1>1, <1>2

LEMMA InvAlways == Spec => []IInv
BY InvInit, InvNext, PTL DEF Spec

(* The status of the HubPull never names a version that no instance wrote  *)
(* to the target, whatever fails between the two, for any number of        *)
(* instances, stale caches and restarts.                                   *)
THEOREM StatusNamesAnAppliedVersion == Spec => []ObservedWasApplied
<1>1. IInv => ObservedWasApplied
  BY DEF IInv, Applied, Written, ObservedWasApplied
<1> QED
  BY <1>1, InvAlways, PTL

(* An instance that is alone never takes the target back to an older       *)
(* content of the document, whatever fails or restarts in between.         *)
THEOREM AloneNeverBack == Spec => NeverBackAlone
<1> DEFINE Forward == IsRendered(target) /\ IsRendered(target)' /\ ~overlapped' => target.doc <= target'.doc
<1>1. IInv /\ [Next]_vars => [Forward]_vars
  <2> SUFFICES ASSUME IInv, Next, IsRendered(target), IsRendered(target)', ~overlapped' PROVE target.doc <= target'.doc
    OBVIOUS
  <2>1. World
    BY StepOf DEF IInv
  <2>2. ASSUME NEW i \in Instances, Write(i) PROVE target.doc <= target'.doc
    <3>1. inst[i].pc = "write" /\ target' = Rendered(i)
      BY <2>2, WriteDoes DEF IInv
    <3> QED
      BY <2>1, <3>1 DEF IInv, Fresh, World, Rendered
  <2>3. CASE target' = target
    <3>1. target.doc \in Nat
      BY DEF IInv, TypeInv, Shape, TargetType, IsRendered
    <3> QED
      BY <2>3, <3>1
  <2> QED
    BY <2>1, <2>2, <2>3 DEF World, IsRendered
<1> QED
  BY <1>1, InvAlways, PTL DEF Spec, NeverBackAlone

(* A write replaces only the object that the reconcile has read, however   *)
(* stale the cache and however many instances run.                         *)
THEOREM OverwritesOnlyWhatItRead == Spec => OverwritesWhatItRead
<1> DEFINE Known == \A i \in Instances : inst[i].pc = "write" /\ inst'[i].pc = "status" => target = inst[i].target.val
<1>1. IInv /\ [Next]_vars => [Known]_vars
  <2> SUFFICES ASSUME IInv, Next, NEW i \in Instances, inst[i].pc = "write", inst'[i].pc = "status"
      PROVE target = inst[i].target.val
    OBVIOUS
  <2>1. Write(i)
    BY StepOf DEF IInv, Move, Kept, At
  <2> QED
    BY <2>1, WriteDoes DEF IInv, TypeInv, Reliable, CanWrite
<1> QED
  BY <1>1, InvAlways, PTL DEF Spec, OverwritesWhatItRead

-----------------------------------------------------------------------------
(* What convergence rests on.                                              *)

(* An instance that knows of the HubPull has its reconcile due, or is in   *)
(* it, or knows of a generation that asks for no refresh.                  *)
NeverForgotten ==
  \A i \in Instances : ~At(i, "down") /\ inst[i].cpull.val # Absent =>
    inst[i].due \/ inst[i].pc \in Reconciling \/ inst[i].cpull.val.gen \in Unrefreshed

(* A reconcile that nothing was asked for behind has the generation that   *)
(* the instance knows.                                                     *)
Latest(r) ==
  r.pc \in Reconciling /\ ~r.due /\ r.cpull.val # Absent => r.pull.val.gen = r.cpull.val.gen

Awaited(r) ==
  /\ r.pc = "idle" /\ r.cpull.val # Absent => r.due \/ r.cpull.val.gen \in Unrefreshed
  /\ Latest(r)

NoneForgotten == \A i \in Instances : Awaited(inst[i])

LEMMA ForgottenNext ==
  ASSUME TypeInv, NoneForgotten, Next
  PROVE  NoneForgotten'
<1> USE DEF TypeInv, Shape, At
<1> DEFINE Same(r, t) == /\ t.cpull.val = r.cpull.val /\ t.pull.val = r.pull.val /\ t.due = r.due
                         /\ t.pc = r.pc \/ (r.pc = "write" /\ t.pc = "status")
<1>0. ASSUME NEW r \in InstType
      PROVE  /\ OldPull(r) \in InstType /\ Same(r, OldPull(r))
             /\ Same(r, OldTarget(r)) /\ OldTarget(r).pc = r.pc
  <2>1. OldPull(r).due = r.due /\ OldTarget(r).due = r.due
    BY DEF OldPull, OldTarget, InstType
  <2> QED
    BY <2>1, OldPullType, OldTargetType
<1>1. ASSUME \A i \in Instances : Same(inst[i], inst'[i]) PROVE NoneForgotten'
  BY <1>1 DEF NoneForgotten, Awaited, Latest, Reconciling
<1>2. ASSUME NEW i \in Instances, NEW r, inst' = [inst EXCEPT ![i] = r], Awaited(r)
      PROVE  NoneForgotten'
  BY <1>2 DEF NoneForgotten
<1>3. ASSUME NEW r \in InstType, NEW again \in BOOLEAN, r.pc \in Reconciling, Latest(r),
             again \/ r.pull.val.gen \in Unrefreshed
      PROVE  Awaited(Done(r, again))
  <2>1. /\ Done(r, again).pc = "idle" /\ Done(r, again).cpull = r.cpull
        /\ Done(r, again).due = (r.due \/ again)
    BY <1>3 DEF Done, InstType
  <2> QED
    BY <2>1, <1>3 DEF Awaited, Latest, Reconciling
<1>4. CASE Apply \/ Delete
  BY <1>4, <1>1 DEF Apply, Delete
<1>5. CASE EditPull \/ DeletePull \/ CreatePull
  <2>1. \A i \in Instances : inst'[i] = OldPull(inst[i])
    BY <1>5 DEF EditPull, DeletePull, CreatePull, SetPull
  <2>2. \A i \in Instances : Same(inst[i], inst'[i])
    BY <2>1, <1>0
  <2> QED
    BY <2>2, <1>1
<1>6. CASE EditTarget
  <2>1. \A i \in Instances : inst'[i] \in {inst[i], OldTarget(inst[i])}
    BY <1>6 DEF EditTarget, SetTarget
  <2>2. \A i \in Instances : Same(inst[i], inst'[i])
    BY <2>1, <1>0
  <2> QED
    BY <2>2, <1>1
<1>7. ASSUME NEW i \in Instances, Write(i) PROVE NoneForgotten'
  <2> DEFINE after == [inst EXCEPT ![i].pc = "status"]
  <2>1. \A j \in Instances : after[j] \in InstType /\ Same(inst[j], after[j])
    BY <1>7 DEF InstType, Reconciling, Write
  <2>2. \A j \in Instances : inst'[j] \in {after[j], OldTarget(after[j])}
    <3> HIDE DEF after
    <3> QED
      BY <1>7 DEF Write, SetTarget, after
  <2> HIDE DEF after
  <2>3. \A j \in Instances : Same(inst[j], inst'[j])
    BY <2>1, <2>2, <1>0
  <2> QED
    BY <2>3, <1>1
<1>8. ASSUME NEW i \in Instances, UpdateStatus(i) PROVE NoneForgotten'
  <2> DEFINE again == Requeue(inst[i].pull.val)
  <2>1. \A j \in Instances : inst'[j] = IF j = i THEN Done(OldPull(inst[i]), again) ELSE OldPull(inst[j])
    BY <1>8 DEF UpdateStatus
  <2>2. ASSUME NEW j \in Instances PROVE Awaited(OldPull(inst[j]))
    BY <1>0 DEF NoneForgotten, Awaited, Latest, Reconciling
  <2>3. again \in BOOLEAN /\ (again \/ OldPull(inst[i]).pull.val.gen \in Unrefreshed)
    BY <1>0 DEF Requeue
  <2>4. OldPull(inst[i]).pc \in Reconciling /\ OldPull(inst[i]) \in InstType
    BY <1>8, OldPullType DEF UpdateStatus, Reconciling
  <2> HIDE DEF again
  <2>5. Awaited(Done(OldPull(inst[i]), again))
    BY <1>3, <2>2, <2>3, <2>4 DEF Awaited
  <2>6. \A j \in Instances : Awaited(inst'[j])
    BY <2>1, <2>2, <2>5
  <2> QED
    BY <2>6 DEF NoneForgotten, Awaited, Latest
<1>9. ASSUME NEW i \in Instances, SyncPull(i) PROVE NoneForgotten'
  <2>1. PICK d \in BOOLEAN :
          /\ inst' = [inst EXCEPT ![i] = [inst[i] EXCEPT !.cpull = Copy(pull), !.due = d]]
          /\ d = (inst[i].due \/ (pull # Absent /\ (inst[i].cpull.val = Absent \/ inst[i].cpull.val.gen # pull.gen)))
    BY <1>9 DEF SyncPull, InstType
  <2> DEFINE r == [inst[i] EXCEPT !.cpull = Copy(pull), !.due = d]
  <2>2. r.pc = inst[i].pc /\ r.pull = inst[i].pull /\ r.due = d /\ r.cpull.val = pull
    BY DEF InstType, Copy
  <2>3. Awaited(r)
    BY <2>1, <2>2 DEF NoneForgotten, Awaited, Latest
  <2> QED
    BY <2>1, <2>3, <1>2
<1>10. ASSUME NEW i \in Instances, Begin(i) PROVE NoneForgotten'
  <2>1. CASE inst[i].cpull.val = Absent
    <3>1. PICK d \in BOOLEAN : inst' = [inst EXCEPT ![i] = [inst[i] EXCEPT !.due = d]]
      BY <1>10, <2>1 DEF Begin
    <3>2. [inst[i] EXCEPT !.due = d].cpull = inst[i].cpull
      BY DEF InstType
    <3>3. Awaited([inst[i] EXCEPT !.due = d])
      BY <2>1, <3>2 DEF Awaited, Latest
    <3> QED
      BY <3>1, <3>3, <1>2
  <2>2. CASE inst[i].cpull.val # Absent
    <3>1. PICK d \in BOOLEAN :
            inst' = [inst EXCEPT ![i] = [inst[i] EXCEPT !.pc = "document", !.due = d, !.pull = inst[i].cpull]]
      BY <1>10, <2>2 DEF Begin
    <3> DEFINE r == [inst[i] EXCEPT !.pc = "document", !.due = d, !.pull = inst[i].cpull]
    <3>2. r.pc = "document" /\ r.pull = inst[i].cpull /\ r.cpull = inst[i].cpull
      BY DEF InstType
    <3>3. Awaited(r)
      BY <3>2 DEF Awaited, Latest
    <3> QED
      BY <3>1, <3>3, <1>2
  <2> QED
    BY <2>1, <2>2
<1>11. ASSUME NEW i \in Instances, SyncTarget(i) \/ GetDocument(i) \/ GetTarget(i) PROVE NoneForgotten'
  <2>1. inst'[i].cpull = inst[i].cpull /\ inst'[i].due = inst[i].due /\ inst'[i].pull = inst[i].pull
        /\ (inst'[i].pc = inst[i].pc \/ (inst[i].pc \in Reconciling /\ inst'[i].pc \in Reconciling))
    BY <1>11 DEF SyncTarget, GetDocument, GetTarget, InstType, Reconciling
  <2>2. inst' = [inst EXCEPT ![i] = inst'[i]]
    BY <1>11 DEF SyncTarget, GetDocument, GetTarget
  <2>3. Awaited(inst'[i])
    BY <2>1 DEF NoneForgotten, Awaited, Latest, Reconciling
  <2> QED
    BY <2>2, <2>3, <1>2
<1>12. ASSUME NEW i \in Instances, Refused(i) \/ StatusLost(i) \/ Fail(i) PROVE NoneForgotten'
  <2>1. PICK again \in BOOLEAN :
          inst' = [inst EXCEPT ![i] = Done(inst[i], again)] /\ (again \/ inst[i].pull.val.gen \in Unrefreshed)
    BY <1>12 DEF Refused, StatusLost, Fail, Requeue
  <2>2. inst[i].pc \in Reconciling /\ Latest(inst[i])
    BY <1>12 DEF Refused, StatusLost, Fail, Reconciling, NoneForgotten, Awaited
  <2> QED
    BY <2>1, <2>2, <1>2, <1>3
<1>13. ASSUME NEW i \in Instances, Up(i) PROVE NoneForgotten'
  <2> DEFINE r == [Down EXCEPT !.pc = "idle", !.due = pull # Absent, !.cpull = Copy(pull), !.ctarget = Copy(target)]
  <2>1. r.pc = "idle" /\ r.due = (pull # Absent) /\ r.cpull.val = pull
    BY DEF Down, Copy
  <2>2. Awaited(r)
    BY <2>1 DEF Awaited, Latest, Reconciling
  <2> QED
    BY <1>13, <2>2, <1>2 DEF Up
<1>14. ASSUME NEW i \in Instances, Stop(i) PROVE NoneForgotten'
  <2>1. Awaited(Down)
    BY DEF Down, Awaited, Latest, Reconciling
  <2> QED
    BY <1>14, <2>1, <1>2 DEF Stop
<1> QED
  BY <1>4, <1>5, <1>6, <1>7, <1>8, <1>9, <1>10, <1>11, <1>12, <1>13, <1>14 DEF Next

(* No failure, lost status update, stale copy or restart leaves an         *)
(* instance without a reconcile to come, although only new generations are *)
(* events, unless the generation it knows asks for no refresh: RequeueAfter*)
(* of a success and the error that Reconcile returns see to it, and a new  *)
(* generation that is seen during a reconcile is not lost with it.         *)
THEOREM AlwaysDue == Spec => []NeverForgotten
<1>1. Init => NoneForgotten
  <2>1. Awaited(Down)
    BY DEF Awaited, Latest, Reconciling, Down
  <2> QED
    BY <2>1 DEF Init, NoneForgotten
<1>2. TypeInv /\ NoneForgotten /\ [Next]_vars => NoneForgotten'
  <2>1. NoneForgotten /\ UNCHANGED vars => NoneForgotten'
    BY DEF vars, NoneForgotten, Awaited, Latest
  <2> QED
    BY <2>1, ForgottenNext
<1>3. TypeInv /\ NoneForgotten => NeverForgotten
  BY DEF TypeInv, Shape, InstType, NoneForgotten, NeverForgotten, Awaited, At
<1> QED
  BY <1>1, <1>2, <1>3, TypeAlways, PTL DEF Spec

(* The target is in sync, and no cache or reconcile holds anything older.  *)
Settled ==
  /\ InSync
  /\ \A i \in Instances :
       /\ inst[i].cpull.val # Absent => inst[i].cpull.val.gen = pull.gen
       /\ inst[i].pull.val # Absent => inst[i].pull.val.gen = pull.gen
       /\ inst[i].pc \in {"target", "write", "status"} => inst[i].doc = doc

(* Nobody changes the document, the spec of the HubPull or the target.     *)
Undisturbed == UNCHANGED <<doc, edits>> /\ pull' # Absent /\ pull'.gen = pull.gen

SyncLasts == [][Settled /\ Undisturbed => Settled']_vars

LEMMA PullMoves ==
  ASSUME TypeInv, Next, pull # Absent, pull' # Absent, pull'.gen = pull.gen
  PROVE  pull' = pull \/ \E i \in Instances : At(i, "status") /\ pull'.observed = inst[i].doc.ver
<1> USE DEF cluster
<1>1. CASE EditPull
  <2>1. pull.gen \in Nat /\ pull'.gen = pull.gen + 1
    BY <1>1 DEF EditPull, SetPull, TypeInv, Shape, PullType
  <2> QED
    BY <2>1
<1>2. ASSUME NEW i \in Instances, UpdateStatus(i)
      PROVE  At(i, "status") /\ pull'.observed = inst[i].doc.ver
  <2>1. inst[i].pull.val \in [gen : 1..MaxGen, observed : 0..MaxDocs]
    BY <1>2 DEF UpdateStatus, TypeInv, Shape, Reliable, InstType, CopyOf, PullType, Reconciling, At
  <2> QED
    BY <1>2, <2>1 DEF UpdateStatus
<1> QED
  BY <1>1, <1>2 DEF Next, Apply, Delete, DeletePull, CreatePull, SetPull, EditTarget, Up, Stop, SyncPull, SyncTarget,
     Begin, GetDocument, GetTarget, Write, Refused, StatusLost, Fail

LEMMA TargetMoves ==
  ASSUME TypeInv, Next, edits' = edits
  PROVE  target' = target \/ \E i \in Instances : Write(i)
<1>1. CASE EditTarget
  BY <1>1 DEF EditTarget
<1> QED
  BY <1>1 DEF Next, cluster, Apply, Delete, EditPull, DeletePull, CreatePull, SetPull, Up, Stop, SyncPull, SyncTarget,
     Begin, GetDocument, GetTarget, Refused, UpdateStatus, StatusLost, Fail

(* A settled target is not disturbed by the operators, of which any number *)
(* may run, overlap, fail and restart: until somebody changes the document,*)
(* the spec or the target, every write and every status update writes what *)
(* is there already.  In sync is stable once no reconcile that began       *)
(* before the last change is left, which is the second half of Converges.  *)
THEOREM SettledLasts == Spec => SyncLasts
<1>1. IInv /\ [Next]_vars => [Settled /\ Undisturbed => Settled']_vars
  <2> SUFFICES ASSUME TypeInv, TypeInv', Next, Settled, Undisturbed PROVE Settled'
    BY TypeNext DEF IInv
  <2>1. /\ World /\ \A i \in Instances : Move(i) /\ Seen(i)
        /\ pull # Absent /\ pull' # Absent /\ pull'.gen = pull.gen /\ doc' = doc /\ edits' = edits
    BY StepOf DEF Settled, InSync, Undisturbed
  <2>2. target' = target
    <3>1. ASSUME NEW i \in Instances, Write(i) PROVE target' = target
      <4>1. target' = Rendered(i) /\ inst[i].pc = "write"
        BY <3>1, WriteDoes
      <4>2. inst[i].doc.n = doc.n /\ inst[i].pull.val.gen = pull.gen
        BY <4>1 DEF Settled, TypeInv, Reliable, Reconciling
      <4> QED
        BY <4>1, <4>2 DEF Rendered, Settled, InSync
    <3> QED
      BY <2>1, <3>1, TargetMoves
  <2>3. pull'.observed = doc.ver
    <3>1. ASSUME NEW i \in Instances, At(i, "status") PROVE inst[i].doc.ver = doc.ver
      BY <3>1 DEF Settled, At
    <3> QED
      BY <2>1, <3>1, PullMoves DEF Settled, InSync
  <2>4. InSync'
    BY <2>1, <2>2, <2>3 DEF Settled, InSync
  <2>5. ASSUME NEW i \in Instances
        PROVE  /\ inst'[i].cpull.val # Absent => inst'[i].cpull.val.gen = pull'.gen
               /\ inst'[i].pull.val # Absent => inst'[i].pull.val.gen = pull'.gen
    BY <2>1 DEF Settled, Seen
  <2>6. ASSUME NEW i \in Instances, inst'[i].pc \in {"target", "write", "status"}
        PROVE  inst'[i].doc = doc'
    <3>1. CASE Write(i) /\ inst'[i].doc = inst[i].doc
      BY <2>1, <3>1, WriteDoes DEF Settled
    <3> QED
      BY <2>1, <2>6, <3>1 DEF Settled, Move, Kept, At
  <2> QED
    BY <2>4, <2>5, <2>6 DEF Settled
<1> QED
  BY <1>1, InvAlways, PTL DEF Spec, SyncLasts
=============================================================================
