------------------------------ MODULE HubPull ------------------------------
(***************************************************************************)
(* The operator (operator/internal/controller): HubPullReconciler copies a *)
(* document of the hub, rendered by the template of a HubPull, into a      *)
(* Secret or ConfigMap of the cluster.                                     *)
(*                                                                         *)
(* An instance reads the HubPull and the target from its informer caches,  *)
(* which lag behind the API server, and the document from the hub.  One    *)
(* worker serves the one HubPull modelled, but two instances overlap while *)
(* the Deployment rolls over (there is no leader election).  The template  *)
(* is the HubPull's generation; a target is what it was rendered from.     *)
(*                                                                         *)
(* A generation stands for one spec.  Of its refreshInterval it matters    *)
(* whether it is positive ("0s" and "-1m" parse): controller-runtime takes *)
(* a RequeueAfter of zero or less for no requeue.                          *)
(*                                                                         *)
(* Resource versions are compared for equality only: a copy is marked as   *)
(* current until the object changes.                                       *)
(***************************************************************************)
EXTENDS Naturals

CONSTANTS
  Instances,  \* operator processes
  Absent,     \* no such object
  Edited,     \* a target that somebody else wrote
  MaxDocs,    \* bound on the writes of the document
  MaxGen,     \* bound on the generations of the HubPull
  Unrefreshed,\* the generations whose refreshInterval is zero or less
  MaxEdits    \* bound on the changes others make to the target

ASSUME BoundsAssumption == MaxDocs \in Nat \ {0} /\ MaxGen \in Nat \ {0} /\ MaxEdits \in Nat

VARIABLES
  doc,         \* the document in the hub: how often written, its version or 0
  pull,        \* the HubPull: its generation, status.observedVersion; or Absent
  target,      \* the target object
  edits,       \* how often others changed the target
  inst,        \* the instances, each with its cache and its reconcile
  applied,     \* the versions that were written to the target
  overlapped   \* two instances have been up at the same time

vars == <<doc, pull, target, edits, inst, applied, overlapped>>
cluster == <<doc, edits, overlapped>>

(* A copy of an object, and whether the object is still the same. *)
Copy(v) == [val |-> v, current |-> TRUE]
NoCopy  == [val |-> Absent, current |-> FALSE]

(* cpull and ctarget are the caches; pull, doc and target what the         *)
(* reconcile in progress has read.                                         *)
Down == [pc |-> "down", due |-> FALSE, cpull |-> NoCopy, ctarget |-> NoCopy,
         pull |-> NoCopy, doc |-> [n |-> 0, ver |-> 0], target |-> NoCopy]

Init ==
  /\ doc = [n |-> 1, ver |-> 1]
  /\ pull = [gen |-> 1, observed |-> 0]
  /\ target = Absent
  /\ edits = 0
  /\ inst = [i \in Instances |-> Down]
  /\ applied = {} /\ overlapped = FALSE

-----------------------------------------------------------------------------
(* The copies that a change of the HubPull, or of the target, leaves old.  *)

OldPull(r)   == [r EXCEPT !.cpull.current = FALSE, !.pull.current = FALSE]
OldTarget(r) == [r EXCEPT !.ctarget.current = FALSE, !.target.current = FALSE]

SetPull(p)   == pull' = p /\ inst' = [i \in Instances |-> OldPull(inst[i])]

(* The API server does not count an update that changes nothing. *)
SetTarget(t, after) ==
  /\ target' = t
  /\ inst' = [i \in Instances |-> IF t = target THEN after[i] ELSE OldTarget(after[i])]

-----------------------------------------------------------------------------
(* The hub, the users of the cluster, the informers                        *)

Apply ==
  /\ doc.n < MaxDocs
  /\ doc' = [n |-> doc.n + 1, ver |-> doc.ver + 1]
  /\ UNCHANGED <<pull, target, edits, inst, applied, overlapped>>

Delete ==
  /\ doc.ver # 0
  /\ doc' = [doc EXCEPT !.ver = 0]
  /\ UNCHANGED <<pull, target, edits, inst, applied, overlapped>>

(* The spec changes; a deleted HubPull may be created again. *)
EditPull ==
  /\ pull # Absent /\ pull.gen < MaxGen
  /\ SetPull([pull EXCEPT !.gen = @ + 1])
  /\ UNCHANGED <<cluster, target, applied>>

DeletePull ==
  /\ pull # Absent
  /\ SetPull(Absent)
  /\ UNCHANGED <<cluster, target, applied>>

CreatePull ==
  /\ pull = Absent
  /\ SetPull([gen |-> 1, observed |-> 0])
  /\ UNCHANGED <<cluster, target, applied>>

EditTarget ==
  /\ edits < MaxEdits /\ edits' = edits + 1
  /\ \E t \in {Absent, Edited} : t # target /\ SetTarget(t, inst)
  /\ UNCHANGED <<doc, pull, applied, overlapped>>

(* An event reaches an informer.  GenerationChangedPredicate: a HubPull    *)
(* that is new or has a new generation is reconciled, no event of the      *)
(* target is watched.                                                      *)
SyncPull(i) ==
  /\ inst[i].pc # "down" /\ ~inst[i].cpull.current
  /\ inst' = [inst EXCEPT ![i].cpull = Copy(pull),
                          ![i].due = @ \/ (pull # Absent /\
                             (inst[i].cpull.val = Absent \/ inst[i].cpull.val.gen # pull.gen))]
  /\ UNCHANGED <<cluster, pull, target, applied>>

SyncTarget(i) ==
  /\ inst[i].pc # "down" /\ ~inst[i].ctarget.current
  /\ inst' = [inst EXCEPT ![i].ctarget = Copy(target)]
  /\ UNCHANGED <<cluster, pull, target, applied>>

(* An instance lists everything as it starts. *)
Up(i) ==
  /\ inst[i].pc = "down"
  /\ inst' = [inst EXCEPT ![i] = [Down EXCEPT !.pc = "idle", !.due = pull # Absent,
                                              !.cpull = Copy(pull), !.ctarget = Copy(target)]]
  /\ overlapped' = (overlapped \/ \E j \in Instances \ {i} : inst[j].pc # "down")
  /\ UNCHANGED <<doc, pull, target, edits, applied>>

Stop(i) ==
  /\ inst[i].pc # "down"
  /\ inst' = [inst EXCEPT ![i] = Down]
  /\ UNCHANGED <<cluster, pull, target, applied>>

-----------------------------------------------------------------------------
(* Reconcile                                                               *)

At(i, pc) == inst[i].pc = pc

(* Reconcile returns and keeps nothing of what it read; it is due again if *)
(* a requeue is asked for, or if a new generation was seen meanwhile.      *)
Done(r, again) == [r EXCEPT !.pc = "idle", !.due = @ \/ again,
                            !.pull = Down.pull, !.doc = Down.doc, !.target = Down.target]

(* Seeded fault: a HubPull that is gone is not told from one that is there.*)
Begin_Unchecked(i) ==
  /\ At(i, "idle") /\ inst[i].due
  /\ inst' = [inst EXCEPT ![i].pc = "document", ![i].due = FALSE, ![i].pull = inst[i].cpull]
  /\ UNCHANGED <<cluster, pull, target, applied>>

(* The request leaves the queue; an earlier requeue may be yet to come. A  *)
(* HubPull that is gone is not asked for again.                            *)
Begin(i) ==
  /\ At(i, "idle") /\ inst[i].due
  /\ \E due \in BOOLEAN :
       inst' = [inst EXCEPT ![i] =
         IF @.cpull.val = Absent THEN [@ EXCEPT !.due = due]
         ELSE [@ EXCEPT !.pc = "document", !.due = due, !.pull = inst[i].cpull]]
  /\ UNCHANGED <<cluster, pull, target, applied>>

(* Seeded fault: nothing is asked for after a success. *)
Requeue_Never(p) == FALSE

(* A success asks for a requeue after the interval, if it is positive. *)
Requeue(p) == p.gen \notin Unrefreshed

(* Seeded fault: the answer may come from a cache on the way. *)
GetDocument_Cached(i) ==
  /\ At(i, "document") /\ doc.ver # 0
  /\ \E n \in 1..doc.n : inst' = [inst EXCEPT ![i].pc = "target", ![i].doc = [n |-> n, ver |-> n]]
  /\ UNCHANGED <<cluster, pull, target, applied>>

(* The client makes an error of an answer that is no document. *)
Found == doc.ver # 0

(* tokenFor, then Get of the client. *)
GetDocument(i) ==
  /\ At(i, "document") /\ Found
  /\ inst' = [inst EXCEPT ![i].pc = "target", ![i].doc = doc]
  /\ UNCHANGED <<cluster, pull, target, applied>>

(* Get of the object that the rendered one names, from the cache. *)
GetTarget(i) ==
  /\ At(i, "target")
  /\ inst' = [inst EXCEPT ![i].pc = "write", ![i].target = inst[i].ctarget]
  /\ UNCHANGED <<cluster, pull, target, applied>>

Rendered(i) == [doc |-> inst[i].doc.n, gen |-> inst[i].pull.val.gen]

(* Seeded fault: the resource version is not passed on to Update. *)
CanWrite_Unversioned(i) == (inst[i].target.val = Absent) = (target = Absent)

(* Create needs that there is none, Update the resource version read. *)
CanWrite(i) ==
  IF inst[i].target.val = Absent THEN target = Absent
  ELSE target # Absent /\ inst[i].target.current

Write(i) ==
  /\ At(i, "write") /\ CanWrite(i)
  /\ SetTarget(Rendered(i), [inst EXCEPT ![i].pc = "status"])
  /\ applied' = applied \cup {inst[i].doc.ver}
  /\ UNCHANGED <<cluster, pull>>

(* Seeded fault: an error of Create or Update is only logged. *)
Refused_Logged(i) ==
  /\ At(i, "write") /\ ~CanWrite(i)
  /\ inst' = [inst EXCEPT ![i].pc = "status"]
  /\ UNCHANGED <<cluster, pull, target, applied>>

(* AlreadyExists, NotFound or Conflict: an error, due again after the back-off. *)
Refused(i) ==
  /\ At(i, "write") /\ ~CanWrite(i)
  /\ inst' = [inst EXCEPT ![i] = Done(@, TRUE)]
  /\ UNCHANGED <<cluster, pull, target, applied>>

(* The status is updated if the HubPull is still the one that was read (it *)
(* changes each time, for the LastSyncTime); if it is not, that is logged. *)
UpdateStatus(i) ==
  /\ At(i, "status") /\ inst[i].pull.current
  /\ pull' = [inst[i].pull.val EXCEPT !.observed = inst[i].doc.ver]
  /\ inst' = [j \in Instances |->
                IF j = i THEN Done(OldPull(inst[i]), Requeue(inst[i].pull.val)) ELSE OldPull(inst[j])]
  /\ UNCHANGED <<cluster, target, applied>>

StatusLost(i) ==
  /\ At(i, "status") /\ ~inst[i].pull.current
  /\ inst' = [inst EXCEPT ![i] = Done(@, Requeue(@.pull.val))]
  /\ UNCHANGED <<cluster, pull, target, applied>>

(* Any call fails, or the document is missing: the error is returned. *)
Fail(i) ==
  /\ inst[i].pc \in {"document", "target", "write", "status"}
  /\ inst' = [inst EXCEPT ![i] = Done(@, TRUE)]
  /\ UNCHANGED <<cluster, pull, target, applied>>

-----------------------------------------------------------------------------
Next ==
  \/ Apply \/ Delete \/ EditPull \/ DeletePull \/ CreatePull \/ EditTarget
  \/ \E i \in Instances :
       \/ Up(i) \/ Stop(i) \/ SyncPull(i) \/ SyncTarget(i)
       \/ Begin(i) \/ GetDocument(i) \/ GetTarget(i) \/ Write(i) \/ Refused(i)
       \/ UpdateStatus(i) \/ StatusLost(i) \/ Fail(i)

Spec == Init /\ [][Next]_vars

(* Informers get every event, workers run, and no call fails for ever. *)
Fairness ==
  \A i \in Instances :
    /\ WF_vars(SyncPull(i)) /\ WF_vars(SyncTarget(i))
    /\ WF_vars(Begin(i)) /\ WF_vars(Refused(i) \/ StatusLost(i))
    /\ SF_vars(GetDocument(i)) /\ SF_vars(GetTarget(i)) /\ SF_vars(Write(i)) /\ SF_vars(UpdateStatus(i))

LiveSpec == Spec /\ Fairness

-----------------------------------------------------------------------------
(* Properties                                                              *)

TargetType == {Absent, Edited} \cup [doc : 1..MaxDocs, gen : 1..MaxGen]
PullType   == {Absent} \cup [gen : 1..MaxGen, observed : 0..MaxDocs]
CopyOf(S)  == [val : S, current : BOOLEAN]

(* Types, and what marks a copy as current: it is the object. *)
TypeOK ==
  /\ doc \in [n : 1..MaxDocs, ver : 0..MaxDocs]
  /\ pull \in PullType /\ target \in TargetType
  /\ \A i \in Instances :
       /\ inst[i].pull \in CopyOf(PullType) /\ inst[i].target \in CopyOf(TargetType)
       /\ inst[i].pc # "down" /\ inst[i].cpull.current => inst[i].cpull.val = pull
       /\ inst[i].pc # "down" /\ inst[i].ctarget.current => inst[i].ctarget.val = target
       /\ inst[i].pc \in {"document", "target", "write", "status"} => inst[i].pull.val # Absent

(* The status never names a version that was not written to the target.    *)
ObservedWasApplied == pull # Absent => pull.observed \in applied \cup {0}

(* A reconcile replaces only an object it has read as it is: nobody's      *)
(* change to the target is overwritten without having been seen.           *)
OverwritesWhatItRead ==
  [][\A i \in Instances :
       inst[i].pc = "write" /\ inst'[i].pc = "status" => target = inst[i].target.val]_vars

(* A target never goes back to an older content of the document, whatever  *)
(* fails, stops or restarts, as long as no two instances ever overlapped.  *)
IsRendered(t) == t \notin {Absent, Edited}

NeverBackAlone ==
  [][IsRendered(target) /\ IsRendered(target)' /\ ~overlapped' => target.doc <= target'.doc]_vars

(* If from some time on there are a HubPull that asks for a refresh, its   *)
(* document and an operator, the target is in the end what the template    *)
(* makes of the document, as the status says, although others edit the     *)
(* target, caches are stale, calls fail and earlier generations may have   *)
(* asked for none: nothing is watched but the generation of the HubPull,   *)
(* and the requeue makes up for it.                                        *)
Healthy == pull # Absent /\ pull.gen \notin Unrefreshed /\ doc.ver # 0
StaysUp == \E i \in Instances : <>[](inst[i].pc # "down")
InSync  == /\ pull # Absent
           /\ target = [doc |-> doc.n, gen |-> pull.gen]
           /\ pull.observed = doc.ver

Converges == <>[]Healthy /\ StaysUp => <>[]InSync
=============================================================================
