--------------------------- MODULE GitStoreProofs ---------------------------
(***************************************************************************)
(* Proofs about GitStore, for any paths, writers, faults and bounds.       *)
(***************************************************************************)
EXTENDS GitStore, SequenceTheorems, TLAPS

(* What every step does to the history: commits are only added, and origin *)
(* and HEAD only move to descendants.                                      *)
Grown == \A d \in DOMAIN commits : d \in DOMAIN commits' /\ commits'[d] = commits[d]

RepoStep ==
  /\ RepoOK' /\ DiskOK' /\ Grown
  /\ origin \in Anc(origin)'
  /\ head # 0 /\ head' # 0 => head \in Anc(head)'

(* A file an envelope is abstracted to when WriteFile is cut short is one. *)
LEMMA TruncatedIsFile == Truncated \in File
BY BoundsAssumption DEF Truncated, File, Env

(* What a commit holds is a tree. *)
LEMMA TreeOfCommit ==
  ASSUME RepoOK, NEW c \in DOMAIN commits
  PROVE  commits[c] \in Commits /\ commits[c].tree \in Tree
<1>1. commits \in Seq(Commits)
  BY DEF RepoOK
<1>2. commits \in [1..Len(commits) -> Commits]
  BY <1>1, LenProperties
<1>3. commits[c] \in Commits
  BY <1>2
<1> QED
  BY <1>3 DEF Commits

(* Appending a commit leaves the others as they are. *)
LEMMA AppendCommit ==
  ASSUME commits \in Seq(Commits), NEW c \in Commits, commits' = Append(commits, c)
  PROVE  /\ Len(commits) \in Nat
         /\ DOMAIN commits = 1..Len(commits)
         /\ commits' \in Seq(Commits)
         /\ DOMAIN commits' = 1..(Len(commits) + 1)
         /\ Grown
         /\ commits'[Len(commits) + 1] = c
<1>1. Len(commits) \in Nat /\ DOMAIN commits = 1..Len(commits)
  BY LenProperties
<1>2. commits' \in Seq(Commits) /\ Len(commits') = Len(commits) + 1
  OBVIOUS
<1>3. DOMAIN commits' = 1..(Len(commits) + 1)
  BY <1>2, LenProperties
<1>4. Grown /\ commits'[Len(commits) + 1] = c
  BY <1>1, <1>3 DEF Grown
<1> QED
  BY <1>1, <1>2, <1>3, <1>4

(* A child of a commit extends the history, whoever makes it. *)
LEMMA ChildExtends ==
  ASSUME RepoOK, NEW c \in DOMAIN commits, NEW t \in Tree, NEW w \in {"init", "hubd", "external"},
         commits' = Append(commits, Child(c, t, w))
  PROVE  /\ commits' \in Seq(Commits)
         /\ HistoryOK'
         /\ Grown
         /\ Len(commits) + 1 \in DOMAIN commits'
         /\ commits'[Len(commits) + 1].anc = Anc(c) \cup {Len(commits) + 1}
         /\ commits'[Len(commits) + 1].tree = t
         /\ commits'[Len(commits) + 1].by = w
<1> DEFINE n == Len(commits) + 1
<1>1. Len(commits) \in Nat /\ DOMAIN commits = 1..Len(commits)
  BY LenProperties DEF RepoOK
<1>2. Anc(c) \subseteq 1..c /\ c \in 1..Len(commits)
  BY <1>1 DEF RepoOK, HistoryOK
<1>3. Child(c, t, w) \in Commits
  BY <1>1, <1>2 DEF Child, Commits
<1>4. /\ commits' \in Seq(Commits) /\ DOMAIN commits' = 1..n
      /\ Grown /\ commits'[n] = Child(c, t, w)
  BY <1>3, AppendCommit DEF RepoOK
<1>5. commits'[n].anc = Anc(c) \cup {n} /\ commits'[n].tree = t /\ commits'[n].by = w
  BY <1>4 DEF Child
<1>6. HistoryOK'
  <2> SUFFICES ASSUME NEW d \in DOMAIN commits'
               PROVE  /\ d \in commits'[d].anc
                      /\ commits'[d].anc \subseteq 1..d
                      /\ \A e \in commits'[d].anc : commits'[e].anc \subseteq commits'[d].anc
    BY DEF HistoryOK, Anc
  <2>1. CASE d \in DOMAIN commits
    <3>1. commits'[d] = commits[d]
      BY <2>1, <1>4 DEF Grown
    <3>2. \A e \in commits[d].anc : e \in DOMAIN commits
      BY <2>1, <1>1 DEF RepoOK, HistoryOK, Anc
    <3>3. \A e \in commits[d].anc : commits'[e] = commits[e]
      BY <3>2, <1>4 DEF Grown
    <3> QED
      BY <2>1, <3>1, <3>3 DEF RepoOK, HistoryOK, Anc
  <2>2. CASE d = n
    <3>1. commits'[n].anc \subseteq 1..n
      BY <1>1, <1>2, <1>5
    <3>2. \A e \in Anc(c) : commits'[e] = commits[e]
      BY <1>1, <1>2, <1>4 DEF Grown
    <3>3. \A e \in Anc(c) : commits'[e].anc \subseteq Anc(c)
      BY <3>2 DEF RepoOK, HistoryOK, Anc
    <3> QED
      BY <2>2, <1>5, <3>1, <3>3
  <2> QED
    BY <1>1, <1>4, <2>1, <2>2
<1> QED
  BY <1>1, <1>4, <1>5, <1>6

-----------------------------------------------------------------------------
(* The effect of each call on history and disk.                            *)

(* A step that adds no commit and leaves origin and HEAD alone. *)
LEMMA DiskStep ==
  ASSUME RepoOK, UNCHANGED <<commits, origin, head>>,
         fetchHead' \in DOMAIN commits \cup {0}, DiskOK'
  PROVE  RepoStep
BY DEF RepoStep, RepoOK, HistoryOK, Grown, Anc

LEMMA WriteStep ==
  ASSUME RepoOK, DiskOK, req \in Requests, NEW f \in File, DoWrite(f)
  PROVE  RepoStep
<1>1. DiskOK'
  BY DEF DiskOK, DoWrite, Requests, Tree
<1> QED
  BY <1>1, DiskStep DEF DoWrite, repo, RepoOK

LEMMA AddStep ==
  ASSUME RepoOK, DiskOK, req \in Requests, DoAdd
  PROVE  RepoStep
<1>1. DiskOK'
  BY DEF DiskOK, DoAdd, Requests, Tree
<1> QED
  BY <1>1, DiskStep DEF DoAdd, repo, RepoOK

LEMMA RmStep ==
  ASSUME RepoOK, DiskOK, req \in Requests, DoRm
  PROVE  RepoStep
<1>1. DiskOK'
  BY DEF DiskOK, DoRm, Requests, Tree, File
<1> QED
  BY <1>1, DiskStep DEF DoRm, repo, RepoOK

LEMMA FetchStep ==
  ASSUME RepoOK, DiskOK, DoFetch
  PROVE  RepoStep
<1>1. DiskOK'
  BY DEF DiskOK, DoFetch, disk
<1> QED
  BY <1>1, DiskStep DEF DoFetch, RepoOK

LEMMA CommitStep ==
  ASSUME RepoOK, DiskOK, head # 0, DoCommit
  PROVE  /\ RepoStep
         /\ HeadTree' = stage
         /\ Anc(head)' = Anc(head) \cup {head'}
<1>1. head \in DOMAIN commits /\ stage \in Tree
  BY DEF RepoOK, DiskOK
<1>2. commits' = Append(commits, Child(head, stage, "hubd")) /\ head' = Len(commits) + 1
  BY DEF DoCommit
<1>3. /\ commits' \in Seq(Commits) /\ HistoryOK' /\ Grown
      /\ head' \in DOMAIN commits'
      /\ commits'[head'].anc = Anc(head) \cup {head'}
      /\ commits'[head'].tree = stage
  BY <1>1, <1>2, ChildExtends
<1>4. DiskOK' /\ origin' = origin /\ fetchHead' = fetchHead
  BY DEF DoCommit, DiskOK, disk
<1>5. RepoOK'
  BY <1>3, <1>4 DEF RepoOK, Grown
<1>6. origin \in Anc(origin)' /\ head \in Anc(head)'
  BY <1>1, <1>3, <1>4 DEF RepoOK, HistoryOK, Grown, Anc
<1> QED
  BY <1>3, <1>4, <1>5, <1>6 DEF RepoStep, HeadTree, Anc

LEMMA PushStep ==
  ASSUME RepoOK, DiskOK, head # 0, CanPush, DoPush
  PROVE  RepoStep /\ origin' = head
<1>1. DiskOK' /\ commits' = commits /\ head' = head /\ origin' = head /\ fetchHead' = fetchHead
  BY DEF DoPush, DiskOK, disk
<1> QED
  BY <1>1 DEF RepoStep, RepoOK, HistoryOK, Grown, Anc, CanPush

LEMMA MergeStep ==
  ASSUME RepoOK, DiskOK, head # 0, fetchHead # 0, CanMerge, DoMerge
  PROVE  RepoStep
<1>1. fetchHead \in DOMAIN commits /\ commits[fetchHead].tree \in Tree
  BY TreeOfCommit DEF RepoOK
<1>2. DiskOK'
  BY <1>1 DEF DiskOK, DoMerge, Merged, Tree
<1> QED
  BY <1>1, <1>2 DEF RepoStep, RepoOK, HistoryOK, Grown, Anc, DoMerge, CanMerge

LEMMA CutShortStep ==
  ASSUME RepoOK, DiskOK, req \in Requests, pc = "merge" => fetchHead # 0, CutShort
  PROVE  RepoStep
<1>1. CASE pc = "write" /\ DoWrite(Truncated)
  BY <1>1, WriteStep, TruncatedIsFile
<1>2. CASE ~(pc = "write" /\ DoWrite(Truncated))
  <2>1. gitLock' = TRUE /\ UNCHANGED <<repo, stage>>
    BY <1>2 DEF CutShort
  <2>2. work' \in Tree
    <3>1. CASE pc \in {"add", "commit"} /\ work' = work
      BY <3>1 DEF DiskOK
    <3>2. CASE pc = "rm" /\ work' \in {work, [work EXCEPT ![req.path] = Absent]}
      BY <3>2 DEF DiskOK, Tree, File, Requests
    <3>3. CASE /\ pc = "merge"
               /\ \E ps \in SUBSET Paths :
                    work' = [p \in Paths |-> IF p \in ps THEN Merged(work)[p] ELSE work[p]]
      <4>1. fetchHead \in DOMAIN commits /\ commits[fetchHead].tree \in Tree
        BY <3>3, TreeOfCommit DEF RepoOK
      <4> QED
        BY <3>3, <4>1 DEF DiskOK, Merged, Tree
    <3> QED
      BY <1>2, <3>1, <3>2, <3>3 DEF CutShort
  <2> QED
    BY <2>1, <2>2, DiskStep DEF repo, RepoOK, DiskOK
<1> QED
  BY <1>1, <1>2

(* Whatever a failing or killed call leaves behind is such a step as well. *)
LEMMA ResidueStep ==
  ASSUME RepoOK, DiskOK, InProgress, req \in Requests, pc # "down", Residue
  PROVE  RepoStep /\ head' # 0
<1>1. head # 0
  BY DEF InProgress
<1>2. CASE UNCHANGED <<repo, disk>>
  BY <1>1, <1>2, DiskStep DEF repo, disk, RepoOK, DiskOK
<1>3. CASE Carried
  <2>1. CASE pc = "write" /\ DoWrite(req.file)
    BY <1>1, <2>1, WriteStep DEF Requests, DoWrite, repo
  <2>2. CASE pc = "add" /\ CanAdd /\ DoAdd
    BY <1>1, <2>2, AddStep DEF DoAdd, repo
  <2>3. CASE pc = "rm" /\ CanRm /\ DoRm
    BY <1>1, <2>3, RmStep DEF DoRm, repo
  <2>4. CASE pc = "commit" /\ CanCommit /\ DoCommit
    <3>1. Len(commits) \in Nat
      BY LenProperties DEF RepoOK
    <3> QED
      BY <1>1, <2>4, <3>1, CommitStep DEF DoCommit
  <2>5. CASE pc = "push" /\ CanPush /\ DoPush
    BY <1>1, <2>5, PushStep DEF DoPush
  <2>6. CASE pc = "fetch" /\ DoFetch
    BY <1>1, <2>6, FetchStep DEF DoFetch
  <2>7. CASE pc = "merge" /\ ~UpToDate /\ CanMerge /\ DoMerge
    BY <1>1, <2>7, MergeStep DEF InProgress, DoMerge
  <2> QED
    BY <1>3, <2>1, <2>2, <2>3, <2>4, <2>5, <2>6, <2>7 DEF Carried
<1>4. CASE CutShort
  BY <1>1, <1>4, CutShortStep DEF InProgress, CutShort, DoWrite, repo
<1> QED
  BY <1>2, <1>3, <1>4 DEF Residue

(* The operation's own calls, when nothing fails. *)
LEMMA OperationStep ==
  ASSUME RepoOK, DiskOK, InProgress, req \in Requests, pc # "down", Operation
  PROVE  RepoStep /\ head' # 0
<1>1. head # 0
  BY DEF InProgress
<1>2. CASE ApplyWrite \/ Add \/ Rm \/ Commit \/ Push \/ Fetch \/ FastForward
  <2>1. Carried
    BY <1>2 DEF Carried, ApplyWrite, Add, Rm, Commit, Push, Fetch, FastForward
  <2> QED
    BY <2>1, ResidueStep DEF Residue
<1>3. CASE CommitNothing \/ AlreadyUpToDate \/ RefreshSkip \/ RefreshBegin \/ IndexOne
           \/ IndexDone \/ PublishUpsert \/ PublishDelete \/ Finish \/ Refused
  <2>1. UNCHANGED <<repo, disk>>
    BY <1>3 DEF CommitNothing, AlreadyUpToDate, RefreshSkip, RefreshBegin, IndexOne, IndexDone,
                PublishUpsert, PublishDelete, Publish, Finish, Refused
  <2> QED
    BY <2>1, ResidueStep DEF Residue
<1> QED
  BY <1>2, <1>3 DEF Operation

LEMMA ExternalStep ==
  ASSUME RepoOK, DiskOK, ExternalPush
  PROVE  RepoStep
<1>1. PICK p \in Paths, f \in ExternalFiles :
        commits' = Append(commits, Child(origin, [commits[origin].tree EXCEPT ![p] = f], "external"))
  BY DEF ExternalPush
<1>2. origin \in DOMAIN commits /\ commits[origin].tree \in Tree
  BY TreeOfCommit DEF RepoOK
<1>3. [commits[origin].tree EXCEPT ![p] = f] \in Tree
  BY <1>2, TreesAssumption DEF Tree
<1>4. origin' = Len(commits) + 1 /\ head' = head /\ fetchHead' = fetchHead /\ DiskOK'
  BY DEF ExternalPush, DiskOK, disk
<1>5. /\ commits' \in Seq(Commits) /\ HistoryOK' /\ Grown
      /\ origin' \in DOMAIN commits'
      /\ commits'[origin'].anc = Anc(origin) \cup {origin'}
  BY <1>1, <1>2, <1>3, <1>4, ChildExtends
<1>6. RepoOK'
  BY <1>4, <1>5 DEF RepoOK, Grown
<1>7. origin \in Anc(origin)' /\ (head # 0 => head \in Anc(head)')
  BY <1>2, <1>4, <1>5 DEF RepoOK, HistoryOK, Grown, Anc
<1> QED
  BY <1>4, <1>5, <1>6, <1>7 DEF RepoStep

-----------------------------------------------------------------------------
(* The inductive invariant.                                                *)

Inv == TypeOK /\ InProgress /\ AckedDurable

LEMMA InvInit == Init => Inv
<1> SUFFICES ASSUME Init PROVE Inv
  OBVIOUS
<1>1. PICK t \in InitTrees : commits = <<[anc |-> {1}, tree |-> t, by |-> "init"]>>
  BY DEF Init
<1>2. [anc |-> {1}, tree |-> t, by |-> "init"] \in Commits
  BY TreesAssumption DEF Commits
<1>3. commits \in Seq(Commits) /\ DOMAIN commits = {1} /\ commits[1].anc = {1}
  BY <1>1, <1>2
<1>4. RepoOK
  BY <1>3 DEF Init, RepoOK, HistoryOK, Anc
<1>5. DiskOK /\ MemoryOK
  BY DEF Init, DiskOK, MemoryOK, Tree, File, NoEntries, IndexType
<1>6. OperationOK
  BY PathsAssumption DEF Init, OperationOK, Requests, NoReq, File
<1>7. InProgress /\ AckedDurable
  BY DEF Init, InProgress, AckedDurable
<1> QED
  BY <1>4, <1>5, <1>6, <1>7 DEF Inv, TypeOK

LEMMA InvRepo ==
  ASSUME Inv, [Next]_vars
  PROVE  RepoStep /\ (pc # "down" => head' # 0)
<1> USE DEF Inv, TypeOK, OperationOK
<1>1. CASE OpenClone
  <2>1. pc = "down" /\ head = 0 /\ head' = origin /\ UNCHANGED <<commits, origin, fetchHead>>
    BY <1>1 DEF OpenClone
  <2>2. DiskOK'
    BY <1>1, TreeOfCommit DEF OpenClone, DiskOK, RepoOK
  <2> QED
    BY <2>1, <2>2 DEF RepoStep, RepoOK, HistoryOK, Grown, Anc
<1>2. CASE VolumeLost
  <2>1. DiskOK' /\ head' = 0 /\ fetchHead' = 0 /\ pc = "down" /\ UNCHANGED <<commits, origin>>
    BY <1>2 DEF VolumeLost, DiskOK, Tree, File
  <2> QED
    BY <2>1 DEF RepoStep, RepoOK, HistoryOK, Grown, Anc
<1>3. CASE ExternalPush
  BY <1>3, ExternalStep DEF ExternalPush, InProgress
<1>4. CASE Operation
  <2>1. pc # "down"
    BY <1>4 DEF Operation, ApplyWrite, Add, Rm, Commit, CommitNothing, Push, Fetch, AlreadyUpToDate,
                FastForward, RefreshSkip, RefreshBegin, IndexOne, IndexDone, PublishUpsert,
                PublishDelete, Finish, Refused
  <2> QED
    BY <1>4, <2>1, OperationStep
<1>5. CASE Fail
  <2>1. pc # "down" /\ Residue
    BY <1>5 DEF Fail
  <2> QED
    BY <2>1, ResidueStep
<1>6. CASE Crash
  <2>1. pc # "down" /\ Residue
    BY <1>6 DEF Crash
  <2> QED
    BY <2>1, ResidueStep
<1>7. CASE OpenExisting \/ ApplyStart \/ DeleteStart \/ PollStart \/ ReadFails \/ PanicInRequest
           \/ PanicInPoll \/ UNCHANGED vars
  <2>1. UNCHANGED <<repo, disk>>
    BY <1>7 DEF OpenExisting, ApplyStart, DeleteStart, PollStart, ReadFails, PanicInRequest,
       PanicInPoll, vars
  <2>2. RepoStep
    BY <2>1, DiskStep DEF repo, disk, RepoOK, DiskOK
  <2> QED
    BY <2>1, <2>2 DEF repo, InProgress
<1> QED
  BY <1>1, <1>2, <1>3, <1>4, <1>5, <1>6, <1>7 DEF Next

LEMMA NoReqOK == NoReq \in Requests /\ [NoReq EXCEPT !.kind = "open"] \in Requests
                 /\ [NoReq EXCEPT !.kind = "poll"] \in Requests
BY PathsAssumption DEF NoReq, Requests, File

LEMMA EntriesOK ==
  ASSUME NEW c
  PROVE  Entries(c) \in IndexType /\ NoEntries \in IndexType
BY DEF Entries, NoEntries, IndexType

LEMMA InvMemory ==
  ASSUME Inv, [Next]_vars
  PROVE  MemoryOK'
<1>1. MemoryOK /\ Grown /\ head' \in DOMAIN commits' \cup {0} /\ head \in DOMAIN commits \cup {0}
  BY InvRepo DEF Inv, TypeOK, RepoOK, RepoStep
<1>2. servedSHA \in DOMAIN commits' \cup {0} /\ head \in DOMAIN commits' \cup {0}
  BY <1>1 DEF MemoryOK, Grown
<1>3. CASE UNCHANGED memory
  BY <1>1, <1>2, <1>3 DEF MemoryOK, memory
<1>4. CASE RefreshBegin \/ ReadFails
  BY <1>1, <1>2, <1>4, EntriesOK DEF MemoryOK, RefreshBegin, ReadFails, Listed
<1>5. CASE IndexOne
  <2>1. PICK p \in ToIndex : index' = [index EXCEPT ![p] = Entries(head)[p]]
    BY <1>5 DEF IndexOne
  <2>2. p \in DataPaths /\ Entries(head)[p] \in Env \cup {Absent}
    BY EntriesOK DEF ToIndex, Listed, IndexType
  <2> QED
    BY <1>1, <1>2, <1>5, <2>1, <2>2 DEF MemoryOK, IndexType, IndexOne
<1>6. CASE IndexDone
  BY <1>1, <1>2, <1>6 DEF MemoryOK, IndexDone
<1>7. CASE PublishUpsert \/ PublishDelete
  <2>1. PICK p \in DataPaths : Publish(p)
    BY <1>7 DEF PublishUpsert, PublishDelete, Upserts, Deletes, Listed
  <2> QED
    BY <1>1, <1>2, <2>1 DEF MemoryOK, Publish, IndexType
<1>8. CASE Finish
  BY <1>1, <1>2, <1>8, EntriesOK DEF MemoryOK, Finish
<1>9. CASE Crash \/ PanicInPoll
  BY <1>9, EntriesOK DEF MemoryOK, Crash, PanicInPoll, Died
<1>10. CASE PanicInRequest
  <2>1. PICK reached \in SUBSET DataPaths :
          /\ known' = [q \in DataPaths |-> IF q \in reached THEN index[q] ELSE known[q]]
          /\ unsaid' = (unsaid \cup Upserts \cup Deletes) \ reached
    BY <1>10 DEF PanicInRequest, Upserts, Deletes, Listed
  <2>2. known' \in IndexType /\ unsaid' \subseteq DataPaths
    BY <1>1, <2>1 DEF MemoryOK, IndexType, Upserts, Deletes, Listed
  <2>3. UNCHANGED <<index, servedSHA>> /\ old' = NoEntries
    BY <1>10 DEF PanicInRequest
  <2> QED
    BY <1>1, <1>2, <2>2, <2>3, EntriesOK DEF MemoryOK
<1>11. CASE [Next]_vars /\ ~(RefreshBegin \/ ReadFails \/ IndexOne \/ IndexDone \/ PublishUpsert
                            \/ PublishDelete \/ Finish \/ Crash \/ PanicInRequest \/ PanicInPoll)
  <2>1. Operation => UNCHANGED memory
    BY <1>11 DEF Operation, ApplyWrite, Add, Rm, Commit, CommitNothing, Push, Fetch,
           AlreadyUpToDate, FastForward, RefreshSkip, Refused, Goto, memory
  <2>2. OpenClone \/ OpenExisting \/ VolumeLost \/ ExternalPush \/ ApplyStart \/ DeleteStart
             \/ PollStart \/ Fail \/ UNCHANGED vars => UNCHANGED memory
    BY DEF OpenClone, OpenExisting, VolumeLost, ExternalPush, ApplyStart, DeleteStart,
           PollStart, Fail, vars, memory
  <2>3. UNCHANGED memory
    BY <1>11, <2>1, <2>2 DEF Next
  <2> QED
    BY <1>3, <2>3
<1> QED
  BY <1>4, <1>5, <1>6, <1>7, <1>8, <1>9, <1>10, <1>11

LEMMA InvOperation ==
  ASSUME Inv, [Next]_vars
  PROVE  OperationOK'
<1>1. /\ OperationOK /\ InProgress /\ Grown /\ RepoOK
      /\ pc # "down" => head \in DOMAIN commits /\ head \in Nat
      /\ work \in Tree
  <2>1. head \in DOMAIN commits \cup {0} /\ (pc # "down" => head # 0) /\ DOMAIN commits \subseteq Nat
    BY LenProperties DEF Inv, TypeOK, RepoOK, InProgress
  <2> QED
    BY <2>1, InvRepo DEF Inv, TypeOK, RepoStep, DiskOK
<1>2. \A a \in acked : a.at \in DOMAIN commits'
  BY <1>1 DEF OperationOK, Grown
<1>3. CASE /\ UNCHANGED acked
           /\ pc' \in {"down", "idle"} \cup Steps
           /\ req' \in {req, NoReq, [NoReq EXCEPT !.kind = "open"], [NoReq EXCEPT !.kind = "poll"]}
  BY <1>1, <1>2, <1>3, NoReqOK DEF OperationOK
<1>4. CASE ApplyStart
  <2>0. PICK p \in Paths, b \in Bodies, exp \in Expected : \E f \in Found(p) :
          /\ NextVersion(f) <= MaxVersion
          /\ req' = [kind |-> "apply", path |-> p, exp |-> exp, file |-> [ver |-> NextVersion(f), body |-> b]]
    BY <1>4 DEF ApplyStart
  <2>1. PICK f \in Found(p) :
          /\ NextVersion(f) <= MaxVersion
          /\ req' = [kind |-> "apply", path |-> p, exp |-> exp, file |-> [ver |-> NextVersion(f), body |-> b]]
    BY <2>0
  <2>2. NextVersion(f) \in 0..MaxVersion
    BY <2>1, BoundsAssumption DEF NextVersion, Env
  <2>3. req' \in Requests
    BY <2>1, <2>2, TreesAssumption DEF Requests, File, Env
  <2> QED
    BY <1>1, <1>2, <1>4, <2>3 DEF OperationOK, ApplyStart, Steps
<1>5. CASE DeleteStart
  <2>1. req' \in Requests
    BY <1>5, TreesAssumption DEF DeleteStart, Requests, File
  <2> QED
    BY <1>1, <1>2, <1>5, <2>1 DEF OperationOK, DeleteStart, Steps
<1>6. CASE pc # "down" /\ Ack /\ UNCHANGED <<head>>
  <2>1. head \in DOMAIN commits'
    BY <1>1, <1>6 DEF Grown
  <2>2. [path |-> req.path, file |-> req.file, at |-> head] \in Acks
    BY <1>1, <1>6 DEF OperationOK, Requests, Acks
  <2> QED
    BY <1>1, <1>2, <1>6, <2>1, <2>2, NoReqOK DEF OperationOK, Ack
<1>7. CASE RefreshSkip \/ Finish
  BY <1>6, <1>7 DEF RefreshSkip, Finish, repo
<1>8. CASE Operation /\ ~(RefreshSkip \/ Finish)
  BY <1>1, <1>3, <1>8 DEF Operation, ApplyWrite, Add, Rm, Commit, CommitNothing, Push, Fetch,
     AlreadyUpToDate, FastForward, RefreshBegin, IndexOne, IndexDone, PublishUpsert, PublishDelete,
     Publish, Refused, Return, Goto, Steps, OperationOK
<1>9. CASE OpenClone \/ OpenExisting \/ VolumeLost \/ ExternalPush \/ PollStart
           \/ ReadFails \/ PanicInRequest \/ PanicInPoll \/ Fail \/ Crash \/ UNCHANGED vars
  BY <1>1, <1>3, <1>9 DEF OpenClone, OpenExisting, Boot, VolumeLost, ExternalPush, PollStart, ReadFails,
     PanicInRequest, PanicInPoll, Fail, Crash, Died, Return, vars, Steps, OperationOK
<1> QED
  BY <1>4, <1>5, <1>7, <1>8, <1>9 DEF Next

(* Commits keep their content, and what origin descends from it goes on    *)
(* descending from.                                                        *)
LEMMA Preserved ==
  ASSUME Inv, [Next]_vars
  PROVE  /\ \A d \in DOMAIN commits : Anc(d)' = Anc(d) /\ commits'[d].tree = commits[d].tree
         /\ \A d \in Anc(origin) : d \in DOMAIN commits /\ d \in Anc(origin)'
<1>1. RepoOK /\ RepoStep
  BY InvRepo DEF Inv, TypeOK
<1>2. \A d \in DOMAIN commits : Anc(d)' = Anc(d) /\ commits'[d].tree = commits[d].tree
  BY <1>1 DEF RepoStep, Grown, Anc
<1>3. Anc(origin) \subseteq DOMAIN commits
  BY <1>1, LenProperties DEF RepoOK, HistoryOK
<1>4. origin \in commits'[origin'].anc /\ commits'[origin].anc = Anc(origin)
  BY <1>1, <1>2 DEF RepoStep, RepoOK, Anc
<1>5. commits'[origin].anc \subseteq commits'[origin'].anc
  BY <1>1, <1>4 DEF RepoStep, RepoOK, HistoryOK, Anc
<1> QED
  BY <1>2, <1>3, <1>4, <1>5 DEF Anc

(* An operation that is over has nothing left to show. *)
LEMMA OverOK ==
  ASSUME pc' \in {"idle", "down"}, pc' # "down" => head' # 0
  PROVE  InProgress'
BY DEF InProgress

LEMMA InvProgress ==
  ASSUME Inv, [Next]_vars
  PROVE  InProgress'
<1>1. /\ InProgress /\ RepoOK /\ DiskOK /\ OperationOK /\ RepoStep
      /\ pc # "down" => head # 0 /\ head' # 0
      /\ head # 0 => head \in DOMAIN commits
  BY InvRepo DEF Inv, TypeOK, InProgress, RepoOK
<1>2. head # 0 /\ head' = head => HeadTree' = HeadTree
  BY <1>1, Preserved DEF HeadTree
<1>3. head' = head /\ head \in Anc(origin) => head' \in Anc(origin)'
  BY Preserved DEF Anc
<1> USE DEF InProgress, Goto, Writing
<1>4. CASE OpenClone \/ OpenExisting
  <2>1. head' # 0
    BY <1>1, <1>4, LenProperties DEF OpenClone, OpenExisting, repo, RepoOK
  <2> QED
    BY <1>4, <2>1 DEF OpenClone, OpenExisting, Boot, NoReq
<1>5. CASE VolumeLost
  BY <1>5 DEF VolumeLost
<1>6. CASE ExternalPush
  BY <1>1, <1>2, <1>3, <1>6 DEF ExternalPush, disk
<1>7. CASE ApplyStart \/ DeleteStart \/ PollStart
  BY <1>1, <1>7 DEF ApplyStart, DeleteStart, PollStart, Idle, NoReq, repo
<1>8. CASE ApplyWrite
  BY <1>1, <1>8 DEF ApplyWrite, DoWrite, repo, DiskOK, OperationOK, Requests, Tree
<1>9. CASE Add
  BY <1>1, <1>9 DEF Add, DoAdd, repo, DiskOK, OperationOK, Requests, Tree
<1>10. CASE Rm
  BY <1>1, <1>10 DEF Rm, DoRm, repo, DiskOK, OperationOK, Requests, Tree
<1>11. CASE Commit
  <2>1. HeadTree' = stage
    BY <1>1, <1>11, CommitStep DEF Commit
  <2> QED
    BY <1>1, <1>11, <2>1 DEF Commit
<1>12. CASE CommitNothing
  BY <1>1, <1>2, <1>12 DEF CommitNothing, NothingToCommit, repo, disk
<1>13. CASE Push
  <2>1. origin' = head /\ head' = head /\ head \in Anc(head)'
    BY <1>1, <1>13 DEF Push, DoPush, RepoStep
  <2>2. head' \in Anc(origin)'
    BY <2>1 DEF Anc
  <2> QED
    BY <1>1, <1>2, <1>13, <2>1, <2>2 DEF Push, DoPush
<1>14. CASE Fetch
  <2>1. origin # 0
    BY <1>1, LenProperties DEF RepoOK
  <2> QED
    BY <1>1, <1>14, <2>1 DEF Fetch, DoFetch
<1>15. CASE AlreadyUpToDate \/ FastForward
  BY <1>1, <1>15 DEF AlreadyUpToDate, FastForward, DoMerge
<1>16. CASE RefreshBegin \/ IndexOne \/ IndexDone \/ PublishUpsert \/ PublishDelete
  BY <1>1, <1>2, <1>3, <1>16 DEF RefreshBegin, IndexOne, IndexDone, PublishUpsert, PublishDelete,
     Publish, repo, disk
<1>17. CASE RefreshSkip \/ Finish \/ Refused \/ ReadFails \/ PanicInRequest \/ PanicInPoll \/ Fail \/ Crash
  <2>1. pc # "down" /\ pc' \in {"idle", "down"}
    BY <1>17 DEF RefreshSkip, Finish, Refused, ReadFails, PanicInRequest, PanicInPoll, Fail, Crash,
       Died, Return, Ack
  <2> QED
    BY <1>1, <2>1, OverOK
<1>18. CASE UNCHANGED vars
  BY <1>1, <1>2, <1>3, <1>18 DEF vars, repo, disk
<1> QED
  BY <1>4, <1>5, <1>6, <1>7, <1>8, <1>9, <1>10, <1>11, <1>12, <1>13, <1>14, <1>15, <1>16, <1>17,
     <1>18 DEF Next, Operation

(* Only the last call of a write acknowledges it. *)
LEMMA AckSteps ==
  ASSUME [Next]_vars, acked' # acked
  PROVE  (RefreshSkip \/ Finish) /\ Writing
<1>1. Operation => acked' = acked \/ RefreshSkip \/ Finish
  BY DEF Operation, ApplyWrite, Add, Rm, Commit, CommitNothing, Push, Fetch, AlreadyUpToDate,
     FastForward, RefreshBegin, IndexOne, IndexDone, PublishUpsert, PublishDelete, Publish,
     Refused, Return, Goto
<1>2. OpenClone \/ OpenExisting \/ VolumeLost \/ ExternalPush \/ ApplyStart \/ DeleteStart
           \/ PollStart \/ ReadFails \/ PanicInRequest \/ PanicInPoll \/ Fail \/ Crash
           \/ UNCHANGED vars => acked' = acked
  BY DEF OpenClone, OpenExisting, VolumeLost, ExternalPush, ApplyStart, DeleteStart, PollStart,
     ReadFails, PanicInRequest, PanicInPoll, Fail, Crash, Died, Return, vars
<1> QED
  BY <1>1, <1>2 DEF Next, RefreshSkip, Finish, Ack, Writing

LEMMA InvAcked ==
  ASSUME Inv, [Next]_vars
  PROVE  AckedDurable'
<1>1. \A a \in acked : a.at \in Anc(origin)' /\ commits'[a.at].tree[a.path] = a.file
  BY Preserved DEF Inv, AckedDurable
<1>2. CASE acked' = acked
  BY <1>1, <1>2 DEF AckedDurable, Anc
<1>3. CASE RefreshSkip \/ Finish
  <2>1. Ack /\ UNCHANGED <<repo>> /\ pc \in {"refresh", "publish"}
    BY <1>3 DEF RefreshSkip, Finish
  <2>2. Writing => head \in Anc(origin) /\ HeadTree[req.path] = req.file
    BY <2>1 DEF Inv, InProgress
  <2>3. commits' = commits /\ origin' = origin /\ head' = head
    BY <2>1 DEF repo
  <2>4. \A a \in acked' \ acked : Writing /\ a = [path |-> req.path, file |-> req.file, at |-> head]
    BY <2>1 DEF Ack, Writing
  <2>5. \A a \in acked' \ acked : a.at \in Anc(origin)' /\ commits'[a.at].tree[a.path] = a.file
    BY <2>2, <2>3, <2>4 DEF HeadTree, Anc
  <2> QED
    BY <1>1, <2>5 DEF AckedDurable, Anc
<1> QED
  BY <1>2, <1>3, AckSteps

LEMMA InvNext == Inv /\ [Next]_vars => Inv'
<1> SUFFICES ASSUME Inv, [Next]_vars PROVE Inv'
  OBVIOUS
<1> QED
  BY InvRepo, InvMemory, InvOperation, InvProgress, InvAcked DEF Inv, TypeOK, RepoStep

THEOREM Invariance == Spec => []Inv
BY InvInit, InvNext, PTL DEF Spec

-----------------------------------------------------------------------------
(* Type correctness, and that the ancestors of commits form an order. *)
THEOREM TypeCorrect == Spec => []TypeOK
BY Invariance, PTL DEF Inv

(* The operation in progress has done what its next call relies on. *)
THEOREM ProgressCorrect == Spec => []InProgress
BY Invariance, PTL DEF Inv

(* No acknowledged write is ever lost from GitHub, whatever fails, crashes *)
(* or is lost: Apply and Delete answer only after the push.                *)
THEOREM Durability == Spec => []AckedDurable
BY Invariance, PTL DEF Inv

(* hubd never takes a commit of anybody off the branch on GitHub. *)
THEOREM BranchGrows == Spec => OriginGrows
<1>1. Inv /\ [Next]_vars => [(origin \in Anc(origin)')]_vars
  BY InvRepo DEF RepoStep
<1> QED
  BY <1>1, Invariance, PTL DEF Spec, OriginGrows

(* hubd never drops a commit from its own clone. *)
THEOREM CloneGrows == Spec => HeadGrows
<1>1. Inv /\ [Next]_vars => [head # 0 /\ head' # 0 => head \in Anc(head)']_vars
  BY InvRepo DEF RepoStep
<1> QED
  BY <1>1, Invariance, PTL DEF Spec, HeadGrows

-----------------------------------------------------------------------------
(* Divergence.  FETCH_HEAD is always behind the branch, so a clone that    *)
(* could fast-forward to it has not diverged.                              *)
Fetched == fetchHead # 0 => fetchHead \in Anc(origin)

LEMMA FetchedNext == Inv /\ Fetched /\ [Next]_vars => Fetched'
<1> SUFFICES ASSUME Inv, Fetched, [Next]_vars PROVE Fetched'
  OBVIOUS
<1>1. CASE fetchHead' = fetchHead
  BY <1>1, Preserved DEF Fetched
<1>2. CASE fetchHead' = 0
  BY <1>2 DEF Fetched
<1>3. CASE DoFetch
  BY <1>3, InvRepo DEF DoFetch, Fetched, RepoStep
<1>4. Residue => fetchHead' = fetchHead \/ DoFetch
  BY DEF Residue, Carried, CutShort, DoWrite, DoAdd, DoRm, DoCommit, DoPush, DoMerge, repo
<1>5. Operation => fetchHead' = fetchHead \/ DoFetch
  BY DEF Operation, ApplyWrite, Add, Rm, Commit, CommitNothing, Push, Fetch, AlreadyUpToDate,
     FastForward, RefreshSkip, RefreshBegin, IndexOne, IndexDone, PublishUpsert, PublishDelete,
     Publish, Finish, Refused, DoWrite, DoAdd, DoRm, DoCommit, DoPush, DoMerge, repo
<1>6. OpenClone \/ OpenExisting \/ ExternalPush \/ ApplyStart \/ DeleteStart \/ PollStart \/ ReadFails
        \/ PanicInRequest \/ PanicInPoll \/ UNCHANGED vars => fetchHead' = fetchHead
  BY DEF OpenClone, OpenExisting, ExternalPush, ApplyStart, DeleteStart, PollStart, ReadFails,
     PanicInRequest, PanicInPoll, vars, repo
<1> QED
  BY <1>1, <1>2, <1>3, <1>4, <1>5, <1>6 DEF Next, VolumeLost, Fail, Crash

THEOREM FetchedCorrect == Spec => []Fetched
<1>1. Init => Fetched
  BY DEF Init, Fetched
<1> QED
  BY <1>1, FetchedNext, Invariance, PTL DEF Spec

(* Which steps touch the history or the clone's HEAD, and how. *)
LEMMA RepoMoves ==
  ASSUME Inv, [Next]_vars
  PROVE  \/ UNCHANGED <<commits, origin, head>>
         \/ pc = "commit" /\ DoCommit
         \/ pc # "down" /\ CanPush /\ DoPush
         \/ pc = "merge" /\ CanMerge /\ DoMerge
         \/ ExternalPush
         \/ pc = "down" /\ (head = 0 \/ head' = 0) /\ UNCHANGED commits
<1>1. CASE pc \in {"commit", "push", "merge", "write", "add", "rm", "fetch"} /\ Carried
  BY <1>1 DEF Carried, DoWrite, DoAdd, DoRm, DoFetch, repo
<1>2. Residue => Carried \/ UNCHANGED <<commits, origin, head>>
  BY DEF Residue, CutShort, DoWrite, repo
<1>3. Carried => pc \in {"commit", "push", "merge", "write", "add", "rm", "fetch"}
  BY DEF Carried
<1>4. ApplyWrite \/ Add \/ Rm \/ Commit \/ Push \/ Fetch \/ FastForward => Carried
  BY DEF Carried, ApplyWrite, Add, Rm, Commit, Push, Fetch, FastForward
<1>5. CommitNothing \/ AlreadyUpToDate \/ RefreshSkip \/ RefreshBegin \/ IndexOne \/ IndexDone
        \/ PublishUpsert \/ PublishDelete \/ Finish \/ Refused \/ OpenExisting \/ ApplyStart
        \/ DeleteStart \/ PollStart \/ ReadFails \/ PanicInRequest \/ PanicInPoll \/ UNCHANGED vars
        => UNCHANGED <<commits, origin, head>>
  BY DEF CommitNothing, AlreadyUpToDate, RefreshSkip, RefreshBegin, IndexOne, IndexDone,
     PublishUpsert, PublishDelete, Publish, Finish, Refused, OpenExisting, ApplyStart, DeleteStart,
     PollStart, ReadFails, PanicInRequest, PanicInPoll, vars, repo
<1>6. OpenClone \/ VolumeLost => pc = "down" /\ (head = 0 \/ head' = 0) /\ UNCHANGED commits
  BY DEF OpenClone, VolumeLost
<1> QED
  BY <1>1, <1>2, <1>3, <1>4, <1>5, <1>6 DEF Next, Operation, Fail, Crash

LEMMA DivergedNext ==
  ASSUME Inv, Fetched, [Next]_vars, Diverged
  PROVE  acked' = acked /\ (head' = 0 \/ Diverged')
<1>1. acked' = acked
  BY AckSteps DEF Inv, InProgress, RefreshSkip, Finish, Diverged
<1> SUFFICES head' = 0 \/ Diverged'
  BY <1>1
<1>2. head \in DOMAIN commits /\ origin \in DOMAIN commits /\ head # 0
  BY DEF Diverged, Inv, TypeOK, RepoOK
<1>3. /\ DOMAIN commits = 1..Len(commits) /\ Len(commits) \in Nat
      /\ Anc(head) \subseteq DOMAIN commits /\ Anc(origin) \subseteq DOMAIN commits
  BY <1>2, LenProperties DEF Inv, TypeOK, RepoOK, HistoryOK
<1>4. CASE UNCHANGED <<commits, origin, head>>
  BY <1>4 DEF Diverged, Anc
<1>5. CASE DoCommit
  <2>1. HeadTree' = stage /\ Anc(head)' = Anc(head) \cup {head'}
    BY <1>2, <1>5, CommitStep DEF Inv, TypeOK
  <2>2. head' = Len(commits) + 1 /\ origin' = origin /\ Anc(origin)' = Anc(origin)
    BY <1>2, <1>5, Preserved DEF DoCommit, Anc
  <2> QED
    BY <1>2, <1>3, <2>1, <2>2 DEF Diverged
<1>6. CASE CanPush /\ DoPush
  BY <1>6 DEF Diverged, CanPush
<1>7. CASE pc = "merge" /\ CanMerge /\ DoMerge
  <2>1. fetchHead \in Anc(origin) /\ head \in Anc(fetchHead)
    BY <1>7 DEF Inv, InProgress, Fetched, CanMerge
  <2> QED
    BY <1>2, <2>1 DEF Diverged, Inv, TypeOK, RepoOK, HistoryOK
<1>8. CASE ExternalPush
  <2>1. PICK p \in Paths, f \in ExternalFiles :
          commits' = Append(commits, Child(origin, [commits[origin].tree EXCEPT ![p] = f], "external"))
    BY <1>8 DEF ExternalPush
  <2>2. [commits[origin].tree EXCEPT ![p] = f] \in Tree
    BY <1>2, TreeOfCommit, TreesAssumption DEF Tree, Inv, TypeOK
  <2>3. origin' = Len(commits) + 1 /\ head' = head
    BY <1>8 DEF ExternalPush
  <2>4. commits'[origin'].anc = Anc(origin) \cup {origin'}
    BY <1>2, <2>1, <2>2, <2>3, ChildExtends DEF Inv, TypeOK
  <2>5. Anc(head)' = Anc(head)
    BY <1>2, <2>3, Preserved DEF Anc
  <2> QED
    BY <1>2, <1>3, <2>3, <2>4, <2>5 DEF Diverged, Anc
<1>9. CASE pc = "down" /\ (head = 0 \/ head' = 0)
  BY <1>2, <1>9
<1> QED
  BY <1>1, <1>4, <1>5, <1>6, <1>7, <1>8, <1>9, RepoMoves

(* Once HEAD and origin have diverged, no operation, failure or restart    *)
(* ends it, and no write is acknowledged any more.                         *)
THEOREM DivergenceFinal == Spec => DivergedIsFinal
<1>1. Inv /\ Fetched /\ [Next]_vars => [Diverged => acked' = acked /\ (head' = 0 \/ Diverged')]_vars
  BY DivergedNext
<1> QED
  BY <1>1, Invariance, FetchedCorrect, PTL DEF Spec, DivergedIsFinal

(* As long as nobody else pushes, HEAD is never behind the branch, so that *)
(* every push is a fast-forward and every poll finds nothing to merge.     *)
Ahead == head # 0 => origin \in Anc(head) /\ (fetchHead # 0 => UpToDate)

LEMMA AheadNext ==
  ASSUME "external" \notin Writers, Inv, Fetched, head # 0 => origin \in Anc(head), [Next]_vars, head' # 0
  PROVE  (origin \in Anc(head))'
<1>1. /\ RepoOK /\ RepoStep /\ origin \in DOMAIN commits
      /\ head # 0 => head \in DOMAIN commits
  BY InvRepo DEF Inv, TypeOK, RepoOK
<1>2. CASE UNCHANGED <<commits, origin, head>>
  BY <1>2 DEF Anc
<1>3. CASE pc = "commit" /\ DoCommit
  <2>1. head # 0
    BY <1>3 DEF Inv, InProgress
  <2>2. Anc(head)' = Anc(head) \cup {head'} /\ origin' = origin
    BY <1>3, <2>1, CommitStep DEF Inv, TypeOK, DoCommit
  <2> QED
    BY <2>1, <2>2
<1>4. CASE pc # "down" /\ DoPush
  BY <1>1, <1>4 DEF DoPush, Inv, InProgress, RepoOK, HistoryOK, Anc
<1>5. CASE pc = "merge" /\ CanMerge /\ DoMerge
  <2>1. /\ head # 0 /\ fetchHead # 0 /\ head \in Anc(fetchHead) /\ fetchHead \in Anc(origin)
        /\ fetchHead \in DOMAIN commits /\ head' = fetchHead /\ UNCHANGED <<commits, origin>>
    BY <1>1, <1>5 DEF Inv, InProgress, Fetched, CanMerge, DoMerge, RepoOK
  <2>2. origin \in Anc(fetchHead)
    BY <1>1, <2>1 DEF RepoOK, HistoryOK
  <2> QED
    BY <2>1, <2>2 DEF Anc
<1>6. CASE pc = "down" /\ (head = 0 \/ head' = 0) /\ UNCHANGED commits
  <2>1. OpenClone \/ UNCHANGED <<commits, origin, head>>
    <3>1. head = 0 /\ pc = "down"
      BY <1>6
    <3>2. OpenExisting \/ VolumeLost \/ ApplyStart \/ DeleteStart \/ PollStart \/ ReadFails
            \/ PanicInRequest \/ PanicInPoll \/ Fail \/ Crash => FALSE
      BY <3>1 DEF OpenExisting, VolumeLost, ApplyStart, DeleteStart, PollStart, Idle, ReadFails,
         PanicInRequest, PanicInPoll, Fail, Crash
    <3>3. Operation => FALSE
      BY <3>1 DEF Operation, ApplyWrite, Add, Rm, Commit, CommitNothing, Push, Fetch, AlreadyUpToDate,
         FastForward, RefreshSkip, RefreshBegin, IndexOne, IndexDone, PublishUpsert, PublishDelete,
         Finish, Refused
    <3> QED
      BY <3>2, <3>3 DEF Next, ExternalPush, vars, repo
  <2> QED
    BY <1>1, <1>2, <2>1 DEF OpenClone, RepoOK, HistoryOK, Anc
<1> QED
  BY <1>2, <1>3, <1>4, <1>5, <1>6, RepoMoves DEF ExternalPush

(* Without another writer the clone never diverges from GitHub, whatever   *)
(* fails, crashes or is lost: it is only for others that Poll has to merge *)
(* (push in Apply and Delete, merge --ff-only in Poll).                    *)
THEOREM AloneAhead ==
  ASSUME "external" \notin Writers
  PROVE  Spec => []Ahead
<1> DEFINE Leads == head # 0 => origin \in Anc(head)
<1>1. Init => Leads
  BY DEF Init
<1>2. Inv /\ Fetched /\ Leads /\ [Next]_vars => Leads'
  BY AheadNext
<1>3. Inv /\ Fetched /\ Leads => Ahead
  BY DEF Inv, TypeOK, RepoOK, HistoryOK, Fetched, Ahead, UpToDate
<1> QED
  BY <1>1, <1>2, <1>3, Invariance, FetchedCorrect, PTL DEF Spec

-----------------------------------------------------------------------------
(* GitStore implements DocumentLog.                                        *)

LEMMA LogInit == Init => Log!Init
<1> SUFFICES ASSUME Init PROVE Log!Init
  OBVIOUS
<1>1. PICK t \in InitTrees : commits = <<[anc |-> {1}, tree |-> t, by |-> "init"]>>
  BY DEF Init
<1>2. Anc(origin) = {1} /\ commits[1].tree = t
  BY <1>1 DEF Init, Anc
<1>3. Branch = [c \in {1} |-> t]
  BY <1>2 DEF Branch
<1> QED
  BY <1>3 DEF Init, Log!Init

(* The branch is only ever extended.                                       *)
LEMMA BranchExtends ==
  ASSUME Inv, [Next]_vars
  PROVE  Log!Extends(Branch')
<1>1. \A c \in Anc(origin) : c \in DOMAIN commits /\ c \in Anc(origin)'
  BY Preserved
<1>2. \A c \in Anc(origin) : commits'[c].tree = commits[c].tree
  BY <1>1, Preserved
<1> QED
  BY <1>1, <1>2 DEF Branch, Log!Extends

(* A step that acknowledges a write leaves the branch, which has the file. *)
LEMMA AckPromises ==
  ASSUME Inv, RefreshSkip \/ Finish, Writing
  PROVE  Log!Promise
<1>1. Ack /\ UNCHANGED repo /\ pc \in {"refresh", "publish"}
  BY DEF RefreshSkip, Finish
<1>2. head \in Anc(origin) /\ HeadTree[req.path] = req.file
  BY <1>1 DEF Inv, InProgress
<1>3. Branch' = Branch
  BY <1>1 DEF Branch, Anc, repo
<1> DEFINE w == [path |-> req.path, file |-> req.file, at |-> head]
<1>4. acked' = acked \cup {w}
  BY <1>1 DEF Ack, Writing
<1>5. Log!Kept(w)
  BY <1>2 DEF Log!Kept, Branch, HeadTree
<1> QED
  BY <1>3, <1>4, <1>5 DEF Log!Promise

LEMMA LogNext ==
  ASSUME Inv, [Next]_vars
  PROVE  [Log!Next]_<<Branch, acked>>
<1>1. CASE acked' = acked
  BY <1>1, BranchExtends DEF Log!Next, Log!Grow
<1>2. CASE acked' # acked
  BY <1>2, AckSteps, AckPromises DEF Log!Next
<1> QED
  BY <1>1, <1>2

(* The store is the log it promises: the branch that only grows, and in it *)
(* every write that was acknowledged (Apply, Delete, Poll and all that may *)
(* happen to them).                                                        *)
THEOREM StoreImplementsLog == Spec => ImplementsLog
BY LogInit, LogNext, Invariance, PTL DEF Spec, ImplementsLog, Log!Spec

(* What the log promises is kept: follows from its specification alone.    *)
LEMMA LogKeeps == Log!Spec => []Log!PromisesKept
<1>1. Log!Init => Log!PromisesKept
  BY DEF Log!Init, Log!PromisesKept
<1>2. Log!PromisesKept /\ [Log!Next]_<<Branch, acked>> => Log!PromisesKept'
  BY DEF Log!PromisesKept, Log!Next, Log!Grow, Log!Promise, Log!Extends, Log!Kept
<1> QED
  BY <1>1, <1>2, PTL DEF Log!Spec

-----------------------------------------------------------------------------
(* A killed WriteFile leaves an empty file in the working tree, where the  *)
(* next process finds it.                                                  *)

(* The file of a write has a version from 1 on; that of a delete is none.  *)
WholeFile(f) == f = Absent \/ (f \in Env /\ f.ver >= 1)
FileOK == Writing => WholeFile(req.file)

LEMMA ReqSteps ==
  ASSUME [Next]_vars
  PROVE  req' = req \/ req'.kind \in {"poll", "open"} \/ ApplyStart \/ DeleteStart
<1>1. Operation => req' = req \/ req'.kind \in {"poll", "open"}
  BY DEF Operation, ApplyWrite, Add, Rm, Commit, CommitNothing, Push, Fetch, AlreadyUpToDate,
     FastForward, RefreshSkip, RefreshBegin, IndexOne, IndexDone, PublishUpsert, PublishDelete,
     Publish, Finish, Refused, Return, Ack, Goto, NoReq
<1>2. OpenClone \/ OpenExisting \/ VolumeLost \/ ExternalPush \/ PollStart \/ ReadFails \/ PanicInRequest
        \/ PanicInPoll \/ Fail \/ Crash \/ UNCHANGED vars => req' = req \/ req'.kind \in {"poll", "open"}
  BY DEF OpenClone, OpenExisting, Boot, VolumeLost, ExternalPush, PollStart, ReadFails, PanicInRequest,
     PanicInPoll, Fail, Crash, Died, Return, NoReq, vars
<1> QED
  BY <1>1, <1>2 DEF Next

LEMMA FileNext == Inv /\ FileOK /\ [Next]_vars => FileOK'
<1> SUFFICES ASSUME Inv, FileOK, [Next]_vars PROVE FileOK'
  OBVIOUS
<1>1. CASE req' = req \/ req'.kind \in {"poll", "open"}
  BY <1>1 DEF FileOK, Writing, WholeFile
<1>2. CASE ApplyStart
  <2>0. PICK p \in Paths, b \in Bodies, e \in Expected : \E f \in Found(p) :
          /\ NextVersion(f) <= MaxVersion
          /\ req' = [kind |-> "apply", path |-> p, exp |-> e,
                     file |-> [ver |-> NextVersion(f), body |-> b]]
    BY <1>2 DEF ApplyStart
  <2>1. PICK f \in Found(p) :
          /\ NextVersion(f) <= MaxVersion
          /\ req' = [kind |-> "apply", path |-> p, exp |-> e,
                     file |-> [ver |-> NextVersion(f), body |-> b]]
    BY <2>0
  <2>2. NextVersion(f) \in Nat /\ NextVersion(f) >= 1
    BY BoundsAssumption DEF NextVersion, Env
  <2>3. [ver |-> NextVersion(f), body |-> b] \in Env
    BY <2>1, <2>2, BoundsAssumption DEF Env
  <2>4. req'.file = [ver |-> NextVersion(f), body |-> b]
    BY <2>1
  <2>5. req'.file \in Env /\ req'.file.ver >= 1
    BY <2>2, <2>3, <2>4
  <2> QED
    BY <2>5 DEF FileOK, WholeFile
<1>3. CASE DeleteStart
  BY <1>3 DEF DeleteStart, FileOK, WholeFile
<1> QED
  BY <1>1, <1>2, <1>3, ReqSteps

LEMMA FileCorrect == Spec => []FileOK
<1>1. Init => FileOK
  BY DEF Init, NoReq, FileOK, Writing
<1> QED
  BY <1>1, FileNext, Invariance, PTL DEF Spec

LEMMA WholeIsNotTorn == \A f : WholeFile(f) => f # Truncated
<1>1. Truncated \in Env /\ Truncated.ver = 0
  BY BoundsAssumption DEF Truncated, Env
<1> QED
  BY <1>1, FilesAssumption DEF WholeFile

(* The steps that change the git index. *)
LEMMA StageSteps ==
  ASSUME [Next]_vars
  PROVE  \/ stage' = stage
         \/ pc = "add" /\ DoAdd
         \/ pc = "rm" /\ DoRm
         \/ pc = "merge" /\ DoMerge
         \/ OpenClone \/ VolumeLost
<1> DEFINE Staged == \/ stage' = stage
                     \/ pc = "add" /\ DoAdd
                     \/ pc = "rm" /\ DoRm
                     \/ pc = "merge" /\ DoMerge
<1>1. Residue => Staged
  BY DEF Residue, Carried, CutShort, DoWrite, DoCommit, DoPush, DoFetch, disk
<1>2. Operation => Staged
  BY DEF Operation, ApplyWrite, Add, Rm, Commit, CommitNothing, Push, Fetch, AlreadyUpToDate,
     FastForward, RefreshSkip, RefreshBegin, IndexOne, IndexDone, PublishUpsert, PublishDelete,
     Publish, Finish, Refused, DoWrite, DoCommit, DoPush, DoFetch, disk
<1>3. OpenExisting \/ ExternalPush \/ ApplyStart \/ DeleteStart \/ PollStart \/ ReadFails \/ PanicInRequest
        \/ PanicInPoll \/ UNCHANGED vars => stage' = stage
  BY DEF OpenExisting, ExternalPush, ApplyStart, DeleteStart, PollStart, ReadFails, PanicInRequest,
     PanicInPoll, vars, disk
<1> QED
  BY <1>1, <1>2, <1>3 DEF Next, Fail, Crash

Untorn ==
  /\ \A c \in DOMAIN commits, p \in Paths : commits[c].tree[p] # Truncated
  /\ \A p \in Paths : stage[p] # Truncated

LEMMA UntornNext ==
  ASSUME Truncated \notin ExternalFiles, Inv, FileOK, Untorn, [Next]_vars
  PROVE  Untorn'
<1>1. /\ RepoOK /\ DiskOK /\ OperationOK /\ InProgress /\ head \in DOMAIN commits \cup {0}
      /\ pc # "down" => head # 0
  BY DEF Inv, TypeOK, RepoOK, InProgress
<1>2. Absent # Truncated
  BY TruncatedIsFile, BoundsAssumption, FilesAssumption DEF Truncated, Env
<1>3. \A p \in Paths : stage'[p] # Truncated
  <2> SUFFICES ASSUME NEW p \in Paths PROVE stage'[p] # Truncated
    OBVIOUS
  <2>1. CASE stage' = stage
    BY <2>1 DEF Untorn
  <2>2. CASE pc = "add" /\ DoAdd
    <3>1. work[req.path] = req.file /\ req.file # Truncated
      BY <1>1, <2>2, WholeIsNotTorn DEF InProgress, FileOK, Writing
    <3> QED
      BY <1>1, <2>2, <3>1 DEF DoAdd, DiskOK, Tree, Untorn
  <2>3. CASE pc = "rm" /\ DoRm
    BY <1>1, <1>2, <2>3 DEF DoRm, DiskOK, Tree, Untorn
  <2>4. CASE pc = "merge" /\ DoMerge
    <3>1. fetchHead \in DOMAIN commits
      BY <1>1, <2>4 DEF InProgress, RepoOK
    <3>2. stage'[p] \in {commits[fetchHead].tree[p], stage[p]}
      BY <2>4 DEF DoMerge, Merged
    <3> QED
      BY <3>1, <3>2 DEF Untorn
  <2>5. CASE OpenClone
    BY <1>1, <2>5 DEF OpenClone, Untorn, RepoOK
  <2>6. CASE VolumeLost
    BY <1>2, <2>6 DEF VolumeLost
  <2> QED
    BY <2>1, <2>2, <2>3, <2>4, <2>5, <2>6, StageSteps
<1>4. \A c \in DOMAIN commits', p \in Paths : commits'[c].tree[p] # Truncated
  <2>1. CASE commits' = commits
    BY <2>1 DEF Untorn
  <2>2. ASSUME NEW b \in DOMAIN commits, NEW t \in Tree, NEW w \in {"hubd", "external"},
               commits' = Append(commits, Child(b, t, w)), \A p \in Paths : t[p] # Truncated
        PROVE  \A c \in DOMAIN commits', p \in Paths : commits'[c].tree[p] # Truncated
    <3>1. /\ commits' \in Seq(Commits) /\ Grown
          /\ commits'[Len(commits) + 1].tree = t
      BY <1>1, <2>2, ChildExtends
    <3>2. DOMAIN commits = 1..Len(commits) /\ Len(commits) \in Nat /\ DOMAIN commits' = 1..(Len(commits) + 1)
      <4>1. Child(b, t, w) \in Commits
        <5>1. Anc(b) \subseteq Nat /\ Len(commits) + 1 \in Nat
          BY <1>1, LenProperties DEF RepoOK, HistoryOK
        <5> QED
          BY <5>1 DEF Child, Commits
      <4> QED
        BY <1>1, <2>2, <4>1, AppendCommit DEF RepoOK
    <3>3. ASSUME NEW c \in DOMAIN commits', NEW p \in Paths PROVE commits'[c].tree[p] # Truncated
      <4>1. CASE c = Len(commits) + 1
        BY <2>2, <3>1, <4>1
      <4>2. CASE c \in DOMAIN commits
        BY <3>1, <4>2 DEF Grown, Untorn
      <4> QED
        BY <3>2, <4>1, <4>2
    <3> QED
      BY <3>3
  <2>3. CASE pc = "commit" /\ DoCommit
    BY <1>1, <2>2, <2>3 DEF DoCommit, Untorn, DiskOK
  <2>4. CASE ExternalPush
    <3>1. PICK p \in Paths, f \in ExternalFiles :
            commits' = Append(commits, Child(origin, [commits[origin].tree EXCEPT ![p] = f], "external"))
      BY <2>4 DEF ExternalPush
    <3>2. origin \in DOMAIN commits /\ commits[origin].tree \in Tree
      BY <1>1, TreeOfCommit DEF RepoOK
    <3>3. PICK t \in Tree : t = [commits[origin].tree EXCEPT ![p] = f]
      BY <3>2, TreesAssumption DEF Tree
    <3>4. \A q \in Paths : t[q] # Truncated
      BY <3>2, <3>3 DEF Untorn, Tree
    <3> QED
      BY <2>2, <3>1, <3>2, <3>3, <3>4
  <2> QED
    BY <2>1, <2>3, <2>4, RepoMoves DEF DoPush, DoMerge
<1> QED
  BY <1>3, <1>4 DEF Untorn

(* What a write that was cut short has left is never staged and never in   *)
(* any commit, whatever operations follow it: a write writes the file anew *)
(* before it adds it, and git rm refuses the file (os.WriteFile and git    *)
(* add in Apply, git rm in Delete).                                        *)
THEOREM NothingTorn ==
  ASSUME Truncated \notin ExternalFiles, \A t \in InitTrees : \A p \in Paths : t[p] # Truncated
  PROVE  Spec => []Untorn
<1>1. Init => Untorn
  <2> SUFFICES ASSUME Init PROVE Untorn
    OBVIOUS
  <2>1. PICK t \in InitTrees : commits = <<[anc |-> {1}, tree |-> t, by |-> "init"]>>
    BY DEF Init
  <2>2. DOMAIN commits = {1} /\ commits[1].tree = t
    BY <2>1
  <2>3. Absent # Truncated
    BY BoundsAssumption, FilesAssumption DEF Truncated, Env
  <2> QED
    BY <2>2, <2>3 DEF Init, Untorn
<1>2. Inv /\ FileOK /\ Untorn /\ [Next]_vars => Untorn'
  BY UntornNext
<1> QED
  BY <1>1, <1>2, FileCorrect, Invariance, PTL DEF Spec
=============================================================================
