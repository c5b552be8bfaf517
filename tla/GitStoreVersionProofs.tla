----------------------- MODULE GitStoreVersionProofs -----------------------
(***************************************************************************)
(* Proofs about the versions of documents and the optimistic lock of       *)
(* GitStore, when only the network and reads of the clone fail.            *)
(***************************************************************************)
EXTENDS GitStoreProofs

(* Failures that come from the network, from reading HEAD, or from a panic *)
(* of Publish only: no access to the working tree fails, no git command    *)
(* that changes the clone, and the process is not killed.                  *)
NetworkOnly == Faults \cap {"lookup", "write", "add", "rm", "commit", "merge", "crash"} = {}

(* The request fits what HEAD holds at its path: the version it names is   *)
(* there, and the file it brings has the next one.                         *)
Fits(f) ==
  /\ req.kind = "apply" =>
       /\ f # Garbage
       /\ req.file \in Env /\ req.file.ver = IF f \in Env THEN f.ver + 1 ELSE 1
  /\ req.kind = "delete" => f \in Env /\ req.file = Absent
  /\ req.exp > 0 =>
       \/ f \in Env /\ f.ver = req.exp
       \/ f = Absent /\ req.exp = 1 /\ req.kind = "apply"

(* HEAD's tree with the file of the request.                               *)
Wanted == [HeadTree EXCEPT ![req.path] = req.file]

Local ==
  /\ ~gitLock
  /\ head # 0 =>
       /\ pc \notin {"add", "commit"} => stage = HeadTree /\ work = HeadTree
       /\ pc = "add" => stage = HeadTree /\ work = Wanted
       /\ pc = "commit" => stage = Wanted /\ work = Wanted
  /\ pc \in {"write", "add", "rm", "commit"} => Fits(HeadTree[req.path])

(* Between commit c and its descendant d, document p was deleted or others *)
(* committed.                                                              *)
Superseded(c, d, p) ==
  \E e \in Anc(d) \ Anc(c) : commits[e].by = "external" \/ commits[e].tree[p] = Absent

Ascends(c, d, p) ==
  LET f == commits[c].tree[p]
      g == commits[d].tree[p]
  IN f \in Env /\ g \in Env => f.ver < g.ver \/ f = g \/ Superseded(c, d, p)

VersionsAscend == \A d \in DOMAIN commits : \A c \in Anc(d), p \in Paths : Ascends(c, d, p)
-----------------------------------------------------------------------------
(* The working tree                                                        *)

LEMMA HeadIs ==
  ASSUME Inv, head # 0
  PROVE  head \in DOMAIN commits /\ HeadTree \in Tree
BY TreeOfCommit DEF Inv, TypeOK, RepoOK, HeadTree

(* HEAD and its tree are the same after a step that does not move HEAD.    *)
LEMMA HeadStays ==
  ASSUME Inv, [Next]_vars, head' = head, head # 0
  PROVE  HeadTree' = HeadTree
BY HeadIs, Preserved DEF HeadTree

(* What a failing call leaves when only the network fails.                 *)
LEMMA NetworkFailure ==
  ASSUME NetworkOnly, Inv, Fail
  PROVE  /\ pc \in {"push", "fetch"} /\ pc' \in {"idle", "down"}
         /\ UNCHANGED <<commits, head, stage, work, gitLock>>
<1>1. pc \in {"push", "fetch"}
  BY DEF Fail, NetworkOnly
<1>2. Residue => UNCHANGED <<commits, head, stage, work, gitLock>>
  BY <1>1 DEF Residue, Carried, CutShort, DoPush, DoFetch, repo, disk
<1> QED
  BY <1>1, <1>2 DEF Fail, Return

(* A request begins with files that are HEAD's.                            *)
LEMMA StartFits ==
  ASSUME NetworkOnly, Inv, Local, ApplyStart \/ DeleteStart
  PROVE  Fits(HeadTree[req.path])' /\ UNCHANGED <<repo, disk>>
<1>1. head # 0 /\ pc = "idle" /\ UNCHANGED <<repo, disk>>
  BY DEF ApplyStart, DeleteStart, Idle, Inv, InProgress
<1>2. work = HeadTree /\ HeadTree \in Tree /\ HeadTree' = HeadTree
  BY <1>1, HeadIs DEF Local, HeadTree, repo
<1>3. CASE ApplyStart
  <2>1. PICK p \in Paths, b \in Bodies, exp \in Expected :
          /\ ApplyAllowed(work[p], exp)
          /\ NextVersion(work[p]) <= MaxVersion
          /\ req' = [kind |-> "apply", path |-> p, exp |-> exp,
                     file |-> [ver |-> NextVersion(work[p]), body |-> b]]
    BY <1>3 DEF ApplyStart, Found, NetworkOnly
  <2>2. work[p] \in Env => work[p].ver \in 0..MaxVersion
    BY DEF Env
  <2>3. NextVersion(work[p]) \in 0..MaxVersion /\ exp \in Nat
    BY <2>1, <2>2, BoundsAssumption, TreesAssumption DEF NextVersion
  <2>4. req'.file \in Env /\ req'.file.ver = NextVersion(work[p])
    BY <2>1, <2>3 DEF Env
  <2>5. work[p] \in Env \/ work[p] = Absent
    BY <1>2, <2>1 DEF ApplyAllowed, Tree, File
  <2>6. exp > 0 => \/ work[p] \in Env /\ work[p].ver = exp
                   \/ work[p] = Absent /\ exp = 1
    BY <2>1, <2>3, <2>5 DEF ApplyAllowed
  <2>7. HeadTree[req.path]' = work[p] /\ req'.kind = "apply" /\ req'.exp = exp
    BY <1>2, <2>1
  <2>8. req'.file.ver = IF work[p] \in Env THEN work[p].ver + 1 ELSE 1
    BY <2>4 DEF NextVersion
  <2> QED
    BY <1>1, <2>4, <2>5, <2>6, <2>7, <2>8, FilesAssumption DEF Fits
<1>4. CASE DeleteStart
  BY <1>2, <1>4 DEF DeleteStart, DeleteAllowed, Fits
<1> QED
  BY <1>1, <1>3, <1>4

(* A request whose files are those of HEAD with its own file commits, or   *)
(* there is nothing to commit.                                             *)
LEMMA LocalNext ==
  ASSUME NetworkOnly, Inv, Local, [Next]_vars
  PROVE  Local'
<1>1. /\ RepoOK /\ DiskOK /\ OperationOK /\ InProgress
      /\ pc # "down" => head # 0
      /\ head # 0 => HeadTree \in Tree
  BY HeadIs DEF Inv, TypeOK, InProgress
<1>2. head' = head /\ head # 0 => HeadTree' = HeadTree
  BY HeadStays
<1> USE DEF Local
<1>3. CASE OpenClone
  <2>1. stage' = HeadTree' /\ work' = HeadTree' /\ gitLock' = gitLock /\ pc' = "refresh"
    BY <1>3 DEF OpenClone, Boot, HeadTree
  <2> QED
    BY <2>1
<1>4. CASE VolumeLost
  BY <1>4 DEF VolumeLost
<1>5. CASE ExternalPush
  <2>1. UNCHANGED <<head, stage, work, gitLock, pc, req>>
    BY <1>5 DEF ExternalPush, disk
  <2>2. CASE head = 0
    BY <1>1, <2>1, <2>2
  <2>3. CASE head # 0
    BY <1>2, <2>1, <2>3 DEF Wanted, Fits
  <2> QED
    BY <2>2, <2>3
<1>6. CASE ApplyStart \/ DeleteStart
  <2>1. Fits(HeadTree[req.path])' /\ UNCHANGED <<repo, disk>>
    BY <1>6, StartFits
  <2>2. pc = "idle" /\ pc' \in {"write", "rm"}
    BY <1>6 DEF ApplyStart, DeleteStart, Idle
  <2> QED
    BY <1>1, <1>2, <2>1, <2>2 DEF repo, disk
<1>7. CASE ApplyWrite
  <2>1. pc = "write" /\ pc' = "add" /\ req' = req /\ UNCHANGED <<repo, stage, gitLock>>
        /\ work' = [work EXCEPT ![req.path] = req.file]
    BY <1>7 DEF ApplyWrite, DoWrite, Goto
  <2>2. HeadTree' = HeadTree /\ head # 0 /\ head' = head
    BY <1>1, <1>2, <2>1 DEF repo
  <2> QED
    BY <2>1, <2>2 DEF Wanted, Fits
<1>8. CASE Add
  <2>1. pc = "add" /\ pc' = "commit" /\ req' = req /\ UNCHANGED <<repo, work, gitLock>>
        /\ stage' = [stage EXCEPT ![req.path] = work[req.path]]
    BY <1>8 DEF Add, DoAdd, Goto
  <2>2. HeadTree' = HeadTree /\ head # 0 /\ head' = head
    BY <1>1, <1>2, <2>1 DEF repo
  <2>3. work[req.path] = req.file
    BY <1>1, <2>1 DEF InProgress
  <2> QED
    BY <2>1, <2>2, <2>3 DEF Wanted, Fits
<1>9. CASE Rm
  <2>1. pc = "rm" /\ pc' = "commit" /\ req' = req /\ UNCHANGED <<repo, gitLock>>
        /\ stage' = [stage EXCEPT ![req.path] = Absent] /\ work' = [work EXCEPT ![req.path] = Absent]
    BY <1>9 DEF Rm, DoRm, Goto
  <2>2. HeadTree' = HeadTree /\ head # 0 /\ head' = head
    BY <1>1, <1>2, <2>1 DEF repo
  <2>3. req.file = Absent
    BY <1>1, <2>1 DEF InProgress
  <2> QED
    BY <2>1, <2>2, <2>3 DEF Wanted, Fits
<1>10. CASE Commit
  <2>1. HeadTree' = stage /\ pc = "commit" /\ pc' = "push" /\ UNCHANGED disk /\ head # 0
    BY <1>1, <1>10, CommitStep DEF Commit, DoCommit, Goto
  <2> QED
    BY <2>1 DEF disk
<1>11. CASE CommitNothing
  <2>1. stage = HeadTree /\ work = stage /\ pc = "commit" /\ pc' = "push" /\ UNCHANGED <<repo, disk>>
    BY <1>11 DEF CommitNothing, NothingToCommit, Goto
  <2> QED
    BY <1>1, <1>2, <2>1 DEF repo, disk
<1>12. CASE Push \/ Fetch
  <2>1. pc \in {"push", "fetch"} /\ pc' \in {"refresh", "merge"} /\ UNCHANGED <<head, disk>>
    BY <1>12 DEF Push, DoPush, Fetch, DoFetch, Goto
  <2> QED
    BY <1>1, <1>2, <2>1 DEF disk
<1>13. CASE FastForward
  <2>1. pc = "merge" /\ pc' = "refresh" /\ DoMerge /\ head # 0 /\ fetchHead # 0
    BY <1>1, <1>13 DEF FastForward, Goto, InProgress
  <2>2. fetchHead \in DOMAIN commits /\ commits[fetchHead].tree \in Tree
    BY <1>1, <2>1, TreeOfCommit DEF RepoOK
  <2>3. Merged(HeadTree) = commits[fetchHead].tree
    <3>1. \A p \in Paths : stage[p] = HeadTree[p]
      BY <2>1
    <3>2. \A p \in Paths : Merged(HeadTree)[p] = commits[fetchHead].tree[p]
      BY <3>1 DEF Merged, Moves
    <3> QED
      BY <2>2, <3>2 DEF Merged, Tree
  <2>4. HeadTree' = commits[fetchHead].tree
    BY <2>1 DEF DoMerge, HeadTree
  <2>5. stage' = Merged(stage) /\ work' = Merged(work) /\ gitLock' = gitLock
    BY <2>1 DEF DoMerge
  <2> QED
    BY <2>1, <2>3, <2>4, <2>5
<1>14. CASE AlreadyUpToDate \/ RefreshSkip \/ RefreshBegin \/ IndexOne \/ IndexDone \/ PublishUpsert
            \/ PublishDelete \/ Finish \/ ReadFails \/ PanicInRequest \/ PanicInPoll \/ OpenExisting
            \/ PollStart
  <2>1. pc \notin {"write", "add", "rm", "commit"} /\ pc' \notin {"write", "add", "rm", "commit"}
        /\ UNCHANGED <<head, disk>>
    BY <1>14 DEF AlreadyUpToDate, RefreshSkip, RefreshBegin, IndexOne, IndexDone, PublishUpsert,
       PublishDelete, Publish, Finish, Ack, ReadFails, PanicInRequest, PanicInPoll, Died, Return, OpenExisting,
       Boot, PollStart, Idle, Goto, repo
  <2> QED
    BY <1>1, <1>2, <2>1 DEF disk
<1>15. CASE Refused
  <2>1. pc' \in {"idle", "down"} /\ UNCHANGED <<head, disk>> /\ pc # "down"
    BY <1>15 DEF Refused, Return, repo
  <2>2. pc \notin {"add", "commit"}
    <3>1. pc = "commit" => stage = HeadTree /\ ~NothingToCommit
      BY <1>15 DEF Refused, CanCommit
    <3>2. pc = "commit" => req.kind = "delete" /\ work = stage
      BY <1>1, <3>1 DEF NothingToCommit, InProgress, Writing
    <3>3. pc = "commit" => Wanted[req.path] = req.file /\ HeadTree[req.path] # req.file
      <4>1. ASSUME pc = "commit" PROVE Fits(HeadTree[req.path]) /\ req.path \in Paths
        BY <1>1, <4>1 DEF OperationOK, Requests
      <4>2. ASSUME pc = "commit" PROVE req.file = Absent /\ HeadTree[req.path] \in Env
        BY <3>2, <4>1, <4>2 DEF Fits
      <4> QED
        BY <1>1, <4>1, <4>2, FilesAssumption DEF Wanted, Tree
    <3>4. pc # "commit"
      BY <1>1, <3>1, <3>3
    <3> QED
      BY <1>15, <3>4 DEF Refused, CanAdd
  <2> QED
    BY <1>1, <1>2, <2>1, <2>2 DEF disk
<1>16. CASE Fail
  BY <1>1, <1>2, <1>16, NetworkFailure
<1>17. CASE Crash
  BY <1>17 DEF Crash, NetworkOnly
<1>18. CASE UNCHANGED vars
  <2>1. UNCHANGED <<head, stage, work, gitLock, pc, req>>
    BY <1>18 DEF vars, repo, disk
  <2>2. CASE head = 0
    BY <1>1, <2>1, <2>2
  <2>3. CASE head # 0
    BY <1>2, <2>1, <2>3 DEF Wanted, Fits
  <2> QED
    BY <2>2, <2>3
<1> QED
  BY <1>3, <1>4, <1>5, <1>6, <1>7, <1>8, <1>9, <1>10, <1>11, <1>12, <1>13, <1>14, <1>15, <1>16, <1>17,
     <1>18 DEF Next, Operation

LEMMA LocalInit == Init => Local
BY DEF Init, Local

LEMMA LocalAlways ==
  ASSUME NetworkOnly
  PROVE  Spec => []Local
BY LocalInit, LocalNext, Invariance, PTL DEF Spec

(* Between requests the working tree and the git index are HEAD's, for any *)
(* paths, writers and bounds: no request leaves anything for the next.     *)
THEOREM WorkCorrect ==
  ASSUME NetworkOnly
  PROVE  Spec => []WorkIsHead
<1>1. Inv /\ Local => WorkIsHead
  BY DEF Inv, InProgress, Local, WorkIsHead
<1> QED
  BY <1>1, LocalAlways, Invariance, PTL

(* No commit takes along what another request or another writer put in     *)
(* the working tree.                                                       *)
THEOREM CommitsOnlyItsPath ==
  ASSUME NetworkOnly
  PROVE  Spec => CommitTouchesOnlyPath
<1>1. Inv /\ Local /\ [Next]_vars =>
        [Committing => \A p \in Paths \ {req.path} : stage[p] = HeadTree[p]]_vars
  <2> SUFFICES ASSUME Inv, Local, pc = "commit", NEW p \in Paths \ {req.path}
               PROVE  stage[p] = HeadTree[p]
    BY DEF Committing
  <2>1. stage = Wanted /\ HeadTree \in Tree
    BY HeadIs DEF Inv, InProgress, Local
  <2> QED
    BY <2>1 DEF Wanted, Tree
<1> QED
  BY <1>1, LocalAlways, Invariance, PTL DEF Spec, CommitTouchesOnlyPath

(* A commit that names a version replaces that version in its parent: the  *)
(* check in Apply and Delete is still right when git commits, whatever was *)
(* pushed meanwhile.                                                       *)
THEOREM LockCorrect ==
  ASSUME NetworkOnly
  PROVE  Spec => OptimisticLock
<1> DEFINE Locked == Committing /\ req.exp > 0 =>
                       LET f == HeadTree[req.path] IN
                       \/ f \in Env /\ f.ver = req.exp
                       \/ f = Absent /\ req.exp = 1 /\ req.kind = "apply"
<1>1. Inv /\ Local /\ [Next]_vars => [Locked]_vars
  BY DEF Committing, Local, Fits
<1> QED
  BY <1>1, LocalAlways, Invariance, PTL DEF Spec, OptimisticLock

-----------------------------------------------------------------------------
(* Versions                                                                *)

(* Between commits that are there already nothing changes.                 *)
LEMMA OldAscend ==
  ASSUME Inv, [Next]_vars, VersionsAscend, NEW d \in DOMAIN commits, NEW p \in Paths
  PROVE  \A c \in Anc(d)' : Ascends(c, d, p)'
<1>1. Anc(d) \subseteq DOMAIN commits /\ \A e \in Anc(d) : Anc(e) \subseteq Anc(d)
  BY LenProperties DEF Inv, TypeOK, RepoOK, HistoryOK
<1>2. \A e \in DOMAIN commits : commits'[e] = commits[e]
  BY InvRepo DEF RepoStep, Grown
<1>3. \A c \in Anc(d) : Ascends(c, d, p)
  BY DEF VersionsAscend
<1> QED
  BY <1>1, <1>2, <1>3 DEF Ascends, Superseded, Anc

(* Commits that are not new keep their order in any step that adds none.   *)
LEMMA NoneAscend ==
  ASSUME Inv, [Next]_vars, VersionsAscend, commits' = commits
  PROVE  VersionsAscend'
BY DEF VersionsAscend, Ascends, Superseded, Anc

(* A commit of hubd: the file it brings has the version after the one that *)
(* its parent has, or the first one of a document that its parent lacks.   *)
LEMMA CommitAscends ==
  ASSUME Inv, [Next]_vars, VersionsAscend, Local, pc = "commit", DoCommit
  PROVE  VersionsAscend'
<1>0. PICK n : n = Len(commits) + 1
  OBVIOUS
<1>1. /\ head \in DOMAIN commits /\ head # 0 /\ HeadTree \in Tree /\ stage \in Tree /\ RepoOK
      /\ stage = Wanted /\ Fits(HeadTree[req.path]) /\ req.path \in Paths
      /\ req.kind \in {"apply", "delete"}
  BY HeadIs DEF Inv, TypeOK, DiskOK, InProgress, Writing, Local, OperationOK, Requests
<1>2. /\ commits' \in Seq(Commits) /\ Grown
      /\ commits'[n].anc = Anc(head) \cup {n} /\ commits'[n].tree = stage
  BY <1>0, <1>1, ChildExtends DEF DoCommit
<1>3. DOMAIN commits = 1..Len(commits) /\ Len(commits) \in Nat /\ DOMAIN commits' = 1..n
  BY <1>0, <1>1, LenProperties DEF RepoOK, DoCommit
<1>4. \A c \in Anc(head) : c \in DOMAIN commits /\ c \in Anc(c) /\ Anc(c) \subseteq 1..c /\ c <= head
  <2>1. head \in 1..Len(commits) /\ Anc(head) \subseteq 1..head
    BY <1>1, <1>3 DEF RepoOK, HistoryOK
  <2>2. \A c \in 1..head : c \in DOMAIN commits /\ c <= head
    BY <1>3, <2>1
  <2> QED
    BY <1>1, <2>1, <2>2 DEF RepoOK, HistoryOK
<1>5. \A c \in Anc(head) : commits'[c] = commits[c]
  BY <1>2, <1>4 DEF Grown
<1>6. ASSUME NEW c \in Anc(head), NEW p \in Paths PROVE Ascends(c, n, p)'
  <2> DEFINE f == commits[c].tree[p]
  <2> DEFINE g == stage[p]
  <2>1. SUFFICES ASSUME f \in Env, g \in Env
                 PROVE  f.ver < g.ver \/ f = g \/ Superseded(c, n, p)'
    BY <1>2, <1>5 DEF Ascends
  <2>2. Superseded(c, head, p) => Superseded(c, n, p)'
    BY <1>2, <1>4, <1>5 DEF Superseded, Anc
  <2>3. HeadTree[p] \in Env => f.ver < HeadTree[p].ver \/ f = HeadTree[p] \/ Superseded(c, head, p)
    BY <1>1, <2>1 DEF VersionsAscend, Ascends, HeadTree
  <2>4. CASE p # req.path
    <3>1. g = HeadTree[p]
      BY <1>1, <2>4 DEF Wanted, Tree
    <3> QED
      BY <2>1, <2>2, <2>3, <3>1
  <2>5. CASE p = req.path
    <3>1. g = req.file
      BY <1>1, <2>5 DEF Wanted, Tree
    <3>2. req.kind = "apply" /\ HeadTree[p] # Garbage
          /\ g.ver = IF HeadTree[p] \in Env THEN HeadTree[p].ver + 1 ELSE 1
      BY <1>1, <2>1, <2>5, <3>1, FilesAssumption DEF Fits
    <3>3. CASE HeadTree[p] \in Env
      <4>1. f.ver \in Nat /\ HeadTree[p].ver \in Nat /\ g.ver = HeadTree[p].ver + 1
        BY <2>1, <3>2, <3>3, BoundsAssumption DEF Env
      <4>2. f.ver < HeadTree[p].ver \/ f = HeadTree[p] => f.ver < g.ver
        BY <4>1
      <4> QED
        BY <2>2, <2>3, <3>3, <4>2
    <3>4. CASE HeadTree[p] \notin Env
      <4>1. HeadTree[p] = Absent
        BY <1>1, <3>2, <3>4 DEF Tree, File
      <4>2. c # head
        BY <2>1, <3>4 DEF HeadTree
      <4>3. head \notin Anc(c)
        BY <1>3, <1>4, <4>2
      <4>4. head \in Anc(n)' /\ commits'[head].tree[p] = Absent /\ Anc(c)' = Anc(c)
        BY <1>1, <1>2, <1>4, <1>5, <4>1 DEF Anc, HeadTree, RepoOK, HistoryOK
      <4> QED
        BY <4>3, <4>4 DEF Superseded
    <3> QED
      BY <3>3, <3>4
  <2> QED
    BY <2>4, <2>5
<1>7. ASSUME NEW p \in Paths PROVE Ascends(n, n, p)'
  BY DEF Ascends
<1>8. ASSUME NEW d \in DOMAIN commits', NEW c \in Anc(d)', NEW p \in Paths PROVE Ascends(c, d, p)'
  <2>1. CASE d = n
    BY <1>2, <1>6, <1>7, <2>1 DEF Anc
  <2>2. CASE d \in DOMAIN commits
    BY <2>2, OldAscend
  <2> QED
    BY <1>0, <1>3, <2>1, <2>2
<1> QED
  BY <1>8 DEF VersionsAscend

(* A commit of others supersedes whatever was there before.                *)
LEMMA ExternalAscends ==
  ASSUME Inv, [Next]_vars, VersionsAscend, ExternalPush
  PROVE  VersionsAscend'
<1>0. PICK n : n = Len(commits) + 1
  OBVIOUS
<1>1. PICK q \in Paths, x \in ExternalFiles :
        commits' = Append(commits, Child(origin, [commits[origin].tree EXCEPT ![q] = x], "external"))
  BY DEF ExternalPush
<1>2. RepoOK /\ origin \in DOMAIN commits /\ [commits[origin].tree EXCEPT ![q] = x] \in Tree
  BY TreeOfCommit, TreesAssumption DEF Inv, TypeOK, RepoOK, Tree
<1>3. /\ commits' \in Seq(Commits) /\ Grown
      /\ commits'[n].anc = Anc(origin) \cup {n} /\ commits'[n].by = "external"
  BY <1>0, <1>1, <1>2, ChildExtends
<1>4. DOMAIN commits = 1..Len(commits) /\ Len(commits) \in Nat /\ DOMAIN commits' = 1..n
  BY <1>0, <1>1, <1>2, LenProperties DEF RepoOK
<1>5. ASSUME NEW c \in Anc(origin), NEW p \in Paths PROVE Superseded(c, n, p)'
  <2>1. c \in 1..Len(commits) /\ Anc(c) \subseteq 1..c
    BY <1>2, <1>4 DEF RepoOK, HistoryOK
  <2>2. commits'[c] = commits[c]
    BY <1>3, <1>4, <2>1 DEF Grown
  <2>3. n \in Anc(n)' /\ n \notin Anc(c)'
    BY <1>0, <1>3, <1>4, <2>1, <2>2 DEF Anc
  <2> QED
    BY <1>3, <2>3 DEF Superseded
<1>6. ASSUME NEW p \in Paths PROVE Ascends(n, n, p)'
  BY DEF Ascends
<1>7. ASSUME NEW d \in DOMAIN commits', NEW c \in Anc(d)', NEW p \in Paths PROVE Ascends(c, d, p)'
  <2>1. CASE d = n
    BY <1>3, <1>5, <1>6, <2>1 DEF Anc, Ascends
  <2>2. CASE d \in DOMAIN commits
    BY <2>2, OldAscend
  <2> QED
    BY <1>0, <1>4, <2>1, <2>2
<1> QED
  BY <1>7 DEF VersionsAscend

(* The steps that add a commit.                                            *)
LEMMA CommitsMove ==
  ASSUME Inv, [Next]_vars
  PROVE  commits' = commits \/ ExternalPush \/ (pc = "commit" /\ DoCommit)
<1>1. DoPush \/ DoMerge => commits' = commits
  BY DEF DoPush, DoMerge
<1> QED
  BY <1>1, RepoMoves

LEMMA VersionsInit == Init => VersionsAscend
<1> SUFFICES ASSUME Init PROVE VersionsAscend
  OBVIOUS
<1>1. PICK t \in InitTrees : commits = <<[anc |-> {1}, tree |-> t, by |-> "init"]>>
  BY DEF Init
<1>2. DOMAIN commits = {1} /\ Anc(1) = {1}
  BY <1>1 DEF Anc
<1> QED
  BY <1>2 DEF VersionsAscend, Ascends

LEMMA VersionsNext ==
  ASSUME NetworkOnly, Inv, Local, VersionsAscend, [Next]_vars
  PROVE  VersionsAscend'
BY CommitsMove, NoneAscend, CommitAscends, ExternalAscends

LEMMA VersionsAlways ==
  ASSUME NetworkOnly
  PROVE  Spec => []VersionsAscend
<1>1. NetworkOnly /\ Inv /\ Local /\ VersionsAscend /\ [Next]_vars => VersionsAscend'
  BY VersionsNext
<1> QED
  BY <1>1, VersionsInit, LocalAlways, Invariance, PTL DEF Spec

(* A version names one content of a document in the history of HEAD, unless *)
(* the document was deleted or others wrote in between: a client that names *)
(* the version it has read replaces what it has read.                      *)
THEOREM VersionsCorrect ==
  ASSUME NetworkOnly
  PROVE  Spec => []VersionNamesContent
<1>1. Inv /\ VersionsAscend => VersionNamesContent
  <2> SUFFICES ASSUME Inv, VersionsAscend, head # 0, NEW d \in Anc(head), NEW c \in Anc(d), NEW p \in Paths,
                      commits[c].tree[p] \in Env, commits[d].tree[p] \in Env,
                      commits[c].tree[p].ver = commits[d].tree[p].ver
               PROVE  \/ commits[c].tree[p] = commits[d].tree[p]
                      \/ \E e \in Anc(d) \ Anc(c) : commits[e].by = "external" \/ commits[e].tree[p] = Absent
    BY DEF VersionNamesContent
  <2>1. d \in DOMAIN commits
    BY HeadIs, LenProperties DEF Inv, TypeOK, RepoOK, HistoryOK
  <2>2. commits[c].tree[p].ver \in Int /\ commits[d].tree[p].ver \in Int
    BY DEF Env
  <2> QED
    BY <2>1, <2>2 DEF VersionsAscend, Ascends, Superseded
<1> QED
  BY <1>1, VersionsAlways, Invariance, PTL
=============================================================================
