------------------------------ MODULE GitStore ------------------------------
(***************************************************************************)
(* hubd's document store (pkg/store): a git clone of the data repository,  *)
(* its origin on GitHub, the in-memory index built from HEAD and the       *)
(* change events published when the index moves.                           *)
(*                                                                         *)
(* GitStore.mu serialises Apply, Delete, Poll and the initial refresh, so  *)
(* one operation is in progress at a time: req is that operation and pc    *)
(* the call it makes next.  What interleaves with its steps is everything  *)
(* that does not take mu: the lock-free List, pushes to origin by other    *)
(* writers, the cancellation of a request (exec.CommandContext kills the   *)
(* git it is running) and the death of the process.                        *)
(*                                                                         *)
(* A file is abstracted to the envelope's version and the rest of it.      *)
(***************************************************************************)
EXTENDS Integers, Sequences, FiniteSets

CONSTANTS
  Paths,          \* files of the repository that the runs tell apart
  DataPaths,      \* those under data/; the others are under system/
  Bodies,         \* an envelope without its version
  Absent,         \* no such file
  Garbage,        \* a file ParseEnvelope rejects
  InitTrees,      \* what origin may hold before the first clone
  ExternalFiles,  \* what other writers may put in a file
  Writers,        \* who writes: "hubd" (the API), "external" (git push)
  Faults,         \* steps that may fail, "lookup", "blob", "panic", "crash", "volume"
  Expected,       \* the expectedVersion a request may name, 0 for none
  MaxVersion,     \* bound on metadata.version
  MaxHubd,        \* bound on the commits made by hubd
  MaxExternal     \* bound on the commits pushed by others

(* What a killed WriteFile leaves: the file truncated, which parses as an  *)
(* envelope with no field set.                                             *)
Truncated == [ver |-> 0, body |-> Absent]
Env       == [ver : 0..MaxVersion, body : Bodies \cup {Absent}]
File      == Env \cup {Absent, Garbage}
Tree      == [Paths -> File]
NoEntries == [p \in DataPaths |-> Absent]

ASSUME PathsAssumption  == Paths # {} /\ DataPaths \subseteq Paths
ASSUME FilesAssumption  == Absent \notin Env /\ Garbage \notin Env /\ Absent # Garbage
ASSUME TreesAssumption  == InitTrees \subseteq Tree /\ ExternalFiles \subseteq File /\ Expected \subseteq Nat
ASSUME BoundsAssumption == MaxVersion \in Nat /\ MaxHubd \in Nat /\ MaxExternal \in Nat

VARIABLES
  commits,   \* every commit ever made: its ancestors (itself included), tree, author
  origin,    \* the branch on GitHub, a commit
  head,      \* HEAD of the clone, 0 when there is no clone
  fetchHead, \* FETCH_HEAD
  stage,     \* the clone's git index, as a tree
  work,      \* the clone's working tree
  gitLock,   \* a stale .git/index.lock, left by a killed git
  index,     \* gs.index: path -> entry, Absent when not listed
  servedSHA, \* gs.servedSHA, 0 in a new process
  old,       \* the snapshot refreshIndexLocked compares with, less what is published
  known,     \* the index as a client that applies every event sees it
  unsaid,    \* history only: paths whose events a panic or a failed read of HEAD has cost
  pc,        \* the call the operation in progress makes next
  req,       \* the operation in progress
  acked      \* what clients were told succeeded: path, file, HEAD at that time

repo   == <<commits, origin, head, fetchHead>>
disk   == <<stage, work, gitLock>>
memory == <<index, servedSHA, old, known, unsaid>>
vars   == <<repo, disk, memory, pc, req, acked>>

Steps == {"write", "add", "rm", "commit", "push", "fetch", "merge",
          "refresh", "read", "publish"}

NoReq == [kind |-> "poll", path |-> CHOOSE p \in Paths : TRUE, file |-> Absent, exp |-> 0]

-----------------------------------------------------------------------------
(* Commits                                                                 *)

Anc(c)     == commits[c].anc
HeadTree   == commits[head].tree
CommitsBy(w) == Cardinality({c \in DOMAIN commits : commits[c].by = w})

(* A commit of tree t on top of commit c. *)
Child(c, t, w) == [anc |-> Anc(c) \cup {Len(commits) + 1}, tree |-> t, by |-> w]

(* Seeded fault: files that do not parse are listed as well. *)
Entries_Unparsed(c) == [p \in DataPaths |-> commits[c].tree[p]]

(* The entries refreshIndexLocked makes of a commit: data/ files that parse. *)
Entries(c) == [p \in DataPaths |->
                 IF commits[c].tree[p] \in Env THEN commits[c].tree[p] ELSE Absent]

Listed(idx) == {p \in DataPaths : idx[p] # Absent}

-----------------------------------------------------------------------------
Init ==
  /\ \E t \in InitTrees : commits = <<[anc |-> {1}, tree |-> t, by |-> "init"]>>
  /\ origin = 1 /\ head = 0 /\ fetchHead = 0
  /\ stage = [p \in Paths |-> Absent] /\ work = [p \in Paths |-> Absent]
  /\ gitLock = FALSE
  /\ index = NoEntries /\ old = NoEntries /\ known = NoEntries /\ unsaid = {}
  /\ servedSHA = 0
  /\ pc = "down" /\ req = NoReq
  /\ acked = {}

(* The call before step s is done and s comes next. *)
Goto(s)  == pc' = s /\ UNCHANGED <<req, acked, memory>>

(* The operation returns an error; a failed OpenOrClone ends the process. *)
Return ==
  /\ pc' = IF req.kind = "open" THEN "down" ELSE "idle"
  /\ req' = NoReq
  /\ UNCHANGED acked

-----------------------------------------------------------------------------
(* What each call changes on disk or on GitHub when it is carried out.     *)

DoWrite(f) ==
  /\ work' = [work EXCEPT ![req.path] = f]
  /\ UNCHANGED <<repo, stage, gitLock>>

(* Seeded fault: git add left out. *)
DoAdd_Omitted == UNCHANGED <<repo, disk>>

CanAdd == ~gitLock
DoAdd ==
  /\ stage' = [stage EXCEPT ![req.path] = work[req.path]]
  /\ UNCHANGED <<repo, work, gitLock>>

(* git rm refuses a file that differs from HEAD or from the git index. *)
CanRm ==
  /\ ~gitLock
  /\ stage[req.path] = HeadTree[req.path]
  /\ work[req.path] = stage[req.path]
DoRm ==
  /\ stage' = [stage EXCEPT ![req.path] = Absent]
  /\ work'  = [work  EXCEPT ![req.path] = Absent]
  /\ UNCHANGED <<repo, gitLock>>

(* git commit commits the whole git index, whoever staged it. *)
CanCommit == ~gitLock /\ stage # HeadTree
DoCommit ==
  /\ commits' = Append(commits, Child(head, stage, "hubd"))
  /\ head' = Len(commits) + 1
  /\ UNCHANGED <<origin, fetchHead, disk>>

(* Seeded fault: git push --force. *)
CanPush_Forced == TRUE

(* GitHub takes a push that fast-forwards the branch. *)
CanPush == origin \in Anc(head)
DoPush ==
  /\ origin' = head
  /\ UNCHANGED <<commits, head, fetchHead, disk>>

DoFetch ==
  /\ fetchHead' = origin
  /\ UNCHANGED <<commits, origin, head, disk>>

(* git merge --ff-only: the paths the fast-forward changes must be clean.  *)
Moves(p) == HeadTree[p] # commits[fetchHead].tree[p] /\ stage[p] # commits[fetchHead].tree[p]
Clean(p) == stage[p] = HeadTree[p] /\ work[p] \in {stage[p], Absent}
UpToDate == fetchHead \in Anc(head)
(* Seeded fault: git reset to FETCH_HEAD, local commits or not. *)
CanMerge_Reset == ~gitLock /\ \A p \in Paths : Moves(p) => Clean(p)

CanMerge ==
  /\ ~gitLock
  /\ head \in Anc(fetchHead)
  /\ \A p \in Paths : Moves(p) => Clean(p)
Merged(t) == [p \in Paths |-> IF Moves(p) THEN commits[fetchHead].tree[p] ELSE t[p]]
(* Seeded fault: only the branch moves, as git update-ref would. *)
DoMerge_RefOnly == head' = fetchHead /\ UNCHANGED <<commits, origin, fetchHead, disk>>

DoMerge ==
  /\ stage' = Merged(stage)
  /\ work' = Merged(work)
  /\ head' = fetchHead
  /\ UNCHANGED <<commits, origin, fetchHead, gitLock>>

-----------------------------------------------------------------------------
(* Starting: OpenOrClone, and what the outside world may do.               *)

Boot == pc' = "refresh" /\ req' = [NoReq EXCEPT !.kind = "open"]

OpenClone ==
  /\ pc = "down" /\ head = 0
  /\ head' = origin
  /\ stage' = commits[origin].tree /\ work' = commits[origin].tree
  /\ Boot
  /\ UNCHANGED <<commits, origin, fetchHead, gitLock, memory, acked>>

OpenExisting ==
  /\ pc = "down" /\ head # 0
  /\ Boot
  /\ UNCHANGED <<repo, disk, memory, acked>>

(* The pod comes back with an empty volume. *)
VolumeLost ==
  /\ "volume" \in Faults
  /\ pc = "down" /\ head # 0
  /\ head' = 0 /\ fetchHead' = 0
  /\ stage' = [p \in Paths |-> Absent] /\ work' = [p \in Paths |-> Absent]
  /\ gitLock' = FALSE
  /\ UNCHANGED <<commits, origin, memory, pc, req, acked>>

(* Somebody pushes a commit that changes one file; never a force push. *)
ExternalPush ==
  /\ "external" \in Writers
  /\ CommitsBy("external") < MaxExternal
  /\ \E p \in Paths, f \in ExternalFiles :
       /\ commits[origin].tree[p] # f
       /\ commits' = Append(commits, Child(origin, [commits[origin].tree EXCEPT ![p] = f], "external"))
  /\ origin' = Len(commits) + 1
  /\ UNCHANGED <<head, fetchHead, disk, memory, pc, req, acked>>

-----------------------------------------------------------------------------
(* Apply and Delete                                                        *)

(* What Apply takes the file to be: any error of reading it counts as no   *)
(* file.                                                                   *)
Found(p) == {work[p]} \cup (IF "lookup" \in Faults THEN {Absent} ELSE {})

(* Seeded fault: the versions are not compared. *)
ApplyAllowed_Unchecked(f, exp) == f # Garbage

(* The optimistic lock: expectedVersion 0 asks for no check. *)
ApplyAllowed(f, exp) ==
  /\ f # Garbage
  /\ f \in Env /\ exp > 0 => f.ver = exp
  /\ f = Absent => exp <= 1

(* Seeded fault: the version declared outside the if is not assigned. *)
NextVersion_Shadowed(f) == 1

NextVersion(f) == IF f \in Env THEN f.ver + 1 ELSE 1

Idle == pc = "idle"

ApplyStart ==
  /\ Idle /\ "hubd" \in Writers
  /\ CommitsBy("hubd") < MaxHubd
  /\ \E p \in Paths, b \in Bodies, exp \in Expected : \E f \in Found(p) :
       /\ ApplyAllowed(f, exp)
       /\ NextVersion(f) <= MaxVersion
       /\ req' = [kind |-> "apply", path |-> p, exp |-> exp,
                  file |-> [ver |-> NextVersion(f), body |-> b]]
  /\ pc' = "write"
  /\ UNCHANGED <<repo, disk, memory, acked>>

ApplyWrite ==
  /\ pc = "write"
  /\ DoWrite(req.file)
  /\ Goto("add")

Add ==
  /\ pc = "add" /\ CanAdd
  /\ DoAdd
  /\ Goto("commit")

DeleteAllowed(p, exp) ==
  /\ work[p] \in Env
  /\ exp > 0 => work[p].ver = exp

DeleteStart ==
  /\ Idle /\ "hubd" \in Writers
  /\ CommitsBy("hubd") < MaxHubd
  /\ \E p \in Paths, exp \in Expected :
       /\ DeleteAllowed(p, exp)
       /\ req' = [kind |-> "delete", path |-> p, exp |-> exp, file |-> Absent]
  /\ pc' = "rm"
  /\ UNCHANGED <<repo, disk, memory, acked>>

Rm ==
  /\ pc = "rm" /\ CanRm
  /\ DoRm
  /\ Goto("commit")

Commit ==
  /\ pc = "commit" /\ CanCommit
  /\ DoCommit
  /\ Goto("push")

(* Only Apply goes on when git says "nothing to commit", which git says    *)
(* only of a clean working tree.                                           *)
NothingToCommit == req.kind = "apply" /\ ~gitLock /\ stage = HeadTree /\ work = stage

CommitNothing ==
  /\ pc = "commit" /\ NothingToCommit
  /\ Goto("push")
  /\ UNCHANGED <<repo, disk>>

(* Seeded fault: the error of git push is dropped. *)
Push_Unchecked ==
  /\ pc = "push"
  /\ IF CanPush THEN DoPush ELSE UNCHANGED <<repo, disk>>
  /\ Goto("refresh")

Push ==
  /\ pc = "push" /\ CanPush
  /\ DoPush
  /\ Goto("refresh")

-----------------------------------------------------------------------------
(* Poll                                                                    *)

PollStart ==
  /\ Idle
  /\ pc' = "fetch" /\ req' = [NoReq EXCEPT !.kind = "poll"]
  /\ UNCHANGED <<repo, disk, memory, acked>>

Fetch ==
  /\ pc = "fetch"
  /\ DoFetch
  /\ Goto("merge")

AlreadyUpToDate ==
  /\ pc = "merge" /\ UpToDate
  /\ Goto("refresh")
  /\ UNCHANGED <<repo, disk>>

FastForward ==
  /\ pc = "merge" /\ ~UpToDate /\ CanMerge
  /\ DoMerge
  /\ Goto("refresh")

-----------------------------------------------------------------------------
(* refreshIndexLocked, at the end of every operation                       *)

(* The operation succeeds: a write is acknowledged. *)
Ack ==
  /\ acked' = IF req.kind \in {"apply", "delete"}
              THEN acked \cup {[path |-> req.path, file |-> req.file, at |-> head]}
              ELSE acked
  /\ pc' = "idle" /\ req' = NoReq

RefreshSkip ==
  /\ pc = "refresh" /\ head = servedSHA
  /\ Ack
  /\ UNCHANGED <<repo, disk, memory>>

(* Seeded faults: the old index is kept and added to; servedSHA is set     *)
(* before HEAD is read.                                                    *)
RefreshBegin_KeepsIndex ==
  /\ pc = "refresh" /\ head # servedSHA
  /\ old' = index /\ pc' = "read"
  /\ UNCHANGED <<repo, disk, index, servedSHA, known, unsaid, req, acked>>
RefreshBegin_ServedFirst ==
  /\ pc = "refresh" /\ head # servedSHA
  /\ old' = index /\ index' = NoEntries /\ servedSHA' = head /\ pc' = "read"
  /\ UNCHANGED <<repo, disk, known, unsaid, req, acked>>

(* The new index replaces the old one, empty, before HEAD is read. *)
RefreshBegin ==
  /\ pc = "refresh" /\ head # servedSHA
  /\ old' = index /\ index' = NoEntries
  /\ pc' = "read"
  /\ UNCHANGED <<repo, disk, servedSHA, known, unsaid, req, acked>>

(* CommitObject or Tree fails: the operation ends with the index empty,    *)
(* and the snapshot to compare the next one with is lost.                  *)
ReadFails ==
  /\ "read" \in Faults
  /\ pc = "read" /\ index = NoEntries
  /\ unsaid' = unsaid \cup Listed(old)
  /\ old' = NoEntries
  /\ Return
  /\ UNCHANGED <<repo, disk, index, servedSHA, known>>

ToIndex == Listed(Entries(head)) \ Listed(index)

IndexOne ==
  /\ pc = "read"
  /\ \E p \in ToIndex : index' = [index EXCEPT ![p] = Entries(head)[p]]
  /\ UNCHANGED <<repo, disk, servedSHA, old, known, unsaid, pc, req, acked>>

(* The error of ForEach is dropped: a blob that cannot be read ends the    *)
(* loop, and HEAD counts as served all the same.                           *)
IndexDone ==
  /\ pc = "read"
  /\ ToIndex = {} \/ "blob" \in Faults
  /\ servedSHA' = head
  /\ pc' = "publish"
  /\ UNCHANGED <<repo, disk, index, old, known, unsaid, req, acked>>

(* Publish sends one event; old[p] = index[p] marks what needs none. *)
Publish(p) ==
  /\ known' = [known EXCEPT ![p] = index[p]]
  /\ unsaid' = unsaid \ {p}
  /\ old' = [old EXCEPT ![p] = index[p]]
  /\ UNCHANGED <<repo, disk, index, servedSHA, pc, req, acked>>

(* Seeded fault: no loop over the entries that went away. *)
Deletes_None == {}

Upserts == Listed(index) \ Listed(old)
Deletes == Listed(old) \ Listed(index)

PublishUpsert == pc = "publish" /\ \E p \in Upserts : Publish(p)

PublishDelete == pc = "publish" /\ Upserts = {} /\ \E p \in Deletes : Publish(p)

(* broker.Publish may panic (LeaverHarmless in ChangeStream).  In a        *)
(* request net/http recovers: the deferred unlock runs and the client gets *)
(* no answer.  HEAD counts as served, but whoever the send has not reached *)
(* goes without this event, and everybody without those to come after it.  *)
PanicInRequest ==
  /\ "panic" \in Faults
  /\ pc = "publish" /\ req.kind \in {"apply", "delete"}
  /\ \E p \in IF Upserts # {} THEN Upserts ELSE Deletes : \E reached \in SUBSET {p} :
       /\ known' = [q \in DataPaths |-> IF q \in reached THEN index[q] ELSE known[q]]
       /\ unsaid' = (unsaid \cup Upserts \cup Deletes) \ reached
  /\ old' = NoEntries
  /\ Return
  /\ UNCHANGED <<repo, disk, index, servedSHA>>

(* The memory of the process is gone, and the history of the broker. *)
Died ==
  /\ index' = NoEntries /\ old' = NoEntries /\ known' = NoEntries /\ unsaid' = {}
  /\ servedSHA' = 0
  /\ pc' = "down" /\ req' = NoReq
  /\ UNCHANGED acked

(* Nothing recovers a panic in the poll loop. *)
PanicInPoll ==
  /\ "panic" \in Faults
  /\ pc = "publish" /\ req.kind = "poll" /\ Upserts \cup Deletes # {}
  /\ Died
  /\ UNCHANGED <<repo, disk>>

Finish ==
  /\ pc = "publish" /\ Upserts = {} /\ Deletes = {}
  /\ old' = NoEntries
  /\ Ack
  /\ UNCHANGED <<repo, disk, index, servedSHA, known, unsaid>>

-----------------------------------------------------------------------------
(* Failures                                                                *)

(* The call is refused for what is on disk or on GitHub. *)
Refused ==
  /\ \/ pc = "add"    /\ ~CanAdd
     \/ pc = "rm"     /\ ~CanRm
     \/ pc = "commit" /\ ~CanCommit /\ ~NothingToCommit
     \/ pc = "push"   /\ ~CanPush
     \/ pc = "merge"  /\ ~UpToDate /\ ~CanMerge
  /\ Return
  /\ UNCHANGED <<repo, disk, memory>>

(* A call that was carried out although it is reported as failed: the      *)
(* process is killed after the change, or GitHub's answer is lost.         *)
Carried ==
  \/ pc = "write"  /\ DoWrite(req.file)
  \/ pc = "add"    /\ CanAdd /\ DoAdd
  \/ pc = "rm"     /\ CanRm /\ DoRm
  \/ pc = "commit" /\ CanCommit /\ DoCommit
  \/ pc = "push"   /\ CanPush /\ DoPush
  \/ pc = "fetch"  /\ DoFetch
  \/ pc = "merge"  /\ ~UpToDate /\ CanMerge /\ DoMerge

(* A call cut short: WriteFile has truncated the file; a git that holds    *)
(* index.lock may have changed working files but not yet the git index.    *)
CutShort ==
  \/ pc = "write" /\ DoWrite(Truncated)
  \/ /\ \/ pc \in {"add", "commit"} /\ work' = work
        \/ pc = "rm" /\ CanRm /\ work' \in {work, [work EXCEPT ![req.path] = Absent]}
        \/ /\ pc = "merge" /\ ~UpToDate /\ CanMerge
           /\ \E ps \in SUBSET Paths :
                work' = [p \in Paths |-> IF p \in ps THEN Merged(work)[p] ELSE work[p]]
     /\ gitLock' = TRUE
     /\ UNCHANGED <<repo, stage>>

Residue == UNCHANGED <<repo, disk>> \/ Carried \/ CutShort

(* One call fails and the operation returns its error: no network, no      *)
(* credentials, a full disk, a cancelled request.                          *)
Fail ==
  /\ pc \in Faults \cap {"write", "add", "rm", "commit", "push", "fetch", "merge"}
  /\ Residue
  /\ Return
  /\ UNCHANGED memory

(* The process dies, at any point; the client gets no answer. *)
Crash ==
  /\ "crash" \in Faults /\ pc # "down"
  /\ Residue
  /\ Died

-----------------------------------------------------------------------------
Operation ==
  \/ ApplyWrite \/ Add \/ Rm \/ Commit \/ CommitNothing \/ Push
  \/ Fetch \/ AlreadyUpToDate \/ FastForward
  \/ RefreshSkip \/ RefreshBegin \/ IndexOne \/ IndexDone
  \/ PublishUpsert \/ PublishDelete \/ Finish
  \/ Refused

Next ==
  \/ OpenClone \/ OpenExisting \/ VolumeLost
  \/ ExternalPush
  \/ ApplyStart \/ DeleteStart \/ PollStart
  \/ Operation
  \/ ReadFails \/ PanicInRequest \/ PanicInPoll \/ Fail \/ Crash

Spec == Init /\ [][Next]_vars

-----------------------------------------------------------------------------
(* Properties                                                              *)

Commits   == [anc : SUBSET Nat, tree : Tree, by : {"init", "hubd", "external"}]
IndexType == [DataPaths -> Env \cup {Absent}]
Requests  == [kind : {"open", "poll", "apply", "delete"}, path : Paths, file : File, exp : Nat]
Acks      == [path : Paths, file : File, at : Nat]

(* A commit descends from itself, from commits made earlier only, and from *)
(* what these descend from.                                                *)
HistoryOK == \A c \in DOMAIN commits :
  /\ c \in Anc(c)
  /\ Anc(c) \subseteq 1..c
  /\ \A d \in Anc(c) : Anc(d) \subseteq Anc(c)

RepoOK ==
  /\ commits \in Seq(Commits)
  /\ HistoryOK
  /\ origin \in DOMAIN commits
  /\ head \in DOMAIN commits \cup {0}
  /\ fetchHead \in DOMAIN commits \cup {0}

DiskOK == stage \in Tree /\ work \in Tree /\ gitLock \in BOOLEAN

MemoryOK ==
  /\ index \in IndexType /\ old \in IndexType /\ known \in IndexType
  /\ unsaid \subseteq DataPaths
  /\ servedSHA \in DOMAIN commits \cup {0}

OperationOK ==
  /\ pc \in {"down", "idle"} \cup Steps
  /\ req \in Requests
  /\ acked \subseteq Acks /\ \A a \in acked : a.at \in DOMAIN commits

(* Every variable has its type; the ancestors of the commits form an order.*)
TypeOK == RepoOK /\ DiskOK /\ MemoryOK /\ OperationOK

(* What a client was told succeeded is on GitHub and stays there: the HEAD *)
(* of that moment holds the file as written and is in the history of the   *)
(* branch, whatever fails, crashes or is lost afterwards.                  *)
AckedDurable ==
  \A a \in acked : a.at \in Anc(origin) /\ commits[a.at].tree[a.path] = a.file

(* The store is the log of documents that DocumentLog specifies: each step *)
(* of hubd, of GitHub, of other writers and of the faults adds commits to  *)
(* the branch, or acknowledges a write that is in it, or does neither.     *)
Branch == [c \in Anc(origin) |-> commits[c].tree]

Log == INSTANCE DocumentLog WITH FirstTrees <- InitTrees, log <- Branch, promises <- acked

ImplementsLog == Log!Spec

(* Nobody's commit ever leaves the branch on GitHub: hubd pushes only what *)
(* fast-forwards it (the push has no --force).                             *)
OriginGrows == [][(origin \in Anc(origin)')]_vars

(* While the volume lives, HEAD only moves forward: no merge, failed or    *)
(* not, drops a local commit.                                              *)
HeadGrows == [][head # 0 /\ head' # 0 => head \in Anc(head)']_vars

(* The commit that List is served from is always one HEAD descends from.   *)
ServedInHistory == servedSHA # 0 => head # 0 /\ servedSHA \in Anc(head)

(* What the operation in progress has done so far: once HEAD is read again *)
(* its file is in HEAD and HEAD is on GitHub, whatever other writers did.  *)
Writing == req.kind \in {"apply", "delete"}

InProgress ==
  /\ pc # "down" => head # 0
  /\ pc = "merge" => fetchHead # 0
  /\ pc \in {"write", "add"} => req.kind = "apply"
  /\ pc = "rm" => req.kind = "delete" /\ req.file = Absent
  /\ pc \in {"commit", "push"} => Writing
  /\ pc \in {"fetch", "merge"} => req.kind = "poll"
  /\ pc = "add" => work[req.path] = req.file
  /\ pc = "commit" => stage[req.path] = req.file
  /\ pc \in {"push", "refresh", "read", "publish"} /\ Writing => HeadTree[req.path] = req.file
  /\ pc \in {"refresh", "read", "publish"} /\ Writing => head \in Anc(origin)

(* HEAD and origin have each a commit the other lacks. *)
Diverged == head # 0 /\ origin \notin Anc(head) /\ head \notin Anc(origin)

(* Divergence is final: no operation of hubd ends it, and from then on no  *)
(* write is acknowledged; only a new clone on an empty volume ends it.     *)
DivergedIsFinal == [][Diverged => acked' = acked /\ (head' = 0 \/ Diverged')]_vars

(* Outside a rebuild the index holds exactly the entries of servedSHA.     *)
IndexAtServed == pc # "read" /\ servedSHA # 0 => index = Entries(servedSHA)

(* Between operations the events published since the process started say   *)
(* of each document whether List returns it, except for those whose event  *)
(* was lost and that nothing has been published about since: to a panic of *)
(* broker.Publish, or to a refresh that could not read HEAD and so lost    *)
(* the snapshot that the next one is compared with.                        *)
EventsReplayPaths ==
  pc = "idle" => \A p \in DataPaths \ unsaid : p \in Listed(known) <=> p \in Listed(index)

(* Between operations git index and working tree are those of HEAD, so     *)
(* that the next request starts from the committed state.                  *)
WorkIsHead == pc = "idle" => stage = HeadTree /\ work = HeadTree

Committing == pc = "commit" /\ head' # head

(* A commit changes no path but the one its request names. *)
CommitTouchesOnlyPath ==
  [][Committing => \A p \in Paths \ {req.path} : stage[p] = HeadTree[p]]_vars

(* A write that names version n > 0 replaces version n in HEAD; naming 1   *)
(* may also create the document.                                           *)
OptimisticLock ==
  [][Committing /\ req.exp > 0 =>
       LET f == HeadTree[req.path] IN
       \/ f \in Env /\ f.ver = req.exp
       \/ f = Absent /\ req.exp = 1 /\ req.kind = "apply"]_vars

(* A version names one content of a document: of two commits in the        *)
(* history of HEAD that give it the same version, the later one has the    *)
(* same file, unless the document was deleted, or written by others,       *)
(* between them.  A client that names the version it has read thus         *)
(* replaces what it has read.                                              *)
VersionNamesContent ==
  \A d \in IF head = 0 THEN {} ELSE Anc(head) : \A c \in Anc(d), p \in Paths :
    LET f == commits[c].tree[p]
        g == commits[d].tree[p]
    IN f \in Env /\ g \in Env /\ f.ver = g.ver =>
         \/ f = g
         \/ \E e \in Anc(d) \ Anc(c) : commits[e].by = "external" \/ commits[e].tree[p] = Absent

(* The comment on Index: it maps API paths to entries "at a fixed commit". *)
(* List reads it at any time once the server listens.                      *)
ListAtFixedCommit ==
  pc # "down" /\ req.kind # "open" => \E c \in DOMAIN commits : index = Entries(c)

(* The comment on Event: it "describes an index change".  A client that    *)
(* applies the events has what List returns.                               *)
EventsReplayIndex == pc = "idle" => known = index

-----------------------------------------------------------------------------
(* Fairness.  The process runs and the git commands it starts end.  The    *)
(* ticker starts a Poll again and again, and Poll gets mu in the end       *)
(* although requests compete for it: sync.Mutex hands it to the longest    *)
(* waiter.  Neither the network fails every fetch nor the disk every read. *)
Fairness ==
  /\ WF_vars(Operation) /\ WF_vars(OpenClone) /\ WF_vars(OpenExisting)
  /\ SF_vars(PollStart) /\ SF_vars(Fetch) /\ SF_vars(IndexOne \/ IndexDone)

LiveSpec == Spec /\ Fairness

(* Every commit that reaches GitHub is served in the end, failed fetches   *)
(* and failed reads of the clone notwithstanding: List gives exactly the   *)
(* documents of a commit that descends from it.  Only a divergence, which  *)
(* is final, keeps it from being served.                                   *)
Serving(c) == servedSHA # 0 /\ c \in Anc(servedSHA) /\ index = Entries(servedSHA)

PushedIsServed ==
  \A c \in 1..(1 + MaxHubd + MaxExternal) :
    (c \in DOMAIN commits /\ c \in Anc(origin)) ~> Serving(c) \/ Diverged

(* The comment on GitStore: it "syncs a git worktree with GitHub".  Clone  *)
(* and origin are, again and again, the same commit.                       *)
StaysInSync == []<>(head = origin)
=============================================================================
