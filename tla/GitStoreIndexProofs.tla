------------------------ MODULE GitStoreIndexProofs ------------------------
(***************************************************************************)
(* Proofs about the index of GitStore and the events that announce it.     *)
(***************************************************************************)
EXTENDS GitStoreProofs

(* servedSHA is 0 until the first index of the process is built.           *)
Unserved ==
  /\ pc = "down" => servedSHA = 0
  /\ req.kind = "open" => pc \in {"refresh", "read", "publish"}
  /\ req.kind = "open" /\ pc \in {"refresh", "read"} => servedSHA = 0

ServedInv == ServedInHistory /\ Unserved

(* The steps that change servedSHA. *)
LEMMA ServedSteps ==
  ASSUME [Next]_vars, servedSHA' # servedSHA
  PROVE  IndexDone \/ Crash \/ PanicInPoll
<1>1. Operation => IndexDone \/ servedSHA' = servedSHA
  BY DEF Operation, ApplyWrite, Add, Rm, Commit, CommitNothing, Push, Fetch, AlreadyUpToDate,
     FastForward, RefreshSkip, RefreshBegin, IndexOne, PublishUpsert, PublishDelete, Publish,
     Finish, Refused, Goto, memory
<1>2. OpenClone \/ OpenExisting \/ VolumeLost \/ ExternalPush \/ ApplyStart \/ DeleteStart
        \/ PollStart \/ ReadFails \/ PanicInRequest \/ Fail \/ UNCHANGED vars => servedSHA' = servedSHA
  BY DEF OpenClone, OpenExisting, VolumeLost, ExternalPush, ApplyStart, DeleteStart, PollStart,
     ReadFails, PanicInRequest, Fail, vars, memory
<1> QED
  BY <1>1, <1>2 DEF Next

LEMMA ServedNext == Inv /\ ServedInv /\ [Next]_vars => ServedInv'
<1> SUFFICES ASSUME Inv, ServedInv, [Next]_vars PROVE ServedInv'
  OBVIOUS
<1>1. RepoOK /\ RepoStep /\ MemoryOK /\ InProgress /\ (pc # "down" => head' # 0)
  BY InvRepo DEF Inv, TypeOK
<1>2. Unserved'
  <2>1. CASE OpenClone \/ OpenExisting
    BY <2>1 DEF OpenClone, OpenExisting, Boot, NoReq, ServedInv, Unserved, memory
  <2>2. CASE ApplyStart \/ DeleteStart \/ PollStart
    BY <2>2 DEF ApplyStart, DeleteStart, PollStart, NoReq, Unserved
  <2>3. CASE Crash \/ PanicInPoll
    BY <2>3 DEF Crash, PanicInPoll, Died, NoReq, Unserved
  <2>4. CASE Fail \/ Refused
    <3>1. req.kind # "open"
      BY <2>4 DEF Fail, Refused, ServedInv, Unserved
    <3> QED
      BY <2>4, <3>1 DEF Fail, Refused, Return, NoReq, Unserved
  <2>5. CASE ReadFails \/ PanicInRequest
    BY <2>5 DEF ReadFails, PanicInRequest, Return, NoReq, ServedInv, Unserved
  <2>6. CASE RefreshSkip \/ Finish
    BY <2>6 DEF RefreshSkip, Finish, Ack, NoReq, Unserved
  <2>7. CASE ApplyWrite \/ Add \/ Rm \/ Commit \/ CommitNothing \/ Push \/ Fetch \/ AlreadyUpToDate
             \/ FastForward
    BY <2>7 DEF ApplyWrite, Add, Rm, Commit, CommitNothing, Push, Fetch, AlreadyUpToDate,
       FastForward, Goto, memory, ServedInv, Unserved
  <2>8. CASE RefreshBegin \/ IndexOne \/ IndexDone \/ PublishUpsert \/ PublishDelete
    BY <2>8 DEF RefreshBegin, IndexOne, IndexDone, PublishUpsert, PublishDelete, Publish,
       ServedInv, Unserved
  <2>9. CASE VolumeLost \/ ExternalPush \/ UNCHANGED vars
    BY <2>9 DEF VolumeLost, ExternalPush, vars, memory, ServedInv, Unserved
  <2> QED
    BY <2>1, <2>2, <2>3, <2>4, <2>5, <2>6, <2>7, <2>8, <2>9 DEF Next, Operation
<1>3. ServedInHistory'
  <2> SUFFICES ASSUME servedSHA' # 0 PROVE head' # 0 /\ servedSHA' \in Anc(head)'
    BY DEF ServedInHistory
  <2>1. CASE servedSHA' = servedSHA
    <3>1. pc # "down" /\ head # 0 /\ servedSHA \in Anc(head)
      BY <2>1 DEF ServedInv, ServedInHistory, Unserved
    <3>2. head' # 0 /\ head \in Anc(head)' /\ head' \in DOMAIN commits' /\ head \in DOMAIN commits
      BY <1>1, <3>1 DEF RepoStep, RepoOK
    <3>3. Anc(head) \subseteq commits'[head'].anc
      BY <1>1, <3>2 DEF RepoStep, RepoOK, HistoryOK, Grown, Anc
    <3> QED
      BY <2>1, <3>1, <3>2, <3>3 DEF Anc
  <2>2. CASE IndexDone
    BY <1>1, <2>2 DEF IndexDone, repo, InProgress, RepoOK, HistoryOK, Anc
  <2>3. CASE Crash \/ PanicInPoll
    BY <2>3 DEF Crash, PanicInPoll, Died
  <2> QED
    BY <2>1, <2>2, <2>3, ServedSteps
<1> QED
  BY <1>2, <1>3 DEF ServedInv

(* List is always served from a commit that HEAD descends from. *)
THEOREM ServedCorrect == Spec => []ServedInHistory
<1>1. Init => ServedInv
  BY DEF Init, ServedInv, ServedInHistory, Unserved, NoReq
<1>2. Spec => []ServedInv
  BY <1>1, ServedNext, Invariance, PTL DEF Spec
<1> QED
  BY <1>2, PTL DEF ServedInv

-----------------------------------------------------------------------------
(* While HEAD is read, the index holds part of HEAD's entries.             *)
Building == pc = "read" => \A p \in DataPaths : index[p] \in {Absent, Entries(head)[p]}

IndexInv == IndexAtServed /\ Building

LEMMA EntriesPreserved ==
  ASSUME Inv, [Next]_vars, NEW c \in DOMAIN commits
  PROVE  Entries(c)' = Entries(c)
BY Preserved DEF Entries

(* The steps that change the index or the reading of HEAD. *)
LEMMA IndexSteps ==
  ASSUME [Next]_vars,
         ~ (RefreshBegin \/ ReadFails \/ IndexOne \/ IndexDone \/ Crash \/ PanicInPoll)
  PROVE  \/ UNCHANGED <<index, servedSHA>> /\ pc' # "read"
         \/ UNCHANGED <<index, servedSHA, pc, head>>
<1>1. Operation => \/ UNCHANGED <<index, servedSHA>> /\ pc' # "read"
                   \/ UNCHANGED <<index, servedSHA, pc, head>>
  BY DEF Operation, ApplyWrite, Add, Rm, Commit, CommitNothing, Push, Fetch, AlreadyUpToDate,
     FastForward, RefreshSkip, PublishUpsert, PublishDelete, Publish, Finish, Refused, Return,
     Ack, Goto, memory, repo
<1>2. OpenClone \/ OpenExisting \/ VolumeLost \/ ExternalPush \/ ApplyStart \/ DeleteStart
        \/ PollStart \/ PanicInRequest \/ Fail \/ UNCHANGED vars
        => \/ UNCHANGED <<index, servedSHA>> /\ pc' # "read"
           \/ UNCHANGED <<index, servedSHA, pc, head>>
  BY DEF OpenClone, OpenExisting, Boot, VolumeLost, ExternalPush, ApplyStart, DeleteStart, PollStart,
     PanicInRequest, Fail, Return, vars, memory, repo
<1> QED
  BY <1>1, <1>2 DEF Next

LEMMA IndexNext ==
  ASSUME Faults \cap {"read", "blob"} = {}, Inv, IndexInv, [Next]_vars, pc = "down" => servedSHA = 0
  PROVE  IndexInv'
<1>1. (servedSHA # 0 => servedSHA \in DOMAIN commits) /\ index \in IndexType
  BY DEF Inv, TypeOK, MemoryOK
<1>2. servedSHA # 0 => \A c \in {servedSHA} : Entries(c)' = Entries(c)
  BY <1>1, EntriesPreserved
<1>3. CASE RefreshBegin
  BY <1>3 DEF RefreshBegin, IndexInv, IndexAtServed, Building, NoEntries
<1>4. CASE ReadFails
  BY <1>4 DEF ReadFails
<1>5. CASE IndexOne
  <2>1. PICK p \in ToIndex : index' = [index EXCEPT ![p] = Entries(head)[p]]
    BY <1>5 DEF IndexOne
  <2>2. UNCHANGED <<commits, head, pc>> /\ pc = "read" /\ Entries(head)' = Entries(head)
    BY <1>5 DEF IndexOne, repo, Entries
  <2> QED
    BY <1>1, <2>1, <2>2 DEF IndexInv, IndexAtServed, Building, IndexType
<1>6. CASE IndexDone
  <2>1. ToIndex = {} /\ pc = "read"
    BY <1>6 DEF IndexDone
  <2>2. \A p \in DataPaths : index[p] = Entries(head)[p]
    BY <2>1 DEF IndexInv, Building, ToIndex, Listed
  <2>3. index = Entries(head)
    BY <1>1, <2>2, EntriesOK DEF IndexType
  <2>4. index' = index /\ servedSHA' = head /\ pc' = "publish" /\ commits' = commits
    BY <1>6 DEF IndexDone, repo
  <2> QED
    BY <2>3, <2>4 DEF IndexInv, IndexAtServed, Building, Entries
<1>7. CASE Crash \/ PanicInPoll
  BY <1>7 DEF Crash, PanicInPoll, Died, IndexInv, IndexAtServed, Building
<1>8. CASE UNCHANGED <<index, servedSHA, pc, head>> /\ pc = "read"
  <2>1. head \in DOMAIN commits
    BY <1>8 DEF Inv, TypeOK, RepoOK, InProgress
  <2>2. \A c \in {head} : Entries(c)' = Entries(c)
    BY <2>1, EntriesPreserved
  <2> QED
    BY <1>8, <2>2 DEF IndexInv, IndexAtServed, Building, Entries
<1>9. CASE UNCHANGED <<index, servedSHA>> /\ pc # "read" /\ pc' # "read"
  BY <1>2, <1>9 DEF IndexInv, IndexAtServed, Building, Entries
<1>10. CASE /\ UNCHANGED <<index, servedSHA>> /\ pc = "read" /\ pc' # "read"
            /\ ~ (RefreshBegin \/ ReadFails \/ IndexOne \/ IndexDone \/ Crash \/ PanicInPoll)
  <2>1. UNCHANGED vars \/ ExternalPush
    BY <1>10 DEF Next, Operation, OpenClone, OpenExisting, VolumeLost, ApplyStart, DeleteStart, PollStart,
       Idle, ApplyWrite, Add, Rm, Commit, CommitNothing, Push, Fetch, AlreadyUpToDate, FastForward,
       RefreshSkip, PublishUpsert, PublishDelete, Finish, PanicInRequest, Refused, Fail
  <2> QED
    BY <1>10, <2>1 DEF vars, ExternalPush
<1> QED
  BY <1>3, <1>4, <1>5, <1>6, <1>7, <1>8, <1>9, <1>10, IndexSteps

(* Without read errors the index is that of servedSHA, between rebuilds.   *)
THEOREM IndexCorrect ==
  ASSUME Faults \cap {"read", "blob"} = {}
  PROVE  Spec => []IndexAtServed
<1>1. Init => IndexInv /\ ServedInv
  BY DEF Init, IndexInv, IndexAtServed, Building, ServedInv, ServedInHistory, Unserved, NoReq
<1>2. Inv /\ IndexInv /\ ServedInv /\ [Next]_vars => IndexInv'
  BY IndexNext DEF ServedInv, Unserved
<1>3. Spec => []IndexInv
  BY <1>1, <1>2, ServedNext, Invariance, PTL DEF Spec
<1> QED
  BY <1>3, PTL DEF IndexInv

-----------------------------------------------------------------------------
(* What is published adds up to the list, but for what is known to be      *)
(* lost: to the old list while the index is rebuilt, and while the         *)
(* differences are being published, old is it.                             *)
Told(list) == \A p \in DataPaths \ unsaid : known[p] # Absent <=> list[p] # Absent

Announced ==
  /\ pc \notin {"read", "publish"} => Told(index)
  /\ pc \in {"read", "publish"} => Told(old)

LEMMA AnnouncedNext ==
  ASSUME Inv, Announced, [Next]_vars
  PROVE  Announced'
<1>1. index \in IndexType /\ old \in IndexType /\ known \in IndexType /\ unsaid \subseteq DataPaths
  BY DEF Inv, TypeOK, MemoryOK
<1>2. CASE RefreshBegin \/ IndexOne \/ IndexDone
  BY <1>2 DEF RefreshBegin, IndexOne, IndexDone, Announced, Told
<1>3. CASE ReadFails
  <2>1. /\ Told(old) /\ UNCHANGED <<known, index>> /\ index = NoEntries
        /\ unsaid' = unsaid \cup Listed(old) /\ pc' \notin {"read", "publish"}
    BY <1>3 DEF ReadFails, Return, Announced
  <2> QED
    BY <2>1 DEF Announced, Told, Listed, NoEntries
<1>4. CASE PublishUpsert \/ PublishDelete
  <2>1. PICK p \in DataPaths : Publish(p)
    BY <1>4 DEF PublishUpsert, PublishDelete, Upserts, Deletes, Listed
  <2>2. pc = "publish" /\ pc' = pc
    BY <1>4, <2>1 DEF PublishUpsert, PublishDelete, Publish
  <2> QED
    BY <1>1, <2>1, <2>2 DEF Publish, Announced, Told, IndexType
<1>5. CASE Finish
  BY <1>5 DEF Finish, Ack, Announced, Told, Listed, Upserts, Deletes
<1>6. CASE PanicInRequest
  <2>1. PICK reached \in SUBSET DataPaths :
          /\ known' = [q \in DataPaths |-> IF q \in reached THEN index[q] ELSE known[q]]
          /\ unsaid' = (unsaid \cup Upserts \cup Deletes) \ reached
    BY <1>6 DEF PanicInRequest, Upserts, Deletes, Listed
  <2>2. Told(old) /\ index' = index /\ pc' \notin {"read", "publish"}
    BY <1>6 DEF PanicInRequest, Return, Announced
  <2>3. ASSUME NEW q \in DataPaths \ unsaid' PROVE known'[q] # Absent <=> index[q] # Absent
    <3>1. CASE q \in reached
      BY <2>1, <3>1
    <3>2. CASE q \notin reached
      <4>1. q \notin unsaid /\ q \notin Upserts /\ q \notin Deletes /\ known'[q] = known[q]
        BY <2>1, <2>3, <3>2
      <4> QED
        BY <2>2, <4>1 DEF Told, Upserts, Deletes, Listed
    <3> QED
      BY <3>1, <3>2
  <2> QED
    BY <2>2, <2>3 DEF Announced, Told
<1>7. CASE Crash \/ PanicInPoll
  BY <1>7 DEF Crash, PanicInPoll, Died, Announced, Told
<1>8. CASE UNCHANGED <<known, unsaid, index, old, pc>>
  BY <1>8 DEF Announced, Told
<1>9. CASE /\ UNCHANGED <<known, unsaid, index>>
           /\ pc \notin {"read", "publish"} /\ pc' \notin {"read", "publish"}
  BY <1>9 DEF Announced, Told
<1>10. CASE [Next]_vars /\ ~ (RefreshBegin \/ ReadFails \/ IndexOne \/ IndexDone \/ PublishUpsert
                             \/ PublishDelete \/ Finish \/ PanicInRequest \/ Crash \/ PanicInPoll)
  <2> DEFINE Outside == /\ UNCHANGED <<known, unsaid, index>>
                        /\ pc \notin {"read", "publish"} /\ pc' \notin {"read", "publish"}
  <2>1. OpenClone \/ OpenExisting \/ ApplyStart \/ DeleteStart \/ PollStart \/ Fail => Outside
    BY DEF OpenClone, OpenExisting, Boot, ApplyStart, DeleteStart, PollStart, Idle, Fail, Return, memory
  <2>2. ApplyWrite \/ Add \/ Rm \/ Commit \/ CommitNothing \/ Push \/ Fetch \/ AlreadyUpToDate
          \/ FastForward \/ RefreshSkip \/ Refused => Outside
    BY DEF ApplyWrite, Add, Rm, Commit, CommitNothing, Push, Fetch, AlreadyUpToDate, FastForward,
       RefreshSkip, Refused, Return, Ack, Goto, memory
  <2>3. VolumeLost \/ ExternalPush \/ UNCHANGED vars => UNCHANGED <<known, unsaid, index, old, pc>>
    BY DEF VolumeLost, ExternalPush, vars, memory
  <2> QED
    BY <1>8, <1>9, <1>10, <2>1, <2>2, <2>3 DEF Next, Operation
<1> QED
  BY <1>2, <1>3, <1>4, <1>5, <1>6, <1>7, <1>10

(* Whatever fails, panics or crashes: the events published since the       *)
(* process started say of each document whether List returns it, except    *)
(* for those whose event was lost in one of the two ways that               *)
(* EventsReplayPaths names.                                                *)
THEOREM EventsCorrect == Spec => []EventsReplayPaths
<1>1. Init => Announced
  BY DEF Init, Announced, Told
<1>2. Inv /\ Announced /\ [Next]_vars => Announced'
  BY AnnouncedNext
<1>3. Spec => []Announced
  BY <1>1, <1>2, Invariance, PTL DEF Spec
<1>4. Announced => EventsReplayPaths
  BY DEF Announced, Told, EventsReplayPaths, Listed
<1> QED
  BY <1>3, <1>4, PTL

-----------------------------------------------------------------------------
(* What clients see.  A refresh that failed leaves an empty index, but     *)
(* then servedSHA is not HEAD, and the next refresh reads HEAD again.      *)
Fresh ==
  /\ pc # "read" /\ head # 0 /\ servedSHA = head => index = Entries(head)
  /\ pc = "read" => head # servedSHA /\ \A p \in DataPaths : index[p] \in {Absent, Entries(head)[p]}
  /\ pc = "publish" => servedSHA = head

LEMMA OtherSteps ==
  ASSUME [Next]_vars,
         ~ (RefreshBegin \/ ReadFails \/ IndexOne \/ IndexDone \/ Crash \/ PanicInPoll)
  PROVE  /\ UNCHANGED <<index, servedSHA>>
         /\ pc # "read" => pc' # "read"
         /\ pc = "read" => pc' = "read" /\ head' = head
         /\ pc' = "publish" => pc = "publish" /\ head' = head
<1> DEFINE Other == /\ UNCHANGED <<index, servedSHA>>
                    /\ pc # "read" => pc' # "read"
                    /\ pc = "read" => pc' = "read" /\ head' = head
                    /\ pc' = "publish" => pc = "publish" /\ head' = head
<1>1. CASE ApplyWrite \/ Add \/ Rm \/ Commit \/ CommitNothing \/ Push \/ Fetch \/ AlreadyUpToDate
           \/ FastForward
  BY <1>1 DEF ApplyWrite, Add, Rm, Commit, CommitNothing, Push, Fetch, AlreadyUpToDate, FastForward,
     Goto, memory
<1>2. CASE RefreshSkip \/ PublishUpsert \/ PublishDelete \/ Finish \/ PanicInRequest \/ Refused
  BY <1>2 DEF RefreshSkip, PublishUpsert, PublishDelete, Publish, Finish, PanicInRequest, Refused, Return,
     Ack, memory, repo
<1>3. CASE OpenClone \/ OpenExisting \/ VolumeLost \/ ExternalPush \/ ApplyStart \/ DeleteStart
           \/ PollStart \/ UNCHANGED vars
  BY <1>3 DEF OpenClone, OpenExisting, Boot, VolumeLost, ExternalPush, ApplyStart, DeleteStart, PollStart,
     Idle, vars, memory, repo
<1>4. CASE Fail
  BY <1>4 DEF Fail, Return, memory
<1> QED
  BY <1>1, <1>2, <1>3, <1>4 DEF Next, Operation

LEMMA FreshNext ==
  ASSUME "blob" \notin Faults, Inv, ServedInv, Fresh, [Next]_vars
  PROVE  Fresh'
<1>1. /\ RepoOK /\ RepoStep /\ InProgress /\ index \in IndexType
      /\ head # 0 => head \in DOMAIN commits
  BY InvRepo DEF Inv, TypeOK, MemoryOK, RepoOK
<1>2. head # 0 => \A c \in {head} : Entries(c)' = Entries(c)
  BY <1>1, EntriesPreserved
<1>3. CASE RefreshBegin
  BY <1>3 DEF RefreshBegin, Fresh, NoEntries, repo
<1>4. CASE ReadFails
  BY <1>4 DEF ReadFails, Return, Fresh, repo
<1>5. CASE IndexOne
  <2>1. PICK p \in ToIndex : index' = [index EXCEPT ![p] = Entries(head)[p]]
    BY <1>5 DEF IndexOne
  <2>2. UNCHANGED <<commits, head, servedSHA, pc>> /\ pc = "read" /\ Entries(head)' = Entries(head)
    BY <1>5 DEF IndexOne, repo, Entries
  <2> QED
    BY <1>1, <2>1, <2>2 DEF Fresh, IndexType
<1>6. CASE IndexDone
  <2>1. ToIndex = {} /\ pc = "read"
    BY <1>6 DEF IndexDone
  <2>2. \A p \in DataPaths : index[p] = Entries(head)[p]
    BY <2>1 DEF Fresh, ToIndex, Listed
  <2>3. index = Entries(head)
    BY <1>1, <2>2, EntriesOK DEF IndexType
  <2>4. index' = index /\ servedSHA' = head /\ head' = head /\ pc' = "publish" /\ commits' = commits
    BY <1>6 DEF IndexDone, repo
  <2> QED
    BY <2>3, <2>4 DEF Fresh, Entries
<1>7. CASE Crash \/ PanicInPoll
  <2>1. index' = NoEntries /\ servedSHA' = 0 /\ pc' = "down"
    BY <1>7 DEF Crash, PanicInPoll, Died
  <2> QED
    BY <2>1 DEF Fresh
<1>8. CASE ~ (RefreshBegin \/ ReadFails \/ IndexOne \/ IndexDone \/ Crash \/ PanicInPoll)
  <2>1. /\ UNCHANGED <<index, servedSHA>>
        /\ pc # "read" => pc' # "read"
        /\ pc = "read" => pc' = "read" /\ head' = head
        /\ pc' = "publish" => pc = "publish" /\ head' = head
    BY <1>8, OtherSteps
  <2>2. ASSUME head' # 0, servedSHA' = head' PROVE head' = head
    <3>1. head # 0 /\ head' \in Anc(head)
      BY <2>1, <2>2 DEF ServedInv, ServedInHistory
    <3>2. head \in commits'[head'].anc /\ head' \in DOMAIN commits'
      BY <1>1, <2>2, <3>1 DEF RepoStep, RepoOK, Anc
    <3>3. head \in 1..head' /\ head' \in 1..head
      BY <1>1, <3>1, <3>2 DEF RepoStep, RepoOK, HistoryOK, Anc
    <3> QED
      BY <3>3
  <2>3. head' # 0 /\ head' = head => Entries(head)' = Entries(head)
    BY <1>2 DEF Entries
  <2>4. pc' # "read" /\ head' # 0 /\ servedSHA' = head' => index' = Entries(head)'
    BY <2>1, <2>2, <2>3 DEF Fresh
  <2>5. pc' = "read" => head' # servedSHA' /\ \A p \in DataPaths : index'[p] \in {Absent, (Entries(head)')[p]}
    <3> HAVE pc' = "read"
    <3>1. pc = "read" /\ head' = head /\ head # 0
      BY <1>1, <2>1 DEF InProgress
    <3> QED
      BY <2>1, <2>3, <3>1 DEF Fresh
  <2> QED
    BY <2>1, <2>4, <2>5 DEF Fresh
<1> QED
  BY <1>3, <1>4, <1>5, <1>6, <1>7, <1>8

LEMMA FreshCorrect ==
  ASSUME "blob" \notin Faults
  PROVE  Spec => [](Inv /\ ServedInv /\ Fresh)
<1>1. Init => ServedInv /\ Fresh
  BY DEF Init, Fresh, ServedInv, ServedInHistory, Unserved, NoReq
<1>2. Inv /\ ServedInv /\ Fresh /\ [Next]_vars => Fresh'
  BY FreshNext
<1> QED
  BY <1>1, <1>2, ServedNext, Invariance, PTL DEF Spec

(* A client that was told its write or delete succeeded finds it in the    *)
(* next list.                                                              *)
ReadYourWrites ==
  [][\A a \in acked' \ acked : a.path \in DataPaths => index'[a.path] = a.file]_vars

(* Unless a blob that cannot be read ends the loop of a refresh, a write   *)
(* is acknowledged when the index holds exactly the entries of HEAD, with  *)
(* the file just written, even if earlier refreshes have failed and left   *)
(* the index empty.                                                        *)
THEOREM WritesAreRead ==
  ASSUME "blob" \notin Faults
  PROVE  Spec => ReadYourWrites
<1> DEFINE Seen == \A a \in acked' \ acked : a.path \in DataPaths => index'[a.path] = a.file
<1>1. Inv /\ FileOK /\ Fresh /\ [Next]_vars => [Seen]_vars
  <2> SUFFICES ASSUME Inv, FileOK, Fresh, [Next]_vars, NEW a \in acked' \ acked, a.path \in DataPaths
               PROVE  index'[a.path] = a.file
    OBVIOUS
  <2>1. (RefreshSkip \/ Finish) /\ Writing
    BY AckSteps
  <2>2. Ack /\ index' = index /\ pc \in {"refresh", "publish"}
    BY <2>1 DEF RefreshSkip, Finish, memory
  <2>3. a.path = req.path /\ a.file = req.file
    BY <2>1, <2>2 DEF Ack, Writing
  <2>4. head # 0 /\ HeadTree[req.path] = req.file /\ WholeFile(req.file)
    BY <2>1, <2>2 DEF Inv, InProgress, FileOK
  <2>5. index = Entries(head)
    BY <2>1, <2>4 DEF RefreshSkip, Finish, Fresh
  <2>6. index[req.path] = IF req.file \in Env THEN req.file ELSE Absent
    BY <2>3, <2>4, <2>5 DEF Entries, HeadTree
  <2> QED
    BY <2>2, <2>3, <2>4, <2>6 DEF WholeFile
<1> QED
  BY <1>1, FreshCorrect, FileCorrect, PTL DEF Spec, ReadYourWrites

(* The commit that is served only moves forward in the history, as long as *)
(* the process runs.                                                       *)
ServedGrows == [][servedSHA # 0 /\ servedSHA' # 0 => servedSHA \in Anc(servedSHA)']_vars

(* Under all faults: no refresh, failed poll or failed write takes clients *)
(* back to an earlier commit.                                              *)
THEOREM ServedOnlyForward == Spec => ServedGrows
<1>1. Inv /\ ServedInv /\ [Next]_vars => [servedSHA # 0 /\ servedSHA' # 0 => servedSHA \in Anc(servedSHA)']_vars
  <2> SUFFICES ASSUME Inv, ServedInv, [Next]_vars, servedSHA # 0, servedSHA' # 0
               PROVE  servedSHA \in Anc(servedSHA)'
    OBVIOUS
  <2>1. servedSHA \in DOMAIN commits /\ RepoOK
    BY DEF Inv, TypeOK, MemoryOK
  <2>2. CASE servedSHA' = servedSHA
    BY <2>1, <2>2, Preserved DEF RepoOK, HistoryOK, Anc
  <2>3. CASE IndexDone
    BY <2>3 DEF IndexDone, ServedInv, ServedInHistory, Anc, repo
  <2>4. CASE Crash \/ PanicInPoll
    BY <2>4 DEF Crash, PanicInPoll, Died
  <2> QED
    BY <2>2, <2>3, <2>4, ServedSteps
<1>2. Init => ServedInv
  BY DEF Init, ServedInv, ServedInHistory, Unserved, NoReq
<1> QED
  BY <1>1, <1>2, ServedNext, Invariance, PTL DEF Spec, ServedGrows

-----------------------------------------------------------------------------
(* An operation holds GitStore.mu until it is over: each of its steps      *)
(* brings it nearer to its end.                                            *)
Busy == pc \in Steps

Order == [s \in Steps |-> CASE s \in {"write", "fetch"}     -> 1
                            [] s \in {"add", "rm", "merge"} -> 2
                            [] s = "commit"                 -> 3
                            [] s = "push"                   -> 4
                            [] s = "refresh"                -> 5
                            [] s = "read"                   -> 6
                            [] s = "publish"                -> 7]

(* The documents the loops of a refresh have still to go through.          *)
Remaining == IF pc = "read" THEN ToIndex ELSE IF pc = "publish" THEN Upserts \cup Deletes ELSE {}

OthersOnly == UNCHANGED <<head, fetchHead, disk, memory, pc, req, acked>>

(* An operation in progress ends, or goes on to a later call, or is in a   *)
(* loop with less to go through than before; or it does nothing, somebody  *)
(* else pushes.                                                            *)
Advance ==
  Busy => \/ pc' \in {"idle", "down"}
          \/ pc' \in Steps /\ Order[pc'] > Order[pc]
          \/ pc' = pc /\ Remaining' \subseteq Remaining /\ Remaining' # Remaining
          \/ Remaining' = Remaining /\ OthersOnly

OperationsAdvance == [][Advance]_vars

LEMMA LoopStep ==
  ASSUME Inv, IndexOne \/ PublishUpsert \/ PublishDelete
  PROVE  pc' = pc /\ Remaining' \subseteq Remaining /\ Remaining' # Remaining
<1>1. index \in IndexType /\ old \in IndexType
  BY DEF Inv, TypeOK, MemoryOK
<1>2. CASE IndexOne
  <2>1. PICK p \in ToIndex : index' = [index EXCEPT ![p] = Entries(head)[p]]
    BY <1>2 DEF IndexOne
  <2>2. /\ UNCHANGED <<commits, head, pc>> /\ pc = "read" /\ p \in DataPaths
        /\ Entries(head)[p] # Absent
    BY <1>2, <2>1 DEF IndexOne, repo, ToIndex, Listed
  <2>3. Entries(head)' = Entries(head)
    BY <2>2 DEF Entries
  <2>4. ToIndex' \subseteq ToIndex /\ p \notin ToIndex'
    BY <1>1, <2>1, <2>2, <2>3 DEF ToIndex, Listed, IndexType
  <2> QED
    BY <2>1, <2>2, <2>4 DEF Remaining
<1>3. CASE PublishUpsert \/ PublishDelete
  <2>1. PICK p \in Upserts \cup Deletes : Publish(p)
    BY <1>3 DEF PublishUpsert, PublishDelete
  <2>2. /\ old' = [old EXCEPT ![p] = index[p]] /\ UNCHANGED <<index, pc>>
        /\ pc = "publish" /\ p \in DataPaths
    BY <1>3, <2>1 DEF PublishUpsert, PublishDelete, Publish, Upserts, Deletes, Listed
  <2>3. Upserts' \cup Deletes' \subseteq Upserts \cup Deletes /\ p \notin Upserts' \cup Deletes'
    BY <1>1, <2>2 DEF Upserts, Deletes, Listed, IndexType
  <2> QED
    BY <2>1, <2>2, <2>3 DEF Remaining
<1> QED
  BY <1>2, <1>3

(* However many documents there are and whatever fails, no operation goes  *)
(* round in circles: the lock is handed on as long as each call returns.   *)
THEOREM OperationsEnd == Spec => OperationsAdvance
<1>1. Inv /\ [Next]_vars => [Advance]_vars
  <2> SUFFICES ASSUME Inv, Next, Busy, pc' \notin {"idle", "down"}
               PROVE  \/ pc' \in Steps /\ Order[pc'] > Order[pc]
                      \/ pc' = pc /\ Remaining' \subseteq Remaining /\ Remaining' # Remaining
                      \/ Remaining' = Remaining /\ OthersOnly
    BY DEF Advance
  <2>1. CASE IndexOne \/ PublishUpsert \/ PublishDelete
    BY <2>1, LoopStep
  <2>2. CASE ApplyWrite \/ Add \/ Rm \/ Commit \/ CommitNothing \/ Push \/ Fetch \/ AlreadyUpToDate
             \/ FastForward
    BY <2>2 DEF ApplyWrite, Add, Rm, Commit, CommitNothing, Push, Fetch, AlreadyUpToDate, FastForward,
       Goto, Order, Steps
  <2>3. CASE RefreshBegin \/ IndexDone
    BY <2>3 DEF RefreshBegin, IndexDone, Order, Steps
  <2>4. CASE RefreshSkip \/ Finish \/ Refused \/ ReadFails \/ PanicInRequest \/ PanicInPoll \/ Fail \/ Crash
    BY <2>4 DEF RefreshSkip, Finish, Refused, ReadFails, PanicInRequest, PanicInPoll, Fail, Crash, Died,
       Return, Ack
  <2>5. CASE OpenClone \/ OpenExisting \/ VolumeLost \/ ApplyStart \/ DeleteStart \/ PollStart
    BY <2>5 DEF OpenClone, OpenExisting, VolumeLost, ApplyStart, DeleteStart, PollStart, Idle, Busy, Steps
  <2>6. CASE ExternalPush
    <3>1. OthersOnly /\ Grown
      BY <2>6, InvRepo DEF ExternalPush, OthersOnly, RepoStep
    <3>2. head \in DOMAIN commits
      BY DEF Inv, TypeOK, RepoOK, InProgress, Busy, Steps
    <3>3. Entries(head)' = Entries(head)
      BY <3>1, <3>2 DEF Entries, OthersOnly, Grown
    <3>4. index' = index /\ old' = old /\ pc' = pc
      BY <3>1 DEF OthersOnly, memory
    <3>5. ToIndex' = ToIndex /\ Upserts' = Upserts /\ Deletes' = Deletes
      BY <3>3, <3>4 DEF ToIndex, Upserts, Deletes, Listed
    <3> QED
      BY <3>1, <3>4, <3>5 DEF Remaining
  <2> QED
    BY <2>1, <2>2, <2>3, <2>4, <2>5, <2>6 DEF Next, Operation
<1> QED
  BY <1>1, Invariance, PTL DEF Spec, OperationsAdvance
=============================================================================
