# SealHub in TLA+

SealHub is a secrets and configuration hub on top of a git repository. `hubd` keeps a
clone of a data repository on GitHub, serves its files as documents over HTTP, turns
writes into commits that it pushes, and streams change events; the `hub` command line and
a Kubernetes operator (`HubPull`) are its clients. This directory holds TLA+
specifications of the parts of SealHub whose correctness depends on ordering, failure and
concurrency, the configurations that model-check them, and proofs of their main theorems.

## 1. The system

### Components

| component | source | state | operations | talks to |
|---|---|---|---|---|
| document store | `pkg/store` | the clone (HEAD, git index, working tree), `index`, `servedSHA`, `ready` | `OpenOrClone`, `Poll`, `Apply`, `Delete`, `GetDocument`, `List`, `refreshIndexLocked` | git (child processes), GitHub, the broker |
| change broker | `pkg/changes` | `revision`, `history`, `subs` | `Publish`, `Subscribe`, `Unsubscribe`, `Since`, `Revision` | channels of the stream requests |
| HTTP API | `pkg/api` | none of its own; requests in progress | documents (GET, PUT, DELETE), list, changes (stream and poll), auth | store, broker, access control |
| process | `cmd/hubd` | the poll ticker | start, poll, reload of the access lists, shutdown | store, API |
| access control | `pkg/auth` | the token list and the issuer rules in force | `LoadTokensYAML`, `LoadIssuersYAML`, `AuthenticateBearer`, `Authorize`, the exchange of ID tokens | files under `system/` in the store |
| key ring | `pkg/crypto` | keys, the first encrypts | `Encrypt`, `Decrypt` | store |
| API client | `pkg/client` | the buffer of `Watch` | `Get`, `List`, `Apply`, `Delete`, `Watch` | HTTP API |
| operator | `operator/` | informer caches, a cancel function per watched `HubPull` | `Reconcile`, `WatchManager.Sync` | API client, the Kubernetes API server |
| Pocket ID backup | `internal/cli/pocket` | none; it copies files of another program | `Backup`, `Restore` | API client, compose, SQLite |
| command line, configuration, scripts | `cmd/hub`, `pkg/config`, `hack/`, `deploy/` | none that lasts | | |

### How they interact

`GitStore.mu` serialises `Apply`, `Delete`, `Poll`, `GetDocument` and `ReadSystemFile`.
Everything an operation does, network included, happens with the mutex held. `List` does not take
it: it reads `gs.index`, a pointer that `refreshIndexLocked` replaces. Events are published by
`refreshIndexLocked`, so `Broker.Publish` has one caller at a time, while `Since`, `Subscribe`,
`Unsubscribe` and `Revision` are called by requests at any moment. `hubd` runs a poll at every
tick; when a poll succeeds it reloads the access lists from the working tree, one file after the
other; every GET of the providers reloads the issuers as well. Requests read the lists under the
Engine's own lock.

The operator and the command line are separate programs. They see the store only through
`pkg/client`: single requests, and `Watch`, which cuts the body of a changes stream into frames. The
operator writes Kubernetes objects under optimistic concurrency; the Pocket ID commands stop a
service, copy its files to two documents or back, and start it again.

### What is hard

* *Failure in the middle of an operation.* A write is five external effects in a row: write the
  file, `git add`, `git commit`, `git push`, refresh. Each can fail, be killed with the request
  (`exec.CommandContext`), be carried out without its answer arriving, or be followed by the end
  of the process, and no error path undoes the effects before it.
* *Other writers.* Anyone may push to the repository, and a push or a fast-forward is refused
  when histories diverge.
* *The lock-free readers.* `List`, and the steps of the broker outside its lock.
* *Restarts*, with the same clone or (the manifest mounts an `emptyDir`) with none; clients keep
  their cursors across them, and API tokens stay valid.
* *Bounds*: the history of 512 events, the buffer of 32 of each stream.
* *Lists that change under a request*: a principal is authenticated with one token list and each of
  its documents is decided on with the list of that moment.
* *Caches*: the operator reads the HubPull and the target from informers that lag behind.
* *Two writes that belong together*: two documents of a backup, the files of a restore, the target
  and the status of a HubPull. Each can fail or be overtaken between the two.

`PROJECT.json` lists each hazard at its line.

### What makes each component correct

* Store: an acknowledged write is on GitHub and stays there; nobody's commit is lost; the version
  check protects what is committed; the index is that of a commit; events add up to the documents
  listed; what is pushed is served in the end.
* Broker and changes API: the history has no hole; a stream is ordered and misses, in its replay and
  after it, only what the code says it may; the publisher, who holds the store's lock,
  never waits; a poller misses nothing.
* Access control: the token list never goes back; a grant rests on one record or rule that allows the action
  and covers the document; only the bootstrap token writes system documents; what the files hold for good
  is in force in the end.
* Operator: nobody's change of the target is overwritten unseen, the reported version is one that
  was applied, and the target converges to the document. Client: frames are delivered once, in
  order, however the bytes are cut.
* Key ring: what was encrypted under a key can be read while the key is in the ring.
* Backup: it holds all that was committed, its two documents are of one backup, a restore leaves
  the database they hold and their `.env` up to the white space around it, and the service that was stopped is started again.

## 2. Modules

| module | what it is |
|---|---|
| `GitStore` | `pkg/store`, with models of the clone, of GitHub and of the git commands it runs |
| `DocumentLog` | what hubd promises of documents; `GitStore` implements it |
| `ChangeStream` | `pkg/changes` and the changes endpoint of `pkg/api` |
| `AccessLists` | `pkg/auth`, the handlers that ask it, the reload in `cmd/hubd`, `hub token create` |
| `HubPull` | the operator's `Reconcile`, with models of informers and of the API server |
| `PullWatch` | `Client.Watch` of `pkg/client` and the operator's `WatchManager` |
| `PocketBackup` | `hub pocket backup` and `restore`, with models of compose, SQLite and the service; the key ring |
| `MC...` | small instances of each for TLC |
| `GitStoreProofs` | durability, histories, the refinement, torn files |
| `GitStoreIndexProofs` | the index, the events, what is served, the progress of operations |
| `GitStoreVersionProofs` | the working tree, versions and the optimistic lock when only the network fails |
| `ChangeStreamProofs`, `AccessListsProofs`, `HubPullProofs`, `PullWatchProofs`, `PocketBackupProofs` | the proofs about the other modules |

A definition whose name ends in `_` and a word (`Push_Unchecked`) is a seeded fault: the definition it
is named after with a mistake that a programmer could make. No specification uses one; each shows
that some property would notice the mistake.

### GitStore

`commits` is the set of all commits ever made, as a sequence of records with their ancestors, tree
and author; `origin` is the branch on GitHub. `head`, `fetchHead`, `stage` (the git index), `work`
(the working tree) and `gitLock` (`.git/index.lock`, left behind by a killed git) are the clone;
they survive the process. `index`, `servedSHA` and `old` are the memory of `GitStore`. `known` is what a
client that applies all the events published since the start would hold, `unsaid` the paths
whose last event was lost, and `acked` what clients were told succeeded; these three only observe.

The mutex admits one operation at a time: `req` is the operation that holds it, `pc` the call it
makes next. `Apply` is `ApplyStart` (version check, envelope), `ApplyWrite`, `Add`, `Commit` or
`CommitNothing` ("nothing to commit"), `Push`; `Delete` is `DeleteStart`, `Rm`, `Commit`, `Push`;
`Poll` is `PollStart`, `Fetch`, `FastForward` or `AlreadyUpToDate`; `OpenOrClone` is `OpenClone` or
`OpenExisting`. All continue with `refreshIndexLocked`: `RefreshSkip` when HEAD is already served,
or else `RefreshBegin` (snapshot the old index, put an empty one in its place), `IndexOne` for each
file, `IndexDone` (servedSHA), `PublishUpsert`, `PublishDelete`, `Finish`. `broker.Publish` may panic
(see `ChangeStream`): `net/http` recovers that in a request, with servedSHA set and the remaining events
lost (`PanicInRequest`), and nothing does in the poll loop (`PanicInPoll`, `Died`). `ExternalPush` may come
between any two steps, and so may the end of the process.

A call that cannot be carried out is `Refused`: `git add` and `git commit` under a stale
`index.lock`, `git rm` of a modified file, a push that does not fast-forward, a merge that is not
a fast-forward or would overwrite a modified file. `Apply` takes any error
of reading its file for a file that is not there (`Found`, fault `"lookup"`; no run has it: it breaks `OptimisticLock` and
`VersionNamesContent` at once, and what else is proved of `GitStore` holds with it). Besides, a step named in `Faults` may `Fail`
for reasons outside the model, with one of three residues: nothing was done, all of it was
done (`Carried`: GitHub took the push and its answer was lost), or part of it (`CutShort`: the file
truncated by `WriteFile`, working files changed but not the git index, `index.lock` left). `Crash`
has the same residues and forgets memory; `VolumeLost` removes the clone.

A file is its version and the rest of the envelope, or `Garbage` (it does not parse). Encryption,
labels, owners and the text of envelopes are abstracted. The git commands are those of git 2: a fast-forward
updates only the paths that differ between the two commits and refuses to when one is modified;
`git commit` commits the whole git index; "nothing to commit" is said of a clean tree only.
`WriteFile`'s truncated file parses as an envelope whose fields are all zero, as an empty YAML
document does for `ParseEnvelope`; hence `Truncated`.

`DocumentLog` has a log of trees that only grows and a set of promises, each of which is in a commit of
the log for good. `GitStore` implements it (`ImplementsLog`) with `Branch`, the trees of the commits in
the history of `origin`, for the log and `acked` for the promises.

### ChangeStream

`Publish` has three parts: the revision is incremented (atomic, outside the lock), the event enters
the history and the subscribers are copied (under the lock), the event is sent to each copied
channel, or dropped when its buffer is full (outside the lock). A stream request reads the history
(`Replay`), then subscribes (`Subscribe`), then writes what its channel brings (`Receive`) until
its client leaves (`Unsubscribe`, which closes the channel). A poll reads the events after its cursor
(`PollSince`), then the revision that becomes its next cursor (`PollRevision`). A send on a closed
channel panics: in a request `net/http` recovers it and the fan-out ends; in the poll loop the
process ends. `Restart` makes a new broker, whose revisions start at 0; streams are cut, pollers keep
their cursors.

The filter of `Since` selects the prefix itself and what is below it; the filter of the stream is
a string prefix. `Under` and `Begins` are these two sets of paths.

`missed`, `excused` and `spent` only observe: which revisions a stream and a poller need not be given
(and why, at `StreamMissesOnly` and `PollMissesOnly`), and how many events earlier processes have published.

### AccessLists

`past` is every content that `system/tokens.yaml` and `system/issuers.yaml` have had in the working
tree; a content is named by its place there, so that "older" has a meaning. `loaded` is the Engine;
`reload` is `ReloadSystemAuth` on its way through the two files (`PollOK`, then `Read` and `Load` for each: the store's lock and
the Engine's are taken one after the other, never together). `ProvidersRead` and `ProvidersLoad` are
the same two steps of a providers request. A file that is missing or does not parse leaves the list in
force. `TokenCreate` replaces the tokens by a list of one record, as `hub token create` does.

A request authenticates (`Authenticate`), keeps its principal, and is decided on (`Decide`); a list or a
stream is decided on document by document. `AuthenticateBearer`, `AuthorizeToken`,
`AuthorizeClaims` and `PathMatch` are `pkg/auth`'s, with the quirks of the code: the first record with
the principal's id that does not allow the action ends the search, the rules of all issuers are
tried whoever issued the token, a pattern matches with and without `data/`. A path is the sequence of its
segments; a secret is a value, so bcrypt and signatures are equality. `floor` only observes.

`docs/DESIGN.md:11` says that system documents are not exposed by the document API unless to an admin. The
handlers guard PUT only (`server.go:177`): a service token or an issuer's rule whose paths cover `system/` reads and
deletes such documents, and the model grants it. `GrantRestsOnFreshRecord` says what does hold: a grant rests on one
record or rule of a list that covers the method and the path, also for system documents, and a PUT of these is
of the bootstrap token. `hub token create` writes a list of one record, so earlier tokens are refused after the next reload,
although `docs/DEPLOY-HOMELAB.md:40-42` has the operator mint a new token first and revoke the old one later.

### HubPull and PullWatch

`HubPull` has the document, the HubPull and the target as they are, and for each operator
process (`inst`) its two caches and what its reconcile has read. A copy carries whether the object
is still the same, which is all that a comparison of resource versions tells. `Begin`, `GetDocument`,
`GetTarget`, `Write` or `Refused`, `UpdateStatus` or `StatusLost` are `Reconcile`. Each call may `Fail`, and the
reconcile is due again; after a success it is due again when the refresh interval is positive (`Requeue`).
`Unrefreshed` are the generations whose interval is "0s" or negative, for which controller-runtime asks for no
requeue: a new document or an edit of the target is never synced then. A generation stands for one spec; a HubPull that is
deleted and created anew with another interval, at the same generation, while the informer reconnects, is outside the model. `SyncPull` and `SyncTarget` are events that reach the caches; only
a new generation of the HubPull makes it due. Users change all three objects, processes stop and start.
A rendered target is the number of the document's content and the generation of the template.

In `PullWatch` a goroutine is a record in `runs`: what the hub has sent, what is on the wire, the buffer
of `Watch`, what the callback has had. `Read` brings any number of symbols, so a frame may
be cut between its two line ends, with or without an error; `Frame` takes the first frame off. `SyncOn` and
`SyncOff` are `WatchManager.Sync`, with the map `entry` that knows of a start and a cancellation but not of an end.
The callback may succeed under a cancelled context (`Reconcile` logs a failed `Status().Update` and returns nil),
and the context is looked at only between reads: a cancelled stream handles all the frames it holds.
`late` counts its reads since the cancellation, and only observes. When a stream has ended by itself its map entry
stays, so `Sync` starts no other until the watch is disabled once, although `watch_manager.go:15` says that the manager
"runs one SSE stream per HubPull when enabled". No run reports it: `CanStart` is the line itself.

### PocketBackup

The host is `svc`, `env` (a text, and whether it is without white space around it), `main` (the main file of the database, as the set of its
transactions, or torn, or missing) and `wal` (what is committed but only in the write-ahead log).
`hub` holds the two documents: a value, the backup it is from, and the key that the `.env` document is
encrypted with. Each running command is a record with its next call: `readenv`, `stop`, `snapshot`, `applyenv`,
`applydb` of a backup, `getenv`, `getdb`, `stop`, `writeenv`, `remove`, `truncate`, `writedb` of a restore, and `start`, the
deferred start. A call fails with or without its effect (`Fail`, `AppliedUnheard`: hubd has stored a
document and nobody heard), a command is killed anywhere, a stop may leave a log (`clean`), a copy of a file in
use may be torn, `os.WriteFile` truncates first. A restore writes the `.env` with the white space around its text
trimmed (`Trimmed`), and goes on when it cannot remove the log (`Remove`, `kept`). `Rotate` gives the key ring a new first key and drops the
oldest.

`disturbed`, `mixed`, `kept`, `base`, `split` and `reason` only observe: whether someone else has changed what a
command works on, whether a log could not be removed, whether a document changed between the two Gets of a restore, what was
committed when a backup began, whether the two documents may be of two backups, and why a service
that is down may stay so.

## 3. Runs

Passing runs:

| run | instance | shows |
|---|---|---|
| `faults` | `GitStore`: 1 path, 2 commits by hubd and 2 by others, versions to 3; every write, add, rm, commit, push, fetch and merge may fail, `broker.Publish` panics, the process dies anywhere, the volume may be lost | `TypeOK`, `AckedDurable`, `ServedInHistory`, `IndexAtServed`, `HeadGrows`, `DivergedIsFinal`, `ImplementsLog` |
| `network` | `GitStore`: 2 documents, 2 + 1 commits, versions to 3, expected versions 0 to 2; pushes and fetches fail or lose their answer, reads of the clone fail, `broker.Publish` panics | `EventsReplayPaths`, `WorkIsHead`, `VersionNamesContent`, `CommitTouchesOnlyPath`, `OptimisticLock`, `PushedIsServed` |
| `stream` | `ChangeStream`: 2 streams of which one may leave, a poller, 2 paths that the two filters tell apart, 3 events, cursors 0 and 1, a history of 2, buffers of 1, restarts | `TypeOK`, `HistoryContiguous`, `StreamOrdered`, `StreamMissesOnly`, `PollMissesOnly`, `PublisherNotBlocked` |
| `access` | `AccessLists`: token lists with two records of one id, two issuer lists, a created token, a document and the tokens file; 2 contents for each file, a request, a providers request, restarts | `TypeOK`, `TokensNeverGoBack`, `GrantRestsOnFreshRecord`, `SettledInForce` |
| `reconcile` | `HubPull`: one operator process that stops and starts, 2 contents of the document, 2 generations of which the first has an interval of zero, an edit of the target by others | `TypeOK`, `ObservedWasApplied`, `OverwritesWhatItRead`, `NeverBackAlone`, `Converges` |
| `watch` | `PullWatch`: 2 documents, 2 goroutines, 3 events in all | `TypeOK`, `FramesOnce`, `OneStream`, `LittleAfterCancel`, `SentIsHandled`, `UnwantedEnds` |
| `pocket` | `PocketBackup`: 2 commands at a time, a transaction, an edit of `.env`, 2 keys and 2 rotations | `TypeOK`, `PairsAreExplained`, `ReadableWhileKept`, `DownHasReason`, `BackupHasAll`, `RestoreIsExact` |

Runs that find a disagreement between the code and what the repository says of it:

| run | property | what happens |
|---|---|---|
| `wedge` | `StaysInSync` | hubd commits, another writer pushes first, hubd's push is refused. The local commit stays, so no later push or fast-forward can succeed. `DivergedIsFinal` is the other side of this: it holds |
| `lock_bypass` | `OptimisticLock` | a write fails at `git commit`; its file, version 2, stays in the working tree while HEAD has version 1. A request that names version 2 is accepted, and version 3 is committed over version 1 |
| `partial_list` | `ListAtFixedCommit` | `List` during a refresh returns part of the documents |
| `update_event` | `EventsReplayIndex` | a new version of a document is in the index but no event says so |
| `panic` | `LeaverHarmless` | `Unsubscribe` closes the channel between `Publish`'s copy of the subscribers and its send. In a request the rest of the fan-out is lost, and with it the events still to be published: `unsaid` of `GitStore` |

Several passing properties say what the code loses, and that it loses nothing else.
`StreamMissesOnly`: of the history a stream misses, in its replay, what its cursor had reached and the paths that `Since` does not select; what
entered between its replay and its subscription; what found its buffer full, and what a panic of the publisher took along.
`EventsReplayPaths`: the events add up to the documents listed, but for the paths of a panic and of a refresh that could not read HEAD. `PollMissesOnly`: a
poller misses what was trimmed, what was published during its request (its next cursor is read after its
events), and after a restart what its old cursor hides. `PairsAreExplained`, `BackupHasAll` and
`RestoreIsExact` do the same for backups, and `NeverBackAlone` for an
operator without leader election.

### Bounds

`MaxHubd` and `MaxExternal` bound the commits, `MaxVersion` the versions. Two commits by hubd and one by another
writer are the fewest with which a commit can be refused and a later request meet what it left; a second path
tells a request's own file from one that an earlier request staged. Expected versions up to 2 let a request name the
version before, the version in HEAD and one that is not there; `lock_bypass` has 0 and 2, and no other writer. Requests that need a commit are not begun when the
bound is reached, so a run stops making commits but not polling.

`MaxEvents` counts the events of all processes: three overflow a history of two and a buffer of one, and two
streams tell "some subscriber" from "all". `MaxWrites`: two contents of each file let a load be behind,
and lists that differ in what one id may do let a grant mix them. `MaxDocs`, `MaxGen`, `MaxEdits`: two contents and two
generations let a target be one or the other's old form, and one edit by others makes a copy stale. `MaxRuns` and
`MaxSent`: two goroutines let an old one overlap a new one; three events, in all streams together, let one read bring more than a
frame while the other stream has one, and leave frames in the buffer of a stream that is cancelled.
`MaxStarts`: two commands are a backup and a restore, or two of either, in all interleavings; with
`MaxEra` at two and a ring of two keys a key is dropped; the transaction and the edit make
one version of each file differ from another. The two commands are interchangeable, hence `SYMMETRY`; that run has
no liveness property.

One operator process is enough for everything but an overlap of two, which has too many states for
liveness; what is claimed of any number of processes is proved (section 4).

`ChangeStream` and `PocketBackup` really may stop: when the events are published and read, or the commands are
spent and the service is up. Their configurations do not check for deadlock; all others do.

### Fairness

`LiveSpec` of `GitStore`: the process and the git commands it starts make progress (weak fairness of
the operation's steps and of opening). The ticker fires for ever and `sync.Mutex` hands the lock
to the longest waiter once it has waited a millisecond, so a poll gets its turn among competing
requests (strong fairness of `PollStart`). A network that comes back and a disk that can be read
now and then are assumptions about the environment (strong fairness of `Fetch` and of the steps
that read HEAD); without them nothing can be served. Nothing is assumed of writers. `PushedIsServed` needs all of this.

`LiveSpec` of `ChangeStream` is fair to the publisher's own steps only: clients need never read.

`LiveSpec` of `AccessLists`: a load that has begun goes on, in the loop and in a providers request; polls do not fail for ever
(strong fairness of `PollOK`, as for the store). Requests may rest. `SettledInForce` supposes besides that hubd stays up.

`LiveSpec` of `HubPull`: informers deliver, workers run (weak); a call that is made again and again succeeds
in the end (strong, for the document, the target, the write and the status): the requeue makes it
again, whatever fails. `Converges` supposes that the HubPull with a positive interval, its document and a process are there from
some time on; earlier generations may have had no requeue.

`LiveSpec` of `PullWatch`: the goroutine goes on with what it has received, and the transport gives
up a read whose request's context is cancelled (weak; `ReadCancelled`). That the connection lasts is not
assumed, so `SentIsHandled` allows for a stream that ends, nor that a cancelled callback fails (`UnwantedEnds`).

`PocketBackup` has none: commands may be left alone at any point.

## 4. Proofs

The theorems hold for every value of the constants that satisfies the named assumptions of the
modules (the sets have the right kind of members, marks such as `Absent` differ from what they are to
be told from, bounds are naturals). All bounds and sets of processes are parameters there.

* `GitStoreProofs!Invariance` proves `Inv == TypeOK /\ InProgress /\ AckedDurable` inductive.
  `AckedDurable` alone is not: that an acknowledged write is on GitHub follows from what its
  operation did before, so `InProgress` carries that from call to call (its file is in the working
  tree, then in the git index, then in HEAD, and HEAD is in the history of origin after the push). `TypeOK`
  includes that "is an ancestor of" is reflexive, transitive and goes back in time, which is what makes
  "in the history" survive every later commit. One lemma per call states what it does to the repository and the disk,
  whether it succeeds or is a residue of a failure; one lemma per conjunct goes through the actions.
  `BranchGrows`, `CloneGrows`, `DivergenceFinal` prove the action properties `OriginGrows`,
  `HeadGrows`, `DivergedIsFinal` from it. The last needs `Fetched` (FETCH_HEAD is in the history of origin):
  otherwise a merge could join histories that have parted.
  `StoreImplementsLog` proves the refinement: `Branch` is extended by every step that
  moves `origin` and left alone by all others (`BranchGrows`' argument), and a step that acknowledges a write finds it in the branch (`Inv`).
  `AloneAhead` is the other side of `wedge`: without another writer HEAD always descends from `origin`, under all
  faults, so every push fast-forwards. It needs `Fetched` as well: a merge could otherwise leave the branch.
  `NothingTorn`: what a `WriteFile` that was cut short has left is never staged or committed, although a later operation may find it in
  the working tree. A request's own file is whole (`FileOK`), and `InProgress` has it in the working tree from `ApplyWrite` to `Add`.
* `GitStoreIndexProofs` proves `ServedInHistory`; `EventsReplayPaths`, under every fault; and `IndexAtServed` when `"read"` and `"blob"`
  are not in `Faults`. The assumptions of the latter are needed: after a read that fails, the
  index is empty and servedSHA is not; after a
  blob that cannot be read the index is incomplete (no run has this fault, `"blob"`: it is there
  for the theorems, all of which but `IndexCorrect` and `WritesAreRead` hold with it).
  `WritesAreRead`: a client that is told of a success finds its write in the next list. The invariant (`Fresh`) follows the index
  through the refresh, from the snapshot to the last file, together with the file that the operation has committed.
  `ServedOnlyForward`: the commit that is served never goes back while the process runs. `OperationsEnd`: each step of an operation ends it,
  goes to a later call (`Order`) or makes the loop's rest smaller (`Remaining`), and no other actor's step makes it larger. Liveness needs
  the fairness of section 3 on top of it and stays with TLC.
* `GitStoreVersionProofs` has the properties of run `network`. Its hypothesis `NetworkOnly` is that writing files and the local git commands do not fail and
  the process does not die; pushes, fetches and reads of the clone may fail, with or without effect, and others may push. Without it
  `OptimisticLock` is false: that is run `lock_bypass`. `Local` says what the working tree and the git index are at each call (HEAD, or HEAD with the file
  of the request), and that the request still fits HEAD (`Fits`), as nothing moves HEAD under the lock but its own commit. `WorkIsHead`,
  `CommitTouchesOnlyPath` and `OptimisticLock` follow. `VersionNamesContent` is not inductive: two commits with the same
  version are ruled out only if versions never decrease along a history, so `VersionsAscend` says of every commit and each of its ancestors that the
  version has grown, or the file is the same, or the document was deleted or others have committed in between. It is
  about all commits, HEAD's history or not, because a fast-forward may take HEAD to any commit of others.
* `ChangeStreamProofs` proves all of that module's safety. Its invariant `IInv` has the history without holes and the revision one
  ahead of it inside `Publish`; for each stream, that what is written and buffered increases, ends before the event in
  flight if that is still to be sent, and that it has, from its replay on, every event of the history but what it may lack; for each poller, that its cursor is covered. What `Since`
  returns is proved from its loop, for every history, by the least number of turns
  after which the claim would fail.
* `AccessListsProofs`: what is in force, held by the loop or held by a providers request are contents the file had, and the loop's are in order
  (`Order`). With `PathMatch` and the search of records left uninterpreted, `GrantsRestOnFreshRecords` follows from the list in force.
  `NewestStaysInForce` is the second half of `SettledInForce`: what is in force for good stays so. For the issuers it supposes that no load holds an older content:
  they have two loaders, and without that hypothesis TLC finds the older content back in force.
* `HubPullProofs`: copies marked as current are the object (`TypeInv`); while no two processes have overlapped, what a
  reconcile or a target holds is no newer than the document, and a target no newer than what a reconcile will write
  (`Alone`, `Behind`, `Fresh`). `StatusNamesAnAppliedVersion` and `OverwritesOnlyWhatItRead` hold with overlaps.
  Two more are what `Converges` rests on, for any number of overlapping instances: `AlwaysDue` (an instance that sees a HubPull with a positive interval has a reconcile to come: no failure, lost status or stale copy ends the requeues) and
  `SettledLasts` (a target in sync is only taken out of it by a change of the document, the spec or the target, once no reconcile from before the last change is left).
* `PullWatchProofs`: a goroutine other than the one in the map is cancelled; one that is cancelled reads the body at
  most once more (`Sound`), as the context is looked at before each read: what it still handles is what it then holds, whether the callback fails or not. `FramesCorrect`: the buffer and the wire together
  are, symbol for symbol, the frames still owed (`Framed`), wherever the reads have cut them. When the buffer holds a whole frame, its first blank line is
  symbols 2 and 3 (`FirstFrame`), so `Frame` takes exactly one event off both sides; when it holds none, nothing is taken. That a buffer with a blank line has a first one is
  the least number principle.
* `PocketBackupProofs`: `IInv` says of each command where it is and which documents it has
  (`Placed`), that they are of one backup or marked (`Pairs`), what a command that nothing has disturbed relies on, call by
  call (`Sound`: the service is down, `.env` is written, the log is gone or could not be removed, the base is in the content), and that the `.env` document's key is that of its
  time (`Keyed`). A step of one command leaves what the others rely on, or marks them: one lemma for each way to do so (`Set`, `Mixing`,
  `DisturbOthers`, `Stopped`).

Only model-checked: all liveness, which is out of the prover's reach (`PushedIsServed`, `PublisherNotBlocked`,
`SettledInForce`, `Converges`, `SentIsHandled`, `UnwantedEnds`). Every other property of a passing run is stated by a theorem. What
the theorems leave out: `PathMatch` and the search for a token's record are not unfolded in the proof of `AccessLists` (what they compute is
checked by TLC on the run's patterns), and `IndexCorrect` and `WritesAreRead` suppose what is said above of reads of the clone.

## 5. Not modelled

* bcrypt, JWT and AES-GCM: cryptography. `pkg/config`, argument parsing, printing, the
  credentials file of `hub`: sequential code without protocol. Shell scripts, manifests and CI.
* `List`, `Delete` and `ExchangeIDToken` of the client build a request and decode an answer. The health routes,
  status codes and JSON of `pkg/api` likewise.
* A clone that is killed halfway. The process ends with an error then; a directory
  that is half a repository makes `PlainOpen` fail or succeed depending on where git stopped.
* A git child that outlives its operation. `CombinedOutput` returns when the last holder of the
  output pipe has exited, so even a killed `git push` has had its effect, or will not have it, before the mutex
  is released; and when the process dies its container takes its children along.
* Force pushes by other writers: a `merge --ff-only` refuses them like any divergence.
* `metadata.labels`: `Apply` never sets any.
* The flags of the programs and the manifests that set them. (`deploy/operator/deployment.yaml` passes `--leader-elect=false`,
  which `operator/cmd/main.go` does not define.)
* `WatchManager` in `main`: nothing creates one there, so `PullWatch` leaves it open who calls `Sync`, and `HubPull` has no watch.
* The text of templates: a target is what it was rendered from. Key sizes, files and encodings of the key ring.

## 6. Plan

1. *Proofs*: what has to hold of the clone for a commit to be pushed again after `wedge` (a new clone), and that
   operators which overlap do no worse than alternate between contents that one of them has read.
2. *Store and composition*: the events of `GitStore` as the publisher of `ChangeStream`, with clients that combine a
   list and a stream; the access lists over the commits of `GitStore`.
3. *Operator*: two overlapping processes under liveness, with a smaller cache model.
