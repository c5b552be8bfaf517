---------------------------- MODULE PocketBackup ----------------------------
(***************************************************************************)
(* hub pocket backup and hub pocket restore (internal/cli/pocket): they    *)
(* copy the .env file and the SQLite database of a Pocket ID service to    *)
(* two documents of the hub, and back.                                     *)
(*                                                                         *)
(* A command is a process of its own that stops and starts the service     *)
(* with compose, unless told not to; commands, the service, its operator   *)
(* and other commands interleave between their calls.  The service commits *)
(* to the write-ahead log and checkpoints it into the main file, for good  *)
(* when it stops in time.  The content of a database is the set of its     *)
(* transactions.  A .env is its text, and whether Restore has trimmed it,  *)
(* or it is as somebody wrote it, with any white space around the text.    *)
(* hubd encrypts the .env document with its key ring.                      *)
(***************************************************************************)
EXTENDS Integers, FiniteSets

CONSTANTS
  Commands,   \* commands that may run at a time
  Torn,       \* a file cut short, or a copy of one in use
  Missing,    \* no such file
  Keep,       \* keys that the operator keeps in the key ring
  MaxStarts,  \* bound on the commands started
  MaxTxns,    \* bound on the transactions
  MaxEdits,   \* bound on the edits of .env
  MaxEra      \* bound on the rotations of the key ring

ASSUME BoundsAssumption ==
  MaxStarts \in Nat /\ MaxTxns \in Nat /\ MaxEdits \in Nat /\ MaxEra \in Nat /\ Keep \in Nat \ {0}
Texts == [text : 0..MaxEdits, trimmed : BOOLEAN]

ASSUME MarksAssumption ==
  /\ Torn # Missing /\ \A e \in Texts : e # Torn /\ e # Missing
  /\ \A db \in SUBSET (1..MaxTxns) : db # Torn /\ db # Missing

VARIABLES
  svc,      \* is the service up
  env,      \* the .env file
  main,     \* pocket-id.db
  wal,      \* transactions of pocket-id.db-wal that are not in the main file
  hub,      \* the two documents: what they hold, the backup they are from
  era,      \* rotations of the key ring
  cmd,      \* the commands
  counts,   \* commands started, transactions, edits of .env
  split,    \* a backup has left documents that are not a pair
  reason    \* why a service that is down may stay so: a call failed, a kill

vars == <<svc, env, main, wal, hub, era, cmd, counts, split, reason>>
files == <<env, main, wal>>

NoDoc == [val |-> Missing, by |-> 0]

(* disturbed: something else has changed the host since the command began; *)
(* mixed: its documents may be no pair; kept: a log that it could not      *)
(* remove.                                                                 *)
Idle  == [pc |-> "idle", kind |-> "backup", stop |-> FALSE, defer |-> FALSE, id |-> 0,
          env |-> NoDoc, db |-> NoDoc, base |-> {}, disturbed |-> FALSE, mixed |-> FALSE, kept |-> FALSE]

At(c, pc) == cmd[c].pc = pc
Whole(db) == db \notin {Torn, Missing}
Live      == IF Whole(main) THEN main \cup wal ELSE {}

(* The pair of an earlier backup is in the hub; the host is running or new.*)
FirstEnv == [text |-> 0, trimmed |-> FALSE]

Init ==
  /\ \/ svc = TRUE /\ env = FirstEnv /\ main = {}
     \/ svc = FALSE /\ env = Missing /\ main = Missing
  /\ hub = [env |-> [val |-> FirstEnv, by |-> 0], db |-> [val |-> {}, by |-> 0], key |-> 0, era |-> 0]
  /\ wal = {} /\ era = 0
  /\ cmd = [c \in Commands |-> Idle]
  /\ counts = [starts |-> 0, txns |-> 0, edits |-> 0]
  /\ split = FALSE /\ reason = ~svc

-----------------------------------------------------------------------------
(* The key ring: the first key encrypts, all keys decrypt.                 *)

Ring == [i \in 1..Keep |-> era + 1 - i]

(* Seeded fault: the last line of the file is taken for the primary key. *)
EncryptKey_Last == Ring[Keep]

EncryptKey    == Ring[1]
Decrypts(key) == \E i \in 1..Keep : Ring[i] = key

(* A new first key, the oldest is dropped, hubd starts with the new ring;  *)
(* no document is encrypted anew.                                          *)
Rotate ==
  /\ era < MaxEra /\ era' = era + 1
  /\ UNCHANGED <<svc, files, hub, cmd, counts, split, reason>>

-----------------------------------------------------------------------------
(* The service and its operator                                            *)

Count(k, max) == counts[k] < max /\ counts' = [counts EXCEPT ![k] = @ + 1]

(* Something else changes the host while commands run. *)
Disturbed(c) == IF At(c, "idle") THEN cmd[c] ELSE [cmd[c] EXCEPT !.disturbed = TRUE]
Disturb      == cmd' = [c \in Commands |-> Disturbed(c)]

Transaction ==
  /\ svc /\ Whole(main) /\ Count("txns", MaxTxns)
  /\ wal' = wal \cup {counts'.txns}
  /\ UNCHANGED <<svc, env, main, hub, era, cmd, split, reason>>

Checkpointed == main' = (IF Whole(main) THEN main \cup wal ELSE main) /\ wal' = {}

Checkpoint ==
  /\ svc /\ Whole(main) /\ wal # {} /\ Checkpointed
  /\ UNCHANGED <<svc, env, hub, era, cmd, counts, split, reason>>

EditEnv ==
  /\ env # Missing /\ Count("edits", MaxEdits)
  /\ env' = [text |-> counts'.edits, trimmed |-> FALSE]
  /\ Disturb
  /\ UNCHANGED <<svc, main, wal, hub, era, split, reason>>

(* A service without a database makes one. *)
ComesUp ==
  /\ svc' = TRUE /\ reason' = FALSE
  /\ main' = IF main = Missing THEN {} ELSE main
  /\ UNCHANGED <<env, wal>>

StartByHand ==
  /\ ~svc /\ env # Missing
  /\ ComesUp /\ Disturb
  /\ UNCHANGED <<hub, era, counts, split>>

-----------------------------------------------------------------------------
(* Commands                                                                *)

Set(c, r)  == cmd' = [cmd EXCEPT ![c] = r]
Goto(c, pc) == Set(c, [cmd[c] EXCEPT !.pc = pc])

(* c changes the host; the other commands did not expect it. *)
DisturbOthers(c, r) == cmd' = [d \in Commands |-> IF d = c THEN r ELSE Disturbed(d)]

(* The function returns: what it deferred is run. *)
Returned(r) == IF r.defer THEN [r EXCEPT !.pc = "start"] ELSE Idle

(* Seeded fault: the service is started at the end of a success only. *)
Failed_NotDeferred(r) == Idle

(* The function returns an error. *)
Failed(r) == Returned(r)

(* A backup that finds the service down with a log can only miss the log,  *)
(* or a broken database; a restore under a service cannot be exact.        *)
Begin(c) ==
  /\ At(c, "idle") /\ Count("starts", MaxStarts)
  /\ \E kind \in {"backup", "restore"}, stop \in BOOLEAN :
       Set(c, [pc |-> IF kind = "backup" THEN "readenv" ELSE "getenv", kind |-> kind, stop |-> stop,
               defer |-> FALSE, id |-> counts'.starts, env |-> NoDoc, db |-> NoDoc, base |-> Live,
               disturbed |-> IF kind = "backup" THEN main = Torn \/ (~svc /\ wal # {}) ELSE svc /\ ~stop,
               mixed |-> FALSE, kept |-> FALSE])
  /\ UNCHANGED <<svc, files, hub, era, split, reason>>

(* compose stop.  A service that is killed as it does not stop in time     *)
(* leaves its log; a call that fails may have stopped it.                  *)
Stopped(c, r, clean) ==
  /\ svc' = FALSE
  /\ IF svc /\ clean THEN Checkpointed ELSE UNCHANGED <<main, wal>>
  /\ cmd' = [d \in Commands |->
       LET q == IF d = c THEN r ELSE cmd[d] IN
       IF q.kind = "backup" /\ ~At(d, "idle") /\ ~clean THEN [q EXCEPT !.disturbed = TRUE] ELSE q]
  /\ UNCHANGED <<env, hub, era, counts, split>>

Stop(c) ==
  /\ At(c, "stop")
  /\ LET pc == IF cmd[c].kind = "backup" THEN "snapshot" ELSE "writeenv" IN
     \E clean \in BOOLEAN : Stopped(c, [cmd[c] EXCEPT !.pc = pc, !.defer = TRUE], clean)
  /\ UNCHANGED reason

StopFails(c) ==
  /\ At(c, "stop")
  /\ Stopped(c, Idle, TRUE)
  /\ reason' = TRUE

(* The error of the deferred start is dropped. *)
Start(c) ==
  /\ At(c, "start")
  /\ IF svc THEN UNCHANGED <<svc, files, reason>> /\ Set(c, Idle)
     ELSE ComesUp /\ DisturbOthers(c, Idle)
  /\ UNCHANGED <<hub, era, counts, split>>

StartFails(c) ==
  /\ At(c, "start")
  /\ Set(c, Idle) /\ reason' = ~svc
  /\ UNCHANGED <<svc, files, hub, era, counts, split>>

-----------------------------------------------------------------------------
(* Backup                                                                  *)

OrStop(r, pc) == IF r.stop THEN "stop" ELSE pc

ReadEnv(c) ==
  /\ At(c, "readenv") /\ env # Missing
  /\ Set(c, [cmd[c] EXCEPT !.pc = OrStop(cmd[c], "snapshot"), !.env = [val |-> env, by |-> cmd[c].id]])
  /\ UNCHANGED <<svc, files, hub, era, counts, split, reason>>

(* What snapshotDatabase may bring: the bytes of the main file, which tear *)
(* if the service writes them; or with sqlite3 all that is committed.      *)
RawCopies == {main} \cup IF svc THEN {Torn} ELSE {}

(* Seeded fault: sqlite3 is not used. *)
Copies_AlwaysRaw(stop, sqlite3) == RawCopies

Copies(stop, sqlite3) == IF stop \/ ~sqlite3 THEN RawCopies ELSE {main \cup wal}

(* Seeded fault: os.Stat is left out. *)
CanSnapshot_Unchecked == TRUE

CanSnapshot == main # Missing

Snapshot(c) ==
  /\ At(c, "snapshot") /\ CanSnapshot
  /\ \E sqlite3 \in BOOLEAN :
       /\ Whole(main) \/ cmd[c].stop \/ ~sqlite3
       /\ \E db \in Copies(cmd[c].stop, sqlite3) :
            Set(c, [cmd[c] EXCEPT !.pc = "applyenv", !.db = [val |-> db, by |-> cmd[c].id],
                                  !.disturbed = @ \/ (~cmd[c].stop /\ ~sqlite3)])
  /\ UNCHANGED <<svc, files, hub, era, counts, split, reason>>

(* A document changes while restores are between their two Gets. *)
Mixing(c, r) == cmd' = [d \in Commands |->
  IF d = c THEN r ELSE IF At(d, "getdb") THEN [cmd[d] EXCEPT !.mixed = TRUE] ELSE cmd[d]]

Overlap(c) == \E d \in Commands \ {c} : At(d, "applydb")

StoreEnv(c) == hub' = [hub EXCEPT !.env = cmd[c].env, !.key = EncryptKey, !.era = era]
StoreDB(c)  == hub' = [hub EXCEPT !.db = cmd[c].db]

ApplyEnv(c) ==
  /\ At(c, "applyenv")
  /\ StoreEnv(c)
  /\ Mixing(c, [cmd[c] EXCEPT !.pc = "applydb"])
  /\ split' = (split \/ Overlap(c))
  /\ UNCHANGED <<svc, files, era, counts, reason>>

(* The database completes the pair, but not of a .env replaced meanwhile. *)
SplitAfter(c) == split /\ (hub.env.by # cmd[c].id \/ Overlap(c))

ApplyDB(c) ==
  /\ At(c, "applydb")
  /\ StoreDB(c)
  /\ Mixing(c, Returned(cmd[c]))
  /\ split' = SplitAfter(c)
  /\ UNCHANGED <<svc, files, era, counts, reason>>

(* hubd carries out a request whose answer is lost, or whose client dies;  *)
(* r is what becomes of the command.                                       *)
AppliedUnheard(c, r) ==
  /\ \/ At(c, "applyenv") /\ StoreEnv(c) /\ split' = TRUE
     \/ At(c, "applydb") /\ StoreDB(c) /\ split' = SplitAfter(c)
  /\ Mixing(c, r)
  /\ UNCHANGED <<svc, files, era, counts>>

-----------------------------------------------------------------------------
(* Restore                                                                 *)

GetEnv(c) ==
  /\ At(c, "getenv") /\ Decrypts(hub.key)
  /\ Set(c, [cmd[c] EXCEPT !.pc = "getdb", !.env = hub.env, !.mixed = split \/ Overlap(c)])
  /\ UNCHANGED <<svc, files, hub, era, counts, split, reason>>

GetDB(c) ==
  /\ At(c, "getdb")
  /\ Set(c, [cmd[c] EXCEPT !.pc = OrStop(cmd[c], "writeenv"), !.db = hub.db])
  /\ UNCHANGED <<svc, files, hub, era, counts, split, reason>>

(* A write of c to the files. *)
Writes(c, r) == DisturbOthers(c, r) /\ UNCHANGED <<svc, hub, era, counts, split>>

(* strings.TrimSpace, and a line end. *)
Trimmed(e) == IF e \in Texts THEN [e EXCEPT !.trimmed = TRUE] ELSE e

WriteEnv(c) ==
  /\ At(c, "writeenv")
  /\ env' = Trimmed(cmd[c].env.val)
  /\ Writes(c, [cmd[c] EXCEPT !.pc = "remove"])
  /\ UNCHANGED <<main, wal, reason>>

(* Seeded fault: of the two files only the other one is removed. *)
Remove_ShmOnly(c) ==
  /\ At(c, "remove")
  /\ Writes(c, [cmd[c] EXCEPT !.pc = "truncate"])
  /\ UNCHANGED <<files, reason>>

(* The error of os.Remove is ignored. *)
Remove(c) ==
  /\ At(c, "remove")
  /\ \E fails \in BOOLEAN :
       /\ wal' = IF fails THEN wal ELSE {}
       /\ Writes(c, [cmd[c] EXCEPT !.pc = "truncate", !.kept = fails /\ wal # {}])
  /\ UNCHANGED <<env, main, reason>>

(* os.WriteFile truncates the file, then fills it; the service, if it      *)
(* runs, may write to it all the same.                                     *)
Truncate(c) ==
  /\ At(c, "truncate")
  /\ main' = Torn
  /\ Writes(c, [cmd[c] EXCEPT !.pc = "writedb"])
  /\ UNCHANGED <<env, wal, reason>>

WriteDB(c) ==
  /\ At(c, "writedb")
  /\ main' \in {cmd[c].db.val} \cup IF svc THEN {Torn} ELSE {}
  /\ Writes(c, Returned(cmd[c]))
  /\ UNCHANGED <<env, wal, reason>>

-----------------------------------------------------------------------------
(* Seeded fault: the error of the first Apply is ignored. *)
Fail_FirstIgnored(c) ==
  /\ At(c, "applyenv")
  /\ Goto(c, "applydb")
  /\ UNCHANGED <<svc, files, hub, era, counts, split, reason>>

(* A call of Backup or Restore returns an error; the one that writes .env  *)
(* may have truncated it.                                                  *)
Calls == {"readenv", "snapshot", "applyenv", "applydb",
          "getenv", "getdb", "writeenv", "truncate", "writedb"}

Fail(c) ==
  /\ cmd[c].pc \in Calls
  /\ \/ /\ Set(c, Failed(cmd[c]))
        /\ split' = (split \/ At(c, "applydb"))
        /\ UNCHANGED <<svc, files, hub, era, counts>>
     \/ AppliedUnheard(c, Failed(cmd[c]))
     \/ /\ At(c, "writeenv") /\ env' = Torn
        /\ Writes(c, Failed(cmd[c]))
        /\ UNCHANGED <<main, wal>>
  /\ UNCHANGED reason

(* The command is killed: nothing deferred is run. *)
Kill(c) ==
  /\ ~At(c, "idle")
  /\ \/ /\ Set(c, Idle)
        /\ split' = (split \/ At(c, "applydb"))
        /\ UNCHANGED <<svc, files, hub, era, counts>>
     \/ AppliedUnheard(c, Idle)
  /\ reason' = (reason \/ (cmd[c].defer /\ ~svc))

-----------------------------------------------------------------------------
Backup(c)  == ReadEnv(c) \/ Snapshot(c) \/ ApplyEnv(c) \/ ApplyDB(c)
Restore(c) == GetEnv(c) \/ GetDB(c) \/ WriteEnv(c) \/ Remove(c) \/ Truncate(c) \/ WriteDB(c)
Compose(c) == Stop(c) \/ StopFails(c) \/ Start(c) \/ StartFails(c)

Next ==
  \/ Rotate \/ Transaction \/ Checkpoint \/ EditEnv \/ StartByHand
  \/ \E c \in Commands : Begin(c) \/ Backup(c) \/ Restore(c) \/ Compose(c) \/ Fail(c) \/ Kill(c)

Spec == Init /\ [][Next]_vars

-----------------------------------------------------------------------------
(* Properties                                                              *)

Databases == (SUBSET (1..MaxTxns)) \cup {Torn, Missing}
Envs      == Texts \cup {Torn, Missing}
Doc(S)    == [val : S, by : 0..MaxStarts]

(* Types; no document stands for a file that was not there, a command has  *)
(* deferred a start only after its stop, a log belongs to a database.      *)
TypeOK ==
  /\ svc \in BOOLEAN /\ env \in Envs /\ main \in Databases /\ wal \subseteq 1..MaxTxns
  /\ hub.env \in Doc(Envs \ {Missing}) /\ hub.db \in Doc(Databases \ {Missing}) /\ hub.key \in Int /\ hub.era \in 0..era
  /\ \A c \in Commands :
       /\ cmd[c].pc \in Calls \cup {"idle", "stop", "remove", "start"}
       /\ cmd[c].env \in Doc(Envs) /\ cmd[c].db \in Doc(Databases)
       /\ cmd[c].defer => cmd[c].stop /\ cmd[c].pc \notin {"readenv", "getenv", "getdb", "stop"}
  /\ main = Missing => wal = {}

(* A backup that succeeds has stored a whole database with every           *)
(* transaction that was committed when it began; but not after a stop that *)
(* left a log, nor with -no-stop on a host without sqlite3, nor if someone *)
(* started the service or wrote its files in between.                      *)
BackupHasAll ==
  [][\A c \in Commands :
       ApplyDB(c) => cmd[c].disturbed \/ (Whole(cmd[c].db.val) /\ cmd[c].base \subseteq cmd[c].db.val)]_vars

(* When a restore has written everything, the service finds exactly the    *)
(* database of the documents, and the .env up to the white space around    *)
(* its text: no transaction of the old log is left to be replayed into it, *)
(* even if the service did not stop in time.  Not so under a service that  *)
(* runs; and a log that could not be removed stays, of which a restore     *)
(* says nothing.                                                           *)
RestoreIsExact ==
  [][\A c \in Commands :
       WriteDB(c) /\ ~cmd[c].disturbed =>
         /\ main' = cmd[c].db.val /\ env' = Trimmed(cmd[c].env.val)
         /\ wal' = {} \/ cmd[c].kept]_vars

(* The documents of the hub, and those a restore has fetched, are a pair   *)
(* of one backup, unless a backup broke off between its two writes, two    *)
(* overlapped, or one ran between the two Gets.                            *)
PairsAreExplained ==
  /\ hub.env.by # hub.db.by => split \/ \E c \in Commands : At(c, "applydb")
  /\ \A c \in Commands :
       cmd[c].kind = "restore" /\ cmd[c].pc \notin {"idle", "getenv", "getdb", "start"} =>
         cmd[c].env.by = cmd[c].db.by \/ cmd[c].mixed

(* The .env document can be read until its key has been dropped: Keep      *)
(* rotations after it was written.                                         *)
ReadableWhileKept == era - hub.era < Keep => Decrypts(hub.key)

(* However a command ends, the service it has stopped is started again: a *)
(* service is down while some command is still to start it, or as compose  *)
(* failed, or as a command was killed.                                     *)
DownHasReason == ~svc => reason \/ \E c \in Commands : cmd[c].defer
=============================================================================
