------------------------- MODULE PocketBackupProofs -------------------------
(***************************************************************************)
(* Proofs about PocketBackup, for any commands and bounds.                 *)
(***************************************************************************)
EXTENDS PocketBackup, TLAPS

Pcs == Calls \cup {"idle", "stop", "remove", "start"}

CmdType ==
  [pc : Pcs, kind : {"backup", "restore"}, stop : BOOLEAN, defer : BOOLEAN, id : 0..MaxStarts,
   env : Doc(Envs), db : Doc(Databases), base : SUBSET (1..MaxTxns), disturbed : BOOLEAN, mixed : BOOLEAN,
   kept : BOOLEAN]

(* What the place of a command says of it: its kind, and which documents   *)
(* it has.                                                                 *)
Placed(r) ==
  /\ r.defer => r.stop /\ r.pc \notin {"readenv", "getenv", "getdb", "stop"}
  /\ r.pc = "stop" => r.stop
  /\ r.pc = "idle" => ~r.defer
  /\ r.pc \in {"readenv", "snapshot", "applyenv", "applydb"} => r.kind = "backup"
  /\ r.pc \in {"getenv", "getdb", "writeenv", "remove", "truncate", "writedb"} => r.kind = "restore"
  /\ r.kind = "backup" /\ r.pc \in {"stop", "snapshot", "applyenv", "applydb"} =>
       r.env.val # Missing /\ r.env.by = r.id
  /\ r.pc \in {"applyenv", "applydb"} => r.db.val # Missing /\ r.db.by = r.id
  /\ r.kind = "restore" /\ r.pc \in {"stop", "writeenv", "remove", "truncate", "writedb"} =>
       r.db.val # Missing

HubType == [env : Doc(Envs \ {Missing}), db : Doc(Databases \ {Missing}), key : Int, era : Nat]

FilesType ==
  /\ svc \in BOOLEAN /\ env \in Envs /\ main \in Databases /\ wal \subseteq 1..MaxTxns
  /\ main = Missing => wal = {}

Shape ==
  /\ FilesType /\ hub \in HubType /\ hub.era <= era /\ era \in Nat
  /\ cmd \in [Commands -> CmdType] /\ \A c \in Commands : Placed(cmd[c])
  /\ counts \in [starts : 0..MaxStarts, txns : 0..MaxTxns, edits : 0..MaxEdits]
  /\ split \in BOOLEAN /\ reason \in BOOLEAN

(* The .env document and the one of the database are of one backup, for    *)
(* the command r, with the hub h and the mark s of a split pair.           *)
PairOf(r, h, s) ==
  /\ r.pc = "getdb" => r.env.by = h.db.by \/ r.mixed
  /\ r.kind = "restore" /\ r.pc \in {"stop", "writeenv", "remove", "truncate", "writedb"} =>
       r.env.by = r.db.by \/ r.mixed
  /\ r.pc = "applydb" => s \/ h.env.by = r.id

Pairs ==
  /\ \A c \in Commands : PairOf(cmd[c], hub, split)
  /\ hub.env.by # hub.db.by => split \/ \E c \in Commands : At(c, "applydb")
  /\ \A c, d \in Commands : c # d /\ At(c, "applydb") /\ At(d, "applydb") => split

(* What a command that nothing has disturbed relies on: with the service   *)
(* up or not, .env, the main file and its log.                             *)
Content(m, w) == IF Whole(m) THEN m \cup w ELSE {}

Sound(r, up, e, m, w) ==
  ~r.disturbed =>
    /\ r.pc \in {"writeenv", "remove", "truncate", "writedb"} \/ (r.pc \in {"getenv", "getdb"} /\ ~r.stop) => ~up
    /\ r.pc \in {"remove", "truncate", "writedb"} => e = Trimmed(r.env.val)
    /\ r.pc \in {"truncate", "writedb"} => w = {} \/ r.kept
    /\ r.kind = "backup" /\ r.pc \in {"readenv", "stop", "snapshot"} =>
         m # Torn /\ r.base \subseteq Content(m, w) /\ (~up => w = {})
    /\ r.pc = "snapshot" /\ r.stop => ~up
    /\ r.pc \in {"applyenv", "applydb"} => Whole(r.db.val) /\ r.base \subseteq r.db.val

Keyed == hub.key = hub.era

IInv ==
  /\ Shape /\ Keyed /\ DownHasReason /\ Pairs
  /\ \A c \in Commands : Sound(cmd[c], svc, env, main, wal)

-----------------------------------------------------------------------------
(* Records of commands                                                     *)

(* q is the command r, which may have been disturbed or mixed.             *)
Marked(r, q) ==
  /\ q \in CmdType
  /\ q.pc = r.pc /\ q.kind = r.kind /\ q.stop = r.stop /\ q.defer = r.defer /\ q.id = r.id
  /\ q.env = r.env /\ q.db = r.db /\ q.base = r.base /\ q.kept = r.kept
  /\ (r.disturbed => q.disturbed) /\ (r.mixed => q.mixed)

LEMMA MarkedIs ==
  ASSUME NEW r \in CmdType
  PROVE  /\ Marked(r, r)
         /\ Marked(r, [r EXCEPT !.disturbed = TRUE]) /\ [r EXCEPT !.disturbed = TRUE].disturbed
         /\ Marked(r, [r EXCEPT !.mixed = TRUE]) /\ [r EXCEPT !.mixed = TRUE].mixed
<1>1. Marked(r, r)
  BY DEF Marked
<1>2. Marked(r, [r EXCEPT !.disturbed = TRUE]) /\ [r EXCEPT !.disturbed = TRUE].disturbed
  BY DEF Marked, CmdType
<1>3. Marked(r, [r EXCEPT !.mixed = TRUE]) /\ [r EXCEPT !.mixed = TRUE].mixed
  BY DEF Marked, CmdType
<1> QED
  BY <1>1, <1>2, <1>3

LEMMA MarkedPlaced ==
  ASSUME NEW r, NEW q, Marked(r, q), Placed(r)
  PROVE  Placed(q)
BY DEF Marked, Placed

LEMMA IdleIs == Idle \in CmdType /\ Placed(Idle) /\ Idle.pc = "idle" /\ ~Idle.defer
<1>1. NoDoc \in Doc(Envs) /\ NoDoc \in Doc(Databases)
  <2>1. Missing \in Envs
    BY DEF Envs
  <2>2. Missing \in Databases
    BY Zenon DEF Databases
  <2>3. 0 \in 0..MaxStarts
    BY BoundsAssumption
  <2> QED
    BY <2>1, <2>2, <2>3 DEF NoDoc, Doc
<1>2. {} \in SUBSET (1..MaxTxns) /\ 0 \in 0..MaxStarts
  BY BoundsAssumption
<1> QED
  BY <1>1, <1>2 DEF Idle, CmdType, Pcs, Placed

LEMMA ReturnedIs ==
  ASSUME NEW r \in CmdType, Placed(r)
  PROVE  /\ Returned(r) \in CmdType /\ Placed(Returned(r))
         /\ Returned(r).pc \in {"idle", "start"} /\ Returned(r).defer = r.defer
         /\ Returned(r).kind \in {r.kind, "backup"}
<1>1. CASE r.defer
  BY <1>1 DEF Returned, CmdType, Pcs, Placed
<1>2. CASE ~r.defer
  BY <1>2, IdleIs DEF Returned, CmdType, Idle
<1> QED
  BY <1>1, <1>2

(* A step of c: its record becomes r, the others may be marked.            *)
Step(c, r) ==
  /\ cmd' \in [Commands -> CmdType] /\ cmd'[c] = r
  /\ \A d \in Commands \ {c} : Marked(cmd[d], cmd'[d])

LEMMA SetIs ==
  ASSUME NEW c \in Commands, NEW r \in CmdType, cmd \in [Commands -> CmdType], Set(c, r)
  PROVE  Step(c, r) /\ \A d \in Commands \ {c} : cmd'[d] = cmd[d]
BY MarkedIs DEF Set, Step

LEMMA MixingIs ==
  ASSUME NEW c \in Commands, NEW r \in CmdType, cmd \in [Commands -> CmdType], Mixing(c, r)
  PROVE  Step(c, r) /\ \A d \in Commands \ {c} : At(d, "getdb") => cmd'[d].mixed
<1>1. ASSUME NEW d \in Commands
      PROVE  cmd'[d] \in CmdType /\ (d # c => Marked(cmd[d], cmd'[d]) /\ (At(d, "getdb") => cmd'[d].mixed))
  <2>1. cmd[d] \in CmdType
    OBVIOUS
  <2>2. cmd'[d] = IF d = c THEN r ELSE IF At(d, "getdb") THEN [cmd[d] EXCEPT !.mixed = TRUE] ELSE cmd[d]
    BY DEF Mixing
  <2>3. CASE d = c
    BY <2>2, <2>3
  <2>4. CASE d # c /\ At(d, "getdb")
    <3>1. cmd'[d] = [cmd[d] EXCEPT !.mixed = TRUE]
      BY <2>2, <2>4
    <3>2. Marked(cmd[d], cmd'[d]) /\ cmd'[d].mixed
      BY <2>1, <3>1, MarkedIs
    <3> QED
      BY <2>4, <3>2 DEF Marked
  <2>5. CASE d # c /\ ~At(d, "getdb")
    <3>1. cmd'[d] = cmd[d]
      BY <2>2, <2>5
    <3>2. Marked(cmd[d], cmd'[d])
      BY <2>1, <3>1, MarkedIs
    <3> QED
      BY <2>1, <2>5, <3>1, <3>2
  <2> QED
    BY <2>3, <2>4, <2>5
<1>2. cmd'[c] = r /\ cmd' = [d \in Commands |-> cmd'[d]]
  BY DEF Mixing
<1> QED
  BY <1>1, <1>2 DEF Step

LEMMA DisturbedIs ==
  ASSUME NEW d \in Commands, cmd \in [Commands -> CmdType]
  PROVE  Marked(cmd[d], Disturbed(d)) /\ (~At(d, "idle") => Disturbed(d).disturbed)
<1>1. cmd[d] \in CmdType
  OBVIOUS
<1> QED
  BY <1>1, MarkedIs DEF Disturbed

LEMMA OthersIs ==
  ASSUME NEW c \in Commands, NEW r \in CmdType, cmd \in [Commands -> CmdType], DisturbOthers(c, r)
  PROVE  Step(c, r) /\ \A d \in Commands \ {c} : ~At(d, "idle") => cmd'[d].disturbed
<1>1. \A d \in Commands : cmd'[d] = IF d = c THEN r ELSE Disturbed(d)
  BY DEF DisturbOthers
<1>2. \A d \in Commands \ {c} : Marked(cmd[d], cmd'[d]) /\ (~At(d, "idle") => cmd'[d].disturbed)
  BY <1>1, DisturbedIs
<1>3. cmd'[c] = r /\ cmd' = [d \in Commands |-> cmd'[d]]
  BY DEF DisturbOthers
<1>4. \A d \in Commands : cmd'[d] \in CmdType
  BY <1>2, <1>3 DEF Marked
<1> QED
  BY <1>2, <1>3, <1>4 DEF Step

LEMMA DisturbIs ==
  ASSUME cmd \in [Commands -> CmdType], Disturb
  PROVE  /\ cmd' \in [Commands -> CmdType]
         /\ \A d \in Commands : Marked(cmd[d], cmd'[d]) /\ (~At(d, "idle") => cmd'[d].disturbed)
<1>1. \A d \in Commands : cmd'[d] = Disturbed(d)
  BY DEF Disturb
<1>2. \A d \in Commands : Marked(cmd[d], cmd'[d]) /\ (~At(d, "idle") => cmd'[d].disturbed)
  BY <1>1, DisturbedIs
<1>3. cmd' = [d \in Commands |-> cmd'[d]]
  BY DEF Disturb
<1> QED
  BY <1>2, <1>3 DEF Marked

LEMMA StoppedIs ==
  ASSUME NEW c \in Commands, NEW r \in CmdType, NEW clean \in BOOLEAN, cmd \in [Commands -> CmdType],
         Stopped(c, r, clean), ~At(c, "idle")
  PROVE  /\ cmd' \in [Commands -> CmdType] /\ Marked(r, cmd'[c])
         /\ \A d \in Commands \ {c} : Marked(cmd[d], cmd'[d])
         /\ ~clean => \A d \in Commands : cmd'[d].kind = "backup" /\ cmd'[d].pc # "idle" => cmd'[d].disturbed
<1> DEFINE q(d) == IF d = c THEN r ELSE cmd[d]
           hurt(d) == q(d).kind = "backup" /\ ~At(d, "idle") /\ ~clean
<1>1. \A d \in Commands : cmd'[d] = IF hurt(d) THEN [q(d) EXCEPT !.disturbed = TRUE] ELSE q(d)
  BY DEF Stopped
<1>2. \A d \in Commands : q(d) \in CmdType
  OBVIOUS
<1>3. ASSUME NEW d \in Commands
      PROVE  Marked(q(d), cmd'[d]) /\ (hurt(d) => cmd'[d].disturbed)
  <2>1. q(d) \in CmdType
    BY <1>2
  <2> HIDE DEF q, hurt
  <2> QED
    BY <1>1, <2>1, MarkedIs
<1>4. cmd' = [d \in Commands |-> cmd'[d]]
  BY DEF Stopped
<1>5. cmd' \in [Commands -> CmdType]
  <2> HIDE DEF q, hurt
  <2> QED
    BY <1>3, <1>4 DEF Marked
<1>6. Marked(r, cmd'[c])
  BY <1>3
<1>7. \A d \in Commands \ {c} : Marked(cmd[d], cmd'[d])
  BY <1>3
<1>8. ASSUME ~clean, NEW d \in Commands, cmd'[d].kind = "backup", cmd'[d].pc # "idle"
      PROVE  cmd'[d].disturbed
  <2>1. CASE d = c
    BY <1>3, <1>6, <1>8, <2>1 DEF Marked
  <2>2. CASE d # c
    BY <1>3, <1>7, <1>8, <2>2 DEF Marked, At
  <2> QED
    BY <2>1, <2>2
<1> QED
  BY <1>5, <1>6, <1>7, <1>8

LEMMA MarkedPair ==
  ASSUME NEW r, NEW q, NEW h, NEW s, Marked(r, q), PairOf(r, h, s)
  PROVE  PairOf(q, h, s)
BY DEF Marked, PairOf

LEMMA MarkedSound ==
  ASSUME NEW r, NEW q, NEW up, NEW e, NEW m, NEW w, Marked(r, q), Sound(r, up, e, m, w)
  PROVE  Sound(q, up, e, m, w)
BY DEF Marked, Sound

LEMMA NothingToRely ==
  ASSUME NEW r, r.pc \in {"idle", "start"} \/ r.disturbed, NEW up, NEW e, NEW m, NEW w
  PROVE  Sound(r, up, e, m, w)
BY DEF Sound

LEMMA NothingToPair ==
  ASSUME NEW r, r.pc \in {"idle", "start"}, NEW h, NEW s
  PROVE  PairOf(r, h, s)
BY DEF PairOf

-----------------------------------------------------------------------------
(* Steps of a command                                                      *)

LEMMA ShapeStep ==
  ASSUME Shape, NEW c \in Commands, NEW r, Step(c, r), Placed(r),
         FilesType', hub' \in HubType, hub'.era <= era, era' = era,
         counts' \in [starts : 0..MaxStarts, txns : 0..MaxTxns, edits : 0..MaxEdits],
         split' \in BOOLEAN, reason' \in BOOLEAN
  PROVE  Shape'
<1>1. cmd' \in [Commands -> CmdType]
  BY DEF Step
<1>2. \A d \in Commands : Placed(cmd'[d])
  BY MarkedPlaced DEF Step, Shape
<1> QED
  BY <1>1, <1>2 DEF Shape

(* The documents stay; one who was to apply the database gives up, and may *)
(* leave a pair that is none.                                              *)
LEMMA PairsStep ==
  ASSUME Pairs, NEW c \in Commands, NEW r, Step(c, r), r.pc # "applydb",
         PairOf(r, hub, split'), hub'.env = hub.env, hub'.db = hub.db,
         split' = (split \/ At(c, "applydb"))
  PROVE  Pairs'
<1>1. \A d \in Commands \ {c} : cmd'[d].pc = cmd[d].pc
  BY DEF Step, Marked
<1>2. ASSUME NEW d \in Commands \ {c}
      PROVE  PairOf(cmd'[d], hub', split')
  <2>1. PairOf(cmd[d], hub, split) /\ Marked(cmd[d], cmd'[d])
    BY DEF Pairs, Step
  <2>2. PairOf(cmd'[d], hub, split)
    BY <2>1, MarkedPair
  <2>3. split => split'
    OBVIOUS
  <2> QED
    BY <2>2, <2>3 DEF PairOf
<1>3. PairOf(cmd'[c], hub', split') /\ cmd'[c].pc # "applydb"
  BY DEF PairOf, Step
<1>4. \A d \in Commands : PairOf(cmd'[d], hub', split')
  BY <1>2, <1>3
<1>5. hub'.env.by # hub'.db.by => split' \/ \E d \in Commands : cmd'[d].pc = "applydb"
  BY <1>1 DEF Pairs, At
<1>6. \A a, b \in Commands : a # b /\ cmd'[a].pc = "applydb" /\ cmd'[b].pc = "applydb" => split'
  BY <1>1, <1>3 DEF Pairs, At
<1> QED
  BY <1>4, <1>5, <1>6 DEF Pairs, At

LEMMA DownStep ==
  ASSUME DownHasReason, NEW c \in Commands, NEW r, Step(c, r), svc' = svc,
         ~svc /\ (reason \/ (cmd[c].defer /\ ~r.defer)) => reason'
  PROVE  DownHasReason'
<1>1. \A d \in Commands \ {c} : cmd'[d].defer = cmd[d].defer
  BY DEF Step, Marked
<1>2. cmd'[c] = r
  BY DEF Step
<1> QED
  BY <1>1, <1>2 DEF DownHasReason

LEMMA SoundStep ==
  ASSUME NEW c \in Commands, NEW r, Step(c, r), \A d \in Commands : Sound(cmd[d], svc, env, main, wal),
         Sound(r, svc, env, main, wal), UNCHANGED <<svc, env, main, wal>>
  PROVE  \A d \in Commands : Sound(cmd'[d], svc', env', main', wal')
<1> SUFFICES ASSUME NEW d \in Commands
             PROVE  Sound(cmd'[d], svc', env', main', wal')
  OBVIOUS
<1>1. CASE d = c
  BY <1>1 DEF Step
<1>2. CASE d # c
  <2>1. Marked(cmd[d], cmd'[d])
    BY <1>2 DEF Step
  <2>2. Sound(cmd'[d], svc, env, main, wal)
    BY <2>1, MarkedSound
  <2> QED
    BY <2>2
<1> QED
  BY <1>1, <1>2

(* A step of c that leaves the documents alone.                            *)
LEMMA HostStep ==
  ASSUME IInv, NEW c \in Commands, NEW r, Step(c, r), Placed(r), r.pc # "applydb",
         PairOf(r, hub, split'), UNCHANGED <<hub, era>>, FilesType', DownHasReason', reason' \in BOOLEAN,
         counts' \in [starts : 0..MaxStarts, txns : 0..MaxTxns, edits : 0..MaxEdits],
         split' = (split \/ At(c, "applydb")),
         \A d \in Commands : Sound(cmd'[d], svc', env', main', wal')
  PROVE  IInv'
<1>1. Shape /\ Pairs /\ Keyed
  BY DEF IInv
<1>2. hub' \in HubType /\ hub'.era <= era /\ era' = era /\ split' \in BOOLEAN
  BY <1>1 DEF Shape
<1>3. Shape'
  BY <1>1, <1>2, ShapeStep
<1>4. Pairs'
  BY <1>1, PairsStep
<1>5. Keyed'
  BY <1>1 DEF Keyed
<1> QED
  BY <1>3, <1>4, <1>5 DEF IInv

(* A step of c that touches neither the host nor the hub.                  *)
LEMMA StillStep ==
  ASSUME IInv, NEW c \in Commands, NEW r, Step(c, r), Placed(r), r.pc # "applydb",
         PairOf(r, hub, split'), Sound(r, svc, env, main, wal),
         UNCHANGED <<svc, files, hub, era>>, reason' \in BOOLEAN,
         counts' \in [starts : 0..MaxStarts, txns : 0..MaxTxns, edits : 0..MaxEdits],
         split' = (split \/ At(c, "applydb")),
         ~svc /\ (reason \/ (cmd[c].defer /\ ~r.defer)) => reason'
  PROVE  IInv'
<1>1. Shape /\ DownHasReason
  BY DEF IInv
<1>2. FilesType'
  BY <1>1 DEF Shape, FilesType, files
<1>3. DownHasReason'
  BY <1>1, DownStep
<1>4. \A d \in Commands : Sound(cmd'[d], svc', env', main', wal')
  BY SoundStep DEF IInv, files
<1> QED
  BY <1>2, <1>3, <1>4, HostStep

LEMMA CmdFacts ==
  ASSUME IInv, NEW c \in Commands
  PROVE  /\ cmd \in [Commands -> CmdType] /\ cmd[c] \in CmdType /\ Placed(cmd[c]) /\ PairOf(cmd[c], hub, split)
         /\ Sound(cmd[c], svc, env, main, wal)
         /\ FilesType /\ hub \in HubType /\ split \in BOOLEAN /\ reason \in BOOLEAN /\ era \in Nat /\ hub.era <= era
         /\ counts \in [starts : 0..MaxStarts, txns : 0..MaxTxns, edits : 0..MaxEdits]
BY DEF IInv, Shape, Pairs

(* What it has deferred, it still has.                                     *)
LEMMA QuietStep ==
  ASSUME IInv, NEW c \in Commands, NEW r, Step(c, r), Placed(r), r.pc # "applydb",
         PairOf(r, hub, split'), Sound(r, svc, env, main, wal),
         UNCHANGED <<svc, files, hub, era, reason>>,
         counts' \in [starts : 0..MaxStarts, txns : 0..MaxTxns, edits : 0..MaxEdits],
         split' = (split \/ At(c, "applydb")), cmd[c].defer => r.defer
  PROVE  IInv'
<1>1. reason' \in BOOLEAN /\ UNCHANGED <<svc, files, hub, era>>
  BY CmdFacts
<1> QED
  BY <1>1, StillStep

LEMMA ContentIs ==
  ASSUME FilesType
  PROVE  /\ Content(main, wal) \subseteq 1..MaxTxns /\ Live = Content(main, wal)
         /\ Whole(main) => main \subseteq 1..MaxTxns
         /\ Whole(main) => main \cup wal \in Databases /\ Whole(main \cup wal)
<1>1. Whole(main) => main \subseteq 1..MaxTxns
  BY DEF FilesType, Whole, Databases
<1>2. Whole(main) => main \cup wal \in SUBSET (1..MaxTxns)
  BY <1>1 DEF FilesType
<1> QED
  BY <1>1, <1>2, MarksAssumption DEF Content, Live, Databases, Whole, FilesType

LEMMA CountIs ==
  ASSUME counts \in [starts : 0..MaxStarts, txns : 0..MaxTxns, edits : 0..MaxEdits]
  PROVE  /\ Count("starts", MaxStarts) => counts' \in [starts : 0..MaxStarts, txns : 0..MaxTxns, edits : 0..MaxEdits]
                                          /\ counts'.starts \in 0..MaxStarts
         /\ Count("txns", MaxTxns) => counts' \in [starts : 0..MaxStarts, txns : 0..MaxTxns, edits : 0..MaxEdits]
                                      /\ counts'.txns \in 1..MaxTxns
         /\ Count("edits", MaxEdits) => counts' \in [starts : 0..MaxStarts, txns : 0..MaxTxns, edits : 0..MaxEdits]
                                        /\ counts'.edits \in 0..MaxEdits
<1>1. counts.starts \in 0..MaxStarts /\ counts.txns \in 0..MaxTxns /\ counts.edits \in 0..MaxEdits
  OBVIOUS
<1>2. /\ counts.starts < MaxStarts => counts.starts + 1 \in 0..MaxStarts
      /\ counts.txns < MaxTxns => counts.txns + 1 \in 1..MaxTxns /\ counts.txns + 1 \in 0..MaxTxns
      /\ counts.edits < MaxEdits => counts.edits + 1 \in 0..MaxEdits
  BY <1>1, BoundsAssumption
<1> QED
  BY <1>1, <1>2 DEF Count

LEMMA BeginStep ==
  ASSUME IInv, NEW c \in Commands, Begin(c)
  PROVE  IInv'
<1> DEFINE hurt(kind, stop) == IF kind = "backup" THEN main = Torn \/ (~svc /\ wal # {}) ELSE svc /\ ~stop
<1>1. PICK kind \in {"backup", "restore"}, stop \in BOOLEAN :
        Set(c, [pc |-> IF kind = "backup" THEN "readenv" ELSE "getenv", kind |-> kind, stop |-> stop,
                defer |-> FALSE, id |-> counts'.starts, env |-> NoDoc, db |-> NoDoc, base |-> Live,
                disturbed |-> hurt(kind, stop), mixed |-> FALSE, kept |-> FALSE])
  BY Zenon DEF Begin
<1>2. PICK r : r = [pc |-> IF kind = "backup" THEN "readenv" ELSE "getenv", kind |-> kind, stop |-> stop,
                    defer |-> FALSE, id |-> counts'.starts, env |-> NoDoc, db |-> NoDoc, base |-> Live,
                    disturbed |-> hurt(kind, stop), mixed |-> FALSE, kept |-> FALSE]
  OBVIOUS
<1>3. Set(c, r)
  BY <1>1, <1>2, Zenon
<1>4. /\ At(c, "idle") /\ UNCHANGED <<svc, files, hub, era, split, reason>>
      /\ counts' \in [starts : 0..MaxStarts, txns : 0..MaxTxns, edits : 0..MaxEdits]
      /\ counts'.starts \in 0..MaxStarts
  BY CmdFacts, CountIs DEF Begin
<1>5. NoDoc \in Doc(Envs) /\ NoDoc \in Doc(Databases)
  BY IdleIs DEF Idle, CmdType
<1>6. Live \in SUBSET (1..MaxTxns) /\ Live = Content(main, wal) /\ FilesType
  BY CmdFacts, ContentIs
<1>7. r.disturbed = hurt(kind, stop) /\ r.kind = kind /\ r.stop = stop /\ r.base = Live /\ ~r.defer
      /\ r.pc = IF kind = "backup" THEN "readenv" ELSE "getenv"
  BY <1>2
<1>8. hurt(kind, stop) \in BOOLEAN
  BY <1>6 DEF FilesType
<1> HIDE DEF hurt
<1>9. r \in CmdType
  BY <1>2, <1>4, <1>5, <1>6, <1>8 DEF CmdType, Pcs, Calls
<1>10. Placed(r) /\ r.pc # "applydb" /\ PairOf(r, hub, split')
  BY <1>7 DEF Placed, PairOf
<1>11. Sound(r, svc, env, main, wal)
  BY <1>6, <1>7 DEF Sound, hurt
<1>12. Step(c, r)
  BY <1>3, <1>9, CmdFacts, SetIs
<1>13. ~cmd[c].defer /\ split' = (split \/ At(c, "applydb"))
  BY <1>4, CmdFacts DEF At, Placed
<1> QED
  BY <1>4, <1>10, <1>11, <1>12, <1>13, QuietStep

LEMMA ReadEnvStep ==
  ASSUME IInv, NEW c \in Commands, ReadEnv(c)
  PROVE  IInv'
<1>1. /\ At(c, "readenv") /\ env # Missing /\ UNCHANGED <<svc, files, hub, era, counts, split, reason>>
      /\ Set(c, [cmd[c] EXCEPT !.pc = OrStop(cmd[c], "snapshot"), !.env = [val |-> env, by |-> cmd[c].id]])
  BY DEF ReadEnv
<1>2. PICK r : r = [cmd[c] EXCEPT !.pc = OrStop(cmd[c], "snapshot"), !.env = [val |-> env, by |-> cmd[c].id]]
  OBVIOUS
<1>3. cmd[c] \in CmdType /\ Placed(cmd[c]) /\ env \in Envs /\ Sound(cmd[c], svc, env, main, wal)
      /\ counts \in [starts : 0..MaxStarts, txns : 0..MaxTxns, edits : 0..MaxEdits]
  BY CmdFacts DEF FilesType
<1>4. [val |-> env, by |-> cmd[c].id] \in Doc(Envs)
  BY <1>3 DEF CmdType, Doc
<1>5. /\ r \in CmdType /\ r.pc = OrStop(cmd[c], "snapshot") /\ r.kind = cmd[c].kind /\ r.stop = cmd[c].stop
      /\ r.defer = cmd[c].defer /\ r.id = cmd[c].id /\ r.base = cmd[c].base /\ r.disturbed = cmd[c].disturbed
      /\ r.env.val = env /\ r.env.by = cmd[c].id
  BY <1>2, <1>3, <1>4 DEF CmdType, Pcs, Calls, OrStop
<1>6. cmd[c].kind = "backup" /\ cmd[c].pc = "readenv" /\ ~cmd[c].defer
  BY <1>1, <1>3 DEF Placed, At
<1>7. Placed(r) /\ r.pc # "applydb" /\ PairOf(r, hub, split')
  BY <1>1, <1>5, <1>6 DEF Placed, PairOf, OrStop
<1>8. Sound(r, svc, env, main, wal)
  BY <1>3, <1>5, <1>6 DEF Sound, OrStop
<1>9. Step(c, r)
  BY <1>1, <1>2, <1>5, CmdFacts, SetIs
<1>10. split' = (split \/ At(c, "applydb"))
  BY <1>1, CmdFacts DEF At
<1> QED
  BY <1>1, <1>3, <1>5, <1>6, <1>7, <1>8, <1>9, <1>10, QuietStep

LEMMA SnapshotStep ==
  ASSUME IInv, NEW c \in Commands, Snapshot(c)
  PROVE  IInv'
<1>0. PICK sqlite3 \in BOOLEAN :
        /\ At(c, "snapshot") /\ main # Missing /\ UNCHANGED <<svc, files, hub, era, counts, split, reason>>
        /\ Whole(main) \/ cmd[c].stop \/ ~sqlite3
        /\ \E db \in Copies(cmd[c].stop, sqlite3) :
             Set(c, [cmd[c] EXCEPT !.pc = "applyenv", !.db = [val |-> db, by |-> cmd[c].id],
                                   !.disturbed = @ \/ (~cmd[c].stop /\ ~sqlite3)])
  BY DEF Snapshot, CanSnapshot
<1>1. PICK db \in Copies(cmd[c].stop, sqlite3) :
        /\ At(c, "snapshot") /\ main # Missing /\ UNCHANGED <<svc, files, hub, era, counts, split, reason>>
        /\ Whole(main) \/ cmd[c].stop \/ ~sqlite3
        /\ Set(c, [cmd[c] EXCEPT !.pc = "applyenv", !.db = [val |-> db, by |-> cmd[c].id],
                                 !.disturbed = @ \/ (~cmd[c].stop /\ ~sqlite3)])
  BY <1>0
<1> DEFINE hurt == cmd[c].disturbed \/ (~cmd[c].stop /\ ~sqlite3)
<1>2. PICK r : r = [cmd[c] EXCEPT !.pc = "applyenv", !.db = [val |-> db, by |-> cmd[c].id], !.disturbed = hurt]
  OBVIOUS
<1>3. cmd[c] \in CmdType /\ Placed(cmd[c]) /\ FilesType /\ Sound(cmd[c], svc, env, main, wal)
      /\ counts \in [starts : 0..MaxStarts, txns : 0..MaxTxns, edits : 0..MaxEdits]
  BY CmdFacts
<1>4. db \in Databases \ {Missing}
  <2>1. db = main \/ db = Torn \/ (db = main \cup wal /\ Whole(main))
    BY <1>1 DEF Copies, RawCopies
  <2>2. main \in Databases /\ Torn \in Databases /\ Torn # Missing
    BY <1>3, MarksAssumption DEF FilesType, Databases
  <2> QED
    BY <1>1, <1>3, <2>1, <2>2, ContentIs DEF Whole
<1>5. [val |-> db, by |-> cmd[c].id] \in Doc(Databases) /\ hurt \in BOOLEAN
  BY <1>3, <1>4 DEF CmdType, Doc
<1>6. cmd[c].pc = "snapshot" /\ cmd[c].kind = "backup"
  BY <1>1, <1>3 DEF Placed, At
<1>7. ~hurt => Whole(db) /\ cmd[c].base \subseteq db
  <2> SUFFICES ASSUME ~hurt
               PROVE  Whole(db) /\ cmd[c].base \subseteq db
    OBVIOUS
  <2>1. /\ main # Torn /\ cmd[c].base \subseteq Content(main, wal) /\ (~svc => wal = {}) /\ (cmd[c].stop => ~svc)
        /\ cmd[c].stop \/ sqlite3
    BY <1>3, <1>6 DEF Sound
  <2>2. Whole(main) /\ cmd[c].base \subseteq main \cup wal
    BY <1>1, <2>1 DEF Whole, Content
  <2>3. CASE cmd[c].stop
    <3>1. ~svc /\ wal = {} /\ db = main
      BY <1>1, <2>1, <2>3 DEF Copies, RawCopies
    <3> QED
      BY <2>2, <3>1
  <2>4. CASE ~cmd[c].stop
    <3>1. db = main \cup wal
      BY <1>1, <2>1, <2>4 DEF Copies
    <3> QED
      BY <1>3, <2>2, <3>1, ContentIs
  <2> QED
    BY <2>3, <2>4
<1> HIDE DEF hurt
<1>8. /\ r \in CmdType /\ r.pc = "applyenv" /\ r.kind = cmd[c].kind /\ r.stop = cmd[c].stop
      /\ r.defer = cmd[c].defer /\ r.id = cmd[c].id /\ r.base = cmd[c].base /\ r.disturbed = hurt
      /\ r.env = cmd[c].env /\ r.db.val = db /\ r.db.by = cmd[c].id
  BY <1>2, <1>3, <1>5 DEF CmdType, Pcs, Calls
<1>9. Placed(r) /\ r.pc # "applydb" /\ PairOf(r, hub, split')
  BY <1>3, <1>4, <1>6, <1>8 DEF Placed, PairOf
<1>10. Sound(r, svc, env, main, wal)
  BY <1>7, <1>8 DEF Sound
<1>11. Set(c, r)
  BY <1>1, <1>2 DEF hurt
<1>12. Step(c, r)
  BY <1>8, <1>11, CmdFacts, SetIs
<1>13. split' = (split \/ At(c, "applydb"))
  BY <1>1, CmdFacts DEF At
<1> QED
  BY <1>1, <1>3, <1>8, <1>9, <1>10, <1>12, <1>13, QuietStep

LEMMA GetEnvStep ==
  ASSUME IInv, NEW c \in Commands, GetEnv(c)
  PROVE  IInv'
<1> DEFINE mix == split \/ Overlap(c)
<1>1. /\ At(c, "getenv") /\ UNCHANGED <<svc, files, hub, era, counts, split, reason>>
      /\ Set(c, [cmd[c] EXCEPT !.pc = "getdb", !.env = hub.env, !.mixed = mix])
  BY DEF GetEnv
<1>2. PICK r : r = [cmd[c] EXCEPT !.pc = "getdb", !.env = hub.env, !.mixed = mix]
  OBVIOUS
<1>3. cmd[c] \in CmdType /\ Placed(cmd[c]) /\ FilesType /\ Sound(cmd[c], svc, env, main, wal) /\ hub \in HubType
      /\ counts \in [starts : 0..MaxStarts, txns : 0..MaxTxns, edits : 0..MaxEdits] /\ split \in BOOLEAN
  BY CmdFacts
<1>4. hub.env \in Doc(Envs)
  BY <1>3 DEF HubType, Doc
<1>5. mix \in BOOLEAN
  BY <1>3 DEF Overlap
<1>6. cmd[c].pc = "getenv" /\ cmd[c].kind = "restore"
  BY <1>1, <1>3 DEF Placed, At
<1>7. ~mix => hub.env.by = hub.db.by
  BY <1>6 DEF IInv, Pairs, Overlap, At
<1> HIDE DEF mix
<1>8. Set(c, r)
  BY <1>1, <1>2
<1>9. /\ r \in CmdType /\ r.pc = "getdb" /\ r.kind = cmd[c].kind /\ r.stop = cmd[c].stop
      /\ r.defer = cmd[c].defer /\ r.disturbed = cmd[c].disturbed /\ r.env = hub.env /\ r.mixed = mix
  BY <1>2, <1>3, <1>4, <1>5 DEF CmdType, Pcs, Calls
<1>10. Placed(r) /\ r.pc # "applydb" /\ PairOf(r, hub, split')
  BY <1>3, <1>6, <1>7, <1>9 DEF Placed, PairOf
<1>11. Sound(r, svc, env, main, wal)
  BY <1>3, <1>6, <1>9 DEF Sound
<1>12. Step(c, r)
  BY <1>8, <1>9, CmdFacts, SetIs
<1>13. split' = (split \/ At(c, "applydb"))
  BY <1>1, <1>3 DEF At
<1> QED
  BY <1>1, <1>3, <1>9, <1>10, <1>11, <1>12, <1>13, QuietStep

LEMMA GetDBStep ==
  ASSUME IInv, NEW c \in Commands, GetDB(c)
  PROVE  IInv'
<1>1. /\ At(c, "getdb") /\ UNCHANGED <<svc, files, hub, era, counts, split, reason>>
      /\ Set(c, [cmd[c] EXCEPT !.pc = OrStop(cmd[c], "writeenv"), !.db = hub.db])
  BY DEF GetDB
<1>2. PICK r : r = [cmd[c] EXCEPT !.pc = OrStop(cmd[c], "writeenv"), !.db = hub.db]
  OBVIOUS
<1>3. cmd[c] \in CmdType /\ Placed(cmd[c]) /\ FilesType /\ Sound(cmd[c], svc, env, main, wal) /\ hub \in HubType
      /\ PairOf(cmd[c], hub, split) /\ split \in BOOLEAN
      /\ counts \in [starts : 0..MaxStarts, txns : 0..MaxTxns, edits : 0..MaxEdits]
  BY CmdFacts
<1>4. hub.db \in Doc(Databases) /\ hub.db.val # Missing
  BY <1>3 DEF HubType, Doc
<1>5. cmd[c].pc = "getdb" /\ cmd[c].kind = "restore"
  BY <1>1, <1>3 DEF Placed, At
<1>6. /\ r \in CmdType /\ r.pc = OrStop(cmd[c], "writeenv") /\ r.kind = cmd[c].kind /\ r.stop = cmd[c].stop
      /\ r.defer = cmd[c].defer /\ r.disturbed = cmd[c].disturbed /\ r.env = cmd[c].env /\ r.db = hub.db
      /\ r.mixed = cmd[c].mixed
  BY <1>2, <1>3, <1>4 DEF CmdType, Pcs, Calls, OrStop
<1>7. Placed(r) /\ r.pc # "applydb"
  BY <1>3, <1>4, <1>5, <1>6 DEF Placed, OrStop
<1>8. PairOf(r, hub, split')
  BY <1>3, <1>5, <1>6, <1>7 DEF PairOf, OrStop
<1>9. Sound(r, svc, env, main, wal)
  BY <1>3, <1>5, <1>6 DEF Sound, OrStop
<1>10. Step(c, r)
  BY <1>1, <1>2, <1>6, CmdFacts, SetIs
<1>11. split' = (split \/ At(c, "applydb"))
  BY <1>1, <1>3 DEF At
<1> QED
  BY <1>1, <1>3, <1>6, <1>7, <1>8, <1>9, <1>10, <1>11, QuietStep

(* A call of c returns an error and has done nothing.                      *)
LEMMA FailQuietly ==
  ASSUME IInv, NEW c \in Commands, cmd[c].pc \in Calls, Set(c, Failed(cmd[c])),
         split' = (split \/ At(c, "applydb")), UNCHANGED <<svc, files, hub, era, counts, reason>>
  PROVE  IInv'
<1>1. cmd[c] \in CmdType /\ Placed(cmd[c])
      /\ counts \in [starts : 0..MaxStarts, txns : 0..MaxTxns, edits : 0..MaxEdits]
  BY CmdFacts
<1>2. PICK r : r = Returned(cmd[c])
  OBVIOUS
<1>3. r \in CmdType /\ Placed(r) /\ r.pc \in {"idle", "start"} /\ r.defer = cmd[c].defer
  BY <1>1, <1>2, ReturnedIs
<1>4. PairOf(r, hub, split') /\ Sound(r, svc, env, main, wal)
  BY <1>3, NothingToPair, NothingToRely
<1>5. Step(c, r)
  BY <1>2, <1>3, CmdFacts, SetIs DEF Failed
<1> QED
  BY <1>1, <1>3, <1>4, <1>5, QuietStep

-----------------------------------------------------------------------------
(* Steps that write to the hub                                             *)

Ends(r) == r \in CmdType /\ Placed(r) /\ r.pc \in {"idle", "start"}

LEMMA HubStep ==
  ASSUME IInv, NEW c \in Commands, NEW r, Step(c, r), Placed(r), Sound(r, svc, env, main, wal),
         UNCHANGED <<svc, files, era, counts>>, hub' \in HubType, hub'.era <= era, Keyed', Pairs',
         split' \in BOOLEAN, reason' \in BOOLEAN,
         ~svc /\ (reason \/ (cmd[c].defer /\ ~r.defer)) => reason'
  PROVE  IInv'
<1>1. Shape /\ DownHasReason
  BY DEF IInv
<1>2. FilesType'
  BY <1>1 DEF Shape, FilesType, files
<1>3. counts' \in [starts : 0..MaxStarts, txns : 0..MaxTxns, edits : 0..MaxEdits]
  BY CmdFacts
<1>4. Shape'
  BY <1>1, <1>2, <1>3, ShapeStep
<1>5. DownHasReason'
  BY <1>1, DownStep
<1>6. \A d \in Commands : Sound(cmd'[d], svc', env', main', wal')
  BY SoundStep DEF IInv, files
<1> QED
  BY <1>4, <1>5, <1>6 DEF IInv

LEMMA EncryptKeyIs == ASSUME era \in Nat PROVE EncryptKey = era
<1>1. 1 \in 1..Keep
  BY BoundsAssumption
<1>2. EncryptKey = era + 1 - 1
  BY <1>1 DEF EncryptKey, Ring
<1> QED
  BY <1>2

(* The pairs when a document is stored: a restore between its two Gets is  *)
(* mixed, and any other has the documents it had.                          *)
LEMMA MixedPair ==
  ASSUME NEW d, NEW q, Marked(cmd[d], q), PairOf(cmd[d], hub, split), At(d, "getdb") => q.mixed,
         NEW h, NEW s, At(d, "applydb") => s \/ h.env.by = q.id
  PROVE  PairOf(q, h, s)
BY DEF Marked, PairOf, At

LEMMA EnvStored ==
  ASSUME IInv, NEW c \in Commands, At(c, "applyenv"), StoreEnv(c), NEW r \in CmdType, Mixing(c, r),
         split \/ Overlap(c) => split', split' \in BOOLEAN,
         (r.pc = "applydb" /\ r.kind = "backup" /\ r.id = cmd[c].id) \/ (Ends(r) /\ split')
  PROVE  Step(c, r) /\ hub' \in HubType /\ hub'.era <= era /\ (era' = era => Keyed') /\ Pairs'
<1>1. Step(c, r) /\ \A d \in Commands \ {c} : At(d, "getdb") => cmd'[d].mixed
  BY CmdFacts, MixingIs
<1>2. cmd[c].env \in Doc(Envs \ {Missing}) /\ cmd[c].env.by = cmd[c].id
  <2>1. cmd[c] \in CmdType /\ Placed(cmd[c]) /\ cmd[c].pc = "applyenv"
    BY CmdFacts DEF At
  <2>2. cmd[c].env \in Doc(Envs) /\ cmd[c].env.val # Missing /\ cmd[c].env.by = cmd[c].id
    BY <2>1 DEF Placed, CmdType
  <2> QED
    BY <2>2 DEF Doc
<1>3. EncryptKey = era /\ era \in Nat /\ hub \in HubType
  BY CmdFacts, EncryptKeyIs
<1>4. hub' \in HubType /\ hub'.env = cmd[c].env /\ hub'.db = hub.db /\ hub'.key = era /\ hub'.era = era
  <2>1. PICK e : e = cmd[c].env
    OBVIOUS
  <2>2. PICK k : k = EncryptKey
    OBVIOUS
  <2>3. hub' = [hub EXCEPT !.env = e, !.key = k, !.era = era]
    BY <2>1, <2>2 DEF StoreEnv
  <2>4. e \in Doc(Envs \ {Missing}) /\ k \in Int /\ k = era
    BY <1>2, <1>3, <2>1, <2>2
  <2>5. hub' \in HubType
    BY <1>3, <2>3, <2>4 DEF HubType
  <2>6. hub'.env = e /\ hub'.db = hub.db /\ hub'.key = k /\ hub'.era = era
    BY <1>3, <2>3 DEF HubType
  <2> QED
    BY <2>1, <2>4, <2>5, <2>6
<1>5. hub'.era <= era /\ (era' = era => Keyed')
  BY <1>3, <1>4 DEF Keyed
<1>6. ASSUME NEW d \in Commands \ {c}
      PROVE  PairOf(cmd'[d], hub', split') /\ cmd'[d].pc = cmd[d].pc
  <2>1. Marked(cmd[d], cmd'[d]) /\ (At(d, "getdb") => cmd'[d].mixed) /\ PairOf(cmd[d], hub, split)
    BY <1>1, CmdFacts DEF Step
  <2>2. At(d, "applydb") => split'
    BY DEF Overlap
  <2> QED
    BY <2>1, <2>2, MixedPair DEF Marked
<1>7. cmd'[c] = r
  BY <1>1 DEF Step
<1>8. PairOf(r, hub', split')
  BY <1>2, <1>4, NothingToPair DEF PairOf, Ends
<1>9. \A d \in Commands : PairOf(cmd'[d], hub', split')
  BY <1>6, <1>7, <1>8
<1>10. split' \/ \E d \in Commands : cmd'[d].pc = "applydb"
  BY <1>7
<1>11. \A a, b \in Commands : a # b /\ cmd'[a].pc = "applydb" /\ cmd'[b].pc = "applydb" => split'
  BY <1>6 DEF IInv, Pairs, Overlap, At
<1> QED
  BY <1>1, <1>4, <1>5, <1>9, <1>10, <1>11 DEF Pairs, At

LEMMA DBStored ==
  ASSUME IInv, NEW c \in Commands, At(c, "applydb"), StoreDB(c), NEW r, Ends(r), Mixing(c, r),
         split' = SplitAfter(c), era' = era
  PROVE  /\ Step(c, r) /\ hub' \in HubType /\ hub'.era <= era /\ Keyed' /\ Pairs' /\ split' \in BOOLEAN
<1>1. Step(c, r) /\ \A d \in Commands \ {c} : At(d, "getdb") => cmd'[d].mixed
  BY CmdFacts, MixingIs DEF Ends
<1>2. /\ cmd[c] \in CmdType /\ Placed(cmd[c]) /\ cmd[c].pc = "applydb" /\ PairOf(cmd[c], hub, split)
      /\ hub \in HubType /\ split \in BOOLEAN /\ hub.era <= era /\ Keyed
  BY CmdFacts DEF At, IInv
<1>3. cmd[c].db \in Doc(Databases \ {Missing}) /\ cmd[c].db.by = cmd[c].id
  <2>1. cmd[c].db \in Doc(Databases) /\ cmd[c].db.val # Missing /\ cmd[c].db.by = cmd[c].id
    BY <1>2 DEF Placed, CmdType
  <2> QED
    BY <2>1 DEF Doc
<1>4. hub' \in HubType /\ hub'.env = hub.env /\ hub'.db = cmd[c].db /\ hub'.key = hub.key /\ hub'.era = hub.era
  BY <1>2, <1>3 DEF StoreDB, HubType
<1>5. hub'.era <= era /\ Keyed'
  BY <1>2, <1>4 DEF Keyed
<1>6. \A d \in Commands \ {c} : At(d, "applydb") => split'
  BY DEF IInv, Pairs, SplitAfter, Overlap
<1>7. ASSUME NEW d \in Commands \ {c}
      PROVE  PairOf(cmd'[d], hub', split') /\ cmd'[d].pc = cmd[d].pc
  <2>1. Marked(cmd[d], cmd'[d]) /\ (At(d, "getdb") => cmd'[d].mixed) /\ PairOf(cmd[d], hub, split)
    BY <1>1, CmdFacts DEF Step
  <2> QED
    BY <1>6, <2>1, MixedPair DEF Marked
<1>8. cmd'[c] = r /\ r.pc # "applydb"
  BY <1>1 DEF Step, Ends
<1>9. PairOf(r, hub', split')
  BY NothingToPair DEF Ends
<1>10. \A d \in Commands : PairOf(cmd'[d], hub', split')
  BY <1>7, <1>8, <1>9
<1>11. hub'.env.by # hub'.db.by => split'
  BY <1>2, <1>3, <1>4 DEF PairOf, SplitAfter
<1>12. \A a, b \in Commands : a # b /\ cmd'[a].pc = "applydb" /\ cmd'[b].pc = "applydb" => split'
  BY <1>6, <1>7, <1>8 DEF At
<1>13. split' \in BOOLEAN
  BY <1>2 DEF SplitAfter
<1> QED
  BY <1>1, <1>4, <1>5, <1>10, <1>11, <1>12, <1>13 DEF Pairs, At

LEMMA ApplyEnvStep ==
  ASSUME IInv, NEW c \in Commands, ApplyEnv(c)
  PROVE  IInv'
<1>1. /\ At(c, "applyenv") /\ StoreEnv(c) /\ Mixing(c, [cmd[c] EXCEPT !.pc = "applydb"])
      /\ split' = (split \/ Overlap(c)) /\ UNCHANGED <<svc, files, era, counts, reason>>
  BY DEF ApplyEnv
<1>2. PICK r : r = [cmd[c] EXCEPT !.pc = "applydb"]
  OBVIOUS
<1>3. cmd[c] \in CmdType /\ Placed(cmd[c]) /\ cmd[c].pc = "applyenv" /\ Sound(cmd[c], svc, env, main, wal)
      /\ split \in BOOLEAN /\ reason \in BOOLEAN
  BY <1>1, CmdFacts DEF At
<1>4. /\ r \in CmdType /\ r.pc = "applydb" /\ r.kind = cmd[c].kind /\ r.stop = cmd[c].stop
      /\ r.defer = cmd[c].defer /\ r.id = cmd[c].id /\ r.base = cmd[c].base /\ r.disturbed = cmd[c].disturbed
      /\ r.env = cmd[c].env /\ r.db = cmd[c].db
  BY <1>2, <1>3 DEF CmdType, Pcs, Calls
<1>5. Placed(r) /\ r.kind = "backup"
  BY <1>3, <1>4 DEF Placed
<1>6. Sound(r, svc, env, main, wal)
  BY <1>3, <1>4 DEF Sound
<1>7. split' \in BOOLEAN
  BY <1>1, <1>3 DEF Overlap
<1>8. Mixing(c, r)
  BY <1>1, <1>2
<1>9. Step(c, r) /\ hub' \in HubType /\ hub'.era <= era /\ Keyed' /\ Pairs'
  BY <1>1, <1>4, <1>5, <1>7, <1>8, EnvStored
<1> QED
  BY <1>1, <1>3, <1>4, <1>5, <1>6, <1>7, <1>9, HubStep

LEMMA ReturnedEnds ==
  ASSUME IInv, NEW c \in Commands
  PROVE  Ends(Returned(cmd[c])) /\ Returned(cmd[c]).defer = cmd[c].defer
BY CmdFacts, ReturnedIs DEF Ends

LEMMA EndsQuietly ==
  ASSUME NEW r, Ends(r)
  PROVE  /\ Placed(r) /\ r \in CmdType /\ r.pc # "applydb" /\ \A h, s : PairOf(r, h, s)
         /\ \A up, e, m, w : Sound(r, up, e, m, w)
BY NothingToPair, NothingToRely DEF Ends

LEMMA ApplyDBStep ==
  ASSUME IInv, NEW c \in Commands, ApplyDB(c)
  PROVE  IInv'
<1>1. /\ At(c, "applydb") /\ StoreDB(c) /\ Mixing(c, Returned(cmd[c]))
      /\ split' = SplitAfter(c) /\ UNCHANGED <<svc, files, era, counts, reason>>
  BY DEF ApplyDB
<1>2. PICK r : r = Returned(cmd[c])
  OBVIOUS
<1>3. Ends(r) /\ r.defer = cmd[c].defer
  BY <1>2, ReturnedEnds
<1>4. Mixing(c, r)
  BY <1>1, <1>2
<1>5. Step(c, r) /\ hub' \in HubType /\ hub'.era <= era /\ Keyed' /\ Pairs' /\ split' \in BOOLEAN
  BY <1>1, <1>3, <1>4, DBStored
<1>6. reason' \in BOOLEAN /\ reason' = reason
  BY <1>1, CmdFacts
<1>7. Placed(r) /\ Sound(r, svc, env, main, wal)
  BY <1>3, EndsQuietly
<1> QED
  BY <1>1, <1>3, <1>5, <1>6, <1>7, HubStep

(* The answer of hubd, or the command, is lost.                            *)
LEMMA UnheardStep ==
  ASSUME IInv, NEW c \in Commands, NEW r, Ends(r), AppliedUnheard(c, r), reason' \in BOOLEAN,
         ~svc /\ (reason \/ (cmd[c].defer /\ ~r.defer)) => reason'
  PROVE  IInv'
<1>1. Mixing(c, r) /\ UNCHANGED <<svc, files, era, counts>>
  BY DEF AppliedUnheard
<1>2. Placed(r) /\ r \in CmdType /\ Sound(r, svc, env, main, wal)
  BY EndsQuietly
<1>3. Step(c, r) /\ hub' \in HubType /\ hub'.era <= era /\ Keyed' /\ Pairs' /\ split' \in BOOLEAN
  <2>1. CASE At(c, "applyenv") /\ StoreEnv(c) /\ split' = TRUE
    BY <1>1, <1>2, <2>1, EnvStored
  <2>2. CASE At(c, "applydb") /\ StoreDB(c) /\ split' = SplitAfter(c)
    BY <1>1, <2>2, DBStored
  <2> QED
    BY <2>1, <2>2 DEF AppliedUnheard
<1> QED
  BY <1>1, <1>2, <1>3, HubStep

-----------------------------------------------------------------------------
(* Steps that write to the files                                           *)

LEMMA WriteStep ==
  ASSUME IInv, NEW c \in Commands, cmd[c].pc \in Calls \cup {"remove"}, cmd[c].pc # "applydb",
         NEW r \in CmdType, Placed(r), r.pc # "applydb", r.defer = cmd[c].defer, Writes(c, r),
         PairOf(r, hub, split), FilesType', UNCHANGED reason, Sound(r, svc, env', main', wal')
  PROVE  IInv'
<1>1. Step(c, r) /\ \A d \in Commands \ {c} : ~At(d, "idle") => cmd'[d].disturbed
  BY CmdFacts, OthersIs DEF Writes
<1>2. UNCHANGED <<svc, hub, era, counts, split>>
  BY DEF Writes
<1>3. \A d \in Commands : Sound(cmd'[d], svc', env', main', wal')
  <2>1. ASSUME NEW d \in Commands \ {c}
        PROVE  cmd'[d].pc = "idle" \/ cmd'[d].disturbed
    BY <1>1 DEF Step, Marked, At
  <2>2. \A d \in Commands \ {c} : Sound(cmd'[d], svc', env', main', wal')
    BY <2>1, NothingToRely
  <2>3. Sound(cmd'[c], svc', env', main', wal')
    BY <1>1, <1>2 DEF Step
  <2> QED
    BY <2>2, <2>3
<1>4. /\ reason' \in BOOLEAN /\ counts' \in [starts : 0..MaxStarts, txns : 0..MaxTxns, edits : 0..MaxEdits]
      /\ split' = (split \/ At(c, "applydb"))
  BY <1>2, CmdFacts DEF At
<1>5. DownHasReason'
  BY <1>1, <1>2, DownStep DEF IInv
<1>6. PairOf(r, hub, split')
  BY <1>2
<1> QED
  BY <1>1, <1>2, <1>3, <1>4, <1>5, <1>6, HostStep

(* The record of a restore that goes on from one write to the next.        *)
Gone(r, pc, kept) == [r EXCEPT !.pc = pc, !.kept = kept]

LEMMA GoneOn ==
  ASSUME IInv, NEW c \in Commands, cmd[c].pc \in {"writeenv", "remove", "truncate"},
         NEW pc \in {"remove", "truncate", "writedb"}, NEW kept \in BOOLEAN, NEW r, r = Gone(cmd[c], pc, kept)
  PROVE  /\ r \in CmdType /\ Placed(r) /\ PairOf(r, hub, split)
         /\ r.pc = pc /\ r.kind = "restore" /\ r.stop = cmd[c].stop /\ r.defer = cmd[c].defer
         /\ r.disturbed = cmd[c].disturbed /\ r.env = cmd[c].env /\ r.db = cmd[c].db /\ r.kept = kept
<1>1. cmd[c] \in CmdType /\ Placed(cmd[c]) /\ PairOf(cmd[c], hub, split)
  BY CmdFacts
<1>2. /\ r \in CmdType /\ r.pc = pc /\ r.kind = cmd[c].kind /\ r.stop = cmd[c].stop /\ r.defer = cmd[c].defer
      /\ r.disturbed = cmd[c].disturbed /\ r.env = cmd[c].env /\ r.db = cmd[c].db /\ r.mixed = cmd[c].mixed
      /\ r.kept = kept
  BY <1>1 DEF Gone, CmdType, Pcs, Calls
<1>3. r.kind = "restore"
  BY <1>1, <1>2 DEF Placed
<1>4. Placed(r)
  BY <1>1, <1>2, <1>3 DEF Placed
<1>5. PairOf(r, hub, split)
  BY <1>1, <1>2, <1>3 DEF PairOf
<1> QED
  BY <1>2, <1>3, <1>4, <1>5

LEMMA WriteEnvStep ==
  ASSUME IInv, NEW c \in Commands, WriteEnv(c)
  PROVE  IInv'
<1>1. /\ cmd[c].pc = "writeenv" /\ env' = Trimmed(cmd[c].env.val) /\ UNCHANGED <<main, wal, reason>> /\ svc' = svc
      /\ Writes(c, [cmd[c] EXCEPT !.pc = "remove"])
  BY DEF WriteEnv, At, Writes
<1>2. PICK r : r = Gone(cmd[c], "remove", cmd[c].kept)
  OBVIOUS
<1>3. cmd[c] \in CmdType /\ FilesType /\ Sound(cmd[c], svc, env, main, wal)
  BY CmdFacts
<1>4. /\ r \in CmdType /\ Placed(r) /\ PairOf(r, hub, split)
      /\ r.pc = "remove" /\ r.kind = "restore" /\ r.stop = cmd[c].stop /\ r.defer = cmd[c].defer
      /\ r.disturbed = cmd[c].disturbed /\ r.env = cmd[c].env /\ r.db = cmd[c].db
      /\ r.kept = cmd[c].kept
  <2>1. cmd[c].kept \in BOOLEAN
    BY CmdFacts DEF CmdType
  <2> QED
    BY <1>1, <1>2, <2>1, GoneOn
<1>5. Writes(c, r)
  <2>1. cmd[c] \in CmdType
    BY CmdFacts
  <2>2. r = [cmd[c] EXCEPT !.pc = "remove"]
    BY <1>2, <2>1, Zenon DEF Gone, CmdType
  <2> QED
    BY <1>1, <2>2
<1>6. Trimmed(cmd[c].env.val) \in Envs
  <2>1. cmd[c].env.val \in Envs
    BY <1>3 DEF CmdType, Doc
  <2> QED
    BY <2>1 DEF Trimmed, Envs, Texts
<1>7. FilesType'
  BY <1>1, <1>3, <1>6 DEF FilesType
<1>8. Sound(r, svc, env', main', wal')
  BY <1>1, <1>3, <1>4 DEF Sound
<1>9. cmd[c].pc \in Calls \cup {"remove"} /\ cmd[c].pc # "applydb" /\ r.pc # "applydb" /\ UNCHANGED reason
  BY <1>1, <1>4 DEF Calls
<1> QED
  BY <1>4, <1>5, <1>7, <1>8, <1>9, WriteStep

LEMMA RemoveStep ==
  ASSUME IInv, NEW c \in Commands, Remove(c)
  PROVE  IInv'
<1>1. PICK fails \in BOOLEAN :
        /\ cmd[c].pc = "remove" /\ wal' = (IF fails THEN wal ELSE {}) /\ UNCHANGED <<env, main, reason>> /\ svc' = svc
        /\ Writes(c, [cmd[c] EXCEPT !.pc = "truncate", !.kept = fails /\ wal # {}])
  BY DEF Remove, At, Writes
<1> DEFINE kept == fails /\ wal # {}
<1>2. PICK r : r = Gone(cmd[c], "truncate", kept)
  OBVIOUS
<1>3. FilesType /\ Sound(cmd[c], svc, env, main, wal)
  BY CmdFacts
<1>4. /\ r \in CmdType /\ Placed(r) /\ PairOf(r, hub, split)
      /\ r.pc = "truncate" /\ r.kind = "restore" /\ r.stop = cmd[c].stop /\ r.defer = cmd[c].defer
      /\ r.disturbed = cmd[c].disturbed /\ r.env = cmd[c].env /\ r.db = cmd[c].db
      /\ r.kept = kept
  <2>1. kept \in BOOLEAN
    OBVIOUS
  <2> HIDE DEF kept
  <2> QED
    BY <1>1, <1>2, <2>1, GoneOn
<1>5. Writes(c, r)
  BY <1>1, <1>2 DEF Gone
<1>6. FilesType'
  BY <1>1, <1>3 DEF FilesType
<1>7. Sound(r, svc, env', main', wal')
  BY <1>1, <1>3, <1>4 DEF Sound
<1>8. cmd[c].pc \in Calls \cup {"remove"} /\ cmd[c].pc # "applydb" /\ r.pc # "applydb" /\ UNCHANGED reason
  BY <1>1, <1>4
<1> QED
  BY <1>4, <1>5, <1>6, <1>7, <1>8, WriteStep

LEMMA TruncateStep ==
  ASSUME IInv, NEW c \in Commands, Truncate(c)
  PROVE  IInv'
<1>1. /\ cmd[c].pc = "truncate" /\ main' = Torn /\ UNCHANGED <<env, wal, reason>> /\ svc' = svc
      /\ Writes(c, [cmd[c] EXCEPT !.pc = "writedb"])
  BY DEF Truncate, At, Writes
<1>2. PICK r : r = Gone(cmd[c], "writedb", cmd[c].kept)
  OBVIOUS
<1>3. FilesType /\ Sound(cmd[c], svc, env, main, wal)
  BY CmdFacts
<1>4. /\ r \in CmdType /\ Placed(r) /\ PairOf(r, hub, split)
      /\ r.pc = "writedb" /\ r.kind = "restore" /\ r.stop = cmd[c].stop /\ r.defer = cmd[c].defer
      /\ r.disturbed = cmd[c].disturbed /\ r.env = cmd[c].env /\ r.db = cmd[c].db
      /\ r.kept = cmd[c].kept
  <2>1. cmd[c].kept \in BOOLEAN
    BY CmdFacts DEF CmdType
  <2> QED
    BY <1>1, <1>2, <2>1, GoneOn
<1>5. Writes(c, r)
  <2>1. cmd[c] \in CmdType
    BY CmdFacts
  <2>2. r = [cmd[c] EXCEPT !.pc = "writedb"]
    BY <1>2, <2>1, Zenon DEF Gone, CmdType
  <2> QED
    BY <1>1, <2>2
<1>6. Torn \in Databases /\ Torn # Missing
  BY MarksAssumption, Zenon DEF Databases
<1>7. FilesType'
  BY <1>1, <1>3, <1>6 DEF FilesType
<1>8. Sound(r, svc, env', main', wal')
  BY <1>1, <1>3, <1>4 DEF Sound
<1>9. cmd[c].pc \in Calls \cup {"remove"} /\ cmd[c].pc # "applydb" /\ r.pc # "applydb" /\ UNCHANGED reason
  BY <1>1, <1>4 DEF Calls
<1> QED
  BY <1>4, <1>5, <1>7, <1>8, <1>9, WriteStep

(* A write after which c is done.                                          *)
LEMMA LastWrite ==
  ASSUME IInv, NEW c \in Commands, cmd[c].pc \in {"writeenv", "writedb"},
         Writes(c, Returned(cmd[c])), FilesType', UNCHANGED reason
  PROVE  IInv'
<1>1. PICK r : r = Returned(cmd[c])
  OBVIOUS
<1>2. Ends(r) /\ r.defer = cmd[c].defer
  BY <1>1, ReturnedEnds
<1>3. Placed(r) /\ r \in CmdType /\ r.pc # "applydb" /\ PairOf(r, hub, split) /\ Sound(r, svc, env', main', wal')
  BY <1>2, EndsQuietly
<1>4. Writes(c, r)
  BY <1>1
<1> QED
  BY <1>2, <1>3, <1>4, WriteStep DEF Calls

LEMMA WriteDBStep ==
  ASSUME IInv, NEW c \in Commands, WriteDB(c)
  PROVE  IInv'
<1>1. cmd[c].pc = "writedb" /\ Writes(c, Returned(cmd[c])) /\ UNCHANGED <<env, wal, reason>> /\ svc' = svc
      /\ main' \in {cmd[c].db.val, Torn}
  BY DEF WriteDB, At, Writes
<1>2. cmd[c] \in CmdType /\ Placed(cmd[c]) /\ FilesType
  BY CmdFacts
<1>3. cmd[c].db.val \in Databases /\ cmd[c].db.val # Missing
  BY <1>1, <1>2 DEF CmdType, Doc, Placed
<1>4. Torn \in Databases /\ Torn # Missing
  BY MarksAssumption, Zenon DEF Databases
<1>5. FilesType'
  BY <1>1, <1>2, <1>3, <1>4 DEF FilesType
<1> QED
  BY <1>1, <1>5, LastWrite

LEMMA FailStep ==
  ASSUME IInv, NEW c \in Commands, Fail(c)
  PROVE  IInv'
<1>1. cmd[c].pc \in Calls /\ reason' = reason
  BY DEF Fail
<1>2. CASE Set(c, Failed(cmd[c])) /\ split' = (split \/ At(c, "applydb")) /\ UNCHANGED <<svc, files, hub, era, counts>>
  BY <1>1, <1>2, FailQuietly
<1>3. CASE AppliedUnheard(c, Failed(cmd[c]))
  <2>1. PICK r : r = Returned(cmd[c])
    OBVIOUS
  <2>2. Ends(r) /\ r.defer = cmd[c].defer
    BY <2>1, ReturnedEnds
  <2>3. AppliedUnheard(c, r)
    BY <1>3, <2>1 DEF Failed
  <2>4. reason' \in BOOLEAN
    BY <1>1, CmdFacts
  <2> QED
    BY <1>1, <2>2, <2>3, <2>4, UnheardStep
<1>4. CASE At(c, "writeenv") /\ env' = Torn /\ Writes(c, Failed(cmd[c])) /\ UNCHANGED <<main, wal>>
  <2>1. cmd[c].pc = "writeenv" /\ Writes(c, Returned(cmd[c])) /\ svc' = svc
    BY <1>4 DEF At, Failed, Writes
  <2>2. FilesType'
    <3>1. FilesType /\ Torn \in Envs
      BY CmdFacts, Zenon DEF Envs
    <3> QED
      BY <1>4, <2>1, <3>1 DEF FilesType
  <2> QED
    BY <1>1, <2>1, <2>2, LastWrite
<1> QED
  BY <1>2, <1>3, <1>4 DEF Fail

LEMMA KillStep ==
  ASSUME IInv, NEW c \in Commands, Kill(c)
  PROVE  IInv'
<1>1. Ends(Idle) /\ ~Idle.defer
  BY IdleIs DEF Ends
<1>2. Placed(Idle) /\ Idle \in CmdType /\ Idle.pc # "applydb" /\ PairOf(Idle, hub, split')
      /\ Sound(Idle, svc, env, main, wal)
  BY <1>1, EndsQuietly
<1>3. reason' = (reason \/ (cmd[c].defer /\ ~svc)) /\ reason \in BOOLEAN
  BY CmdFacts DEF Kill
<1>4. reason' \in BOOLEAN /\ (~svc /\ (reason \/ cmd[c].defer) => reason')
  BY <1>3, CmdFacts DEF CmdType, FilesType
<1>5. CASE Set(c, Idle) /\ split' = (split \/ At(c, "applydb")) /\ UNCHANGED <<svc, files, hub, era, counts>>
  <2>1. Step(c, Idle) /\ counts' \in [starts : 0..MaxStarts, txns : 0..MaxTxns, edits : 0..MaxEdits]
    BY <1>2, <1>5, CmdFacts, SetIs
  <2> QED
    BY <1>1, <1>2, <1>4, <1>5, <2>1, StillStep
<1>6. CASE AppliedUnheard(c, Idle)
  BY <1>1, <1>4, <1>6, UnheardStep
<1> QED
  BY <1>5, <1>6 DEF Kill

-----------------------------------------------------------------------------
(* The service stops and starts                                            *)

(* A clean stop leaves the content as it is; after another, a backup       *)
(* relies on nothing.                                                      *)
LEMMA StopKeeps ==
  ASSUME FilesType, NEW clean \in BOOLEAN,
         IF svc /\ clean THEN Checkpointed ELSE UNCHANGED <<main, wal>>
  PROVE  /\ main' \in Databases /\ wal' \subseteq 1..MaxTxns /\ (main' = Missing => wal' = {})
         /\ wal' = {} \/ wal' = wal
         /\ clean /\ (~svc => wal = {}) => wal' = {}
         /\ clean /\ main # Torn => main' # Torn /\ Content(main', wal') = Content(main, wal)
<1>1. CASE svc /\ clean /\ Whole(main)
  <2>1. main' = main \cup wal /\ wal' = {}
    BY <1>1 DEF Checkpointed
  <2>2. main' \in Databases /\ Whole(main')
    BY <1>1, <2>1, ContentIs
  <2>3. Content(main', wal') = Content(main, wal)
    BY <1>1, <2>1, <2>2 DEF Content
  <2> QED
    BY <2>1, <2>2, <2>3 DEF Whole
<1>2. CASE svc /\ clean /\ ~Whole(main)
  <2>1. main' = main /\ wal' = {}
    BY <1>2 DEF Checkpointed
  <2> QED
    BY <1>2, <2>1 DEF FilesType, Content
<1>3. CASE ~(svc /\ clean)
  <2>1. main' = main /\ wal' = wal
    BY <1>3
  <2> QED
    BY <1>3, <2>1 DEF FilesType
<1> QED
  BY <1>1, <1>2, <1>3

LEMMA StopSound ==
  ASSUME FilesType, NEW clean \in BOOLEAN, IF svc /\ clean THEN Checkpointed ELSE UNCHANGED <<main, wal>>,
         NEW r, Sound(r, svc, env, main, wal), clean \/ r.kind # "backup"
  PROVE  Sound(r, FALSE, env, main', wal')
<1> SUFFICES ASSUME ~r.disturbed
             PROVE  Sound(r, FALSE, env, main', wal')
  BY DEF Sound
<1>1. r.kind = "backup" /\ r.pc \in {"readenv", "stop", "snapshot"} =>
        main' # Torn /\ r.base \subseteq Content(main', wal') /\ wal' = {}
  <2> SUFFICES ASSUME r.kind = "backup", r.pc \in {"readenv", "stop", "snapshot"}
               PROVE  main' # Torn /\ r.base \subseteq Content(main', wal') /\ wal' = {}
    OBVIOUS
  <2>1. clean /\ main # Torn /\ r.base \subseteq Content(main, wal) /\ (~svc => wal = {})
    BY DEF Sound
  <2> QED
    BY <2>1, StopKeeps
<1>2. r.pc \in {"truncate", "writedb"} => wal' = {} \/ r.kept
  BY StopKeeps DEF Sound
<1> QED
  BY <1>1, <1>2 DEF Sound

(* c has the service stopped and goes on as r.                             *)
LEMMA StoppedStep ==
  ASSUME IInv, NEW c \in Commands, At(c, "stop"), NEW clean \in BOOLEAN, NEW r \in CmdType, Placed(r),
         r.pc # "applydb", PairOf(r, hub, split), Stopped(c, r, clean), reason' \in BOOLEAN,
         reason' \/ (reason' = reason /\ r.defer),
         Sound(cmd[c], FALSE, env, main', wal') => Sound(r, FALSE, env, main', wal'),
         r.pc = "idle" \/ r.kind = cmd[c].kind
  PROVE  IInv'
<1>1. /\ svc' = FALSE /\ UNCHANGED <<env, hub, era, counts, split>>
      /\ IF svc /\ clean THEN Checkpointed ELSE UNCHANGED <<main, wal>>
  BY DEF Stopped
<1>2. cmd \in [Commands -> CmdType] /\ FilesType
  BY CmdFacts
<1>3. /\ cmd' \in [Commands -> CmdType] /\ Marked(r, cmd'[c])
      /\ \A d \in Commands \ {c} : Marked(cmd[d], cmd'[d])
      /\ ~clean => \A d \in Commands : cmd'[d].kind = "backup" /\ cmd'[d].pc # "idle" => cmd'[d].disturbed
  BY <1>2, StoppedIs DEF At
<1>4. PICK q : q = cmd'[c]
  OBVIOUS
<1>5. Step(c, q) /\ Marked(r, q)
  BY <1>3, <1>4 DEF Step
<1>6. Placed(q) /\ q.pc # "applydb" /\ PairOf(q, hub, split)
  BY <1>5, MarkedPlaced, MarkedPair DEF Marked
<1>7. FilesType'
  BY <1>1, <1>2, StopKeeps DEF FilesType
<1>8. ASSUME NEW d \in Commands
      PROVE  Sound(cmd'[d], FALSE, env, main', wal')
  <2>1. CASE ~clean /\ cmd'[d].kind = "backup"
    BY <1>3, <2>1, NothingToRely
  <2>2. CASE d # c /\ (clean \/ cmd'[d].kind # "backup")
    <3>1. Marked(cmd[d], cmd'[d]) /\ Sound(cmd[d], svc, env, main, wal)
      BY <1>3, <2>2, CmdFacts
    <3>2. Sound(cmd[d], FALSE, env, main', wal')
      BY <1>1, <1>2, <2>2, <3>1, StopSound DEF Marked
    <3> QED
      BY <3>1, <3>2, MarkedSound
  <2>3. CASE d = c /\ (clean \/ cmd'[d].kind # "backup")
    <3>1. CASE r.pc = "idle"
      BY <1>3, <2>3, <3>1, NothingToRely DEF Marked
    <3>2. CASE r.kind = cmd[c].kind
      <4>1. clean \/ cmd[c].kind # "backup"
        BY <1>3, <2>3, <3>2 DEF Marked
      <4>2. Sound(cmd[c], svc, env, main, wal)
        BY CmdFacts
      <4>3. Sound(cmd[c], FALSE, env, main', wal')
        BY <1>1, <1>2, <4>1, <4>2, StopSound
      <4>4. Sound(r, FALSE, env, main', wal') /\ Marked(r, cmd'[d])
        BY <1>3, <2>3, <4>3
      <4> QED
        BY <4>4, MarkedSound
    <3> QED
      BY <3>1, <3>2
  <2> QED
    BY <2>1, <2>2, <2>3
<1>9. \A d \in Commands : Sound(cmd'[d], svc', env', main', wal')
  BY <1>1, <1>8
<1>10. DownHasReason'
  BY <1>3 DEF DownHasReason, Marked
<1>11. /\ UNCHANGED <<hub, era>> /\ split' = (split \/ At(c, "applydb")) /\ PairOf(q, hub, split')
       /\ counts' \in [starts : 0..MaxStarts, txns : 0..MaxTxns, edits : 0..MaxEdits]
  BY <1>1, <1>6, CmdFacts DEF At
<1> QED
  BY <1>5, <1>6, <1>7, <1>9, <1>10, <1>11, HostStep

LEMMA StopStep ==
  ASSUME IInv, NEW c \in Commands, Stop(c)
  PROVE  IInv'
<1> DEFINE pc == IF cmd[c].kind = "backup" THEN "snapshot" ELSE "writeenv"
<1>1. PICK clean \in BOOLEAN : Stopped(c, [cmd[c] EXCEPT !.pc = pc, !.defer = TRUE], clean)
  BY DEF Stop
<1>2. PICK r : r = [cmd[c] EXCEPT !.pc = pc, !.defer = TRUE]
  OBVIOUS
<1>3. cmd[c].pc = "stop" /\ reason' = reason /\ reason \in BOOLEAN /\ Stopped(c, r, clean)
  BY <1>1, <1>2, CmdFacts DEF Stop, At
<1>4. cmd[c] \in CmdType /\ Placed(cmd[c]) /\ PairOf(cmd[c], hub, split)
  BY CmdFacts
<1>5. /\ r \in CmdType /\ r.pc = pc /\ r.kind = cmd[c].kind /\ r.stop = cmd[c].stop /\ r.defer
      /\ r.id = cmd[c].id /\ r.base = cmd[c].base /\ r.disturbed = cmd[c].disturbed
      /\ r.env = cmd[c].env /\ r.db = cmd[c].db /\ r.mixed = cmd[c].mixed
  BY <1>2, <1>4 DEF CmdType, Pcs, Calls
<1>6. cmd[c].kind \in {"backup", "restore"} /\ cmd[c].stop
  BY <1>3, <1>4 DEF CmdType, Placed
<1>7. Placed(r) /\ r.pc # "applydb"
  BY <1>3, <1>4, <1>5, <1>6 DEF Placed
<1>8. PairOf(r, hub, split)
  BY <1>3, <1>4, <1>5, <1>6 DEF PairOf
<1>9. Sound(cmd[c], FALSE, env, main', wal') => Sound(r, FALSE, env, main', wal')
  BY <1>3, <1>5, <1>6 DEF Sound
<1> QED
  BY <1>3, <1>5, <1>7, <1>8, <1>9, StoppedStep DEF At

LEMMA StopFailsStep ==
  ASSUME IInv, NEW c \in Commands, StopFails(c)
  PROVE  IInv'
<1>1. At(c, "stop") /\ Stopped(c, Idle, TRUE) /\ reason' = TRUE
  BY DEF StopFails
<1>2. Ends(Idle) /\ Idle.pc = "idle"
  BY IdleIs DEF Ends
<1>3. Idle \in CmdType /\ Placed(Idle) /\ Idle.pc # "applydb" /\ PairOf(Idle, hub, split)
      /\ Sound(Idle, FALSE, env, main', wal')
  BY <1>2, EndsQuietly
<1> QED
  BY <1>1, <1>2, <1>3, StoppedStep

(* The service comes up: no command relies on anything.                    *)
LEMMA UpSound ==
  ASSUME IInv, NEW c, \A d \in Commands \ {c} : Marked(cmd[d], cmd'[d]) /\ (~At(d, "idle") => cmd'[d].disturbed)
  PROVE  \A d \in Commands \ {c} : Sound(cmd'[d], svc', env', main', wal')
BY NothingToRely DEF Marked, At

LEMMA UpFiles ==
  ASSUME IInv, ComesUp
  PROVE  FilesType' /\ DownHasReason' /\ reason' \in BOOLEAN
<1>1. FilesType /\ {} \in Databases /\ {} # Missing
  BY MarksAssumption DEF IInv, Shape, Databases
<1> QED
  BY <1>1 DEF ComesUp, FilesType, DownHasReason

LEMMA StartStep ==
  ASSUME IInv, NEW c \in Commands, Start(c)
  PROVE  IInv'
<1>1. Ends(Idle)
  BY IdleIs DEF Ends
<1>2. Placed(Idle) /\ Idle \in CmdType /\ Idle.pc # "applydb" /\ (\A h, s : PairOf(Idle, h, s))
      /\ \A up, e, m, w : Sound(Idle, up, e, m, w)
  BY <1>1, EndsQuietly
<1>3. /\ UNCHANGED <<hub, era>> /\ split' = (split \/ At(c, "applydb"))
      /\ counts' \in [starts : 0..MaxStarts, txns : 0..MaxTxns, edits : 0..MaxEdits]
  BY CmdFacts DEF Start, At
<1>4. CASE svc
  <2>1. UNCHANGED <<svc, files, reason>> /\ Set(c, Idle)
    BY <1>4 DEF Start
  <2>2. reason' \in BOOLEAN
    BY <2>1, CmdFacts
  <2>3. Step(c, Idle)
    BY <1>2, <2>1, CmdFacts, SetIs
  <2> QED
    BY <1>2, <1>3, <1>4, <2>1, <2>2, <2>3, StillStep
<1>5. CASE ~svc
  <2>1. ComesUp /\ DisturbOthers(c, Idle)
    BY <1>5 DEF Start
  <2>2. Step(c, Idle) /\ \A d \in Commands \ {c} : ~At(d, "idle") => cmd'[d].disturbed
    BY <1>2, <2>1, CmdFacts, OthersIs
  <2>3. FilesType' /\ DownHasReason' /\ reason' \in BOOLEAN
    BY <2>1, UpFiles
  <2>4. \A d \in Commands \ {c} : Sound(cmd'[d], svc', env', main', wal')
    BY <2>2, UpSound DEF Step
  <2>5. Sound(cmd'[c], svc', env', main', wal')
    BY <1>2, <2>2 DEF Step
  <2>6. \A d \in Commands : Sound(cmd'[d], svc', env', main', wal')
    BY <2>4, <2>5
  <2> QED
    BY <1>2, <1>3, <2>2, <2>3, <2>6, HostStep
<1> QED
  BY <1>4, <1>5

LEMMA StartFailsStep ==
  ASSUME IInv, NEW c \in Commands, StartFails(c)
  PROVE  IInv'
<1>1. Ends(Idle)
  BY IdleIs DEF Ends
<1>2. Placed(Idle) /\ Idle \in CmdType /\ Idle.pc # "applydb" /\ PairOf(Idle, hub, split')
      /\ Sound(Idle, svc, env, main, wal)
  BY <1>1, EndsQuietly
<1>3. /\ UNCHANGED <<svc, files, hub, era>> /\ reason' = ~svc /\ Set(c, Idle)
      /\ counts' \in [starts : 0..MaxStarts, txns : 0..MaxTxns, edits : 0..MaxEdits]
      /\ split' = (split \/ At(c, "applydb"))
  BY CmdFacts DEF StartFails, At
<1>4. Step(c, Idle)
  BY <1>2, <1>3, CmdFacts, SetIs
<1>5. reason' \in BOOLEAN
  BY <1>3
<1> QED
  BY <1>2, <1>3, <1>4, <1>5, StillStep

-----------------------------------------------------------------------------
(* Steps of the host                                                       *)

LEMMA OutsideStep ==
  ASSUME IInv, cmd' \in [Commands -> CmdType], \A d \in Commands : Marked(cmd[d], cmd'[d]),
         UNCHANGED <<hub, split>>, era' \in Nat, era <= era', FilesType', reason' \in BOOLEAN,
         counts' \in [starts : 0..MaxStarts, txns : 0..MaxTxns, edits : 0..MaxEdits],
         svc' \/ (~svc /\ reason' = reason),
         \A d \in Commands : Sound(cmd'[d], svc', env', main', wal')
  PROVE  IInv'
<1>1. Shape /\ Pairs /\ Keyed /\ DownHasReason
  BY DEF IInv
<1>2. \A d \in Commands : Placed(cmd'[d])
  BY <1>1, MarkedPlaced DEF Shape
<1>3. hub' \in HubType /\ hub'.era <= era'
  <2>1. hub.era \in Nat /\ hub.era <= era /\ era \in Nat
    BY <1>1 DEF Shape, HubType
  <2> QED
    BY <1>1, <2>1 DEF Shape
<1>4. Shape'
  BY <1>1, <1>2, <1>3 DEF Shape
<1>5. \A d \in Commands : PairOf(cmd'[d], hub', split')
  BY <1>1, MarkedPair DEF Pairs
<1>6. \A d \in Commands : cmd'[d].pc = cmd[d].pc /\ cmd'[d].defer = cmd[d].defer
  BY DEF Marked
<1>7. Pairs'
  BY <1>1, <1>5, <1>6 DEF Pairs, At
<1>8. DownHasReason'
  BY <1>1, <1>6 DEF DownHasReason
<1>9. Keyed'
  BY <1>1 DEF Keyed
<1> QED
  BY <1>4, <1>7, <1>8, <1>9 DEF IInv

LEMMA SameCommands ==
  ASSUME IInv, UNCHANGED cmd
  PROVE  cmd' \in [Commands -> CmdType] /\ \A d \in Commands : Marked(cmd[d], cmd'[d])
BY CmdFacts DEF IInv, Shape, Marked

LEMMA RotateStep ==
  ASSUME IInv, Rotate
  PROVE  IInv'
<1>1. era' = era + 1 /\ UNCHANGED <<svc, env, main, wal, hub, cmd, counts, split, reason>>
  BY DEF Rotate, files
<1>2. Shape
  BY DEF IInv
<1>3. era' \in Nat /\ era <= era' /\ FilesType' /\ reason' \in BOOLEAN
      /\ counts' \in [starts : 0..MaxStarts, txns : 0..MaxTxns, edits : 0..MaxEdits]
  BY <1>1, <1>2 DEF Shape, FilesType
<1>4. svc' \/ (~svc /\ reason' = reason)
  BY <1>1, <1>2 DEF Shape, FilesType
<1>5. \A d \in Commands : Sound(cmd'[d], svc', env', main', wal')
  BY <1>1 DEF IInv
<1>6. cmd' \in [Commands -> CmdType] /\ \A d \in Commands : Marked(cmd[d], cmd'[d])
  BY <1>1, SameCommands
<1> QED
  BY <1>1, <1>3, <1>4, <1>5, <1>6, OutsideStep

(* A service that runs adds to the content, or moves it to the main file.  *)
LEMMA ServiceStep ==
  ASSUME IInv, svc, Whole(main), Whole(main'), main' \in Databases, wal' \subseteq 1..MaxTxns,
         main \cup wal \subseteq main' \cup wal', UNCHANGED <<svc, env, hub, era, cmd, split, reason>>,
         counts' \in [starts : 0..MaxStarts, txns : 0..MaxTxns, edits : 0..MaxEdits]
  PROVE  IInv'
<1>1. Shape
  BY DEF IInv
<1>2. ASSUME NEW d \in Commands
      PROVE  Sound(cmd'[d], svc', env', main', wal')
  <2>1. Sound(cmd[d], svc, env, main, wal)
    BY DEF IInv
  <2>2. PICK r : r = cmd[d]
    OBVIOUS
  <2>3. Content(main, wal) \subseteq Content(main', wal') /\ main' # Torn
    BY DEF Content, Whole
  <2>4. Sound(r, TRUE, env, main, wal)
    BY <2>1, <2>2 DEF Sound
  <2>5. Sound(r, TRUE, env, main', wal')
    BY <2>3, <2>4 DEF Sound
  <2>6. cmd'[d] = r /\ svc' /\ env' = env
    BY <2>2
  <2> QED
    BY <2>5, <2>6 DEF Sound
<1>3. FilesType' /\ era' \in Nat /\ era <= era' /\ reason' \in BOOLEAN
  BY <1>1 DEF Shape, FilesType, Whole
<1>4. cmd' \in [Commands -> CmdType] /\ \A d \in Commands : Marked(cmd[d], cmd'[d])
  BY SameCommands
<1> QED
  BY <1>2, <1>3, <1>4, OutsideStep

LEMMA TransactionStep ==
  ASSUME IInv, Transaction
  PROVE  IInv'
<1>1. /\ svc /\ Whole(main) /\ Count("txns", MaxTxns) /\ wal' = wal \cup {counts'.txns}
      /\ UNCHANGED <<svc, env, hub, era, cmd, split, reason>> /\ main' = main
  BY DEF Transaction
<1>2. counts' \in [starts : 0..MaxStarts, txns : 0..MaxTxns, edits : 0..MaxEdits] /\ counts'.txns \in 1..MaxTxns
  BY <1>1, CountIs DEF IInv, Shape
<1>3. Whole(main') /\ main' \in Databases /\ wal' \subseteq 1..MaxTxns /\ main \cup wal \subseteq main' \cup wal'
  BY <1>1, <1>2 DEF IInv, Shape, FilesType, Whole
<1> QED
  BY <1>1, <1>2, <1>3, ServiceStep

LEMMA CheckpointStep ==
  ASSUME IInv, Checkpoint
  PROVE  IInv'
<1>1. /\ svc /\ Whole(main) /\ main' = main \cup wal /\ wal' = {}
      /\ UNCHANGED <<svc, env, hub, era, cmd, split, reason>> /\ counts' = counts
  BY DEF Checkpoint, Checkpointed
<1>2. Whole(main') /\ main' \in Databases /\ wal' \subseteq 1..MaxTxns /\ main \cup wal \subseteq main' \cup wal'
  BY <1>1, ContentIs DEF IInv, Shape
<1>3. counts' \in [starts : 0..MaxStarts, txns : 0..MaxTxns, edits : 0..MaxEdits]
  BY <1>1 DEF IInv, Shape
<1> QED
  BY <1>1, <1>2, <1>3, ServiceStep

LEMMA DisturbStep ==
  ASSUME IInv, Disturb, UNCHANGED <<hub, era, split>>, FilesType', reason' \in BOOLEAN,
         counts' \in [starts : 0..MaxStarts, txns : 0..MaxTxns, edits : 0..MaxEdits],
         svc' \/ (~svc /\ reason' = reason)
  PROVE  IInv'
<1>1. cmd' \in [Commands -> CmdType]
      /\ \A d \in Commands : Marked(cmd[d], cmd'[d]) /\ (~At(d, "idle") => cmd'[d].disturbed)
  BY CmdFacts, DisturbIs DEF IInv, Shape
<1>2. \A d \in Commands : cmd'[d].pc = "idle" \/ cmd'[d].disturbed
  BY <1>1 DEF Marked, At
<1>3. \A d \in Commands : Sound(cmd'[d], svc', env', main', wal')
  BY <1>2, NothingToRely
<1>4. era' \in Nat /\ era <= era'
  BY DEF IInv, Shape
<1> QED
  BY <1>1, <1>3, <1>4, OutsideStep

LEMMA EditEnvStep ==
  ASSUME IInv, EditEnv
  PROVE  IInv'
<1>1. /\ Count("edits", MaxEdits) /\ env' = [text |-> counts'.edits, trimmed |-> FALSE] /\ Disturb
      /\ UNCHANGED <<svc, main, wal, hub, era, split, reason>>
  BY DEF EditEnv
<1>2. Shape
  BY DEF IInv
<1>3. counts' \in [starts : 0..MaxStarts, txns : 0..MaxTxns, edits : 0..MaxEdits] /\ counts'.edits \in 0..MaxEdits
  BY <1>1, <1>2, CountIs DEF Shape
<1>4. env' \in Envs
  BY <1>1, <1>3 DEF Envs, Texts
<1>5. FilesType' /\ reason' \in BOOLEAN /\ (svc' \/ (~svc /\ reason' = reason))
  BY <1>1, <1>2, <1>4 DEF Shape, FilesType
<1> QED
  BY <1>1, <1>3, <1>5, DisturbStep

LEMMA StartByHandStep ==
  ASSUME IInv, StartByHand
  PROVE  IInv'
<1>1. ComesUp /\ Disturb /\ UNCHANGED <<hub, era, counts, split>>
  BY DEF StartByHand
<1>2. FilesType' /\ reason' \in BOOLEAN /\ svc'
  BY <1>1, UpFiles DEF ComesUp
<1>3. counts' \in [starts : 0..MaxStarts, txns : 0..MaxTxns, edits : 0..MaxEdits]
  BY <1>1 DEF IInv, Shape
<1> QED
  BY <1>1, <1>2, <1>3, DisturbStep

-----------------------------------------------------------------------------
(* The invariant                                                           *)

LEMMA InitInv == Init => IInv
<1> SUFFICES ASSUME Init
             PROVE  IInv
  OBVIOUS
<1>1. /\ wal = {} /\ era = 0 /\ cmd = [c \in Commands |-> Idle] /\ split = FALSE /\ reason = ~svc
      /\ hub = [env |-> [val |-> FirstEnv, by |-> 0], db |-> [val |-> {}, by |-> 0], key |-> 0, era |-> 0]
      /\ counts = [starts |-> 0, txns |-> 0, edits |-> 0]
  BY DEF Init
<1>2. Ends(Idle) /\ ~Idle.defer
  BY IdleIs DEF Ends
<1>3. 0 \in 0..MaxEdits /\ 0 \in 0..MaxStarts /\ 0 \in 0..MaxTxns
  BY BoundsAssumption
<1>4. {} \in Databases \ {Missing} /\ Missing \in Databases /\ Missing \in Envs /\ FirstEnv \in Envs \ {Missing}
  BY <1>3, MarksAssumption DEF Databases, Envs, FirstEnv, Texts
<1>5. FilesType
  BY <1>1, <1>4 DEF Init, FilesType
<1>6. hub \in HubType /\ hub.era <= era
  BY <1>1, <1>3, <1>4 DEF HubType, Doc
<1>7. Shape
  <2>1. cmd \in [Commands -> CmdType] /\ \A c \in Commands : Placed(cmd[c])
    BY <1>1, <1>2 DEF Ends
  <2>2. counts \in [starts : 0..MaxStarts, txns : 0..MaxTxns, edits : 0..MaxEdits]
    BY <1>1, <1>3
  <2>3. era \in Nat /\ split \in BOOLEAN /\ reason \in BOOLEAN
    BY <1>1, <1>5 DEF FilesType
  <2> QED
    BY <1>5, <1>6, <2>1, <2>2, <2>3 DEF Shape
<1>8. \A c \in Commands : cmd[c] = Idle
  BY <1>1
<1>9. Pairs
  <2>1. \A c \in Commands : PairOf(cmd[c], hub, split) /\ ~At(c, "applydb")
    BY <1>2, <1>8, EndsQuietly DEF Ends, At
  <2>2. hub.env.by = hub.db.by
    BY <1>1
  <2> QED
    BY <2>1, <2>2 DEF Pairs
<1>10. \A c \in Commands : Sound(cmd[c], svc, env, main, wal)
  BY <1>2, <1>8, EndsQuietly
<1>11. Keyed /\ DownHasReason
  BY <1>1 DEF Keyed, DownHasReason
<1> QED
  BY <1>7, <1>9, <1>10, <1>11 DEF IInv

LEMMA StutterInv == IInv /\ UNCHANGED vars => IInv'
<1> SUFFICES ASSUME IInv, UNCHANGED vars
             PROVE  IInv'
  OBVIOUS
<1>1. UNCHANGED <<svc, env, main, wal, hub, era, cmd, counts, split, reason>>
  BY DEF vars
<1>2. Shape' /\ Pairs' /\ Keyed' /\ DownHasReason'
  BY <1>1 DEF IInv, Shape, FilesType, Pairs, Keyed, DownHasReason, At
<1>3. \A c \in Commands : Sound(cmd'[c], svc', env', main', wal')
  BY <1>1 DEF IInv
<1> QED
  BY <1>2, <1>3 DEF IInv

LEMMA NextInv == IInv /\ [Next]_vars => IInv'
<1> SUFFICES ASSUME IInv, Next
             PROVE  IInv'
  BY StutterInv
<1>1. CASE Rotate
  BY <1>1, RotateStep
<1>2. CASE Transaction
  BY <1>2, TransactionStep
<1>3. CASE Checkpoint
  BY <1>3, CheckpointStep
<1>4. CASE EditEnv
  BY <1>4, EditEnvStep
<1>5. CASE StartByHand
  BY <1>5, StartByHandStep
<1>6. ASSUME NEW c \in Commands, Begin(c)
      PROVE  IInv'
  BY <1>6, BeginStep
<1>7. ASSUME NEW c \in Commands, Backup(c)
      PROVE  IInv'
  BY <1>7, ReadEnvStep, SnapshotStep, ApplyEnvStep, ApplyDBStep DEF Backup
<1>8. ASSUME NEW c \in Commands, Restore(c)
      PROVE  IInv'
  BY <1>8, GetEnvStep, GetDBStep, WriteEnvStep, RemoveStep, TruncateStep, WriteDBStep DEF Restore
<1>9. ASSUME NEW c \in Commands, Compose(c)
      PROVE  IInv'
  BY <1>9, StopStep, StopFailsStep, StartStep, StartFailsStep DEF Compose
<1>10. ASSUME NEW c \in Commands, Fail(c)
       PROVE  IInv'
  BY <1>10, FailStep
<1>11. ASSUME NEW c \in Commands, Kill(c)
       PROVE  IInv'
  BY <1>11, KillStep
<1> QED
  BY <1>1, <1>2, <1>3, <1>4, <1>5, <1>6, <1>7, <1>8, <1>9, <1>10, <1>11 DEF Next

LEMMA Invariance == Spec => []IInv
BY InitInv, NextInv, PTL DEF Spec

-----------------------------------------------------------------------------
(* The types of the files, the documents and the commands.                 *)
THEOREM TypeCorrect == Spec => []TypeOK
<1>1. ASSUME IInv PROVE TypeOK
  <2>1. Shape
    BY <1>1 DEF IInv
  <2>2. hub.env \in Doc(Envs \ {Missing}) /\ hub.db \in Doc(Databases \ {Missing}) /\ hub.key \in Int /\ hub.era \in 0..era
    BY <2>1 DEF Shape, HubType
  <2>3. ASSUME NEW c \in Commands
        PROVE  /\ cmd[c].pc \in Calls \cup {"idle", "stop", "remove", "start"}
               /\ cmd[c].env \in Doc(Envs) /\ cmd[c].db \in Doc(Databases)
               /\ cmd[c].defer => cmd[c].stop /\ cmd[c].pc \notin {"readenv", "getenv", "getdb", "stop"}
    <3>1. cmd[c] \in CmdType /\ Placed(cmd[c])
      BY <2>1 DEF Shape
    <3> QED
      BY <3>1 DEF CmdType, Pcs, Placed
  <2> QED
    BY <2>1, <2>2, <2>3 DEF TypeOK, Shape, FilesType
<1> QED
  BY <1>1, Invariance, PTL

(* The documents of the hub, and those of a restore, are of one backup but *)
(* for the reasons PairsAreExplained names, however many commands          *)
(* interleave.                                                             *)
THEOREM PairsCorrect == Spec => []PairsAreExplained
<1>1. ASSUME IInv PROVE PairsAreExplained
  <2>1. ASSUME NEW c \in Commands, cmd[c].kind = "restore", cmd[c].pc \notin {"idle", "getenv", "getdb", "start"}
        PROVE  cmd[c].env.by = cmd[c].db.by \/ cmd[c].mixed
    <3>1. cmd[c].pc \in Pcs /\ Placed(cmd[c]) /\ PairOf(cmd[c], hub, split)
      BY <1>1, CmdFacts DEF CmdType
    <3>2. cmd[c].pc \in {"stop", "writeenv", "remove", "truncate", "writedb"}
      BY <2>1, <3>1 DEF Pcs, Calls, Placed
    <3> QED
      BY <2>1, <3>1, <3>2 DEF PairOf
  <2>2. hub.env.by # hub.db.by => split \/ \E c \in Commands : At(c, "applydb")
    BY <1>1 DEF IInv, Pairs
  <2> QED
    BY <2>1, <2>2 DEF PairsAreExplained
<1> QED
  BY <1>1, Invariance, PTL

(* For any length of the key ring, and any number of rotations: a document *)
(* can be read as long as its key is kept.                                 *)
THEOREM ReadableCorrect == Spec => []ReadableWhileKept
<1>1. ASSUME IInv, era - hub.era < Keep PROVE Decrypts(hub.key)
  <2>1. hub.key = hub.era /\ hub.era \in Nat /\ era \in Nat /\ hub.era <= era
    BY <1>1 DEF IInv, Keyed, Shape, HubType
  <2>2. PICK i : i = era + 1 - hub.era
    OBVIOUS
  <2>3. i \in 1..Keep /\ era + 1 - i = hub.key
    BY <1>1, <2>1, <2>2, BoundsAssumption
  <2>4. Ring[i] = hub.key
    BY <2>3 DEF Ring
  <2> QED
    BY <2>3, <2>4 DEF Decrypts
<1> QED
  BY <1>1, Invariance, PTL DEF ReadableWhileKept

(* However the commands end, the service is down only for a reason.        *)
THEOREM DownCorrect == Spec => []DownHasReason
<1>1. IInv => DownHasReason
  BY DEF IInv
<1> QED
  BY <1>1, Invariance, PTL

(* A backup that nothing has disturbed stores every transaction that was   *)
(* committed when it began.                                                *)
THEOREM BackupCorrect == Spec => BackupHasAll
<1>1. ASSUME IInv, NEW c \in Commands, ApplyDB(c)
      PROVE  cmd[c].disturbed \/ (Whole(cmd[c].db.val) /\ cmd[c].base \subseteq cmd[c].db.val)
  BY <1>1 DEF IInv, ApplyDB, At, Sound
<1>2. IInv /\ [Next]_vars =>
        [\A c \in Commands :
           ApplyDB(c) => cmd[c].disturbed \/ (Whole(cmd[c].db.val) /\ cmd[c].base \subseteq cmd[c].db.val)]_vars
  BY <1>1
<1> QED
  BY <1>2, Invariance, PTL DEF Spec, BackupHasAll

(* A restore that nothing has disturbed leaves exactly the database and,   *)
(* trimmed, the .env of its documents, with no log but one that could not  *)
(* be removed.                                                             *)
THEOREM RestoreCorrect == Spec => RestoreIsExact
<1>1. ASSUME IInv, NEW c \in Commands, WriteDB(c), ~cmd[c].disturbed
      PROVE  main' = cmd[c].db.val /\ env' = Trimmed(cmd[c].env.val) /\ (wal' = {} \/ cmd[c].kept)
  <2>1. cmd[c].pc = "writedb" /\ Sound(cmd[c], svc, env, main, wal) /\ svc \in BOOLEAN
    BY <1>1, CmdFacts DEF WriteDB, At, FilesType
  <2>2. ~svc /\ env = Trimmed(cmd[c].env.val) /\ (wal = {} \/ cmd[c].kept)
    BY <1>1, <2>1 DEF Sound
  <2> QED
    BY <1>1, <2>2 DEF WriteDB
<1>2. IInv /\ [Next]_vars =>
        [\A c \in Commands : WriteDB(c) /\ ~cmd[c].disturbed =>
           /\ main' = cmd[c].db.val /\ env' = Trimmed(cmd[c].env.val)
           /\ wal' = {} \/ cmd[c].kept]_vars
  BY <1>1
<1> QED
  BY <1>2, Invariance, PTL DEF Spec, RestoreIsExact
=============================================================================
