---------------------------- MODULE ChangeStream ----------------------------
(***************************************************************************)
(* The change feed of hubd: the Broker (pkg/changes) and the requests of   *)
(* GET /api/v1/changes (pkg/api) that read it, as event streams or as      *)
(* polls.                                                                  *)
(*                                                                         *)
(* There is one publisher: Publish is called from refreshIndexLocked,      *)
(* under GitStore.mu.  Broker.mu covers only the history and the set of    *)
(* subscribers; the revision is an atomic counter of its own and events    *)
(* are sent to the channels outside the lock.                              *)
(***************************************************************************)
EXTENDS Integers, Sequences, FiniteSets, SequencesExt

CONSTANTS
  Paths,      \* documents that change
  Streams,    \* event-stream requests, each with a channel of its own
  Leavers,    \* those whose client may go away
  Pollers,    \* clients that poll, each from the revision it was last given
  Under,      \* paths that Since selects: the prefix itself or below it
  Begins,     \* paths that the stream selects: any string with that prefix
  Cursors,    \* the since parameters of the streams
  MaxHist,    \* Broker.maxHist
  Buffer,     \* the buffer of a subscriber's channel
  MaxEvents   \* bound on the events published

ASSUME StreamsAssumption == Leavers \subseteq Streams
ASSUME PrefixAssumption  == Under \subseteq Begins /\ Begins \subseteq Paths
ASSUME CursorsAssumption == Cursors \subseteq Int
ASSUME SizesAssumption   == MaxHist \in Nat \ {0} /\ Buffer \in Nat \ {0} /\ MaxEvents \in Nat

VARIABLES
  revision,  \* Broker.revision
  history,   \* Broker.history
  subs,      \* Broker.subs
  closed,    \* the channels that are closed
  chan,      \* what each channel buffers
  pub,       \* Publish in progress: its next step, event, channels left to send to
  stream,    \* where each stream request is: "new", "gap", "open", "done"
  sent,      \* the events written to each stream's client
  missed,    \* revisions that a stream need not be given: see StreamMissesOnly
  poll,      \* each poller: where it is, its cursor, the revisions it was given
  excused,   \* revisions that a poller need not be given: see PollMissesOnly
  spent      \* events that earlier processes have published

vars == <<revision, history, subs, closed, chan, pub, stream, sent, missed, poll, excused, spent>>
brokerVars == <<revision, history, subs, closed, pub>>
streamVars == <<stream, sent, missed>>
pollVars   == <<poll, excused, spent>>

Event == [rev : 1..MaxEvents, path : Paths]
NoPub == [pc |-> "idle", ev |-> <<>>, to |-> {}]

Revs(s) == {s[i].rev : i \in DOMAIN s}

LastRev == IF history = <<>> THEN 0 ELSE Last(history).rev

Init ==
  /\ revision = 0 /\ history = <<>>
  /\ subs = {} /\ closed = {}
  /\ chan = [c \in Streams |-> <<>>]
  /\ pub = NoPub
  /\ stream = [c \in Streams |-> "new"]
  /\ sent = [c \in Streams |-> <<>>]
  /\ poll = [p \in Pollers |-> [pc |-> "idle", since |-> 0, got |-> {}]]
  /\ excused = [p \in Pollers |-> {}]
  /\ missed = [c \in Streams |-> {}]
  /\ spent = 0

-----------------------------------------------------------------------------
(* Publish                                                                 *)

Requesting(p) == poll[p].pc = "rev"

(* The revision is taken before, and outside, the lock. *)
PublishRevision ==
  /\ pub.pc = "idle" /\ revision + spent < MaxEvents
  /\ revision' = revision + 1
  /\ \E p \in Paths : pub' = [pc |-> "append", ev |-> [rev |-> revision + 1, path |-> p], to |-> {}]
  /\ excused' = [p \in Pollers |-> IF Requesting(p) THEN excused[p] \cup {revision + 1} ELSE excused[p]]
  /\ UNCHANGED <<history, subs, closed, chan, streamVars, poll, spent>>

(* Seeded faults: trimmed one event early; the oldest events are kept. *)
Trim_Early(h)  == IF Len(h) >= MaxHist THEN Tail(h) ELSE h
Trim_Oldest(h) == IF Len(h) > MaxHist THEN SubSeq(h, 1, MaxHist) ELSE h

Trim(h) == IF Len(h) > MaxHist THEN SubSeq(h, Len(h) - MaxHist + 1, Len(h)) ELSE h

(* The event in hand need not reach the streams cs. *)
Missed(cs) == missed' = [c \in Streams |->
  IF c \in cs THEN missed[c] \cup {pub.ev.rev} ELSE missed[c]]

(* Under the lock: the event enters the history and the subscribers of     *)
(* that moment are copied.                                                 *)
PublishAppend ==
  /\ pub.pc = "append"
  /\ history' = Trim(Append(history, pub.ev))
  /\ pub' = [pub EXCEPT !.pc = "send", !.to = subs]
  /\ Missed({c \in Streams : stream[c] = "gap"})
  /\ UNCHANGED <<revision, subs, closed, chan, stream, sent, pollVars>>

(* A send that finds the buffer full drops the event. *)
Offered(c) == IF Len(chan[c]) < Buffer THEN Append(chan[c], pub.ev) ELSE chan[c]

(* Seeded fault: the send waits for room. *)
Send_Blocking(c) ==
  /\ pub.pc = "send" /\ c \in pub.to \ closed
  /\ Len(chan[c]) < Buffer
  /\ chan' = [chan EXCEPT ![c] = Append(@, pub.ev)]
  /\ pub' = [pub EXCEPT !.to = @ \ {c}]
  /\ UNCHANGED <<revision, history, subs, closed, streamVars, pollVars>>

(* Seeded fault: the fan-out ends with the first send. *)
Send_Once(c) ==
  /\ pub.pc = "send" /\ c \in pub.to \ closed
  /\ chan' = [chan EXCEPT ![c] = Offered(c)]
  /\ pub' = [pub EXCEPT !.to = {}]
  /\ UNCHANGED <<revision, history, subs, closed, streamVars, pollVars>>

Send(c) ==
  /\ pub.pc = "send" /\ c \in pub.to \ closed
  /\ chan' = [chan EXCEPT ![c] = Offered(c)]
  /\ Missed(IF Len(chan[c]) < Buffer THEN {} ELSE {c})
  /\ pub' = [pub EXCEPT !.to = @ \ {c}]
  /\ UNCHANGED <<revision, history, subs, closed, stream, sent, pollVars>>

(* Sending on a closed channel panics.  In a request net/http recovers and *)
(* the rest of the fan-out is lost; in the poll loop the process ends.     *)
SendPanics(c) ==
  /\ pub.pc = "send" /\ c \in pub.to \cap closed
  /\ pub' \in {NoPub, [NoPub EXCEPT !.pc = "dead"]}
  /\ Missed(pub.to)
  /\ UNCHANGED <<revision, history, subs, closed, chan, stream, sent, pollVars>>

PublishDone ==
  /\ pub.pc = "send" /\ pub.to = {}
  /\ pub' = NoPub
  /\ UNCHANGED <<revision, history, subs, closed, chan, streamVars, pollVars>>

Alive == pub.pc # "dead"

-----------------------------------------------------------------------------
(* An event stream: what the history holds, then what the channel brings.  *)

Wanted(ev, rev) == ev.rev > rev /\ ev.path \in Under

Since(rev) ==
  LET out[i \in 0..Len(history)] ==
        IF i = 0 THEN <<>>
        ELSE IF Wanted(history[i], rev) THEN Append(out[i - 1], history[i]) ELSE out[i - 1]
  IN out[Len(history)]

Elsewhere == {history[i].rev : i \in {i \in DOMAIN history : history[i].path \notin Under}}

(* Seeded fault: the stream subscribes before it reads the history. *)
Replay_Subscribed(c) ==
  \/ /\ Alive /\ stream[c] = "new" /\ c \notin subs
     /\ subs' = subs \cup {c}
     /\ UNCHANGED <<revision, history, closed, pub, chan, streamVars, pollVars>>
  \/ /\ Alive /\ stream[c] = "new" /\ c \in subs
     /\ sent' = [sent EXCEPT ![c] = Since(0)]
     /\ stream' = [stream EXCEPT ![c] = "gap"]
     /\ UNCHANGED <<brokerVars, chan, missed, pollVars>>

Replay(c) ==
  /\ Alive /\ stream[c] = "new"
  /\ \E rev \in Cursors :
       /\ sent' = [sent EXCEPT ![c] = Since(rev)]
       /\ missed' = [missed EXCEPT ![c] = Elsewhere \cup {r \in Revs(history) : r <= rev}]
  /\ stream' = [stream EXCEPT ![c] = "gap"]
  /\ UNCHANGED <<brokerVars, chan, pollVars>>

Subscribe(c) ==
  /\ Alive /\ stream[c] = "gap"
  /\ subs' = subs \cup {c}
  /\ stream' = [stream EXCEPT ![c] = "open"]
  /\ UNCHANGED <<revision, history, closed, pub, chan, sent, missed, pollVars>>

Receive(c) ==
  /\ Alive /\ stream[c] = "open" /\ chan[c] # <<>>
  /\ chan' = [chan EXCEPT ![c] = Tail(@)]
  /\ sent' = [sent EXCEPT ![c] = IF Head(chan[c]).path \in Begins THEN Append(@, Head(chan[c])) ELSE @]
  /\ UNCHANGED <<brokerVars, stream, missed, pollVars>>

(* Seeded fault: the channel is closed but stays registered. *)
Unsubscribe_CloseOnly(c) ==
  /\ Alive /\ stream[c] = "open" /\ c \in Leavers
  /\ closed' = closed \cup {c}
  /\ stream' = [stream EXCEPT ![c] = "done"]
  /\ UNCHANGED <<revision, history, subs, pub, chan, sent, missed, pollVars>>

(* The client goes away: the deferred Unsubscribe closes the channel; what *)
(* the client was sent does not matter any more.                           *)
Unsubscribe(c) ==
  /\ Alive /\ stream[c] = "open" /\ c \in Leavers
  /\ subs' = subs \ {c}
  /\ closed' = closed \cup {c}
  /\ stream' = [stream EXCEPT ![c] = "done"]
  /\ chan' = [chan EXCEPT ![c] = <<>>] /\ sent' = [sent EXCEPT ![c] = <<>>]
  /\ missed' = [missed EXCEPT ![c] = {}]
  /\ UNCHANGED <<revision, history, pub, pollVars>>

-----------------------------------------------------------------------------
(* A poll: the events since the cursor, then the revision, the next cursor *)

PollSince(p) ==
  /\ Alive /\ poll[p].pc = "idle"
  /\ poll' = [poll EXCEPT ![p].pc = "rev", ![p].got = @ \cup Revs(Since(poll[p].since))]
  /\ excused' = [excused EXCEPT ![p] = @ \cup Elsewhere \cup (1..(LastRev - MaxHist))
                                       \cup IF pub.pc = "append" THEN {pub.ev.rev} ELSE {}]
  /\ UNCHANGED <<brokerVars, chan, streamVars, spent>>

PollRevision(p) ==
  /\ Alive /\ Requesting(p)
  /\ poll' = [poll EXCEPT ![p].pc = "idle", ![p].since = revision]
  /\ UNCHANGED <<brokerVars, chan, streamVars, excused, spent>>

-----------------------------------------------------------------------------
(* The process ends, by itself or not, and starts again with a new broker. *)
(* Streams are cut and asked for anew; a poller keeps its cursor, which    *)
(* now names revisions of another broker.                                  *)
Restart ==
  /\ spent' = spent + revision
  /\ revision' = 0 /\ history' = <<>> /\ subs' = {} /\ closed' = {} /\ pub' = NoPub
  /\ chan' = [c \in Streams |-> <<>>] /\ sent' = [c \in Streams |-> <<>>]
  /\ stream' = [c \in Streams |-> "new"]
  /\ missed' = [c \in Streams |-> {}]
  /\ poll' = [p \in Pollers |-> [pc |-> "idle", since |-> poll[p].since, got |-> {}]]
  /\ excused' = [p \in Pollers |-> 1..poll[p].since]

-----------------------------------------------------------------------------
Publishing ==
  \/ PublishAppend \/ PublishDone
  \/ \E c \in Streams : Send(c) \/ SendPanics(c)

Next ==
  \/ PublishRevision \/ Publishing
  \/ \E c \in Streams : Replay(c) \/ Subscribe(c) \/ Receive(c) \/ Unsubscribe(c)
  \/ \E p \in Pollers : PollSince(p) \/ PollRevision(p)
  \/ Restart

Spec == Init /\ [][Next]_vars

-----------------------------------------------------------------------------
(* Properties                                                              *)

TypeOK ==
  /\ revision \in 0..MaxEvents
  /\ history \in Seq(Event) /\ Len(history) <= MaxHist
  /\ subs \subseteq Streams /\ closed \subseteq Leavers /\ subs \cap closed = {}
  /\ \A c \in Streams : chan[c] \in Seq(Event) /\ Len(chan[c]) <= Buffer /\ sent[c] \in Seq(Event)
  /\ pub.pc \in {"idle", "append", "send", "dead"} /\ pub.to \subseteq Streams
  /\ stream \in [Streams -> {"new", "gap", "open", "done"}]
  /\ poll \in [Pollers -> [pc : {"idle", "rev"}, since : 0..MaxEvents, got : SUBSET (1..MaxEvents)]]
  /\ excused \in [Pollers -> SUBSET (1..MaxEvents)]
  /\ missed \in [Streams -> SUBSET (1..MaxEvents)] /\ spent + revision \in 0..MaxEvents

(* The history is the last events without a hole, up to the revision that  *)
(* clients are given, or one short of it inside Publish.                   *)
HistoryContiguous ==
  /\ LastRev = IF pub.pc = "append" THEN revision - 1 ELSE revision
  /\ \A i \in DOMAIN history : history[i].rev = LastRev - Len(history) + i

(* A stream gets events in order and none twice, replayed ones and live    *)
(* ones together.                                                          *)
StreamOrdered ==
  \A c \in Streams : LET all == sent[c] \o chan[c] IN
    \A i, j \in DOMAIN all : i < j => all[i].rev < all[j].rev

(* Of the history a stream misses nothing but, in its replay, what its     *)
(* cursor had reached and paths that Since does not select; what entered   *)
(* the history after its replay and before its subscription; and what a    *)
(* full buffer, or a panic of the publisher, kept from it.                 *)
StreamMissesOnly ==
  \A c \in Streams : stream[c] \in {"gap", "open"} =>
    \A i \in DOMAIN history :
      history[i].path \in Begins =>
        \/ history[i].rev \in Revs(sent[c] \o chan[c]) \cup missed[c]
        \/ pub.ev = history[i] /\ c \in pub.to

(* A poller that passes on the revision it was given as its next cursor is *)
(* given every event under its prefix up to there, but for those trimmed   *)
(* from the history, those published while it had a request in progress,   *)
(* and, after a restart of the process, those whose revision its old       *)
(* cursor had reached.                                                     *)
PollMissesOnly ==
  \A p \in Pollers : poll[p].pc = "idle" => 1..poll[p].since \subseteq poll[p].got \cup excused[p]

(* Publish never waits for a subscriber: the store's lock is held.         *)
PublisherNotBlocked == pub.pc \in {"append", "send"} ~> pub.pc \in {"idle", "dead"}

(* Only the publisher's own steps are fair: no client need ever read.      *)
LiveSpec == Spec /\ WF_vars(Publishing)

(* Broker "fans out events": a client that leaves does not stop it.        *)
LeaverHarmless == ~ \E c \in Streams : pub.pc = "send" /\ c \in pub.to \cap closed
=============================================================================
