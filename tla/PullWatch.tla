----------------------------- MODULE PullWatch -----------------------------
(***************************************************************************)
(* Watching the hub: Client.Watch (pkg/client), which cuts the body of an  *)
(* event stream into frames, and the WatchManager of the operator, which   *)
(* runs one in a goroutine for a HubPull that asks for it.                 *)
(*                                                                         *)
(* Sync is called by whoever reconciles the HubPull (nobody yet: main does *)
(* not create a WatchManager).  The body is a sequence of frames, each an  *)
(* event and two line ends; a read brings any part of what was sent.       *)
(***************************************************************************)
EXTENDS Integers, Sequences, FiniteSets

CONSTANTS
  Docs,     \* the documents below the prefix that is watched
  Path,     \* the document of the HubPull
  NL,       \* a line end
  MaxRuns,  \* bound on the goroutines started
  MaxSent   \* bound on the events sent, all streams together

ASSUME PathAssumption  == Path \in Docs /\ NL \notin Docs
ASSUME BoundAssumption == MaxRuns \in Nat /\ MaxSent \in Nat

VARIABLES
  watch,  \* spec.watch of the HubPull
  entry,  \* WatchManager.cancel: the goroutine it holds for the HubPull, or 0
  runs    \* the goroutines started so far

vars == <<watch, entry, runs>>

(* pc: at the read, in the loop over the frames, in Reconcile, returned.   *)
(* last: the read has brought an error with its data.  late: reads that    *)
(* brought data after the cancellation.                                    *)
NewRun == [pc |-> "read", cancelled |-> FALSE, last |-> FALSE, wire |-> <<>>, buf |-> <<>>,
           sent |-> <<>>, handled |-> <<>>, late |-> 0]

Init == watch \in BOOLEAN /\ entry = 0 /\ runs = <<>>

-----------------------------------------------------------------------------
(* WatchManager.Sync                                                       *)

SetWatch ==
  /\ watch' = ~watch
  /\ UNCHANGED <<entry, runs>>

(* Seeded fault: the goroutine is forgotten and goes on.                   *)
SyncOff_Uncancelled ==
  /\ ~watch /\ entry # 0
  /\ entry' = 0
  /\ UNCHANGED <<watch, runs>>

SyncOff ==
  /\ ~watch /\ entry # 0
  /\ runs' = [runs EXCEPT ![entry].cancelled = TRUE]
  /\ entry' = 0
  /\ UNCHANGED watch

(* Seeded fault: started whatever the map holds.                           *)
CanStart_Always == watch

(* An entry in the map stands for a goroutine that runs, even if it has    *)
(* ended since.                                                            *)
CanStart == watch /\ entry = 0

SyncOn ==
  /\ CanStart /\ Len(runs) < MaxRuns
  /\ runs' = Append(runs, NewRun)
  /\ entry' = Len(runs) + 1
  /\ UNCHANGED watch

-----------------------------------------------------------------------------
(* Client.Watch in goroutine k                                             *)

At(k, pc) == k \in DOMAIN runs /\ runs[k].pc = pc

Set(k, r) == runs' = [runs EXCEPT ![k] = r] /\ UNCHANGED <<watch, entry>>

SentInAll == UNION {{k} \X DOMAIN runs[k].sent : k \in DOMAIN runs}

(* The hub writes a frame; what it writes once the stream has ended does   *)
(* not arrive.                                                             *)
Send(k) ==
  /\ k \in DOMAIN runs /\ ~At(k, "ended") /\ Cardinality(SentInAll) < MaxSent
  /\ \E d \in Docs :
       Set(k, [runs[k] EXCEPT !.sent = Append(@, d), !.wire = @ \o <<d, NL, NL>>])

(* A read brings n symbols, and an error or not.  Once the context is      *)
(* cancelled a read may still bring what was received before.              *)
Read(k) ==
  /\ At(k, "read")
  /\ \E n \in 1..Len(runs[k].wire), last \in BOOLEAN :
       Set(k, [runs[k] EXCEPT !.pc = "frames", !.last = last,
                              !.late = IF runs[k].cancelled THEN @ + 1 ELSE @,
                              !.buf = @ \o SubSeq(runs[k].wire, 1, n),
                              !.wire = SubSeq(@, n + 1, Len(@))])

(* EOF, the client's time limit for a whole response, or the cancellation. *)
ReadEnds(k) == At(k, "read") /\ Set(k, [runs[k] EXCEPT !.pc = "ended"])

Ends(buf) == {i \in 1..(Len(buf) - 1) : buf[i] = NL /\ buf[i + 1] = NL}
FrameEnd(buf) == CHOOSE i \in Ends(buf) : \A j \in Ends(buf) : i <= j

(* Seeded fault: one line end too few is taken off.                        *)
Rest_Short(buf) == SubSeq(buf, FrameEnd(buf) + 1, Len(buf))

Rest(buf) == SubSeq(buf, FrameEnd(buf) + 2, Len(buf))

(* The first whole frame leaves the buffer.  A frame that is no event is   *)
(* skipped, an event of another document is ignored by the callback.       *)
Frame(k) ==
  /\ At(k, "frames") /\ Ends(runs[k].buf) # {}
  /\ LET frame == SubSeq(runs[k].buf, 1, FrameEnd(runs[k].buf) - 1)
         r     == [runs[k] EXCEPT !.buf = Rest(@)]
     IN IF Len(frame) # 1 THEN Set(k, r)
        ELSE IF frame[1] # Path THEN Set(k, [r EXCEPT !.handled = Append(@, frame[1])])
        ELSE Set(k, [r EXCEPT !.handled = Append(@, frame[1]), !.pc = "reconcile"])

(* Seeded fault: the error of the callback is ignored. *)
CallFails_Ignored(k) == At(k, "reconcile") /\ Set(k, [runs[k] EXCEPT !.pc = "frames"])

(* The error of Reconcile ends the stream.                                 *)
CallFails(k) == At(k, "reconcile") /\ Set(k, [runs[k] EXCEPT !.pc = "ended"])

(* Reconcile may return no error although its context is cancelled.        *)
CallReturns(k) == At(k, "reconcile") /\ Set(k, [runs[k] EXCEPT !.pc = "frames"])

(* Seeded faults: each read is taken to bring one frame; the context is    *)
(* not looked at.                                                          *)
FramesDone_Early(k) ==
  /\ At(k, "frames")
  /\ Set(k, [runs[k] EXCEPT !.pc = IF runs[k].last \/ runs[k].cancelled THEN "ended" ELSE "read"])

FramesDone_Unchecked(k) ==
  /\ At(k, "frames") /\ Ends(runs[k].buf) = {}
  /\ Set(k, [runs[k] EXCEPT !.pc = IF runs[k].last THEN "ended" ELSE "read"])

(* No whole frame is left: the error of the read, then the context.        *)
FramesDone(k) ==
  /\ At(k, "frames") /\ Ends(runs[k].buf) = {}
  /\ Set(k, [runs[k] EXCEPT !.pc = IF runs[k].last \/ runs[k].cancelled THEN "ended" ELSE "read"])

-----------------------------------------------------------------------------
Streaming(k) == Read(k) \/ Frame(k) \/ CallFails(k) \/ CallReturns(k) \/ FramesDone(k)

Next ==
  \/ SetWatch \/ SyncOn \/ SyncOff
  \/ \E k \in 1..MaxRuns : Send(k) \/ ReadEnds(k) \/ Streaming(k)

Spec == Init /\ [][Next]_vars

(* What was sent arrives, the goroutine goes on, and the transport gives   *)
(* up a read of a request whose context is cancelled.                      *)
ReadCancelled(k) == ReadEnds(k) /\ runs[k].cancelled

Fairness == \A k \in 1..MaxRuns : WF_vars(Streaming(k)) /\ WF_vars(ReadCancelled(k))

LiveSpec == Spec /\ Fairness

-----------------------------------------------------------------------------
(* Properties                                                              *)

(* Types; a stream waits for more only when no whole frame is left.        *)
TypeOK ==
  /\ entry \in 0..Len(runs) /\ Len(runs) <= MaxRuns
  /\ \A k \in DOMAIN runs :
       /\ runs[k].pc \in {"read", "frames", "reconcile", "ended"}
       /\ runs[k].pc = "read" => Ends(runs[k].buf) = {}
       /\ runs[k].sent \in Seq(Docs) /\ runs[k].handled \in Seq(Docs)
       /\ runs[k].wire \in Seq(Docs \cup {NL}) /\ runs[k].buf \in Seq(Docs \cup {NL})

(* However the body is cut, the callback has had the events that were sent *)
(* exactly once and in order, up to those that are still owed; and these   *)
(* are, whole, what the buffer and the wire hold.                          *)
Owed(r) == SubSeq(r.sent, Len(r.handled) + 1, Len(r.sent))

(* The body of a stream of events: two line ends after each.               *)
Framed(body, events) ==
  /\ Len(body) = 3 * Len(events)
  /\ \A i \in 1..Len(events) :
       body[3 * i - 2] = events[i] /\ body[3 * i - 1] = NL /\ body[3 * i] = NL

FramesOnce ==
  \A k \in DOMAIN runs :
    /\ runs[k].sent = runs[k].handled \o Owed(runs[k])
    /\ Framed(runs[k].buf \o runs[k].wire, Owed(runs[k]))

(* Of all goroutines started for the HubPull at most one is wanted, the    *)
(* one in the map; every other one has been cancelled.                     *)
OneStream == \A k \in DOMAIN runs : k # entry <=> runs[k].cancelled

(* A stream that was cancelled reads the body at most once more: all the   *)
(* Reconciles it still begins, and each of them may succeed, are of events *)
(* that its buffer held or that this one read brought.                     *)
LittleAfterCancel ==
  \A k \in DOMAIN runs :
    /\ runs[k].late <= 1
    /\ runs[k].late = 1 => runs[k].cancelled /\ ~At(k, "read")

(* A goroutine that the map no longer holds ends, whatever its buffer      *)
(* holds and whether or not its Reconciles fail.                           *)
UnwantedEnds == \A k \in 1..MaxRuns : (k \in DOMAIN runs /\ k # entry) ~> At(k, "ended")

(* Every event sent is handed to the callback, or the stream ends: again   *)
(* and again a stream that goes on has caught up with what was sent.       *)
CaughtUp(k) == k \in DOMAIN runs => At(k, "ended") \/ runs[k].handled = runs[k].sent

SentIsHandled == \A k \in 1..MaxRuns : []<>CaughtUp(k)
=============================================================================
