-------------------------- MODULE PullWatchProofs --------------------------
(***************************************************************************)
(* Proofs about PullWatch, for any documents and bounds.                   *)
(***************************************************************************)
EXTENDS PullWatch, SequenceTheorems, WellFoundedInduction, TLAPS

Symbol == Docs \cup {NL}

RunType ==
  [pc : {"read", "frames", "reconcile", "ended"}, cancelled : BOOLEAN, last : BOOLEAN,
   wire : Seq(Symbol), buf : Seq(Symbol), sent : Seq(Docs), handled : Seq(Docs), late : Nat]

Shape ==
  /\ runs \in Seq(RunType) /\ Len(runs) <= MaxRuns
  /\ entry \in 0..Len(runs)

(* A goroutine that is cancelled has at most one read left, and when it has*)
(* had that, it does not go back to the body.                              *)
Sound(r) ==
  /\ r.pc = "read" => Ends(r.buf) = {}
  /\ r.late <= 1
  /\ ~r.cancelled => r.late = 0
  /\ r.late = 1 => r.pc # "read"

IInv == Shape /\ OneStream /\ \A k \in DOMAIN runs : Sound(runs[k])

-----------------------------------------------------------------------------
(* The first frame of a buffer                                             *)

LEMMA Least ==
  ASSUME NEW T, T \subseteq Nat, T # {}
  PROVE  \E x \in T : \A y \in T : x <= y
<1> DEFINE R == OpToRel(<, Nat)
<1>1. \A x, y \in Nat : <<y, x>> \in R <=> y < x
  BY DEF OpToRel
<1>2. IsWellFoundedOn(R, Nat)
  BY NatLessThanWellFounded
<1> HIDE DEF R
<1>3. PICK x \in T : \A y \in T : ~ (<<y, x>> \in R)
  BY <1>2, WFMin, Zenon
<1>4. \A y \in T : ~ (y < x)
  BY <1>1, <1>3, Zenon
<1> QED
  BY <1>4

LEMMA FrameEndIs ==
  ASSUME NEW buf \in Seq(Symbol), Ends(buf) # {}
  PROVE  /\ FrameEnd(buf) \in 1..(Len(buf) - 1) /\ buf[FrameEnd(buf)] = NL
         /\ \A j \in 1..(Len(buf) - 1) : buf[j] = NL /\ buf[j + 1] = NL => FrameEnd(buf) <= j
<1>1. Ends(buf) \subseteq Nat
  BY DEF Ends
<1>2. \E i \in Ends(buf) : \A j \in Ends(buf) : i <= j
  BY <1>1, Least
<1>3. FrameEnd(buf) \in Ends(buf) /\ \A j \in Ends(buf) : FrameEnd(buf) <= j
  BY <1>2 DEF FrameEnd
<1> QED
  BY <1>3 DEF Ends

(* A frame of one symbol holds a document, as it does not begin with a     *)
(* line end: the frame would have ended there.                             *)
LEMMA FrameIs ==
  ASSUME NEW buf \in Seq(Symbol), Ends(buf) # {},
         Len(SubSeq(buf, 1, FrameEnd(buf) - 1)) = 1
  PROVE  SubSeq(buf, 1, FrameEnd(buf) - 1)[1] \in Docs
<1> DEFINE e == FrameEnd(buf)
<1>1. e \in 1..(Len(buf) - 1) /\ buf[e] = NL
      /\ \A j \in 1..(Len(buf) - 1) : buf[j] = NL /\ buf[j + 1] = NL => e <= j
  BY FrameEndIs
<1> HIDE DEF e
<1>2. Len(SubSeq(buf, 1, e - 1)) = IF 1 <= e - 1 THEN e - 1 ELSE 0
  BY <1>1, SubSeqProperties
<1>3. e = 2
  BY <1>1, <1>2 DEF e
<1>4. SubSeq(buf, 1, e - 1)[1] = buf[1]
  BY <1>1, <1>3
<1>5. buf[1] # NL /\ buf[1] \in Symbol
  BY <1>1, <1>3
<1> QED
  BY <1>4, <1>5 DEF Symbol, e

LEMMA RestIs ==
  ASSUME NEW buf \in Seq(Symbol), Ends(buf) # {}
  PROVE  Rest(buf) \in Seq(Symbol)
<1> DEFINE e == FrameEnd(buf)
<1>1. e \in 1..(Len(buf) - 1)
  BY FrameEndIs
<1> HIDE DEF e
<1>2. SubSeq(buf, e + 2, Len(buf)) \in Seq(Symbol)
  BY <1>1
<1> QED
  BY <1>2 DEF Rest, e

-----------------------------------------------------------------------------
LEMMA NewRunIs == NewRun \in RunType /\ Sound(NewRun) /\ ~NewRun.cancelled
BY DEF NewRun, RunType, Sound, Ends

LEMMA Replaced ==
  ASSUME runs \in Seq(RunType), NEW k \in DOMAIN runs, NEW r \in RunType, runs' = [runs EXCEPT ![k] = r]
  PROVE  runs' \in Seq(RunType) /\ Len(runs') = Len(runs) /\ DOMAIN runs' = DOMAIN runs
         /\ runs'[k] = r /\ \A j \in DOMAIN runs \ {k} : runs'[j] = runs[j]
OBVIOUS

InCall(r, b, h) == [r EXCEPT !.buf = b, !.handled = h, !.pc = "reconcile"]

LEMMA InCallIs ==
  ASSUME NEW r \in RunType, NEW b \in Seq(Symbol), NEW h \in Seq(Docs)
  PROVE  InCall(r, b, h) \in RunType /\ InCall(r, b, h).cancelled = r.cancelled
         /\ InCall(r, b, h).late = r.late /\ InCall(r, b, h).pc = "reconcile"
BY DEF RunType, InCall

LEMMA SetStep ==
  ASSUME IInv, NEW k \in DOMAIN runs, NEW r \in RunType, Sound(r),
         r.cancelled = runs[k].cancelled, Set(k, r)
  PROVE  IInv'
<1>1. runs' = [runs EXCEPT ![k] = r] /\ entry' = entry
  BY DEF Set
<1>2. runs' \in Seq(RunType) /\ Len(runs') = Len(runs) /\ DOMAIN runs' = DOMAIN runs
      /\ runs'[k] = r /\ \A j \in DOMAIN runs \ {k} : runs'[j] = runs[j]
  BY <1>1, Replaced DEF IInv, Shape
<1>3. \A j \in DOMAIN runs : Sound(runs'[j]) /\ runs'[j].cancelled = runs[j].cancelled
  BY <1>2 DEF IInv
<1> QED
  BY <1>1, <1>2, <1>3 DEF IInv, Shape, OneStream, Sound, Ends

LEMMA InvInit == Init => IInv
BY BoundAssumption DEF Init, IInv, Shape, OneStream

LEMMA InvNext == IInv /\ [Next]_vars => IInv'
<1> SUFFICES ASSUME IInv, [Next]_vars PROVE IInv'
  OBVIOUS
<1> USE DEF At
<1>0. \A k \in DOMAIN runs : runs[k] \in RunType /\ Sound(runs[k])
  BY DEF IInv, Shape
<1>1. CASE SetWatch \/ UNCHANGED vars
  <2>1. runs' = runs /\ entry' = entry
    BY <1>1 DEF SetWatch, vars
  <2> QED
    BY <2>1 DEF IInv, Shape, OneStream
<1>2. CASE SyncOff
  <2>1. entry \in DOMAIN runs /\ runs' = [runs EXCEPT ![entry].cancelled = TRUE] /\ entry' = 0
    BY <1>2 DEF SyncOff, IInv, Shape
  <2> DEFINE r == [runs[entry] EXCEPT !.cancelled = TRUE]
  <2>2. r \in RunType /\ r.cancelled /\ Sound(r)
    BY <1>0, <2>1 DEF RunType, Sound
  <2>3. runs' = [runs EXCEPT ![entry] = r]
    BY <2>1
  <2> HIDE DEF r
  <2>4. runs' \in Seq(RunType) /\ Len(runs') = Len(runs) /\ DOMAIN runs' = DOMAIN runs
        /\ runs'[entry] = r /\ \A j \in DOMAIN runs \ {entry} : runs'[j] = runs[j]
    BY <2>1, <2>2, <2>3, Replaced DEF IInv, Shape
  <2>5. \A j \in DOMAIN runs : Sound(runs'[j]) /\ runs'[j].cancelled
    BY <2>2, <2>4 DEF IInv, OneStream
  <2> QED
    BY <2>1, <2>4, <2>5 DEF IInv, Shape, OneStream, Sound, Ends
<1>3. CASE SyncOn
  <2>1. runs' = Append(runs, NewRun) /\ entry' = Len(runs) + 1 /\ entry = 0 /\ Len(runs) < MaxRuns
    BY <1>3 DEF SyncOn, CanStart
  <2>2. runs' \in Seq(RunType) /\ Len(runs') = Len(runs) + 1 /\ runs'[Len(runs) + 1] = NewRun
        /\ \A j \in DOMAIN runs : runs'[j] = runs[j]
    BY <2>1, NewRunIs DEF IInv, Shape
  <2>3. \A j \in DOMAIN runs' : Sound(runs'[j]) /\ (j # Len(runs) + 1 <=> runs'[j].cancelled)
    <3> SUFFICES ASSUME NEW j \in DOMAIN runs' PROVE Sound(runs'[j]) /\ (j # Len(runs) + 1 <=> runs'[j].cancelled)
      OBVIOUS
    <3>1. CASE j = Len(runs) + 1
      BY <2>2, <3>1, NewRunIs
    <3>2. CASE j # Len(runs) + 1
      <4>1. j \in DOMAIN runs /\ j # entry
        BY <2>1, <2>2, <3>2 DEF IInv, Shape
      <4> QED
        BY <2>2, <3>2, <4>1 DEF IInv, OneStream
    <3> QED
      BY <3>1, <3>2
  <2> QED
    BY <2>1, <2>2, <2>3, BoundAssumption DEF IInv, Shape, OneStream, Sound, Ends
<1>4. ASSUME NEW k, Send(k) PROVE IInv'
  <2>1. PICK d \in Docs : Set(k, [runs[k] EXCEPT !.sent = Append(@, d), !.wire = @ \o <<d, NL, NL>>])
    BY <1>4 DEF Send
  <2>2. k \in DOMAIN runs
    BY <1>4 DEF Send
  <2> DEFINE r == [runs[k] EXCEPT !.sent = Append(@, d), !.wire = @ \o <<d, NL, NL>>]
  <2>3. Append(runs[k].sent, d) \in Seq(Docs) /\ runs[k].wire \o <<d, NL, NL>> \in Seq(Symbol)
    BY <1>0, <2>2 DEF RunType, Symbol
  <2>4. r \in RunType /\ Sound(r) /\ r.cancelled = runs[k].cancelled
    BY <1>0, <2>2, <2>3 DEF RunType, Sound
  <2> QED
    BY <2>1, <2>2, <2>4, SetStep
<1>5. ASSUME NEW k, ReadEnds(k) \/ CallFails(k) PROVE IInv'
  <2> DEFINE r == [runs[k] EXCEPT !.pc = "ended"]
  <2>1. k \in DOMAIN runs /\ Set(k, r)
    BY <1>5 DEF ReadEnds, CallFails
  <2>2. r \in RunType /\ Sound(r) /\ r.cancelled = runs[k].cancelled
    BY <1>0, <2>1 DEF RunType, Sound
  <2> QED
    BY <2>1, <2>2, SetStep
<1>6. ASSUME NEW k, Read(k) PROVE IInv'
  <2>1. k \in DOMAIN runs /\ runs[k].pc = "read"
    BY <1>6 DEF Read
  <2>2. PICK n \in 1..Len(runs[k].wire), last \in BOOLEAN :
          Set(k, [runs[k] EXCEPT !.pc = "frames", !.last = last,
                                 !.late = IF runs[k].cancelled THEN @ + 1 ELSE @,
                                 !.buf = @ \o SubSeq(runs[k].wire, 1, n),
                                 !.wire = SubSeq(@, n + 1, Len(@))])
    BY <1>6 DEF Read
  <2> DEFINE b == runs[k].buf \o SubSeq(runs[k].wire, 1, n)
  <2> DEFINE w == SubSeq(runs[k].wire, n + 1, Len(runs[k].wire))
  <2> DEFINE n1 == IF runs[k].cancelled THEN runs[k].late + 1 ELSE runs[k].late
  <2> DEFINE r == [runs[k] EXCEPT !.pc = "frames", !.last = last, !.late = n1, !.buf = b, !.wire = w]
  <2>3. runs[k].wire \in Seq(Symbol) /\ runs[k].buf \in Seq(Symbol)
    BY <1>0, <2>1 DEF RunType
  <2>4. SubSeq(runs[k].wire, 1, n) \in Seq(Symbol) /\ w \in Seq(Symbol)
    BY <2>3
  <2>5. b \in Seq(Symbol)
    BY <2>3, <2>4
  <2>6. Set(k, r)
    BY <2>2
  <2>8. n1 \in {0, 1} /\ (~runs[k].cancelled => n1 = 0)
    <3>1. runs[k].late \in Nat /\ runs[k].late <= 1 /\ runs[k].late # 1
      BY <1>0, <2>1 DEF RunType, Sound
    <3>2. ~runs[k].cancelled => runs[k].late = 0
      BY <1>0, <2>1 DEF Sound
    <3> QED
      BY <3>1, <3>2
  <2> HIDE DEF b, w, n1
  <2>9. /\ r \in RunType /\ r.cancelled = runs[k].cancelled
        /\ r.late = n1 /\ r.pc = "frames"
    <3>1. runs[k] \in RunType /\ n1 \in Nat
      BY <1>0, <2>1, <2>8
    <3>2. PICK q \in RunType : q = runs[k]
      BY <3>1
    <3> DEFINE t == [q EXCEPT !.pc = "frames", !.last = last, !.late = n1, !.buf = b, !.wire = w]
    <3>3. t \in RunType /\ t.cancelled = q.cancelled /\ t.late = n1 /\ t.pc = "frames"
      BY <2>4, <2>5, <3>1 DEF RunType
    <3> QED
      BY <3>2, <3>3
  <2>7. Sound(r)
    <3> HIDE DEF r
    <3>1. r.late <= 1 /\ r.pc # "read" /\ (~r.cancelled => r.late = 0)
      BY <2>8, <2>9
    <3> QED
      BY <3>1 DEF Sound
  <2> QED
    BY <2>1, <2>6, <2>7, <2>9, SetStep
<1>7. ASSUME NEW k, Frame(k) PROVE IInv'
  <2> DEFINE frame == SubSeq(runs[k].buf, 1, FrameEnd(runs[k].buf) - 1)
  <2> DEFINE b == Rest(runs[k].buf)
  <2> DEFINE h == Append(runs[k].handled, frame[1])
  <2>1. k \in DOMAIN runs /\ runs[k].pc = "frames" /\ Ends(runs[k].buf) # {}
    BY <1>7 DEF Frame
  <2>2. b \in Seq(Symbol) /\ runs[k].buf \in Seq(Symbol)
    BY <1>0, <2>1, RestIs DEF RunType
  <2>3. CASE Len(frame) # 1
    <3> DEFINE r == [runs[k] EXCEPT !.buf = b]
    <3>1. Set(k, r)
      BY <1>7, <2>3 DEF Frame
    <3> HIDE DEF b
    <3>2. r \in RunType /\ Sound(r) /\ r.cancelled = runs[k].cancelled
      BY <1>0, <2>1, <2>2 DEF RunType, Sound
    <3> QED
      BY <2>1, <3>1, <3>2, SetStep
  <2>4. CASE Len(frame) = 1 /\ frame[1] # Path
    <3> DEFINE r == [runs[k] EXCEPT !.buf = b, !.handled = h]
    <3>1. Set(k, r)
      BY <1>7, <2>4 DEF Frame
    <3>2. h \in Seq(Docs)
      <4>1. frame[1] \in Docs
        BY <2>1, <2>2, <2>4, FrameIs
      <4>2. runs[k].handled \in Seq(Docs)
        BY <1>0, <2>1 DEF RunType
      <4> HIDE DEF frame
      <4> QED
        BY <4>1, <4>2
    <3> HIDE DEF b, h
    <3>3. r \in RunType /\ Sound(r) /\ r.cancelled = runs[k].cancelled
      BY <1>0, <2>1, <2>2, <3>2 DEF RunType, Sound
    <3> QED
      BY <2>1, <3>1, <3>3, SetStep
  <2>5. CASE Len(frame) = 1 /\ frame[1] = Path
    <3> DEFINE r == InCall(runs[k], b, h)
    <3>1. Set(k, r)
      <4> DEFINE q == [runs[k] EXCEPT !.buf = b]
      <4>1. Set(k, [q EXCEPT !.handled = Append(@, frame[1]), !.pc = "reconcile"])
        BY <1>7, <2>5 DEF Frame
      <4>2. q.handled = runs[k].handled
        BY <1>0, <2>1 DEF RunType
      <4>3. Set(k, [q EXCEPT !.handled = h, !.pc = "reconcile"])
        <5> HIDE DEF q
        <5> QED
          BY <4>1, <4>2
      <4> HIDE DEF b, h
      <4> QED
        BY <4>3 DEF InCall
    <3>2. h \in Seq(Docs)
      <4>1. frame[1] \in Docs
        BY <2>1, <2>2, <2>5, FrameIs
      <4>2. runs[k].handled \in Seq(Docs)
        BY <1>0, <2>1 DEF RunType
      <4> HIDE DEF frame
      <4> QED
        BY <4>1, <4>2
    <3> HIDE DEF b, h
    <3>4. r \in RunType /\ r.cancelled = runs[k].cancelled /\ r.late = runs[k].late /\ r.pc = "reconcile"
      BY <1>0, <2>1, <2>2, <3>2, InCallIs
    <3>5. Sound(r)
      BY <1>0, <2>1, <3>4 DEF Sound
    <3> QED
      BY <2>1, <3>1, <3>4, <3>5, SetStep
  <2> QED
    BY <2>3, <2>4, <2>5
<1>8. ASSUME NEW k, CallReturns(k) PROVE IInv'
  <2> DEFINE r == [runs[k] EXCEPT !.pc = "frames"]
  <2>1. k \in DOMAIN runs /\ Set(k, r) /\ runs[k].pc = "reconcile"
    BY <1>8 DEF CallReturns
  <2>2. r \in RunType /\ r.pc = "frames" /\ r.cancelled = runs[k].cancelled /\ r.late = runs[k].late
    BY <1>0, <2>1 DEF RunType
  <2>3. Sound(r)
    BY <1>0, <2>1, <2>2 DEF Sound
  <2> QED
    BY <2>1, <2>2, <2>3, SetStep
<1>9. ASSUME NEW k, FramesDone(k) PROVE IInv'
  <2> DEFINE p == IF runs[k].last \/ runs[k].cancelled THEN "ended" ELSE "read"
  <2> DEFINE r == [runs[k] EXCEPT !.pc = p]
  <2>1. k \in DOMAIN runs /\ Set(k, r) /\ runs[k].pc = "frames" /\ Ends(runs[k].buf) = {}
    BY <1>9 DEF FramesDone
  <2>2. p \in {"ended", "read"} /\ (p = "read" => ~runs[k].cancelled)
    OBVIOUS
  <2> HIDE DEF p
  <2>4. r \in RunType /\ r.pc = p /\ r.cancelled = runs[k].cancelled /\ r.late = runs[k].late /\ r.buf = runs[k].buf
    BY <1>0, <2>1, <2>2 DEF RunType
  <2>3. r \in RunType /\ Sound(r) /\ r.cancelled = runs[k].cancelled
    <3> HIDE DEF r
    <3>1. r.late <= 1 /\ (~r.cancelled => r.late = 0) /\ Ends(r.buf) = {}
      BY <1>0, <2>1, <2>4 DEF Sound
    <3>2. r.late = 1 => r.pc # "read"
      BY <2>2, <2>4, <3>1
    <3> QED
      BY <2>4, <3>1, <3>2 DEF Sound
  <2> QED
    BY <2>1, <2>3, SetStep
<1> QED
  BY <1>1, <1>2, <1>3, <1>4, <1>5, <1>6, <1>7, <1>8, <1>9 DEF Next, Streaming

LEMMA InvAlways == Spec => []IInv
BY InvInit, InvNext, PTL DEF Spec

(* The types; a stream that waits for more has no whole frame left, with   *)
(* whatever parts the reads brought.                                       *)
THEOREM TypeCorrect == Spec => []TypeOK
<1>1. IInv => TypeOK
  <2> SUFFICES ASSUME IInv PROVE TypeOK
    OBVIOUS
  <2>1. \A k \in DOMAIN runs : runs[k] \in RunType /\ Sound(runs[k])
    BY DEF IInv, Shape
  <2>2. \A r \in RunType : r.pc \in {"read", "frames", "reconcile", "ended"}
          /\ r.sent \in Seq(Docs) /\ r.handled \in Seq(Docs) /\ r.wire \in Seq(Symbol) /\ r.buf \in Seq(Symbol)
    BY DEF RunType
  <2> QED
    BY <2>1, <2>2 DEF IInv, Shape, Sound, Symbol, TypeOK
<1> QED
  BY <1>1, InvAlways, PTL

(* At most one goroutine is wanted, the one in the map; every other one    *)
(* that was started for the HubPull has been cancelled.                    *)
THEOREM OneStreamCorrect == Spec => []OneStream
<1>1. IInv => OneStream
  BY DEF IInv
<1> QED
  BY <1>1, InvAlways, PTL

(* A stream that was cancelled reads the body at most once more, and after *)
(* that only hands on what is whole in its buffer, whether or not the      *)
(* Reconciles fail.                                                        *)
THEOREM LittleAfterCancelCorrect == Spec => []LittleAfterCancel
<1>1. IInv => LittleAfterCancel
  BY DEF IInv, Sound, LittleAfterCancel, At
<1> QED
  BY <1>1, InvAlways, PTL

-----------------------------------------------------------------------------
(* Each event once.  What the callback is still owed, framed, is what the  *)
(* buffer and the wire hold.                                               *)
Whole(r) == r.sent = r.handled \o Owed(r) /\ Framed(r.buf \o r.wire, Owed(r))

Once == \A k \in DOMAIN runs : Whole(runs[k])

(* A part of a sequence.                                                   *)
LEMMA PartIs ==
  ASSUME NEW S, NEW s \in Seq(S), NEW m \in Nat, NEW n \in Nat, m > 0, n <= Len(s)
  PROVE  /\ SubSeq(s, m, n) \in Seq(S)
         /\ Len(SubSeq(s, m, n)) = IF m <= n THEN n - m + 1 ELSE 0
         /\ \A i \in 1..(n - m + 1) : SubSeq(s, m, n)[i] = s[m + i - 1]
<1>1. \A i \in m..n : s[i] \in S
  OBVIOUS
<1> QED
  BY <1>1, SubSeqProperties

LEMMA JoinIs ==
  ASSUME NEW S, NEW s \in Seq(S), NEW t \in Seq(S)
  PROVE  /\ s \o t \in Seq(S)
         /\ Len(s \o t) = Len(s) + Len(t)
         /\ \A i \in 1..Len(s) : (s \o t)[i] = s[i]
         /\ \A i \in 1..Len(t) : (s \o t)[Len(s) + i] = t[i]
<1> DEFINE u == s \o t
<1>1. /\ u \in Seq(S) /\ Len(u) = Len(s) + Len(t)
      /\ \A i \in 1..(Len(s) + Len(t)) : u[i] = IF i <= Len(s) THEN s[i] ELSE t[i - Len(s)]
  BY ConcatProperties
<1>2. Len(s) \in Nat /\ Len(t) \in Nat
  OBVIOUS
<1> HIDE DEF u
<1>3. \A i \in 1..Len(s) : u[i] = s[i]
  BY <1>1, <1>2
<1>4. ASSUME NEW i \in 1..Len(t) PROVE u[Len(s) + i] = t[i]
  <2>1. Len(s) + i \in 1..(Len(s) + Len(t)) /\ ~(Len(s) + i <= Len(s)) /\ Len(s) + i - Len(s) = i
    BY <1>2
  <2> QED
    BY <1>1, <2>1
<1> QED
  BY <1>1, <1>3, <1>4 DEF u

(* One more event at the end.                                              *)
LEMMA FramedMore ==
  ASSUME NEW body \in Seq(Symbol), NEW events \in Seq(Docs), NEW d \in Docs, Framed(body, events)
  PROVE  Framed(body \o <<d, NL, NL>>, Append(events, d))
<1>1. PICK n \in Nat : n = Len(events) /\ Len(body) = 3 * n
  BY DEF Framed
<1>2. PICK more \in Seq(Symbol) : /\ more = <<d, NL, NL>> /\ Len(more) = 3
                                  /\ more[1] = d /\ more[2] = NL /\ more[3] = NL
  <2>1. <<d, NL, NL>> \in Seq(Symbol)
    BY DEF Symbol
  <2> QED
    BY <2>1
<1>3. PICK b \in Seq(Symbol) : b = body \o more
  BY ConcatProperties
<1>11. /\ Len(b) = Len(body) + 3
       /\ \A j \in 1..Len(body) : b[j] = body[j]
       /\ \A j \in 1..3 : b[Len(body) + j] = more[j]
  BY <1>2, <1>3, JoinIs
<1>12. Len(b) = 3 * n + 3 /\ \A j \in 1..(3 * n) : b[j] = body[j]
  BY <1>1, <1>11
<1>13. b[3 * n + 1] = d /\ b[3 * n + 2] = NL /\ b[3 * n + 3] = NL
  BY <1>1, <1>2, <1>11
<1>4. Append(events, d) \in Seq(Docs) /\ Len(Append(events, d)) = n + 1 /\ Append(events, d)[n + 1] = d
      /\ \A i \in 1..n : Append(events, d)[i] = events[i]
  BY <1>1, AppendProperties
<1>5. ASSUME NEW i \in 1..n
      PROVE  b[3 * i - 2] = events[i] /\ b[3 * i - 1] = NL /\ b[3 * i] = NL
  <2>1. 3 * i - 2 \in 1..(3 * n) /\ 3 * i - 1 \in 1..(3 * n) /\ 3 * i \in 1..(3 * n)
    BY <1>1
  <2>2. body[3 * i - 2] = events[i] /\ body[3 * i - 1] = NL /\ body[3 * i] = NL
    BY <1>1 DEF Framed
  <2> QED
    BY <1>12, <2>1, <2>2
<1>6. ASSUME NEW i \in 1..(n + 1)
      PROVE  b[3 * i - 2] = Append(events, d)[i] /\ b[3 * i - 1] = NL /\ b[3 * i] = NL
  <2>1. CASE i = n + 1
    <3>1. 3 * i - 2 = 3 * n + 1 /\ 3 * i - 1 = 3 * n + 2 /\ 3 * i = 3 * n + 3
      BY <1>1, <2>1
    <3>2. Append(events, d)[i] = d
      BY <1>4, <2>1
    <3> QED
      BY <1>13, <3>1, <3>2
  <2>2. CASE i # n + 1
    <3>1. i \in 1..n
      BY <2>2
    <3> QED
      BY <1>4, <1>5, <3>1
  <2> QED
    BY <2>1, <2>2
<1>7. Len(b) = 3 * Len(Append(events, d))
  BY <1>1, <1>4, <1>12
<1> QED
  BY <1>2, <1>3, <1>4, <1>6, <1>7 DEF Framed

(* The first event off.                                                    *)
LEMMA FramedLess ==
  ASSUME NEW body \in Seq(Symbol), NEW events \in Seq(Docs), Framed(body, events), events # <<>>
  PROVE  Framed(SubSeq(body, 4, Len(body)), Tail(events))
<1> DEFINE n == Len(events)
<1> DEFINE b == SubSeq(body, 4, Len(body))
<1>1. n \in Nat /\ n > 0 /\ Len(body) = 3 * n
  BY DEF Framed
<1>2. Len(b) = 3 * n - 3 /\ \A j \in 1..(3 * n - 3) : b[j] = body[j + 3]
  <2>1. /\ Len(b) = IF 4 <= Len(body) THEN Len(body) - 4 + 1 ELSE 0
        /\ \A i \in 1..(Len(body) - 4 + 1) : b[i] = body[4 + i - 1]
    BY PartIs
  <2> HIDE DEF b, n
  <2>2. 3 * n - 3 = Len(body) - 4 + 1 /\ \A j \in Int : 4 + j - 1 = j + 3
    BY <1>1
  <2> QED
    BY <1>1, <2>1, <2>2
<1>3. Tail(events) \in Seq(Docs) /\ Len(Tail(events)) = n - 1
      /\ \A i \in 1..(n - 1) : Tail(events)[i] = events[i + 1]
  BY <1>1, HeadTailProperties
<1>4. \A i \in 1..n : body[3 * i - 2] = events[i] /\ body[3 * i - 1] = NL /\ body[3 * i] = NL
  BY DEF Framed
<1> HIDE DEF b, n
<1>5. ASSUME NEW i \in 1..(n - 1)
      PROVE  b[3 * i - 2] = Tail(events)[i] /\ b[3 * i - 1] = NL /\ b[3 * i] = NL
  <2>1. 3 * i - 2 \in 1..(3 * n - 3) /\ 3 * i - 1 \in 1..(3 * n - 3) /\ 3 * i \in 1..(3 * n - 3)
    BY <1>1
  <2>2. b[3 * i - 2] = body[(3 * i - 2) + 3] /\ b[3 * i - 1] = body[(3 * i - 1) + 3] /\ b[3 * i] = body[3 * i + 3]
    BY <1>2, <2>1
  <2>3. i + 1 \in 1..n /\ 3 * (i + 1) - 2 = (3 * i - 2) + 3 /\ 3 * (i + 1) - 1 = (3 * i - 1) + 3
        /\ 3 * (i + 1) = 3 * i + 3
    BY <1>1
  <2> QED
    BY <1>3, <1>4, <2>2, <2>3
<1>6. Len(b) = 3 * Len(Tail(events))
  <2>1. 3 * n - 3 = 3 * (n - 1)
    BY <1>1
  <2> QED
    BY <1>2, <1>3, <2>1
<1> QED
  BY <1>3, <1>5, <1>6 DEF Framed, b

LEMMA OneIs ==
  ASSUME NEW b \in Seq(Symbol), Len(b) >= 1
  PROVE  SubSeq(b, 1, 1) = <<b[1]>>
<1>1. b[1] \in Symbol /\ Len(b) \in Nat
  OBVIOUS
<1> DEFINE c == SubSeq(b, 1, 1)
<1> DEFINE one == <<b[1]>>
<1>2. /\ c \in Seq(Symbol) /\ Len(c) = IF 1 <= 1 THEN 1 - 1 + 1 ELSE 0
      /\ \A i \in 1..(1 - 1 + 1) : c[i] = b[1 + i - 1]
  BY <1>1, PartIs
<1>3. one \in Seq(Symbol) /\ Len(one) = 1 /\ one[1] = b[1]
  BY <1>1
<1> HIDE DEF c, one
<1>4. Len(c) = 1 /\ c[1] = b[1]
  BY <1>2
<1>5. Len(c) = Len(one) /\ \A i \in 1..Len(c) : c[i] = one[i]
  BY <1>3, <1>4
<1>6. c = one
  BY <1>2, <1>3, <1>5, SeqEqual
<1> QED
  BY <1>6 DEF c, one

(* The first three symbols leave a body from its first part.               *)
LEMMA CutIs ==
  ASSUME NEW b \in Seq(Symbol), NEW w \in Seq(Symbol), Len(b) >= 3
  PROVE  SubSeq(b, 4, Len(b)) \o w = SubSeq(b \o w, 4, Len(b \o w))
<1>1. PICK m \in Nat : m = Len(b) /\ m >= 3
  OBVIOUS
<1>2. PICK n \in Nat : n = Len(w)
  OBVIOUS
<1>3. PICK bw \in Seq(Symbol) : bw = b \o w
  BY JoinIs
<1>4. /\ Len(bw) = m + n
      /\ \A i \in 1..m : bw[i] = b[i]
      /\ \A i \in 1..n : bw[m + i] = w[i]
  BY <1>1, <1>2, <1>3, JoinIs
<1>5. PICK c \in Seq(Symbol) : c = SubSeq(b, 4, m)
  <2>1. SubSeq(b, 4, m) \in Seq(Symbol)
    BY <1>1, PartIs
  <2> QED
    BY <2>1, Zenon
<1>6. Len(c) = m - 3 /\ \A i \in 1..(m - 3) : c[i] = b[i + 3]
  <2>1. /\ Len(c) = IF 4 <= m THEN m - 4 + 1 ELSE 0
        /\ \A i \in 1..(m - 4 + 1) : c[i] = b[4 + i - 1]
    BY <1>1, <1>5, PartIs
  <2> QED
    BY <1>1, <2>1
<1>7. PICK t \in Seq(Symbol) : t = SubSeq(bw, 4, m + n)
  <2>1. m + n \in Nat /\ m + n <= Len(bw)
    BY <1>4
  <2>2. SubSeq(bw, 4, m + n) \in Seq(Symbol)
    BY <2>1, PartIs
  <2> QED
    BY <2>2, Zenon
<1>8. Len(t) = m + n - 3 /\ \A i \in 1..(m + n - 3) : t[i] = bw[i + 3]
  <2>1. /\ Len(t) = IF 4 <= m + n THEN m + n - 4 + 1 ELSE 0
        /\ \A i \in 1..(m + n - 4 + 1) : t[i] = bw[4 + i - 1]
    BY <1>1, <1>2, <1>4, <1>7, PartIs
  <2> QED
    BY <1>1, <1>2, <2>1
<1>9. PICK cw \in Seq(Symbol) : cw = c \o w
  BY JoinIs
<1>10. /\ Len(cw) = m - 3 + n
       /\ \A i \in 1..(m - 3) : cw[i] = c[i]
       /\ \A i \in 1..n : cw[m - 3 + i] = w[i]
  <2>1. /\ Len(cw) = Len(c) + Len(w)
        /\ \A i \in 1..Len(c) : cw[i] = c[i]
        /\ \A i \in 1..Len(w) : cw[Len(c) + i] = w[i]
    BY <1>9, JoinIs
  <2>2. Len(c) = m - 3 /\ Len(w) = n
    BY <1>2, <1>6
  <2> QED
    BY <2>1, <2>2
<1>11. ASSUME NEW i \in 1..(m + n - 3) PROVE cw[i] = t[i]
  <2>1. i \in Nat /\ i > 0 /\ t[i] = bw[i + 3]
    BY <1>8
  <2>2. CASE i <= m - 3
    <3>1. i \in 1..(m - 3) /\ i + 3 \in 1..m
      BY <1>1, <2>1, <2>2
    <3> QED
      BY <1>4, <1>6, <1>10, <2>1, <3>1
  <2>3. CASE ~(i <= m - 3)
    <3>1. PICK j \in 1..n : i = m - 3 + j /\ i + 3 = m + j
      <4>1. i - (m - 3) \in 1..n
        BY <1>1, <1>2, <2>1, <2>3, SMTT(60)
      <4> QED
        BY <1>1, <2>1, <4>1
    <3> QED
      BY <1>4, <1>10, <2>1, <3>1
  <2> QED
    BY <2>2, <2>3
<1>12. Len(cw) = Len(t) /\ \A i \in 1..Len(cw) : cw[i] = t[i]
  <2>1. m - 3 + n = m + n - 3
    BY <1>1, <1>2
  <2> QED
    BY <1>8, <1>10, <1>11, <2>1
<1>13. cw = t
  BY <1>12, SeqEqual
<1> QED
  BY <1>1, <1>3, <1>4, <1>5, <1>7, <1>9, <1>13

(* The first whole frame of a buffer is the first event that is owed, and  *)
(* nothing but its three symbols leaves the buffer with it.                *)
LEMMA FirstFrame ==
  ASSUME NEW b \in Seq(Symbol), NEW w \in Seq(Symbol), NEW events \in Seq(Docs),
         Framed(b \o w, events), Ends(b) # {}
  PROVE  /\ events # <<>> /\ FrameEnd(b) = 2 /\ Len(b) >= 3
         /\ SubSeq(b, 1, FrameEnd(b) - 1) = <<events[1]>>
         /\ Rest(b) \o w = SubSeq(b \o w, 4, Len(b \o w))
<1> DEFINE e == FrameEnd(b)
<1>1. e \in 1..(Len(b) - 1) /\ b[e] = NL
      /\ \A j \in 1..(Len(b) - 1) : b[j] = NL /\ b[j + 1] = NL => e <= j
  BY FrameEndIs
<1> HIDE DEF e
<1>2. Len(b) \in Nat /\ Len(w) \in Nat /\ Len(b) >= 2 /\ Len(b \o w) = Len(b) + Len(w)
      /\ \A j \in 1..Len(b) : (b \o w)[j] = b[j]
  BY <1>1, ConcatProperties
<1>3. Len(events) \in Nat /\ Len(b \o w) = 3 * Len(events) /\ Len(events) > 0
  BY <1>2 DEF Framed
<1>4. (b \o w)[1] = events[1] /\ (b \o w)[2] = NL /\ (b \o w)[3] = NL
  <2>1. 1 \in 1..Len(events) /\ 3 * 1 - 2 = 1 /\ 3 * 1 - 1 = 2 /\ 3 * 1 = 3
    BY <1>3
  <2>2. \A i \in 1..Len(events) : (b \o w)[3 * i - 2] = events[i] /\ (b \o w)[3 * i - 1] = NL /\ (b \o w)[3 * i] = NL
    BY DEF Framed
  <2>3. (b \o w)[3 * 1 - 2] = events[1] /\ (b \o w)[3 * 1 - 1] = NL /\ (b \o w)[3 * 1] = NL
    BY <2>1, <2>2
  <2> QED
    BY <2>1, <2>3
<1>5. events[1] \in Docs /\ b[1] = events[1] /\ b[1] # NL
  BY <1>2, <1>3, <1>4, PathAssumption
<1>6. e # 1 /\ Len(b) >= 3
  BY <1>1, <1>2, <1>5
<1>7. b[2] = NL /\ b[3] = NL
  BY <1>2, <1>4, <1>6
<1>8. e = 2
  BY <1>1, <1>6, <1>7
<1>9. SubSeq(b, 1, 1) = <<events[1]>>
  BY <1>2, <1>5, OneIs
<1>10. SubSeq(b, 4, Len(b)) \o w = SubSeq(b \o w, 4, Len(b \o w))
  BY <1>6, CutIs
<1>11. e - 1 = 1 /\ e + 2 = 4
  BY <1>8
<1>12. events # <<>>
  BY <1>3
<1> QED
  BY <1>6, <1>8, <1>9, <1>10, <1>11, <1>12 DEF e, Rest

(* A read moves a part of the body.                                        *)
LEMMA Moved ==
  ASSUME NEW b \in Seq(Symbol), NEW w \in Seq(Symbol), NEW n \in 1..Len(w)
  PROVE  (b \o SubSeq(w, 1, n)) \o SubSeq(w, n + 1, Len(w)) = b \o w
<1>1. Len(w) \in Nat /\ n \in Nat /\ n <= Len(w)
  OBVIOUS
<1>2. SubSeq(w, 1, n) \in Seq(Symbol)
  BY <1>1, PartIs
<1>3. SubSeq(w, n + 1, Len(w)) \in Seq(Symbol)
  BY <1>1, PartIs
<1>4. SubSeq(w, 1, n) \o SubSeq(w, n + 1, Len(w)) = SubSeq(w, 1, Len(w))
  BY <1>1, ConcatAdjacentSubSeq
<1>5. SubSeq(w, 1, Len(w)) = w
  BY SubSeqFull
<1>6. PICK f \in Seq(Symbol), g \in Seq(Symbol) :
        f = SubSeq(w, 1, n) /\ g = SubSeq(w, n + 1, Len(w)) /\ f \o g = w
  <2>1. \A f, g \in Seq(Symbol) :
          f = SubSeq(w, 1, n) /\ g = SubSeq(w, n + 1, Len(w)) => f \o g = w
    BY <1>4, <1>5, Zenon
  <2> QED
    BY <1>2, <1>3, <2>1, Zenon
<1>7. (b \o f) \o g = b \o (f \o g)
  BY ONLY ConcatAssociative, b \in Seq(Symbol), f \in Seq(Symbol), g \in Seq(Symbol), SMTT(60)
<1> QED
  BY <1>6, <1>7

-----------------------------------------------------------------------------
(* What is owed is what has to follow the events that were handled.        *)
LEMMA OwedIs ==
  ASSUME NEW h \in Seq(Docs), NEW e \in Seq(Docs), NEW r, r.handled = h, r.sent = h \o e
  PROVE  Owed(r) = e
<1>1. PICK s \in Seq(Docs) : s = h \o e
  BY JoinIs
<1>2. PICK m \in Nat : m = Len(h)
  OBVIOUS
<1>3. PICK n \in Nat : n = Len(e)
  OBVIOUS
<1>4. Len(s) = m + n /\ \A i \in 1..n : s[m + i] = e[i]
  BY <1>1, <1>2, <1>3, JoinIs
<1>5. PICK t \in Seq(Docs) : t = SubSeq(s, m + 1, m + n)
  <2>1. m + 1 \in Nat /\ m + n \in Nat /\ m + 1 > 0 /\ m + n <= Len(s)
    BY <1>4
  <2>2. SubSeq(s, m + 1, m + n) \in Seq(Docs)
    BY <2>1, PartIs
  <2> QED
    BY <2>2, Zenon
<1>6. Len(t) = n /\ \A i \in 1..n : t[i] = s[m + i]
  <2>1. /\ Len(t) = IF m + 1 <= m + n THEN m + n - (m + 1) + 1 ELSE 0
        /\ \A i \in 1..(m + n - (m + 1) + 1) : t[i] = s[m + 1 + i - 1]
    BY <1>4, <1>5, PartIs
  <2> QED
    BY <2>1
<1>7. \A i \in 1..n : t[i] = e[i]
  BY <1>4, <1>6
<1>8. t = e
  BY <1>3, <1>6, <1>7, SeqEqual
<1> QED
  BY <1>1, <1>2, <1>4, <1>5, <1>8 DEF Owed

LEMMA WholeIf ==
  ASSUME NEW r \in RunType, NEW e \in Seq(Docs), r.sent = r.handled \o e, Framed(r.buf \o r.wire, e)
  PROVE  Whole(r)
<1>1. Owed(r) = e
  BY OwedIs DEF RunType
<1> QED
  BY <1>1 DEF Whole

LEMMA OwedType ==
  ASSUME NEW r \in RunType
  PROVE  Owed(r) \in Seq(Docs)
<1>1. r.sent \in Seq(Docs) /\ Len(r.sent) \in Nat /\ Len(r.handled) + 1 \in Nat /\ Len(r.handled) + 1 > 0
  BY DEF RunType
<1> QED
  BY <1>1, PartIs DEF Owed

(* Send: the event joins those that are owed, its frame the wire.          *)
LEMMA WholeSend ==
  ASSUME NEW q \in RunType, Whole(q), NEW d \in Docs, NEW r \in RunType,
         r.sent = Append(q.sent, d), r.wire = q.wire \o <<d, NL, NL>>,
         r.handled = q.handled, r.buf = q.buf
  PROVE  Whole(r)
<1>1. PICK e \in Seq(Docs) : q.sent = q.handled \o e /\ Framed(q.buf \o q.wire, e)
  BY OwedType DEF Whole
<1>2. PICK h \in Seq(Docs), b \in Seq(Symbol), w \in Seq(Symbol) : h = q.handled /\ b = q.buf /\ w = q.wire
  BY DEF RunType
<1>3. PICK m \in Seq(Symbol) : m = <<d, NL, NL>>
  <2>1. <<d, NL, NL>> \in Seq(Symbol)
    BY DEF Symbol
  <2> QED
    BY <2>1, Zenon
<1>4. PICK one \in Seq(Docs) : one = <<d>>
  <2>1. <<d>> \in Seq(Docs)
    OBVIOUS
  <2> QED
    BY <2>1, Zenon
<1>5. PICK f \in Seq(Docs) : f = Append(e, d) /\ f = e \o one
  <2>1. Append(e, d) \in Seq(Docs) /\ Append(e, d) = e \o one
    BY <1>4, AppendProperties, AppendIsConcat
  <2> QED
    BY <2>1, Zenon
<1>6. r.sent = h \o f
  <2>1. h \o e \in Seq(Docs)
    BY JoinIs
  <2>2. Append(h \o e, d) = (h \o e) \o one
    BY <1>4, <2>1, AppendIsConcat
  <2>3. (h \o e) \o one = h \o (e \o one)
    BY ONLY ConcatAssociative, h \in Seq(Docs), e \in Seq(Docs), one \in Seq(Docs), SMTT(60)
  <2> QED
    BY <1>1, <1>2, <1>5, <2>2, <2>3, Zenon
<1>7. Framed(r.buf \o r.wire, f)
  <2>1. b \o w \in Seq(Symbol)
    BY JoinIs
  <2>2. Framed((b \o w) \o m, f)
    <3>1. Framed(b \o w, e)
      BY <1>1, <1>2, Zenon
    <3> QED
      BY <1>3, <1>5, <2>1, <3>1, FramedMore, Zenon
  <2>3. (b \o w) \o m = b \o (w \o m)
    BY ONLY ConcatAssociative, b \in Seq(Symbol), w \in Seq(Symbol), m \in Seq(Symbol), SMTT(60)
  <2> QED
    BY <1>2, <1>3, <2>2, <2>3, Zenon
<1>8. r.sent = r.handled \o f
  BY <1>2, <1>6, Zenon
<1> QED
  BY <1>7, <1>8, WholeIf

(* Read: what is in front of the wire goes to the end of the buffer.       *)
LEMMA WholeRead ==
  ASSUME NEW q \in RunType, Whole(q), NEW n \in 1..Len(q.wire), NEW r \in RunType,
         r.sent = q.sent, r.handled = q.handled,
         r.buf = q.buf \o SubSeq(q.wire, 1, n), r.wire = SubSeq(q.wire, n + 1, Len(q.wire))
  PROVE  Whole(r)
<1>1. PICK b \in Seq(Symbol), w \in Seq(Symbol) : b = q.buf /\ w = q.wire
  BY DEF RunType
<1>2. r.buf \o r.wire = q.buf \o q.wire
  <2>1. n \in 1..Len(w)
    BY <1>1
  <2>2. (b \o SubSeq(w, 1, n)) \o SubSeq(w, n + 1, Len(w)) = b \o w
    BY <2>1, Moved
  <2> QED
    BY <1>1, <2>2, Zenon
<1> QED
  BY <1>2, OwedType, WholeIf DEF Whole

(* Frame: a whole frame of the buffer is the first event that is owed.     *)
LEMMA WholeFrame ==
  ASSUME NEW q \in RunType, Whole(q), Ends(q.buf) # {}
  PROVE  LET frame == SubSeq(q.buf, 1, FrameEnd(q.buf) - 1)
         IN /\ Len(frame) = 1
            /\ \A r \in RunType :
                 /\ r.sent = q.sent /\ r.handled = Append(q.handled, frame[1])
                 /\ r.buf = Rest(q.buf) /\ r.wire = q.wire
                 => Whole(r)
<1> DEFINE frame == SubSeq(q.buf, 1, FrameEnd(q.buf) - 1)
<1>1. PICK e \in Seq(Docs) : q.sent = q.handled \o e /\ Framed(q.buf \o q.wire, e)
  BY OwedType DEF Whole
<1>2. PICK h \in Seq(Docs), b \in Seq(Symbol), w \in Seq(Symbol) : h = q.handled /\ b = q.buf /\ w = q.wire
  BY DEF RunType
<1>3. e # <<>> /\ frame = <<e[1]>> /\ Rest(b) \o w = SubSeq(b \o w, 4, Len(b \o w))
  <2>1. Framed(b \o w, e) /\ Ends(b) # {}
    BY <1>1, <1>2
  <2>2. e # <<>> /\ SubSeq(b, 1, FrameEnd(b) - 1) = <<e[1]>> /\ Rest(b) \o w = SubSeq(b \o w, 4, Len(b \o w))
    BY <2>1, FirstFrame
  <2> QED
    BY <1>2, <2>2, Zenon
<1>4. PICK d \in Docs : d = e[1]
  BY <1>3
<1>5. Len(frame) = 1 /\ frame[1] = d
  <2> HIDE DEF frame
  <2> QED
    BY <1>3, <1>4
<1>6. PICK t \in Seq(Docs) : t = Tail(e)
  BY <1>3, HeadTailProperties
<1>7. Framed(Rest(b) \o w, t)
  <2>1. b \o w \in Seq(Symbol)
    BY JoinIs
  <2>2. Framed(b \o w, e)
    BY <1>1, <1>2, Zenon
  <2>3. Framed(SubSeq(b \o w, 4, Len(b \o w)), Tail(e))
    BY <1>3, <2>1, <2>2, FramedLess, Zenon
  <2> QED
    BY <1>3, <1>6, <2>3, Zenon
<1>8. h \o e = Append(h, d) \o t
  <2>1. PICK one \in Seq(Docs) : one = <<d>>
    <3>1. <<d>> \in Seq(Docs)
      OBVIOUS
    <3> QED
      BY <3>1, Zenon
  <2>2. e = one \o t
    <3>1. Len(e) \in Nat /\ Len(e) > 0 /\ 1 \in 1..Len(e) /\ Len(e) \in 1..Len(e)
      BY <1>3
    <3>2. SubSeq(e, 1, Len(e)) = <<e[1]>> \o SubSeq(e, 1 + 1, Len(e))
      BY <3>1, SubSeqRecursiveFirst
    <3>3. SubSeq(e, 1, Len(e)) = e /\ Tail(e) = SubSeq(e, 2, Len(e)) /\ 1 + 1 = 2
      BY <1>3, SubSeqFull, TailIsSubSeq
    <3> QED
      BY <1>4, <1>6, <2>1, <3>2, <3>3, Zenon
  <2>3. Append(h, d) = h \o one
    BY <2>1, AppendIsConcat
  <2>4. (h \o one) \o t = h \o (one \o t)
    BY ONLY ConcatAssociative, h \in Seq(Docs), one \in Seq(Docs), t \in Seq(Docs), SMTT(60)
  <2> QED
    BY <2>2, <2>3, <2>4, Zenon
<1>9. ASSUME NEW r \in RunType, r.sent = q.sent, r.handled = Append(q.handled, frame[1]),
             r.buf = Rest(q.buf), r.wire = q.wire
      PROVE  Whole(r)
  <2> HIDE DEF frame
  <2>1. r.sent = r.handled \o t
    BY <1>1, <1>2, <1>5, <1>8, <1>9, Zenon
  <2>2. Framed(r.buf \o r.wire, t)
    BY <1>2, <1>7, <1>9, Zenon
  <2> QED
    BY <2>1, <2>2, WholeIf
<1> QED
  BY <1>5, <1>9, Zenon

(* What neither sends, reads nor takes a frame keeps the four sequences.   *)
LEMMA WholeKept ==
  ASSUME NEW q \in RunType, Whole(q), NEW r \in RunType,
         r.sent = q.sent, r.handled = q.handled, r.buf = q.buf, r.wire = q.wire
  PROVE  Whole(r)
BY OwedType, WholeIf DEF Whole

LEMMA WholeNew == Whole(NewRun)
<1>1. NewRun \in RunType /\ NewRun.sent = <<>> /\ NewRun.handled = <<>> /\ NewRun.buf = <<>> /\ NewRun.wire = <<>>
  BY NewRunIs DEF NewRun
<1>2. <<>> \in Seq(Docs) /\ <<>> \o <<>> = <<>>
  OBVIOUS
<1>3. Framed(<<>>, <<>>)
  BY DEF Framed
<1> QED
  BY <1>1, <1>2, <1>3, WholeIf

LEMMA OnceStep ==
  ASSUME IInv, Once, NEW k \in DOMAIN runs, NEW r \in RunType, Whole(r), Set(k, r)
  PROVE  Once'
<1>1. runs' = [runs EXCEPT ![k] = r]
  BY DEF Set
<1>2. DOMAIN runs' = DOMAIN runs /\ runs'[k] = r /\ \A j \in DOMAIN runs \ {k} : runs'[j] = runs[j]
  BY <1>1, Replaced DEF IInv, Shape
<1>3. \A j \in DOMAIN runs' : Whole(runs'[j])
  BY <1>2 DEF Once
<1> QED
  BY <1>3 DEF Once, Whole, Owed, Framed

LEMMA OnceNext == IInv /\ Once /\ [Next]_vars => Once'
<1> SUFFICES ASSUME IInv, Once, [Next]_vars PROVE Once'
  OBVIOUS
<1> USE DEF At
<1>0. \A k \in DOMAIN runs : runs[k] \in RunType /\ Whole(runs[k])
  BY DEF IInv, Shape, Once
<1>1. CASE SetWatch \/ UNCHANGED vars
  <2>1. runs' = runs
    BY <1>1 DEF SetWatch, vars
  <2> QED
    BY <2>1 DEF Once, Whole, Owed, Framed
<1>2. CASE SyncOff
  <2> DEFINE r == [runs[entry] EXCEPT !.cancelled = TRUE]
  <2>1. entry \in DOMAIN runs /\ runs' = [runs EXCEPT ![entry] = r]
    BY <1>2 DEF SyncOff, IInv, Shape
  <2>2. /\ r \in RunType /\ r.sent = runs[entry].sent /\ r.handled = runs[entry].handled
        /\ r.buf = runs[entry].buf /\ r.wire = runs[entry].wire
    BY <1>0, <2>1 DEF RunType
  <2> HIDE DEF r
  <2>3. Whole(r)
    BY <1>0, <2>1, <2>2, WholeKept
  <2>4. DOMAIN runs' = DOMAIN runs /\ runs'[entry] = r /\ \A j \in DOMAIN runs \ {entry} : runs'[j] = runs[j]
    BY <2>1, <2>2, Replaced DEF IInv, Shape
  <2>5. \A j \in DOMAIN runs' : Whole(runs'[j])
    BY <1>0, <2>1, <2>3, <2>4
  <2> QED
    BY <2>5 DEF Once, Whole, Owed, Framed
<1>3. CASE SyncOn
  <2>1. runs' = Append(runs, NewRun)
    BY <1>3 DEF SyncOn
  <2>2. runs' \in Seq(RunType) /\ Len(runs') = Len(runs) + 1 /\ runs'[Len(runs) + 1] = NewRun
        /\ \A j \in DOMAIN runs : runs'[j] = runs[j]
    BY <2>1, NewRunIs DEF IInv, Shape
  <2>3. ASSUME NEW j \in DOMAIN runs' PROVE Whole(runs'[j])
    <3>1. j = Len(runs) + 1 \/ j \in DOMAIN runs
      BY <2>2 DEF IInv, Shape
    <3> QED
      BY <1>0, <2>2, <3>1, WholeNew
  <2> QED
    BY <2>3 DEF Once, Whole, Owed, Framed
<1>4. ASSUME NEW k, Send(k) PROVE Once'
  <2>1. k \in DOMAIN runs
    BY <1>4 DEF Send
  <2>2. PICK d \in Docs : Set(k, [runs[k] EXCEPT !.sent = Append(@, d), !.wire = @ \o <<d, NL, NL>>])
    BY <1>4 DEF Send
  <2>3. PICK q \in RunType : q = runs[k] /\ Whole(q)
    BY <1>0, <2>1
  <2> DEFINE s == Append(q.sent, d)
  <2> DEFINE w == q.wire \o <<d, NL, NL>>
  <2>4. s \in Seq(Docs) /\ w \in Seq(Symbol)
    BY DEF RunType, Symbol
  <2> DEFINE r == [q EXCEPT !.sent = s, !.wire = w]
  <2>5. Set(k, r)
    BY <2>2, <2>3
  <2>6. r \in RunType /\ r.sent = s /\ r.wire = w /\ r.handled = q.handled /\ r.buf = q.buf
    <3> HIDE DEF s, w
    <3> QED
      BY <2>4 DEF RunType
  <2> HIDE DEF r
  <2>7. Whole(r)
    BY <2>3, <2>6, WholeSend
  <2> QED
    BY <2>1, <2>5, <2>6, <2>7, OnceStep
<1>5. ASSUME NEW k \in DOMAIN runs, NEW p \in {"read", "frames", "reconcile", "ended"},
             Set(k, [runs[k] EXCEPT !.pc = p])
      PROVE  Once'
  <2> DEFINE r == [runs[k] EXCEPT !.pc = p]
  <2>1. /\ r \in RunType /\ r.sent = runs[k].sent /\ r.handled = runs[k].handled
        /\ r.buf = runs[k].buf /\ r.wire = runs[k].wire
    BY <1>0 DEF RunType
  <2>2. Set(k, r)
    BY <1>5
  <2> HIDE DEF r
  <2>3. Whole(r)
    BY <1>0, <2>1, WholeKept
  <2> QED
    BY <2>1, <2>2, <2>3, OnceStep
<1>6. ASSUME NEW k, Read(k) PROVE Once'
  <2>1. k \in DOMAIN runs
    BY <1>6 DEF Read
  <2>2. PICK n \in 1..Len(runs[k].wire), last \in BOOLEAN :
          Set(k, [runs[k] EXCEPT !.pc = "frames", !.last = last,
                                 !.late = IF runs[k].cancelled THEN @ + 1 ELSE @,
                                 !.buf = @ \o SubSeq(runs[k].wire, 1, n),
                                 !.wire = SubSeq(@, n + 1, Len(@))])
    BY <1>6 DEF Read
  <2>3. PICK q \in RunType : q = runs[k] /\ Whole(q)
    BY <1>0, <2>1
  <2> DEFINE f == SubSeq(q.wire, 1, n)
  <2> DEFINE b == q.buf \o f
  <2> DEFINE w == SubSeq(q.wire, n + 1, Len(q.wire))
  <2>4. q.wire \in Seq(Symbol) /\ q.buf \in Seq(Symbol) /\ n \in 1..Len(q.wire)
    BY <2>3 DEF RunType
  <2>5. f \in Seq(Symbol) /\ w \in Seq(Symbol)
    BY <2>4
  <2>6. b \in Seq(Symbol)
    BY <2>4, <2>5
  <2> DEFINE n1 == IF q.cancelled THEN q.late + 1 ELSE q.late
  <2> DEFINE r == [q EXCEPT !.pc = "frames", !.last = last, !.late = n1, !.buf = b, !.wire = w]
  <2>7. Set(k, r)
    BY <2>2, <2>3
  <2>8. r \in RunType /\ r.sent = q.sent /\ r.handled = q.handled /\ r.buf = b /\ r.wire = w
    <3>1. n1 \in Nat
      BY DEF RunType
    <3> HIDE DEF b, w, n1
    <3> QED
      BY <2>5, <2>6, <3>1 DEF RunType
  <2> HIDE DEF r
  <2>9. Whole(r)
    BY <2>3, <2>4, <2>8, WholeRead
  <2> QED
    BY <2>1, <2>7, <2>8, <2>9, OnceStep
<1>7. ASSUME NEW k, Frame(k) PROVE Once'
  <2>1. k \in DOMAIN runs /\ Ends(runs[k].buf) # {}
    BY <1>7 DEF Frame
  <2>2. PICK q \in RunType : q = runs[k] /\ Whole(q) /\ Ends(q.buf) # {}
    BY <1>0, <2>1
  <2> DEFINE frame == SubSeq(q.buf, 1, FrameEnd(q.buf) - 1)
  <2> DEFINE h == Append(q.handled, frame[1])
  <2> DEFINE b == Rest(q.buf)
  <2>3. /\ Len(frame) = 1
        /\ \A r \in RunType :
             r.sent = q.sent /\ r.handled = h /\ r.buf = b /\ r.wire = q.wire => Whole(r)
    BY <2>2, WholeFrame
  <2>4. b \in Seq(Symbol) /\ q.buf \in Seq(Symbol) /\ q.handled \in Seq(Docs)
    BY <2>2, RestIs DEF RunType
  <2>5. h \in Seq(Docs)
    <3>1. frame[1] \in Docs
      BY <2>2, <2>3, <2>4, FrameIs
    <3> HIDE DEF frame
    <3> QED
      BY <2>4, <3>1
  <2> DEFINE c == [q EXCEPT !.buf = b]
  <2>6. c.handled = q.handled
    BY DEF RunType
  <2>7. \/ Set(k, [c EXCEPT !.handled = Append(@, frame[1])])
        \/ Set(k, [c EXCEPT !.handled = Append(@, frame[1]), !.pc = "reconcile"])
    BY <1>7, <2>2, <2>3 DEF Frame
  <2>8. \/ Set(k, [c EXCEPT !.handled = h])
        \/ Set(k, [c EXCEPT !.handled = h, !.pc = "reconcile"])
    <3> HIDE DEF c, frame
    <3> QED
      BY <2>6, <2>7
  <2>10. ASSUME NEW r \in {[c EXCEPT !.handled = h], [c EXCEPT !.handled = h, !.pc = "reconcile"]}
         PROVE  r \in RunType /\ r.sent = q.sent /\ r.handled = h /\ r.buf = b /\ r.wire = q.wire
    <3> HIDE DEF b, h
    <3> QED
      BY <2>4, <2>5, ZenonT(60) DEF RunType
  <2>11. PICK r \in {[c EXCEPT !.handled = h], [c EXCEPT !.handled = h, !.pc = "reconcile"]} : Set(k, r)
    <3> HIDE DEF b, h, c
    <3> QED
      BY <2>8
  <2> HIDE DEF b, h, c
  <2>12. r \in RunType /\ Whole(r)
    BY <2>3, <2>10
  <2> QED
    BY <2>1, <2>11, <2>12, OnceStep
<1>8. ASSUME NEW k, ReadEnds(k) \/ CallFails(k) \/ CallReturns(k) \/ FramesDone(k) PROVE Once'
  <2>1. k \in DOMAIN runs
    BY <1>8 DEF ReadEnds, CallFails, CallReturns, FramesDone
  <2>2. \E p \in {"read", "frames", "reconcile", "ended"} : Set(k, [runs[k] EXCEPT !.pc = p])
    BY <1>8 DEF ReadEnds, CallFails, CallReturns, FramesDone
  <2> QED
    BY <1>5, <2>1, <2>2
<1> QED
  BY <1>1, <1>2, <1>3, <1>4, <1>6, <1>7, <1>8 DEF Next, Streaming

(* However the body is cut into reads, every event that was sent is handed *)
(* to the callback once, in order; what is still owed is on its way whole. *)
THEOREM FramesCorrect == Spec => []FramesOnce
<1>1. Init => Once
  BY DEF Init, Once
<1>2. Once => FramesOnce
  BY DEF Once, Whole, FramesOnce
<1>3. Spec => []Once
  BY <1>1, OnceNext, InvAlways, PTL DEF Spec
<1> QED
  BY <1>2, <1>3, PTL

=============================================================================
