------------------------- MODULE AccessListsProofs -------------------------
(***************************************************************************)
(* Proofs about AccessLists, for any lists, requests, paths and bounds.    *)
(***************************************************************************)
EXTENDS AccessLists, TLAPS

Body    == TokenLists \cup IssuerLists \cup {<<NewRecord(c)>> : c \in Creations} \cup {Absent, Unparsed}
Content == [gen : Nat, body : Body \cup {<<>>}]

IsRequest(x) ==
  \E pc \in {"idle", "open", "granted"} : \E who, m, p :
    x = [pc |-> pc, who |-> who, method |-> m, path |-> p]

Shape ==
  /\ past \in [Files -> Seq(Body)] /\ \A f \in Files : Len(past[f]) \in 1..MaxWrites
  /\ loaded \in [Files -> Content]
  /\ reload \in [file : Files \cup {"none"}, start : Nat, held : Content, up : BOOLEAN]
  /\ floor \in Nat
  /\ provider \in [Providers -> Content]
  /\ req = [r \in Requests |-> req[r]] /\ \A r \in Requests : IsRequest(req[r])

(* A token list is a sequence of records. *)
IsList(b) == b \in {Absent, Unparsed} \/ DOMAIN b = 1..Len(b)
Lists == \A g \in 1..Len(past["tokens"]) : IsList(past["tokens"][g])

(* What is held, and what is in force, the file has contained.             *)
InForce(f, c) == c = Empty \/ (Had(f, c) /\ c.body # Unparsed)

Sources ==
  /\ \A f \in Files : InForce(f, loaded[f])
  /\ reload.held # None => reload.file \in Files /\ Had(reload.file, reload.held)
  /\ \A q \in Providers : provider[q] # None => Had("issuers", provider[q])

(* What a load of the tokens has read is no older than its beginning, and  *)
(* no older than the list in force.                                        *)
Order ==
  /\ floor <= loaded["tokens"].gen
  /\ reload.start <= Len(past["tokens"])
  /\ reload.file = "tokens" /\ reload.held # None =>
       reload.start <= reload.held.gen /\ loaded["tokens"].gen <= reload.held.gen

IInv == Shape /\ Lists /\ Sources /\ Order

-----------------------------------------------------------------------------
LEMMA Constants ==
  /\ None \in Content /\ Empty \in Content
  /\ \A l \in TokenLists \cup {<<NewRecord(c)>> : c \in Creations} : IsList(l)
BY ContentAssumption DEF Content, None, Empty, Body, IsList

LEMMA FilesAre == Files = {"tokens", "issuers"} /\ "tokens" # "issuers" /\ "none" \notin Files
BY DEF Files

LEMMA CurrentHad ==
  ASSUME Shape, NEW f \in Files
  PROVE  /\ Current(f) \in Content /\ Current(f).gen = Len(past[f]) /\ Current(f).body = Last(past[f])
         /\ Current(f) # None
         /\ Last(past[f]) # Absent => Had(f, Current(f))
<1>1. past[f] \in Seq(Body) /\ Len(past[f]) \in 1..MaxWrites
  BY DEF Shape
<1>2. past[f][Len(past[f])] \in Body
  BY <1>1
<1> QED
  BY <1>1, <1>2, WritesAssumption DEF Current, Content, None, Last, Had

(* The files grow: what one has contained it has contained for ever.       *)
LEMMA Grows ==
  ASSUME Shape, NEW f \in Files, NEW b \in Body, Write(f, b)
  PROVE  /\ past' \in [Files -> Seq(Body)] /\ \A g \in Files : Len(past'[g]) \in 1..MaxWrites
         /\ past'[f] = Append(past[f], b)
         /\ \A g \in Files : Len(past[g]) <= Len(past'[g])
         /\ \A g \in Files, c \in Content : Had(g, c) => Had(g, c)'
         /\ Lists /\ (f = "tokens" => IsList(b)) => Lists'
<1>1. past' = [past EXCEPT ![f] = Append(past[f], b)] /\ Len(past[f]) < MaxWrites
  BY DEF Write
<1>2. \A g \in Files : past[g] \in Seq(Body) /\ Len(past[g]) \in 1..MaxWrites
  BY DEF Shape
<1>3. past' \in [Files -> Seq(Body)] /\ \A g \in Files : Len(past'[g]) \in 1..MaxWrites
  BY <1>1, <1>2, WritesAssumption DEF Shape
<1>4. past'[f] = Append(past[f], b) /\ \A g \in Files \ {f} : past'[g] = past[g]
  BY <1>1 DEF Shape
<1>5. \A g \in Files : Len(past[g]) <= Len(past'[g]) /\ \A i \in 1..Len(past[g]) : past'[g][i] = past[g][i]
  BY <1>2, <1>4
<1>6. ASSUME NEW g \in Files, NEW c \in Content, Had(g, c) PROVE Had(g, c)'
  BY <1>2, <1>3, <1>5, <1>6 DEF Had, Content
<1>7. ASSUME Lists, f = "tokens" => IsList(b), NEW i \in 1..Len(past'["tokens"]) PROVE IsList(past'["tokens"][i])
  <2>1. CASE i \in 1..Len(past["tokens"])
    BY <1>5, <1>7, <2>1, FilesAre DEF Lists
  <2>2. CASE i \notin 1..Len(past["tokens"])
    <3>1. f = "tokens" /\ past'["tokens"][i] = b
      BY <1>2, <1>4, <2>2, FilesAre
    <3> QED
      BY <1>7, <3>1
  <2> QED
    BY <2>1, <2>2
<1> QED
  BY <1>3, <1>4, <1>5, <1>6, <1>7 DEF Lists

LEMMA LoadedIs ==
  ASSUME NEW f \in Files, NEW old \in Content, NEW new \in Content, InForce(f, old), Had(f, new)
  PROVE  Loaded(old, new) \in Content /\ InForce(f, Loaded(old, new))
BY DEF Loaded, InForce

LEMMA InvInit == Init => IInv
<1> SUFFICES ASSUME Init PROVE IInv
  OBVIOUS
<1>1. \A f \in Files : past[f][1] \in Contents(f) \cup {Absent} /\ \E b \in Body : past[f] = <<b>>
  BY DEF Init, Body
<1>2. past \in [Files -> Seq(Body)] /\ \A f \in Files : Len(past[f]) = 1
  <2>1. past = [f \in Files |-> past[f]]
    BY DEF Init
  <2>2. \A f \in Files : past[f] \in Seq(Body) /\ Len(past[f]) = 1
    <3> SUFFICES ASSUME NEW f \in Files PROVE past[f] \in Seq(Body) /\ Len(past[f]) = 1
      OBVIOUS
    <3>1. PICK b \in Body : past[f] = <<b>>
      BY <1>1
    <3> QED
      BY <3>1
  <2> QED
    BY <2>1, <2>2
<1>3. IsRequest(NoRequest)
  <2>1. NoRequest = [pc |-> "idle", who |-> Nobody, method |-> "get", path |-> <<>>] /\ "idle" \in {"idle", "open", "granted"}
    BY DEF NoRequest
  <2> QED
    BY <2>1, Zenon DEF IsRequest
<1>4. Shape
  <2>1. reload \in [file : Files \cup {"none"}, start : Nat, held : Content, up : BOOLEAN]
    <3>1. reload = [file |-> "tokens", start |-> 1, held |-> None, up |-> FALSE]
      BY <1>2, FilesAre DEF Init, Booting
    <3> QED
      BY <3>1, Constants, FilesAre
  <2>2. \A f \in Files : Len(past[f]) \in 1..MaxWrites
    <3>1. 1 \in 1..MaxWrites
      BY WritesAssumption
    <3> QED
      BY <1>2, <3>1
  <2>3. req = [r \in Requests |-> req[r]] /\ \A r \in Requests : IsRequest(req[r])
    BY <1>3 DEF Init
  <2>4. loaded \in [Files -> Content] /\ provider \in [Providers -> Content] /\ floor \in Nat
    BY Constants DEF Init
  <2> QED
    BY <1>2, <2>1, <2>2, <2>3, <2>4 DEF Shape
<1>5. Lists
  BY <1>1, <1>2, Constants, FilesAre DEF Lists, IsList, Contents
<1>6. Sources /\ Order
  <2>1. \A f \in Files : loaded[f] = Empty
    BY DEF Init
  <2>2. reload.held = None /\ reload.start = 1 /\ floor = 0 /\ loaded["tokens"].gen = 0 /\ Len(past["tokens"]) = 1
    BY <1>2, FilesAre DEF Init, Booting, Empty
  <2>3. \A q \in Providers : provider[q] = None
    BY DEF Init
  <2> QED
    BY <2>1, <2>2, <2>3 DEF Sources, Order, InForce
<1> QED
  BY <1>4, <1>5, <1>6 DEF IInv

-----------------------------------------------------------------------------
(* Requests                                                                *)

Granted(x, p) == [x EXCEPT !.pc = "granted", !.path = p]

LEMMA RequestIs ==
  ASSUME NEW x, IsRequest(x), NEW p
  PROVE  /\ IsRequest([x EXCEPT !.pc = "open"]) /\ IsRequest(NoRequest) /\ IsRequest(Answered(x))
         /\ IsRequest(Granted(x, p)) /\ Granted(x, p).pc = "granted" /\ Granted(x, p).path = p
         /\ Granted(x, p).who = x.who /\ Granted(x, p).method = x.method
         /\ Answered(x).pc # "granted"
<1>0. PICK pc \in {"idle", "open", "granted"} : \E who, m, q : x = [pc |-> pc, who |-> who, method |-> m, path |-> q]
  BY Zenon DEF IsRequest
<1>1. PICK who, m, q : x = [pc |-> pc, who |-> who, method |-> m, path |-> q]
  BY <1>0
<1>2. [x EXCEPT !.pc = "open"] = [pc |-> "open", who |-> who, method |-> m, path |-> q]
  BY <1>1
<1>3. Granted(x, p) = [pc |-> "granted", who |-> who, method |-> m, path |-> p]
  <2> DEFINE y == [x EXCEPT !.pc = "granted"]
  <2>1. y = [pc |-> "granted", who |-> who, method |-> m, path |-> q]
    BY <1>1
  <2>2. Granted(x, p) = [y EXCEPT !.path = p]
    BY DEF Granted
  <2> HIDE DEF y
  <2>3. [y EXCEPT !.path = p] = [pc |-> y.pc, who |-> y.who, method |-> y.method, path |-> p]
    BY <2>1
  <2> QED
    BY <2>1, <2>2, <2>3
<1>4. NoRequest = [pc |-> "idle", who |-> Nobody, method |-> "get", path |-> <<>>]
  BY DEF NoRequest
<1>5. \A a \in {"idle", "open", "granted"} : \A b, c, d : IsRequest([pc |-> a, who |-> b, method |-> c, path |-> d])
  BY Zenon DEF IsRequest
<1>6. IsRequest([x EXCEPT !.pc = "open"]) /\ IsRequest(NoRequest)
      /\ IsRequest(Granted(x, p))
  BY <1>2, <1>3, <1>4, <1>5
<1>7. Answered(x) \in {[x EXCEPT !.pc = "open"], NoRequest}
  BY DEF Answered
<1>8. [x EXCEPT !.pc = "open"].pc # "granted" /\ NoRequest.pc # "granted"
  BY <1>2, <1>4
<1> QED
  BY <1>1, <1>3, <1>6, <1>7, <1>8

LEMMA RequestStep ==
  ASSUME Shape, NEW r \in Requests, NEW x, IsRequest(x), req' = [req EXCEPT ![r] = x]
  PROVE  /\ req' = [q \in Requests |-> req'[q]] /\ \A q \in Requests : IsRequest(req'[q])
         /\ req'[r] = x /\ \A q \in Requests \ {r} : req'[q] = req[q]
BY DEF Shape

(* What a step does to one request. *)
LEMMA RequestsOnly ==
  ASSUME Shape, NEW r \in Requests, Authenticate(r) \/ Decide(r) \/ Answer(r) \/ Close(r)
  PROVE  /\ req' = [q \in Requests |-> req'[q]] /\ \A q \in Requests : IsRequest(req'[q])
         /\ UNCHANGED <<past, loaded, reload, floor, provider, jwts>>
         /\ \A q \in Requests : Granting(q) =>
              /\ req'[q].who = req[q].who /\ req'[q].method = req[q].method
              /\ req'[q].path \in Paths /\ Allowed(req[q].who, req[q].method, req'[q].path)
<1>0. \A q \in Requests : IsRequest(req[q])
  BY DEF Shape
<1>1. CASE Authenticate(r)
  <2>1. PICK w, m, p : req' = [req EXCEPT ![r] = [pc |-> "open", who |-> w, method |-> m, path |-> p]]
    BY <1>1 DEF Authenticate
  <2>2. IsRequest([pc |-> "open", who |-> w, method |-> m, path |-> p])
    BY Zenon DEF IsRequest
  <2>3. \A q \in Requests : ~Granting(q)
    BY <2>1, <2>2, RequestStep DEF Granting
  <2> QED
    BY <1>1, <2>1, <2>2, <2>3, RequestStep DEF Authenticate
<1>2. CASE Decide(r)
  <2>1. PICK p \in Paths : req' = [req EXCEPT ![r] =
                                    IF Allowed(req[r].who, req[r].method, p)
                                    THEN [req[r] EXCEPT !.pc = "granted", !.path = p]
                                    ELSE Answered(req[r])]
    BY <1>2 DEF Decide
  <2> DEFINE y == Granted(req[r], p)
  <2>2. IsRequest(y) /\ y.who = req[r].who /\ y.method = req[r].method /\ y.path = p
        /\ IsRequest(Answered(req[r])) /\ Answered(req[r]).pc # "granted"
    BY <1>0, RequestIs
  <2> HIDE DEF y
  <2>3. CASE Allowed(req[r].who, req[r].method, p)
    <3>1. req' = [req EXCEPT ![r] = y]
      BY <2>1, <2>3 DEF y, Granted
    <3> QED
      BY <1>2, <2>2, <2>3, <3>1, RequestStep DEF Decide, Granting
  <2>4. CASE ~Allowed(req[r].who, req[r].method, p)
    <3>1. req' = [req EXCEPT ![r] = Answered(req[r])]
      BY <2>1, <2>4
    <3> QED
      BY <1>2, <2>2, <3>1, RequestStep DEF Decide, Granting
  <2> QED
    BY <2>3, <2>4
<1>3. CASE Answer(r)
  <2>1. IsRequest(Answered(req[r])) /\ Answered(req[r]).pc # "granted"
    BY <1>0, RequestIs
  <2> QED
    BY <1>3, <2>1, RequestStep DEF Answer, Granting
<1>4. CASE Close(r)
  <2>1. IsRequest(NoRequest) /\ NoRequest.pc # "granted"
    BY <1>0, RequestIs DEF NoRequest
  <2> QED
    BY <1>4, <2>1, RequestStep DEF Close, Granting
<1> QED
  BY <1>1, <1>2, <1>3, <1>4

-----------------------------------------------------------------------------
LEMMA InvNext == IInv /\ [Next]_vars => IInv'
<1> SUFFICES ASSUME IInv, [Next]_vars PROVE IInv'
  OBVIOUS
<1>0. /\ loaded \in [Files -> Content] /\ reload.held \in Content /\ reload.start \in Nat /\ floor \in Nat
      /\ \A f \in Files : loaded[f].gen \in Nat /\ Len(past[f]) \in Nat
      /\ \A c \in Content : c.gen \in Nat
  BY DEF IInv, Shape, Content
<1>1. ASSUME NEW f \in Files, NEW b \in Body, Write(f, b), f = "tokens" => IsList(b) PROVE IInv'
  <2>1. Shape' /\ Lists'
    BY <1>1, Grows DEF IInv, Shape, Write
  <2>2. Sources'
    <3>1. loaded' = loaded /\ reload' = reload /\ provider' = provider
      BY <1>1 DEF Write
    <3>2. \A g \in Files, c \in Content : InForce(g, c) => InForce(g, c)'
      BY <1>1, Grows DEF IInv, InForce
    <3>3. \A g \in Files, c \in Content : Had(g, c) => Had(g, c)'
      BY <1>1, Grows DEF IInv
    <3>4. \A g \in Files : InForce(g, loaded[g])'
      BY <1>0, <3>1, <3>2 DEF IInv, Sources, InForce, Had
    <3>5. reload.held # None => reload.file \in Files /\ Had(reload.file, reload.held)'
      BY <1>0, <3>1, <3>3 DEF IInv, Sources, Had
    <3>6. \A q \in Providers : provider[q] # None => Had("issuers", provider[q])'
      BY <3>1, <3>3, FilesAre DEF IInv, Sources, Shape, Had
    <3> QED
      BY <3>1, <3>4, <3>5, <3>6 DEF Sources
  <2>3. Order'
    <3>1. Len(past["tokens"]) <= Len(past'["tokens"]) /\ Len(past'["tokens"]) \in Nat
      BY <1>1, Grows, FilesAre DEF IInv
    <3> QED
      BY <1>0, <1>1, <3>1, FilesAre DEF IInv, Order, Write
  <2> QED
    BY <2>1, <2>2, <2>3 DEF IInv
<1>2. CASE FileChanges
  <2>1. PICK f \in Files : \E b \in Contents(f) \cup {Absent, Unparsed} : Write(f, b)
    BY <1>2 DEF FileChanges
  <2>2. PICK b \in Contents(f) \cup {Absent, Unparsed} : Write(f, b)
    BY <2>1
  <2>3. b \in Body /\ (f = "tokens" => IsList(b))
    BY <2>2, Constants DEF Contents, Body, IsList
  <2> QED
    BY <1>1, <2>2, <2>3
<1>3. CASE TokenCreate
  <2>1. PICK c \in Creations : Write("tokens", <<NewRecord(c)>>)
    BY <1>3 DEF TokenCreate
  <2>2. <<NewRecord(c)>> \in Body /\ IsList(<<NewRecord(c)>>)
    BY Constants DEF Body
  <2> QED
    BY <1>1, <2>1, <2>2, FilesAre
<1>4. CASE PollOK
  <2>1. reload' = [file |-> "tokens", start |-> Len(past["tokens"]), held |-> None, up |-> TRUE]
    BY <1>4 DEF PollOK, Booting
  <2>2. UNCHANGED <<past, loaded, floor, provider, req>>
    BY <1>4 DEF PollOK
  <2>3. Shape'
    BY <1>0, <2>1, <2>2, Constants, FilesAre DEF IInv, Shape
  <2>4. Lists' /\ Sources'
    BY <2>1, <2>2 DEF IInv, Lists, Sources, InForce, Had
  <2>5. Order'
    BY <1>0, <2>1, <2>2, FilesAre DEF IInv, Order
  <2> QED
    BY <2>3, <2>4, <2>5 DEF IInv
<1>5. ASSUME NEW f \in Files PROVE Following(f) \in [file : Files \cup {"none"}, start : Nat, held : Content, up : BOOLEAN]
                                   /\ Following(f).held = None /\ Following(f).start = reload.start
  BY Constants, FilesAre DEF Following, IInv, Shape
<1>6. ASSUME NEW f \in Files, Read(f) PROVE IInv'
  <2>1. UNCHANGED <<past, loaded, floor, provider, req>> /\ reload.file = f
    BY <1>6 DEF Read
  <2>2. CASE Last(past[f]) = Absent
    <3>1. reload' = Following(f)
      BY <1>6, <2>2 DEF Read
    <3>2. Shape'
      BY <1>5, <2>1, <3>1 DEF IInv, Shape
    <3> QED
      BY <1>0, <1>5, <2>1, <3>1, <3>2 DEF IInv, Lists, Sources, InForce, Had, Order
  <2>3. CASE Last(past[f]) # Absent
    <3>1. reload' = [reload EXCEPT !.held = Current(f)]
      BY <1>6, <2>3 DEF Read
    <3>2. Current(f) \in Content /\ Current(f).gen = Len(past[f]) /\ Had(f, Current(f))
      BY <2>3, CurrentHad DEF IInv
    <3>3. reload' \in [file : Files \cup {"none"}, start : Nat, held : Content, up : BOOLEAN]
          /\ reload'.held = Current(f) /\ reload'.file = f /\ reload'.start = reload.start
      BY <2>1, <3>1, <3>2 DEF IInv, Shape
    <3>4. Shape'
      BY <2>1, <3>3 DEF IInv, Shape
    <3>5. Lists' /\ Sources'
      BY <2>1, <3>2, <3>3 DEF IInv, Lists, Sources, InForce, Had
    <3>6. loaded["tokens"].gen <= Len(past["tokens"])
      BY <1>0, FilesAre DEF IInv, Sources, InForce, Had, Empty
    <3>7. Order'
      BY <1>0, <2>1, <3>2, <3>3, <3>6 DEF IInv, Order
    <3> QED
      BY <3>4, <3>5, <3>7 DEF IInv
  <2> QED
    BY <2>2, <2>3
<1>7. ASSUME NEW f \in Files, Load(f) PROVE IInv'
  <2>1. UNCHANGED <<past, provider, req>> /\ reload' = Following(f) /\ reload.file = f /\ reload.held # None
    BY <1>7 DEF Load
  <2> DEFINE l == Loaded(loaded[f], reload.held)
  <2>2. Had(f, reload.held) /\ l \in Content /\ InForce(f, l)
    BY <1>0, <2>1, LoadedIs DEF IInv, Sources
  <2>3. l = IF reload.held.body = Unparsed THEN loaded[f] ELSE reload.held
    BY DEF Loaded
  <2>4. loaded' = [loaded EXCEPT ![f] = l] /\ floor' = (IF f = "tokens" /\ reload.held.body # Unparsed THEN reload.start ELSE floor)
    BY <1>7 DEF Load
  <2> HIDE DEF l
  <2>5. loaded' \in [Files -> Content] /\ loaded'[f] = l /\ \A g \in Files \ {f} : loaded'[g] = loaded[g]
    BY <1>0, <2>2, <2>4
  <2>6. Shape'
    BY <1>0, <1>5, <2>1, <2>4, <2>5 DEF IInv, Shape
  <2>7. Lists' /\ Sources'
    BY <1>5, <2>1, <2>2, <2>5 DEF IInv, Lists, Sources, InForce, Had
  <2>8. Order'
    <3>1. Following(f).held = None /\ Following(f).start = reload.start
      BY <1>5
    <3>2. floor' <= loaded'["tokens"].gen
      BY <1>0, <2>1, <2>3, <2>4, <2>5, FilesAre DEF IInv, Order
    <3> QED
      BY <2>1, <3>1, <3>2 DEF IInv, Order
  <2> QED
    BY <2>6, <2>7, <2>8 DEF IInv
<1>8. ASSUME NEW q \in Providers, ProvidersRead(q) PROVE IInv'
  <2>1. UNCHANGED <<past, loaded, reload, floor, req>> /\ provider' = [provider EXCEPT ![q] = Current("issuers")]
        /\ Last(past["issuers"]) # Absent
    BY <1>8 DEF ProvidersRead
  <2>2. Current("issuers") \in Content /\ Had("issuers", Current("issuers"))
    BY <2>1, CurrentHad, FilesAre DEF IInv
  <2>3. provider' \in [Providers -> Content] /\ \A p \in Providers : provider'[p] \in {provider[p], Current("issuers")}
    BY <2>1, <2>2 DEF IInv, Shape
  <2>4. Shape'
    BY <2>1, <2>3 DEF IInv, Shape
  <2>5. Lists' /\ Order'
    BY <2>1 DEF IInv, Lists, Order
  <2>6. Sources'
    BY <2>1, <2>2, <2>3 DEF IInv, Sources, InForce, Had
  <2> QED
    BY <2>4, <2>5, <2>6 DEF IInv
<1>9. ASSUME NEW q \in Providers, ProvidersLoad(q) PROVE IInv'
  <2> DEFINE l == Loaded(loaded["issuers"], provider[q])
  <2>1. UNCHANGED <<past, reload, floor, req>> /\ provider' = [provider EXCEPT ![q] = None]
        /\ loaded' = [loaded EXCEPT !["issuers"] = l] /\ provider[q] # None
    BY <1>9 DEF ProvidersLoad
  <2>2. l \in Content /\ InForce("issuers", l)
    BY <1>0, <2>1, FilesAre, LoadedIs DEF IInv, Shape, Sources
  <2> HIDE DEF l
  <2>3. loaded' \in [Files -> Content] /\ loaded'["issuers"] = l /\ loaded'["tokens"] = loaded["tokens"]
    BY <1>0, <2>1, <2>2, FilesAre
  <2>4. provider' \in [Providers -> Content] /\ \A p \in Providers : provider'[p] \in {provider[p], None}
    BY <2>1, Constants DEF IInv, Shape
  <2>5. Shape'
    BY <2>1, <2>3, <2>4 DEF IInv, Shape
  <2>6. Lists' /\ Order'
    BY <2>1, <2>3 DEF IInv, Lists, Order
  <2>7. Sources'
    BY <2>1, <2>2, <2>3, <2>4, FilesAre DEF IInv, Sources, InForce, Had
  <2> QED
    BY <2>5, <2>6, <2>7 DEF IInv
<1>10. ASSUME UNCHANGED <<past, loaded, reload, floor, provider, req>> PROVE IInv'
  BY <1>10 DEF IInv, Shape, Lists, Sources, Order, InForce, Had
<1>11. ASSUME NEW r \in Requests, Authenticate(r) \/ Decide(r) \/ Answer(r) \/ Close(r) PROVE IInv'
  <2>1. req' = [q \in Requests |-> req'[q]] /\ \A q \in Requests : IsRequest(req'[q])
    BY <1>11, RequestsOnly DEF IInv
  <2>2. UNCHANGED <<past, loaded, reload, floor, provider>>
    BY <1>11, RequestsOnly DEF IInv
  <2>3. Shape'
    BY <2>1, <2>2 DEF IInv, Shape
  <2> QED
    BY <2>2, <2>3 DEF IInv, Lists, Sources, Order, InForce, Had
<1>12. CASE Restart
  <2>1. reload' = [file |-> "tokens", start |-> Len(past["tokens"]), held |-> None, up |-> FALSE]
    BY <1>12 DEF Restart, Booting
  <2>2. past' = past /\ loaded' = [f \in Files |-> Empty] /\ floor' = 0
        /\ provider' = [q \in Providers |-> None] /\ req' = [r \in Requests |-> NoRequest]
    BY <1>12 DEF Restart
  <2>3. IsRequest(NoRequest)
    <3>1. NoRequest = [pc |-> "idle", who |-> Nobody, method |-> "get", path |-> <<>>] /\ "idle" \in {"idle", "open", "granted"}
      BY DEF NoRequest
    <3> QED
      BY <3>1, Zenon DEF IsRequest
  <2>4. reload' \in [file : Files \cup {"none"}, start : Nat, held : Content, up : BOOLEAN]
    BY <1>0, <2>1, Constants, FilesAre
  <2>5. Shape'
    BY <2>2, <2>3, <2>4, Constants DEF IInv, Shape
  <2>6. Lists' /\ Sources'
    BY <2>1, <2>2 DEF IInv, Lists, Sources, InForce, Had
  <2>7. Order'
    BY <1>0, <2>1, <2>2, FilesAre DEF Order, Empty
  <2> QED
    BY <2>5, <2>6, <2>7 DEF IInv
<1> QED
  BY <1>2, <1>3, <1>4, <1>6, <1>7, <1>8, <1>9, <1>10, <1>11, <1>12
     DEF Next, Loading, Exchange, Expire, vars

LEMMA InvAlways == Spec => []IInv
BY InvInit, InvNext, PTL DEF Spec

(* What is in force, what a load holds and what a request of the providers *)
(* holds are contents the files really had, and the floor of the tokens is *)
(* not above the list in force.                                            *)
THEOREM TypeCorrect == Spec => []TypeOK
<1>1. IInv => TypeOK
  BY DEF IInv, Shape, Sources, Order, InForce, TypeOK
<1> QED
  BY <1>1, InvAlways, PTL

(* While hubd runs, the tokens in force never go back to an earlier        *)
(* content of tokens.yaml.                                                 *)
THEOREM TokensOnlyForward == Spec => TokensNeverGoBack
<1> DEFINE Forward == reload.up /\ reload'.up => loaded["tokens"].gen <= loaded'["tokens"].gen
<1>1. IInv /\ [Next]_vars => [Forward]_vars
  <2> SUFFICES ASSUME IInv, Next PROVE Forward
    OBVIOUS
  <2>0. loaded \in [Files -> Content] /\ "tokens" \in Files /\ "issuers" \in Files /\ loaded["tokens"].gen \in Nat
    BY FilesAre DEF IInv, Shape, Content
  <2>1. ASSUME loaded'["tokens"] = loaded["tokens"] PROVE Forward
    BY <2>0, <2>1
  <2>2. ASSUME NEW f \in Files, Load(f) PROVE Forward
    <3>1. loaded' = [loaded EXCEPT ![f] = Loaded(@, reload.held)] /\ reload.file = f /\ reload.held # None
      BY <2>2 DEF Load
    <3>2. f = "tokens" => loaded'["tokens"] \in {loaded["tokens"], reload.held}
      BY <2>0, <3>1 DEF Loaded
    <3>3. f # "tokens" => loaded'["tokens"] = loaded["tokens"]
      BY <2>0, <3>1
    <3> QED
      BY <2>0, <3>1, <3>2, <3>3 DEF IInv, Order
  <2>3. ASSUME NEW q \in Providers, ProvidersLoad(q) PROVE Forward
    <3>1. loaded'["tokens"] = loaded["tokens"]
      BY <2>0, <2>3, FilesAre DEF ProvidersLoad
    <3> QED
      BY <2>1, <3>1
  <2>4. CASE Restart
    BY <2>4 DEF Restart, Booting
  <2>5. CASE UNCHANGED loaded
    BY <2>1, <2>5
  <2> QED
    BY <2>2, <2>3, <2>4, <2>5 DEF Next, Loading, FileChanges, TokenCreate, Write, PollOK, Read, ProvidersRead,
       Exchange, Expire, Authenticate, Decide, Answer, Close
<1> QED
  BY <1>1, InvAlways, PTL DEF Spec, TokensNeverGoBack

(* Every grant rests on one record, or one rule, with that action and over *)
(* that document, of a list that the file contained, for tokens.yaml at or *)
(* after the beginning of the last load, whatever principal the request    *)
(* was given before; no service token or OIDC principal puts a system      *)
(* document.                                                               *)
THEOREM GrantsRestOnFreshRecords == Spec => GrantRestsOnFreshRecord
<1> DEFINE Rested == \A r \in Requests : Granting(r) => GrantRests(req'[r])
<1>1. IInv /\ [Next]_vars => [Rested]_vars
  <2> SUFFICES ASSUME IInv, Next, NEW r \in Requests, Granting(r) PROVE GrantRests(req'[r])
    OBVIOUS
  <2>1. PICK q \in Requests : Authenticate(q) \/ Decide(q) \/ Answer(q) \/ Close(q)
    <3>1. ~Restart
      BY DEF Restart, Granting, NoRequest
    <3>2. ~UNCHANGED req
      BY DEF Granting
    <3> QED
      BY <3>1, <3>2 DEF Next, Loading, FileChanges, TokenCreate, Write, PollOK, Read, Load, ProvidersRead, ProvidersLoad,
         Exchange, Expire
  <2>2. req'[r].who = req[r].who /\ req'[r].method = req[r].method
        /\ Allowed(req[r].who, req[r].method, req'[r].path)
    BY <2>1, RequestsOnly DEF IInv
  <2> DEFINE x == req'[r]
  <2> DEFINE api == TrimData(GitPath(x.path))
  <2>3. ASSUME x.who.kind = "token"
        PROVE  \E g \in DOMAIN past["tokens"] :
                 /\ g >= floor
                 /\ past["tokens"][g] \notin {Absent, Unparsed}
                 /\ RecordGrants(past["tokens"][g], x)
    <3> DEFINE list == loaded["tokens"].body
    <3> DEFINE g == loaded["tokens"].gen
    <3>1. PICK i \in DOMAIN list :
            /\ list[i].id = x.who.id /\ InScope(list[i], api)
            /\ \A j \in 1..i : list[j].id = x.who.id => TokenAllowsAction(list[j], Action(x.method))
      BY <2>2, <2>3 DEF Allowed, Authorize, AuthorizeToken
    <3>2. loaded["tokens"] # Empty
      BY <3>1 DEF Empty
    <3>3. Had("tokens", loaded["tokens"]) /\ list # Unparsed /\ list # Absent
      BY <3>2, FilesAre DEF IInv, Sources, InForce, Had
    <3>4. g \in 1..Len(past["tokens"]) /\ past["tokens"][g] = list /\ past["tokens"] \in Seq(Body)
      BY <3>3, FilesAre DEF IInv, Shape, Had
    <3>5. i \in 1..i
      BY <3>1, <3>3, <3>4 DEF IInv, Lists, IsList
    <3>6. TokenAllowsAction(list[i], Action(x.method))
      BY <3>1, <3>5
    <3>7. RecordGrants(list, x)
      BY <3>1, <3>6 DEF RecordGrants
    <3>8. g \in DOMAIN past["tokens"] /\ g >= floor
      BY <3>4 DEF IInv, Order, Shape
    <3> QED
      BY <3>3, <3>4, <3>7, <3>8
  <2>4. ASSUME x.who.kind = "oidc"
        PROVE  \E g \in DOMAIN past["issuers"] :
                 /\ past["issuers"][g] \notin {Absent, Unparsed}
                 /\ RuleGrants(past["issuers"][g], x)
    <3> DEFINE list == loaded["issuers"].body
    <3> DEFINE g == loaded["issuers"].gen
    <3>1. PICK rule \in IssuerRules, pat \in UNION {u.paths : u \in IssuerRules} :
            /\ pat \in rule.paths
            /\ PathMatch(<<"data">> \o api, pat) \/ PathMatch(api, TrimData(pat))
            /\ \/ rule[Action(x.method)].authenticated
               \/ rule[Action(x.method)].groups \cap x.who.groups # {}
      BY <2>2, <2>4 DEF Allowed, Authorize, AuthorizeClaims
    <3>2. PICK i \in DOMAIN list : rule \in list[i].rules
      BY <3>1 DEF IssuerRules
    <3>3. loaded["issuers"] # Empty
      BY <3>2 DEF Empty
    <3>4. Had("issuers", loaded["issuers"]) /\ list # Unparsed /\ list # Absent
      BY <3>3, FilesAre DEF IInv, Sources, InForce, Had
    <3>5. g \in 1..Len(past["issuers"]) /\ past["issuers"][g] = list /\ past["issuers"] \in Seq(Body)
      BY <3>4, FilesAre DEF IInv, Shape, Had
    <3>6. RuleGrants(list, x)
      BY <3>1, <3>2 DEF RuleGrants
    <3> QED
      BY <3>4, <3>5, <3>6
  <2>5. x.method = "put" /\ IsSystem(x.path) => x.who.kind = "bootstrap"
    BY <2>2 DEF Allowed
  <2> QED
    BY <2>3, <2>4, <2>5 DEF GrantRests
<1> QED
  BY <1>1, InvAlways, PTL DEF Spec, GrantRestsOnFreshRecord

-----------------------------------------------------------------------------
(* The newest content of the file is in force, and nobody is about to load *)
(* an older one.                                                           *)
InForceForGood(f) ==
  /\ loaded[f].gen = Len(past[f])
  /\ f = "issuers" =>
       /\ reload.file = f /\ reload.held # None => reload.held.gen = Len(past[f])
       /\ \A q \in Providers : provider[q] # None => provider[q].gen = Len(past[f])

StaysInForce ==
  [][\A f \in Files :
       InForceForGood(f) /\ past'[f] = past[f] /\ reload.up /\ reload'.up => InForceForGood(f)']_vars

(* While hubd runs the newest content of a file stays in force until the   *)
(* file changes, whatever loads and providers requests interleave.  For    *)
(* issuers.yaml this needs that no request holds an older content (it is   *)
(* the code's only way back: two loaders, each reading under one lock and  *)
(* loading under another); for tokens.yaml it needs nothing.               *)
THEOREM NewestStaysInForce == Spec => StaysInForce
<1> DEFINE Stays == \A f \in Files :
             InForceForGood(f) /\ past'[f] = past[f] /\ reload.up /\ reload'.up => InForceForGood(f)'
<1>1. IInv /\ [Next]_vars => [Stays]_vars
  <2> SUFFICES ASSUME IInv, IInv', Next, NEW f \in Files, InForceForGood(f), past'[f] = past[f],
                      reload.up, reload'.up
               PROVE  InForceForGood(f)'
    BY InvNext
  <2> DEFINE n == Len(past[f])
  <2>0. /\ loaded \in [Files -> Content] /\ loaded[f].gen = n /\ Current(f).gen = n /\ None.gen = 0
        /\ n \in Nat \ {0} /\ loaded[f].gen \in Nat /\ loaded[f].body # Unparsed
        /\ provider \in [Providers -> Content]
    <3>1. n \in 1..MaxWrites /\ loaded \in [Files -> Content] /\ provider \in [Providers -> Content]
      BY DEF IInv, Shape
    <3>2. loaded[f] # Empty /\ loaded[f].gen = n
      BY <3>1 DEF Empty, InForceForGood
    <3>3. loaded[f].body # Unparsed
      BY <3>2 DEF IInv, Sources, InForce
    <3> QED
      BY <3>1, <3>2, <3>3, WritesAssumption DEF Current, None
  <2>1. ASSUME NEW g \in Files, Load(g) PROVE InForceForGood(f)'
    <3>1. /\ reload.file = g /\ reload.held # None /\ reload' = Following(g) /\ provider' = provider
          /\ loaded' = [loaded EXCEPT ![g] = Loaded(@, reload.held)]
      BY <2>1 DEF Load
    <3>2. reload'.held = None
      BY <3>1 DEF Following, IInv, Shape
    <3>3. g = f => reload.held.gen = n
      <4>1. CASE f = "issuers"
        BY <3>1, <4>1 DEF InForceForGood
      <4>2. CASE f = "tokens"
        <5>1. g = f => Had(f, reload.held) /\ loaded[f].gen <= reload.held.gen
          BY <3>1, <4>2 DEF IInv, Sources, Order
        <5> QED
          BY <2>0, <5>1 DEF Had
      <4> QED
        BY <4>1, <4>2, FilesAre
    <3>4. loaded'[f].gen = n
      BY <2>0, <3>1, <3>3 DEF Loaded
    <3> QED
      BY <2>0, <3>1, <3>2, <3>4 DEF InForceForGood
  <2>2. ASSUME NEW q \in Providers, ProvidersLoad(q) PROVE InForceForGood(f)'
    <3>1. /\ provider[q] # None /\ provider' = [provider EXCEPT ![q] = None] /\ reload' = reload
          /\ loaded' = [loaded EXCEPT !["issuers"] = Loaded(@, provider[q])]
      BY <2>2 DEF ProvidersLoad
    <3>2. \A p \in Providers : provider'[p] \in {provider[p], None}
      BY <2>0, <3>1
    <3>3. loaded'[f].gen = n
      BY <2>0, <3>1, FilesAre DEF InForceForGood, Loaded
    <3> QED
      BY <2>0, <3>1, <3>2, <3>3 DEF InForceForGood
  <2>3. ASSUME NEW q \in Providers, ProvidersRead(q) PROVE InForceForGood(f)'
    <3>1. /\ provider' = [provider EXCEPT ![q] = Current("issuers")] /\ reload' = reload /\ loaded' = loaded
      BY <2>3 DEF ProvidersRead
    <3>2. \A p \in Providers : provider'[p] \in {provider[p], Current("issuers")}
      BY <2>0, <3>1
    <3> QED
      BY <2>0, <3>1, <3>2 DEF InForceForGood
  <2>4. ASSUME NEW g \in Files, Read(g) PROVE InForceForGood(f)'
    <3>1. reload.file = g /\ UNCHANGED <<loaded, provider>>
          /\ (reload' = Following(g) \/ reload' = [reload EXCEPT !.held = Current(g)])
      BY <2>4 DEF Read
    <3>2. reload'.held = None \/ (reload'.file = g /\ reload'.held = Current(g))
      BY <3>1 DEF Following, IInv, Shape
    <3> QED
      BY <2>0, <3>1, <3>2 DEF InForceForGood
  <2>5. CASE PollOK
    <3>1. reload'.held = None /\ UNCHANGED <<loaded, provider>>
      BY <2>5 DEF PollOK, Booting
    <3> QED
      BY <2>0, <3>1 DEF InForceForGood
  <2>6. ~Restart
    BY DEF Restart, Booting
  <2>7. CASE UNCHANGED <<loaded, reload, provider>>
    BY <2>0, <2>7 DEF InForceForGood
  <2> QED
    BY <2>1, <2>2, <2>3, <2>4, <2>5, <2>6, <2>7 DEF Next, Loading, FileChanges, TokenCreate, Write,
       Exchange, Expire, Authenticate, Decide, Answer, Close
<1> QED
  BY <1>1, InvAlways, PTL DEF Spec, StaysInForce

=============================================================================
