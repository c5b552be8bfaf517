---------------------------- MODULE AccessLists ----------------------------
(***************************************************************************)
(* Who may do what (pkg/auth, the handlers of pkg/api): hubd keeps, in     *)
(* auth.Engine, the service tokens and the issuer rules it last loaded     *)
(* from system/tokens.yaml and system/issuers.yaml.                        *)
(*                                                                         *)
(* The poll loop of main loads both files, one after the other, at start   *)
(* and after every poll that succeeds; every GET of the providers loads    *)
(* the issuers too.  A file is read under the store's lock and loaded      *)
(* under the Engine's, and a request authenticates and is authorised under *)
(* the Engine's, so that all of these interleave.                          *)
(*                                                                         *)
(* A path is the sequence of its segments.  bcrypt and signatures are      *)
(* abstracted to: a secret is that of a record or it is not.               *)
(***************************************************************************)
EXTENDS Naturals, Sequences, SequencesExt

CONSTANTS
  TokenLists,   \* lists of token records that others write in tokens.yaml
  IssuerLists,  \* lists of issuers that others write in issuers.yaml
  Absent,       \* no such file
  Unparsed,     \* a file that is not YAML
  Creations,    \* the uses of hub token create: id, secret, --read, --write
  Secrets,      \* bearer tokens that clients present, Bootstrap among them or not
  Bootstrap,    \* the bootstrap token
  IDTokens,     \* ID tokens that clients exchange
  Paths,        \* API paths of documents
  Requests,     \* requests in progress at a time
  Providers,    \* providers requests in progress at a time
  MaxWrites     \* bound on the contents each file goes through

Files == {"tokens", "issuers"}
Empty == [gen |-> 0, body |-> <<>>]
None  == [gen |-> 0, body |-> Absent]
Nobody  == [kind |-> "none", id |-> "none", groups |-> {}]
NoRequest == [pc |-> "idle", who |-> Nobody, method |-> "get", path |-> <<>>]

ASSUME WritesAssumption  == MaxWrites \in Nat \ {0}
ASSUME ContentAssumption ==
  /\ \A l \in TokenLists \cup IssuerLists : l # Absent /\ l # Unparsed
  /\ \A l \in TokenLists : DOMAIN l = 1..Len(l)

VARIABLES
  past,      \* every content of the two files in the working tree, in order
  loaded,    \* the lists in force: which content of the file, and the list
  reload,    \* ReloadSystemAuth: the file it is at, what it read, is hubd serving
  floor,     \* the content of tokens.yaml when the last load of it began
  provider,  \* what each providers request read and has not loaded yet
  req,       \* the requests
  jwts       \* API tokens that were minted and have not expired

vars == <<past, loaded, reload, floor, provider, req, jwts>>

Contents(f) == IF f = "tokens" THEN TokenLists ELSE IssuerLists
Current(f)  == [gen |-> Len(past[f]), body |-> Last(past[f])]

Booting == [file |-> "tokens", start |-> Len(past["tokens"]), held |-> None, up |-> FALSE]

Init ==
  /\ past \in [Files -> {<<b>> : b \in {Absent} \cup TokenLists \cup IssuerLists}]
  /\ \A f \in Files : past[f][1] \in Contents(f) \cup {Absent}
  /\ loaded = [f \in Files |-> Empty]
  /\ reload = Booting
  /\ floor = 0
  /\ provider = [q \in Providers |-> None]
  /\ req = [r \in Requests |-> NoRequest]
  /\ jwts = {}

-----------------------------------------------------------------------------
(* Rules                                                                   *)

TrimData(p) == IF Len(p) > 1 /\ p[1] = "data" THEN Tail(p) ELSE p
IsSystem(p) == Len(p) > 1 /\ p[1] = "system"
GitPath(p)  == IF IsSystem(p) THEN p ELSE <<"data">> \o p

PathMatch(path, pattern) ==
  LET pat == TrimData(pattern) IN
  \/ pat \in {<<"**">>, <<"*">>}
  \/ Len(pat) > 1 /\ Last(pat) = "**" /\ IsPrefix(Front(pat), TrimData(path))
  \/ pat = TrimData(path)

TokenAllowsAction(rec, action) == rec.actions = {} \/ action \in rec.actions

InScope(rec, api) == \E pat \in rec.paths : PathMatch(api, TrimData(pat))

(* Seeded fault: a record that does not allow the action is only skipped   *)
(* when it is the first with that id.                                      *)
AuthorizeToken_Mixed(who, api, action) ==
  LET list == loaded["tokens"].body IN
  /\ \E i \in DOMAIN list : list[i].id = who.id /\ InScope(list[i], api)
  /\ \E i \in DOMAIN list : list[i].id = who.id /\ TokenAllowsAction(list[i], action)

(* The first record with the principal's id that does not allow the action *)
(* ends the search.                                                        *)
AuthorizeToken(who, api, action) ==
  LET list == loaded["tokens"].body IN
  \E i \in DOMAIN list :
    /\ list[i].id = who.id /\ InScope(list[i], api)
    /\ \A j \in 1..i : list[j].id = who.id => TokenAllowsAction(list[j], action)

(* engine.issuerRules: the rules of all issuers, whoever issued the token. *)
IssuerRules == LET list == loaded["issuers"].body IN UNION {list[i].rules : i \in DOMAIN list}

AuthorizeClaims(who, api, action) ==
  \E rule \in IssuerRules, pat \in UNION {r.paths : r \in IssuerRules} :
    /\ pat \in rule.paths
    /\ PathMatch(<<"data">> \o api, pat) \/ PathMatch(api, TrimData(pat))
    /\ rule[action].authenticated \/ rule[action].groups \cap who.groups # {}

Authorize(who, gitPath, action) ==
  \/ who.kind = "bootstrap"
  \/ who.kind = "token" /\ AuthorizeToken(who, TrimData(gitPath), action)
  \/ who.kind = "oidc"  /\ AuthorizeClaims(who, TrimData(gitPath), action)

(* The principals a bearer token stands for: one, or none.  The bootstrap  *)
(* token is compared first, the service tokens next, in their order.       *)
AuthenticateBearer(tok) ==
  LET list == loaded["tokens"].body
      hits == {i \in DOMAIN list : list[i].secret = tok} IN
  IF tok = Bootstrap THEN {[kind |-> "bootstrap", id |-> "bootstrap", groups |-> {"admin"}]}
  ELSE IF hits # {} THEN {[kind |-> "token", id |-> list[i].id, groups |-> {}] :
                            i \in {i \in hits : \A j \in hits : i <= j}}
  ELSE {[kind |-> "oidc", id |-> j.sub, groups |-> j.groups] : j \in jwts \cap {tok}}

-----------------------------------------------------------------------------
(* The files: what the store writes in the working tree, by a request of   *)
(* the bootstrap principal, by a merge, or by a write that failed halfway. *)

Write(f, body) ==
  /\ Len(past[f]) < MaxWrites
  /\ past' = [past EXCEPT ![f] = Append(@, body)]
  /\ UNCHANGED <<loaded, reload, floor, provider, req, jwts>>

FileChanges ==
  \E f \in Files : \E body \in Contents(f) \cup {Absent, Unparsed} :
    body # Last(past[f]) /\ Write(f, body)

(* hub token create: tokens.yaml is replaced by a list of the new record.  *)
NewRecord(c) ==
  [id |-> c.id, secret |-> c.secret, paths |-> c.read \cup c.write,
   actions |-> {a \in {"read", "write"} : c[a] # {}}]

TokenCreate ==
  \E c \in Creations : c.read \cup c.write # {} /\ Write("tokens", <<NewRecord(c)>>)

-----------------------------------------------------------------------------
(* Loading                                                                 *)

(* Seeded fault: the new list is added to the old one. *)
Loaded_Appended(old, new) ==
  IF new.body = Unparsed THEN old ELSE [new EXCEPT !.body = old.body \o @]

(* A list that does not parse leaves the old one in force. *)
Loaded(old, new) == IF new.body = Unparsed THEN old ELSE new

(* Poll has succeeded; a poll that fails goes back to waiting. *)
PollOK ==
  /\ reload.up /\ reload.file = "none"
  /\ reload' = [Booting EXCEPT !.up = TRUE]
  /\ UNCHANGED <<past, loaded, floor, provider, req, jwts>>

(* The next file after f; the API is served after the first round. *)
Following(f) ==
  [reload EXCEPT !.file = IF f = "tokens" THEN "issuers" ELSE "none",
                 !.held = None, !.up = @ \/ f = "issuers"]

(* Seeded faults: a file that is missing ends the round; the file is read  *)
(* at a commit that may be behind.                                         *)
Read_Returns(f) ==
  /\ reload.file = f /\ reload.held = None
  /\ reload' = IF Last(past[f]) = Absent
               THEN [reload EXCEPT !.file = "none", !.held = None, !.up = TRUE]
               ELSE [reload EXCEPT !.held = Current(f)]
  /\ UNCHANGED <<past, loaded, floor, provider, req, jwts>>
Read_Behind(f) ==
  /\ reload.file = f /\ reload.held = None
  /\ \E g \in DOMAIN past[f] :
       reload' = IF past[f][g] = Absent THEN Following(f)
                 ELSE [reload EXCEPT !.held = [gen |-> g, body |-> past[f][g]]]
  /\ UNCHANGED <<past, loaded, floor, provider, req, jwts>>

(* A file that is missing leaves the old list in force. *)
Read(f) ==
  /\ reload.file = f /\ reload.held = None
  /\ reload' = IF Last(past[f]) = Absent THEN Following(f)
               ELSE [reload EXCEPT !.held = Current(f)]
  /\ UNCHANGED <<past, loaded, floor, provider, req, jwts>>

Load(f) ==
  /\ reload.file = f /\ reload.held # None
  /\ loaded' = [loaded EXCEPT ![f] = Loaded(@, reload.held)]
  /\ floor' = IF f = "tokens" /\ reload.held.body # Unparsed THEN reload.start ELSE floor
  /\ reload' = Following(f)
  /\ UNCHANGED <<past, provider, req, jwts>>

(* handleProviders reads issuers.yaml and loads it, as a side effect. *)
ProvidersRead(q) ==
  /\ reload.up /\ provider[q] = None /\ Last(past["issuers"]) # Absent
  /\ provider' = [provider EXCEPT ![q] = Current("issuers")]
  /\ UNCHANGED <<past, loaded, reload, floor, req, jwts>>

ProvidersLoad(q) ==
  /\ provider[q] # None
  /\ loaded' = [loaded EXCEPT !["issuers"] = Loaded(@, provider[q])]
  /\ provider' = [provider EXCEPT ![q] = None]
  /\ UNCHANGED <<past, reload, floor, req, jwts>>

-----------------------------------------------------------------------------
(* Requests                                                                *)

(* The first issuer with the name given must be the one that the ID token  *)
(* names, if it names any; the token has not expired.                      *)
ValidIDToken(t) ==
  LET list == loaded["issuers"].body IN
  /\ t.fresh
  /\ \E i \in DOMAIN list :
       /\ list[i].name = t.name /\ \A j \in 1..(i - 1) : list[j].name # t.name
       /\ t.iss \in {"", list[i].issuer}

Minted(t) == [sub |-> t.sub, groups |-> t.groups]

(* handleAuthToken *)
Exchange ==
  /\ reload.up
  /\ \E t \in IDTokens : ValidIDToken(t) /\ jwts' = jwts \cup {Minted(t)}
  /\ UNCHANGED <<past, loaded, reload, floor, provider, req>>

Expire ==
  /\ \E j \in jwts : jwts' = jwts \ {j}
  /\ UNCHANGED <<past, loaded, reload, floor, provider, req>>

Methods == {"get", "put", "delete", "list", "changes"}
Action(method) == IF method \in {"put", "delete"} THEN "write" ELSE "read"

(* handleDocumentList and handleChanges decide on each of many documents.  *)
Many(method) == method \in {"list", "changes"}

(* Middleware: the principal is kept for as long as the request lasts. *)
Authenticate(r) ==
  /\ reload.up /\ req[r] = NoRequest
  /\ \E tok \in Secrets \cup jwts, m \in Methods, p \in Paths :
       \E w \in AuthenticateBearer(tok) :
         req' = [req EXCEPT ![r] = [pc |-> "open", who |-> w, method |-> m, path |-> p]]
  /\ UNCHANGED <<past, loaded, reload, floor, provider, jwts>>

Allowed(w, m, p) ==
  /\ m = "put" /\ IsSystem(p) => w.kind = "bootstrap"
  /\ Authorize(w, GitPath(p), Action(m))

(* What becomes of a request after the decision on a document. *)
Answered(x) == IF Many(x.method) THEN [x EXCEPT !.pc = "open"] ELSE NoRequest

Decide(r) ==
  /\ req[r].pc = "open"
  /\ \E p \in Paths :
       /\ ~Many(req[r].method) => p = req[r].path
       /\ req' = [req EXCEPT ![r] =
                    IF Allowed(req[r].who, req[r].method, p)
                    THEN [req[r] EXCEPT !.pc = "granted", !.path = p]
                    ELSE Answered(req[r])]
  /\ UNCHANGED <<past, loaded, reload, floor, provider, jwts>>

Answer(r) ==
  /\ req[r].pc = "granted"
  /\ req' = [req EXCEPT ![r] = Answered(req[r])]
  /\ UNCHANGED <<past, loaded, reload, floor, provider, jwts>>

(* The list is at its end, or the client of the stream goes away. *)
Close(r) ==
  /\ req[r].pc = "open" /\ Many(req[r].method)
  /\ req' = [req EXCEPT ![r] = NoRequest]
  /\ UNCHANGED <<past, loaded, reload, floor, provider, jwts>>

(* hubd stops and starts again: the API tokens minted stay valid, as the   *)
(* secret that signs them is a file.                                       *)
Restart ==
  /\ loaded' = [f \in Files |-> Empty]
  /\ reload' = Booting /\ floor' = 0
  /\ provider' = [q \in Providers |-> None]
  /\ req' = [r \in Requests |-> NoRequest]
  /\ UNCHANGED <<past, jwts>>

-----------------------------------------------------------------------------
Loading == \E f \in Files : Read(f) \/ Load(f)

Next ==
  \/ FileChanges \/ TokenCreate
  \/ PollOK \/ Loading
  \/ \E q \in Providers : ProvidersRead(q) \/ ProvidersLoad(q)
  \/ Exchange \/ Expire
  \/ \E r \in Requests : Authenticate(r) \/ Decide(r) \/ Answer(r) \/ Close(r)
  \/ Restart

Spec == Init /\ [][Next]_vars

-----------------------------------------------------------------------------
(* Properties                                                              *)

(* What is in force, what was read and what the tokens' floor names are    *)
(* contents that the files really had; only issuers can be behind a reload.*)
Had(f, c) == c.gen \in 1..Len(past[f]) /\ c.body = past[f][c.gen] /\ c.body # Absent

TypeOK ==
  /\ \A f \in Files : Len(past[f]) \in 1..MaxWrites
  /\ reload.file \in Files \cup {"none"}
  /\ \A f \in Files : loaded[f] = Empty \/ (Had(f, loaded[f]) /\ loaded[f].body # Unparsed)
  /\ reload.held # None => reload.file \in Files /\ Had(reload.file, reload.held)
  /\ \A q \in Providers : provider[q] # None => Had("issuers", provider[q])
  /\ floor <= loaded["tokens"].gen /\ reload.start <= Len(past["tokens"])

(* The token list in force never goes back to an earlier content of the    *)
(* file while hubd runs: there is one loader, and it reads what is there.  *)
TokensNeverGoBack ==
  [][reload.up /\ reload'.up => loaded["tokens"].gen <= loaded'["tokens"].gen]_vars

(* A grant, given perhaps to a request or a stream that was authenticated  *)
(* with older lists, rests on the lists the files had: to a service token  *)
(* on one record, which allows the action and covers the document, of a    *)
(* content of tokens.yaml at or after the beginning of the last load; to   *)
(* an OIDC principal on one rule of a content of issuers.yaml.  System     *)
(* documents are granted like any other, whatever docs/DESIGN.md:11 says   *)
(* of admins, with one exception: only the bootstrap principal puts one.   *)
Granting(r) == req[r].pc = "open" /\ req'[r].pc = "granted"

RecordGrants(list, x) ==
  \E i \in DOMAIN list :
    /\ list[i].id = x.who.id
    /\ TokenAllowsAction(list[i], Action(x.method))
    /\ InScope(list[i], TrimData(GitPath(x.path)))

RuleGrants(list, x) ==
  \E i \in DOMAIN list : \E rule \in list[i].rules : \E pat \in rule.paths :
    LET api == TrimData(GitPath(x.path)) IN
    /\ PathMatch(<<"data">> \o api, pat) \/ PathMatch(api, TrimData(pat))
    /\ \/ rule[Action(x.method)].authenticated
       \/ rule[Action(x.method)].groups \cap x.who.groups # {}

GrantRests(x) ==
  /\ x.who.kind = "token" =>
       \E g \in DOMAIN past["tokens"] :
         /\ g >= floor
         /\ past["tokens"][g] \notin {Absent, Unparsed}
         /\ RecordGrants(past["tokens"][g], x)
  /\ x.who.kind = "oidc" =>
       \E g \in DOMAIN past["issuers"] :
         /\ past["issuers"][g] \notin {Absent, Unparsed}
         /\ RuleGrants(past["issuers"][g], x)
  /\ x.method = "put" /\ IsSystem(x.path) => x.who.kind = "bootstrap"

GrantRestsOnFreshRecord == [][\A r \in Requests : Granting(r) => GrantRests(req'[r])]_vars

(* If hubd stays up and polls succeed again and again, what each file      *)
(* holds for good is in force in the end, and stays: neither a load that   *)
(* raced another one, nor the other file missing, keeps it out.            *)
Settles ==
  \A f \in Files : <>[](Last(past[f]) \notin {Absent, Unparsed} =>
                          loaded[f].body = Last(past[f]))

SettledInForce == <>[]reload.up => Settles

(* The ticker ticks, reads and loads end; polls do not fail for ever.      *)
Fairness ==
  /\ WF_vars(Loading) /\ SF_vars(PollOK)
  /\ \A q \in Providers : WF_vars(ProvidersLoad(q))

LiveSpec == Spec /\ Fairness
=============================================================================
