------------------------ MODULE ChannelContentProofs ------------------------
(***************************************************************************)
(* Passengers never see a draft, with both drivers; and with the memory    *)
(* driver the audit names every change: proved for any number of browsers, *)
(* users, games and requests.                                              *)
(***************************************************************************)
EXTENDS ChannelContent, FiniteSetTheorems, TLAPS

-----------------------------------------------------------------------------
(* The inductive invariant: the stored document, and every copy of it that *)
(* a request under way may still write or show, publishes what somebody    *)
(* released.                                                               *)

\* A document as it should be.
Proper(d) ==
  /\ d.published \in released
  /\ ~d.unpublished => d.draft = d.published
  /\ Covers(d.draft.catalog)
  /\ Covers(d.published.catalog)

\* Requests are records, each of a client.
RequestsAreRecords ==
  requests = [c \in Client |-> Held(requests[c], requests[c].step, requests[c].held)]

HoldsProper(r) ==
  r.kind # "rules" /\ r.step \in {"seed", "change", "audit", "done"} => Proper(r.held)

IInv ==
  /\ DefaultContent \in released
  /\ content # None => Proper(content)
  /\ RequestsAreRecords
  /\ \A c \in Client : HoldsProper(requests[c])
  /\ requests[Passenger].kind # "rules"
  /\ seen # None => \E s \in released : seen = PublicCatalog(s)

LEMMA DefaultCovers == Covers(DefaultContent.catalog)
<1> DEFINE C == {Entry(g, "published") : g \in Game}
<1>1. DefaultContent.catalog = C
  BY DEF DefaultContent, State
<1>2. \A g \in Game : Entry(g, "published").game_id = g
  BY DEF Entry
<1>3. \A e \in C : e.game_id \in Game
  BY <1>2
<1>4. \A g \in Game : \E e \in C : e.game_id = g
  BY <1>2
<1>5. {e.game_id : e \in C} = Game
  BY <1>3, <1>4
<1> QED
  BY <1>1, <1>5 DEF Covers

LEMMA SeedIsProper ==
  ASSUME DefaultContent \in released PROVE Proper(SeededDocument)
BY DefaultCovers DEF Proper, SeededDocument

\* What has been released stays released.
LEMMA ProperStays ==
  ASSUME NEW d, Proper(d), released \subseteq released' PROVE Proper(d)'
BY DEF Proper

LEMMA UpdatedIsProper ==
  ASSUME NEW d, NEW state, Proper(d), Covers(state.catalog) PROVE Proper(Updated(d, state))
BY DEF Proper, Updated

LEMMA PassengerIsClient == Passenger \in Client /\ \A b \in Browser : b # Passenger /\ b \in Client
BY ContentAssumption DEF Client

LEMMA InitInv == Init => IInv
BY DEF Init, IInv, RequestsAreRecords, HoldsProper, Client, NoRequest, Held

\* The requests of the others are as they were.
Others(c) == \A d \in Client \ {c} : requests'[d] = requests[d]

\* A step that changes one request.
LEMMA OneRequest ==
  ASSUME IInv, NEW c \in Client, NEW r, r = Held(r, r.step, r.held),
         requests' = [requests EXCEPT ![c] = r],
         released \subseteq released',
         content' = content, seen' = seen,
         HoldsProper(r)',
         c = Passenger => r.kind # "rules"
  PROVE  IInv'
<1>1. requests' = [d \in Client |-> IF d = c THEN r ELSE requests[d]]
  BY DEF IInv, RequestsAreRecords
<1>2. RequestsAreRecords'
  BY <1>1 DEF IInv, RequestsAreRecords, Held
<1>3. \A d \in Client : HoldsProper(requests[d])'
  BY <1>1, ProperStays DEF IInv, HoldsProper
<1>4. requests'[Passenger].kind # "rules"
  BY <1>1, PassengerIsClient DEF IInv
<1>5. content' # None => Proper(content)'
  BY ProperStays DEF IInv
<1> QED
  BY <1>2, <1>3, <1>4, <1>5 DEF IInv

\* A step that ends a request.
LEMMA EndOfRequest ==
  ASSUME IInv, NEW c \in Client, Ends(c), UNCHANGED <<content, seen, released>>
  PROVE  IInv'
<1>1. NoRequest = Held(NoRequest, NoRequest.step, NoRequest.held)
  BY DEF NoRequest, Held
<1>2. HoldsProper(NoRequest)' /\ NoRequest.kind # "rules"
  BY DEF HoldsProper, NoRequest
<1> QED
  BY <1>1, <1>2, OneRequest DEF Ends

\* A step that sends one.
LEMMA NewRequest ==
  ASSUME IInv, NEW c \in Client, NEW kind, NEW session, NEW payload,
         Send(c, kind, session, payload), c = Passenger => kind # "rules",
         UNCHANGED <<content, seen, released>>
  PROVE  IInv'
<1> DEFINE r == Request(kind, session, payload)
<1>1. r = Held(r, r.step, r.held) /\ r.kind = kind /\ r.step = "sent"
  BY DEF Request, Held
<1>2. HoldsProper(r)'
  BY <1>1 DEF HoldsProper
<1>3. requests' = [requests EXCEPT ![c] = r]
  BY DEF Send
<1> HIDE DEF r
<1> QED
  BY <1>1, <1>2, <1>3, OneRequest

\* A step of serving one, which may write the document and publish.
LEMMA Served ==
  ASSUME IInv, NEW c \in Client, NEW step, NEW held, Goes(c, step, held), seen' = seen,
         released \subseteq released',
         content' # content => Proper(content)',
         requests[c].kind # "rules" /\ step \in {"seed", "change", "audit", "done"}
           => Proper(held)'
  PROVE  IInv'
<1>0. PICK r : r = Held(requests[c], step, held)
  OBVIOUS
<1>1. r = Held(r, r.step, r.held) /\ r.kind = requests[c].kind /\ r.step = step /\ r.held = held
  BY <1>0 DEF Held
<1>2. requests' = [d \in Client |-> IF d = c THEN r ELSE requests[d]]
  BY <1>0 DEF IInv, RequestsAreRecords, Goes
<1>3. RequestsAreRecords'
  BY <1>1, <1>2 DEF IInv, RequestsAreRecords, Held
<1>4. HoldsProper(r)'
  BY <1>1 DEF HoldsProper
<1>5. \A d \in Client : HoldsProper(requests[d])'
  BY <1>2, <1>4, ProperStays DEF IInv, HoldsProper
<1>6. requests'[Passenger].kind # "rules"
  BY <1>1, <1>2, PassengerIsClient DEF IInv
<1>7. content' # None => Proper(content)'
  BY ProperStays DEF IInv
<1> QED
  BY <1>3, <1>5, <1>6, <1>7 DEF IInv

\* What a request under way holds may be written or shown.
LEMMA HeldIsProper ==
  ASSUME IInv, NEW c \in Client, requests[c].kind # "rules",
         requests[c].step \in {"seed", "change", "audit", "done"}, released \subseteq released'
  PROVE  Proper(requests[c].held) /\ \A d : d = requests[c].held => Proper(d)'
<1>1. Proper(requests[c].held)
  BY DEF IInv, HoldsProper
<1> QED
  BY <1>1, ProperStays

LEMMA SeededStays ==
  ASSUME IInv, released \subseteq released' PROVE Proper(SeededDocument) /\ Proper(SeededDocument)'
<1>1. Proper(SeededDocument)
  BY SeedIsProper DEF IInv
<1> QED
  BY <1>1, ProperStays

LEMMA SameInv ==
  ASSUME IInv, UNCHANGED <<content, requests, seen, released>> PROVE IInv'
BY DEF IInv, RequestsAreRecords, HoldsProper, Proper

-----------------------------------------------------------------------------
(* The actions.                                                            *)

LEMMA PagesKeepInv ==
  ASSUME IInv, NEW b \in Browser,
         Load(b) \/ Save(b) \/ Publish(b) \/ SendCatalog(b) \/ SendRules(b)
  PROVE  IInv'
<1> USE PassengerIsClient DEF unsent
<1>1. CASE Load(b)
  BY <1>1, NewRequest DEF Load
<1>2. CASE Save(b)
  BY <1>2, NewRequest DEF Save
<1>3. CASE Publish(b)
  BY <1>3, NewRequest DEF Publish
<1>4. CASE SendCatalog(b)
  BY <1>4, NewRequest DEF SendCatalog
<1>5. CASE SendRules(b)
  BY <1>5, NewRequest DEF SendRules
<1> QED
  BY <1>1, <1>2, <1>3, <1>4, <1>5

LEMMA BrowseKeepsInv ==
  ASSUME IInv, Browse PROVE IInv'
BY NewRequest, PassengerIsClient DEF Browse, unsent

LEMMA BeginKeepsInv ==
  ASSUME IInv, NEW c \in Client, Begin(c) PROVE IInv'
<1>1. PICK step : /\ Goes(c, step, None)
                  /\ step = "change" => requests[c].kind = "rules"
                  /\ step \in {"refused", "change", "read"}
  BY DEF Begin
<1> QED
  BY <1>1, Served DEF Begin, unserved

LEMMA ReadKeepsInv ==
  ASSUME IInv, NEW c \in Client, ReadContent(c) PROVE IInv'
<1>1. CASE content = None
  <2>1. Goes(c, "seed", SeededDocument)
    BY <1>1 DEF ReadContent
  <2> QED
    BY <2>1, SeededStays, Served DEF ReadContent, unserved
<1>2. CASE content # None
  <2>1. PICK d, step : d = content /\ Goes(c, step, d)
    BY <1>2 DEF ReadContent
  <2>2. Proper(d)'
    BY <1>2, <2>1, ProperStays DEF IInv, ReadContent
  <2> QED
    BY <2>1, <2>2, Served DEF ReadContent, unserved
<1> QED
  BY <1>1, <1>2

LEMMA SeedKeepsInv ==
  ASSUME IInv, NEW c \in Client, SeedContent(c) PROVE IInv'
<1>1. PICK d, step : d = requests[c].held /\ Goes(c, step, d)
  BY DEF SeedContent
<1>2. requests[c].kind # "rules" => Proper(d)'
  BY <1>1, HeldIsProper DEF SeedContent
<1>3. Proper(content)'
  BY SeededStays DEF SeedContent, Proper, SeededDocument
<1> QED
  BY <1>1, <1>2, <1>3, Served DEF SeedContent, unserved

LEMMA SaveKeepsInv ==
  ASSUME IInv, NEW c \in Client, SaveDraft(c) PROVE IInv'
<1>1. CASE Covers(requests[c].payload.catalog)
  <2>1. PICK new : /\ new = Updated(requests[c].held, requests[c].payload)
                   /\ content' = new
                   /\ Goes(c, "audit", new)
    BY <1>1 DEF SaveDraft
  <2>2. Proper(requests[c].held)
    BY HeldIsProper DEF SaveDraft, Changing
  <2>3. Proper(new)
    BY <1>1, <2>1, <2>2, UpdatedIsProper
  <2>4. Proper(new)' /\ Proper(content)'
    BY <2>1, <2>3, ProperStays DEF SaveDraft, Proper
  <2> QED
    BY <2>1, <2>4, Served DEF SaveDraft, unserved
<1>2. CASE ~Covers(requests[c].payload.catalog)
  BY <1>2, Served DEF SaveDraft, unserved
<1> QED
  BY <1>1, <1>2

LEMMA PublishKeepsInv ==
  ASSUME IInv, NEW c \in Client, PublishDraft(c) PROVE IInv'
<1>1. PICK new : /\ new = Published(requests[c].held, requests[c].session.user)
                 /\ content' = new
                 /\ released' = released \cup {new.published}
                 /\ Goes(c, "audit", new)
  BY DEF PublishDraft
<1>2. Proper(requests[c].held)
  BY <1>1, HeldIsProper DEF PublishDraft, Changing
<1>3. Proper(new)' /\ Proper(content)'
  BY <1>1, <1>2 DEF Proper, Published
<1> QED
  BY <1>1, <1>3, Served DEF PublishDraft, unserved

LEMMA RulesKeepInv ==
  ASSUME IInv, NEW c \in Client, ReplaceRules(c) PROVE IInv'
BY Served DEF ReplaceRules, Changing, unserved

LEMMA AuditKeepsInv ==
  ASSUME IInv, NEW c \in Client, WriteAudit(c) PROVE IInv'
<1>1. PICK d : d = requests[c].held /\ Goes(c, "done", d)
  BY DEF WriteAudit
<1>2. requests[c].kind # "rules" => Proper(d)'
  BY <1>1, HeldIsProper DEF WriteAudit
<1> QED
  BY <1>1, <1>2, Served DEF WriteAudit, unserved

\* What the passenger is shown was published by somebody.
LEMMA ShowKeepsInv ==
  ASSUME IInv, ShowCatalog PROVE IInv'
<1>1. Proper(requests[Passenger].held)
  BY PassengerIsClient, HeldIsProper DEF ShowCatalog, IInv
<1>2. \E s \in released' : seen' = PublicCatalog(s)
  BY <1>1 DEF ShowCatalog, Proper, PublicCatalog
<1>3. requests' = [d \in Client |-> IF d = Passenger THEN NoRequest ELSE requests[d]]
  BY DEF ShowCatalog, Ends, IInv, RequestsAreRecords
<1>4. RequestsAreRecords' /\ requests'[Passenger].kind # "rules"
  BY <1>3, PassengerIsClient DEF IInv, RequestsAreRecords, Held, NoRequest
<1>5. \A d \in Client : HoldsProper(requests[d])'
  BY <1>3, ProperStays DEF ShowCatalog, IInv, HoldsProper, NoRequest
<1>6. content' # None => Proper(content)'
  BY ProperStays DEF ShowCatalog, IInv
<1> QED
  BY <1>2, <1>4, <1>5, <1>6 DEF IInv, ShowCatalog

LEMMA EndKeepsInv ==
  ASSUME IInv, NEW c \in Client,
         (c \in Browser /\ Answer(c)) \/ Refuse(c) \/ LoseRequest(c) \/ FailRequest(c)
  PROVE  IInv'
BY EndOfRequest DEF Answer, Refuse, LoseRequest, FailRequest

\* Sessions and edits are not content.
LEMMA SessionsKeepInv ==
  ASSUME IInv,
         \/ \E b \in Browser, u \in Users : LogIn(b, u)
         \/ \E u \in Users : FailLogIn(u)
         \/ \E b \in Browser : LogOut(b) \/ Reload(b) \/ Edit(b)
         \/ ExpireSession
         \/ UNCHANGED vars
  PROVE  IInv'
<1>1. UNCHANGED <<content, requests, seen, released>>
  BY DEF LogIn, FailLogIn, LogOut, Reload, Edit, ExpireSession, vars
<1> QED
  BY <1>1, SameInv

-----------------------------------------------------------------------------

LEMMA NextInv == IInv /\ [Next]_vars => IInv'
<1> SUFFICES ASSUME IInv, [Next]_vars PROVE IInv'
  OBVIOUS
<1>1. CASE \/ \E b \in Browser, u \in Users : LogIn(b, u)
           \/ \E u \in Users : FailLogIn(u)
           \/ \E b \in Browser : LogOut(b) \/ Reload(b) \/ Edit(b)
           \/ ExpireSession
           \/ UNCHANGED vars
  BY <1>1, SessionsKeepInv
<1>2. CASE \E b \in Browser :
             Load(b) \/ Save(b) \/ Publish(b) \/ SendCatalog(b) \/ SendRules(b)
  BY <1>2, PagesKeepInv
<1>3. CASE Browse
  BY <1>3, BrowseKeepsInv
<1>4. CASE \E c \in Client : Begin(c) \/ ReadContent(c) \/ SeedContent(c)
  BY <1>4, BeginKeepsInv, ReadKeepsInv, SeedKeepsInv
<1>5. CASE \E c \in Client : SaveDraft(c) \/ PublishDraft(c) \/ ReplaceRules(c) \/ WriteAudit(c)
  BY <1>5, SaveKeepsInv, PublishKeepsInv, RulesKeepInv, AuditKeepsInv
<1>6. CASE ShowCatalog
  BY <1>6, ShowKeepsInv
<1>7. CASE \/ \E b \in Browser : Answer(b)
           \/ \E c \in Client : Refuse(c) \/ LoseRequest(c) \/ FailRequest(c)
  BY <1>7, EndKeepsInv, PassengerIsClient
<1> QED
  BY <1>1, <1>2, <1>3, <1>4, <1>5, <1>6, <1>7 DEF Next

\* Whatever saves, publications and failures overlap, passengers are shown a catalog that
\* was published, the stored document knows whether its draft is, and its catalogs have
\* the known games.
THEOREM PassengersSeeWhatIsPublished == Spec => []DraftsStayHidden
<1>1. Init => IInv
  BY InitInv
<1>2. IInv /\ [Next]_vars => IInv'
  BY NextInv
<1>3. IInv => DraftsStayHidden
  BY DEF IInv, Proper, DraftsStayHidden
<1> QED
  BY <1>1, <1>2, <1>3, PTL DEF Spec
-----------------------------------------------------------------------------
(* The audit, with the memory driver: the inductive invariant.             *)

\* Somebody the audit has seen log in.
HasLoggedIn(user) == user \in Users /\ \E l \in Entries("login") : l.actor = user

\* What each client asks for.
KindsOf(c) == IF c = Passenger THEN {"catalog"} ELSE {"load", "save", "publish", "rules"}

\* One request is served at a time.
OneServed == \A c, d \in Client : Serving(c) /\ Serving(d) => c = d

\* Who is being served was let in, and what it holds is the stored document.
Follows(c) ==
  LET r == requests[c]
  IN /\ r.step # "idle" => r.kind \in KindsOf(c)
     /\ Serving(c) /\ c # Passenger =>
          /\ HasLoggedIn(r.session.user)
          /\ r.kind = "rules" => "ops_admin" \in Roles(r.session.user)
     /\ r.step = "seed" => content = None /\ r.held = SeededDocument
     /\ r.step \in {"change", "audit"} => r.kind \in {"save", "publish", "rules"}
     /\ r.step \in {"change", "audit"} /\ r.kind # "rules" => content # None /\ r.held = content
     /\ r.step = "audit" /\ r.kind = "publish" => content.by = r.session.user
     /\ r.step = "audit" /\ r.kind = "rules" => rules = r.payload

\* A change that is stored and not yet in the audit.
Owed(action) == \E c \in Client : requests[c].step = "audit" /\ requests[c].kind = action

Less(revision, action) == IF Owed(action) THEN revision - 1 ELSE revision

\* The revisions up to n are each in the audit once.
Complete(action, n) ==
  /\ n \in Nat /\ n >= 1
  /\ IsFiniteSet(Entries(action))
  /\ {e.about : e \in Entries(action)} = 2..n
  /\ Cardinality(Entries(action)) = n - 1

\* The audit has every change but the one that is owed.
Trail ==
  /\ content = None => Entries("save") = {} /\ Entries("publish") = {}
  /\ content # None =>
       /\ Complete("save", Less(content.draft_revision, "save"))
       /\ Complete("publish", Less(content.published_revision, "publish"))
       /\ content.draft_revision \in Nat /\ content.published_revision \in Nat
       /\ \A e \in Entries("publish") :
            e.about = content.published_revision => e.actor = content.by
  /\ rules # None /\ ~Owed("rules") => \E e \in Entries("rules") : e.about = rules
  /\ \A e \in audit \ Entries("login_failed") :
       /\ \E l \in Entries("login") : l.actor = e.actor
       /\ e.action = "rules" => "ops_admin" \in Roles(e.actor)

\* With the memory driver: one request is served at a time, it holds what is stored, and
\* the audit lacks no more than the change that is being recorded.
MemoryInv ==
  /\ OneServed
  /\ \A c \in Client : Follows(c)
  /\ \A s \in sessions : HasLoggedIn(s.user)
  /\ Trail

\* The inductive form of AuditTrailIsComplete.
AuditInv == InMemory => MemoryInv

-----------------------------------------------------------------------------
(* What keeps the parts of the invariant.                                  *)

\* null is none of the documents the platform builds.
NoneIsNoDocument ==
  /\ None # SeededDocument
  /\ \A document, state, user :
       None # Updated(document, state) /\ None # Published(document, user)

\* A step that changes the request of one client.
Replaces(c, r) == requests' = [d \in Client |-> IF d = c THEN r ELSE requests[d]]

\* Whoever has logged in stays known to have.
LEMMA LoggedInStays ==
  ASSUME audit \subseteq audit', NEW user, HasLoggedIn(user) PROVE HasLoggedIn(user)'
BY DEF HasLoggedIn, Entries

\* A client whose request stays, while the documents do, is served as before.
LEMMA FollowsStays ==
  ASSUME NEW c \in Client, Follows(c), requests'[c] = requests[c],
         content' = content, rules' = rules, audit \subseteq audit'
  PROVE  Follows(c)'
BY LoggedInStays DEF Follows, Serving

\* A client that is not served only asks.
LEMMA FollowsIdly ==
  ASSUME NEW c \in Client, ~Serving(c)',
         requests'[c].step # "idle" => requests'[c].kind \in KindsOf(c)
  PROVE  Follows(c)'
BY DEF Follows, Serving

\* A request that is sent, answered, refused or lost, while another may be served.
LEMMA AskingStep ==
  ASSUME InMemory, MemoryInv, NEW c \in Client, NEW r, Replaces(c, r),
         r.step \notin {"read", "seed", "change", "audit"},
         r.step # "idle" => r.kind \in KindsOf(c),
         requests[c].step # "audit",
         UNCHANGED <<driver, content, rules, sessions, audit>>
  PROVE  InMemory' /\ MemoryInv'
<1>1. requests'[c] = r /\ \A d \in Client \ {c} : requests'[d] = requests[d]
  BY DEF Replaces
<1>2. ~Serving(c)'
  BY <1>1 DEF Serving
<1>3. \A d \in Client : Follows(d)'
  BY <1>1, <1>2, FollowsIdly, FollowsStays DEF MemoryInv
<1>4. OneServed'
  BY <1>1, <1>2 DEF MemoryInv, OneServed, Serving
<1>5. \A a : Owed(a)' <=> Owed(a)
  BY <1>1 DEF Owed
<1>6. Trail'
  BY <1>5 DEF MemoryInv, Trail, Less, Complete, Entries
<1>7. \A s \in sessions' : HasLoggedIn(s.user)'
  BY LoggedInStays DEF MemoryInv
<1> QED
  BY <1>3, <1>4, <1>6, <1>7 DEF MemoryInv, InMemory

\* Requests being what they are, the sessions change and the audit gets an entry that is
\* of no revision, or none.
LEMMA SessionStep ==
  ASSUME InMemory, MemoryInv, UNCHANGED <<driver, content, rules, requests>>,
         audit \subseteq audit',
         \A e \in audit' \ audit :
           /\ e.action \in {"login", "logout", "login_failed"}
           /\ e.action # "login_failed" => HasLoggedIn(e.actor)',
         \A s \in sessions' : HasLoggedIn(s.user)'
  PROVE  InMemory' /\ MemoryInv'
<1>1. \A c \in Client : Follows(c)'
  BY FollowsStays DEF MemoryInv
<1>2. OneServed'
  BY DEF MemoryInv, OneServed, Serving
<1>3. \A a : Owed(a)' <=> Owed(a)
  BY DEF Owed
<1>4. \A a \in {"save", "publish", "rules"} : Entries(a)' = Entries(a)
  BY DEF Entries
<1>5. ASSUME content # None
      PROVE  /\ Complete("save", Less(content.draft_revision, "save"))'
             /\ Complete("publish", Less(content.published_revision, "publish"))'
  BY <1>3, <1>4, <1>5 DEF MemoryInv, Trail, Less, Complete
<1>6. ASSUME NEW e \in audit' \ Entries("login_failed")'
      PROVE  /\ \E l \in Entries("login")' : l.actor = e.actor
             /\ e.action = "rules" => "ops_admin" \in Roles(e.actor)
  <2>1. Entries("login") \subseteq Entries("login")'
    BY DEF Entries
  <2>2. CASE e \in audit
    <3>1. e \in audit \ Entries("login_failed")
      BY <1>6, <2>2 DEF Entries
    <3> QED
      BY <2>1, <3>1 DEF MemoryInv, Trail
  <2>3. CASE e \notin audit
    BY <1>6, <2>3 DEF HasLoggedIn, Entries
  <2> QED
    BY <2>2, <2>3
<1>7. Trail'
  BY <1>3, <1>4, <1>5, <1>6 DEF MemoryInv, Trail
<1> QED
  BY <1>1, <1>2, <1>7 DEF MemoryInv, InMemory

\* While c has its turn nobody else is served, and what is owed is owed by c.
LEMMA OwedByServed ==
  ASSUME InMemory, NEW c \in Client, Turn(c), NEW a
  PROVE  Owed(a) <=> requests[c].step = "audit" /\ requests[c].kind = a
BY DEF Turn, Owed, Serving

\* So it is after its step.
LEMMA OwedAfter ==
  ASSUME InMemory, NEW c \in Client, Turn(c), NEW r, Replaces(c, r), NEW a
  PROVE  Owed(a)' <=> r.step = "audit" /\ r.kind = a
BY DEF Turn, Owed, Serving, Replaces

\* A step of serving c keeps the others waiting.
LEMMA ServingStep ==
  ASSUME InMemory, MemoryInv, NEW c \in Client, Turn(c), NEW r, Replaces(c, r),
         UNCHANGED <<driver, sessions>>, audit \subseteq audit',
         Follows(c)', Trail'
  PROVE  InMemory' /\ MemoryInv'
<1>1. \A d \in Client \ {c} : requests'[d] = requests[d] /\ ~Serving(d)
  BY DEF Replaces, Turn
<1>2. \A d \in Client \ {c} : ~Serving(d)'
  BY <1>1 DEF Serving
<1>3. \A d \in Client \ {c} : Follows(d)'
  <2> SUFFICES ASSUME NEW d \in Client \ {c} PROVE Follows(d)'
    OBVIOUS
  <2>1. requests'[d].step # "idle" => requests'[d].kind \in KindsOf(d)
    BY <1>1 DEF MemoryInv, Follows
  <2> QED
    BY <1>2, <2>1, FollowsIdly
<1>4. OneServed'
  BY <1>2 DEF OneServed
<1>5. \A s \in sessions' : HasLoggedIn(s.user)'
  BY LoggedInStays DEF MemoryInv
<1> QED
  BY <1>3, <1>4, <1>5 DEF MemoryInv, InMemory

-----------------------------------------------------------------------------
(* The actions, with the memory driver.                                    *)

\* What is recorded is one more entry.
LEMMA RecordedEntry ==
  ASSUME NEW action, NEW user, NEW about, audit' = Recorded(action, user, about)
  PROVE  \E e : /\ e.action = action /\ e.actor = user /\ e.about = about
                /\ audit' = audit \cup {e}
<1> DEFINE e == [action |-> action, actor |-> user, about |-> about]
<1>1. e.action = action /\ e.actor = user /\ e.about = about
  OBVIOUS
<1>2. audit' = audit \cup {e}
  BY DEF Recorded
<1> HIDE DEF e
<1> QED
  BY <1>1, <1>2

\* Sessions come and go with their entries.
LEMMA SessionsKeepAudit ==
  ASSUME InMemory, MemoryInv,
         \/ \E b \in Browser, u \in Users : LogIn(b, u)
         \/ \E u \in Users : FailLogIn(u)
         \/ \E b \in Browser : LogOut(b) \/ Reload(b) \/ Edit(b)
         \/ ExpireSession
         \/ UNCHANGED vars
  PROVE  InMemory' /\ MemoryInv'
<1>1. UNCHANGED <<driver, content, rules, requests>>
  BY DEF LogIn, FailLogIn, LogOut, Reload, Edit, ExpireSession, vars
<1>2. ASSUME NEW b \in Browser, NEW u \in Users, LogIn(b, u)
      PROVE  InMemory' /\ MemoryInv'
  <2> DEFINE session == [token |-> logins + 1, user |-> u]
  <2>1. audit' = Recorded("login", u, session.token) /\ sessions' = sessions \cup {session}
    BY <1>2 DEF LogIn
  <2>2. session.user = u
    OBVIOUS
  <2> HIDE DEF session
  <2>3. PICK e : e.action = "login" /\ e.actor = u /\ audit' = audit \cup {e}
    BY <2>1, RecordedEntry
  <2>4. HasLoggedIn(u)'
    BY <2>3 DEF HasLoggedIn, Entries
  <2>5. \A s \in sessions' : HasLoggedIn(s.user)'
    BY <2>1, <2>2, <2>3, <2>4, LoggedInStays DEF MemoryInv
  <2> QED
    BY <1>1, <2>3, <2>4, <2>5, SessionStep
<1>3. ASSUME NEW u \in Users, FailLogIn(u)
      PROVE  InMemory' /\ MemoryInv'
  <2>1. audit' = Recorded("login_failed", None, u) /\ sessions' = sessions
    BY <1>3 DEF FailLogIn
  <2>2. PICK e : e.action = "login_failed" /\ audit' = audit \cup {e}
    BY <2>1, RecordedEntry
  <2>3. \A s \in sessions' : HasLoggedIn(s.user)'
    BY <2>1, <2>2, LoggedInStays DEF MemoryInv
  <2> QED
    BY <1>1, <2>2, <2>3, SessionStep
<1>4. ASSUME UNCHANGED audit, sessions' \subseteq sessions
      PROVE  InMemory' /\ MemoryInv'
  <2>1. \A s \in sessions' : HasLoggedIn(s.user)'
    BY <1>4, LoggedInStays DEF MemoryInv
  <2> QED
    BY <1>1, <1>4, <2>1, SessionStep
<1>5. ASSUME NEW b \in Browser, LogOut(b)
      PROVE  InMemory' /\ MemoryInv'
  <2>1. CASE UNCHANGED <<sessions, audit>>
    BY <1>4, <2>1
  <2>2. CASE /\ Live(pages[b].session)
             /\ sessions' = sessions \ {pages[b].session}
             /\ audit' = Recorded("logout", pages[b].session.user, pages[b].session.token)
    <3>1. PICK e : /\ e.action = "logout" /\ e.actor = pages[b].session.user
                   /\ audit' = audit \cup {e}
      BY <2>2, RecordedEntry
    <3>2. HasLoggedIn(e.actor)'
      BY <2>2, <3>1, LoggedInStays DEF Live, MemoryInv
    <3>3. \A s \in sessions' : HasLoggedIn(s.user)'
      BY <2>2, <3>1, LoggedInStays DEF MemoryInv
    <3> QED
      BY <1>1, <3>1, <3>2, <3>3, SessionStep
  <2> QED
    BY <1>5, <2>1, <2>2 DEF LogOut
<1>6. ASSUME \/ \E b \in Browser : Reload(b) \/ Edit(b)
             \/ ExpireSession
             \/ UNCHANGED vars
      PROVE  InMemory' /\ MemoryInv'
  <2>1. UNCHANGED audit /\ sessions' \subseteq sessions
    BY <1>6 DEF Reload, Edit, ExpireSession, vars
  <2> QED
    BY <1>4, <2>1
<1> QED
  BY <1>2, <1>3, <1>5, <1>6

\* A request that is sent changes nothing.
LEMMA SendKeepsAudit ==
  ASSUME IInv, InMemory, MemoryInv, NEW c \in Client, NEW kind \in KindsOf(c), NEW session,
         NEW payload, Send(c, kind, session, payload),
         UNCHANGED <<driver, content, rules, sessions, audit>>
  PROVE  InMemory' /\ MemoryInv'
<1> DEFINE r == Request(kind, session, payload)
<1>1. r.step = "sent" /\ r.kind = kind
  BY DEF Request
<1>2. requests' = [requests EXCEPT ![c] = r]
  BY DEF Send
<1> HIDE DEF r
<1>3. Replaces(c, r)
  BY <1>2 DEF IInv, RequestsAreRecords, Replaces
<1>4. requests[c].step # "audit"
  BY DEF Send, NoRequest
<1> QED
  BY <1>1, <1>3, <1>4, AskingStep

\* Nor does one that ends.
LEMMA EndKeepsAudit ==
  ASSUME IInv, InMemory, MemoryInv, NEW c \in Client, Ends(c), requests[c].step # "audit",
         UNCHANGED <<driver, content, rules, sessions, audit>>
  PROVE  InMemory' /\ MemoryInv'
<1>1. Replaces(c, NoRequest)
  BY DEF Ends, IInv, RequestsAreRecords, Replaces
<1>2. NoRequest.step = "idle"
  BY DEF NoRequest
<1> QED
  BY <1>1, <1>2, AskingStep

\* The pages and the passenger ask.
LEMMA PagesKeepAudit ==
  ASSUME IInv, InMemory, MemoryInv,
         \/ Browse
         \/ \E b \in Browser : Load(b) \/ Save(b) \/ Publish(b) \/ SendCatalog(b) \/ SendRules(b)
  PROVE  InMemory' /\ MemoryInv'
<1>1. UNCHANGED <<driver, content, rules, sessions, audit>>
  BY DEF Browse, Load, Save, Publish, SendCatalog, SendRules, unsent
<1>2. \A b \in Browser : b \in Client /\ KindsOf(b) = {"load", "save", "publish", "rules"}
  BY PassengerIsClient DEF KindsOf
<1>3. CASE Browse
  <2>1. "catalog" \in KindsOf(Passenger) /\ Passenger \in Client
    BY PassengerIsClient DEF KindsOf
  <2>2. Send(Passenger, "catalog", None, None)
    BY <1>3 DEF Browse
  <2> QED
    BY <1>1, <2>1, <2>2, SendKeepsAudit
<1>4. ASSUME NEW b \in Browser,
             Load(b) \/ Save(b) \/ Publish(b) \/ SendCatalog(b) \/ SendRules(b)
      PROVE  InMemory' /\ MemoryInv'
  <2>1. \E kind \in KindsOf(b) : \E session, payload : Send(b, kind, session, payload)
    BY <1>2, <1>4 DEF Load, Save, Publish, SendCatalog, SendRules
  <2> QED
    BY <1>1, <1>2, <2>1, SendKeepsAudit
<1> QED
  BY <1>3, <1>4

\* Answers, refusals and losses change nothing; nothing else ends a request.
LEMMA EndsKeepAudit ==
  ASSUME IInv, InMemory, MemoryInv,
         \/ ShowCatalog
         \/ \E b \in Browser : Answer(b)
         \/ \E c \in Client : Refuse(c) \/ LoseRequest(c) \/ FailRequest(c)
  PROVE  InMemory' /\ MemoryInv'
<1>1. UNCHANGED <<driver, content, rules, sessions, audit>>
  BY DEF ShowCatalog, Answer, Refuse, LoseRequest, FailRequest
<1>2. \E c \in Client : Ends(c) /\ requests[c].step # "audit"
  BY PassengerIsClient DEF ShowCatalog, Answer, Refuse, LoseRequest, FailRequest
<1> QED
  BY <1>1, <1>2, EndKeepsAudit

\* What a step of serving makes of a request.
LEMMA GoesTo ==
  ASSUME IInv, NEW c \in Client, NEW step, NEW held, Goes(c, step, held)
  PROVE  \E r : /\ Replaces(c, r) /\ r.step = step /\ r.held = held
                /\ r.kind = requests[c].kind /\ r.session = requests[c].session
                /\ r.payload = requests[c].payload
<1> DEFINE r == Held(requests[c], step, held)
<1>1. Replaces(c, r)
  BY DEF Goes, IInv, RequestsAreRecords, Replaces
<1>2. /\ r.step = step /\ r.held = held /\ r.kind = requests[c].kind
      /\ r.session = requests[c].session /\ r.payload = requests[c].payload
  BY DEF Held
<1> HIDE DEF r
<1> QED
  BY <1>1, <1>2

\* The documents and the audit staying, so does what the audit has.
LEMMA TrailStays ==
  ASSUME Trail, UNCHANGED <<content, rules, audit>>, \A a : Owed(a)' <=> Owed(a)
  PROVE  Trail'
BY DEF Trail, Less, Complete, Entries

\* The guard lets in who is logged in, to what the role allows.
LEMMA BeginKeepsAudit ==
  ASSUME IInv, InMemory, MemoryInv, NEW c \in Client, Begin(c)
  PROVE  InMemory' /\ MemoryInv'
<1> DEFINE u == requests[c].session.user
           allowed == c = Passenger \/ (Live(requests[c].session) /\ MayServe(requests[c].kind, u))
<1>1. PICK step : /\ Goes(c, step, None)
                  /\ step = IF ~allowed THEN "refused"
                            ELSE IF requests[c].kind = "rules" THEN "change" ELSE "read"
  BY DEF Begin
<1>2. /\ Turn(c) /\ requests[c].step = "sent"
      /\ UNCHANGED <<driver, content, rules, sessions, audit>>
  BY DEF Begin, unserved
<1>3. PICK r : /\ Replaces(c, r) /\ r.step = step
               /\ r.kind = requests[c].kind /\ r.session = requests[c].session
  BY <1>1, GoesTo
<1>4. \A a : Owed(a)' <=> Owed(a)
  BY <1>1, <1>2, <1>3, OwedByServed, OwedAfter
<1>5. Trail'
  BY <1>2, <1>4, TrailStays DEF MemoryInv
<1>6. requests'[c] = r
  BY <1>3 DEF Replaces
<1>7. r.kind \in KindsOf(c)
  BY <1>2, <1>3 DEF MemoryInv, Follows
<1>8. ASSUME allowed, c # Passenger
      PROVE  /\ HasLoggedIn(r.session.user)'
             /\ r.kind = "rules" => "ops_admin" \in Roles(r.session.user)
  <2>1. Live(r.session) /\ MayServe(r.kind, r.session.user)
    BY <1>3, <1>8
  <2> PICK user : user = r.session.user
    OBVIOUS
  <2>2. HasLoggedIn(user)
    BY <2>1 DEF Live, MemoryInv
  <2>3. user \in {"content-admin", "ops-admin", "super-admin"}
    BY <2>2, ContentAssumption DEF HasLoggedIn
  <2>4. HasLoggedIn(user)'
    BY <1>2, <2>2, LoggedInStays
  <2>5. ASSUME r.kind = "rules" PROVE "ops_admin" \in Roles(user)
    <3>1. Roles(user) \cap {"ops_admin", "super_admin"} # {}
      BY <2>1, <2>5 DEF MayServe
    <3>2. CASE user = "content-admin"
      BY <3>1, <3>2 DEF Roles
    <3>3. CASE user = "ops-admin"
      BY <3>3 DEF Roles
    <3>4. CASE user = "super-admin"
      BY <3>4 DEF Roles
    <3> QED
      BY <2>3, <3>2, <3>3, <3>4
  <2> QED
    BY <2>4, <2>5
<1>9. Follows(c)'
  <2>1. CASE step = "refused"
    BY <1>3, <1>6, <1>7, <2>1, FollowsIdly DEF Serving
  <2>2. CASE allowed /\ step = "read"
    BY <1>3, <1>6, <1>7, <1>8, <2>2 DEF Follows, Serving
  <2>3. CASE allowed /\ step = "change" /\ requests[c].kind = "rules"
    BY <1>3, <1>6, <1>7, <1>8, <2>3 DEF Follows, Serving
  <2> QED
    BY <1>1, <2>1, <2>2, <2>3
<1> QED
  BY <1>2, <1>3, <1>5, <1>9, ServingStep

\* The stored content is read, or there is none.
LEMMA ReadKeepsAudit ==
  ASSUME IInv, InMemory, MemoryInv, NEW c \in Client, ReadContent(c)
  PROVE  InMemory' /\ MemoryInv'
<1>1. PICK step, held : /\ Goes(c, step, held)
                        /\ \/ content = None /\ step = "seed" /\ held = SeededDocument
                           \/ content # None /\ step = AfterReading(c) /\ held = content
  BY DEF ReadContent
<1>2. /\ Turn(c) /\ requests[c].step = "read"
      /\ UNCHANGED <<driver, content, rules, sessions, audit>>
  BY DEF ReadContent, unserved
<1>3. PICK r : /\ Replaces(c, r) /\ r.step = step /\ r.held = held
               /\ r.kind = requests[c].kind /\ r.session = requests[c].session
  BY <1>1, GoesTo
<1>4. step # "audit"
  BY <1>1 DEF AfterReading
<1>5. \A a : Owed(a)' <=> Owed(a)
  BY <1>2, <1>3, <1>4, OwedByServed, OwedAfter
<1>6. Trail'
  BY <1>2, <1>5, TrailStays DEF MemoryInv
<1>7. requests'[c] = r
  BY <1>3 DEF Replaces
<1>8. /\ r.kind \in KindsOf(c)
      /\ c # Passenger => /\ HasLoggedIn(r.session.user)'
                          /\ r.kind = "rules" => "ops_admin" \in Roles(r.session.user)
  BY <1>2, <1>3, LoggedInStays DEF MemoryInv, Follows, Serving
<1>9. step = "change" => r.kind \in {"save", "publish", "rules"}
  BY <1>1, <1>3, <1>8 DEF AfterReading, KindsOf
<1>10. step = "seed" => content' = None /\ r.held = SeededDocument
  BY <1>1, <1>2, <1>3 DEF AfterReading
<1>11. step = "change" => content' # None /\ r.held = content'
  BY <1>1, <1>2, <1>3
<1>12. Follows(c)'
  BY <1>3, <1>4, <1>7, <1>8, <1>9, <1>10, <1>11 DEF Follows
<1> QED
  BY <1>2, <1>3, <1>6, <1>12, ServingStep

\* The first document has no revision that the audit should list.
LEMMA SeedKeepsAudit ==
  ASSUME NoneIsNoDocument, IInv, InMemory, MemoryInv, NEW c \in Client, SeedContent(c)
  PROVE  InMemory' /\ MemoryInv'
<1>1. PICK step, held : Goes(c, step, held) /\ step = AfterReading(c) /\ held = requests[c].held
  BY DEF SeedContent
<1>2. /\ Turn(c) /\ requests[c].step = "seed" /\ content' = SeededDocument
      /\ UNCHANGED <<driver, rules, sessions, audit>>
  BY DEF SeedContent, unserved
<1>3. PICK r : /\ Replaces(c, r) /\ r.step = step /\ r.held = held
               /\ r.kind = requests[c].kind /\ r.session = requests[c].session
  BY <1>1, GoesTo
<1>4. step \in {"change", "done"} /\ held = SeededDocument /\ content = None
  BY <1>1, <1>2 DEF AfterReading, MemoryInv, Follows
<1>5. \A a : ~Owed(a)' /\ ~Owed(a)
  BY <1>2, <1>3, <1>4, OwedByServed, OwedAfter
<1>6. \A a : Entries(a)' = Entries(a)
  BY <1>2 DEF Entries
<1>7. /\ SeededDocument.draft_revision = 1 /\ SeededDocument.published_revision = 1
  BY DEF SeededDocument
<1>8. Entries("save") = {} /\ Entries("publish") = {}
  BY <1>4 DEF MemoryInv, Trail
<1>9. /\ Complete("save", 1)' /\ Complete("publish", 1)'
  BY <1>6, <1>8, FS_EmptySet DEF Complete
<1>10. Trail'
  BY <1>2, <1>5, <1>6, <1>7, <1>8, <1>9 DEF MemoryInv, Trail, Less
<1>11. requests'[c] = r
  BY <1>3 DEF Replaces
<1>12. /\ r.kind \in KindsOf(c)
       /\ c # Passenger => /\ HasLoggedIn(r.session.user)'
                           /\ r.kind = "rules" => "ops_admin" \in Roles(r.session.user)
  BY <1>2, <1>3, LoggedInStays DEF MemoryInv, Follows, Serving
<1>13. step = "change" => r.kind \in {"save", "publish", "rules"}
  BY <1>1, <1>3, <1>12 DEF AfterReading, KindsOf
<1>14. content' # None /\ r.held = content'
  BY <1>2, <1>3, <1>4 DEF NoneIsNoDocument
<1>15. Follows(c)'
  BY <1>3, <1>4, <1>11, <1>12, <1>13, <1>14 DEF Follows
<1> QED
  BY <1>2, <1>3, <1>10, <1>15, ServingStep

\* One more revision than the audit lists, and its entry: then all are listed.
LEMMA CompleteNext ==
  ASSUME NEW action, NEW n \in Nat, Complete(action, n - 1),
         NEW e, e.action = action, e.about = n, audit' = audit \cup {e}
  PROVE  Complete(action, n)'
<1>1. n - 1 \in Nat /\ n - 1 >= 1 /\ IsFiniteSet(Entries(action))
      /\ {f.about : f \in Entries(action)} = 2..(n - 1)
      /\ Cardinality(Entries(action)) = (n - 1) - 1
  BY DEF Complete
<1>2. Entries(action)' = Entries(action) \cup {e}
  BY DEF Entries
<1>3. e \notin Entries(action)
  BY <1>1
<1>4. /\ IsFiniteSet(Entries(action)') /\ Cardinality(Entries(action)') = n - 1
  BY <1>1, <1>2, <1>3, FS_AddElement
<1>5. {f.about : f \in Entries(action)'} = {f.about : f \in Entries(action)} \cup {n}
  BY <1>2
<1>6. {f.about : f \in Entries(action)'} = 2..n
  BY <1>1, <1>5
<1> QED
  BY <1>1, <1>4, <1>6 DEF Complete

\* An entry of another action changes nothing of the entries of this one.
LEMMA CompleteStays ==
  ASSUME NEW action, NEW n, Complete(action, n), Entries(action)' = Entries(action)
  PROVE  Complete(action, n)'
BY DEF Complete

\* What is known of a request of which a change is due.
LEMMA ChangingFacts ==
  ASSUME InMemory, MemoryInv, NEW c \in Client, NEW kind, Changing(c, kind)
  PROVE  /\ Turn(c) /\ requests[c].kind = kind /\ requests[c].kind \in KindsOf(c)
         /\ c # Passenger
         /\ HasLoggedIn(requests[c].session.user)
         /\ kind = "rules" => "ops_admin" \in Roles(requests[c].session.user)
         /\ kind # "rules" => content # None /\ requests[c].held = content
         /\ kind \in {"save", "publish", "rules"}
         /\ \A a : ~Owed(a)
<1>1. Turn(c) /\ requests[c].step = "change" /\ requests[c].kind = kind
  BY DEF Changing
<1>2. requests[c].kind \in KindsOf(c) /\ kind \in {"save", "publish", "rules"}
  BY <1>1 DEF MemoryInv, Follows
<1>3. c # Passenger
  BY <1>1, <1>2 DEF KindsOf
<1>4. \A a : ~Owed(a)
  BY <1>1, OwedByServed
<1> QED
  BY <1>1, <1>2, <1>3, <1>4 DEF MemoryInv, Follows, Serving

\* A draft that is saved, or refused because a game is missing.
LEMMA SaveKeepsAudit ==
  ASSUME NoneIsNoDocument, IInv, InMemory, MemoryInv, NEW c \in Client, SaveDraft(c)
  PROVE  InMemory' /\ MemoryInv'
<1>1. /\ Changing(c, "save") /\ UNCHANGED <<driver, sessions, rules, audit>>
  BY DEF SaveDraft, unserved
<1>2. /\ Turn(c) /\ requests[c].kind = "save" /\ requests[c].kind \in KindsOf(c) /\ c # Passenger
      /\ HasLoggedIn(requests[c].session.user)
      /\ content # None /\ requests[c].held = content
      /\ \A a : ~Owed(a)
  BY <1>1, ChangingFacts
<1>3. CASE Goes(c, "refused", None) /\ content' = content
  <2>1. PICK r : Replaces(c, r) /\ r.step = "refused" /\ r.kind = requests[c].kind
    BY <1>3, GoesTo
  <2>2. requests'[c] = r
    BY <2>1 DEF Replaces
  <2>3. Follows(c)'
    BY <1>2, <2>1, <2>2, FollowsIdly DEF Serving
  <2>4. \A a : Owed(a)' <=> Owed(a)
    BY <1>2, <2>1, OwedAfter
  <2>5. Trail'
    BY <1>1, <1>3, <2>4, TrailStays DEF MemoryInv
  <2> QED
    BY <1>1, <1>2, <2>1, <2>3, <2>5, ServingStep
<1>4. CASE \E new : /\ new = Updated(requests[c].held, requests[c].payload)
                    /\ content' = new /\ Goes(c, "audit", new)
  <2>1. PICK new : /\ new = Updated(requests[c].held, requests[c].payload)
                   /\ content' = new /\ Goes(c, "audit", new)
    BY <1>4
  <2>2. PICK r : /\ Replaces(c, r) /\ r.step = "audit" /\ r.held = new
                 /\ r.kind = requests[c].kind /\ r.session = requests[c].session
    BY <2>1, GoesTo
  <2>3. requests'[c] = r
    BY <2>2 DEF Replaces
  <2>4. content' # None /\ HasLoggedIn(r.session.user)'
    BY <1>1, <1>2, <2>1, <2>2, LoggedInStays DEF NoneIsNoDocument
  <2>5. Follows(c)'
    BY <1>2, <2>1, <2>2, <2>3, <2>4 DEF Follows
  <2>6. \A a : Owed(a)' <=> a = "save"
    BY <1>2, <2>2, OwedAfter
  <2>7. /\ new.draft_revision = content.draft_revision + 1
        /\ new.published_revision = content.published_revision
        /\ new.by = content.by
    BY <1>2, <2>1 DEF Updated
  <2>8. /\ content.draft_revision \in Nat /\ content.published_revision \in Nat
        /\ Complete("save", content.draft_revision)
        /\ Complete("publish", content.published_revision)
    BY <1>2 DEF MemoryInv, Trail, Less
  <2>9. \A a : Entries(a)' = Entries(a)
    BY <1>1 DEF Entries
  <2>10. \A n : (Complete("save", n) => Complete("save", n)')
               /\ (Complete("publish", n) => Complete("publish", n)')
    BY <2>9, CompleteStays
  <2>11. /\ Less(content.draft_revision, "save")' = content.draft_revision
         /\ Less(content.published_revision, "publish")' = content.published_revision
    BY <2>1, <2>6, <2>7, <2>8 DEF Less
  <2>12. /\ Complete("save", Less(content.draft_revision, "save"))'
         /\ Complete("publish", Less(content.published_revision, "publish"))'
    BY <2>8, <2>10, <2>11 DEF Complete
  <2>13. Trail'
    BY <1>1, <1>2, <2>1, <2>4, <2>6, <2>7, <2>8, <2>9, <2>12 DEF MemoryInv, Trail
  <2> QED
    BY <1>1, <1>2, <2>2, <2>5, <2>13, ServingStep
<1> QED
  BY <1>3, <1>4 DEF SaveDraft

\* A publication, whose entry is owed.
LEMMA PublishKeepsAudit ==
  ASSUME NoneIsNoDocument, IInv, InMemory, MemoryInv, NEW c \in Client, PublishDraft(c)
  PROVE  InMemory' /\ MemoryInv'
<1>1. /\ Changing(c, "publish") /\ UNCHANGED <<driver, sessions, rules, audit>>
  BY DEF PublishDraft, unserved
<1>2. /\ Turn(c) /\ requests[c].kind = "publish" /\ requests[c].kind \in KindsOf(c)
      /\ c # Passenger /\ HasLoggedIn(requests[c].session.user)
      /\ content # None /\ requests[c].held = content
      /\ \A a : ~Owed(a)
  BY <1>1, ChangingFacts
<1>3. PICK new : /\ new = Published(requests[c].held, requests[c].session.user)
                 /\ content' = new /\ Goes(c, "audit", new)
  BY DEF PublishDraft
<1>4. PICK r : /\ Replaces(c, r) /\ r.step = "audit" /\ r.held = new
               /\ r.kind = requests[c].kind /\ r.session = requests[c].session
  BY <1>3, GoesTo
<1>5. requests'[c] = r
  BY <1>4 DEF Replaces
<1>6. content' # None /\ HasLoggedIn(r.session.user)'
  BY <1>1, <1>2, <1>3, <1>4, LoggedInStays DEF NoneIsNoDocument
<1>7. /\ new.draft_revision = content.draft_revision
      /\ new.published_revision = content.published_revision + 1
      /\ new.by = r.session.user
  BY <1>2, <1>3, <1>4 DEF Published
<1>8. Follows(c)'
  BY <1>2, <1>3, <1>4, <1>5, <1>6, <1>7 DEF Follows
<1>9. \A a : Owed(a)' <=> a = "publish"
  BY <1>2, <1>4, OwedAfter
<1>10. /\ content.draft_revision \in Nat /\ content.published_revision \in Nat
       /\ Complete("save", content.draft_revision)
       /\ Complete("publish", content.published_revision)
  BY <1>2 DEF MemoryInv, Trail, Less
<1>11. \A a : Entries(a)' = Entries(a)
  BY <1>1 DEF Entries
<1>12. \A n : /\ Complete("save", n) => Complete("save", n)'
              /\ Complete("publish", n) => Complete("publish", n)'
  BY <1>11, CompleteStays
<1>13. /\ Less(content.draft_revision, "save")' = content.draft_revision
       /\ Less(content.published_revision, "publish")' = content.published_revision
  BY <1>3, <1>7, <1>9, <1>10 DEF Less
<1>14. /\ Complete("save", Less(content.draft_revision, "save"))'
       /\ Complete("publish", Less(content.published_revision, "publish"))'
  <2> PICK m, n : m = content.draft_revision /\ n = content.published_revision
    OBVIOUS
  <2>1. Complete("save", m)' /\ Complete("publish", n)'
    BY <1>10, <1>12
  <2>2. Less(content.draft_revision, "save")' = m
        /\ Less(content.published_revision, "publish")' = n
    BY <1>13
  <2> QED
    BY <2>1, <2>2 DEF Complete
<1>15. \A e \in Entries("publish") : e.about # content.published_revision + 1
  <2> PICK n : n = content.published_revision
    OBVIOUS
  <2>1. n \in Nat /\ {e.about : e \in Entries("publish")} = 2..n
    BY <1>10 DEF Complete
  <2>2. n + 1 \notin 2..n
    BY <2>1
  <2> QED
    BY <2>1, <2>2
<1>16. content'.published_revision = content.published_revision + 1
       /\ content'.draft_revision \in Nat /\ content'.published_revision \in Nat
  BY <1>3, <1>7, <1>10
<1>17. \A e \in Entries("publish")' : e.about # content'.published_revision
  BY <1>11, <1>15, <1>16
<1>18. rules' # None => \E e \in Entries("rules")' : e.about = rules'
  BY <1>1, <1>2, <1>11 DEF MemoryInv, Trail
<1>19. \A e \in audit' \ Entries("login_failed")' :
         /\ \E l \in Entries("login")' : l.actor = e.actor
         /\ e.action = "rules" => "ops_admin" \in Roles(e.actor)
  BY <1>1, <1>11 DEF MemoryInv, Trail
<1>20. Trail'
  BY <1>6, <1>14, <1>16, <1>17, <1>18, <1>19 DEF Trail
<1> QED
  BY <1>1, <1>2, <1>4, <1>8, <1>20, ServingStep

\* Rules that are replaced, whose entry is owed.
LEMMA RulesKeepAudit ==
  ASSUME IInv, InMemory, MemoryInv, NEW c \in Client, ReplaceRules(c)
  PROVE  InMemory' /\ MemoryInv'
<1>1. /\ Changing(c, "rules") /\ UNCHANGED <<driver, sessions, content, audit>>
      /\ rules' = requests[c].payload /\ Goes(c, "audit", None)
  BY DEF ReplaceRules, unserved
<1>2. /\ Turn(c) /\ requests[c].kind = "rules" /\ requests[c].kind \in KindsOf(c)
      /\ c # Passenger /\ HasLoggedIn(requests[c].session.user)
      /\ "ops_admin" \in Roles(requests[c].session.user)
      /\ \A a : ~Owed(a)
  BY <1>1, ChangingFacts
<1>3. PICK r : /\ Replaces(c, r) /\ r.step = "audit" /\ r.payload = requests[c].payload
               /\ r.kind = requests[c].kind /\ r.session = requests[c].session
  BY <1>1, GoesTo
<1>4. requests'[c] = r
  BY <1>3 DEF Replaces
<1>5. HasLoggedIn(r.session.user)'
  BY <1>1, <1>2, <1>3, LoggedInStays
<1>6. Follows(c)'
  BY <1>1, <1>2, <1>3, <1>4, <1>5 DEF Follows
<1>7. \A a : Owed(a)' <=> a = "rules"
  BY <1>2, <1>3, OwedAfter
<1>8. Trail'
  BY <1>1, <1>2, <1>7 DEF MemoryInv, Trail, Less, Complete, Entries
<1> QED
  BY <1>1, <1>2, <1>3, <1>6, <1>8, ServingStep

\* The entry that was owed, of a revision the audit did not have.
LEMMA WriteKeepsAudit ==
  ASSUME IInv, InMemory, MemoryInv, NEW c \in Client, WriteAudit(c)
  PROVE  InMemory' /\ MemoryInv'
<1>1. /\ requests[c].step = "audit" /\ Turn(c)
      /\ UNCHANGED <<driver, sessions, content, rules>>
      /\ audit' = Recorded(requests[c].kind, requests[c].session.user, About(c))
      /\ Goes(c, "done", requests[c].held)
  BY DEF WriteAudit, unserved
<1>2. /\ requests[c].kind \in KindsOf(c) /\ requests[c].kind \in {"save", "publish", "rules"}
  BY <1>1 DEF MemoryInv, Follows
<1>3. c # Passenger
  BY <1>2 DEF KindsOf
<1>4. /\ HasLoggedIn(requests[c].session.user)
      /\ requests[c].kind = "rules" =>
           rules = requests[c].payload /\ "ops_admin" \in Roles(requests[c].session.user)
      /\ requests[c].kind # "rules" => content # None /\ requests[c].held = content
      /\ requests[c].kind = "publish" => content.by = requests[c].session.user
  BY <1>1, <1>3 DEF MemoryInv, Follows, Serving
<1>5. PICK kind, user, about :
        /\ kind = requests[c].kind /\ user = requests[c].session.user
        /\ kind = "save"    => about = content.draft_revision
        /\ kind = "publish" => about = content.published_revision
        /\ kind = "rules"   => about = rules
        /\ audit' = Recorded(kind, user, about)
  BY <1>1, <1>2, <1>4 DEF About
<1>6. PICK e : e.action = kind /\ e.actor = user /\ e.about = about /\ audit' = audit \cup {e}
  BY <1>5, RecordedEntry
<1>7. PICK r : Replaces(c, r) /\ r.step = "done" /\ r.kind = requests[c].kind
  BY <1>1, GoesTo
<1>8. requests'[c] = r
  BY <1>7 DEF Replaces
<1>9. Follows(c)'
  BY <1>2, <1>7, <1>8, FollowsIdly DEF Serving
<1>10. \A a : /\ Owed(a) <=> a = kind
              /\ ~Owed(a)'
  BY <1>1, <1>5, <1>7, OwedByServed, OwedAfter
<1>11. \A a : a # kind => Entries(a)' = Entries(a)
  BY <1>6 DEF Entries
<1>12. kind \in {"save", "publish", "rules"} /\ HasLoggedIn(user)
  BY <1>2, <1>4, <1>5
<1>13. ASSUME content # None
       PROVE  /\ Complete("save", content.draft_revision)'
              /\ Complete("publish", content.published_revision)'
  <2> PICK m, n : m = content.draft_revision /\ n = content.published_revision
    OBVIOUS
  <2>1. /\ Complete("save", Less(m, "save")) /\ Complete("publish", Less(n, "publish"))
        /\ m \in Nat /\ n \in Nat
    BY <1>13 DEF MemoryInv, Trail
  <2>2. Complete("save", m)'
    <3>1. CASE kind = "save"
      BY <1>5, <1>6, <1>10, <2>1, <3>1, CompleteNext DEF Less
    <3>2. CASE kind # "save"
      BY <1>10, <1>11, <2>1, <3>2, CompleteStays DEF Less
    <3> QED
      BY <3>1, <3>2
  <2>3. Complete("publish", n)'
    <3>1. CASE kind = "publish"
      BY <1>5, <1>6, <1>10, <2>1, <3>1, CompleteNext DEF Less
    <3>2. CASE kind # "publish"
      BY <1>10, <1>11, <2>1, <3>2, CompleteStays DEF Less
    <3> QED
      BY <3>1, <3>2
  <2> QED
    BY <1>1, <2>2, <2>3
<1>14. ASSUME content # None, NEW f \in Entries("publish")', f.about = content.published_revision
       PROVE  f.actor = content.by
  BY <1>4, <1>5, <1>6, <1>14 DEF MemoryInv, Trail, Entries
<1>15. content = None => Entries("save")' = {} /\ Entries("publish")' = {}
  BY <1>4, <1>5, <1>11, <1>12 DEF MemoryInv, Trail
<1>16. rules # None => \E f \in Entries("rules")' : f.about = rules
  <2>1. CASE kind = "rules"
    BY <1>5, <1>6, <2>1 DEF Entries
  <2>2. CASE kind # "rules"
    BY <1>10, <1>11, <2>2 DEF MemoryInv, Trail
  <2> QED
    BY <2>1, <2>2
<1>17. ASSUME NEW f \in audit' \ Entries("login_failed")'
       PROVE  /\ \E l \in Entries("login")' : l.actor = f.actor
              /\ f.action = "rules" => "ops_admin" \in Roles(f.actor)
  <2>1. Entries("login")' = Entries("login") /\ Entries("login_failed")' = Entries("login_failed")
    BY <1>11, <1>12
  <2>2. CASE f \in audit
    BY <1>17, <2>1, <2>2 DEF MemoryInv, Trail
  <2>3. CASE f = e
    BY <1>4, <1>5, <1>6, <1>12, <2>1, <2>3 DEF HasLoggedIn
  <2> QED
    BY <1>6, <1>17, <2>2, <2>3
<1>18. Trail'
  <2>1. content' = content /\ rules' = rules
    BY <1>1
  <2>2. content # None =>
          /\ content.draft_revision \in Nat /\ content.published_revision \in Nat
          /\ Less(content.draft_revision, "save")' = content.draft_revision
          /\ Less(content.published_revision, "publish")' = content.published_revision
    BY <1>10, <2>1 DEF MemoryInv, Trail, Less
  <2>3. content # None =>
          /\ Complete("save", Less(content.draft_revision, "save"))'
          /\ Complete("publish", Less(content.published_revision, "publish"))'
    BY <1>13, <2>1, <2>2 DEF Complete
  <2> QED
    BY <1>10, <1>14, <1>15, <1>16, <1>17, <2>1, <2>2, <2>3 DEF Trail
<1>19. audit \subseteq audit'
  BY <1>6
<1> QED
  BY <1>1, <1>7, <1>9, <1>18, <1>19, ServingStep

-----------------------------------------------------------------------------

LEMMA InitAudit == Init => AuditInv
<1> SUFFICES ASSUME Init PROVE MemoryInv
  BY DEF AuditInv
<1>1. \A c \in Client : requests[c].step = "idle"
  BY DEF Init, NoRequest
<1>2. OneServed /\ \A c \in Client : Follows(c)
  BY <1>1 DEF OneServed, Follows, Serving
<1>3. Trail
  BY DEF Init, Trail, Entries
<1> QED
  BY <1>2, <1>3 DEF Init, MemoryInv

\* Every action keeps the audit complete but for what is owed.
LEMMA NextAudit == ASSUME NoneIsNoDocument PROVE IInv /\ AuditInv /\ [Next]_vars => AuditInv'
<1> SUFFICES ASSUME IInv, AuditInv, [Next]_vars, InMemory' PROVE MemoryInv'
  BY DEF AuditInv
<1>1. driver' = driver
  BY DEF Next, vars, LogIn, FailLogIn, LogOut, ExpireSession, Reload, Edit, Load, Save, Publish,
         SendCatalog, SendRules, Browse, unsent, Begin, ReadContent, SeedContent, SaveDraft,
         PublishDraft, ReplaceRules, WriteAudit, unserved, Answer, ShowCatalog, Refuse,
         LoseRequest, FailRequest
<1>2. InMemory /\ MemoryInv
  BY <1>1 DEF InMemory, AuditInv
<1>3. CASE \/ \E b \in Browser, u \in Users : LogIn(b, u)
           \/ \E u \in Users : FailLogIn(u)
           \/ \E b \in Browser : LogOut(b) \/ Reload(b) \/ Edit(b)
           \/ ExpireSession
           \/ UNCHANGED vars
  BY <1>2, <1>3, SessionsKeepAudit
<1>4. CASE \/ Browse
           \/ \E b \in Browser :
                Load(b) \/ Save(b) \/ Publish(b) \/ SendCatalog(b) \/ SendRules(b)
  BY <1>2, <1>4, PagesKeepAudit
<1>5. CASE \E c \in Client : Begin(c) \/ ReadContent(c) \/ SeedContent(c)
  BY <1>2, <1>5, BeginKeepsAudit, ReadKeepsAudit, SeedKeepsAudit
<1>6. CASE \E c \in Client : SaveDraft(c) \/ PublishDraft(c) \/ ReplaceRules(c) \/ WriteAudit(c)
  BY <1>2, <1>6, SaveKeepsAudit, PublishKeepsAudit, RulesKeepAudit, WriteKeepsAudit
<1>7. CASE \/ ShowCatalog
           \/ \E b \in Browser : Answer(b)
           \/ \E c \in Client : Refuse(c) \/ LoseRequest(c) \/ FailRequest(c)
  BY <1>2, <1>7, EndsKeepAudit
<1> QED
  BY <1>3, <1>4, <1>5, <1>6, <1>7 DEF Next

\* Between requests nothing is owed.
LEMMA AuditIsWhole == AuditInv => AuditTrailIsComplete
<1> SUFFICES ASSUME MemoryInv, InMemory, Quiet
             PROVE  AuditTrailIsComplete
  BY DEF AuditInv, AuditTrailIsComplete
<1>1. \A a : ~Owed(a)
  BY DEF Quiet, Serving, Owed
<1>2. content # None =>
        Complete("save", content.draft_revision) /\ Complete("publish", content.published_revision)
  BY <1>1 DEF MemoryInv, Trail, Less
<1> QED
  BY <1>1, <1>2 DEF MemoryInv, Trail, Complete, AuditTrailIsComplete

\* With the memory driver, and whatever is lost, refused or sent by other clients, the
\* audit names every revision once, the rules in force, and only who may have done it.
THEOREM AuditListsEveryChange == ASSUME NoneIsNoDocument PROVE Spec => []AuditTrailIsComplete
<1>1. Init => IInv /\ AuditInv
  BY InitInv, InitAudit
<1>2. IInv /\ AuditInv /\ [Next]_vars => (IInv /\ AuditInv)'
  BY NextInv, NextAudit
<1> QED
  BY <1>1, <1>2, AuditIsWhole, PTL DEF Spec
=============================================================================
