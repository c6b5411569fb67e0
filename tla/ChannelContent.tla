--------------------------- MODULE ChannelContent ---------------------------
(***************************************************************************)
(* The content of a channel, of one airline and locale, and what its       *)
(* administrators and its passengers do with it: admin sessions, the       *)
(* admin page with its draft, ChannelContentService with a draft and a     *)
(* published state in one document, the rules of the points, and the       *)
(* admin audit.  With the memory driver a request is served at once; with  *)
(* Redis each step waits for the store, and the process may stop.          *)
(*                                                                         *)
(* A browser waits for the answer to a request before it makes another     *)
(* (the page can do otherwise: only its save and publish buttons wait, and *)
(* only for each other).                                                   *)
(***************************************************************************)
EXTENDS Integers, Sequences, FiniteSets

CONSTANTS
  None,         \* null
  Drivers,      \* which of "memory" and "redis" are looked at
  Browser,      \* where administrators work
  Passenger,    \* one that reads the public catalog
  Users,        \* of the seeded users, those that log in
  Game,         \* known games
  Titles,       \* what channel_config may say
  DefaultTitle,
  OddCatalogs,  \* catalogs that clients other than the page send
  RuleSets,     \* what operators may set the points rules to
  EditLimit,       \* bound: edits of drafts
  RequestLimit(_), \* bound, for each driver: requests
  LoginLimit,      \* bound: sessions
  FaultLimit(_)    \* bound, for each driver: failures, lost answers, reloads and the like

ASSUME ContentAssumption ==
  /\ Drivers \subseteq {"memory", "redis"}
  /\ Passenger \notin Browser
  /\ DefaultTitle \in Titles
  /\ Users \subseteq {"content-admin", "ops-admin", "super-admin"}
  /\ IsFiniteSet(Game)
  /\ EditLimit \in Nat /\ LoginLimit \in Nat
  /\ \A d \in Drivers : RequestLimit(d) \in Nat /\ FaultLimit(d) \in Nat

VARIABLES
  driver,    \* never changes
  content,   \* the stored document, or None
  rules,     \* the stored points rules, or None
  sessions,  \* the stored sessions
  audit,     \* the entries of the admin audit
  pages,     \* of each browser: session, and the document its page shows
  requests,  \* of each browser and of the passenger: the request under way
  seen,      \* the catalog the passenger was shown last
  released,  \* history: the states that were published
  edits, sent, logins, faults

bounds == <<edits, sent, logins, faults>>

vars == <<driver, content, rules, sessions, audit, pages, requests, seen, released, bounds>>

InMemory == driver = "memory"

Client == Browser \cup {Passenger}

-----------------------------------------------------------------------------
(* The content: the catalog's entries, a game and its status, and the      *)
(* channel's configuration.  updated_at is in what has_unpublished_changes *)
(* compares, so a draft that was saved always differs.                     *)

Entry(game, status) == [game_id |-> game, status |-> status]

State(catalog, title) == [catalog |-> catalog, title |-> title]

\* buildDefaultChannelContent
DefaultContent == State({Entry(g, "published") : g \in Game}, DefaultTitle)

\* buildDefaultChannelContentDocument
SeededDocument ==
  [draft |-> DefaultContent, published |-> DefaultContent, draft_revision |-> 1,
   published_revision |-> 1, unpublished |-> FALSE, by |-> "seed"]

\* ensureCatalogCoverage: of the ids only, so a game may have two entries.
Covers(catalog) == {e.game_id : e \in catalog} = Game

\* A mutant of Updated: what is saved is published.
UpdatedAtOnce(document, state) ==
  [draft |-> state, published |-> state,
   draft_revision |-> document.draft_revision + 1,
   published_revision |-> document.published_revision,
   unpublished |-> TRUE, by |-> document.by]

\* updateChannelContent
Updated(document, state) ==
  [draft |-> state, published |-> document.published,
   draft_revision |-> document.draft_revision + 1,
   published_revision |-> document.published_revision,
   unpublished |-> TRUE, by |-> document.by]

\* publishChannelContent: of the stored draft, whatever the page shows.
Published(document, user) ==
  [draft |-> document.draft, published |-> document.draft,
   draft_revision |-> document.draft_revision,
   published_revision |-> document.published_revision + 1,
   unpublished |-> FALSE, by |-> user]

\* buildChannelCatalog
PublicCatalog(state) == {e \in state.catalog : e.status = "published"}

-----------------------------------------------------------------------------
(* Sessions.                                                               *)

\* seededAdminUsers
Roles(user) ==
  CASE user = "content-admin" -> {"content_admin"}
    [] user = "ops-admin"     -> {"content_admin", "ops_admin"}
    [] user = "super-admin"   -> {"content_admin", "ops_admin", "super_admin"}

\* AdminAuthGuard: a session that is stored.
Live(session) == session \in sessions

\* A mutant of MayServe: whoever is logged in may do anything.
MayServeAny(kind, user) == TRUE

\* assertHasRole
MayServe(kind, user) ==
  Roles(user) \cap (IF kind = "rules" THEN {"ops_admin", "super_admin"}
                    ELSE {"content_admin", "super_admin"}) # {}

\* record.  about tells entries of one kind apart.
Recorded(action, user, about) == audit \cup {[action |-> action, actor |-> user, about |-> about]}

-----------------------------------------------------------------------------
(* Requests.                                                               *)

NoRequest == [kind |-> "none", session |-> None, payload |-> None, step |-> "idle", held |-> None]

Request(kind, session, payload) ==
  [kind |-> kind, session |-> session, payload |-> payload, step |-> "sent", held |-> None]

\* With the memory driver a request that has been begun is served to its end.
Serving(c) == requests[c].step \in {"read", "seed", "change", "audit"}

Quiet == InMemory => \A c \in Client : ~Serving(c)

Turn(c) == InMemory => \A d \in Client \ {c} : ~Serving(d)

Fault == faults < FaultLimit(driver) /\ faults' = faults + 1

Send(c, kind, session, payload) ==
  /\ requests[c] = NoRequest
  /\ sent < RequestLimit(driver)
  /\ sent' = sent + 1
  /\ requests' = [requests EXCEPT ![c] = Request(kind, session, payload)]

LoggedOut == [session |-> None, document |-> None]

\* handleLogin.  Its session and its audit entry are written before anybody knows of them.
LogIn(b, user) ==
  /\ Quiet
  /\ pages[b].session = None /\ requests[b] = NoRequest
  /\ logins < LoginLimit
  /\ logins' = logins + 1
  /\ LET session == [token |-> logins + 1, user |-> user]
     IN /\ sessions' = sessions \cup {session}
        /\ audit' = Recorded("login", user, session.token)
        /\ pages' = [pages EXCEPT ![b].session = session]
  /\ UNCHANGED <<driver, content, rules, requests, seen, released, edits, sent, faults>>

\* A wrong password.
FailLogIn(user) ==
  /\ Fault /\ Quiet
  /\ audit' = Recorded("login_failed", None, user)
  /\ UNCHANGED <<driver, content, rules, sessions, pages, requests, seen, released,
                 edits, sent, logins>>

\* handleLogout: the page forgets its session even if the platform does not hear of it.
LogOut(b) ==
  /\ Quiet
  /\ pages[b].session # None /\ requests[b] = NoRequest
  /\ pages' = [pages EXCEPT ![b] = LoggedOut]
  /\ \/ /\ Live(pages[b].session)
        /\ sessions' = sessions \ {pages[b].session}
        /\ audit' = Recorded("logout", pages[b].session.user, pages[b].session.token)
        /\ UNCHANGED faults
     \/ /\ ~Live(pages[b].session)
        /\ UNCHANGED <<sessions, audit, faults>>
     \/ Fault /\ UNCHANGED <<sessions, audit>>
  /\ UNCHANGED <<driver, content, rules, requests, seen, released, edits, sent, logins>>

\* Eight hours.
ExpireSession ==
  /\ Fault /\ Quiet
  /\ \E s \in sessions : sessions' = sessions \ {s}
  /\ UNCHANGED <<driver, content, rules, audit, pages, requests, seen, released,
                 edits, sent, logins>>

\* The page is loaded again and asks getAdminMe for the session it kept.
Reload(b) ==
  /\ Fault /\ Quiet
  /\ pages[b].session # None /\ requests[b] = NoRequest
  /\ pages' = [pages EXCEPT ![b] =
       IF Live(pages[b].session) THEN [session |-> pages[b].session, document |-> None]
       ELSE LoggedOut]
  /\ UNCHANGED <<driver, content, rules, sessions, audit, requests, seen, released,
                 edits, sent, logins>>

-----------------------------------------------------------------------------
(* The admin page, and other clients of the platform.                      *)

unsent == <<driver, content, rules, sessions, audit, pages, seen, released, edits, logins, faults>>

\* updateCatalogEntry, updateConfigField: of the document the page shows.
Toggled(e) == Entry(e.game_id, IF e.status = "published" THEN "hidden" ELSE "published")

EditsOf(draft) ==
  {State({IF e.game_id = g THEN Toggled(e) ELSE e : e \in draft.catalog}, draft.title) :
     g \in Game}
    \cup {State(draft.catalog, t) : t \in Titles \ {draft.title}}

Edit(b) ==
  /\ Quiet
  /\ pages[b].document # None
  /\ edits < EditLimit
  /\ edits' = edits + 1
  /\ \E draft \in EditsOf(pages[b].document.draft) : pages' = [pages EXCEPT ![b].document.draft = draft]
  /\ UNCHANGED <<driver, content, rules, sessions, audit, requests, seen, released,
                 sent, logins, faults>>

\* The effect that follows a login, and the button to load again.
Load(b) ==
  /\ pages[b].session # None
  /\ Send(b, "load", pages[b].session, None)
  /\ UNCHANGED unsent

\* handleSave
Save(b) ==
  /\ pages[b].document # None
  /\ Send(b, "save", pages[b].session, pages[b].document.draft)
  /\ UNCHANGED unsent

\* handlePublish: it sends no content.
Publish(b) ==
  /\ pages[b].document # None /\ pages[b].document.unpublished
  /\ Send(b, "publish", pages[b].session, None)
  /\ UNCHANGED unsent

\* A client that is not the page sends any catalog.
SendCatalog(b) ==
  /\ pages[b].session # None
  /\ \E c \in OddCatalogs : Send(b, "save", pages[b].session, State(c, DefaultTitle))
  /\ UNCHANGED unsent

\* The operators' page.
SendRules(b) ==
  /\ pages[b].session # None
  /\ \E r \in RuleSets : Send(b, "rules", pages[b].session, r)
  /\ UNCHANGED unsent

\* The channel of a passenger.
Browse ==
  /\ Send(Passenger, "catalog", None, None)
  /\ UNCHANGED unsent

-----------------------------------------------------------------------------
(* The platform.                                                           *)

Held(r, step, held) ==
  [kind |-> r.kind, session |-> r.session, payload |-> r.payload, step |-> step, held |-> held]

Goes(c, step, held) == requests' = [requests EXCEPT ![c] = Held(requests[c], step, held)]

unserved == <<driver, sessions, pages, seen, bounds>>

\* The guard and the role.
Begin(c) ==
  LET r == requests[c]
      allowed == c = Passenger \/ (Live(r.session) /\ MayServe(r.kind, r.session.user))
  IN /\ r.step = "sent" /\ Turn(c)
     /\ Goes(c, IF ~allowed THEN "refused" ELSE IF r.kind = "rules" THEN "change" ELSE "read",
             None)
     /\ UNCHANGED <<unserved, content, rules, audit, released>>

AfterReading(c) == IF requests[c].kind \in {"load", "catalog"} THEN "done" ELSE "change"

\* loadOrSeedChannelContent
ReadContent(c) ==
  /\ requests[c].step = "read" /\ Turn(c)
  /\ IF content = None THEN Goes(c, "seed", SeededDocument)
     ELSE Goes(c, AfterReading(c), content)
  /\ UNCHANGED <<unserved, content, rules, audit, released>>

SeedContent(c) ==
  /\ requests[c].step = "seed" /\ Turn(c)
  /\ content' = SeededDocument
  /\ Goes(c, AfterReading(c), requests[c].held)
  /\ UNCHANGED <<unserved, rules, audit, released>>

Changing(c, kind) == requests[c].step = "change" /\ requests[c].kind = kind /\ Turn(c)

SaveDraft(c) ==
  LET new == Updated(requests[c].held, requests[c].payload)
  IN /\ Changing(c, "save")
     /\ IF Covers(requests[c].payload.catalog)
        THEN content' = new /\ Goes(c, "audit", new)
        ELSE content' = content /\ Goes(c, "refused", None)
     /\ UNCHANGED <<unserved, rules, audit, released>>

PublishDraft(c) ==
  LET new == Published(requests[c].held, requests[c].session.user)
  IN /\ Changing(c, "publish")
     /\ content' = new
     /\ released' = released \cup {new.published}
     /\ Goes(c, "audit", new)
     /\ UNCHANGED <<unserved, rules, audit>>

ReplaceRules(c) ==
  /\ Changing(c, "rules")
  /\ rules' = requests[c].payload
  /\ Goes(c, "audit", None)
  /\ UNCHANGED <<unserved, content, audit, released>>

\* The controllers record what their services did.
About(c) ==
  CASE requests[c].kind = "save"    -> requests[c].held.draft_revision
    [] requests[c].kind = "publish" -> requests[c].held.published_revision
    [] requests[c].kind = "rules"   -> requests[c].payload

WriteAudit(c) ==
  /\ requests[c].step = "audit" /\ Turn(c)
  /\ audit' = Recorded(requests[c].kind, requests[c].session.user, About(c))
  /\ Goes(c, "done", requests[c].held)
  /\ UNCHANGED <<unserved, content, rules, released>>

Ends(c) == requests' = [requests EXCEPT ![c] = NoRequest]

\* What a page shows is replaced by what it is answered, edits and all.
Answer(b) ==
  /\ Quiet
  /\ requests[b].step = "done"
  /\ Ends(b)
  /\ pages' = IF requests[b].kind = "rules" THEN pages
              ELSE [pages EXCEPT ![b].document = requests[b].held]
  /\ UNCHANGED <<driver, content, rules, sessions, audit, seen, released, bounds>>

ShowCatalog ==
  /\ Quiet
  /\ requests[Passenger].step = "done"
  /\ Ends(Passenger)
  /\ seen' = PublicCatalog(requests[Passenger].held.published)
  /\ UNCHANGED <<driver, content, rules, sessions, audit, pages, released, bounds>>

Refuse(c) ==
  /\ Quiet
  /\ requests[c].step = "refused"
  /\ Ends(c)
  /\ UNCHANGED <<driver, content, rules, sessions, audit, pages, seen, released, bounds>>

\* A request or its answer is lost, or the audit list the page asks for after it.
LoseRequest(c) ==
  /\ Fault /\ Quiet
  /\ requests[c].step \in {"sent", "done"}
  /\ Ends(c)
  /\ UNCHANGED <<driver, content, rules, sessions, audit, pages, seen, released,
                 edits, sent, logins>>

\* A call of the store fails, or the process stops: what was written stays.
FailRequest(c) ==
  /\ ~InMemory /\ Fault
  /\ Serving(c)
  /\ Ends(c)
  /\ UNCHANGED <<driver, content, rules, sessions, audit, pages, seen, released,
                 edits, sent, logins>>

-----------------------------------------------------------------------------

Init ==
  /\ driver \in Drivers
  /\ content = None
  /\ rules = None
  /\ sessions = {}
  /\ audit = {}
  /\ pages = [b \in Browser |-> LoggedOut]
  /\ requests = [c \in Client |-> NoRequest]
  /\ seen = None
  /\ released = {DefaultContent}
  /\ edits = 0 /\ sent = 0 /\ logins = 0 /\ faults = 0

Next ==
  \/ \E b \in Browser, u \in Users : LogIn(b, u)
  \/ \E u \in Users : FailLogIn(u)
  \/ \E b \in Browser : LogOut(b)
  \/ ExpireSession
  \/ \E b \in Browser : Reload(b)
  \/ \E b \in Browser : Edit(b)
  \/ \E b \in Browser : Load(b)
  \/ \E b \in Browser : Save(b)
  \/ \E b \in Browser : Publish(b)
  \/ \E b \in Browser : SendCatalog(b)
  \/ \E b \in Browser : SendRules(b)
  \/ Browse
  \/ \E c \in Client : Begin(c)
  \/ \E c \in Client : ReadContent(c)
  \/ \E c \in Client : SeedContent(c)
  \/ \E c \in Client : SaveDraft(c)
  \/ \E c \in Client : PublishDraft(c)
  \/ \E c \in Client : ReplaceRules(c)
  \/ \E c \in Client : WriteAudit(c)
  \/ \E b \in Browser : Answer(b)
  \/ ShowCatalog
  \/ \E c \in Client : Refuse(c)
  \/ \E c \in Client : LoseRequest(c)
  \/ \E c \in Client : FailRequest(c)

Spec == Init /\ [][Next]_vars

-----------------------------------------------------------------------------
(* Properties.                                                             *)

\* Passengers see the games of a state somebody published, never of a draft, even when
\* saves and publications overlap and overwrite each other; the document says that there
\* is nothing to publish only when its draft is what is published; and every draft and
\* every published state has all the known games and no others.
DraftsStayHidden ==
  /\ seen # None => \E s \in released : seen = PublicCatalog(s)
  /\ content # None =>
       /\ content.published \in released
       /\ ~content.unpublished => content.draft = content.published
       /\ Covers(content.draft.catalog) /\ Covers(content.published.catalog)

Entries(action) == {e \in audit : e.action = action}

\* With the memory driver, and no request being served, each revision of the content and
\* the stored rules have one entry in the audit, no entry is of a revision there is not,
\* the last publication is by whom the document says, and everybody named had logged in
\* and has the role.
AuditTrailIsComplete ==
  InMemory /\ Quiet =>
    /\ content # None =>
         /\ {e.about : e \in Entries("save")} = 2..content.draft_revision
         /\ {e.about : e \in Entries("publish")} = 2..content.published_revision
         /\ Cardinality(Entries("save")) = content.draft_revision - 1
         /\ \A e \in Entries("publish") :
              e.about = content.published_revision => e.actor = content.by
    /\ rules # None => \E e \in Entries("rules") : e.about = rules
    /\ \A e \in audit \ Entries("login_failed") :
         /\ \E l \in Entries("login") : l.actor = e.actor
         /\ e.action = "rules" => "ops_admin" \in Roles(e.actor)
=============================================================================
