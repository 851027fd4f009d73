----------------------------- MODULE CdpTargets -----------------------------
(***************************************************************************)
(* The targets and sessions of one CDP connection: CdpContext of           *)
(* telemaco-cdp/src/dispatch.rs, with the Target, Runtime and Page         *)
(* commands that change it.  A connection's processor runs one command at  *)
(* a time to its end, events first and the reply after them, so a command  *)
(* is one step.                                                            *)
(*                                                                         *)
(* Besides the server's maps, the module keeps what the client on the      *)
(* other side holds: the sessions it was told of and was not told to drop. *)
(* A page is the number page_counter gave it, its context 0 for the        *)
(* default one.  A session is <<page, n>>, n = 0 for the one that          *)
(* createTarget opens and the value of target_session_counter for one that *)
(* the client attaches; <<0, 0>> is "browser-session".                     *)
(***************************************************************************)
EXTENDS Naturals

CONSTANTS
    MaxPages,       \* bound on the targets ever created
    MaxAttach,      \* bound on the explicit attachments
    MaxContexts     \* bound on the browser contexts ever created

ASSUME BoundsType == MaxPages \in Nat /\ MaxAttach \in Nat /\ MaxContexts \in Nat

VARIABLES
    pages,          \* the open pages
    home,           \* the browser context a page was made in
    pageCounter,    \* page_counter
    contexts,       \* the browser contexts besides the default one
    contextCounter, \* browser_context_counter
    attachCounter,  \* target_session_counter
    sessions,       \* from a session to its page, 0 for the browser
    enabled,        \* runtime_enabled_sessions
    casting,        \* the sessions with a screencast
    collecting,     \* the pages that collect console and exception events
    live,           \* the pages that have a V8 isolate
    loaded,         \* whether createTarget ever loaded an address itself
    held            \* the client: the sessions it holds

maps == <<pages, home, pageCounter, contexts, contextCounter, attachCounter, sessions>>
subs == <<enabled, casting, collecting>>
vars == <<maps, subs, live, loaded, held>>

PageIds == 1..MaxPages
ContextIds == 1..MaxContexts
Browser == <<0, 0>>
OpenedFor(p) == <<p, 0>>
SessionIds == {Browser} \cup (PageIds \X (0..MaxAttach))

Attached == DOMAIN sessions

\* get_session_page: the open page a session leads to.
OnPage(s, p) == s \in Attached /\ sessions[s] = p /\ p \in pages
Leading(ps) == {s \in Attached : sessions[s] \in ps}

WithSession(s, p) == [t \in Attached \cup {s} |-> IF t = s THEN p ELSE sessions[t]]
WithoutSessions(gone) == [t \in Attached \ gone |-> sessions[t]]

-----------------------------------------------------------------------------
(* The Target domain.                                                      *)

\* Target.createTarget: a page in a known context, its session, two events.
\* With an address, the page loads it and so gets an isolate; the pages that
\* have one keep theirs.
CreateTarget(c, address) ==
    /\ c \in contexts \cup {0}
    /\ pageCounter < MaxPages
    /\ pageCounter' = pageCounter + 1
    /\ pages' = pages \cup {pageCounter'}
    /\ home' = [home EXCEPT ![pageCounter'] = c]
    /\ sessions' = WithSession(OpenedFor(pageCounter'), pageCounter')
    /\ held' = held \cup {OpenedFor(pageCounter')}
    /\ live' = IF address THEN live \cup {pageCounter'} ELSE live
    /\ loaded' = (loaded \/ address)
    /\ UNCHANGED <<contexts, contextCounter, attachCounter, subs>>

\* Target.attachToTarget: a session of its own for every attachment.
AttachToTarget(p) ==
    /\ p \in pages
    /\ attachCounter < MaxAttach
    /\ attachCounter' = attachCounter + 1
    /\ sessions' = WithSession(<<p, attachCounter'>>, p)
    /\ held' = held \cup {<<p, attachCounter'>>}
    /\ UNCHANGED <<pages, home, pageCounter, contexts, contextCounter, subs, live, loaded>>

\* Target.attachToBrowserTarget: always the same session.
AttachToBrowserTarget ==
    /\ sessions' = WithSession(Browser, 0)
    /\ held' = held \cup {Browser}
    /\ UNCHANGED <<pages, home, pageCounter, contexts, contextCounter, attachCounter,
                   subs, live, loaded>>

\* A bug remove_page could have: the sessions' subscriptions stay.
RemovePages_LeaveSubscriptions(gone) ==
    /\ pages' = pages \ gone
    /\ sessions' = WithoutSessions(Leading(gone))
    /\ collecting' = collecting \ gone
    /\ live' = live \ gone
    /\ UNCHANGED <<enabled, casting>>

\* CdpContext::remove_page, for the pages gone.
RemovePages(gone) ==
    /\ pages' = pages \ gone
    /\ sessions' = WithoutSessions(Leading(gone))
    /\ enabled' = enabled \ Leading(gone)
    /\ casting' = casting \ Leading(gone)
    /\ collecting' = collecting \ gone
    /\ live' = live \ gone

\* Target.closeTarget, of any id, the browser's too: it tells the client to drop the session that
\* createTarget opened, and that the target is destroyed.
CloseTarget(p) ==
    /\ held' = held \ {OpenedFor(p)}
    /\ RemovePages({p})
    /\ UNCHANGED <<home, pageCounter, contexts, contextCounter, attachCounter, loaded>>

\* refresh_runtime_event_collection, given the sessions and subscribers left.
Collects(p, table, subscribers) ==
    \E s \in subscribers : s \in DOMAIN table /\ table[s] = p

\* A bug refresh could have: it only ever turns collection on.
Refreshed_Never(p, table, subscribers) ==
    IF p \in pages /\ Collects(p, table, subscribers) THEN collecting \cup {p} ELSE collecting
Refreshed(p, table, subscribers) ==
    IF p \in pages
    THEN IF Collects(p, table, subscribers) THEN collecting \cup {p} ELSE collecting \ {p}
    ELSE collecting

\* Target.detachFromTarget: the client asked, so it drops the session itself.
DetachFromTarget(s) ==
    /\ sessions' = WithoutSessions({s})
    /\ enabled' = enabled \ {s}
    /\ collecting' = IF s \in Attached
                     THEN Refreshed(sessions[s], sessions', enabled')
                     ELSE collecting
    /\ casting' = casting \ {s}
    /\ held' = held \ {s}
    /\ UNCHANGED <<pages, home, pageCounter, contexts, contextCounter, attachCounter,
                   live, loaded>>

CreateBrowserContext ==
    /\ contextCounter < MaxContexts
    /\ contextCounter' = contextCounter + 1
    /\ contexts' = contexts \cup {contextCounter'}
    /\ UNCHANGED <<pages, home, pageCounter, attachCounter, sessions, subs, live, loaded, held>>

\* The pages of a context.
MadeIn(c) == {p \in pages : home[p] = c}

\* A bug it could have: the sessions are listed after the pages went.
DisposeBrowserContext_Untold(c) ==
    /\ c \in contexts
    /\ contexts' = contexts \ {c}
    /\ RemovePages(MadeIn(c))
    /\ UNCHANGED <<home, pageCounter, contextCounter, attachCounter, loaded, held>>

\* Target.disposeBrowserContext: its sessions are listed before its pages go,
\* and the client is told to drop each of them.
DisposeBrowserContext(c) ==
    /\ c \in contexts
    /\ contexts' = contexts \ {c}
    /\ held' = held \ Leading(MadeIn(c))
    /\ RemovePages(MadeIn(c))
    /\ UNCHANGED <<home, pageCounter, contextCounter, attachCounter, loaded>>

-----------------------------------------------------------------------------
(* What sessions subscribe to.                                             *)

RuntimeEnable(s) ==
    /\ \E p \in pages :
          /\ OnPage(s, p)
          /\ enabled' = enabled \cup {s}
          /\ collecting' = Refreshed(p, sessions, enabled')
    /\ UNCHANGED <<maps, casting, live, loaded, held>>

RuntimeDisable(s) ==
    /\ enabled' = enabled \ {s}
    /\ collecting' = IF s \in Attached THEN Refreshed(sessions[s], sessions, enabled')
                     ELSE collecting
    /\ UNCHANGED <<maps, casting, live, loaded, held>>

-----------------------------------------------------------------------------
(* Which page has the isolate.                                             *)

\* A bug it could have: nobody gives up its isolate.
Resumed_Beside(p, now) == now = live \cup {p}

\* get_session_page_mut: a page without an isolate gets one and the first
\* other page with one, in whatever order the list is, gives it up.
Resumed(p, now) ==
    \/ p \in live /\ now = live
    \/ live = {} /\ now = {p}
    \/ p \notin live /\ \E q \in live : now = (live \ {q}) \cup {p}

\* A command, or the screencast's pump, that works on the session's page.
UsePage(s) ==
    /\ \E p \in pages : OnPage(s, p) /\ Resumed(p, live')
    /\ UNCHANGED <<maps, subs, loaded, held>>

\* The same command on the browser's session: a page gives up its isolate, and
\* the command fails for want of a page.
UseBrowser(s) ==
    /\ s \in Attached
    /\ sessions[s] \notin pages
    /\ \E q \in live : live' = live \ {q}
    /\ UNCHANGED <<maps, subs, loaded, held>>

StartScreencast(s) ==
    /\ \E p \in pages : OnPage(s, p) /\ Resumed(p, live')
    /\ casting' = casting \cup {s}
    /\ UNCHANGED <<maps, enabled, collecting, loaded, held>>

StopScreencast(s) ==
    /\ casting' = casting \ {s}
    /\ UNCHANGED <<maps, enabled, collecting, live, loaded, held>>

\* A navigation that may be intercepted suspends every other page first.
NavigateIntercepted(s) ==
    /\ \E p \in pages : OnPage(s, p) /\ live' = {p}
    /\ UNCHANGED <<maps, subs, loaded, held>>

\* A page that loads about:blank or fails to load has no isolate.
LoseIsolate(p) ==
    /\ p \in live
    /\ live' = live \ {p}
    /\ UNCHANGED <<maps, subs, loaded, held>>

-----------------------------------------------------------------------------
Init ==
    /\ pages = {}
    /\ home = [p \in PageIds |-> 0]
    /\ pageCounter = 0
    /\ contexts = {}
    /\ contextCounter = 0
    /\ attachCounter = 0
    /\ sessions = [s \in {} |-> 0]
    /\ enabled = {}
    /\ casting = {}
    /\ collecting = {}
    /\ live = {}
    /\ loaded = FALSE
    /\ held = {}

Next ==
    \/ \E c \in ContextIds \cup {0}, address \in BOOLEAN : CreateTarget(c, address)
    \/ \E p \in PageIds : AttachToTarget(p) \/ LoseIsolate(p)
    \/ \E p \in PageIds \cup {0} : CloseTarget(p)
    \/ AttachToBrowserTarget
    \/ CreateBrowserContext
    \/ \E c \in ContextIds : DisposeBrowserContext(c)
    \/ \E s \in SessionIds :
          \/ DetachFromTarget(s) \/ RuntimeEnable(s) \/ RuntimeDisable(s)
          \/ UsePage(s) \/ UseBrowser(s) \/ NavigateIntercepted(s)
          \/ StartScreencast(s) \/ StopScreencast(s)

Spec == Init /\ [][Next]_vars

-----------------------------------------------------------------------------
TypeOK ==
    /\ pages \subseteq 1..pageCounter
    /\ home \in [PageIds -> ContextIds \cup {0}]
    /\ pageCounter \in 0..MaxPages
    /\ contexts \subseteq 1..contextCounter
    /\ contextCounter \in 0..MaxContexts
    /\ attachCounter \in 0..MaxAttach
    /\ Attached \subseteq SessionIds
    /\ \A s \in Attached : sessions[s] = s[1]
    /\ enabled \subseteq SessionIds
    /\ casting \subseteq SessionIds
    /\ collecting \subseteq PageIds
    /\ live \subseteq PageIds
    /\ loaded \in BOOLEAN
    /\ held \subseteq SessionIds

\* Nothing of a page outlives it: every session leads to an open page or to
\* the browser, everything kept for a session belongs to one that is attached,
\* and only open pages have isolates or collect events.
NothingOutlives ==
    /\ \A s \in Attached : sessions[s] \in pages \cup {0}
    /\ enabled \cup casting \subseteq Attached
    /\ live \cup collecting \subseteq pages

\* A page collects console and exception events exactly when one of its
\* sessions has Runtime enabled: nothing is lost for a subscriber, and nothing
\* piles up in a page nobody listens to.
CollectsForSubscribers ==
    \A p \in pages : p \in collecting <=> \E s \in enabled : s \in Attached /\ sessions[s] = p

\* The client and the server agree on the sessions: whatever the server keeps
\* the client holds, and what the client holds beyond that is a session it
\* attached itself, to a page that closeTarget has taken away.
ClientHoldsSessions ==
    /\ Attached \subseteq held
    /\ \A s \in held \ Attached : s[2] # 0 /\ s[1] \notin pages

\* One page of a connection has an isolate at a time, as V8 wants it of a
\* thread, as long as createTarget never loaded an address itself.
OneIsolate == ~loaded => \A p, q \in live : p = q

\* What the comment in process_with_interception says of every command.
EveryPathKeepsOneIsolate == \A p, q \in live : p = q
=============================================================================
