-------------------------- MODULE CdpContext_proofs --------------------------
(***************************************************************************)
(* What the parts of a connection's context (CdpContext in dispatch.rs)    *)
(* guarantee: its targets and sessions for any number of pages,            *)
(* attachments and browser contexts, its screencasts for any number of     *)
(* streams, its body cache and IO streams for any limits and any lengths.  *)
(***************************************************************************)
EXTENDS CdpTargets, ResponseStreams, Screencast, FiniteSetTheorems, TLAPS

-----------------------------------------------------------------------------
(* Targets and sessions.                                                   *)

\* What the client ever held was made by the counters.
MadeByCounters ==
    \A s \in held : s[1] \in 0..pageCounter /\ s[2] \in 0..attachCounter

\* The inductive invariant.
Inv == /\ TypeOK
       /\ NothingOutlives
       /\ CollectsForSubscribers
       /\ ClientHoldsSessions
       /\ MadeByCounters
       /\ OneIsolate

\* What is left in a step that only changes who has the isolate.
LEMMA IsolateStep ==
    ASSUME Inv, UNCHANGED <<pages, home, pageCounter, contexts, contextCounter,
                            attachCounter, sessions, enabled, collecting, loaded, held>>,
           casting' \subseteq Attached, live' \subseteq pages,
           (~loaded /\ \A p, q \in live : p = q) => \A p, q \in live' : p = q
    PROVE  Inv'
<1>1. live' \subseteq PageIds /\ casting' \subseteq SessionIds
  BY BoundsType DEF Inv, TypeOK, PageIds
<1>2. TypeOK'
  BY <1>1 DEF Inv, TypeOK, Attached
<1> QED
  BY <1>2 DEF Inv, NothingOutlives, CollectsForSubscribers, ClientHoldsSessions,
     MadeByCounters, OneIsolate, Attached

\* get_session_page_mut gives the isolate to the page, and at most one has it
\* after it if at most one had it before.
LEMMA ResumedShares ==
    ASSUME NEW p \in pages, live \subseteq pages, NEW now, Resumed(p, now)
    PROVE  /\ now \subseteq pages
           /\ (\A q, r \in live : q = r) => \A q, r \in now : q = r
<1>1. CASE p \in live /\ now = live
  BY <1>1
<1>2. CASE live = {} /\ now = {p}
  BY <1>2
<1>3. CASE p \notin live /\ \E q \in live : now = (live \ {q}) \cup {p}
  BY <1>3
<1> QED
  BY <1>1, <1>2, <1>3 DEF Resumed

\* The invariant holds at the start.
LEMMA InitInv == Init => Inv
<1> SUFFICES ASSUME Init PROVE Inv
  OBVIOUS
<1>1. DOMAIN sessions = {} /\ held = {} /\ pages = {} /\ enabled = {} /\ casting = {}
  BY DEF Init
<1>2. home \in [PageIds -> ContextIds \cup {0}]
  BY DEF Init
<1>3. pageCounter \in 0..MaxPages /\ contextCounter \in 0..MaxContexts
      /\ attachCounter \in 0..MaxAttach
  BY BoundsType DEF Init
<1>4. TypeOK
  BY <1>1, <1>2, <1>3 DEF Init, TypeOK, Attached
<1> QED
  BY <1>1, <1>4 DEF Init, Inv, NothingOutlives, CollectsForSubscribers, ClientHoldsSessions,
     MadeByCounters, OneIsolate, Attached

\* Taking pages away takes their sessions and all that is kept for these.
LEMMA RemovePagesInv ==
    ASSUME Inv, NEW gone, RemovePages(gone),
           UNCHANGED <<home, pageCounter, contextCounter, attachCounter, loaded>>,
           contexts' \subseteq contexts, held' \subseteq held,
           \A s \in held \ held' : s[1] \in gone,
           \A s \in held' : s[1] \in gone => s[2] # 0
    PROVE  Inv'
<1>1. /\ DOMAIN sessions' = DOMAIN sessions \ Leading(gone)
      /\ \A s \in DOMAIN sessions' : sessions'[s] = sessions[s]
  BY DEF RemovePages, WithoutSessions, Attached
<1>2. /\ pages' = pages \ gone /\ enabled' = enabled \ Leading(gone)
      /\ casting' = casting \ Leading(gone)
      /\ collecting' = collecting \ gone /\ live' = live \ gone
  BY DEF RemovePages
<1>3. \A s \in DOMAIN sessions : s \in Leading(gone) <=> s[1] \in gone
  BY DEF Inv, TypeOK, Leading, Attached
<1>4. TypeOK'
  BY <1>1, <1>2 DEF Inv, TypeOK, Attached
<1>5. NothingOutlives'
  BY <1>1, <1>2 DEF Inv, NothingOutlives, Attached, Leading
<1>6. CollectsForSubscribers'
  <2>1. ASSUME NEW p \in pages'
        PROVE  p \in collecting' <=> \E s \in enabled' : s \in Attached' /\ sessions'[s] = p
    <3>1. p \in pages /\ p \notin gone
      BY <1>2
    <3>2. \A s \in DOMAIN sessions : sessions[s] = p => s \notin Leading(gone)
      BY <3>1 DEF Leading
    <3>3. p \in collecting <=> \E s \in enabled : s \in Attached /\ sessions[s] = p
      BY <3>1 DEF Inv, CollectsForSubscribers
    <3> QED
      BY <1>1, <1>2, <3>1, <3>2, <3>3 DEF Attached
  <2> QED
    BY <2>1 DEF CollectsForSubscribers
<1>7. ClientHoldsSessions'
  <2>1. Attached' \subseteq held'
    BY <1>1, <1>3 DEF Attached, Inv, ClientHoldsSessions
  <2>2. ASSUME NEW s \in held' \ Attached'
        PROVE  s[2] # 0 /\ s[1] \notin pages'
    <3>1. CASE s \in Attached
      BY <1>1, <1>2, <1>3, <2>2, <3>1 DEF Attached
    <3>2. CASE s \notin Attached
      BY <1>2, <2>2, <3>2 DEF Inv, ClientHoldsSessions
    <3> QED
      BY <3>1, <3>2
  <2> QED
    BY <2>1, <2>2 DEF ClientHoldsSessions
<1>8. MadeByCounters' /\ OneIsolate'
  BY <1>2 DEF Inv, MadeByCounters, OneIsolate
<1> QED
  BY <1>4, <1>5, <1>6, <1>7, <1>8 DEF Inv

\* Target.closeTarget.
LEMMA CloseTargetInv ==
    ASSUME Inv, NEW p, CloseTarget(p)
    PROVE  Inv'
<1>2. /\ held' = held \ {<<p, 0>>} /\ RemovePages({p})
      /\ UNCHANGED <<home, pageCounter, contexts, contextCounter, attachCounter, loaded>>
  BY DEF CloseTarget, OpenedFor
<1>3. \A s \in held : s \in SessionIds
  BY DEF Inv, TypeOK
<1>4. \A s \in SessionIds : s[1] = p /\ s[2] = 0 => s = <<p, 0>>
  BY DEF SessionIds, Browser
<1>5. /\ \A s \in held' : s[1] \in {p} => s[2] # 0
      /\ \A s \in held \ held' : s[1] \in {p}
  BY <1>2, <1>3, <1>4
<1> QED
  BY <1>2, <1>5, RemovePagesInv

\* Target.disposeBrowserContext.
LEMMA DisposeInv ==
    ASSUME Inv, NEW c \in ContextIds, DisposeBrowserContext(c)
    PROVE  Inv'
<1>2. ASSUME NEW s \in held', s[1] \in MadeIn(c)
      PROVE  s[2] # 0
  <2>1. CASE s \in Attached
    <3>1. sessions[s] = s[1]
      BY <2>1 DEF Inv, TypeOK
    <3>2. s \in Leading(MadeIn(c))
      BY <1>2, <2>1, <3>1 DEF Leading
    <3> QED
      BY <3>2 DEF DisposeBrowserContext
  <2>2. CASE s \notin Attached
    BY <2>2 DEF DisposeBrowserContext, Inv, ClientHoldsSessions
  <2> QED
    BY <2>1, <2>2
<1>3. /\ RemovePages(MadeIn(c)) /\ contexts' \subseteq contexts /\ held' \subseteq held
      /\ held \ held' \subseteq Leading(MadeIn(c))
      /\ UNCHANGED <<home, pageCounter, contextCounter, attachCounter, loaded>>
  BY DEF DisposeBrowserContext
<1>4. \A s \in held \ held' : s[1] \in MadeIn(c)
  BY <1>3 DEF Leading, Inv, TypeOK
<1> QED
  BY <1>2, <1>3, <1>4, RemovePagesInv

\* Target.createTarget: the new page, and its session, are new.
LEMMA CreateTargetInv ==
    ASSUME Inv, NEW c \in ContextIds \cup {0}, NEW address \in BOOLEAN, CreateTarget(c, address)
    PROVE  Inv'
<1>0. PICK p \in Nat : p = pageCounter + 1
  BY DEF Inv, TypeOK
<1>1. /\ p \in PageIds /\ p \notin pages /\ pageCounter' = p /\ pageCounter \in Nat
      /\ pageCounter < MaxPages
  BY <1>0, BoundsType DEF CreateTarget, PageIds, Inv, TypeOK
<1>2. /\ pages' = pages \cup {p} /\ home' = [home EXCEPT ![p] = c]
      /\ sessions' = WithSession(<<p, 0>>, p) /\ held' = held \cup {<<p, 0>>}
      /\ UNCHANGED <<contexts, contextCounter, attachCounter, enabled, casting, collecting>>
  BY <1>0, <1>1 DEF CreateTarget, subs, OpenedFor
<1>3. /\ live' \subseteq live \cup {p} /\ (~loaded' => ~loaded /\ live' = live)
      /\ loaded' \in BOOLEAN
  <2>1. live' = IF address THEN live \cup {p} ELSE live
    BY <1>1 DEF CreateTarget
  <2>2. loaded' = (loaded \/ address)
    BY DEF CreateTarget
  <2>3. loaded \in BOOLEAN
    BY DEF Inv, TypeOK
  <2> QED
    BY <2>1, <2>2, <2>3, Zenon
<1>4. <<p, 0>> \notin Attached /\ \A s \in Attached : sessions[s] # p
  <2>1. p # 0 /\ p \notin pages
    BY <1>1 DEF PageIds
  <2>2. <<p, 0>>[1] = p
    OBVIOUS
  <2>3. \A s \in Attached : sessions[s] = s[1] /\ sessions[s] \in pages \cup {0}
    BY DEF Inv, TypeOK, NothingOutlives
  <2> QED
    BY <2>1, <2>2, <2>3
<1>5. /\ DOMAIN sessions' = DOMAIN sessions \cup {<<p, 0>>} /\ sessions'[<<p, 0>>] = p
      /\ \A s \in DOMAIN sessions : sessions'[s] = sessions[s]
  BY <1>2, <1>4 DEF WithSession, Attached
<1>6. TypeOK'
  <2>1. <<p, 0>> \in SessionIds /\ <<p, 0>>[1] = p /\ 0 \in 0..attachCounter
    BY <1>1, BoundsType DEF SessionIds, Inv, TypeOK
  <2>2. \A s \in DOMAIN sessions' : s \in SessionIds /\ sessions'[s] = s[1]
    BY <1>5, <2>1 DEF Inv, TypeOK, Attached
  <2>3. pages' \subseteq 1..pageCounter' /\ pageCounter' \in 0..MaxPages /\ live' \subseteq PageIds
    <3>1. 1..pageCounter \subseteq 1..p /\ p \in 1..p /\ p \in 0..MaxPages
      BY <1>0, <1>1, BoundsType DEF PageIds
    <3> QED
      BY <1>1, <1>2, <1>3, <3>1 DEF Inv, TypeOK
  <2>4. home' \in [PageIds -> ContextIds \cup {0}]
    BY <1>1, <1>2 DEF Inv, TypeOK
  <2>5. held' \subseteq SessionIds
    BY <1>2, <2>1 DEF Inv, TypeOK
  <2> QED
    BY <1>2, <1>3, <2>2, <2>3, <2>4, <2>5 DEF Inv, TypeOK, Attached
<1>7. NothingOutlives'
  BY <1>2, <1>3, <1>5 DEF Inv, NothingOutlives, Attached
<1>8. CollectsForSubscribers'
  <2>1. \A s \in enabled : s \in Attached /\ sessions[s] # p /\ s # <<p, 0>>
    BY <1>4 DEF Inv, NothingOutlives
  <2>2. p \notin collecting
    BY <1>1 DEF Inv, NothingOutlives
  <2>3. \A s \in enabled : s \in Attached' /\ sessions'[s] = sessions[s]
    BY <1>5, <2>1 DEF Attached
  <2>4. ASSUME NEW r \in pages'
        PROVE  r \in collecting' <=> \E s \in enabled' : s \in Attached' /\ sessions'[s] = r
    <3>1. CASE r = p
      BY <1>2, <2>1, <2>2, <2>3, <3>1
    <3>2. CASE r \in pages
      <4>1. r \in collecting <=> \E s \in enabled : s \in Attached /\ sessions[s] = r
        BY <3>2 DEF Inv, CollectsForSubscribers
      <4> QED
        BY <1>2, <2>1, <2>3, <4>1
    <3> QED
      BY <1>2, <3>1, <3>2
  <2> QED
    BY <2>4 DEF CollectsForSubscribers
<1>9. ClientHoldsSessions'
  <2>1. ASSUME NEW s \in held PROVE s[1] # p
    BY <1>0, <1>1 DEF Inv, MadeByCounters
  <2> QED
    BY <1>2, <1>5, <2>1 DEF Inv, ClientHoldsSessions, Attached
<1>10. MadeByCounters'
  <2>1. <<p, 0>>[1] = p /\ <<p, 0>>[2] = 0 /\ 0 \in 0..attachCounter /\ p \in 0..p
    BY <1>1 DEF Inv, TypeOK
  <2>2. 0..pageCounter \subseteq 0..p
    BY <1>0, <1>1
  <2> QED
    BY <1>1, <1>2, <2>1, <2>2 DEF Inv, MadeByCounters
<1>11. OneIsolate'
  BY <1>3 DEF Inv, OneIsolate
<1> QED
  BY <1>6, <1>7, <1>8, <1>9, <1>10, <1>11 DEF Inv

\* Target.attachToTarget: the counter makes the session new.
LEMMA AttachInv ==
    ASSUME Inv, NEW p \in PageIds, AttachToTarget(p)
    PROVE  Inv'
<1>0. PICK n \in Nat : n = attachCounter + 1
  BY DEF Inv, TypeOK
<1>a. PICK t : t = <<p, n>>
  OBVIOUS
<1>1. n \in 0..MaxAttach /\ attachCounter' = n /\ attachCounter \in Nat /\ p \in pages
  BY <1>0, BoundsType DEF AttachToTarget, Inv, TypeOK
<1>2. t \notin held /\ t \notin Attached
  BY <1>0, <1>1, <1>a DEF Inv, MadeByCounters, ClientHoldsSessions
<1>3. /\ sessions' = WithSession(t, p) /\ held' = held \cup {t}
      /\ UNCHANGED <<pages, home, pageCounter, contexts, contextCounter, enabled, casting,
                     collecting, live, loaded>>
  BY <1>0, <1>1, <1>a DEF AttachToTarget, subs
<1>4. /\ DOMAIN sessions' = DOMAIN sessions \cup {t} /\ sessions'[t] = p
      /\ \A s \in DOMAIN sessions : sessions'[s] = sessions[s]
  BY <1>2, <1>3 DEF WithSession, Attached
<1>5. t \in SessionIds /\ t[1] = p /\ t[2] = n
  BY <1>1, <1>a DEF SessionIds
<1>6. TypeOK'
  <2>1. \A s \in DOMAIN sessions' : s \in SessionIds /\ sessions'[s] = s[1]
    BY <1>4, <1>5 DEF Inv, TypeOK, Attached
  <2>2. held' \subseteq SessionIds
    BY <1>3, <1>5 DEF Inv, TypeOK
  <2> QED
    BY <1>1, <1>3, <2>1, <2>2 DEF Inv, TypeOK, Attached
<1>7. NothingOutlives'
  BY <1>1, <1>3, <1>4 DEF Inv, NothingOutlives, Attached
<1>8. CollectsForSubscribers'
  <2>1. \A s \in enabled : s \in Attached /\ s \in Attached' /\ sessions'[s] = sessions[s]
    BY <1>4 DEF Inv, NothingOutlives, Attached
  <2> QED
    BY <1>3, <2>1 DEF Inv, CollectsForSubscribers
<1>9. ClientHoldsSessions'
  BY <1>3, <1>4 DEF Inv, ClientHoldsSessions, Attached
<1>10. MadeByCounters'
  <2>1. 0..attachCounter \subseteq 0..n /\ n \in 0..n
    BY <1>0, <1>1
  <2>2. p \in 0..pageCounter
    <3>1. p \in pages \cup {0} /\ pages \subseteq 1..pageCounter /\ pageCounter \in Nat
      BY <1>1, BoundsType DEF Inv, TypeOK
    <3>2. QED BY ONLY <3>1
  <2> QED
    BY <1>1, <1>3, <1>5, <2>1, <2>2 DEF Inv, MadeByCounters
<1>11. OneIsolate'
  BY <1>3 DEF Inv, OneIsolate
<1> QED
  BY <1>6, <1>7, <1>8, <1>9, <1>10, <1>11 DEF Inv

\* Target.attachToBrowserTarget.
LEMMA AttachToBrowserInv ==
    ASSUME Inv, AttachToBrowserTarget
    PROVE  Inv'
<1>1. /\ sessions' = WithSession(Browser, 0) /\ held' = held \cup {Browser}
      /\ UNCHANGED <<pages, home, pageCounter, contexts, contextCounter, attachCounter,
                     enabled, casting, collecting, live, loaded>>
  BY DEF AttachToBrowserTarget, subs
<1>2. Browser \in SessionIds /\ Browser[1] = 0 /\ Browser[2] = 0
  BY DEF Browser, SessionIds
<1>3. /\ DOMAIN sessions' = DOMAIN sessions \cup {Browser}
      /\ \A s \in DOMAIN sessions' : sessions'[s] = IF s = Browser THEN 0 ELSE sessions[s]
  BY <1>1 DEF WithSession, Attached
<1>4. \A s \in DOMAIN sessions : sessions'[s] = sessions[s]
  BY <1>2, <1>3 DEF Inv, TypeOK, Attached
<1>5. TypeOK'
  <2>1. \A s \in DOMAIN sessions' : s \in SessionIds /\ sessions'[s] = s[1]
    BY <1>2, <1>3 DEF Inv, TypeOK, Attached
  <2>2. held' \subseteq SessionIds
    BY <1>1, <1>2 DEF Inv, TypeOK
  <2> QED
    BY <1>1, <2>1, <2>2 DEF Inv, TypeOK, Attached
<1>6. NothingOutlives'
  BY <1>1, <1>3, <1>4 DEF Inv, NothingOutlives, Attached
<1>7. CollectsForSubscribers'
  <2>1. \A s \in enabled : s \in Attached /\ s \in Attached' /\ sessions'[s] = sessions[s]
    BY <1>3, <1>4 DEF Inv, NothingOutlives, Attached
  <2> QED
    BY <1>1, <2>1 DEF Inv, CollectsForSubscribers
<1>8. ClientHoldsSessions'
  BY <1>1, <1>3 DEF Inv, ClientHoldsSessions, Attached
<1>9. MadeByCounters'
  BY <1>1, <1>2 DEF Inv, MadeByCounters, TypeOK
<1>10. OneIsolate'
  BY <1>1 DEF Inv, OneIsolate
<1> QED
  BY <1>5, <1>6, <1>7, <1>8, <1>9, <1>10 DEF Inv

\* Target.detachFromTarget.
LEMMA DetachInv ==
    ASSUME Inv, NEW s \in SessionIds, DetachFromTarget(s)
    PROVE  Inv'
<1>1. /\ DOMAIN sessions' = DOMAIN sessions \ {s}
      /\ \A t \in DOMAIN sessions' : sessions'[t] = sessions[t]
  BY DEF DetachFromTarget, WithoutSessions, Attached
<1>2. /\ enabled' = enabled \ {s} /\ casting' = casting \ {s} /\ held' = held \ {s}
      /\ UNCHANGED <<pages, home, pageCounter, contexts, contextCounter, attachCounter,
                     live, loaded>>
  BY DEF DetachFromTarget
<1>3. ASSUME NEW p \in pages
      PROVE  p \in collecting' <=> \E t \in enabled' : t \in Attached' /\ sessions'[t] = p
  <2>0. p \in collecting <=> \E t \in enabled : t \in Attached /\ sessions[t] = p
    BY DEF Inv, CollectsForSubscribers
  <2>1. CASE s \in Attached /\ sessions[s] = p
    BY <2>1 DEF DetachFromTarget, Refreshed, Collects, Attached
  <2>2. CASE s \in Attached /\ sessions[s] # p
    <3>1. p \in collecting' <=> p \in collecting
      BY <2>2 DEF DetachFromTarget, Refreshed
    <3> QED
      BY <1>1, <1>2, <2>0, <2>2, <3>1 DEF Attached
  <2>3. CASE s \notin Attached
    <3>1. collecting' = collecting
      BY <2>3 DEF DetachFromTarget
    <3> QED
      BY <1>1, <1>2, <2>0, <2>3, <3>1 DEF Attached
  <2> QED
    BY <2>1, <2>2, <2>3
<1>4. collecting' \subseteq pages
  BY DEF DetachFromTarget, Refreshed, Inv, NothingOutlives
<1>5. TypeOK'
  <2>1. collecting' \subseteq PageIds
    BY <1>4, BoundsType DEF Inv, TypeOK, PageIds
  <2> QED
    BY <1>1, <1>2, <2>1 DEF Inv, TypeOK, Attached
<1>6. NothingOutlives'
  BY <1>1, <1>2, <1>4 DEF Inv, NothingOutlives, Attached
<1>7. CollectsForSubscribers'
  BY <1>2, <1>3 DEF CollectsForSubscribers
<1>8. ClientHoldsSessions'
  BY <1>1, <1>2 DEF Inv, ClientHoldsSessions, Attached
<1>9. MadeByCounters' /\ OneIsolate'
  BY <1>2 DEF Inv, MadeByCounters, OneIsolate
<1> QED
  BY <1>5, <1>6, <1>7, <1>8, <1>9 DEF Inv

\* Target.createBrowserContext.
LEMMA CreateBrowserContextInv ==
    ASSUME Inv, CreateBrowserContext
    PROVE  Inv'
<1>0. PICK n \in Nat : n = contextCounter + 1
  BY DEF Inv, TypeOK
<1>1. /\ contextCounter' = n /\ contexts' = contexts \cup {n}
      /\ UNCHANGED <<pages, home, pageCounter, attachCounter, sessions, enabled, casting,
                     collecting, live, loaded, held>>
  BY <1>0 DEF CreateBrowserContext, subs
<1>2. n \in 0..MaxContexts /\ contexts' \subseteq 1..n
  BY <1>0, <1>1, BoundsType DEF CreateBrowserContext, Inv, TypeOK
<1>3. TypeOK'
  BY <1>1, <1>2 DEF Inv, TypeOK, Attached
<1> QED
  BY <1>1, <1>3 DEF Inv, NothingOutlives, CollectsForSubscribers, ClientHoldsSessions,
     MadeByCounters, OneIsolate, Attached

\* What is left in a step that only changes who has Runtime enabled, and brings
\* the page of the session up to date.
LEMMA SubscribeStep ==
    ASSUME Inv, NEW s,
           UNCHANGED <<pages, home, pageCounter, contexts, contextCounter, attachCounter,
                       sessions, casting, live, loaded, held>>,
           enabled' \subseteq Attached, enabled \ enabled' \subseteq {s},
           enabled' \ enabled \subseteq {s},
           collecting' = IF s \in Attached THEN Refreshed(sessions[s], sessions, enabled')
                         ELSE collecting
    PROVE  Inv'
<1>1. collecting' \subseteq pages
  BY DEF Refreshed, Inv, NothingOutlives
<1>2. ASSUME NEW p \in pages
      PROVE  p \in collecting' <=> \E t \in enabled' : t \in Attached' /\ sessions'[t] = p
  <2>0. p \in collecting <=> \E t \in enabled : t \in Attached /\ sessions[t] = p
    BY DEF Inv, CollectsForSubscribers
  <2>1. CASE s \in Attached /\ sessions[s] = p
    BY <2>1 DEF Refreshed, Collects, Attached
  <2>2. CASE s \in Attached /\ sessions[s] # p
    <3>1. p \in collecting' <=> p \in collecting
      BY <2>2 DEF Refreshed
    <3> QED
      BY <2>0, <2>2, <3>1 DEF Attached
  <2>3. CASE s \notin Attached
    BY <2>0, <2>3 DEF Attached
  <2> QED
    BY <2>1, <2>2, <2>3
<1>3. TypeOK'
  <2>1. collecting' \subseteq PageIds /\ enabled' \subseteq SessionIds
    <3>1. pages \subseteq PageIds /\ Attached \subseteq SessionIds
      BY BoundsType DEF Inv, TypeOK, PageIds
    <3> QED
      BY <1>1, <3>1
  <2> QED
    BY <2>1 DEF Inv, TypeOK, Attached
<1>4. CollectsForSubscribers'
  BY <1>2 DEF CollectsForSubscribers
<1> QED
  BY <1>1, <1>3, <1>4 DEF Inv, NothingOutlives, ClientHoldsSessions, MadeByCounters,
     OneIsolate, Attached

\* Runtime.enable and Runtime.disable.
LEMMA RuntimeInv ==
    ASSUME Inv, NEW s \in SessionIds, RuntimeEnable(s) \/ RuntimeDisable(s)
    PROVE  Inv'
<1>1. CASE RuntimeEnable(s)
  <2>1. PICK p \in pages : OnPage(s, p) /\ collecting' = Refreshed(p, sessions, enabled')
                           /\ enabled' = enabled \cup {s}
    BY <1>1 DEF RuntimeEnable
  <2>2. s \in Attached /\ sessions[s] = p
    BY <2>1 DEF OnPage
  <2>3. UNCHANGED <<pages, home, pageCounter, contexts, contextCounter, attachCounter,
                    sessions, casting, live, loaded, held>>
    BY <1>1 DEF RuntimeEnable, maps
  <2>4. enabled' \subseteq Attached
    BY <2>1, <2>2 DEF Inv, NothingOutlives
  <2> QED
    BY <2>1, <2>2, <2>3, <2>4, SubscribeStep
<1>2. CASE RuntimeDisable(s)
  <2>1. /\ enabled' = enabled \ {s}
        /\ UNCHANGED <<pages, home, pageCounter, contexts, contextCounter, attachCounter,
                       sessions, casting, live, loaded, held>>
    BY <1>2 DEF RuntimeDisable, maps
  <2>2. enabled' \subseteq Attached
    BY <2>1 DEF Inv, NothingOutlives
  <2>3. collecting' = IF s \in Attached THEN Refreshed(sessions[s], sessions, enabled')
                      ELSE collecting
    BY <1>2 DEF RuntimeDisable
  <2> QED
    BY <2>1, <2>2, <2>3, SubscribeStep
<1> QED
  BY <1>1, <1>2

\* The actions that pass the isolate on, and the screencasts.
LEMMA IsolatesInv ==
    ASSUME Inv, NEW s \in SessionIds,
           \/ UsePage(s) \/ UseBrowser(s) \/ NavigateIntercepted(s)
           \/ StartScreencast(s) \/ StopScreencast(s)
    PROVE  Inv'
<1>0. live \subseteq pages /\ casting \subseteq Attached
  BY DEF Inv, NothingOutlives
<1>1. CASE UsePage(s)
  <2>1. PICK p \in pages : Resumed(p, live')
    BY <1>1 DEF UsePage
  <2>2. live' \subseteq pages /\ ((\A q, r \in live : q = r) => \A q, r \in live' : q = r)
    BY <1>0, <2>1, ResumedShares
  <2>3. UNCHANGED <<pages, home, pageCounter, contexts, contextCounter, attachCounter,
                    sessions, enabled, casting, collecting, loaded, held>>
    BY <1>1 DEF UsePage, maps, subs
  <2> QED
    BY <1>0, <2>2, <2>3, IsolateStep
<1>2. CASE StartScreencast(s)
  <2>1. PICK p \in pages : OnPage(s, p) /\ Resumed(p, live') /\ casting' = casting \cup {s}
    BY <1>2 DEF StartScreencast
  <2>2. live' \subseteq pages /\ ((\A q, r \in live : q = r) => \A q, r \in live' : q = r)
    BY <1>0, <2>1, ResumedShares
  <2>3. casting' \subseteq Attached
    BY <1>0, <2>1 DEF OnPage
  <2>4. UNCHANGED <<pages, home, pageCounter, contexts, contextCounter, attachCounter,
                    sessions, enabled, collecting, loaded, held>>
    BY <1>2 DEF StartScreencast, maps
  <2> QED
    BY <2>2, <2>3, <2>4, IsolateStep
<1>3. CASE StopScreencast(s)
  <2>1. casting' \subseteq Attached /\ live' = live
        /\ UNCHANGED <<pages, home, pageCounter, contexts, contextCounter, attachCounter,
                       sessions, enabled, collecting, loaded, held>>
    BY <1>0, <1>3 DEF StopScreencast, maps
  <2> QED
    BY <1>0, <2>1, IsolateStep
<1>4. CASE NavigateIntercepted(s)
  <2>1. PICK p \in pages : live' = {p}
    BY <1>4 DEF NavigateIntercepted
  <2>2. UNCHANGED <<pages, home, pageCounter, contexts, contextCounter, attachCounter,
                    sessions, enabled, casting, collecting, loaded, held>>
    BY <1>4 DEF NavigateIntercepted, maps, subs
  <2> QED
    BY <1>0, <2>1, <2>2, IsolateStep
<1>5. CASE UseBrowser(s)
  <2>1. live' \subseteq live /\ casting' \subseteq Attached
        /\ UNCHANGED <<pages, home, pageCounter, contexts, contextCounter, attachCounter,
                       sessions, enabled, collecting, loaded, held>>
    BY <1>0, <1>5 DEF UseBrowser, maps, subs
  <2> QED
    BY <1>0, <2>1, IsolateStep
<1> QED
  BY <1>1, <1>2, <1>3, <1>4, <1>5

\* A page that loses its isolate.
LEMMA LoseIsolateInv ==
    ASSUME Inv, NEW p \in PageIds, LoseIsolate(p)
    PROVE  Inv'
<1>1. live' \subseteq live /\ casting' \subseteq Attached /\ live \subseteq pages
      /\ UNCHANGED <<pages, home, pageCounter, contexts, contextCounter, attachCounter,
                     sessions, enabled, collecting, loaded, held>>
  BY DEF LoseIsolate, maps, subs, Inv, NothingOutlives
<1> QED
  BY <1>1, IsolateStep

\* The targets, sessions and subscriptions of a connection keep the inductive
\* invariant in every command.
THEOREM TargetsInvariant == Spec => []Inv
<1>1. Inv /\ [Next]_vars => Inv'
  <2> SUFFICES ASSUME Inv, [Next]_vars PROVE Inv'
    OBVIOUS
  <2>1. CASE \E c \in ContextIds \cup {0}, address \in BOOLEAN : CreateTarget(c, address)
    BY <2>1, CreateTargetInv
  <2>2. CASE \E p \in PageIds : AttachToTarget(p) \/ LoseIsolate(p)
    BY <2>2, AttachInv, LoseIsolateInv
  <2>8. CASE \E p \in PageIds \cup {0} : CloseTarget(p)
    BY <2>8, CloseTargetInv
  <2>3. CASE AttachToBrowserTarget
    BY <2>3, AttachToBrowserInv
  <2>4. CASE CreateBrowserContext
    BY <2>4, CreateBrowserContextInv
  <2>5. CASE \E c \in ContextIds : DisposeBrowserContext(c)
    BY <2>5, DisposeInv
  <2>6. CASE \E s \in SessionIds :
               \/ DetachFromTarget(s) \/ RuntimeEnable(s) \/ RuntimeDisable(s)
               \/ UsePage(s) \/ UseBrowser(s) \/ NavigateIntercepted(s)
               \/ StartScreencast(s) \/ StopScreencast(s)
    BY <2>6, DetachInv, RuntimeInv, IsolatesInv
  <2>7. CASE UNCHANGED vars
    BY <2>7 DEF vars, maps, subs, Inv, TypeOK, NothingOutlives, CollectsForSubscribers,
       ClientHoldsSessions, MadeByCounters, OneIsolate, Attached
  <2> QED
    BY <2>1, <2>2, <2>3, <2>4, <2>5, <2>6, <2>7, <2>8 DEF Next
<1> QED
  BY InitInv, <1>1, PTL DEF Spec

\* No session, subscription or isolate outlives its page, whatever the order of
\* the commands that close, detach and dispose.
THEOREM NothingOutlivesItsPage == Spec => []NothingOutlives
<1>1. Inv => NothingOutlives
  BY DEF Inv
<1> QED
  BY TargetsInvariant, <1>1, PTL

\* A page collects events exactly while one of its sessions has Runtime enabled.
THEOREM CollectionFollowsSubscribers == Spec => []CollectsForSubscribers
<1>1. Inv => CollectsForSubscribers
  BY DEF Inv
<1> QED
  BY TargetsInvariant, <1>1, PTL

\* The client was told of every session the server keeps, and holds no session
\* of a target that it did not attach itself once the target is gone.
THEOREM ClientAgreesOnSessions == Spec => []ClientHoldsSessions
<1>1. Inv => ClientHoldsSessions
  BY DEF Inv
<1> QED
  BY TargetsInvariant, <1>1, PTL

\* One page at a time has the isolate, as long as createTarget loads nothing.
THEOREM OneIsolateAtATime == Spec => []OneIsolate
<1>1. Inv => OneIsolate
  BY DEF Inv
<1> QED
  BY TargetsInvariant, <1>1, PTL

-----------------------------------------------------------------------------
(* A session's screencast.                                                 *)

Frame == [id : Nat, view : Nat]
StreamState == [id : Nat, nth : Nat \ {0}, tries : Nat, inFlight : Nat,
                observed : Nat, pending : BOOLEAN]

FramesOf(id, fs) == {i \in 1..Len(fs) : fs[i].id = id}
AcksOf(id, ks)   == {i \in 1..Len(ks) : ks[i] = id}

\* The places of a queue but its first, moved up by one.
LEMMA Shifted ==
    ASSUME NEW n \in Nat \ {0}, NEW T, T \subseteq 1..n,
           NEW U, U = {i \in 1..(n - 1) : i + 1 \in T}
    PROVE  /\ IsFiniteSet(U) /\ IsFiniteSet(T) /\ Cardinality(U) \in Nat /\ Cardinality(T) \in Nat
           /\ Cardinality(U) = IF 1 \in T THEN Cardinality(T) - 1 ELSE Cardinality(T)
<1>1. IsFiniteSet(1..n)
  BY FS_Interval
<1>2. IsFiniteSet(T) /\ Cardinality(T) \in Nat
  BY <1>1, FS_Subset, FS_CardinalityType
<1>3. /\ IsFiniteSet(T \ {1})
      /\ Cardinality(T \ {1}) = IF 1 \in T THEN Cardinality(T) - 1 ELSE Cardinality(T)
  BY <1>2, FS_RemoveElement
<1>4. PICK g : g = [i \in T \ {1} |-> i - 1]
  OBVIOUS
<1>5. g \in Bijection(T \ {1}, U)
  <2>1. g \in [T \ {1} -> U]
    BY <1>4
  <2>2. \A a, b \in T \ {1} : g[a] = g[b] => a = b
    BY <1>4
  <2>3. \A u \in U : \E a \in T \ {1} : g[a] = u
    <3> TAKE u \in U
    <3> WITNESS u + 1 \in T \ {1}
    <3> QED BY <1>4
  <2>4. QED BY <2>1, <2>2, <2>3 DEF Bijection, Injection, IsInjective, Surjection
<1>6. ExistsBijection(T \ {1}, U)
  BY <1>5 DEF ExistsBijection
<1>7. IsFiniteSet(U) /\ Cardinality(U) = Cardinality(T \ {1})
  BY <1>3, <1>6, FS_Bijection
<1>8. QED BY <1>2, <1>3, <1>7, FS_CardinalityType

\* A queue that grows at its end, and one that is read at its head.
LEMMA FramesGrow ==
    ASSUME NEW fs \in Seq(Frame), NEW f \in Frame, NEW id
    PROVE  /\ Cardinality(FramesOf(id, fs)) \in Nat
           /\ Cardinality(FramesOf(id, Append(fs, f)))
                = Cardinality(FramesOf(id, fs)) + (IF f.id = id THEN 1 ELSE 0)
<1>1. IsFiniteSet(FramesOf(id, fs)) /\ Cardinality(FramesOf(id, fs)) \in Nat
  <2>1. IsFiniteSet(1..Len(fs))
    BY FS_Interval
  <2>2. QED BY <2>1, FS_Subset, FS_CardinalityType DEF FramesOf
<1>2. CASE f.id = id
  <2>1. FramesOf(id, Append(fs, f)) = FramesOf(id, fs) \cup {Len(fs) + 1}
    BY <1>2 DEF FramesOf
  <2>2. Len(fs) + 1 \notin FramesOf(id, fs)
    BY DEF FramesOf
  <2>3. QED BY <1>1, <1>2, <2>1, <2>2, FS_AddElement
<1>3. CASE f.id # id
  <2>1. FramesOf(id, Append(fs, f)) = FramesOf(id, fs)
    BY <1>3 DEF FramesOf
  <2>2. QED BY <1>1, <1>3, <2>1
<1>4. QED BY <1>1, <1>2, <1>3

LEMMA FramesLeave ==
    ASSUME NEW fs \in Seq(Frame), fs # <<>>, NEW id
    PROVE  Cardinality(FramesOf(id, fs))
             = Cardinality(FramesOf(id, Tail(fs))) + (IF Head(fs).id = id THEN 1 ELSE 0)
<1>1. Len(fs) \in Nat \ {0} /\ Len(Tail(fs)) = Len(fs) - 1 /\ Head(fs) = fs[1]
  OBVIOUS
<1>2. \A i \in 1..(Len(fs) - 1) : Tail(fs)[i] = fs[i + 1]
  OBVIOUS
<1>3. FramesOf(id, Tail(fs)) = {i \in 1..(Len(fs) - 1) : i + 1 \in FramesOf(id, fs)}
  BY <1>1, <1>2 DEF FramesOf
<1>4. FramesOf(id, fs) \subseteq 1..Len(fs) /\ (1 \in FramesOf(id, fs) <=> Head(fs).id = id)
  BY <1>1 DEF FramesOf
<1>5. QED BY <1>1, <1>3, <1>4, Shifted

LEMMA AcksGrow ==
    ASSUME NEW S, NEW ks \in Seq(S), NEW a \in S, NEW id
    PROVE  /\ Cardinality(AcksOf(id, ks)) \in Nat
           /\ Cardinality(AcksOf(id, Append(ks, a)))
                = Cardinality(AcksOf(id, ks)) + (IF a = id THEN 1 ELSE 0)
<1>1. IsFiniteSet(AcksOf(id, ks)) /\ Cardinality(AcksOf(id, ks)) \in Nat
  <2>1. IsFiniteSet(1..Len(ks))
    BY FS_Interval
  <2>2. QED BY <2>1, FS_Subset, FS_CardinalityType DEF AcksOf
<1>2. CASE a = id
  <2>1. AcksOf(id, Append(ks, a)) = AcksOf(id, ks) \cup {Len(ks) + 1}
    BY <1>2 DEF AcksOf
  <2>2. Len(ks) + 1 \notin AcksOf(id, ks)
    BY DEF AcksOf
  <2>3. QED BY <1>1, <1>2, <2>1, <2>2, FS_AddElement
<1>3. CASE a # id
  <2>1. AcksOf(id, Append(ks, a)) = AcksOf(id, ks)
    BY <1>3 DEF AcksOf
  <2>2. QED BY <1>1, <1>3, <2>1
<1>4. QED BY <1>1, <1>2, <1>3

LEMMA AcksLeave ==
    ASSUME NEW S, NEW ks \in Seq(S), ks # <<>>, NEW id
    PROVE  Cardinality(AcksOf(id, ks))
             = Cardinality(AcksOf(id, Tail(ks))) + (IF Head(ks) = id THEN 1 ELSE 0)
<1>1. Len(ks) \in Nat \ {0} /\ Len(Tail(ks)) = Len(ks) - 1 /\ Head(ks) = ks[1]
  OBVIOUS
<1>2. \A i \in 1..(Len(ks) - 1) : Tail(ks)[i] = ks[i + 1]
  OBVIOUS
<1>3. AcksOf(id, Tail(ks)) = {i \in 1..(Len(ks) - 1) : i + 1 \in AcksOf(id, ks)}
  BY <1>1, <1>2 DEF AcksOf
<1>4. AcksOf(id, ks) \subseteq 1..Len(ks) /\ (1 \in AcksOf(id, ks) <=> Head(ks) = id)
  BY <1>1 DEF AcksOf
<1>5. QED BY <1>1, <1>3, <1>4, Shifted

\* The frames of a stream that has not been started are nowhere.
LEMMA NoneYet ==
    ASSUME NEW fs \in Seq(Frame), NEW ks \in Seq(Nat), NEW id,
           \A i \in 1..Len(fs) : fs[i].id # id,
           \A i \in 1..Len(ks) : ks[i] # id
    PROVE  Cardinality(FramesOf(id, fs)) + Cardinality(AcksOf(id, ks)) = 0
<1>1. FramesOf(id, fs) = {} /\ AcksOf(id, ks) = {}
  BY DEF FramesOf, AcksOf
<1>2. QED BY <1>1, FS_EmptySet

-----------------------------------------------------------------------------
\* What the session's state is made of; a page has been seen at least once,
\* and no document counts more changes than were seen.
ScreencastTyped ==
    /\ stream \in StreamState
    /\ frames \in Seq(Frame) /\ acks \in Seq(Nat)
    /\ view \in 1..MaxView /\ generation \in 0..view

\* The inductive invariant.
ScreencastInv == ScreencastTyped /\ ScreencastTypeOK /\ WindowIsExact

\* What the window counts, by the places of the frames and of the answers.
OnTheWay(id, fs, ks) == Cardinality(FramesOf(id, fs)) + Cardinality(AcksOf(id, ks))

LEMMA Counted ==
    /\ frames \in Seq(Frame) /\ acks \in Seq(Nat)
         => (WindowIsExact <=>
               (stream.id # 0 => /\ stream.inFlight = OnTheWay(stream.id, frames, acks)
                                 /\ stream.inFlight <= 2))
    /\ frames' \in Seq(Frame) /\ acks' \in Seq(Nat)
         => (WindowIsExact' <=>
               (stream'.id # 0 => /\ stream'.inFlight = OnTheWay(stream'.id, frames', acks')
                                  /\ stream'.inFlight <= 2))
<1>1. ASSUME frames \in Seq(Frame), acks \in Seq(Nat)
      PROVE  DOMAIN frames = 1..Len(frames) /\ DOMAIN acks = 1..Len(acks)
  BY <1>1
<1>2. ASSUME frames' \in Seq(Frame), acks' \in Seq(Nat)
      PROVE  DOMAIN frames' = 1..Len(frames') /\ DOMAIN acks' = 1..Len(acks')
  BY <1>2
<1>3. QED
  BY <1>1, <1>2 DEF WindowIsExact, On, Unanswered, Window, OnTheWay, FramesOf, AcksOf

\* One more frame on its way, one shown and answered, one answer heard.
LEMMA WayOfFrames ==
    ASSUME NEW fs \in Seq(Frame), NEW ks \in Seq(Nat), NEW id \in Nat
    PROVE  /\ OnTheWay(id, fs, ks) \in Nat
           /\ \A f \in Frame : OnTheWay(id, Append(fs, f), ks)
                = OnTheWay(id, fs, ks) + (IF f.id = id THEN 1 ELSE 0)
           /\ fs # <<>> => OnTheWay(id, Tail(fs), Append(ks, Head(fs).id)) = OnTheWay(id, fs, ks)
           /\ ks # <<>> => OnTheWay(id, fs, ks)
                = OnTheWay(id, fs, Tail(ks)) + (IF Head(ks) = id THEN 1 ELSE 0)
<1>1. PICK d \in Frame : d = [id |-> 0, view |-> 0]
  BY DEF Frame
<1>2. /\ Cardinality(FramesOf(id, fs)) \in Nat
      /\ \A f \in Frame : Cardinality(FramesOf(id, Append(fs, f)))
           = Cardinality(FramesOf(id, fs)) + (IF f.id = id THEN 1 ELSE 0)
  BY <1>1, FramesGrow
<1>3. /\ Cardinality(AcksOf(id, ks)) \in Nat
      /\ \A a \in Nat : Cardinality(AcksOf(id, Append(ks, a)))
           = Cardinality(AcksOf(id, ks)) + (IF a = id THEN 1 ELSE 0)
  BY AcksGrow
<1>4. fs # <<>> => /\ Cardinality(FramesOf(id, fs))
                        = Cardinality(FramesOf(id, Tail(fs))) + (IF Head(fs).id = id THEN 1 ELSE 0)
                   /\ Cardinality(FramesOf(id, Tail(fs))) \in Nat
                   /\ Head(fs).id \in Nat
  <2> SUFFICES ASSUME fs # <<>>
               PROVE  /\ Cardinality(FramesOf(id, fs))
                        = Cardinality(FramesOf(id, Tail(fs))) + (IF Head(fs).id = id THEN 1 ELSE 0)
                      /\ Cardinality(FramesOf(id, Tail(fs))) \in Nat
                      /\ Head(fs).id \in Nat
    OBVIOUS
  <2>1. Tail(fs) \in Seq(Frame) /\ Head(fs) \in Frame
    OBVIOUS
  <2>2. Cardinality(FramesOf(id, Tail(fs))) \in Nat
    BY <1>1, <2>1, FramesGrow
  <2>3. QED BY <2>1, <2>2, FramesLeave DEF Frame
<1>5. ks # <<>> => /\ Cardinality(AcksOf(id, ks))
                        = Cardinality(AcksOf(id, Tail(ks))) + (IF Head(ks) = id THEN 1 ELSE 0)
                   /\ Cardinality(AcksOf(id, Tail(ks))) \in Nat
  <2> SUFFICES ASSUME ks # <<>>
               PROVE  /\ Cardinality(AcksOf(id, ks))
                           = Cardinality(AcksOf(id, Tail(ks))) + (IF Head(ks) = id THEN 1 ELSE 0)
                      /\ Cardinality(AcksOf(id, Tail(ks))) \in Nat
    OBVIOUS
  <2>1. Tail(ks) \in Seq(Nat)
    OBVIOUS
  <2>2. Cardinality(AcksOf(id, Tail(ks))) \in Nat
    BY <2>1, AcksGrow
  <2>3. QED BY <2>2, AcksLeave
<1>6. /\ OnTheWay(id, fs, ks) \in Nat
      /\ \A f \in Frame : OnTheWay(id, Append(fs, f), ks)
           = OnTheWay(id, fs, ks) + (IF f.id = id THEN 1 ELSE 0)
  BY <1>2, <1>3 DEF OnTheWay
<1>7. fs # <<>> => OnTheWay(id, Tail(fs), Append(ks, Head(fs).id)) = OnTheWay(id, fs, ks)
  <2> SUFFICES ASSUME fs # <<>>
               PROVE  OnTheWay(id, Tail(fs), Append(ks, Head(fs).id)) = OnTheWay(id, fs, ks)
    OBVIOUS
  <2>1. PICK a \in Nat : a = Head(fs).id
    BY <1>4
  <2>2. /\ Cardinality(AcksOf(id, Append(ks, a)))
             = Cardinality(AcksOf(id, ks)) + (IF a = id THEN 1 ELSE 0)
        /\ Cardinality(FramesOf(id, fs))
             = Cardinality(FramesOf(id, Tail(fs))) + (IF a = id THEN 1 ELSE 0)
        /\ Cardinality(FramesOf(id, Tail(fs))) \in Nat
    BY <1>3, <1>4, <2>1
  <2>3. QED BY <1>2, <1>3, <2>1, <2>2 DEF OnTheWay
<1>8. ks # <<>> => OnTheWay(id, fs, ks)
                     = OnTheWay(id, fs, Tail(ks)) + (IF Head(ks) = id THEN 1 ELSE 0)
  BY <1>2, <1>3, <1>5 DEF OnTheWay
<1>9. QED BY <1>6, <1>7, <1>8

\* A step that leaves the stream's number, its count and the queues as they
\* are, or turns the screencast off.
LEMMA QueuesStay ==
    ASSUME ScreencastInv, ScreencastTyped', ScreencastTypeOK',
           frames' = frames, acks' = acks,
           \/ stream'.id = 0
           \/ stream'.id = stream.id /\ stream'.inFlight = stream.inFlight
    PROVE  ScreencastInv'
<1>1. frames \in Seq(Frame) /\ acks \in Seq(Nat) /\ WindowIsExact
  BY DEF ScreencastInv, ScreencastTyped
<1>2. WindowIsExact'
  BY <1>1, Counted
<1>3. QED BY <1>2 DEF ScreencastInv

\* A frame is captured: one more on its way, and one more counted.
LEMMA CaptureStep ==
    ASSUME ScreencastTyped, ScreencastTypeOK, NEW s \in StreamState, s.id # 0,
           s.inFlight = OnTheWay(s.id, frames, acks), s.inFlight < 2,
           Capture(s), UNCHANGED wire,
           view' \in 1..MaxView, generation' \in 0..view', running' \in BOOLEAN,
           streamCount' \in streamCount..MaxStreams, s.id <= streamCount'
    PROVE  ScreencastInv'
<1>1. /\ s.id \in Nat /\ s.inFlight \in Nat /\ view' \in Nat /\ generation' \in Nat
      /\ frames \in Seq(Frame) /\ acks \in Seq(Nat)
  BY DEF StreamState, ScreencastTyped
<1>2. PICK f \in Frame : f = [id |-> s.id, view |-> view']
  BY <1>1 DEF Frame
<1>3. f.id = s.id /\ f.view = view'
  BY <1>2
<1>4. /\ frames' = Append(frames, f) /\ acks' = acks /\ shown' = shown
      /\ prepared' = running' /\ followed' = TRUE
  BY <1>2 DEF Capture, wire
<1>5. stream' = Captured(s)
  BY DEF Capture
<1>6. stream' \in StreamState /\ stream'.id = s.id /\ stream'.inFlight = s.inFlight + 1
  <2>1. PICK n \in Nat, g \in Nat : n = s.inFlight + 1 /\ g = generation'
    BY <1>1
  <2>2. stream' = [s EXCEPT !.inFlight = n, !.observed = g, !.pending = FALSE]
    BY <1>5, <2>1 DEF Captured
  <2>3. stream' \in StreamState /\ stream'.id = s.id /\ stream'.inFlight = n
    <3>1. stream' = [id |-> s.id, nth |-> s.nth, tries |-> s.tries, inFlight |-> n,
                     observed |-> g, pending |-> FALSE]
      BY <2>2 DEF StreamState
    <3>2. QED BY <3>1 DEF StreamState
  <2>4. QED BY <2>1, <2>3
<1>7. ScreencastTyped'
  BY <1>1, <1>4, <1>6 DEF ScreencastTyped
<1>8. ScreencastTypeOK'
  <2>1. \A i \in DOMAIN frames : frames[i].id \in 1..streamCount /\ frames[i].view \in 1..MaxView
    BY DEF ScreencastTypeOK
  <2>2. streamCount \in Nat /\ streamCount' \in Nat /\ streamCount <= streamCount'
    BY ScreencastAssumption DEF ScreencastTypeOK
  <2>3. \A i \in DOMAIN frames' : (i \in DOMAIN frames /\ frames'[i] = frames[i]) \/ frames'[i] = f
    BY <1>1, <1>4
  <2>4. \A i \in DOMAIN frames' : frames'[i].id \in 1..streamCount' /\ frames'[i].view \in 1..MaxView
    BY <1>1, <1>3, <2>1, <2>2, <2>3
  <2>5. \A i \in DOMAIN acks' : acks'[i] \in 1..streamCount'
    BY <1>4, <2>2 DEF ScreencastTypeOK
  <2>6. QED BY <1>1, <1>4, <1>6, <2>2, <2>4, <2>5, ScreencastAssumption DEF ScreencastTypeOK
<1>9. OnTheWay(s.id, frames', acks') = OnTheWay(s.id, frames, acks) + 1
  BY <1>1, <1>3, <1>4, WayOfFrames
<1>10. WindowIsExact'
  <2>1. frames' \in Seq(Frame) /\ acks' \in Seq(Nat)
    BY <1>7 DEF ScreencastTyped
  <2>2. s.inFlight + 1 <= 2
    BY <1>1
  <2>3. QED BY <1>6, <1>9, <2>1, <2>2, Counted
<1>11. QED BY <1>7, <1>8, <1>10 DEF ScreencastInv

\* An attempt at a frame for the stream the session has.
LEMMA QueueStep ==
    ASSUME ScreencastInv, NEW s \in StreamState,
           s.id = stream.id, s.inFlight = stream.inFlight,
           NEW scene \in BOOLEAN, NEW follows \in BOOLEAN, Queue(s, scene, follows),
           view' \in 1..MaxView, generation' \in 0..view', running' \in BOOLEAN,
           streamCount' = streamCount, UNCHANGED wire
    PROVE  ScreencastInv'
<1>1. Tried(s) \in StreamState /\ Tried(s).id = s.id /\ Tried(s).inFlight = s.inFlight
  BY DEF Tried, StreamState
<1>2. stream.id \in 0..streamCount /\ streamCount \in 0..MaxStreams
  BY DEF ScreencastInv, ScreencastTypeOK
<1>3. ASSUME NEW t \in StreamState, t.id = s.id, t.inFlight = s.inFlight,
             NEW after \in BOOLEAN, NEW still \in BOOLEAN, Skip(t, after, still)
      PROVE  ScreencastInv'
  <2>1. frames' = frames /\ acks' = acks /\ stream' = t /\ prepared' = after /\ followed' = still
    BY <1>3 DEF Skip, wire
  <2>2. ScreencastTyped' /\ ScreencastTypeOK'
    BY <1>2, <1>3, <2>1, ScreencastAssumption DEF ScreencastInv, ScreencastTyped, ScreencastTypeOK, wire
  <2>3. QED BY <1>3, <2>1, <2>2, QueuesStay
<1>4. ASSUME s.id # 0, s.inFlight < Window, Capture(Tried(s)) PROVE ScreencastInv'
  <2>1. s.inFlight = OnTheWay(s.id, frames, acks) /\ s.inFlight < 2
    BY <1>4, Counted DEF ScreencastInv, ScreencastTyped, Window
  <2>2. ScreencastTyped /\ ScreencastTypeOK
    BY DEF ScreencastInv
  <2>3. streamCount' \in streamCount..MaxStreams /\ s.id <= streamCount'
    BY <1>2
  <2>4. PICK t \in StreamState : t = Tried(s)
    BY <1>1
  <2>5. QED BY <1>1, <1>4, <2>1, <2>2, <2>3, <2>4, CaptureStep
<1>5. ASSUME Fails(Tried(s), scene, follows) PROVE ScreencastInv'
  <2>1. PICK t \in StreamState : t = Tried(s)
    BY <1>1
  <2>2. PICK after \in {scene, running'} : Skip(t, after, follows /\ StillSeen(t, scene, after))
    BY <1>5, <2>1 DEF Fails
  <2>3. after \in BOOLEAN
    BY <2>2
  <2>4. PICK still \in BOOLEAN : still = (follows /\ StillSeen(t, scene, after))
    OBVIOUS
  <2>5. Skip(t, after, still)
    BY <2>2, <2>4
  <2>6. QED BY <1>1, <1>3, <2>1, <2>3, <2>5
<1>6. \/ Skip(s, scene, follows)
      \/ Skip(Tried(s), scene, follows)
      \/ s.id # 0 /\ s.inFlight < Window /\ Capture(Tried(s))
      \/ Fails(Tried(s), scene, follows)
  BY DEF Queue
<1>7. ASSUME Skip(Tried(s), scene, follows) PROVE ScreencastInv'
  <2>1. PICK t \in StreamState : t = Tried(s)
    BY <1>1
  <2>2. QED BY <1>1, <1>3, <1>7, <2>1
<1>8. QED BY <1>3, <1>4, <1>5, <1>6, <1>7

\* A stream of its own starts with its first frame.
LEMMA StartStep ==
    ASSUME ScreencastInv, NEW nth \in Samplings, Start(nth)
    PROVE  ScreencastInv'
<1>1. PICK s : s = Started(streamCount', nth)
  OBVIOUS
<1>2. streamCount \in Nat /\ streamCount' = streamCount + 1 /\ streamCount' \in streamCount..MaxStreams
  BY ScreencastAssumption DEF ScreencastInv, ScreencastTypeOK, Start
<1>3. s \in StreamState /\ s.id = streamCount + 1 /\ s.inFlight = 0
  <2>1. s = [id |-> streamCount + 1, nth |-> nth, tries |-> 0, inFlight |-> 0,
             observed |-> 0, pending |-> FALSE]
    BY <1>1, <1>2 DEF Started, Off
  <2>2. nth \in Nat \ {0}
    BY ScreencastAssumption
  <2>3. QED BY <1>2, <2>1, <2>2 DEF StreamState
<1>4. frames \in Seq(Frame) /\ acks \in Seq(Nat)
  BY DEF ScreencastInv, ScreencastTyped
<1>5. /\ \A i \in 1..Len(frames) : frames[i].id # s.id
      /\ \A i \in 1..Len(acks) : acks[i] # s.id
  BY <1>2, <1>3, <1>4 DEF ScreencastInv, ScreencastTypeOK
<1>6. OnTheWay(s.id, frames, acks) = 0
  BY <1>4, <1>5, NoneYet DEF OnTheWay
<1>7. /\ Capture(s) /\ UNCHANGED wire
      /\ view' \in 1..MaxView /\ generation' \in 0..view' /\ running' \in BOOLEAN
  BY <1>1 DEF Start, ScreencastInv, ScreencastTyped, ScreencastTypeOK, wire
<1>8. s.inFlight = OnTheWay(s.id, frames, acks) /\ s.inFlight < 2 /\ s.id # 0 /\ s.id <= streamCount'
  BY <1>2, <1>3, <1>6
<1>9. QED BY <1>2, <1>3, <1>7, <1>8, CaptureStep DEF ScreencastInv

\* An acknowledgement comes in: of this stream, which counts it, or of an
\* older one.
LEMMA AcknowledgeStep == ASSUME ScreencastInv, Acknowledge PROVE ScreencastInv'
<1>1. /\ acks # <<>> /\ acks \in Seq(Nat) /\ frames \in Seq(Frame) /\ stream \in StreamState
      /\ acks' = Tail(acks) /\ frames' = frames
  BY DEF Acknowledge, ScreencastInv, ScreencastTyped
<1>2. PICK a \in Nat : a = Head(acks)
  BY <1>1
<1>3. /\ stream' \in StreamState /\ stream'.id = stream.id
      /\ stream'.inFlight = IF stream.id # 0 /\ stream.id = a /\ stream.inFlight > 0
                            THEN stream.inFlight - 1 ELSE stream.inFlight
  <2>1. stream' = IF stream.id # 0 /\ stream.id = a /\ stream.inFlight > 0
                  THEN [stream EXCEPT !.inFlight = stream.inFlight - 1] ELSE stream
    BY <1>1, <1>2 DEF Acknowledge, Acknowledged, On
  <2>2. CASE stream.id # 0 /\ stream.id = a /\ stream.inFlight > 0
    <3>1. PICK n \in Nat : n = stream.inFlight - 1
      BY <1>1, <2>2 DEF StreamState
    <3>2. stream' = [stream EXCEPT !.inFlight = n]
      BY <2>1, <2>2, <3>1
    <3>3. stream' \in StreamState /\ stream'.id = stream.id /\ stream'.inFlight = n
      <4>1. stream' = [id |-> stream.id, nth |-> stream.nth, tries |-> stream.tries,
                       inFlight |-> n, observed |-> stream.observed,
                       pending |-> stream.pending]
        BY <1>1, <3>2 DEF StreamState
      <4>2. QED BY <1>1, <4>1 DEF StreamState
    <3>4. QED BY <2>2, <3>1, <3>3
  <2>3. QED BY <1>1, <2>1, <2>2
<1>4. ScreencastTyped'
  BY <1>1, <1>3 DEF Acknowledge, ScreencastInv, ScreencastTyped, page
<1>5. ScreencastTypeOK'
  <2>1. \A i \in DOMAIN acks' : acks'[i] \in 1..streamCount'
    BY <1>1 DEF Acknowledge, ScreencastInv, ScreencastTypeOK, page
  <2>2. \A i \in DOMAIN frames' : frames'[i].id \in 1..streamCount' /\ frames'[i].view \in 1..MaxView
    BY <1>1 DEF Acknowledge, ScreencastInv, ScreencastTypeOK, page
  <2>3. QED BY <1>3, <2>1, <2>2 DEF Acknowledge, ScreencastInv, ScreencastTypeOK, page
<1>6. stream.id \in Nat /\ stream.inFlight \in Nat
  BY <1>1 DEF StreamState
<1>7. /\ OnTheWay(stream.id, frames, acks)
           = OnTheWay(stream.id, frames', acks') + (IF a = stream.id THEN 1 ELSE 0)
      /\ OnTheWay(stream.id, frames', acks') \in Nat
  <2>1. acks' \in Seq(Nat)
    BY <1>1
  <2>2. QED BY <1>1, <1>2, <1>6, <2>1, WayOfFrames
<1>8. stream.id # 0 =>
        stream.inFlight = OnTheWay(stream.id, frames, acks) /\ stream.inFlight <= 2
  BY <1>1, Counted DEF ScreencastInv
<1>9. stream'.id # 0 =>
        stream'.inFlight = OnTheWay(stream'.id, frames', acks') /\ stream'.inFlight <= 2
  BY <1>3, <1>6, <1>7, <1>8
<1>10. WindowIsExact'
  BY <1>4, <1>9, Counted DEF ScreencastTyped
<1>11. QED BY <1>4, <1>5, <1>10 DEF ScreencastInv

\* The client shows a frame and answers it: it stays counted.
LEMMA ShowStep == ASSUME ScreencastInv, Show PROVE ScreencastInv'
<1>1. /\ frames # <<>> /\ frames \in Seq(Frame) /\ acks \in Seq(Nat)
      /\ stream' = stream /\ frames' = Tail(frames)
  BY DEF Show, ScreencastInv, ScreencastTyped
<1>2. PICK f \in Frame : f = Head(frames)
  BY <1>1
<1>3. f.id \in Nat /\ acks' = Append(acks, f.id) /\ f.id \in 1..streamCount /\ f.view \in 1..MaxView
      /\ shown' = f.view
  <2>1. 1 \in DOMAIN frames /\ f = frames[1]
    BY <1>1, <1>2
  <2>2. QED BY <1>2, <2>1 DEF Show, Frame, ScreencastInv, ScreencastTypeOK
<1>4. ScreencastTyped'
  BY <1>1, <1>3 DEF Show, ScreencastInv, ScreencastTyped, page
<1>5. ScreencastTypeOK'
  <2>1. \A i \in DOMAIN acks' : acks'[i] \in 1..streamCount'
    <3>1. streamCount' = streamCount /\ \A i \in DOMAIN acks : acks[i] \in 1..streamCount
      BY DEF Show, ScreencastInv, ScreencastTypeOK
    <3>2. \A i \in DOMAIN acks' : acks'[i] = f.id \/ (i \in DOMAIN acks /\ acks'[i] = acks[i])
      BY <1>1, <1>3
    <3>3. QED BY <1>3, <3>1, <3>2
  <2>2. \A i \in DOMAIN frames' : frames'[i].id \in 1..streamCount' /\ frames'[i].view \in 1..MaxView
    BY <1>1 DEF Show, ScreencastInv, ScreencastTypeOK, page
  <2>3. shown' \in 0..MaxView
    BY <1>3, ScreencastAssumption
  <2>4. UNCHANGED <<page, stream, streamCount, followed>> /\ ScreencastTypeOK
    BY DEF Show, ScreencastInv
  <2>5. QED BY <2>1, <2>2, <2>3, <2>4 DEF ScreencastTypeOK, page
<1>6. stream.id \in Nat
  BY <1>1 DEF StreamState, ScreencastInv, ScreencastTyped
<1>7. OnTheWay(stream.id, frames', acks') = OnTheWay(stream.id, frames, acks)
  BY <1>1, <1>2, <1>3, <1>6, WayOfFrames
<1>8. WindowIsExact'
  <2>1. frames' \in Seq(Frame) /\ acks' \in Seq(Nat)
    BY <1>4 DEF ScreencastTyped
  <2>2. WindowIsExact
    BY DEF ScreencastInv
  <2>3. QED BY <1>1, <1>7, <2>1, <2>2, Counted
<1>9. QED BY <1>4, <1>5, <1>8 DEF ScreencastInv

\* Every step keeps the invariant.
LEMMA ScreencastStep == ScreencastInv /\ [ScreencastNext]_screencastVars => ScreencastInv'
<1> SUFFICES ASSUME ScreencastInv, [ScreencastNext]_screencastVars PROVE ScreencastInv'
  OBVIOUS
<1> USE ScreencastAssumption
<1>1. /\ ScreencastTyped /\ ScreencastTypeOK /\ stream \in StreamState
  BY DEF ScreencastInv, ScreencastTyped
<1>2. Off \in StreamState /\ Off.id = 0
  BY DEF Off, StreamState
<1>3. ASSUME StartRefused \/ StartFails \/ Stop PROVE ScreencastInv'
  <2>1. /\ stream' \in {stream, Off} /\ frames' = frames /\ acks' = acks
        /\ streamCount' \in streamCount..MaxStreams
        /\ prepared' \in {prepared, running}
        /\ UNCHANGED <<view, generation, running, shown, followed>>
    BY <1>1, <1>3 DEF StartRefused, StartFails, Stop, page, wire, ScreencastTypeOK
  <2>2. ScreencastTyped' /\ ScreencastTypeOK'
    BY <1>1, <1>2, <2>1 DEF ScreencastTyped, ScreencastTypeOK
  <2>3. QED BY <1>2, <2>1, <2>2, QueuesStay
<1>4. ASSUME NEW changes \in {0, 1}, Runs(changes)
      PROVE  /\ view' \in 1..MaxView /\ generation' \in 0..view' /\ running' \in BOOLEAN
             /\ Scenes \subseteq BOOLEAN
             /\ \A scene \in BOOLEAN : FollowedStill(changes, scene) \in BOOLEAN
  <2>1. /\ view' \in 1..MaxView /\ generation' \in 0..view'
    BY <1>1, <1>4 DEF Runs, ScreencastTyped
  <2>2. running' \in BOOLEAN /\ prepared \in BOOLEAN
    BY <1>1, <1>4 DEF Runs, ScreencastTypeOK
  <2>3. Scenes \subseteq BOOLEAN
    BY <2>2 DEF Scenes
  <2>4. QED BY <2>1, <2>2, <2>3 DEF FollowedStill
<1>5. ASSUME NEW changes \in {0, 1}, Command(changes) PROVE ScreencastInv'
  <2>1. Runs(changes) /\ streamCount' = streamCount /\ UNCHANGED wire
    BY <1>5 DEF Command
  <2>2. PICK scene \in Scenes : Queue(stream, scene, FollowedStill(changes, scene))
    BY <1>5 DEF Command
  <2>3. /\ scene \in BOOLEAN /\ FollowedStill(changes, scene) \in BOOLEAN
        /\ view' \in 1..MaxView /\ generation' \in 0..view' /\ running' \in BOOLEAN
    BY <1>4, <2>1, <2>2
  <2>4. PICK still \in BOOLEAN : still = FollowedStill(changes, scene)
    BY <2>3
  <2>5. Queue(stream, scene, still)
    BY <2>2, <2>4
  <2>6. QED BY <1>1, <2>1, <2>3, <2>5, QueueStep
<1>6. ASSUME NEW changes \in {0, 1}, Activity(changes) PROVE ScreencastInv'
  <2>1. Runs(changes) /\ UNCHANGED <<streamCount, wire>>
    BY <1>6 DEF Activity
  <2>2. PICK scene \in Scenes : Skip(stream, scene, FollowedStill(changes, scene))
    BY <1>6 DEF Activity
  <2>3. /\ scene \in BOOLEAN /\ FollowedStill(changes, scene) \in BOOLEAN
        /\ view' \in 1..MaxView /\ generation' \in 0..view' /\ running' \in BOOLEAN
    BY <1>4, <2>1, <2>2
  <2>4. /\ stream' = stream /\ frames' = frames /\ acks' = acks /\ shown' = shown
        /\ streamCount' = streamCount /\ prepared' \in BOOLEAN /\ followed' \in BOOLEAN
    BY <2>1, <2>2, <2>3 DEF Skip, wire
  <2>5. ScreencastTyped' /\ ScreencastTypeOK'
    BY <1>1, <2>3, <2>4 DEF ScreencastTyped, ScreencastTypeOK
  <2>6. QED BY <2>4, <2>5, QueuesStay
<1>7. ASSUME Rendered PROVE ScreencastInv'
  <2>1. PICK scene \in {running, FALSE} : Skip(stream, scene, FollowedStill(0, scene))
    BY <1>7 DEF Rendered
  <2>2. FollowedStill(0, scene) \in BOOLEAN /\ scene \in BOOLEAN
    BY <1>1, <2>1 DEF FollowedStill, ScreencastTypeOK
  <2>3. /\ stream' = stream /\ frames' = frames /\ prepared' \in BOOLEAN /\ followed' \in BOOLEAN
        /\ UNCHANGED <<view, generation, running, streamCount, acks, shown>>
    BY <1>7, <2>1, <2>2 DEF Rendered, Skip, wire
  <2>4. ScreencastTyped' /\ ScreencastTypeOK'
    BY <1>1, <2>3 DEF ScreencastTyped, ScreencastTypeOK
  <2>5. QED BY <2>3, <2>4, QueuesStay
<1>8. ASSUME Resize \/ Navigate PROVE ScreencastInv'
  <2>1. /\ Queue(stream, FALSE, FALSE)
        /\ view' \in 1..MaxView /\ generation' \in 0..view' /\ running' \in BOOLEAN
        /\ streamCount' = streamCount /\ UNCHANGED wire
    <3>1. view \in 1..MaxView /\ generation \in 0..view /\ running \in BOOLEAN
      BY <1>1 DEF ScreencastTyped, ScreencastTypeOK
    <3>2. /\ Queue(stream, FALSE, FALSE)
          /\ view < MaxView /\ view' = view + 1 /\ running' \in {running, TRUE, FALSE}
          /\ generation' \in {generation, 0, 1}
          /\ streamCount' = streamCount /\ UNCHANGED wire
      BY <1>8 DEF Resize, Navigate
    <3>3. view' \in 1..MaxView /\ generation' \in 0..view'
      BY <3>1, <3>2
    <3>4. QED BY <3>1, <3>2, <3>3
  <2>2. QED BY <1>1, <2>1, QueueStep
<1>9. ASSUME Animate \/ AnimationEnds \/ Suspended \/ Loaded PROVE ScreencastInv'
  <2>1. /\ stream' = stream /\ frames' = frames /\ acks' = acks /\ shown' = shown
        /\ streamCount' = streamCount
        /\ view' \in 1..MaxView /\ generation' \in 0..view'
        /\ running' \in BOOLEAN /\ prepared' \in BOOLEAN /\ followed' \in BOOLEAN
    <3>1. /\ view \in 1..MaxView /\ generation \in 0..view
          /\ running \in BOOLEAN /\ prepared \in BOOLEAN /\ followed \in BOOLEAN
      BY <1>1 DEF ScreencastTyped, ScreencastTypeOK
    <3>2. /\ stream' = stream /\ frames' = frames /\ acks' = acks /\ shown' = shown
          /\ streamCount' = streamCount
          /\ running' \in {running, TRUE, FALSE}
          /\ prepared' \in {prepared, FALSE} /\ followed' \in {followed, FALSE}
      BY <1>9, <3>1 DEF Animate, AnimationEnds, Suspended, Loaded, Skip, wire
    <3>3. \/ view < MaxView /\ view' = view + 1 /\ generation' \in {generation, generation + 1}
          \/ view' = view /\ generation' \in {generation, 0}
      BY <1>9 DEF Animate, AnimationEnds, Suspended, Loaded
    <3>4. view' \in 1..MaxView /\ generation' \in 0..view'
      BY <3>1, <3>3
    <3>5. QED BY <3>1, <3>2, <3>4
  <2>2. ScreencastTyped' /\ ScreencastTypeOK'
    BY <1>1, <2>1 DEF ScreencastTyped, ScreencastTypeOK
  <2>3. QED BY <2>1, <2>2, QueuesStay
<1>10. ASSUME Tick PROVE ScreencastInv'
  <2>1. /\ view' \in 1..MaxView /\ generation' \in 0..view' /\ running' \in BOOLEAN
        /\ streamCount' = streamCount /\ UNCHANGED wire
    BY <1>1, <1>10 DEF Tick, ScreencastTyped, ScreencastTypeOK
  <2>2. /\ prepared \in BOOLEAN /\ followed \in BOOLEAN /\ CountRead \in BOOLEAN
    BY <1>1 DEF ScreencastTypeOK, CountRead
  <2>3. CASE Noticed.pending
    <3>1. PICK s : s = Noticed
      OBVIOUS
    <3>2. s \in StreamState /\ s.id = stream.id /\ s.inFlight = stream.inFlight
      <4>1. PICK g \in Nat : g = generation
        BY <1>1 DEF ScreencastTyped
      <4>2. s = stream \/ s = [stream EXCEPT !.observed = g, !.pending = TRUE]
        BY <3>1, <4>1 DEF Noticed
      <4>4. CASE s = [stream EXCEPT !.observed = g, !.pending = TRUE]
        <5>1. s = [id |-> stream.id, nth |-> stream.nth, tries |-> stream.tries,
                   inFlight |-> stream.inFlight, observed |-> g, pending |-> TRUE]
          BY <1>1, <4>4 DEF StreamState
        <5>2. QED BY <1>1, <5>1 DEF StreamState
      <4>5. QED BY <1>1, <4>2, <4>4
    <3>3. PICK c \in BOOLEAN : c = CountRead
      BY <2>2
    <3>4. Queue(s, prepared, c)
      BY <1>10, <2>3, <3>1, <3>3 DEF Tick
    <3>5. QED BY <2>1, <2>2, <3>2, <3>4, QueueStep
  <2>4. CASE ~Noticed.pending
    <3>1. stream' = stream /\ frames' = frames /\ prepared' = prepared /\ followed' = followed
      BY <1>10, <2>4 DEF Tick, Skip
    <3>2. ScreencastTyped' /\ ScreencastTypeOK'
      BY <1>1, <2>1, <3>1 DEF ScreencastTyped, ScreencastTypeOK, wire
    <3>3. QED BY <2>1, <3>1, <3>2, QueuesStay DEF wire
  <2>5. QED BY <2>3, <2>4
<1>11. ASSUME UNCHANGED screencastVars PROVE ScreencastInv'
  <2>1. /\ stream' = stream /\ frames' = frames /\ acks' = acks
        /\ ScreencastTyped' /\ ScreencastTypeOK'
    BY <1>1, <1>11 DEF screencastVars, page, wire, ScreencastTyped, ScreencastTypeOK
  <2>2. QED BY <2>1, QueuesStay
<1>12. QED BY <1>3, <1>5, <1>6, <1>7, <1>8, <1>9, <1>10, <1>11,
             StartStep, AcknowledgeStep, ShowStep
   DEF ScreencastNext

\* The window never counts a frame of another stream nor forgets one of its
\* own, however many streams come and go and however late an answer comes.
THEOREM ScreencastWindow == ScreencastSpec => [](ScreencastTypeOK /\ WindowIsExact)
<1>1. ScreencastInit => ScreencastInv
  <2> SUFFICES ASSUME ScreencastInit PROVE ScreencastInv
    OBVIOUS
  <2>1. ScreencastTyped
    BY ScreencastAssumption DEF ScreencastInit, ScreencastTyped, Off, StreamState
  <2>2. ScreencastTypeOK
    <3>1. stream.id = 0 /\ DOMAIN frames = {} /\ DOMAIN acks = {} /\ generation \in {0, 1}
      BY DEF ScreencastInit, Off
    <3>2. 1 \in 0..MaxView /\ 0 \in 0..MaxView /\ 0 \in 0..MaxStreams
      BY ScreencastAssumption
    <3>3. generation \in 0..MaxView
      BY <3>1, ScreencastAssumption
    <3>4. running \in BOOLEAN /\ prepared \in BOOLEAN /\ followed \in BOOLEAN
      BY DEF ScreencastInit
    <3>5. QED BY <3>1, <3>2, <3>3, <3>4 DEF ScreencastInit, ScreencastTypeOK
  <2>3. WindowIsExact
    BY DEF ScreencastInit, WindowIsExact, On, Off
  <2>4. QED BY <2>1, <2>2, <2>3 DEF ScreencastInv
<1>2. ScreencastInv => ScreencastTypeOK /\ WindowIsExact
  BY DEF ScreencastInv
<1>3. QED BY <1>1, <1>2, ScreencastStep, PTL DEF ScreencastSpec

-----------------------------------------------------------------------------
(* Sets of numbers, and queues without one of their elements.               *)

\* Every set of natural numbers that has one has a least one.
LEMMA LeastOf ==
    ASSUME NEW T, T \subseteq Nat, T # {}
    PROVE  \E m \in T : \A y \in T : m <= y
<1>1. IsWellFoundedOn(OpToRel(<, Nat), Nat)
  BY NatLessThanWellFounded
<1>2. \E m \in T : \A y \in T : ~(<<y, m>> \in OpToRel(<, Nat))
  BY <1>1, WFMin
<1>3. \A y, m \in Nat : y < m => <<y, m>> \in OpToRel(<, Nat)
  BY DEF OpToRel
<1>4. \E m \in T : \A y \in T : ~(y < m)
  BY <1>2, <1>3
<1>5. QED BY ONLY <1>4, T \subseteq Nat

\* The equation of the recursion in Without, up to n.
Keeping(f, s, x, n) ==
    \A i \in 0..n :
        f[i] = IF i = 0 THEN <<>> ELSE IF s[i] = x THEN f[i - 1] ELSE Append(f[i - 1], s[i])

KeptUpTo(f, s, x, n) ==
    f = [i \in 0..n |->
           IF i = 0 THEN <<>> ELSE IF s[i] = x THEN f[i - 1] ELSE Append(f[i - 1], s[i])]

\* It has a solution.
LEMMA KeptExists ==
    ASSUME NEW s, NEW x, NEW n \in Nat
    PROVE  \E f : KeptUpTo(f, s, x, n)
<1> DEFINE T == {m \in Nat : ~ \E f : KeptUpTo(f, s, x, m)}
<1>1. SUFFICES ASSUME T # {} PROVE FALSE
  OBVIOUS
<1>2. PICK m \in T : \A y \in T : m <= y
  BY <1>1, LeastOf
<1>3. m # 0
  <2>1. SUFFICES ASSUME m = 0 PROVE FALSE
    OBVIOUS
  <2>2. PICK g : g = [i \in 0..0 |-> <<>>]
    OBVIOUS
  <2>3. KeptUpTo(g, s, x, 0)
    BY <2>2 DEF KeptUpTo
  <2>4. QED BY <1>2, <2>1, <2>3
<1>4. m - 1 \in Nat /\ m - 1 \notin T
  BY <1>2, <1>3
<1>5. PICK f : KeptUpTo(f, s, x, m - 1)
  BY <1>4
<1>6. PICK g : g = [i \in 0..m |-> IF i = m THEN (IF s[m] = x THEN f[m - 1] ELSE Append(f[m - 1], s[m]))
                                 ELSE f[i]]
  OBVIOUS
<1>7. KeptUpTo(g, s, x, m)
  <2>1. \A i \in 0..m : i # m => i \in 0..(m - 1) /\ i - 1 # m /\ (i # 0 => i - 1 \in 0..m)
    BY <1>2, <1>3
  <2>2. m \in 0..m /\ m - 1 \in 0..m /\ m - 1 # m
    BY <1>2, <1>3
  <2>3. \A i \in 0..m : i # m => g[i] = f[i]
    BY <1>6
  <2>4. \A i \in 0..(m - 1) : f[i] = IF i = 0 THEN <<>> ELSE IF s[i] = x THEN f[i - 1] ELSE Append(f[i - 1], s[i])
    BY <1>5 DEF KeptUpTo
  <2>5. \A i \in 0..m : g[i] = IF i = 0 THEN <<>> ELSE IF s[i] = x THEN g[i - 1] ELSE Append(g[i - 1], s[i])
    <3> TAKE i \in 0..m
    <3>1. CASE i = m
      BY <1>3, <1>6, <2>2, <2>3, <3>1
    <3>2. CASE i # m
      BY <2>1, <2>3, <2>4, <3>2
    <3>3. QED BY <3>1, <3>2
  <2>6. DOMAIN g = 0..m /\ g = [i \in 0..m |-> g[i]]
    BY <1>6
  <2>7. QED BY <2>5, <2>6 DEF KeptUpTo
<1>8. QED BY <1>2, <1>7

\* Without takes the last value of that solution.
LEMMA WithoutIs ==
    ASSUME NEW s, NEW x, Len(s) \in Nat
    PROVE  \E f : KeptUpTo(f, s, x, Len(s)) /\ Without(s, x) = f[Len(s)]
<1>1. \E f : KeptUpTo(f, s, x, Len(s))
  BY KeptExists
<1>2. QED BY <1>1 DEF Without, KeptUpTo

\* What Without returns: the others, in their order.
Increasing(s) == \A i, j \in 1..Len(s) : i < j => s[i] < s[j]
Elements(s) == {s[i] : i \in 1..Len(s)}

KeptSoFar(f, s, x, S, n) ==
    /\ f[n] \in Seq(S) /\ Len(f[n]) <= n
    /\ Elements(f[n]) = {s[i] : i \in 1..n} \ {x}
    /\ S \subseteq Int /\ Increasing(s) => Increasing(f[n])

LEMMA KeepsSoFar ==
    ASSUME NEW S, NEW s \in Seq(S), NEW x, NEW f, KeptUpTo(f, s, x, Len(s))
    PROVE  \A n \in 0..Len(s) : KeptSoFar(f, s, x, S, n)
<1> DEFINE T == {m \in 0..Len(s) : ~KeptSoFar(f, s, x, S, m)}
<1>1. SUFFICES ASSUME T # {} PROVE FALSE
  OBVIOUS
<1>2. PICK m \in T : \A y \in T : m <= y
  <2>1. T \subseteq Nat
    OBVIOUS
  <2>2. QED BY ONLY <1>1, <2>1, LeastOf
<1>3. \A i \in 0..Len(s) : f[i] = IF i = 0 THEN <<>> ELSE IF s[i] = x THEN f[i - 1] ELSE Append(f[i - 1], s[i])
  BY DEF KeptUpTo
<1>4. CASE m = 0
  <2>1. f[0] = <<>>
    <3>1. 0 \in 0..Len(s)
      OBVIOUS
    <3>2. QED BY <1>3, <3>1
  <2>2. KeptSoFar(f, s, x, S, 0)
    BY <2>1 DEF KeptSoFar, Elements, Increasing
  <2>3. QED BY <1>2, <1>4, <2>2
<1>5. CASE m # 0
  <2>1. m \in 1..Len(s) /\ m - 1 \in 0..Len(s) /\ m - 1 \notin T
    BY <1>2, <1>5
  <2>2. KeptSoFar(f, s, x, S, m - 1)
    BY <2>1
  <2>3. PICK g : g = f[m - 1]
    OBVIOUS
  <2>4. /\ g \in Seq(S) /\ Len(g) <= m - 1
        /\ Elements(g) = {s[i] : i \in 1..(m - 1)} \ {x}
        /\ S \subseteq Int /\ Increasing(s) => Increasing(g)
    BY <2>2, <2>3 DEF KeptSoFar
  <2>5. s[m] \in S
    BY <2>1
  <2>6. {s[i] : i \in 1..m} = {s[i] : i \in 1..(m - 1)} \cup {s[m]}
    BY <2>1
  <2>7. CASE s[m] = x
    <3>1. f[m] = g
      BY <1>3, <1>5, <2>1, <2>3, <2>7
    <3>2. {s[i] : i \in 1..m} \ {x} = {s[i] : i \in 1..(m - 1)} \ {x}
      BY <2>6, <2>7
    <3>3. KeptSoFar(f, s, x, S, m)
      <4>1. m - 1 <= m /\ m \in Nat
        BY <2>1
      <4>2. Len(g) \in Nat /\ Len(g) <= m
        BY <2>1, <2>4
      <4>3. QED BY <2>4, <2>1, <3>1, <3>2, <4>2 DEF KeptSoFar
    <3>4. QED BY <1>2, <3>3
  <2>8. CASE s[m] # x
    <3>1. f[m] = Append(g, s[m])
      BY <1>3, <1>5, <2>1, <2>3, <2>8
    <3>2. PICK h : h = Append(g, s[m])
      OBVIOUS
    <3>3. /\ h \in Seq(S) /\ Len(h) = Len(g) + 1 /\ h[Len(g) + 1] = s[m]
          /\ \A i \in 1..Len(g) : h[i] = g[i]
      BY <2>4, <2>5, <3>2
    <3>4. Elements(h) = Elements(g) \cup {s[m]}
      BY <2>4, <3>3 DEF Elements
    <3>5. Elements(h) = {s[i] : i \in 1..m} \ {x}
      BY <2>4, <2>6, <2>8, <3>4
    <3>6. ASSUME S \subseteq Int, Increasing(s) PROVE Increasing(h)
      <4>1. \A i \in 1..Len(g) : g[i] < s[m]
        <5> TAKE i \in 1..Len(g)
        <5>1. g[i] \in Elements(g)
          BY DEF Elements
        <5>2. PICK j \in 1..(m - 1) : g[i] = s[j]
          BY <2>4, <5>1
        <5>3. QED BY <2>1, <3>6, <5>2 DEF Increasing
      <4>2. Increasing(g)
        BY <2>4, <3>6
      <4>3. Len(g) \in Nat
        BY <2>4
      <4>4. s[m] \in Int
        BY <2>5, <3>6
      <4>5. ASSUME NEW i \in 1..Len(h), NEW j \in 1..Len(h), i < j PROVE h[i] < h[j]
        <5>1. i \in 1..Len(g) /\ h[i] = g[i]
          BY <3>3, <4>3, <4>5
        <5>2. CASE j = Len(g) + 1
          BY <3>3, <4>1, <4>3, <5>1, <5>2
        <5>3. CASE j # Len(g) + 1
          <6>1. j \in 1..Len(g) /\ h[j] = g[j]
            BY <3>3, <4>3, <5>3
          <6>2. QED BY <4>2, <4>5, <5>1, <6>1 DEF Increasing
        <5>4. QED BY <5>2, <5>3
      <4>6. QED BY <4>5 DEF Increasing
    <3>7. KeptSoFar(f, s, x, S, m)
      BY <2>1, <2>4, <3>1, <3>2, <3>3, <3>5, <3>6 DEF KeptSoFar
    <3>8. QED BY <1>2, <3>7
  <2>9. QED BY <2>7, <2>8
<1>6. QED BY <1>4, <1>5

LEMMA WithoutFacts ==
    ASSUME NEW S, NEW s \in Seq(S), NEW x
    PROVE  /\ Without(s, x) \in Seq(S) /\ Len(Without(s, x)) <= Len(s)
           /\ Elements(Without(s, x)) = Elements(s) \ {x}
           /\ S \subseteq Int /\ Increasing(s) => Increasing(Without(s, x))
<1>1. PICK f : KeptUpTo(f, s, x, Len(s)) /\ Without(s, x) = f[Len(s)]
  BY WithoutIs
<1>2. KeptSoFar(f, s, x, S, Len(s))
  BY <1>1, KeepsSoFar
<1>3. QED BY <1>1, <1>2 DEF KeptSoFar, Elements

-----------------------------------------------------------------------------
(* Bytes.                                                                  *)

HeldBy(f, hs) == UNION {{h} \X (1..f[h].len) : h \in hs}

\* Streams of bounded length hold finitely many bytes, each stream its own.
LEMMA HeldFacts ==
    ASSUME NEW f, NEW hs, IsFiniteSet(hs), NEW b \in Nat,
           \A h \in hs : f[h].len \in 0..b
    PROVE  /\ IsFiniteSet(HeldBy(f, hs)) /\ Cardinality(HeldBy(f, hs)) \in Nat
           /\ \A gs \in SUBSET hs :
                /\ Cardinality(HeldBy(f, gs)) \in Nat
                /\ Cardinality(HeldBy(f, hs)) = Cardinality(HeldBy(f, gs)) + Cardinality(HeldBy(f, hs \ gs))
<1>1. IsFiniteSet(hs \X (1..b))
  <2>1. IsFiniteSet(1..b)
    BY FS_Interval
  <2>2. QED BY <2>1, FS_Product
<1>2. ASSUME NEW gs \in SUBSET hs
      PROVE  IsFiniteSet(HeldBy(f, gs)) /\ Cardinality(HeldBy(f, gs)) \in Nat
  <2>1. HeldBy(f, gs) \subseteq hs \X (1..b)
    BY DEF HeldBy
  <2>2. QED BY <1>1, <2>1, FS_Subset, FS_CardinalityType
<1>3. ASSUME NEW gs \in SUBSET hs
      PROVE  Cardinality(HeldBy(f, hs)) = Cardinality(HeldBy(f, gs)) + Cardinality(HeldBy(f, hs \ gs))
  <2>1. HeldBy(f, hs) = HeldBy(f, gs) \cup HeldBy(f, hs \ gs)
    BY DEF HeldBy
  <2>2. HeldBy(f, gs) \cap HeldBy(f, hs \ gs) = {}
    BY DEF HeldBy
  <2>3. hs \ gs \in SUBSET hs
    OBVIOUS
  <2>4. PICK A, B : A = HeldBy(f, gs) /\ B = HeldBy(f, hs \ gs)
    OBVIOUS
  <2>5. IsFiniteSet(A) /\ IsFiniteSet(B) /\ Cardinality(A) \in Nat /\ Cardinality(B) \in Nat
    BY <1>2, <2>3, <2>4
  <2>6. Cardinality(A \cup B) = Cardinality(A) + Cardinality(B) - Cardinality(A \cap B)
    BY ONLY <2>5, FS_Union
  <2>7. Cardinality(A \cap B) = 0
    BY <2>2, <2>4, FS_EmptySet
  <2>8. QED BY <2>1, <2>4, <2>5, <2>6, <2>7
<1>4. QED BY <1>2, <1>3

\* What one stream holds.
LEMMA HeldOne ==
    ASSUME NEW f, NEW h, f[h].len \in Nat
    PROVE  Cardinality(HeldBy(f, {h})) = f[h].len
<1>1. PICK n, A, B : n \in Nat /\ n = f[h].len /\ A = {h} /\ B = 1..n
  OBVIOUS
<1>2. HeldBy(f, {h}) = A \X B
  BY <1>1 DEF HeldBy
<1>3. IsFiniteSet(A) /\ Cardinality(A) = 1
  BY <1>1, FS_Singleton
<1>4. IsFiniteSet(B) /\ Cardinality(B) = n
  <2>1. n \in Nat
    BY <1>1
  <2>2. IsFiniteSet(1..n) /\ Cardinality(1..n) = IF 1 > n THEN 0 ELSE n - 1 + 1
    BY ONLY <2>1, FS_Interval
  <2>3. QED BY <1>1, <2>1, <2>2
<1>5. Cardinality(A \X B) = Cardinality(A) * Cardinality(B)
  BY ONLY <1>3, <1>4, FS_Product
<1>6. Cardinality(A \X B) = n
  <2>1. n \in Nat
    BY <1>1
  <2>2. QED BY ONLY <1>3, <1>4, <1>5, <2>1
<1>7. QED BY <1>1, <1>2, <1>6

\* What is held depends on the lengths only.
LEMMA HeldSame ==
    ASSUME NEW f, NEW g, NEW hs, \A h \in hs : f[h].len = g[h].len
    PROVE  HeldBy(f, hs) = HeldBy(g, hs)
BY DEF HeldBy

LEMMA HeldNothing == ASSUME NEW f PROVE Cardinality(HeldBy(f, {})) = 0
<1>1. HeldBy(f, {}) = {}
  BY DEF HeldBy
<1>2. QED BY <1>1, FS_EmptySet

-----------------------------------------------------------------------------
(* The stream store.                                                       *)

Stream == [len : Nat, pos : Nat, got : Nat, seeked : BOOLEAN, eof : BOOLEAN]

StreamOK(s) ==
    /\ s \in Stream /\ s.pos <= s.len /\ s.len <= MaxBytes
    /\ ~s.seeked => s.got = s.pos
    /\ ~s.seeked /\ s.eof => s.got = s.len

Handles == 0..HandleSpace

StoreOK ==
    /\ order \in Seq(Handles) /\ Increasing(order) /\ Len(order) <= MaxEntries
    /\ Elements(order) = DOMAIN streams
    /\ counter \in Handles
    /\ \A h \in DOMAIN streams : h \in Handles /\ h < counter /\ StreamOK(streams[h])
    /\ totalBytes = Cardinality(HeldBy(streams, DOMAIN streams)) /\ totalBytes <= MaxBytes

LEMMA LimitsFacts ==
    /\ MaxEntries \in Nat \ {0} /\ MaxBytes \in Nat /\ MaxChunk \in Nat
    /\ HandleSpace \in Nat /\ BodyEntries \in Nat /\ BodyBytes \in Nat
    /\ MaxRequests \in Nat /\ MaxFetches \in Nat /\ Sizes \subseteq Nat
BY LimitsAssumption

LEMMA HandlesFinite == IsFiniteSet(Handles) /\ Handles \subseteq Nat
BY LimitsFacts, FS_Interval DEF Handles

\* The bytes of the open streams, and of those a step leaves.
LEMMA StoreBytes ==
    ASSUME StoreOK
    PROVE  /\ totalBytes \in Nat
           /\ \A gs \in SUBSET (DOMAIN streams) :
                /\ Cardinality(HeldBy(streams, gs)) \in Nat
                /\ totalBytes = Cardinality(HeldBy(streams, gs))
                                  + Cardinality(HeldBy(streams, DOMAIN streams \ gs))
                /\ Cardinality(HeldBy(streams, DOMAIN streams \ gs)) \in Nat
<1>1. IsFiniteSet(Handles)
  BY HandlesFinite
<1>2. DOMAIN streams \in SUBSET Handles
  BY DEF StoreOK
<1>3. IsFiniteSet(DOMAIN streams)
  BY <1>1, <1>2, FS_Subset
<1>4. \A h \in DOMAIN streams : streams[h].len \in 0..MaxBytes
  BY LimitsFacts DEF StoreOK, StreamOK, Stream
<1>5. /\ Cardinality(HeldBy(streams, DOMAIN streams)) \in Nat
      /\ \A gs \in SUBSET (DOMAIN streams) :
           /\ Cardinality(HeldBy(streams, gs)) \in Nat
           /\ Cardinality(HeldBy(streams, DOMAIN streams))
                = Cardinality(HeldBy(streams, gs)) + Cardinality(HeldBy(streams, DOMAIN streams \ gs))
  BY <1>3, <1>4, LimitsFacts, HeldFacts
<1>6. \A gs \in SUBSET (DOMAIN streams) : DOMAIN streams \ gs \in SUBSET (DOMAIN streams)
  OBVIOUS
<1>7. QED BY <1>5, <1>6 DEF StoreOK

\* The loop of insert stops, at the first number of evictions that will do.
LEMMA EvictionsFacts ==
    ASSUME StoreOK, NEW size
    PROVE  /\ Evictions(size) \in 0..Len(order)
           /\ Fits(Evictions(size), size)
           /\ \A j \in 0..(Evictions(size) - 1) : ~Fits(j, size)
<1> DEFINE T == {k \in 0..Len(order) : Fits(k, size)}
<1>1. Len(order) \in Nat
  BY DEF StoreOK
<1>2. Len(order) \in T
  BY <1>1 DEF Fits
<1>3. T \subseteq Nat /\ T # {}
  BY <1>1, <1>2
<1> HIDE DEF T
<1>4. \E k \in T : \A j \in T : k <= j
  BY <1>3, LeastOf
<1> USE DEF T
<1>5. \E k \in 0..Len(order) : Fits(k, size) /\ \A j \in 0..(k - 1) : ~Fits(j, size)
  <2>1. PICK k \in T : \A j \in T : k <= j
    BY <1>4
  <2>2. \A j \in 0..(k - 1) : ~Fits(j, size)
    <3> SUFFICES ASSUME NEW j \in 0..(k - 1), Fits(j, size) PROVE FALSE
      OBVIOUS
    <3>1. j \in 0..Len(order) /\ ~(k <= j)
      BY <1>1
    <3>2. QED BY <2>1, <3>1
  <2>3. QED BY <2>1, <2>2
<1>6. QED BY <1>5 DEF Evictions

\* What insert leaves before it adds the new stream.
LEMMA Evicting ==
    ASSUME StoreOK, NEW size \in 0..MaxBytes,
           NEW gone, gone = Evicted(size),
           NEW rest, rest = SubSeq(order, Evictions(size) + 1, Len(order))
    PROVE  /\ rest \in Seq(Handles) /\ Increasing(rest) /\ Len(rest) < MaxEntries
           /\ gone \subseteq DOMAIN streams /\ Elements(rest) = DOMAIN streams \ gone
           /\ totalBytes - SumLen(gone) = Cardinality(HeldBy(streams, DOMAIN streams \ gone))
           /\ totalBytes - SumLen(gone) \in Nat
           /\ totalBytes - SumLen(gone) + size <= MaxBytes
<1>1. PICK k \in 0..Len(order) : k = Evictions(size) /\ Fits(k, size)
  BY EvictionsFacts
<1>2. order \in Seq(Handles) /\ Len(order) \in Nat /\ k \in Nat
  BY <1>1 DEF StoreOK
<1>3. /\ rest \in Seq(Handles) /\ Len(rest) = Len(order) - k
      /\ \A i \in 1..Len(rest) : rest[i] = order[i + k] /\ i + k \in 1..Len(order)
  BY <1>1, <1>2
<1>4. gone = {order[i] : i \in 1..k}
  BY <1>1 DEF Evicted
<1>5. Increasing(rest)
  <2> SUFFICES ASSUME NEW i \in 1..Len(rest), NEW j \in 1..Len(rest), i < j
               PROVE  rest[i] < rest[j]
    BY DEF Increasing
  <2>1. i + k < j + k
    BY <1>2
  <2>2. QED BY <1>3, <2>1 DEF StoreOK, Increasing
<1>6. gone \subseteq DOMAIN streams /\ Elements(rest) = DOMAIN streams \ gone
  <2>1. \A i \in 1..k : i \in 1..Len(order)
    BY <1>1, <1>2
  <2>2. gone \subseteq DOMAIN streams
    BY <1>4, <2>1 DEF StoreOK, Elements
  <2>3. ASSUME NEW h \in Elements(rest) PROVE h \in DOMAIN streams \ gone
    <3>1. PICK i \in 1..Len(rest) : h = order[i + k] /\ i + k \in 1..Len(order)
      BY <1>3, <2>3 DEF Elements
    <3>2. \A j \in 1..k : order[j] # h
      <4> TAKE j \in 1..k
      <4>1. order[j] < order[i + k]
        BY <1>2, <2>1, <3>1 DEF StoreOK, Increasing
      <4>2. order[j] \in Handles
        BY <1>2, <2>1
      <4>3. order[j] \in Int
        BY <4>2 DEF Handles
      <4>4. QED BY <3>1, <4>1, <4>3
    <3>3. QED BY <1>4, <3>1, <3>2 DEF StoreOK, Elements
  <2>4. ASSUME NEW h \in DOMAIN streams, h \notin gone PROVE h \in Elements(rest)
    <3>1. PICK j \in 1..Len(order) : h = order[j]
      BY DEF StoreOK, Elements
    <3>2. j \notin 1..k
      BY <1>4, <2>4, <3>1
    <3>3. j - k \in 1..Len(rest) /\ (j - k) + k = j
      BY <1>1, <1>2, <1>3, <3>2
    <3>4. rest[j - k] = order[j]
      BY <1>3, <3>3
    <3>5. QED BY <3>1, <3>3, <3>4 DEF Elements
  <2>5. QED BY <2>2, <2>3, <2>4
<1>7. /\ SumLen(gone) = Cardinality(HeldBy(streams, gone))
      /\ SumLen({order[i] : i \in 1..k}) = Cardinality(HeldBy(streams, gone))
  BY <1>4 DEF SumLen, Held, HeldBy
<1>8. /\ Cardinality(HeldBy(streams, gone)) \in Nat /\ totalBytes \in Nat
      /\ totalBytes = Cardinality(HeldBy(streams, gone))
                        + Cardinality(HeldBy(streams, DOMAIN streams \ gone))
      /\ Cardinality(HeldBy(streams, DOMAIN streams \ gone)) \in Nat
  BY <1>6, StoreBytes
<1>9. PICK a \in Nat, b \in Nat : /\ a = Cardinality(HeldBy(streams, gone))
                                  /\ b = Cardinality(HeldBy(streams, DOMAIN streams \ gone))
  BY <1>8
<1>10. totalBytes - SumLen(gone) = b
  BY <1>7, <1>8, <1>9
<1>11. Len(rest) < MaxEntries /\ b + size <= MaxBytes
  <2>1. CASE k = Len(order)
    <3>1. Len(rest) = 0 /\ Elements(rest) = {}
      BY <1>2, <1>3, <2>1 DEF Elements
    <3>2. b = 0
      BY <1>6, <1>9, <3>1, HeldNothing
    <3>3. size \in Nat /\ 0 + size <= MaxBytes
      BY LimitsFacts
    <3>4. 0 < MaxEntries
      BY LimitsFacts
    <3>5. b + size <= MaxBytes
      BY <3>2, <3>3
    <3>6. QED BY <3>1, <3>4, <3>5
  <2>2. CASE k # Len(order)
    <3>1. /\ Len(order) - k < MaxEntries
          /\ totalBytes - SumLen({order[i] : i \in 1..k}) + size <= MaxBytes
      BY <1>1, <2>2 DEF Fits
    <3>2. totalBytes - SumLen(gone) + size <= MaxBytes
      BY <1>7, <3>1
    <3>3. QED BY <1>3, <1>10, <3>1, <3>2
  <2>3. QED BY <2>1, <2>2
<1>12. QED BY <1>3, <1>5, <1>6, <1>9, <1>10, <1>11

\* One more stream at the end of the order, under a handle above all others.
Addable(f, hs, h, s, new, all) ==
    /\ hs \in SUBSET Handles /\ h \in Handles /\ \A g \in hs : g < h
    /\ s \in Seq(Handles) /\ Increasing(s) /\ Elements(s) = hs
    /\ \A g \in hs : StreamOK(f[g])
    /\ StreamOK(new)
    /\ DOMAIN all = hs \cup {h} /\ all[h] = new /\ \A g \in hs : all[g] = f[g]

Added(f, hs, h, s, new, all) ==
    /\ Append(s, h) \in Seq(Handles) /\ Increasing(Append(s, h))
    /\ Len(Append(s, h)) = Len(s) + 1
    /\ Elements(Append(s, h)) = DOMAIN all
    /\ \A g \in DOMAIN all : StreamOK(all[g])
    /\ Cardinality(HeldBy(all, DOMAIN all)) = Cardinality(HeldBy(f, hs)) + new.len

LEMMA AddStream ==
    ASSUME NEW f, NEW hs, NEW h, NEW s, NEW new, NEW all, Addable(f, hs, h, s, new, all)
    PROVE  Added(f, hs, h, s, new, all)
<1> USE DEF Addable
<1>1. Len(s) \in Nat /\ Append(s, h) \in Seq(Handles) /\ Len(Append(s, h)) = Len(s) + 1
  OBVIOUS
<1>2. /\ \A i \in 1..Len(s) : Append(s, h)[i] = s[i] /\ s[i] \in Elements(s)
      /\ Append(s, h)[Len(s) + 1] = h
  BY DEF Elements
<1>3. Elements(Append(s, h)) = hs \cup {h}
  <2>1. 1..(Len(s) + 1) = 1..Len(s) \cup {Len(s) + 1}
    BY <1>1
  <2>2. QED BY <1>1, <1>2, <2>1 DEF Elements
<1>4. Increasing(Append(s, h))
  <2> SUFFICES ASSUME NEW i \in 1..(Len(s) + 1), NEW j \in 1..(Len(s) + 1), i < j
               PROVE  Append(s, h)[i] < Append(s, h)[j]
    BY <1>1 DEF Increasing
  <2>1. i \in 1..Len(s)
    BY <1>1
  <2>2. CASE j = Len(s) + 1
    BY <1>2, <2>1, <2>2
  <2>3. CASE j # Len(s) + 1
    <3>1. j \in 1..Len(s)
      BY <1>1, <2>3
    <3>2. QED BY <1>2, <2>1, <3>1 DEF Increasing
  <2>4. QED BY <2>2, <2>3
<1>5. h \notin hs
  BY DEF Handles
<1>6. /\ DOMAIN all = hs \cup {h} /\ all[h] = new /\ \A g \in hs : all[g] = f[g]
  OBVIOUS
<1>7. \A g \in DOMAIN all : StreamOK(all[g])
  BY <1>6
<1>8. Cardinality(HeldBy(all, DOMAIN all)) = Cardinality(HeldBy(f, hs)) + new.len
  <2>1. IsFiniteSet(Handles)
    BY HandlesFinite
  <2>2. IsFiniteSet(hs \cup {h})
    <3>1. hs \cup {h} \in SUBSET Handles
      OBVIOUS
    <3>2. QED BY <2>1, <3>1, FS_Subset
  <2>3. \A g \in hs \cup {h} : all[g].len \in 0..MaxBytes
    BY <1>6, <1>7, LimitsFacts DEF StreamOK, Stream
  <2>4. Cardinality(HeldBy(all, hs \cup {h}))
          = Cardinality(HeldBy(all, hs)) + Cardinality(HeldBy(all, (hs \cup {h}) \ hs))
    <3>1. PICK us : us = hs \cup {h}
      OBVIOUS
    <3>2. IsFiniteSet(us) /\ (\A g \in us : all[g].len \in 0..MaxBytes) /\ hs \in SUBSET us
      BY <2>2, <2>3, <3>1
    <3>3. MaxBytes \in Nat
      BY LimitsFacts
    <3>4. Cardinality(HeldBy(all, us)) = Cardinality(HeldBy(all, hs)) + Cardinality(HeldBy(all, us \ hs))
      BY ONLY <3>2, <3>3, HeldFacts
    <3>5. QED BY <3>1, <3>4
  <2>5. (hs \cup {h}) \ hs = {h}
    BY <1>5
  <2>6. Cardinality(HeldBy(all, {h})) = new.len
    <3>1. all[h].len \in Nat
      BY <1>6 DEF StreamOK, Stream
    <3>2. QED BY <1>6, <3>1, HeldOne
  <2>7. HeldBy(all, hs) = HeldBy(f, hs)
    BY <1>6, HeldSame
  <2>8. QED BY <1>6, <2>4, <2>5, <2>6, <2>7
<1>9. QED BY <1>1, <1>3, <1>4, <1>6, <1>7, <1>8 DEF Added

\* insert keeps the books, whichever way it ends.
LEMMA InsertStep ==
    ASSUME StoreOK, NEW size \in Nat, Insert(size)
    PROVE  StoreOK'
<1>1. CASE Oversize(size) /\ UNCHANGED storeVars
  BY <1>1 DEF storeVars, StoreOK
<1> PICK gone, rest : /\ gone = Evicted(size)
                      /\ rest = SubSeq(order, Evictions(size) + 1, Len(order))
  OBVIOUS
<1> PICK hs, freed : hs = DOMAIN streams \ gone /\ freed = totalBytes - SumLen(gone)
  OBVIOUS
<1>2. ASSUME ~Oversize(size)
      PROVE  /\ rest \in Seq(Handles) /\ Increasing(rest) /\ Len(rest) < MaxEntries
             /\ gone \subseteq DOMAIN streams /\ Elements(rest) = hs
             /\ freed = Cardinality(HeldBy(streams, hs))
             /\ freed \in Nat /\ freed + size <= MaxBytes
  <2>1. size \in 0..MaxBytes
    BY <1>2, LimitsFacts DEF Oversize
  <2>2. QED BY <2>1, Evicting
<1>3. CASE /\ ~Oversize(size) /\ Exhausted
           /\ streams' = Drop(streams, gone)
           /\ order' = rest /\ totalBytes' = freed
           /\ UNCHANGED counter
  <2>1. DOMAIN streams' = hs /\ \A h \in hs : streams'[h] = streams[h]
    BY <1>3 DEF Drop
  <2>2. HeldBy(streams', hs) = HeldBy(streams, hs)
    BY <2>1, HeldSame
  <2>3. freed <= MaxBytes /\ Len(rest) <= MaxEntries
    <3>1. Len(rest) \in Nat
      BY <1>2, <1>3
    <3>2. QED BY <1>2, <1>3, <3>1, LimitsFacts
  <2>4. QED BY <1>2, <1>3, <2>1, <2>2, <2>3 DEF StoreOK
<1>4. CASE /\ ~Oversize(size) /\ ~Exhausted
           /\ streams' = Put(Drop(streams, gone), NewHandle,
                             [len |-> size, pos |-> 0, got |-> 0, seeked |-> FALSE, eof |-> FALSE])
           /\ order' = Append(rest, NewHandle)
           /\ totalBytes' = freed + size
           /\ counter' = counter + 1
  <2>1. PICK new : new = [len |-> size, pos |-> 0, got |-> 0, seeked |-> FALSE, eof |-> FALSE]
    OBVIOUS
  <2>2. StreamOK(new) /\ new.len = size
    BY <1>4, <2>1, LimitsFacts DEF StreamOK, Stream, Oversize
  <2>3. /\ counter \in Handles /\ counter + 1 \in Handles /\ counter \in Nat
    BY <1>4, LimitsFacts DEF StoreOK, Exhausted, Handles
  <2>4. /\ hs \in SUBSET Handles
        /\ \A g \in hs : g < counter
        /\ \A g \in hs : StreamOK(streams[g])
    BY DEF StoreOK
  <2>5. /\ DOMAIN streams' = hs \cup {counter} /\ streams'[counter] = new
        /\ \A g \in hs : streams'[g] = streams[g]
    <3>1. counter \notin hs
      BY <2>3, <2>4
    <3>2. streams' = [g \in hs \cup {counter} |-> IF g = counter THEN new ELSE streams[g]]
      BY <1>4, <2>1 DEF Put, Drop, NewHandle
    <3>3. QED BY <3>1, <3>2
  <2>6. /\ order' = Append(rest, counter) /\ order' \in Seq(Handles) /\ Increasing(order')
        /\ Len(order') = Len(rest) + 1
        /\ Elements(order') = DOMAIN streams'
        /\ \A g \in DOMAIN streams' : StreamOK(streams'[g])
        /\ Cardinality(HeldBy(streams', DOMAIN streams')) = Cardinality(HeldBy(streams, hs)) + new.len
    <3>1. order' = Append(rest, counter)
      BY <1>4 DEF NewHandle
    <3>2. rest \in Seq(Handles) /\ Increasing(rest) /\ Elements(rest) = hs
      BY <1>2, <1>4
    <3>3. Addable(streams, hs, counter, rest, new, streams')
      BY <2>2, <2>3, <2>4, <2>5, <3>2 DEF Addable
    <3>4. Added(streams, hs, counter, rest, new, streams')
      BY <3>3, AddStream
    <3>5. QED BY <3>1, <3>4 DEF Added
  <2>7. Len(order') <= MaxEntries
    <3>1. Len(rest) \in Nat
      BY <1>2, <1>4
    <3>2. QED BY <1>2, <1>4, <2>6, <3>1, LimitsFacts
  <2>8. \A h \in DOMAIN streams' : h \in Handles /\ h < counter'
    <3>1. \A h \in hs : h \in Int /\ h < counter
      BY <2>4 DEF Handles
    <3>2. \A h \in hs : h < counter + 1 /\ h \in Handles
      BY <2>3, <2>4, <3>1
    <3>3. counter < counter + 1
      BY <2>3
    <3>4. DOMAIN streams' = hs \cup {counter} /\ counter' = counter + 1
      BY <1>4, <2>5
    <3>5. QED BY ONLY <2>3, <3>2, <3>3, <3>4
  <2>9. totalBytes' = Cardinality(HeldBy(streams', DOMAIN streams')) /\ totalBytes' <= MaxBytes
    BY <1>2, <1>4, <2>2, <2>6
  <2>10. QED BY <1>4, <2>3, <2>6, <2>7, <2>8, <2>9 DEF StoreOK
<1>5. QED BY <1>1, <1>3, <1>4 DEF Insert

\* close gives back exactly what the stream held.
LEMMA CloseStep ==
    ASSUME StoreOK, NEW h \in DOMAIN streams, Close(h)
    PROVE  StoreOK'
<1> PICK hs : hs = DOMAIN streams \ {h}
  OBVIOUS
<1>1. /\ streams' = Drop(streams, {h}) /\ totalBytes' = totalBytes - streams[h].len
      /\ order' = Without(order, h) /\ counter' = counter
  BY DEF Close
<1>2. DOMAIN streams' = hs /\ \A g \in hs : streams'[g] = streams[g]
  BY <1>1 DEF Drop
<1>3. /\ order' \in Seq(Handles) /\ Len(order') <= Len(order) /\ Increasing(order')
      /\ Elements(order') = hs
  <2>1. order \in Seq(Handles) /\ Increasing(order) /\ Handles \subseteq Int
    BY HandlesFinite DEF StoreOK
  <2>2. /\ Without(order, h) \in Seq(Handles) /\ Len(Without(order, h)) <= Len(order)
        /\ Elements(Without(order, h)) = Elements(order) \ {h}
        /\ Increasing(Without(order, h))
    BY ONLY <2>1, WithoutFacts
  <2>3. QED BY <1>1, <2>2 DEF StoreOK
<1>4. HeldBy(streams', hs) = HeldBy(streams, hs)
  BY <1>2, HeldSame
<1>5. /\ totalBytes = streams[h].len + Cardinality(HeldBy(streams, hs))
      /\ Cardinality(HeldBy(streams, hs)) \in Nat /\ streams[h].len \in Nat
  <2>1. {h} \in SUBSET (DOMAIN streams)
    OBVIOUS
  <2>2. streams[h].len \in Nat
    BY DEF StoreOK, StreamOK, Stream
  <2>3. Cardinality(HeldBy(streams, {h})) = streams[h].len
    BY <2>2, HeldOne
  <2>4. QED BY <2>1, <2>2, <2>3, StoreBytes
<1>6. totalBytes' = Cardinality(HeldBy(streams', hs)) /\ totalBytes' <= MaxBytes
  BY <1>1, <1>4, <1>5, LimitsFacts DEF StoreOK
<1>7. Len(order') <= MaxEntries
  <2>1. Len(order) \in Nat /\ Len(order') \in Nat /\ Len(order) <= MaxEntries
    BY <1>3 DEF StoreOK
  <2>2. QED BY <1>3, <2>1, LimitsFacts
<1>8. QED BY <1>1, <1>2, <1>3, <1>6, <1>7 DEF StoreOK

\* A read moves the cursor of one stream.
LEMMA ReadStep ==
    ASSUME StoreOK, NEW h \in DOMAIN streams, NEW from \in -1..1, NEW size \in Sizes,
           Read(h, from, size)
    PROVE  StoreOK'
<1> PICK s : s = streams[h]
  OBVIOUS
<1>1. /\ s \in Stream /\ s.pos <= s.len /\ s.len <= MaxBytes
      /\ ~s.seeked => s.got = s.pos
      /\ s.len \in Nat /\ s.pos \in Nat /\ s.got \in Nat /\ s.seeked \in BOOLEAN
  BY DEF StoreOK, StreamOK, Stream
<1> PICK start : start = IF from >= 0 THEN Least(from, s.len) ELSE s.pos
  OBVIOUS
<1> PICK end : end = Least(start + Least(size, MaxChunk), s.len)
  OBVIOUS
<1>2. start \in Nat /\ start <= s.len /\ (from < 0 => start = s.pos)
  BY <1>1 DEF Least
<1>3. end \in Nat /\ start <= end /\ end <= s.len
  <2>1. size \in Nat
    BY LimitsFacts
  <2>2. Least(size, MaxChunk) \in Nat
    BY <2>1, LimitsFacts DEF Least
  <2>3. QED BY <1>1, <1>2, <2>2 DEF Least
<1>4. PICK new : new = [len |-> s.len, pos |-> end,
                        got |-> IF s.seeked \/ from >= 0 THEN 0 ELSE s.got + (end - start),
                        seeked |-> s.seeked \/ from >= 0,
                        eof |-> AtEof(start, end, size, s.len)]
  OBVIOUS
<1>5. /\ streams' = [streams EXCEPT ![h] = new]
      /\ order' = order /\ totalBytes' = totalBytes /\ counter' = counter
  BY <1>4 DEF Read
<1>6. new.len = s.len /\ StreamOK(new)
  <2>1. /\ new.len = s.len /\ new.pos = end
        /\ new.seeked = (s.seeked \/ from >= 0)
        /\ new.eof = (end >= s.len)
    BY <1>4 DEF AtEof
  <2>2. ~new.seeked => new.got = s.got + (end - start) /\ ~s.seeked /\ from < 0
    <3>1. new.got = IF s.seeked \/ from >= 0 THEN 0 ELSE s.got + (end - start)
      BY <1>4
    <3>2. ~new.seeked => ~s.seeked /\ ~(from >= 0)
      BY <2>1
    <3>3. from \in Int
      OBVIOUS
    <3>4. QED BY <3>1, <3>2, <3>3
  <2>3. ~new.seeked => new.got = end
    BY <1>1, <1>2, <1>3, <2>2
  <2>4. new.got \in Nat
    <3>1. s.got + (end - start) \in Nat
      BY <1>1, <1>2, <1>3
    <3>2. QED BY <1>4, <3>1
  <2>5. new \in Stream
    <3>1. new = [len |-> s.len, pos |-> end, got |-> new.got, seeked |-> new.seeked, eof |-> new.eof]
      BY <1>4
    <3>2. new.seeked \in BOOLEAN /\ new.eof \in BOOLEAN
      BY <2>1
    <3>3. QED BY <1>1, <1>3, <2>4, <3>1, <3>2 DEF Stream
  <2>6. ~new.seeked /\ new.eof => new.got = new.len
    BY <1>1, <1>3, <2>1, <2>3
  <2>7. QED BY <1>1, <1>3, <2>1, <2>3, <2>5, <2>6 DEF StreamOK
<1>7. DOMAIN streams' = DOMAIN streams /\ streams'[h] = new
      /\ \A g \in DOMAIN streams : g # h => streams'[g] = streams[g]
  BY <1>5
<1>8. \A g \in DOMAIN streams' : StreamOK(streams'[g]) /\ streams'[g].len = streams[g].len
  BY <1>6, <1>7 DEF StoreOK
<1>9. HeldBy(streams', DOMAIN streams') = HeldBy(streams, DOMAIN streams)
  BY <1>7, <1>8, HeldSame
<1>10. QED BY <1>5, <1>7, <1>8, <1>9 DEF StoreOK

-----------------------------------------------------------------------------
(* The two together.                                                       *)

CacheOK ==
    /\ DOMAIN bodies \subseteq ({"req", "loader"} \X (1..MaxRequests))
    /\ \A id \in DOMAIN bodies : bodies[id] \in Nat
    /\ responses \in 0..MaxRequests /\ navigated \in 0..responses
    /\ jsBodies \in Seq(Copy) /\ fetches \in 0..MaxFetches

\* The inductive invariant.
StreamsInv == CacheOK /\ StoreOK

\* The newest of a sequence are of its type.
LEMMA KeepType == ASSUME NEW S, NEW s \in Seq(S), NEW n \in Nat PROVE Keep(s, n) \in Seq(S)
<1>1. CASE Len(s) > n
  <2>1. PICK a \in Nat : a = Len(s) - n
    BY <1>1
  <2>2. Keep(s, n) = SubSeq(s, a + 1, Len(s))
    BY <1>1, <2>1 DEF Keep
  <2>3. QED BY <2>1, <2>2
<1>2. CASE ~(Len(s) > n)
  BY <1>2 DEF Keep
<1>3. QED BY <1>1, <1>2

\* What the runtime has keeps its type, and nothing else is touched.
LEMMA RuntimeStep ==
    ASSUME CacheOK, NewRuntime \/ \E size \in Sizes : ScriptFetch(size)
    PROVE  CacheOK' /\ cacheVars' = cacheVars /\ storeVars' = storeVars
<1> USE LimitsFacts
<1>1. cacheVars' = cacheVars /\ storeVars' = storeVars
  BY DEF NewRuntime, ScriptFetch
<1>2. jsBodies' \in Seq(Copy) /\ fetches' \in 0..MaxFetches
  <2>1. CASE NewRuntime
    BY <2>1 DEF NewRuntime
  <2>2. ASSUME NEW size \in Sizes, ScriptFetch(size)
        PROVE  jsBodies' \in Seq(Copy) /\ fetches' \in 0..MaxFetches
    <3>1. fetches \in 0..MaxFetches /\ fetches < MaxFetches /\ fetches' = fetches + 1
      BY <2>2 DEF ScriptFetch, CacheOK
    <3>2. size \in Nat /\ fetches + 1 \in Nat
      BY <3>1
    <3>3. [id |-> fetches + 1, len |-> size] \in Copy
      BY <3>2 DEF Copy
    <3>4. PICK c \in Copy : c = [id |-> fetches + 1, len |-> size]
      BY <3>3
    <3>5. PICK s \in Seq(Copy) : s = Append(jsBodies, c)
      <4>1. jsBodies \in Seq(Copy)
        BY DEF CacheOK
      <4>2. Append(jsBodies, c) \in Seq(Copy)
        BY <4>1
      <4>3. QED BY <4>2
    <3>6. Keep(s, BodyEntries) \in Seq(Copy)
      BY KeepType
    <3>7. jsBodies' = jsBodies \/ jsBodies' = Keep(s, BodyEntries)
      BY <2>2, <3>4, <3>5 DEF ScriptFetch
    <3>8. fetches' \in 0..MaxFetches
      BY <3>1
    <3>9. QED BY <3>6, <3>7, <3>8 DEF CacheOK
  <2>3. QED BY <2>1, <2>2
<1>3. QED BY <1>1, <1>2 DEF CacheOK, cacheVars

LEMMA CacheStep ==
    ASSUME CacheOK, [StreamsNext]_streamsVars
    PROVE  CacheOK'
<1> USE LimitsFacts
<1>1. ASSUME NEW size \in Sizes, Respond(size) PROVE CacheOK'
  <2>1. responses \in Nat /\ responses < MaxRequests /\ responses' = responses + 1 /\ navigated' = navigated
    BY <1>1 DEF Respond, CacheOK
  <2>2. Request(responses + 1) \in {"req", "loader"} \X (1..MaxRequests)
    BY <2>1 DEF Request
  <2>3. /\ DOMAIN bodies' \subseteq DOMAIN bodies \cup {Request(responses + 1)}
        /\ \A id \in DOMAIN bodies' : bodies'[id] = size \/ (id \in DOMAIN bodies /\ bodies'[id] = bodies[id])
    BY <1>1 DEF Respond, Drop, Put
  <2>4. size \in Nat
    OBVIOUS
  <2>5. responses' \in 0..MaxRequests /\ navigated' \in 0..responses'
    BY <2>1 DEF CacheOK
  <2>6. jsBodies' = jsBodies /\ fetches' = fetches
    BY <1>1 DEF Respond, jsVars
  <2>7. QED BY <2>2, <2>3, <2>4, <2>5, <2>6 DEF CacheOK
<1>2. ASSUME NEW n \in 1..MaxRequests, AliasBody(n) PROVE CacheOK'
  <2>1. Loader(n) \in {"req", "loader"} \X (1..MaxRequests)
    BY DEF Loader
  <2>2. /\ DOMAIN bodies' \subseteq DOMAIN bodies \cup {Loader(n)}
        /\ \A id \in DOMAIN bodies' :
             \E old \in DOMAIN bodies : bodies'[id] = bodies[old]
    BY <1>2 DEF AliasBody, Put
  <2>3. /\ responses' = responses /\ navigated' = responses
        /\ jsBodies' = jsBodies /\ fetches' = fetches
    BY <1>2 DEF AliasBody, jsVars
  <2>4. QED BY <2>1, <2>2, <2>3 DEF CacheOK
<1>3. ASSUME ClearBodies \/ \E id \in DOMAIN bodies : TakeBody(id) PROVE CacheOK'
  <2>1. /\ DOMAIN bodies' \subseteq DOMAIN bodies
        /\ \A id \in DOMAIN bodies' : bodies'[id] = bodies[id]
        /\ responses' = responses /\ navigated' = navigated
        /\ (jsBodies' = jsBodies \/ jsBodies' = <<>>) /\ fetches' = fetches
    BY <1>3 DEF ClearBodies, TakeBody, Drop, jsVars
  <2>2. <<>> \in Seq(Copy)
    OBVIOUS
  <2>3. QED BY <2>1, <2>2 DEF CacheOK
<1>4. ASSUME \/ \E size \in Sizes : PrintToPdf(size)
             \/ \E i \in 1..Len(jsBodies) : TakeFetched(i)
             \/ \E h \in DOMAIN streams :
                  Close(h) \/ \E from \in -1..1, size \in Sizes : Read(h, from, size)
             \/ UNCHANGED streamsVars
      PROVE  CacheOK'
  <2>1. cacheVars' = cacheVars /\ jsVars' = jsVars
    BY <1>4 DEF PrintToPdf, TakeFetched, Close, Read, streamsVars
  <2>2. QED BY <2>1 DEF CacheOK, cacheVars, jsVars
<1>5. QED BY <1>1, <1>2, <1>3, <1>4, RuntimeStep DEF StreamsNext

\* A copy the runtime has is of some length.
LEMMA CopyLen == CacheOK => \A i \in 1..Len(jsBodies) : jsBodies[i].len \in Nat
<1> SUFFICES ASSUME CacheOK, NEW i \in 1..Len(jsBodies) PROVE jsBodies[i].len \in Nat
  OBVIOUS
<1>1. jsBodies[i] \in Copy
  BY DEF CacheOK
<1>2. QED BY <1>1 DEF Copy

LEMMA StoreStep ==
    ASSUME CacheOK, StoreOK, [StreamsNext]_streamsVars
    PROVE  StoreOK'
<1>1. ASSUME NEW size \in Sizes, PrintToPdf(size) PROVE StoreOK'
  <2>1. size \in Nat /\ Insert(size)
    BY <1>1, LimitsFacts DEF PrintToPdf
  <2>2. QED BY <2>1, InsertStep
<1>2. ASSUME NEW id \in DOMAIN bodies, TakeBody(id) PROVE StoreOK'
  <2>1. bodies[id] \in Nat /\ Insert(bodies[id])
    BY <1>2 DEF TakeBody, CacheOK
  <2>2. QED BY <2>1, InsertStep
<1>3. ASSUME \/ \E size \in Sizes : Respond(size) \/ ScriptFetch(size)
             \/ \E n \in 1..MaxRequests : AliasBody(n)
             \/ ClearBodies \/ NewRuntime \/ UNCHANGED streamsVars
      PROVE  StoreOK'
  <2>1. storeVars' = storeVars
    BY <1>3, RuntimeStep DEF Respond, AliasBody, ClearBodies, streamsVars
  <2>2. streams' = streams /\ order' = order /\ totalBytes' = totalBytes /\ counter' = counter
    BY <2>1 DEF storeVars
  <2>3. QED BY <2>2 DEF StoreOK
<1>4. ASSUME NEW i \in 1..Len(jsBodies), TakeFetched(i) PROVE StoreOK'
  <2>1. jsBodies[i].len \in Nat /\ Insert(jsBodies[i].len)
    BY <1>4, CopyLen DEF TakeFetched
  <2>2. QED BY <2>1, InsertStep
<1>5. QED BY <1>1, <1>2, <1>3, <1>4, CloseStep, ReadStep DEF StreamsNext

LEMMA StreamsStart == StreamsInit => StreamsInv
<1> SUFFICES ASSUME StreamsInit PROVE StreamsInv
  OBVIOUS
<1>1. CacheOK
  <2>1. <<>> \in Seq(Copy)
    OBVIOUS
  <2>2. jsBodies = <<>>
    BY DEF StreamsInit
  <2>3. QED BY <2>1, <2>2, LimitsFacts DEF StreamsInit, CacheOK
<1>2. /\ order \in Seq(Handles) /\ Increasing(order) /\ Len(order) = 0 /\ Elements(order) = {}
      /\ DOMAIN streams = {} /\ counter = 0 /\ totalBytes = 0
  BY DEF StreamsInit, Increasing, Elements
<1>3. Cardinality(HeldBy(streams, {})) = 0
  BY HeldNothing
<1>4. 0 \in Handles /\ 0 <= MaxEntries /\ 0 <= MaxBytes
  BY LimitsFacts DEF Handles
<1>5. StoreOK
  BY <1>2, <1>3, <1>4 DEF StoreOK
<1>6. QED BY <1>1, <1>5 DEF StreamsInv

LEMMA StreamsStep == StreamsInv /\ [StreamsNext]_streamsVars => StreamsInv'
BY CacheStep, StoreStep DEF StreamsInv

\* The invariant says what the properties do.
LEMMA StreamsMeans == StreamsInv => StreamsTypeOK /\ BooksKept /\ SequentialReadsAreComplete
<1> SUFFICES ASSUME StreamsInv PROVE StreamsTypeOK /\ BooksKept /\ SequentialReadsAreComplete
  OBVIOUS
<1> USE DEF StreamsInv
<1>1. order \in Seq(Handles) /\ Len(order) \in Nat /\ DOMAIN order = 1..Len(order)
  BY DEF StoreOK
<1>2. StreamsTypeOK
  <2>1. totalBytes \in Nat
    BY StoreBytes
  <2>2. DOMAIN streams \subseteq 0..HandleSpace /\ order \in Seq(0..HandleSpace) /\ counter \in 0..HandleSpace
    BY <1>1 DEF StoreOK, Handles
  <2>3. \A h \in DOMAIN streams :
          streams[h] \in [len : Nat, pos : Nat, got : Nat, seeked : BOOLEAN, eof : BOOLEAN]
    BY DEF StoreOK, StreamOK, Stream
  <2>4. QED BY <2>1, <2>2, <2>3 DEF StreamsTypeOK, CacheOK
<1>3. OrderOK
  <2>1. ToSet(order) = DOMAIN streams
    BY <1>1 DEF StoreOK, Elements, ToSet
  <2>2. \A i, j \in 1..Len(order) : i < j => order[i] < order[j]
    BY DEF StoreOK, Increasing
  <2>3. \A i \in 1..Len(order) : order[i] < counter
    BY DEF StoreOK, Elements
  <2>4. QED BY <2>1, <2>2, <2>3 DEF OrderOK
<1>4. BytesAccounted
  BY DEF StoreOK, BytesAccounted, SumLen, Held, HeldBy
<1>5. SequentialReadsAreComplete
  BY DEF StoreOK, StreamOK, SequentialReadsAreComplete
<1>6. QED BY <1>2, <1>3, <1>4, <1>5 DEF BooksKept, StoreOK

\* The inductive invariant.
THEOREM StreamsInvariant == StreamsSpec => []StreamsInv
BY StreamsStart, StreamsStep, PTL DEF StreamsSpec

THEOREM StreamsTypeCorrect == StreamsSpec => []StreamsTypeOK
BY StreamsInvariant, StreamsMeans, PTL

THEOREM StoreKeepsItsBooks == StreamsSpec => []BooksKept
BY StreamsInvariant, StreamsMeans, PTL

THEOREM ReadsAreComplete == StreamsSpec => []SequentialReadsAreComplete
BY StreamsInvariant, StreamsMeans, PTL

\* What is inserted and fits is in a new stream.
LEMMA InsertedIsStreamed ==
    ASSUME StreamsInv, NEW size \in Nat, Insert(size), size <= MaxBytes, counter < HandleSpace
    PROVE  \E h \in DOMAIN streams' \ DOMAIN streams : streams'[h].len = size
<1>1. ~Oversize(size) /\ ~Exhausted
  <2>1. counter \in Nat
    BY HandlesFinite DEF StreamsInv, StoreOK
  <2>2. QED BY <2>1, LimitsFacts DEF Oversize, Exhausted
<1>2. PICK new : new = [len |-> size, pos |-> 0, got |-> 0, seeked |-> FALSE, eof |-> FALSE]
  OBVIOUS
<1>3. streams' = Put(Drop(streams, Evicted(size)), counter, new)
  BY <1>1, <1>2 DEF Insert, NewHandle
<1>4. counter \in DOMAIN streams' /\ streams'[counter] = new
  BY <1>3 DEF Put
<1>5. counter \notin DOMAIN streams
  BY HandlesFinite DEF StreamsInv, StoreOK
<1>6. new.len = size
  BY <1>2
<1>7. QED BY <1>4, <1>5, <1>6

\* A body that is taken is in a new stream of its length, and one that the
\* page had is no longer in its cache.
THEOREM TakenIsStreamed == StreamsSpec => TakenBodyIsStreamed
<1>1. ASSUME StreamsInv, NEW id \in DOMAIN bodies, TakeBody(id)
      PROVE  /\ bodies[id] <= MaxBytes /\ counter < HandleSpace =>
                  \E h \in DOMAIN streams' \ DOMAIN streams : streams'[h].len = bodies[id]
             /\ id \notin DOMAIN bodies'
  <2>1. PICK size \in Nat : size = bodies[id] /\ Insert(size)
    BY <1>1 DEF TakeBody, StreamsInv, CacheOK
  <2>2. id \notin DOMAIN bodies'
    BY <1>1 DEF TakeBody, Drop
  <2>3. QED BY <1>1, <2>1, <2>2, InsertedIsStreamed
<1>2. ASSUME StreamsInv, NEW i \in 1..Len(jsBodies), TakeFetched(i)
      PROVE  jsBodies[i].len <= MaxBytes /\ counter < HandleSpace =>
                \E h \in DOMAIN streams' \ DOMAIN streams : streams'[h].len = jsBodies[i].len
  <2>1. PICK size \in Nat : size = jsBodies[i].len /\ Insert(size)
    BY <1>2, CopyLen DEF TakeFetched, StreamsInv
  <2>2. QED BY <1>2, <2>1, InsertedIsStreamed
<1>3. StreamsInv =>
        /\ \A id \in DOMAIN bodies :
             TakeBody(id) => Streamed(bodies[id]) /\ id \notin DOMAIN bodies'
        /\ \A i \in 1..Len(jsBodies) : TakeFetched(i) => Streamed(jsBodies[i].len)
  BY <1>1, <1>2 DEF Streamed
<1>4. QED BY <1>3, StreamsInvariant, PTL DEF TakenBodyIsStreamed

\* A freed handle is never open again.
THEOREM FreedStaysFreed == StreamsSpec => HandlesNotReused
<1>1. ASSUME StreamsInv, [StreamsNext]_streamsVars
      PROVE  DOMAIN streams' \subseteq DOMAIN streams \cup {counter}
  <2>1. ASSUME NEW size, Insert(size) PROVE DOMAIN streams' \subseteq DOMAIN streams \cup {counter}
    BY <2>1 DEF Insert, storeVars, Drop, Put, NewHandle
  <2>2. ASSUME NEW h, NEW from, NEW size, Read(h, from, size)
        PROVE  DOMAIN streams' = DOMAIN streams
    BY <2>2 DEF Read
  <2>3. ASSUME NEW h, Close(h) PROVE DOMAIN streams' \subseteq DOMAIN streams
    BY <2>3 DEF Close, Drop
  <2>4. ASSUME \/ \E size \in Sizes : Respond(size) \/ ScriptFetch(size)
               \/ \E n \in 1..MaxRequests : AliasBody(n)
               \/ ClearBodies \/ NewRuntime \/ UNCHANGED streamsVars
        PROVE  streams' = streams
    BY <2>4 DEF Respond, ScriptFetch, AliasBody, ClearBodies, NewRuntime, streamsVars, storeVars
  <2>5. QED
    BY <1>1, <2>1, <2>2, <2>3, <2>4 DEF StreamsNext, TakeBody, TakeFetched, PrintToPdf
<1>2. StreamsInv /\ [StreamsNext]_streamsVars =>
        \A h \in 0..(counter - 1) : h \notin DOMAIN streams => h \notin DOMAIN streams'
  <2>1. StreamsInv => counter \in Nat /\ counter \notin 0..(counter - 1)
    BY HandlesFinite DEF StreamsInv, StoreOK
  <2>2. QED BY <1>1, <2>1
<1>3. QED BY <1>2, StreamsInvariant, PTL DEF HandlesNotReused, StreamsSpec

\* The first k of the order are the oldest streams, and as many as k.
LEMMA OldestFirst ==
    ASSUME StoreOK, NEW k \in 0..Len(order), NEW gone, gone = {order[i] : i \in 1..k}
    PROVE  /\ \A g \in gone, x \in DOMAIN streams \ gone : g < x
           /\ Cardinality(DOMAIN streams \ gone) = Len(order) - k
           /\ k > 0 => /\ order[k] \in gone /\ \A g \in gone : g <= order[k]
                       /\ DOMAIN streams \ {order[i] : i \in 1..(k - 1)}
                            = (DOMAIN streams \ gone) \cup {order[k]}
<1>1. /\ order \in Seq(Handles) /\ Len(order) \in Nat /\ k \in Nat
      /\ \A i \in 1..Len(order) : order[i] \in Int
      /\ \A i, j \in 1..Len(order) : i < j => order[i] < order[j]
      /\ DOMAIN streams = {order[i] : i \in 1..Len(order)}
  <2>1. order \in Seq(Handles)
    BY DEF StoreOK
  <2>2. \A i \in 1..Len(order) : order[i] \in Handles
    BY <2>1
  <2>3. \A i \in 1..Len(order) : order[i] \in Int
    BY <2>2 DEF Handles
  <2>4. QED BY <2>1, <2>3 DEF StoreOK, Increasing, Elements
<1>2. \A i \in 1..k : i \in 1..Len(order)
  BY <1>1
<1>3. ASSUME NEW x \in DOMAIN streams \ gone
      PROVE  \E j \in (k + 1)..Len(order) : x = order[j]
  <2>1. PICK j \in 1..Len(order) : x = order[j]
    BY <1>1
  <2>2. j \notin 1..k
    BY <2>1
  <2>3. QED BY <1>1, <2>1, <2>2
<1>4. \A i \in 1..k, j \in (k + 1)..Len(order) :
        order[i] < order[j] /\ order[i] \in Int /\ order[j] \in Int /\ order[j] \in DOMAIN streams
  BY <1>1, <1>2
<1>5. \A g \in gone, x \in DOMAIN streams \ gone : g < x
  BY <1>3, <1>4
<1>6. Cardinality(DOMAIN streams \ gone) = Len(order) - k
  <2>1. PICK f : f = [j \in (k + 1)..Len(order) |-> order[j]]
    OBVIOUS
  <2>2. f \in Bijection((k + 1)..Len(order), DOMAIN streams \ gone)
    <3>1. \A j \in (k + 1)..Len(order) : f[j] \in DOMAIN streams \ gone
      <4> TAKE j \in (k + 1)..Len(order)
      <4>1. \A i \in 1..k : order[i] # order[j]
        BY <1>4
      <4>2. order[j] \notin gone
        BY <4>1
      <4>3. order[j] \in DOMAIN streams
        <5>1. j \in 1..Len(order)
          BY <1>1
        <5>2. QED BY <1>1, <5>1
      <4>4. f[j] = order[j]
        BY <2>1
      <4>5. QED BY <4>2, <4>3, <4>4
    <3>2. \A i, j \in (k + 1)..Len(order) : f[i] = f[j] => i = j
      <4> TAKE i, j \in (k + 1)..Len(order)
      <4>1. i \in 1..Len(order) /\ j \in 1..Len(order)
        BY <1>1
      <4>2. QED BY <1>1, <2>1, <4>1
    <3>3. \A x \in DOMAIN streams \ gone : \E j \in (k + 1)..Len(order) : f[j] = x
      BY <1>3, <2>1
    <3>4. f \in [(k + 1)..Len(order) -> DOMAIN streams \ gone]
      BY <2>1, <3>1
    <3>5. QED BY <3>2, <3>3, <3>4 DEF Bijection, Injection, IsInjective, Surjection
  <2>3. IsFiniteSet((k + 1)..Len(order)) /\ Cardinality((k + 1)..Len(order)) = Len(order) - k
    <3>1. /\ IsFiniteSet((k + 1)..Len(order))
          /\ Cardinality((k + 1)..Len(order))
               = IF k + 1 > Len(order) THEN 0 ELSE Len(order) - (k + 1) + 1
      <4>1. PICK a \in Int, b \in Int : a = k + 1 /\ b = Len(order)
        BY <1>1
      <4>2. IsFiniteSet(a..b) /\ Cardinality(a..b) = IF a > b THEN 0 ELSE b - a + 1
        BY ONLY a \in Int, b \in Int, FS_Interval
      <4>3. QED BY <4>1, <4>2
    <3>2. QED BY <1>1, <3>1
  <2>4. ExistsBijection((k + 1)..Len(order), DOMAIN streams \ gone)
    BY <2>2 DEF ExistsBijection
  <2>5. QED BY <2>3, <2>4, FS_Bijection
<1>7. ASSUME k > 0
      PROVE  /\ order[k] \in gone /\ \A g \in gone : g <= order[k]
             /\ DOMAIN streams \ {order[i] : i \in 1..(k - 1)}
                  = (DOMAIN streams \ gone) \cup {order[k]}
  <2>1. k \in 1..k /\ k \in 1..Len(order)
    BY <1>1, <1>7
  <2>2. \A i \in 1..k : order[i] <= order[k]
    BY <1>1, <1>2, <2>1
  <2>3. gone = {order[i] : i \in 1..(k - 1)} \cup {order[k]}
    <3>1. 1..k = 1..(k - 1) \cup {k}
      BY <1>1, <1>7
    <3>2. QED BY <3>1
  <2>4. order[k] \notin {order[i] : i \in 1..(k - 1)}
    <3>1. \A i \in 1..(k - 1) : i \in 1..Len(order) /\ i < k
      BY <1>1
    <3>2. QED BY <1>1, <2>1, <3>1
  <2>5. QED BY <1>1, <2>1, <2>2, <2>3, <2>4
<1>8. QED BY <1>5, <1>6, <1>7

\* A stream that appears is the one insert makes, and what disappears with it
\* is what insert evicts.
LEMMA NewStream ==
    ASSUME StreamsInv, StreamsNext, NEW h \in DOMAIN streams' \ DOMAIN streams
    PROVE  \E size \in Nat : /\ size <= MaxBytes /\ streams'[h].len = size
                             /\ DOMAIN streams \ DOMAIN streams' = Evicted(size)
<1>1. PICK size \in Nat : Insert(size)
  <2>1. ASSUME NEW g, NEW from, NEW size, Read(g, from, size)
        PROVE  DOMAIN streams' = DOMAIN streams
    BY <2>1 DEF Read
  <2>2. ASSUME NEW g, Close(g) PROVE DOMAIN streams' \subseteq DOMAIN streams
    BY <2>2 DEF Close, Drop
  <2>3. ASSUME \/ \E size \in Sizes : Respond(size) \/ ScriptFetch(size)
               \/ \E n \in 1..MaxRequests : AliasBody(n)
               \/ ClearBodies \/ NewRuntime
        PROVE  streams' = streams
    BY <2>3 DEF Respond, ScriptFetch, AliasBody, ClearBodies, NewRuntime, storeVars
  <2>4. \/ \E size \in Sizes : PrintToPdf(size)
        \/ \E id \in DOMAIN bodies : TakeBody(id)
        \/ \E i \in 1..Len(jsBodies) : TakeFetched(i)
    BY <2>1, <2>2, <2>3 DEF StreamsNext
  <2>5. \E size : Insert(size) /\ size \in Nat
    BY <2>4, LimitsFacts, CopyLen DEF PrintToPdf, TakeBody, TakeFetched, StreamsInv, CacheOK
  <2>6. QED BY <2>5
<1>2. PICK new, gone : /\ new = [len |-> size, pos |-> 0, got |-> 0, seeked |-> FALSE, eof |-> FALSE]
                       /\ gone = Evicted(size)
  OBVIOUS
<1>3. ~Oversize(size) /\ streams' = Put(Drop(streams, gone), counter, new)
  BY <1>1, <1>2 DEF Insert, storeVars, Drop, NewHandle
<1>4. /\ DOMAIN streams' = (DOMAIN streams \ gone) \cup {counter} /\ streams'[counter] = new
  BY <1>3 DEF Put, Drop
<1>5. h = counter
  BY <1>4
<1>6. size \in 0..MaxBytes
  BY <1>3, LimitsFacts DEF Oversize
<1>7. gone \subseteq DOMAIN streams
  BY <1>2, <1>6, Evicting DEF StreamsInv
<1>8. DOMAIN streams \ DOMAIN streams' = gone
  BY <1>4, <1>5, <1>7
<1>9. new.len = size
  BY <1>2
<1>10. QED BY <1>2, <1>4, <1>5, <1>6, <1>8, <1>9

\* Only the oldest streams are evicted, and none whose eviction the new one
\* did not need.
THEOREM EvictsNoMoreThanItMust == StreamsSpec => EvictsOnlyWhatItMust
<1>1. ASSUME StreamsInv, StreamsNext, NEW h \in DOMAIN streams' \ DOMAIN streams,
             NEW gone, gone = DOMAIN streams \ DOMAIN streams',
             NEW kept, kept = DOMAIN streams \ gone
      PROVE  /\ \A g \in gone, k \in kept : g < k
             /\ gone # {} =>
                  LET spared == CHOOSE g \in gone : \A x \in gone : x <= g
                  IN \/ Cardinality(kept) + 2 > MaxEntries
                     \/ SumLen(kept \cup {spared}) + streams'[h].len > MaxBytes
  <2>1. StoreOK
    BY <1>1 DEF StreamsInv
  <2>2. PICK size \in Nat : size <= MaxBytes /\ streams'[h].len = size /\ gone = Evicted(size)
    BY <1>1, NewStream
  <2>3. PICK k \in 0..Len(order) : /\ k = Evictions(size)
                                   /\ \A j \in 0..(k - 1) : ~Fits(j, size)
    BY <2>1, EvictionsFacts
  <2>4. gone = {order[i] : i \in 1..k}
    BY <2>2, <2>3 DEF Evicted
  <2>5. /\ \A g \in gone, x \in kept : g < x
        /\ Cardinality(kept) = Len(order) - k
        /\ k > 0 => /\ order[k] \in gone /\ \A g \in gone : g <= order[k]
                    /\ DOMAIN streams \ {order[i] : i \in 1..(k - 1)} = kept \cup {order[k]}
    BY <1>1, <2>1, <2>4, OldestFirst
  <2>6. ASSUME gone # {}
        PROVE  \/ Cardinality(kept) + 2 > MaxEntries
               \/ SumLen(kept \cup {CHOOSE g \in gone : \A x \in gone : x <= g}) + streams'[h].len > MaxBytes
    <3>1. Len(order) \in Nat /\ k \in Nat /\ k > 0 /\ k - 1 \in 0..(k - 1)
      <4>1. Len(order) \in Nat
        BY <2>1 DEF StoreOK
      <4>2. k # 0
        BY <2>4, <2>6
      <4>3. QED BY <4>1, <4>2
    <3>2. PICK early : early = {order[i] : i \in 1..(k - 1)}
      OBVIOUS
    <3>3. \/ Len(order) - (k - 1) >= MaxEntries
          \/ totalBytes - SumLen(early) + size > MaxBytes
      <4>1. ~Fits(k - 1, size)
        BY <2>3, <3>1
      <4>2. k - 1 # Len(order) /\ Len(order) - (k - 1) \in Int
        BY <3>1
      <4>3. SumLen(early) \in Nat /\ totalBytes \in Nat
        <5>1. early \in SUBSET (DOMAIN streams)
          <6>1. \A i \in 1..(k - 1) : i \in 1..Len(order)
            BY <3>1
          <6>2. QED BY <2>1, <3>2, <6>1 DEF StoreOK, Elements
        <5>2. QED BY <2>1, <5>1, StoreBytes DEF SumLen, Held, HeldBy
      <4>4. QED BY <3>2, <4>1, <4>2, <4>3, LimitsFacts DEF Fits
    <3>4. PICK last : last = order[k]
      OBVIOUS
    <3>5. (CHOOSE g \in gone : \A x \in gone : x <= g) = last
      <4>1. last \in gone /\ \A g \in gone : g <= last
        BY <2>5, <3>1, <3>4
      <4>2. gone \subseteq Nat
        <5>1. gone \subseteq DOMAIN streams
          BY <1>1
        <5>2. QED BY <2>1, <5>1, HandlesFinite DEF StoreOK
      <4>3. \A g \in gone : (\A x \in gone : x <= g) => g = last
        BY <4>1, <4>2
      <4>4. QED BY <4>1, <4>3
    <3>6. totalBytes - SumLen(early) = SumLen(kept \cup {last})
      <4>1. early \in SUBSET (DOMAIN streams)
        <5>1. \A i \in 1..(k - 1) : i \in 1..Len(order)
          BY <3>1
        <5>2. QED BY <2>1, <3>2, <5>1 DEF StoreOK, Elements
      <4>2. /\ totalBytes = Cardinality(HeldBy(streams, early))
                              + Cardinality(HeldBy(streams, DOMAIN streams \ early))
            /\ Cardinality(HeldBy(streams, early)) \in Nat
            /\ Cardinality(HeldBy(streams, DOMAIN streams \ early)) \in Nat
        BY <2>1, <4>1, StoreBytes
      <4>3. DOMAIN streams \ early = kept \cup {last}
        BY <2>5, <3>1, <3>2, <3>4
      <4>4. /\ SumLen(early) = Cardinality(HeldBy(streams, early))
            /\ SumLen(kept \cup {last}) = Cardinality(HeldBy(streams, kept \cup {last}))
        BY DEF SumLen, Held, HeldBy
      <4>5. PICK a \in Nat, b \in Nat : a = SumLen(early) /\ b = SumLen(kept \cup {last})
        BY <4>2, <4>3, <4>4
      <4>6. totalBytes = a + b
        BY <4>2, <4>3, <4>4, <4>5
      <4>7. QED BY <4>5, <4>6
    <3>7. CASE Len(order) - (k - 1) >= MaxEntries
      BY <2>5, <3>1, <3>7, LimitsFacts
    <3>8. CASE totalBytes - SumLen(early) + size > MaxBytes
      BY <2>2, <3>5, <3>6, <3>8
    <3>9. QED BY <3>3, <3>7, <3>8
  <2>7. QED BY <2>5, <2>6
<1>2. StreamsInv /\ [StreamsNext]_streamsVars =>
        [ \A h \in DOMAIN streams' \ DOMAIN streams :
            LET gone  == DOMAIN streams \ DOMAIN streams'
                kept  == DOMAIN streams \ gone
            IN /\ \A g \in gone, k \in kept : g < k
               /\ gone # {} =>
                    LET spared == CHOOSE g \in gone : \A x \in gone : x <= g
                    IN \/ Cardinality(kept) + 2 > MaxEntries
                       \/ SumLen(kept \cup {spared}) + streams'[h].len > MaxBytes
        ]_streams
  <2>1. ASSUME UNCHANGED streamsVars PROVE streams' = streams
    BY <2>1 DEF streamsVars, storeVars
  <2>2. QED BY <1>1, <2>1
<1>3. QED BY <1>2, StreamsInvariant, PTL DEF EvictsOnlyWhatItMust, StreamsSpec

-----------------------------------------------------------------------------
(* The page's body cache.                                                  *)

Distinct(s) == \A i, j \in 1..Len(s) : i # j => s[i] # s[j]

\* What holds one of each has as many as there are.
LEMMA DistinctCounts ==
    ASSUME NEW S, NEW s \in Seq(S), Distinct(s)
    PROVE  Cardinality(Elements(s)) = Len(s)
<1>1. PICK n \in Nat : n = Len(s)
  OBVIOUS
<1>2. PICK B : B = 1..n
  OBVIOUS
<1>3. IsFiniteSet(B) /\ Cardinality(B) = n
  <2>1. IsFiniteSet(1..n) /\ Cardinality(1..n) = IF 1 > n THEN 0 ELSE n - 1 + 1
    BY ONLY n \in Nat, FS_Interval
  <2>2. QED BY <1>1, <1>2, <2>1
<1>4. s \in Bijection(B, Elements(s))
  <2>1. DOMAIN s = B /\ s \in [B -> Elements(s)]
    BY <1>1, <1>2 DEF Elements
  <2>2. \A i, j \in B : s[i] = s[j] => i = j
    BY <1>1, <1>2 DEF Distinct
  <2>3. \A e \in Elements(s) : \E i \in B : s[i] = e
    BY <1>1, <1>2 DEF Elements
  <2>4. QED BY <2>1, <2>2, <2>3 DEF Bijection, Injection, Surjection, IsInjective
<1>5. ExistsBijection(B, Elements(s))
  BY <1>4 DEF ExistsBijection
<1>6. QED BY <1>1, <1>3, <1>5, FS_Bijection

\* Without keeps them distinct.
LEMMA WithoutDistinct ==
    ASSUME NEW S, NEW s \in Seq(S), NEW x, Distinct(s)
    PROVE  Distinct(Without(s, x))
<1>1. PICK f : KeptUpTo(f, s, x, Len(s)) /\ Without(s, x) = f[Len(s)]
  BY WithoutIs
<1>2. \A n \in 0..Len(s) : KeptSoFar(f, s, x, S, n)
  BY <1>1, KeepsSoFar
<1>3. \A i \in 0..Len(s) : f[i] = IF i = 0 THEN <<>> ELSE IF s[i] = x THEN f[i - 1] ELSE Append(f[i - 1], s[i])
  BY <1>1 DEF KeptUpTo
<1> DEFINE T == {m \in 0..Len(s) : ~Distinct(f[m])}
<1>4. ASSUME T # {} PROVE FALSE
  <2>1. PICK m \in T : \A y \in T : m <= y
    <3>1. T \subseteq Nat
      OBVIOUS
    <3>2. QED BY ONLY <1>4, <3>1, LeastOf
  <2>2. CASE m = 0
    <3>1. f[0] = <<>>
      <4>1. 0 \in 0..Len(s)
        OBVIOUS
      <4>2. QED BY <1>3, <4>1
    <3>2. QED BY <2>1, <2>2, <3>1 DEF Distinct
  <2>3. CASE m # 0
    <3>1. m \in 1..Len(s) /\ m - 1 \in 0..Len(s) /\ m - 1 \notin T
      BY <2>1, <2>3
    <3>2. PICK g : g = f[m - 1]
      OBVIOUS
    <3>3. g \in Seq(S) /\ Distinct(g) /\ Elements(g) = {s[i] : i \in 1..(m - 1)} \ {x}
      BY <1>2, <3>1, <3>2 DEF KeptSoFar
    <3>4. CASE s[m] = x
      BY <1>3, <2>1, <2>3, <3>1, <3>2, <3>3, <3>4
    <3>5. CASE s[m] # x
      <4>1. f[m] = Append(g, s[m])
        BY <1>3, <2>3, <3>1, <3>2, <3>5
      <4>2. s[m] \in S /\ Len(g) \in Nat
        BY <3>1, <3>3
      <4>3. PICK h : h = Append(g, s[m])
        OBVIOUS
      <4>4. /\ Len(h) = Len(g) + 1 /\ h[Len(g) + 1] = s[m]
            /\ \A i \in 1..Len(g) : h[i] = g[i]
        BY <3>3, <4>2, <4>3
      <4>5. \A i \in 1..Len(g) : g[i] # s[m]
        <5> TAKE i \in 1..Len(g)
        <5>1. g[i] \in Elements(g)
          BY DEF Elements
        <5>2. PICK j \in 1..(m - 1) : g[i] = s[j]
          BY <3>3, <5>1
        <5>3. j \in 1..Len(s) /\ j # m
          BY <3>1
        <5>4. QED BY <3>1, <5>2, <5>3 DEF Distinct
      <4>6. \A i \in 1..Len(h) : i \in 1..Len(g) \/ i = Len(g) + 1
        BY <4>2, <4>4
      <4>7. Distinct(h)
        BY <3>3, <4>4, <4>5, <4>6 DEF Distinct
      <4>8. QED BY <2>1, <4>1, <4>3, <4>7
    <3>6. QED BY <3>4, <3>5
  <2>4. QED BY <2>2, <2>3
<1>5. Len(s) \in 0..Len(s)
  OBVIOUS
<1>6. QED BY <1>1, <1>4, <1>5

Ids == {"req", "loader"} \X (1..MaxRequests)

\* The order lists the bodies once each, and only a body given a second name
\* since the last response goes beyond the limit.
BodiesOK ==
    /\ bodyOrder \in Seq(Ids) /\ Distinct(bodyOrder)
    /\ Elements(bodyOrder) = DOMAIN bodies
    /\ \A n \in Nat : Request(n) \in DOMAIN bodies => n <= responses
    /\ Len(bodyOrder) <= BodyEntries + 1
    /\ \A n \in (navigated + 1)..responses :
         Request(n) \in DOMAIN bodies => Len(bodyOrder) <= BodyEntries

\* The last n of a sequence.
LEMMA KeepFacts ==
    ASSUME NEW S, NEW s \in Seq(S), Distinct(s), NEW n \in Nat
    PROVE  /\ Keep(s, n) \in Seq(S) /\ Distinct(Keep(s, n)) /\ Len(Keep(s, n)) <= n
           /\ Elements(Keep(s, n)) \subseteq Elements(s)
<1>1. CASE Len(s) > n
  <2>1. PICK a \in Nat : a = Len(s) - n
    BY <1>1
  <2>2. PICK t : t = SubSeq(s, a + 1, Len(s))
    OBVIOUS
  <2>3. t \in Seq(S) /\ Len(t) = n /\ \A i \in 1..n : t[i] = s[a + i] /\ a + i \in 1..Len(s)
    BY <1>1, <2>1, <2>2
  <2>4. Distinct(t)
    <3>1. \A i, j \in 1..n : i # j => a + i # a + j
      BY <2>1
    <3>2. QED BY <2>3, <3>1 DEF Distinct
  <2>5. Elements(t) \subseteq Elements(s)
    BY <2>3 DEF Elements
  <2>6. Keep(s, n) = t
    BY <1>1, <2>1, <2>2 DEF Keep
  <2>7. QED BY <2>3, <2>4, <2>5, <2>6
<1>2. CASE ~(Len(s) > n)
  BY <1>2 DEF Keep
<1>3. QED BY <1>1, <1>2

\* One more at the end.
LEMMA OneMore ==
    ASSUME NEW S, NEW s \in Seq(S), NEW e \in S, Distinct(s), e \notin Elements(s)
    PROVE  /\ Append(s, e) \in Seq(S) /\ Distinct(Append(s, e))
           /\ Len(Append(s, e)) = Len(s) + 1
           /\ Elements(Append(s, e)) = Elements(s) \cup {e}
<1>1. PICK t : t = Append(s, e)
  OBVIOUS
<1>2. /\ t \in Seq(S) /\ Len(t) = Len(s) + 1 /\ t[Len(s) + 1] = e /\ Len(s) \in Nat
      /\ \A i \in 1..Len(s) : t[i] = s[i]
  BY <1>1
<1>3. \A i \in 1..Len(t) : i \in 1..Len(s) \/ i = Len(s) + 1
  BY <1>2
<1>4. \A i \in 1..Len(s) : s[i] # e
  BY DEF Elements
<1>5. Distinct(t)
  BY <1>2, <1>3, <1>4 DEF Distinct
<1>6. Elements(t) = Elements(s) \cup {e}
  BY <1>2, <1>3 DEF Elements
<1>7. QED BY <1>1, <1>2, <1>5, <1>6

\* A response is cached under a number no body has, and the oldest make room.
LEMMA RespondBodies ==
    ASSUME CacheOK, BodiesOK, NEW size, Respond(size)
    PROVE  BodiesOK'
<1> USE LimitsFacts
<1>1. responses \in Nat /\ responses < MaxRequests /\ responses' = responses + 1 /\ navigated' = navigated
  BY DEF Respond, CacheOK
<1>2. PICK id : id = Request(responses + 1) /\ id \in Ids /\ id \notin DOMAIN bodies
  <2>1. Request(responses + 1) \in Ids
    BY <1>1 DEF Request, Ids
  <2>2. Request(responses + 1) \notin DOMAIN bodies
    BY <1>1 DEF BodiesOK
  <2>3. QED BY <2>1, <2>2
<1>3. CASE UNCHANGED <<bodies, bodyOrder>>
  <2>1. \A n \in (navigated + 1)..(responses + 1) :
          Request(n) \in DOMAIN bodies => n \in (navigated + 1)..responses
    BY <1>1, <1>2 DEF CacheOK
  <2>2. \A n \in Nat : n <= responses => n <= responses + 1
    BY <1>1
  <2>3. QED BY <1>1, <1>3, <2>1, <2>2 DEF BodiesOK
<1>4. CASE ~(BodyEntries = 0 \/ BodyBytes = 0 \/ size > BodyBytes)
  <2>1. PICK s, kept : s = Append(bodyOrder, id) /\ kept = Keep(s, BodyEntries)
    OBVIOUS
  <2>2. s \in Seq(Ids) /\ Distinct(s) /\ Elements(s) = DOMAIN bodies \cup {id}
    BY <1>2, <2>1, OneMore DEF BodiesOK
  <2>3. /\ kept \in Seq(Ids) /\ Distinct(kept) /\ Len(kept) <= BodyEntries
        /\ Elements(kept) \subseteq Elements(s)
    BY <2>1, <2>2, KeepFacts
  <2>4. ToSet(s) = Elements(s) /\ ToSet(kept) = Elements(kept)
    BY <2>2, <2>3 DEF ToSet, Elements
  <2>5. bodyOrder' = kept /\ bodies' = Drop(Put(bodies, id, size), ToSet(s) \ ToSet(kept))
    BY <1>2, <1>4, <2>1 DEF Respond
  <2>6. DOMAIN bodies' = (DOMAIN bodies \cup {id}) \ (Elements(s) \ Elements(kept))
    BY <2>4, <2>5 DEF Drop, Put
  <2>7. DOMAIN bodies' = Elements(kept)
    BY <2>2, <2>3, <2>6
  <2>8. \A n \in Nat : Request(n) \in DOMAIN bodies' => n <= responses + 1
    <3> TAKE n \in Nat
    <3>1. ASSUME Request(n) = id PROVE n = responses + 1
      BY <1>2, <3>1 DEF Request
    <3>2. ASSUME Request(n) \in DOMAIN bodies PROVE n <= responses
      BY <3>2 DEF BodiesOK
    <3>3. QED BY <1>1, <2>2, <2>3, <2>7, <3>1, <3>2
  <2>9. Len(kept) \in Nat /\ Len(kept) <= BodyEntries + 1
    BY <2>3
  <2>10. QED BY <1>1, <2>3, <2>5, <2>7, <2>8, <2>9 DEF BodiesOK
<1>5. QED BY <1>3, <1>4 DEF Respond

\* A body gets a second name, at most one between two responses.
LEMMA AliasBodies ==
    ASSUME CacheOK, BodiesOK, NEW n, AliasBody(n)
    PROVE  BodiesOK'
<1> USE LimitsFacts
<1>1. /\ responses \in Nat /\ responses' = responses /\ navigated' = responses
      /\ n \in (navigated + 1)..responses /\ navigated \in Nat /\ responses <= MaxRequests
  BY DEF AliasBody, CacheOK
<1>2. \A m \in (navigated' + 1)..responses' : FALSE
  BY <1>1
<1>3. CASE UNCHANGED <<bodies, bodyOrder>>
  BY <1>1, <1>2, <1>3 DEF BodiesOK
<1>4. CASE Request(n) \in DOMAIN bodies /\ Loader(n) \notin DOMAIN bodies
  <2>1. Loader(n) \in Ids
    BY <1>1 DEF Loader, Ids
  <2>2. PICK id \in Ids : id = Loader(n)
    BY <2>1
  <2>3. bodies' = Put(bodies, id, bodies[Request(n)]) /\ bodyOrder' = Append(bodyOrder, id)
    BY <1>4, <2>2 DEF AliasBody
  <2>4. /\ bodyOrder' \in Seq(Ids) /\ Distinct(bodyOrder') /\ Len(bodyOrder') = Len(bodyOrder) + 1
        /\ Elements(bodyOrder') = Elements(bodyOrder) \cup {id}
    BY <1>4, <2>2, <2>3, OneMore DEF BodiesOK
  <2>5. DOMAIN bodies' = DOMAIN bodies \cup {id}
    BY <2>3 DEF Put
  <2>6. Len(bodyOrder) <= BodyEntries /\ Len(bodyOrder) \in Nat
    BY <1>1, <1>4 DEF BodiesOK
  <2>7. Len(bodyOrder') <= BodyEntries + 1
    BY <2>4, <2>6
  <2>8. \A m \in Nat : Request(m) # id
    BY <2>2 DEF Request, Loader
  <2>9. \A m \in Nat : Request(m) \in DOMAIN bodies' => m <= responses'
    BY <1>1, <2>5, <2>8 DEF BodiesOK
  <2>10. Elements(bodyOrder') = DOMAIN bodies'
    BY <2>4, <2>5 DEF BodiesOK
  <2>11. QED BY <1>2, <2>4, <2>7, <2>9, <2>10 DEF BodiesOK
<1>5. QED BY <1>3, <1>4 DEF AliasBody

\* A body leaves, or all of them.
LEMMA TakenBodies ==
    ASSUME CacheOK, BodiesOK, ClearBodies \/ \E id \in DOMAIN bodies : TakeBody(id)
    PROVE  BodiesOK'
<1> USE LimitsFacts
<1>1. responses' = responses /\ navigated' = navigated
  BY DEF ClearBodies, TakeBody
<1>2. CASE ClearBodies
  <2>1. bodyOrder' = <<>> /\ DOMAIN bodies' = {}
    BY <1>2 DEF ClearBodies, Drop
  <2>2. /\ bodyOrder' \in Seq(Ids) /\ Len(bodyOrder') = 0 /\ Elements(bodyOrder') = {}
        /\ Distinct(bodyOrder')
    BY <2>1 DEF Elements, Distinct
  <2>3. 0 <= BodyEntries /\ 0 <= BodyEntries + 1
    OBVIOUS
  <2>4. QED BY <2>1, <2>2, <2>3 DEF BodiesOK
<1>3. CASE \E id \in DOMAIN bodies : TakeBody(id)
  <2>1. PICK id \in DOMAIN bodies :
          bodyOrder' = Without(bodyOrder, id) /\ DOMAIN bodies' = DOMAIN bodies \ {id}
    BY <1>3 DEF TakeBody, Drop
  <2>2. /\ bodyOrder' \in Seq(Ids) /\ Len(bodyOrder') <= Len(bodyOrder)
        /\ Elements(bodyOrder') = Elements(bodyOrder) \ {id}
    BY <2>1, WithoutFacts DEF BodiesOK
  <2>3. Distinct(bodyOrder')
    BY <2>1, WithoutDistinct DEF BodiesOK
  <2>4. Len(bodyOrder) \in Nat /\ Len(bodyOrder') \in Nat
    BY <2>2 DEF BodiesOK
  <2>5. Len(bodyOrder') <= BodyEntries + 1
    BY <2>2, <2>4 DEF BodiesOK
  <2>6. \A n \in (navigated + 1)..responses :
          Request(n) \in DOMAIN bodies' => Len(bodyOrder') <= BodyEntries
    BY <2>1, <2>2, <2>4 DEF BodiesOK
  <2>7. QED BY <1>1, <2>1, <2>2, <2>3, <2>5, <2>6 DEF BodiesOK
<1>4. QED BY <1>2, <1>3

\* Whatever the page fetches, names or gives up, the cache keeps its order and
\* its limit; reads, closes and printouts leave it alone.
LEMMA BodiesStep ==
    ASSUME CacheOK, BodiesOK, [StreamsNext]_streamsVars
    PROVE  BodiesOK'
<1>1. ASSUME \/ \E size \in Sizes : PrintToPdf(size) \/ ScriptFetch(size)
             \/ NewRuntime
             \/ \E i \in 1..Len(jsBodies) : TakeFetched(i)
             \/ \E h \in DOMAIN streams :
                  Close(h) \/ \E from \in -1..1, size \in Sizes : Read(h, from, size)
             \/ UNCHANGED streamsVars
      PROVE  BodiesOK'
  <2>1. cacheVars' = cacheVars
    BY <1>1, RuntimeStep DEF PrintToPdf, TakeFetched, Close, Read, streamsVars
  <2>2. QED BY <2>1 DEF BodiesOK, cacheVars
<1>2. QED BY <1>1, RespondBodies, AliasBodies, TakenBodies DEF StreamsNext

\* The body cache's order lists the cached bodies once each, and its entry
\* limit is passed by no more than the second name of a main resource.
THEOREM BodyCacheKept == StreamsSpec => []BodyCacheOK
<1>1. StreamsInit => BodiesOK
  <2>1. ASSUME StreamsInit
        PROVE  /\ bodyOrder \in Seq(Ids) /\ Len(bodyOrder) = 0 /\ Elements(bodyOrder) = {}
               /\ Distinct(bodyOrder) /\ DOMAIN bodies = {}
    BY <2>1 DEF StreamsInit, Elements, Distinct
  <2>2. 0 <= BodyEntries /\ 0 <= BodyEntries + 1
    BY LimitsFacts
  <2>3. QED BY <2>1, <2>2 DEF BodiesOK
<1>2. CacheOK /\ BodiesOK /\ [StreamsNext]_streamsVars => BodiesOK'
  BY BodiesStep
<1>3. BodiesOK => BodyCacheOK
  <2> SUFFICES ASSUME BodiesOK PROVE BodyCacheOK
    OBVIOUS
  <2>1. Cardinality(Elements(bodyOrder)) = Len(bodyOrder)
    BY DistinctCounts DEF BodiesOK
  <2>2. ToSet(bodyOrder) = Elements(bodyOrder)
    BY DEF ToSet, Elements, BodiesOK
  <2>3. QED BY <2>1, <2>2 DEF BodyCacheOK, BodiesOK
<1>4. QED BY <1>1, <1>2, <1>3, StreamsInvariant, PTL DEF StreamsSpec, StreamsInv
=============================================================================
