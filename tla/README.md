# Telemaco in TLA+

Models, model-checking configurations and machine-checked proofs of the parts
of Telemaco where several actors share state: the DevTools server and what it
keeps on disk, one DevTools connection with its command processor, targets,
watchdog, screencast and response bodies, the HTTP cache behind it, the DOM's
arena of nodes, and the remote agent with its client. Everything is
translated from the Rust sources under `crates/`; file and line of every
definition are in `PROJECT.json` (`map`).

    tlc -workers 2 -config MCCdpServer.cfg MCCdpServer      # model-check
    tlapm CdpServer_proofs.tla                              # check the proofs

Contents: [inventory](#1-inventory), [modules and the code](#2-modules-and-the-code),
[runs](#3-runs), [where the code and its comments part](#4-where-the-code-and-its-comments-part),
[bounds](#5-bounds), [fairness](#6-fairness), [proofs](#7-proofs),
[what is only checked and what is left out](#8-what-is-only-checked-and-what-is-left-out),
[plan](#9-plan).

## 1. Inventory

Telemaco is a headless browser. `telemaco serve` is a DevTools (CDP) server:
one process, one OS thread per WebSocket connection, each with its own pages
and its own V8 isolates. `telemaco mcp` drives one browser from MCP tool calls.
`telemaco remote` runs programs on another machine over a framed byte stream.

| component | where | state it keeps | operations |
|---|---|---|---|
| CDP server | `telemaco-cdp/src/server.rs` (start, run_connection, handle_connection_ws) | parking list of silent sockets, handoff channel, `live_connections`, shutdown flag and notifier, one thread per connection | accept, classify, park, hand over, refuse, spawn, handshake, end, SIGTERM, drain, final save |
| cookie persistence | `server.rs` (merge), `telemaco-browser/src/context.rs`, `telemaco-net/src/cookies.rs` | `cookies.json`, the startup snapshot, the persistence jar and its lock, one jar per connection | load, isolated copy, set, delete, merge a delta, save |
| CDP processor | `server.rs` (cdp_processor, process_with_interception, handle_fetch_resolution), `telemaco-js/src/ops.rs` (op_fetch_url), `domains/fetch.rs`, `domains/runtime.rs` | command channel, deferral queue, paused requests and their resolvers, the running command or navigation | take, defer, refuse, dispatch, navigate, announce and resolve a paused request, pump, stop |
| body cache and IO streams | `domains/io.rs`, `domains/fetch.rs`, `telemaco-browser/src/page.rs` | bodies by request id, open streams in order of age, byte account, next handle | record, alias, take as a stream, print to PDF, read, seek, close, evict |
| remote agent | `telemaco-remote/src/agent.rs`, `protocol.rs` | session phase, the frame in the reader's channel, a child, its pipes, its deadline | handshake, ping, status, exec, cancel, drain, kill, hang up |
| remote client | `telemaco-remote/src/client.rs`, `telemaco-cli/src/remote.rs` | the stream, the call under way | handshake, ping, status, exec, cancel with grace |
| dispatcher, targets | `telemaco-cdp/src/dispatch.rs`, `domains/target.rs`, `domains/runtime.rs` | pages, sessions, browser contexts, Runtime subscriptions, which page holds the isolate | create, attach, detach, close, dispose, enable, suspend, resume |
| command watchdog | `telemaco-js/src/cdp_watchdog.rs`, `dispatch.rs` | armed slots by generation, the thread's sleep, V8's termination flags | arm, fire, disarm, clear |
| screencast | `telemaco-cdp/src/domains/page.rs` | one stream per session: frames in flight, what was sampled and seen last | start, stop, acknowledge, tick, capture, skip |
| resource cache | `telemaco-net/src/client.rs` | entries with expiry, their queue, byte count, a leader per key, requests in flight | look up, elect, follow, fetch, redirect, store, release, tell, drop |
| page and navigation | `telemaco-browser/src/page.rs` | history, lifecycle, subresources | navigate, follow script navigations, go back and forth |
| JavaScript runtime | `telemaco-js/src/{runtime,ops,frame,...}.rs` | isolates, event loop, frames, modules | evaluate, pump, terminate |
| DOM | `telemaco-dom/src/tree.rs`, `tree_sink.rs` | slots with their links and cached connectivity, free list, shadow root registries, id index | create, append, insert, detach, remove, attach a shadow root |
| transports of HTTP, robots | `telemaco-net/src/{wreq_client,robots,...}.rs` | connection pools, robots cache | request, decode |
| MCP server | `telemaco-mcp/src/{lib,http}.rs` | one browser, tabs, config | one request after the other |
| transports | `telemaco-remote/src/transport/*.rs` | a child process per connection | connect, forward, serve |
| CLI, installer, layout and paint, library API | `telemaco-cli`, `telemaco-render`, `telemaco` | - | - |

How they interact. The accept thread hands a socket over a bounded channel to
the main loop, which reserves a slot and starts a thread. On that thread a
reader task feeds commands into an unbounded channel and the processor takes
them out; a navigation runs as a third task, and only the processor answers the
requests that it pauses. Pages report paused requests through a channel and
wait on a oneshot. A command goes from the processor to the dispatcher, which
finds the session's page, gives it the isolate, arms the watchdog (one thread for
all connections) and afterwards drains events and screencast frames. Pages share
the HTTP client with its cache. When the processor ends, the thread merges its cookies into
a jar all threads share, under a lock, and writes it to a file that the next
run of the process loads. The agent's reader and session are two futures of one
task joined by a channel of one frame; the child is reached through pipes.

What makes each component correct, and what is hard in it:

* **CDP server.** Every accepted socket is held by exactly one part until it is
  answered; slots are neither leaked nor given back twice; queues stay bounded;
  no silent, dead or wedged connection stops the others; shutdown merges before
  it saves and does end. Hard: five kinds of threads, a notifier that keeps no
  permit, an accept that blocks, a signal at any moment, an early return
  anywhere.
* **Cookie persistence.** The file is never a torn or old jar; a connection's
  changes reach it; a connection does not undo another's. Hard: all connections
  start from one snapshot and end in any order; the final save does not take
  the lock; crashes, failing saves, and cookies that expire in the meantime.
* **CDP processor.** Each command is replied to once and in turn; a paused
  request is decided by the client and by nobody else; nobody waits in a
  circle. Hard: two loops over the same channel, a deferral queue with a limit,
  ids that start anew with each document, navigations that the page starts.
* **Body cache and IO streams.** The caps hold; a handle names one body for
  ever; a download is complete. Hard: eviction and closes out of order, the
  boundaries of sizes, a body between two owners.
* **Remote agent and client.** One answer per request, one verdict per program,
  no program left behind, deadlines kept; a session stays in step. Hard: cancel,
  exit, deadline and disconnect in the same moment, two bounded streams that
  can fill up, a timeout in the middle of a frame.

* **Targets and sessions.** Client and server agree on the sessions; nothing
  outlives its page; one isolate at a time. Hard: attachments, subscriptions,
  contexts and pages end in any order, each cleaned up in a place of its own.
* **Command watchdog.** What overruns is ended, and nothing else is. Hard: one
  thread and one table for all connections, a termination that arrives late, a
  sleep that is longer than a deadline armed since.
* **Screencast.** Flow control is exact, the last change is shown, a page at rest
  costs nothing. Hard: a change that meets a full window, a stream replaced with
  frames in flight, counters that start over.
* **Resource cache.** One transport per key, no stale answer, nobody left waiting.
  Hard: four critical sections per leader, and a future that may be dropped at
  each of its awaits.
* **DOM arena.** Lists are lists, no cycle through shadow hosts, connectivity is
  exact, slots are not handed out twice. Hard: the check for cycles has a short
  cut, links are read before and after a node is taken out, the flag is cached.

`PROJECT.json` lists the hazards, each at its line, with the properties that cover it.

## 2. Modules and the code

| module | models | extends or instantiates |
|---|---|---|
| `ResponseStreams` | body caches of a page and of its runtime, IO stream store | |
| `CdpServer` | accept thread, main loop, connection threads, signal thread | |
| `CookiePersistence` | jars, merge, save, crash and restart | |
| `SessionContract` | what protocol.rs promises of a session, abstractly | |
| `RemoteAgent` | the agent's session against any peer | instantiates `SessionContract` |
| `RemoteSession` | the agent and the client, composed | extends `RemoteAgent` |
| `CdpProcessor` | one connection's command loop and interception | |
| `CdpTargets` | targets, sessions, contexts and subscriptions of one connection | |
| `CommandWatchdog` | watchdog thread, commands and turns of all connections | |
| `Screencast` | one session's screencast | |
| `ResourceCache` | cache, shared fetches, requests in flight | |
| `Forest` | what the DOM's arena promises, abstractly | |
| `DomTree` | the arena | instantiates `Forest` |
| `MC*` | small instances | the module they check |
| `CdpServer_proofs`, `CookiePersistence_proofs`, `RemoteAgent_proofs`, `ResourceCache_proofs`, `CommandWatchdog_proofs`, `CdpProcessor_proofs`, `CdpContext_proofs`, `DomTree_proofs` | theorems | the module they prove about; `RemoteAgent_proofs` extends `RemoteSession` and proves about both, `CdpContext_proofs` about `CdpTargets`, `Screencast` and `ResponseStreams`, what a connection's `CdpContext` holds |

Definitions named `X_Something` are faulty variants of `X`: what the code would
be with a plausible mistake in it. Nothing uses them; each shows, put in the
place of `X`, that some property would notice.

**ResponseStreams.** A body is its length. One action per operation:
`Respond` (record_network_event_with_body with its eviction), `AliasBody`,
`ClearBodies`, `TakeBody` (Fetch.takeResponseBodyAsStream: out of the cache,
into the store), `PrintToPdf`, `Read` (with and without an offset), `Close`.
`ScriptFetch` is what op_fetch_url keeps in the runtime, `NewRuntime` its end, and
`TakeFetched` the same method on such a body: it is copied and stays, against
page.rs:4171 and fetch.rs:194, which say that a taken body is held once.
`Insert` is IoStreamStore::insert: the size check, the eviction loop and the
handle counter that runs out. What a client has received of a stream (`got`,
`seeked`, `eof`) is history for the properties.

**CdpServer.** `acceptPc`, `mainPc` and `thread[c]` are the program counters of
the accept thread, the main loop and each connection's thread; `proc[c]` is the
processor on it. `AcceptBlocking`, `AcceptDrain`, `Sweep` and `SweepDone` are
the accept loop: block while nothing is parked, otherwise drain the kernel's
queue, peek at every parked socket, sleep. `MainReceive`, `MainReserve`,
`MainRefuse`, `MainSpawn` and `MainSpawnFails` are the main loop with
fetch_update on the slot count; `ThreadRuns` to `ThreadExits` a connection's
thread, whose slot guard drops on every way out (`Unwind`, `ThreadFails`,
`HandshakeFails`). The signal comes in two steps, `SignalArrives` (the flag)
and `NotifyWaiters`, since the notifier wakes only futures that exist then:
`heard` and `procHeard` say whether the current future has fired. The age of a
parked socket and the drain's deadline are left to chance.

**CookiePersistence.** A cookie is who wrote it and when it expires; a jar maps
keys to cookies. `Open` copies the startup snapshot, `Change` is every way to
set or delete, `Close` ends the session. `LockPersistence` takes the lock and
lists the jar, `MergeDelete` and `MergeSets` are merge_cookie_delta step by
step, `ThreadSave` and `ThreadSaved` the save, which holds the jar's read lock
from listing to rename. `MainSave` is the final save, outside the lock, after a
drain that may give up. `Crash` is possible between any two steps, `Boot`
loads the file.

**RemoteAgent.** `ReadFrame` and `QueueFrame` are the reader with its channel of
one; `Took` is next_frame. `Handshake`, `Serve`, `RefuseExec` and `StartExec`
are the requests outside an exec, the next six actions are the branches of the
select loop of exec, `Drained` and `DrainTimeout` the second after the exit.
A response is written in two steps, `WriteHead` and `WriteBody`, and holds up
the session while it is (`Free`), which is how back pressure and a frame cut
short come into the model. `ProgramWrites`, `ProgramExits`, `HeirExits` and
`TimePasses` are the world. In the log a response carries the number of the
request it is for; the wire does not, only properties read it.

**RemoteSession.** The client's calls (`SayHello`, `Call`, `Exec`), the cancel in
two steps, since the client does not read while it sends, and what it makes of
the frames it receives (`Receive`, `ReceiveGarbage`, `AgentGone`,
`GraceExpires`). The transport may break under a call (`Breaks`). `ReuseAfterCancel` says whether a caller goes on with a session
after an exec it cancelled; `telemaco remote exec` makes one exec per
connection and does not.

**CdpProcessor.** `mode` is what the processor is at: its outer loop, a command
in dispatch, a navigation the page asked for that is dispatched on the spot, or
a navigation as a task with the inner loop beside it. `Takes` is the order of
the outer loop, `NavAnswer` and `NavDefer` the inner loop's text test and its
queue with a limit. A paused request goes from `Fetches` through `chan` to
`Announce`, which puts its resolver under its number, and on to `Resolve`.
`NewDocument` is init_js: numbers start from one and what waited is dropped.

**CdpTargets.** The processor runs one command at a time to its end, so a command
is one step. The variables are the maps of CdpContext, and `held`, the sessions
the client on the other side was told of and not told to drop. `CreateTarget`
comes with and without an address (with one it starts an isolate at once,
`loaded`); `closeTarget` with the name of the browser target closes nothing.
`RemovePages` is remove_page, `Refreshed` the recount of a page's subscribers
that every change of subscriptions ends with. `UsePage` is any command that takes
its page by get_session_page_mut and so moves the isolate; `UseBrowser` is one
sent on the browser's own session, which finds no page and still suspends the
live one. `LoseIsolate` is navigate_blank.

**CommandWatchdog.** Time is what is left of a budget; `Tick` takes one from every
armed slot and from the thread's sleep. `Arm`, `Disarmed` and `Pass` hold the
table's mutex; `Pass` is one turn of the thread: fire what is due, then sleep up
to the nearest deadline or for ever. A connection's work is `Dispatch`, `Run`,
`Replace` (the handler disposes of the isolate), `Cut` (V8 sees its flag),
`Return`, `Finish` (disarm and clear the flag), and `Turn` for an event loop turn.
`DispatchDotless` is a method name without a dot, which returns with its slot
armed. `Resume` gives a page its isolate inside the handler, after arming.

**Screencast.** What the page looks like is the number `view`; `generation` is the
count the pump compares, which starts over with a document (`Navigate`) and with
a runtime (`Suspended`). `Queue` is queue_screencast_frame with its two early
returns (window full, sampling), its capture and the captures that fail after the
counter advanced (`Fails`); `Noticed` and `Tick` are the pump, `Command` the attempt
after a command. `prepared` says whether the retained scene has an active animation.
Everybody who renders the page or reads its computed styles samples the scene anew or
drops it (`Scenes`, `Rendered`), not only the captures; an image or a font that
arrives counts nothing (`Loaded`). The ghost `followed` says that no change has
escaped both the count and the pump since the stream last saw the page. Wrong
parameters leave the old stream (`StartRefused`), a failing first frame ends it too
(`StartFails`). Frames and acknowledgements are queues between server and client
(`Show`, `Acknowledge`).

**ResourceCache.** A request is a process: `Start` computes the key, `Hit`,
`Follow` and `Lead` are the three ways out of the one critical section, `Send`,
`Redirect`, `Receive` and `Fail` the transport, `Store`, `Release` and `Tell` the
leader's three steps after it, `Hear` a follower's, `Cancel` a future dropped at
any await, with what the guards do then. A response is named by the request that
brought it; what its headers say is a choice of `Lifetimes` and `Sizes`. `JarChanges`
says whether credentials may come to the client between a key and its request.

**DomTree, Forest.** A slot is a record of links, kind and flag, `Vacant` when it
holds no node. The operations write the arena in the code's stages: `Detached`
(out of the old place), `LinkLast` or `LinkBefore` (into the new one), `Settled`
(the flags of the subtree). `WouldCreateCycle` has the code's short cut for nodes
without children. `RemoveNode` frees a subtree with its shadow trees, `NewNode`
takes a freed slot or a new one; the order of free_list is abstracted, any free
slot may be next. `Forest` has what the operations come to (`Create`, `Place`,
`Take`, `Attach`, `Free`) on parents, a next sibling and a host per shadow root,
with connectivity defined as a walk to the document. Three calls that the code
accepts spoil a tree: the document given as a child, the document removed, and a
fragment that is attached to a host inside it. They are steps of the model like any
other; `intact`, which no guard looks at, records that none was made, and the
properties speak of a tree that is intact. Section 4 has what comes after.

## 3. Runs

| run | module, cfg | shows |
|---|---|---|
| `streams` | MCResponseStreams | the store's books and caps hold, sequential reads are complete, a taken body is streamed |
| `server_live` | MCCdpServerLive | slot count exact, a drain that did not give up has merged everything; every connection is decided though others are silent, wedged or endless; the slot of a client that left comes back, unless it is held by a command that the watchdog was not armed for; a shutdown ends at the latest with the next connection |
| `server_shutdown` | MCCdpServerShutdown | violated: see section 4 |
| `cookies` | MCCookiePersistence | the file follows the jar, no save tears a merge, deltas persist and touch nothing else |
| `remote_agent` | MCRemoteAgent | the agent implements `SessionContract`; nothing unanswered; deadline and disconnect stop the program |
| `remote_session` | MCRemoteSession | a call returns its own answer, calls return and cancels are confirmed |
| `processor` | MCCdpProcessor | one reply per command, in order, none lost; no circular wait |
| `targets` | MCCdpTargets | nothing outlives its page, collection follows the subscribers, client and server agree on the sessions, one page has the isolate |
| `watchdog` | MCCommandWatchdog | a termination reaches only the command that overran; an armed overrun ends |
| `screencast` | MCScreencast | flow control is exact, a page at rest is left alone, the last change that the count or the pump sees is shown |
| `cache` | MCResourceCache | one leader per key, limits kept, nothing stale, requests in flight counted exactly, no follower left waiting |
| `domtree` | MCDomTree | the arena implements `Forest`; its links agree and no walk up is endless |

The invariants, action properties and liveness properties stand at the end of
each module, each with what it says and which code it is about. Some stated there
are in no run, most of them because a theorem has them for every value of the
constants (`TypeOK`, `HeldOnce`, `QueuesBounded`, `Isolated`, `WritesCurrentJar`,
`NoOrphan`, `WakesInTime`, `SlotsExact` of DomTree, `BodyCacheOK`,
`EvictsOnlyWhatItMust` and `HandlesNotReused` of ResponseStreams, `AtRest` and
`ClientTypeOK` of RemoteSession, `NeverUndecided` of CdpProcessor), one because
stronger ones stand beside it (`FramesTaken` of RemoteAgent). All of these hold
on the instances of the runs when added to the cfg. MCCdpServer is a larger instance of the server for its safety alone (three
connections that send any kind of head, two parking places).

Two refinements. `Contract` in RemoteAgent is `SessionContract` with the session's
phase mapped to the job it does (`Job`), the cause and log taken over, and
everything about frames, writes and polling hidden. The property checks that
every step of the agent, any cut write and any loss of the peer included, is a
step of the contract or none. `IsAForest` in DomTree is `Forest` with parents,
next siblings and hosts read off the slots and the cached flags in the place of
the connectivity that `Forest` defines: an operation that leaves a flag wrong
anywhere, or a slot with a relation of its last node, is no step of `Forest`.

## 4. Where the code and its comments part

One run expects a violation, and `findings` in `PROJECT.json` quotes the line it
contradicts. `server_shutdown` (`ShutdownCompletes`): the comment at server.rs:320
says the signal stops the accept thread and wakes the server. The accept thread
may be blocked in accept() and looks at the flag only afterwards; the main loop
makes its notified future anew each round, and a notification between two rounds
is lost. The process then waits for another connection. `server_live` shows that
the next connection is enough.

Further configurations state what a comment, a test's name or the documentation
says, and fail. They are not among the runs of `PROJECT.json` and are kept to be run
by hand (`tlc -config <cfg>.cfg <module>`); a property of a passing run that makes the
exception explicit covers the same lines.

| cfg | property | what it shows |
|---|---|---|
| MCCookieExpiry | `UntouchedNeverOverwrite` | server.rs:568 says unchanged cookies cannot overwrite another connection's updates. A cookie that expires in a connection's stale copy looks deleted (618), and the merge deletes the refreshed one. `OthersKept`, with that exception, holds and is proved |
| MCRemoteSessionReuse | `OwnAnswer` | protocol.rs:11 says each request gets one response, in order. A cancel that crosses the verdict is answered with an error nobody waits for (agent.rs:123); whoever goes on with the session gets every answer one call late. The one caller in the repository opens a connection per exec and is not affected |
| MCCdpProcessorStale | `OwnDecision` | request ids start over with each document (ops.rs:2407): the answer to a request of the last one decides the request of the same number in the new one |
| MCCdpProcessorTold | `ToldBeforeTimeout` | only the processor announces paused requests, and not while it dispatches a command (runtime.rs:148): an evaluate that awaits its own request holds it until the evaluation times out |
| MCResourceCacheBearers | `BearersBypass` | the test at client.rs:2416 is named authorization_and_cookie_bearing_requests_bypass_resource_cache. The key is computed before the request reads jar and headers again (1205): credentials that come in between are sent, and the answer is cached |
| MCCommandWatchdogHang | `EveryHangEnds` | dispatch.rs:482-488 says a hung page is terminated, page.rs:3818 that the watchdog bounds any one command. A page that gets its isolate inside the handler was not armed (dispatch.rs:496) |
| MCCdpTargetsIsolates | `EveryPathKeepsOneIsolate` | server.rs:1310-1318 says get_session_page_mut keeps one entered isolate per thread; createTarget with an address navigates the new page beside it (target.rs:93) |
| MCScreencastNewest | `NewestStateCaptured` | a new document, or a runtime that was suspended, counts its activity from 0 and may end on the very count the stream saw last (page.rs:799); an image or a font that arrives counts nothing (ops.rs:5644); an animation's end that a script's read of computed styles samples first is no active scene to the pump (ops.rs:5911): the client keeps the old picture, against page.rs:773 |
| MCDomTreeDocument | `SiblingsEnd` | the test at tree.rs:2309 says append_child never makes a cycle of siblings, tree.rs:793 that the document has no ordinary parent. `append_child` takes the document as a child of a detached element; done twice, `detach_for_reparent` skips it (797) and the document becomes its own sibling. `LinksAgree` and its like are about the tree before such a call |
| MCCdpServerDeadline | `DeadlineOnlyForWedged` | an idle client keeps its thread alive until the drain's deadline (server.rs:1689, against the comment at 433) |
| MCRemoteAgentFrames | `FramesWhole` | the drain's timeout leaves half an output frame on the wire (agent.rs:316) |
| MCRemoteAgentFrames, with `AnswersInOrder` and MaxSends 3 | `AnswersInOrder` | a request during an exec is refused before the exec has its verdict (agent.rs:287) |
| MCRemoteAgentStall | `DeadlineStops` | a peer that stays and does not read keeps the program past its deadline (agent.rs:271) |
| MCCdpProcessorMention | `EveryCommandReplied` | an evaluate whose text names a Fetch answer is neither run nor replied to during a navigation (server.rs:1425) |

Met while reading, and outside the models:

* Frame ids restart with each document (ops.rs:326, 3901), while announced_frames
  (dispatch.rs:49) is cleared only when the page goes: drain_frame_events
  (dispatch.rs:739) does not announce the first frame of the next document.
* The id index hears of setAttribute but not of removeAttribute (ops.rs:1762), so
  getElementById goes on finding an element by an id it has lost; with two
  elements of one id the last set wins, against the comment at tree.rs:580.
* Fetch.disable drains a map that nothing fills (fetch.rs:99); Browser.close
  queues its reply and aborts the task that would send it (server.rs:1700).
* A Fetch method that is no answer, but names a paused request, drops that
  request's resolver (server.rs:1226): MCCdpProcessorStale with the Kinds
  "navigate" and "other" and one document shows it.
* active_requests is 0 for a moment between two hops of a redirect, so that an
  idle network may be reported in the middle of a chain (client.rs:1556).
* startScreencast replaces the running stream before its own first frame
  succeeds; when that fails both are gone (page.rs:1536).
* An update renames two files; when the second rename fails the worker is newer
  than the executable (update.rs:235).

## 5. Bounds

Every bound is a constant of the module or a limit of the code made small.

* `streams`: two entries, four bytes, chunks of two, three handles before the
  counter runs out, three responses and two script fetches of 1, 3, 4 or 5 bytes,
  caches of one body. Enough for an insert
  that evicts one or both streams, one that fills the store exactly, one that is
  refused, a body read in several chunks, and a handle counter at its end.
* `server_live`: two connections, one slot, a channel of one, one parking place:
  one connection that misbehaves and one that must not suffer. Both speak
  WebSocket, if at all; heads that are incomplete or ask for `/json` end in the
  accept thread and are in MCCdpServer (by hand) and in the proofs.
* `cookies`: two connections, two keys, expiry times before and after the clock's
  last tick, two runs of the process, one failing save. Two connections are what
  a conflict takes; a third would only repeat one of the two roles. Symmetry in
  connections and keys.
* `remote_agent`: four frames of five kinds (one each for the handshake, a cancel,
  an exec without and with a timeout, and lost framing), one frame in each
  direction, a pipe of one chunk. One frame of room is the worst case for back
  pressure. The kinds left out (`badhello`, `ping`, `status`, `badexec`,
  `malformed`) take the path of one that is in, with another answer: `ping`,
  `status` and `malformed` that of `cancel` outside an exec, `badexec` that of an
  exec that is forbidden, `badhello` that of any first frame but a hello.
* `remote_session`: five frames from the client: the handshake and two calls with
  room for a cancel. Being out of step by one answer shows by then. `status`
  stands for both short calls; `ping` is the easier of the two, since its answer
  repeats its nonce. It is in MCRemoteSessionReuse.
* `processor`: four commands besides answers, at most three navigations, one
  evaluation and one of the other kinds among them (`MaxOf`), a deferral queue of
  two, two documents with one request each. That is a navigation, two commands
  deferred in either order and one refused; a deferred navigation that defers more
  while an older command waits; or two navigations with a stale answer between them.
* `targets`: two targets, two attachments by hand, one browser context. Two of each
  is what "the other one" takes: another session of the page, another page of the
  context.
* `watchdog`: two connections, three pages (two share an isolate's place), a budget
  of two ticks, three slots. Two connections make a stranger's slot; two pages of
  one connection a suspended isolate; a budget of two a deadline nearer than
  another. One client sends names without a dot.
* `screencast`: four views, two streams, every frame or every second. A window of
  two (the code's) is full with the second view, meets the third and has one more after it; two
  streams make a late acknowledgement.
* `cache`: three requests for up to three keys, a cache of two entries and two bytes,
  bodies of 0 to 3, one redirect, one tick of the clock, credentials that hold still. A
  leader, its follower and a stranger; three empty bodies meet the entry limit, two
  longer ones the byte limit, the third insert may have to evict both others, and the
  longest body is refused. Keys are named in the order they are first asked for, as
  requests are in the order they start, which loses nothing: no key differs from
  another.
* `domtree`: the document and four more slots. A host, its root, a child of the
  root and one more node to move are the shortest cycle through a shadow tree;
  slots are reused as often as the behaviour likes. Behaviours are followed up to
  and including the first call that spoils the tree (`Intact`, a constraint): of what
  comes after, the properties say nothing.

## 6. Fairness

Threads and tasks run when they can (weak fairness of each thread's steps).
Where an action is disabled again and again by something unrelated, strong
fairness stands for what the code does:

* `CdpServer`: accept() returns when a connection is there, and a parked socket
  grows old; timeouts of the handshake and of peeking; the watchdog ends what V8
  does in a command it was armed for (WF of `c \notin unarmed /\ Unwedge(c)`), which
  `OverrunsEnd` of `CommandWatchdog` justifies. Nothing is assumed of the others,
  whose page got its isolate inside the handler (EveryHangEnds): they may hold
  their slot for ever, and `SlotComesBack` excepts them. A select! polls its other
  branches when one is busy.
  Nothing makes a client speak or leave, and no fairness ends a session.
* `CommandWatchdog`: every connection's own work goes on, the thread makes its
  passes, time passes. An endless script goes on for ever unless it is cut. The
  run turns the deadlock check off: an endless command that was never armed
  wedges its connection, and when all are wedged the system really stops.
* `Screencast`: the tick comes when the thread is free (WF of `Tick`: the branch
  comes after commands in the biased select, and clients pause), the client shows
  and acknowledges every frame, an animation ends. Nothing makes a page change. SF
  of `Delivers` assumes of the page, not of the code, that captures tried for ever do
  not fail for ever; a tick's samplings come round by WF of `Tick` alone.
* `ResourceCache`: a request that can go on does, and a transport ends, by its
  timeout at the latest. Nobody has to cancel, and time need not pass.
* `CdpTargets` and `DomTree` have safety properties only.
* `RemoteAgent`: the branches of the select loop are polled from a random one, so
  one that is ready over and over is taken (strong). Time passes. Programs need
  neither write nor exit. The peer's reading is fair in `PolitePeer` only.
* `RemoteSession`: the client's futures are polled; callers need not call, cancel
  or leave, except after a call that failed; the grace period need not pass, so
  `CancelConfirmed` is not true merely because the client gives up.
* `CdpProcessor`: evaluations and navigations end, by their timeouts at the
  latest; a client that stays answers what is paused. Strong fairness of the
  announcements assumes that the client's commands and the page's event loop
  pause now and then: the select of the outer loop is biased and nothing in it
  bounds how long the earlier branches win. Like that of `Delivers`, it is an
  assumption the code does not enforce; no property covers its failure.

## 7. Proofs

`CdpServer_proofs`, for any finite set of connections and any limits:

* `Typing`: `TypeOK`.
* `Placed`: the inductive invariant. `Apart` says that the kernel's queue, the
  parking list, the sweep's list, the channel, the main loop's hand and the
  threads have no connection in common and none twice; `Decided` ties `outcome`
  and `thread` to where a connection is. Without it none of the others is
  inductive: that a slot is given back once needs that a thread is spawned once,
  that needs that a connection is in the channel once, and so on back to accept.
* `SlotCount` (`SlotsExact`): one step per action; only reserving, a failed spawn
  and the end of a thread change either side. `NoSocketLost` (`HeldOnce`)
  follows from `Placed` alone. `DrainComplete` (`DrainedMeansMerged`) adds that
  no thread is left once the drain ended (`live` is zero, and `SlotsExact` turns
  that into threads). `Bounded` (`QueuesBounded`) adds that the parking list is
  empty when the accept thread blocks.

`CookiePersistence_proofs`, for any connections, keys, expiry times and number
of crashes:

* `Typing`; `LockHolder`: the persistence lock is held by exactly the connection
  between its lock and its save.
* `MergeKeepsOthers` (`OthersKept`): keys a connection did not touch are, up to
  expiry, as in its initial copy (`Untouched`), and what is still to delete was
  in the initial copy and is not in the jar (`DeletedOK`).
* `MergeKeepsChanges` (`ChangesPersist`): `ResultInv`, that until the save ends
  nobody else changes the persistence jar, from the lock.
* `JarsIsolated` (`Isolated`).
* `CrashLosesNothing` (`DiskFollowsJar`), `RenamesAreCurrent`
  (`WritesCurrentJar`): `SaveInv`, that a snapshot equals the jar as long as its
  saver holds the read lock, and that the file equals the jar once a save has
  succeeded and nothing has merged since.
* `SavesAreWhole` (`NoTornSave`): a main thread that is past a drain which did not
  give up has no connection left to merge.

`RemoteAgent_proofs`, for a peer that sends any of the frames in any order, any
room in the streams and the pipe, and any number of frames:

* `Typing` (`TypeOK`), through `Typed`, which also types the unwritten and the
  sent responses.
* `NoProgramLeft` (`NoOrphan`): inductive as it stands; every way out of the
  select loop, and every end of the session, stops the program.
* `EveryRequestAnswered` (`NothingUnanswered`): the invariant `AnswerInv` says
  in every phase what may be unwritten (`OutOK`), whose program was stopped last
  and that it has no verdict yet (`CurrentOK`), and that until the session ends
  the requests taken are exactly those answered, absorbed or owed (`Accounted`).
  The property alone is not inductive: it speaks of the session at rest, and
  what a write completes must be known to be the answer that was missing.
* `AgentKeepsContract` (`Contract`): the initial state is one of
  `SessionContract`, and every step is one of its steps or changes nothing it
  speaks of. Freshness of an answer is `AnswerInv`; that its number is one the
  contract knows is `Counted`, that no more is taken than was sent. The steps
  that stutter are the transport's, output frames, and taking a request; an
  answer is given when the body of its frame is written.
* `AnswerIsOwn` (`OwnAnswer`, if not `ReuseAfterCancel`): `SessionInv`, whose part
  `SessionOK` holds for as long as the client may still be answered (`Listening`).
  Nothing on the wire carries a number, so the invariant accounts for everything
  between the two by its place: what was sent is taken, in the reader's channel,
  in its hand or on the stream, in that order, and behind the call there is one
  cancel at most (`Underway`, `Numbered`); of the answers on the stream the call's
  comes before the cancel's (`Arriving`, `Ordered`); the session owes the call's
  answer first and the cancel's after it (`Owing`); between calls nothing is left
  over (`Resting`). The last is what a caller that goes on after a cancel breaks: the
  run MCRemoteSessionReuse shows `OwnAnswer` violated with the constant TRUE, so the
  hypothesis is needed. The proof has one lemma per kind of step (reader, reply,
  verdict, head, body, ask, cancel, receive) on top of `AnswerInv`.
* `ReadyIsAtRest` (`AtRest`, under the same hypothesis): `RestInv` adds to `SessionInv`
  what the client may rely on of the agent. It sends only what the agent's phase has
  an answer for, so a session with a listening client is neither closing nor back in
  its handshake (`Phases`); the frame that carries the call's number is the request it
  asked, wherever it is on its way (`Sending`); and the answer to a call without a
  cancel is the last thing on the stream (`Emptied`). With `NoOrphan` that leaves
  nothing for the next call to find.
* `SessionTypeCorrect` (`TypeOK`, `ClientTypeOK`), for any caller.

`ResourceCache_proofs`, for any number of requests and keys and any limits:

* `CacheInvariant`: `Inv`, request by request and key by key. `OneLeader` is part of
  it; besides it says what a role implies (`Roles`), what is known of a response
  from when it is received (`Responses`), and what a follower relies on
  (`Following`): its leader's key, and that it looked before the response expired.
* `LeaderIsUnique` and `NothingStale` follow. `CountIsExact` (`InFlightExact`) adds
  one lemma per change of the set of requests on the wire.
* `CacheWithinLimits` (`WithinLimits`), from `Limits`: the byte account is the number
  of bytes the entries hold, and every cached key is in the queue, where expired keys
  may stand again and again. That the loop's evictions end in a state where the new
  entry fits is shown by the least number of pops that makes it fit.
  `CacheTypeCorrect` (`TypeOK`).

`CommandWatchdog_proofs`, for any finite sets of connections and pages and any budget:

* `WatchdogInvariant`: no two connections hold one token, and a slot on the isolate
  of a careful client is the one its connection holds for the page it works on.
* `TerminationIsOwn` (`CutsReachOnlyTheirCommand`) and `NoSleepPastDeadline`
  (`WakesInTime`), the safety half of what `OverrunsEnd` checks.

`CdpProcessor_proofs`, for any number of commands, documents and requests and any
limit of the deferral queue:

* `ProcessorInvariant`: `Inv`. Commands wait in the order they were sent, the
  deferred ones before those still in the channel (`Queued`); the command in hand and
  all that ran came before any that waits (`Before`); what waits or is in hand has no
  reply, and an ordinary command that neither waits nor is in hand has one
  (`Replied`); outside a command and a navigation nothing is in hand (`AtWork`). The
  properties alone are not inductive: that a reply is the first needs that a queue
  holds a command once, which follows from its order.
* To the queues every action is one of six steps (sent, run, set aside, put off,
  ended, idle), with one lemma each. `RepliesOnce` (`RepliedOnce`), `RunsInOrder`
  (`InOrder`) and `NothingIsLost` (`NothingLost`) follow from `Inv`.
* `RequestInvariant`: `RequestInv`, about requests. No command and nothing between
  page and client names a document to come (`Told`); a resolver waits under the number
  of its own request, and what was let go was named, by number, in a Fetch command
  (`Decided`). `NoneGoesUndecided` (`NeverUndecided`) follows, without a hypothesis: a
  request is decided by the answer to it or for lack of a session, and otherwise only
  by an answer to an earlier document's request of its number or by a Fetch method
  that is no answer. Section 4 shows that the code does meet both
  (MCCdpProcessorStale, `OwnDecision`); nothing else decides a request.
  `ProcessorTypeCorrect` (`TypeOK`).

`CdpContext_proofs`, targets, for any number of targets, attachments and contexts:
`TargetsInvariant` is the conjunction of the properties and `MadeByCounters`, that
what the client ever held has numbers the counters have given: without it a new
session could be one the client holds from before. `NothingOutlivesItsPage`,
`CollectionFollowsSubscribers`, `ClientAgreesOnSessions`, `OneIsolateAtATime`.

`CdpContext_proofs`, screencast, for any samplings and any number of streams:
`ScreencastWindow` (`WindowIsExact`, with `ScreencastTypeOK`). The count in flight is
the frames of this stream on their way plus its acknowledgements on the way back; a
stream that starts has neither (`NoneYet`), because ids are never given twice, and an
old stream's acknowledgement changes neither side.

`CdpContext_proofs`, streams, for any limits and any lengths:

* `StreamsInvariant`: `StreamsInv`. Of the store (`StoreOK`): the order is increasing and lists
  the open streams, the account is the size of the set of bytes they hold, the cursor is what
  an unseeking client has received. `StoreKeepsItsBooks` (`BooksKept`),
  `ReadsAreComplete` (`SequentialReadsAreComplete`) and `StreamsTypeCorrect` follow.
* `TakenIsStreamed` (`TakenBodyIsStreamed`); `FreedStaysFreed`
  (`HandlesNotReused`), `EvictsNoMoreThanItMust` (`EvictsOnlyWhatItMust`): the same
  invariant, of a step.
* `BodyCacheKept` (`BodyCacheOK`): `BodiesOK`. The order has no body twice and its
  elements are the cached ones, so eviction from its front always finds what it
  removes, and the entry limit is passed, by one, only while no response since the last
  navigation is cached: the second name of its main resource evicts nothing.
* Bytes are counted as the cardinality of a set of pairs, stream and place, so the
  laws of finite sets do for sums. That `Without`, a recursive function, keeps what
  it should is proved with the least counterexample in place of an induction
  (`KeptExists`, `WithoutFacts`).

`DomTree_proofs`, for an arena of any size, of a tree as long as it is `intact`:

* `Invariant`: `IInv`. The operations write the slots in stages, so its parts are
  stated of a function from slots to nodes: `Shape` (neighbours agree, lists and
  walks up end, the registries are inverse) is kept by every stage; `ExactAt`, that
  a slot's flag is its parent's or its host's, is broken where the node moved and
  restored by the last stage. That the walk of `OwnedSubtrees` marks just what is
  below a node (`OwnedBelow`), and that the cycle check with its short cut sees
  every cycle (`NoCycle`), are the two arguments the rest hangs on. Ends of lists
  and walks are said with closed sets of slots, which takes the place of an
  induction along the links.
* `SlotsStayExact`, `LinksStayInAgreement` (`LinksAgree`), `NoCycleArises`
  (`NoneAboveItself`). `TypeCorrect` holds whatever is called: the writes skip slots
  that hold no node (`Written`).
* `Implements` (`IsAForest`): the walks of `Forest` (`Above`, `Below`) are the
  code's (`AboveIs`, `BelowIs`), the flags are its connectivity (`FlagsExact`), and
  each operation is a step of `Forest` or refused.

Assumptions are those the modules name: that limits are natural numbers, that
sets of actors are finite, that names for nobody are not among them, and that the
peer's frames are of the protocol's types. TLC evaluates them on every run.

## 8. What is only checked and what is left out

Only model-checked: all liveness (the proof system has no rule for fairness that
its provers support): that calls return, cancels are confirmed, deadlines and lost
clients stop a program, slots come back, connections are decided, requests settle, followers go on,
overruns end, and the screencast shows the last change and comes to rest. Every
invariant and every action property that a run checks is also a theorem. Two theorems
have a hypothesis, `~ReuseAfterCancel`: `AnswerIsOwn` (`OwnAnswer`) and `ReadyIsAtRest`
(`AtRest`), about callers that give a session up after a cancel, as the one caller in the
repository does; the run `remote_session` gives it as a constant, and section 4 shows what
happens without it.

Abstracted in what is modelled: contents of bodies, frames, cookies and
commands; the text of HTTP requests (a head is incomplete, HTTP or WebSocket);
stdout and stderr are one pipe; CdpProcessor has one session with one page, several
are CdpTargets' subject; the two tasks of a WebSocket are one reader; text and
attributes of nodes; the contents of `template` elements hang from no host and are
not part of the host-including chain, in the code as in the model; pixels.

Not modelled, with the reason for each in `PROJECT.json` (`components`): frames and
bindings, history and lifecycle, the id index, cookie parsing and matching, MCP
over HTTP and the transports are within reach and noted there. Layout
and paint, selector matching, the Web APIs, the installer and the command line
are functions or pure I/O. V8, tokio, reqwest and the kernel appear as far as
the code relies on them, as external actions.

## 9. Plan

In the order of what matters most to the system. Done: 1. `ResponseStreams`;
2. `CdpServer` with proofs; 3. `CookiePersistence` with proofs;
4. `SessionContract`, `RemoteAgent` with proofs, `RemoteSession`; 5. `CdpProcessor` with proofs;
6. `ResourceCache` with proofs; 7. `CommandWatchdog` with proofs; 8. `CdpTargets`
with proofs; 9. `Screencast`; 10. `Forest`, `DomTree` with proofs; 11. proofs of
`ResponseStreams`, `Screencast`, the limits of `ResourceCache`, `OwnAnswer` and `AtRest` of
`RemoteSession`, and of the requests of `CdpProcessor`.

Next, theorems: none of an invariant or action property is left; new modules bring
their own.

Next, modules: the id index on top of `DomTree`; frames, execution contexts and
bindings of a connection's pages (drain_frame_events); `CdpProcessor` with
Fetch.enable and Fetch.disable and Browser.close; history and navigation chains
of a page; MCP over HTTP; cookie parsing and matching as functions against a
reference definition.
