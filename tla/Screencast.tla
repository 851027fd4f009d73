----------------------------- MODULE Screencast -----------------------------
(***************************************************************************)
(* One session's screencast: startScreencast, queue_screencast_frame, the  *)
(* pump that a tick of 33 ms runs, and the acknowledgements, in            *)
(* telemaco-cdp/src/domains/page.rs.                                       *)
(*                                                                         *)
(* What the page looks like is a number that every visible change raises.  *)
(* A document counts its activity from 0; the pump compares that count     *)
(* with the one it saw last.  An animation counts nothing: the pump sees   *)
(* that the retained scene has an active one, as of the last time somebody *)
(* sampled it.  An image or a font that arrives counts nothing either.     *)
(* Frames and acknowledgements travel in order, and the client answers     *)
(* every frame, in its own time.                                           *)
(***************************************************************************)
EXTENDS Naturals, Sequences, FiniteSets

CONSTANTS
    Samplings,  \* the values of everyNthFrame a client asks for
    MaxView,    \* bound on the changes of the page
    MaxStreams  \* bound on the streams ever started

ASSUME ScreencastAssumption ==
    /\ Samplings \subseteq Nat \ {0}
    /\ MaxView \in Nat \ {0} /\ MaxStreams \in Nat

\* MAX_SCREENCAST_FRAMES_IN_FLIGHT
Window == 2

VARIABLES
    view,       \* what the page looks like
    generation, \* activity_generation of its document
    running,    \* whether a CSS animation runs
    prepared,   \* whether the retained scene has an active one
    stream,     \* the session's ScreencastState
    streamCount,\* next_screencast_session_id
    frames,     \* Page.screencastFrame events on their way
    acks,       \* acknowledgements on their way
    shown,      \* the client: the view it shows
    followed    \* ghost: whether what the stream saw last is of this document's
                \* count, and no change since has escaped both count and pump

page == <<view, generation, running, prepared>>
wire == <<acks, shown>>
screencastVars == <<page, stream, streamCount, frames, wire, followed>>

Off == [id |-> 0, nth |-> 1, tries |-> 0, inFlight |-> 0, observed |-> 0, pending |-> FALSE]
On == stream.id # 0

\* parse_screencast_state
Started(id, nth) == [Off EXCEPT !.id = id, !.nth = nth]

-----------------------------------------------------------------------------
(* queue_screencast_frame, of the page as it is after the step.            *)

\* A bug it could have: the change stays noticed once it is delivered.
Captured_Pending(s) == [s EXCEPT !.inFlight = @ + 1, !.observed = generation']

\* The frame is captured: it counts against the window, and the stream has
\* seen everything the page counted.
Captured(s) == [s EXCEPT !.inFlight = @ + 1, !.observed = generation', !.pending = FALSE]

Capture(s) ==
    /\ stream' = Captured(s)
    /\ frames' = Append(frames, [id |-> s.id, view |-> view'])
    /\ prepared' = running'
    /\ followed' = TRUE

\* It is not: the page's retained scene is left at what stays of it.
Skip(s, scene, follows) ==
    /\ stream' = s
    /\ prepared' = scene
    /\ followed' = follows
    /\ UNCHANGED frames

\* Sampled again or dropped, a scene may no longer show the animation the pump
\* was to see; what the stream has noticed already is not lost by that.
StillSeen(s, before, after) == s.pending \/ (before => after)

\* The capture fails, before or after it has sampled the page: the region is
\* none, there is no surface to render, the image is not encoded.
Fails(s, scene, follows) ==
    \E after \in {scene, running'} :
        Skip(s, after, follows /\ StillSeen(s, scene, after))

\* A bug it could have: the sampling skip takes the change for delivered.
Tried_Forgets(s) == [s EXCEPT !.tries = (@ + 1) % s.nth, !.pending = FALSE]

\* command_frame_counter: one more attempt, of which every nth delivers.
Tried(s) == [s EXCEPT !.tries = (@ + 1) % s.nth]

Queue(s, scene, follows) ==
    \/ s.id = 0 /\ Skip(s, scene, follows)
    \/ s.id # 0 /\ s.inFlight >= Window /\ Skip(s, scene, follows)
    \/ /\ s.id # 0 /\ s.inFlight < Window
       /\ \/ Tried(s).tries # 0 /\ Skip(Tried(s), scene, follows)
          \/ Tried(s).tries = 0 /\ (Capture(Tried(s)) \/ Fails(Tried(s), scene, follows))

-----------------------------------------------------------------------------
(* The commands.                                                           *)

\* Page.startScreencast: a stream of its own, and a first frame at once.
Start(nth) ==
    /\ streamCount < MaxStreams
    /\ streamCount' = streamCount + 1
    /\ UNCHANGED <<view, generation, running, wire>>
    /\ Capture(Started(streamCount', nth))

\* Its parameters are wrong: the stream there is goes on.
StartRefused ==
    /\ streamCount < MaxStreams
    /\ streamCount' = streamCount + 1
    /\ UNCHANGED <<page, stream, frames, wire, followed>>

\* Its first frame is not captured: the stream it replaced is gone too.
StartFails ==
    /\ streamCount < MaxStreams
    /\ streamCount' = streamCount + 1
    /\ stream' = Off
    /\ prepared' \in {prepared, running}
    /\ UNCHANGED <<view, generation, running, frames, wire, followed>>

\* Page.stopScreencast, or the session goes.
Stop ==
    /\ On
    /\ stream' = Off
    /\ UNCHANGED <<page, streamCount, frames, wire, followed>>

\* A bug screencastFrameAck could have: it takes any acknowledgement.
Acknowledged_Any(id) ==
    IF On /\ stream.inFlight > 0 THEN [stream EXCEPT !.inFlight = @ - 1] ELSE stream

\* Page.screencastFrameAck
Acknowledged(id) ==
    IF On /\ stream.id = id /\ stream.inFlight > 0
    THEN [stream EXCEPT !.inFlight = @ - 1]
    ELSE stream

Acknowledge ==
    /\ acks # <<>>
    /\ acks' = Tail(acks)
    /\ stream' = Acknowledged(Head(acks))
    /\ UNCHANGED <<page, streamCount, frames, shown, followed>>

\* What stays of the retained scene when a script has run: it is dropped, by a
\* change or a new address, or sampled anew by a read of computed styles, or
\* neither.
Scenes == {prepared, running', FALSE}

\* A change counts, so that the pump comes to see the page; without one it may
\* lose sight of an animation.
FollowedStill(changes, scene) ==
    followed /\ (changes = 1 \/ StillSeen(stream, prepared, scene))

\* What a script does to the page: a change counts, and starts or ends an
\* animation.
Runs(changes) ==
    /\ view' = view + changes
    /\ view' <= MaxView
    /\ generation' = generation + changes
    /\ running' \in IF changes = 1 THEN BOOLEAN ELSE {running}

\* A command of command_can_change_screencast_frame, done: an attempt at a frame.
Command(changes) ==
    /\ Runs(changes)
    /\ UNCHANGED <<streamCount, wire>>
    /\ \E scene \in Scenes : Queue(stream, scene, FollowedStill(changes, scene))

\* Emulation.setDeviceMetricsOverride and its like: the page looks different,
\* its scene is gone, and nothing is counted.
Resize ==
    /\ view < MaxView
    /\ view' = view + 1
    /\ UNCHANGED <<generation, running, streamCount, wire>>
    /\ Queue(stream, FALSE, FALSE)

\* A navigation: the new document counts from 0.
Navigate ==
    /\ view < MaxView
    /\ view' = view + 1
    /\ generation' \in {0, 1}
    /\ running' \in BOOLEAN
    /\ UNCHANGED <<streamCount, wire>>
    /\ Queue(stream, FALSE, FALSE)

-----------------------------------------------------------------------------
(* The page by itself.                                                     *)

\* A turn of its event loop.
Activity(changes) ==
    /\ Runs(changes)
    /\ \E scene \in Scenes : Skip(stream, scene, FollowedStill(changes, scene))
    /\ UNCHANGED <<streamCount, wire>>

\* An image or a font arrives: the page looks different and counts nothing.
Loaded ==
    /\ view < MaxView
    /\ view' = view + 1
    /\ \E scene \in {prepared, FALSE} : Skip(stream, scene, followed /\ stream.pending)
    /\ UNCHANGED <<generation, running, streamCount, wire>>

\* Another command renders the page: captureScreenshot samples its scene anew,
\* printToPDF drops it.
Rendered ==
    /\ \E scene \in {running, FALSE} : Skip(stream, scene, FollowedStill(0, scene))
    /\ UNCHANGED <<view, generation, running, streamCount, wire>>

\* The animation moves on without counting, and ends.
Animate ==
    /\ running
    /\ view < MaxView
    /\ view' = view + 1
    /\ running' \in BOOLEAN
    /\ UNCHANGED <<generation, prepared, stream, streamCount, frames, wire, followed>>

AnimationEnds ==
    /\ running
    /\ running' = FALSE
    /\ UNCHANGED <<view, generation, prepared, stream, streamCount, frames, wire, followed>>

\* Another page of the connection has the isolate for a while: when this one
\* gets it back, it counts from 0 and has no scene.
Suspended ==
    /\ generation' = 0
    /\ prepared' = FALSE
    /\ followed' = FALSE
    /\ UNCHANGED <<view, running, stream, streamCount, frames, wire>>

-----------------------------------------------------------------------------
(* The pump.                                                               *)

\* What pump_screencast_frames has to do with the stream.
Noticed ==
    IF stream.observed # generation \/ prepared
    THEN [stream EXCEPT !.observed = generation, !.pending = TRUE]
    ELSE stream

\* Whether the pump read this document's count.
CountRead == followed \/ stream.observed # generation \/ prepared

Tick ==
    /\ On
    /\ UNCHANGED <<view, generation, running, streamCount, wire>>
    /\ IF Noticed.pending THEN Queue(Noticed, prepared, CountRead)
                          ELSE Skip(stream, prepared, followed)

\* The client shows a frame and acknowledges it.
Show ==
    /\ frames # <<>>
    /\ shown' = Head(frames).view
    /\ acks' = Append(acks, Head(frames).id)
    /\ frames' = Tail(frames)
    /\ UNCHANGED <<page, stream, streamCount, followed>>

-----------------------------------------------------------------------------
ScreencastInit ==
    /\ view = 1
    /\ generation \in {0, 1}
    /\ running = FALSE
    /\ prepared = FALSE
    /\ stream = Off
    /\ streamCount = 0
    /\ frames = <<>>
    /\ acks = <<>>
    /\ shown = 0
    /\ followed = FALSE

ScreencastNext ==
    \/ \E nth \in Samplings : Start(nth)
    \/ StartRefused \/ StartFails \/ Stop \/ Acknowledge
    \/ \E changes \in {0, 1} : Command(changes) \/ Activity(changes)
    \/ Resize \/ Navigate \/ Loaded \/ Rendered
    \/ Animate \/ AnimationEnds \/ Suspended
    \/ Tick \/ Show

\* A tick that delivers.
Delivers == Tick /\ frames' # frames

\* The tick comes round whenever the connection's thread is free; captures that
\* are tried for ever do not fail for ever; the client answers what it gets, and
\* a finite animation ends.
ScreencastSpec ==
    /\ ScreencastInit
    /\ [][ScreencastNext]_screencastVars
    /\ WF_screencastVars(Tick) /\ SF_screencastVars(Delivers)
    /\ WF_screencastVars(Show)
    /\ WF_screencastVars(Acknowledge)
    /\ WF_screencastVars(AnimationEnds)

-----------------------------------------------------------------------------
ScreencastTypeOK ==
    /\ view \in 0..MaxView /\ generation \in 0..MaxView /\ shown \in 0..MaxView
    /\ running \in BOOLEAN /\ prepared \in BOOLEAN /\ followed \in BOOLEAN
    /\ streamCount \in 0..MaxStreams
    /\ stream.id \in 0..streamCount
    /\ \A i \in DOMAIN frames : frames[i].id \in 1..streamCount /\ frames[i].view \in 1..MaxView
    /\ \A i \in DOMAIN acks : acks[i] \in 1..streamCount

\* What the stream has sent and not heard of again.
Unanswered(id) ==
    Cardinality({i \in DOMAIN frames : frames[i].id = id})
      + Cardinality({i \in DOMAIN acks : acks[i] = id})

\* The window counts exactly the frames of this stream that are on their way
\* or answered on the way back, however many streams the session has started
\* and stopped: an old stream's acknowledgement opens it for nobody.
WindowIsExact == On => stream.inFlight = Unanswered(stream.id) /\ stream.inFlight <= Window

\* A page that came to rest is not rendered for ever: after the last change, the
\* end of the last animation and the last new count, ticks send nothing.
RestsWithThePage == <>[][Tick => UNCHANGED frames]_screencastVars

\* While a stream goes on and reads the document's own count, and no change
\* escapes both the count and the pump (an image that arrives, an animation whose
\* end another reader of the page's styles saw first), the client comes to show
\* the page as it is: neither sampling, nor a full window, nor a capture that
\* failed loses the last change (page.rs:776, pump_screencast_frames).
LatestShown ==
    \A k \in 1..MaxStreams : []<>(stream.id = k /\ followed => shown = view)

\* What the comment on ScreencastState promises of every change.
NewestStateCaptured ==
    \A k \in 1..MaxStreams : []<>(stream.id = k => shown = view)
=============================================================================
