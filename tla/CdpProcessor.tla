----------------------------- MODULE CdpProcessor ----------------------------
(***************************************************************************)
(* The processor of one CDP connection (cdp_processor and what it calls in *)
(* telemaco-cdp/src/server.rs): commands are taken one at a time, a        *)
(* navigation runs as a task of its own while the processor answers the    *)
(* requests it pauses and defers every other command, and a request the    *)
(* page makes waits for the client's decision.                             *)
(*                                                                         *)
(* Commands are numbered in the order the client sends them; said[i] is    *)
(* the i-th.  A request is <<d, n>>: the n-th of document d.  The client   *)
(* is told only "intercept-n", and an answer names only that.              *)
(***************************************************************************)
EXTENDS Naturals, Sequences, FiniteSets

CONSTANTS Kinds,         \* of commands the client sends besides answers
          MaxDeferred,   \* MAX_DEFERRED_MESSAGES
          MaxCommands,   \* bound: commands of the client, answers apart
          MaxOf,         \* bounds: commands of a group of kinds
          MaxDocs,       \* bound: documents loaded in the session
          MaxRequests    \* bound: requests of one document

ASSUME ProcessorAssumption ==
    /\ Kinds \subseteq {"navigate", "evaluate", "mention", "other", "detach"}
    /\ MaxDeferred \in Nat /\ MaxCommands \in Nat
    /\ DOMAIN MaxOf \subseteq SUBSET Kinds
    /\ MaxDocs \in Nat /\ MaxRequests \in Nat

\* "mention" is an evaluate whose text has the name of a Fetch answer in it;
\* "other" is a Fetch method that names a request and does not answer it;
\* "detach" ends the client's session with the page.
NoRequest == <<0, 0>>
Requests  == (1..MaxDocs) \X (1..MaxRequests)
MaxSaid   == MaxCommands + MaxDocs * MaxRequests
Nobody    == 0              \* no command
Aborted   == MaxSaid + 1    \* decided by the processor, for lack of a session

VARIABLES said, rx, open,       \* the client's commands, the ones not taken yet
          notified,             \* shutdown was signalled
          attached,             \* the page has a session
          mode, cmd,            \* what the processor is at, for which command
          deferred,             \* commands put off until the navigation ends
          doc, made, live,      \* the live document, its requests, those waiting
          awaits,               \* the request an evaluate waits for, 0 if none
          fresh,                \* the navigation has its new document
          wants,                \* the page asked for a navigation
          chan, paused, owed,   \* interception: on its way to the processor,
                                \* held for an answer, announced to the client
          replies,              \* ghost: replies to each command
          executed,             \* ghost: commands in the order they ran
          released              \* ghost: requests let go and what decided it

client   == <<said, open, notified>>
queues   == <<rx, deferred>>
page     == <<doc, made, live, wants>>
fetching == <<chan, paused, owed>>
vars     == <<client, queues, attached, mode, cmd, page, awaits, fresh, fetching,
              replies, released, executed>>

Commands == [kind : Kinds \cup {"answer"}, for : Requests \cup {NoRequest}]

TypeOK ==
    /\ said \in Seq(Commands) /\ rx \in Seq(Nat) /\ deferred \in Seq(Nat)
    /\ Len(deferred) <= MaxDeferred
    /\ open \in BOOLEAN /\ notified \in BOOLEAN /\ attached \in BOOLEAN
    /\ mode \in {"loop", "dispatch", "jsnav", "navigate", "stopped"}
    /\ cmd \in 0..Len(said)
    /\ doc \in 0..MaxDocs /\ made \in 0..MaxRequests
    /\ live \subseteq 1..made /\ awaits \in 0..made
    /\ fresh \in BOOLEAN /\ wants \in BOOLEAN
    /\ chan \in Seq(Requests)
    /\ paused \in [1..MaxRequests -> Requests \cup {NoRequest}]
    /\ owed \subseteq Requests

Init ==
    /\ said = <<>> /\ rx = <<>> /\ open = TRUE /\ notified = FALSE /\ attached = TRUE
    /\ mode = "loop" /\ cmd = Nobody /\ deferred = <<>>
    /\ doc = 0 /\ made = 0 /\ live = {} /\ awaits = 0 /\ fresh = FALSE /\ wants = FALSE
    /\ chan = <<>> /\ paused = [n \in 1..MaxRequests |-> NoRequest] /\ owed = {}
    /\ replies = [i \in 1..MaxSaid |-> 0]
    /\ executed = <<>> /\ released = {}

----------------------------------------------------------------------------
(* The client and the operator.                                            *)

Say(c) ==
    /\ open /\ mode # "stopped" /\ Len(said) < MaxSaid
    /\ said' = Append(said, c) /\ rx' = Append(rx, Len(said) + 1)

IsCommand(c) == c.kind # "answer"

Command ==
    /\ Len(SelectSeq(said, IsCommand)) < MaxCommands
    /\ \E k \in Kinds, r \in Requests \cup {NoRequest} :
        /\ \A g \in DOMAIN MaxOf :
              k \in g => Cardinality({i \in 1..Len(said) : said[i].kind \in g}) < MaxOf[g]
        /\ IF k = "other" THEN r \in owed ELSE r = NoRequest
        /\ Say([kind |-> k, for |-> r])
    /\ UNCHANGED <<open, notified, deferred, attached, mode, cmd, page, awaits, fresh,
                   fetching, replies, released, executed>>

\* Each announced request is answered once.
AnswerPaused ==
    /\ \E r \in owed : /\ Say([kind |-> "answer", for |-> r])
                       /\ owed' = owed \ {r}
    /\ UNCHANGED <<open, notified, deferred, attached, mode, cmd, page, awaits, fresh,
                   chan, paused, replies, released, executed>>

Leave == /\ open /\ open' = FALSE
         /\ UNCHANGED <<said, notified, queues, attached, mode, cmd, page, awaits,
                        fresh, fetching, replies, released, executed>>

Notify == /\ ~notified /\ notified' = TRUE
          /\ UNCHANGED <<said, open, queues, attached, mode, cmd, page, awaits,
                         fresh, fetching, replies, released, executed>>

----------------------------------------------------------------------------
(* The page.  It runs while a command or a navigation runs it and, between *)
(* commands, in the turns of the pump.                                     *)

\* op_fetch_url: the request is sent to the processor and waits.
Fetches ==
    /\ doc > 0 /\ made < MaxRequests
    /\ made' = made + 1 /\ live' = live \cup {made + 1}
    /\ chan' = Append(chan, <<doc, made + 1>>)

PageFetches ==
    /\ mode \in {"loop", "dispatch"} \/ (mode \in {"navigate", "jsnav"} /\ fresh)
    /\ Fetches
    /\ UNCHANGED <<client, queues, attached, mode, cmd, doc, wants, awaits, fresh,
                   paused, owed, replies, released, executed>>

PageNavigates ==
    /\ doc > 0 /\ ~wants /\ mode \in {"loop", "dispatch"}
    /\ wants' = TRUE
    /\ UNCHANGED <<client, queues, attached, mode, cmd, doc, made, live, awaits,
                   fresh, fetching, replies, released, executed>>

\* init_js: the new document starts its own count of requests, the old one's
\* waiting operations are dropped with its runtime.
NewDocument ==
    /\ mode \in {"navigate", "jsnav"} /\ ~fresh /\ doc < MaxDocs
    /\ doc' = doc + 1 /\ made' = 0 /\ live' = {} /\ wants' = FALSE /\ fresh' = TRUE
    /\ UNCHANGED <<client, queues, attached, mode, cmd, awaits, fetching, replies,
                   released, executed>>

----------------------------------------------------------------------------
(* Interception.                                                           *)

ReplyTo(i) == replies' = [replies EXCEPT ![i] = @ + 1]

Held(i) == said[i].for[2] \in 1..MaxRequests /\ paused[said[i].for[2]] # NoRequest

\* The resolver of "intercept-n" is taken out of the map and used, or dropped;
\* if its operation still waits, the request goes on.
Resolve(i) ==
    LET n == said[i].for[2]
        r == paused[n]
    IN  /\ paused' = [paused EXCEPT ![n] = NoRequest]
        /\ IF r[1] = doc /\ r[2] \in live
           THEN live' = live \ {r[2]} /\ released' = released \cup {[req |-> r, by |-> i]}
           ELSE UNCHANGED <<live, released>>

\* emit_intercepted_request
Announce ==
    LET r == Head(chan)
    IN  /\ chan # <<>> /\ chan' = Tail(chan)
        /\ paused' = [paused EXCEPT ![r[2]] = r]
        /\ owed' = owed \cup {r}

----------------------------------------------------------------------------
(* The outer loop: deferred commands first, then the channel, then, with   *)
(* no command there, shutdown, the pump and intercepted requests.          *)

\* The next command is i; rest are the queues without it.
Takes_Newest(i) ==
    /\ mode = "loop"
    /\ IF deferred # <<>>
       THEN /\ i = deferred[Len(deferred)] /\ deferred' = SubSeq(deferred, 1, Len(deferred) - 1)
            /\ UNCHANGED rx
       ELSE rx # <<>> /\ i = Head(rx) /\ rx' = Tail(rx) /\ UNCHANGED deferred

Takes(i) ==
    /\ mode = "loop"
    /\ IF deferred # <<>>
       THEN i = Head(deferred) /\ deferred' = Tail(deferred) /\ UNCHANGED rx
       ELSE rx # <<>> /\ i = Head(rx) /\ rx' = Tail(rx) /\ UNCHANGED deferred

\* process_cdp_message, last: a navigation the page asked for is dispatched on
\* the spot, with nobody looking at the channels meanwhile.
JsNavigation ==
    /\ IF wants /\ attached
       THEN mode' = "jsnav" /\ fresh' = FALSE /\ wants' = FALSE
       ELSE mode' = "loop" /\ UNCHANGED <<fresh, wants>>

NoCommand == mode = "loop" /\ deferred = <<>> /\ rx = <<>>

\* Page.navigate: process_with_interception spawns the navigation.
Navigate ==
    /\ \E i \in 1..Len(said) :
        /\ Takes(i) /\ said[i].kind = "navigate" /\ attached
        /\ mode' = "navigate" /\ cmd' = i /\ fresh' = FALSE
        /\ executed' = Append(executed, i)
    /\ UNCHANGED <<client, attached, page, awaits, fetching, replies, released>>

\* A Fetch answer between navigations; one that meets no resolver is
\* dispatched and succeeds all the same.
Answer ==
    /\ \E i \in 1..Len(said) :
        /\ Takes(i) /\ said[i].kind = "answer"
        /\ ReplyTo(i)
        /\ IF Held(i)
           THEN Resolve(i) /\ UNCHANGED <<mode, fresh, wants>>
           ELSE UNCHANGED <<paused, live, released>> /\ JsNavigation
    /\ UNCHANGED <<client, attached, cmd, doc, made, awaits, chan, owed, executed>>

\* Any other Fetch method with a requestId takes the resolver out before it
\* looks at the method, and is then dispatched.
OtherFetch ==
    /\ \E i \in 1..Len(said) :
        /\ Takes(i) /\ said[i].kind = "other"
        /\ IF Held(i) THEN Resolve(i) ELSE UNCHANGED <<paused, live, released>>
        /\ ReplyTo(i) /\ executed' = Append(executed, i)
    /\ JsNavigation
    /\ UNCHANGED <<client, attached, cmd, doc, made, awaits, chan, owed>>

\* Runtime.evaluate: its script may wait for a request it makes.
Evaluate ==
    /\ \E i \in 1..Len(said) :
        /\ Takes(i) /\ said[i].kind \in {"evaluate", "mention"} /\ attached
        /\ mode' = "dispatch" /\ cmd' = i /\ executed' = Append(executed, i)
    /\ \/ awaits' = 0 /\ UNCHANGED <<made, live, chan>>
       \/ Fetches /\ awaits' = made + 1
    /\ UNCHANGED <<client, attached, doc, wants, fresh, paused, owed, replies,
                   released>>

\* Target.detachFromTarget, and what finds no session and fails at once.
Detach ==
    /\ \E i \in 1..Len(said) :
        /\ Takes(i)
        /\ said[i].kind = "detach" \/ (~attached /\ said[i].kind \in {"navigate", "evaluate", "mention"})
        /\ ReplyTo(i) /\ executed' = Append(executed, i)
    /\ attached' = FALSE
    /\ UNCHANGED <<client, mode, cmd, page, awaits, fresh, fetching, released>>

\* What the script asked for is navigated to before the reply.
Evaluated ==
    /\ mode = "dispatch" /\ awaits \notin live /\ awaits' = 0
    /\ IF wants
       THEN JsNavigation /\ UNCHANGED <<cmd, replies>>
       ELSE /\ mode' = "loop" /\ cmd' = Nobody /\ ReplyTo(cmd)
            /\ UNCHANGED <<fresh, wants>>
    /\ UNCHANGED <<client, queues, attached, doc, made, live, fetching, released, executed>>

\* The script throws, or tokio::time::timeout ends the wait: the error is the
\* reply, and a navigation the script asked for comes after it.
EvaluateFails_Never == FALSE

EvaluateFails ==
    /\ mode = "dispatch" /\ awaits' = 0
    /\ ReplyTo(cmd) /\ cmd' = Nobody /\ JsNavigation
    /\ UNCHANGED <<client, queues, attached, doc, made, live, fetching, released, executed>>

\* A navigation that was dispatched ends, and with it its command.
JsNavigated ==
    /\ mode = "jsnav" /\ mode' = "loop" /\ cmd' = Nobody /\ fresh' = FALSE
    /\ IF cmd # Nobody THEN ReplyTo(cmd) ELSE UNCHANGED replies
    /\ UNCHANGED <<client, queues, attached, page, awaits, fetching, released, executed>>

\* The pump delivers a navigation the page asked for: the same path, without
\* a command to reply to.
PumpNavigates ==
    /\ NoCommand /\ wants /\ attached
    /\ mode' = "navigate" /\ cmd' = Nobody /\ fresh' = FALSE /\ wants' = FALSE
    /\ UNCHANGED <<client, queues, attached, doc, made, live, awaits, fetching,
                   replies, released, executed>>

Intercepted ==
    /\ NoCommand /\ attached /\ Announce
    /\ UNCHANGED <<client, queues, attached, mode, cmd, page, awaits, fresh,
                   replies, released, executed>>

\* No session to announce it in: the request fails.
AbortIntercepted ==
    /\ NoCommand /\ ~attached /\ chan # <<>> /\ chan' = Tail(chan)
    /\ LET r == Head(chan)
       IN  IF r[1] = doc /\ r[2] \in live
           THEN live' = live \ {r[2]} /\ released' = released \cup {[req |-> r, by |-> Aborted]}
           ELSE UNCHANGED <<live, released>>
    /\ UNCHANGED <<client, queues, attached, mode, cmd, doc, made, wants, awaits,
                   fresh, paused, owed, replies, executed>>

\* The page, its channel and what is paused are dropped with the context.
Stop ==
    /\ NoCommand /\ (~open \/ notified)
    /\ mode' = "stopped" /\ live' = {}
    /\ chan' = <<>> /\ owed' = {} /\ paused' = [n \in 1..MaxRequests |-> NoRequest]
    /\ UNCHANGED <<client, queues, attached, cmd, doc, made, wants, awaits, fresh,
                   replies, released, executed>>

----------------------------------------------------------------------------
(* The loop of process_with_interception, while the navigation runs.       *)

NavIntercepted ==
    /\ mode = "navigate" /\ Announce
    /\ UNCHANGED <<client, queues, attached, mode, cmd, page, awaits, fresh,
                   replies, released, executed>>

\* A command that has a Fetch answer's name in it is tried as an answer, and
\* that is all.
NavAnswer ==
    /\ mode = "navigate" /\ rx # <<>> /\ rx' = Tail(rx)
    /\ LET i == Head(rx)
       IN  /\ said[i].kind \in {"answer", "mention"}
           /\ IF said[i].kind = "answer" /\ Held(i)
              THEN Resolve(i) /\ ReplyTo(i)
              ELSE UNCHANGED <<paused, live, released, replies>>
    /\ UNCHANGED <<client, deferred, attached, mode, cmd, doc, made, wants, awaits,
                   fresh, chan, owed, executed>>

\* Everything else is put off, or refused when the queue is full.
NavDefer_Drops ==
    /\ mode = "navigate" /\ rx # <<>> /\ rx' = Tail(rx)
    /\ LET i == Head(rx)
       IN  /\ said[i].kind \notin {"answer", "mention"}
           /\ IF Len(deferred) >= MaxDeferred
              THEN UNCHANGED <<deferred, replies>>
              ELSE deferred' = Append(deferred, i) /\ UNCHANGED replies
    /\ UNCHANGED <<client, attached, mode, cmd, page, awaits, fresh, fetching,
                   released, executed>>

NavDefer_RefusesAndDefers ==
    /\ mode = "navigate" /\ rx # <<>> /\ rx' = Tail(rx)
    /\ LET i == Head(rx)
       IN  /\ said[i].kind \notin {"answer", "mention"}
           /\ deferred' = Append(deferred, i)
           /\ IF Len(deferred) >= MaxDeferred THEN ReplyTo(i) ELSE UNCHANGED replies
    /\ UNCHANGED <<client, attached, mode, cmd, page, awaits, fresh, fetching,
                   released, executed>>

NavDefer ==
    /\ mode = "navigate" /\ rx # <<>> /\ rx' = Tail(rx)
    /\ LET i == Head(rx)
       IN  /\ said[i].kind \notin {"answer", "mention"}
           /\ IF Len(deferred) >= MaxDeferred
              THEN ReplyTo(i) /\ UNCHANGED deferred
              ELSE deferred' = Append(deferred, i) /\ UNCHANGED replies
    /\ UNCHANGED <<client, attached, mode, cmd, page, awaits, fresh, fetching,
                   released, executed>>

\* The task returns the page, loaded, failed or timed out.
Navigated ==
    /\ mode = "navigate" /\ mode' = "loop" /\ cmd' = Nobody /\ fresh' = FALSE
    /\ IF cmd # Nobody THEN ReplyTo(cmd) ELSE UNCHANGED replies
    /\ UNCHANGED <<client, queues, attached, page, awaits, fetching, released, executed>>

----------------------------------------------------------------------------

Processor ==
    \/ Navigate \/ Answer \/ OtherFetch \/ Evaluate \/ Detach
    \/ Evaluated \/ EvaluateFails \/ JsNavigated
    \/ PumpNavigates \/ Intercepted \/ AbortIntercepted \/ Stop
    \/ NavIntercepted \/ NavAnswer \/ NavDefer \/ Navigated

Next == \/ Command \/ AnswerPaused \/ Leave \/ Notify
        \/ PageFetches \/ PageNavigates \/ NewDocument
        \/ Processor

Spec == Init /\ [][Next]_vars

(***************************************************************************)
(* The processor is polled again whenever one of the things it selects on  *)
(* is ready; navigations and evaluations end, by their timeouts at the     *)
(* latest.  Strong fairness of the announcements: the pump, polled before  *)
(* them, waits for its next task sooner or later, and the select of a      *)
(* navigation is not biased.  Nothing makes a client send, but one that    *)
(* stays answers what is paused.                                           *)
(***************************************************************************)
\* What the processor does next is one of these, if it waits for nobody.
Proceeds == \/ Navigate \/ Answer \/ OtherFetch \/ Evaluate \/ Detach
            \/ Evaluated \/ EvaluateFails \/ JsNavigated \/ Navigated
            \/ AbortIntercepted

Fairness ==
    WF_vars(Proceeds) /\ SF_vars(Intercepted \/ NavIntercepted) /\ WF_vars(AnswerPaused)

FairSpec == Spec /\ Fairness

----------------------------------------------------------------------------
(* Properties.                                                             *)

Ordinary(i) == said[i].kind \notin {"answer", "mention"}

\* No command is replied to twice, deferred, refused or timed out as it may
\* have been (server.rs process_with_interception, process_cdp_message).
RepliedOnce == \A i \in 1..MaxSaid : replies[i] <= 1

\* When the processor has nothing left to take, every command but those that
\* name a Fetch answer has had its reply (server.rs:19, the deferral queue).
NothingLost ==
    NoCommand => \A i \in 1..Len(said) : Ordinary(i) => replies[i] = 1

\* Commands run in the order the client sent them, whatever was deferred
\* behind a navigation that was itself deferred (server.rs cdp_processor,
\* deferred queue).
InOrder == \A i, j \in 1..Len(executed) : i < j => executed[i] < executed[j]

\* The client is never left waiting: every command it sent has its reply once
\* the processor is done with it (server.rs:990, "unrelated requests get
\* deferred only briefly and are drained as soon as the nav settles").
EveryCommandReplied ==
    NoCommand => \A i \in 1..Len(said) : replies[i] = 1

\* Whatever a request's fate, the client decided it by an answer to that very
\* request, or it had no session to decide in
\* (docs/Intercept-and-modify-requests.md:1).
OwnDecision ==
    \A d \in released :
        d.by = Aborted \/ (d.by # Nobody /\ said[d.by] = [kind |-> "answer", for |-> d.req])

\* A paused request never goes on by itself.  It is decided by the client's
\* answer to it, or for lack of a session; and if by anything else, by an answer
\* to an earlier document's request of the same number or by a Fetch method that
\* is no answer and named one, in no other way, however navigations, evaluations
\* and answers overtake each other (server.rs intercepted_paused, ops.rs
\* op_fetch_url).
NeverUndecided ==
    \A d \in released :
        \/ d.by = Aborted
        \/ /\ d.by # Nobody /\ said[d.by].for[2] = d.req[2]
           /\ \/ said[d.by] = [kind |-> "answer", for |-> d.req]
              \/ said[d.by].kind = "answer" /\ said[d.by].for[1] < d.req[1]
              \/ said[d.by].kind = "other" /\ said[d.by].for[1] <= d.req[1]

\* A command that waits for a request does not give up before the client was
\* told of the request.
ToldBeforeTimeout ==
    [][EvaluateFails /\ awaits \in live => <<doc, awaits>> \notin {chan[i] : i \in 1..Len(chan)}]_vars

\* A request the page waits for does not wait for ever while the client
\* stays and answers: page, processor and client do not wait on each other in
\* a circle.  (A new document drops what the last one waited for, so a number
\* that is always taken again is one request.)
RequestsSettle ==
    \A n \in 1..MaxRequests : []<>(n \notin live \/ ~open \/ mode = "stopped")
==============================================================================
