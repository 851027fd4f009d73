----------------------------- MODULE ResourceCache -----------------------------
(***************************************************************************)
(* The subresource cache of the HTTP client (telemaco-net/src/client.rs):  *)
(* a request that may be shared looks up the cache and elects a leader in  *)
(* one critical section; the leader fetches, stores, frees the slot and    *)
(* tells its followers, each in a lock of its own; any request may be      *)
(* dropped while it waits.  A key stands for a whole ResourceCacheKey.     *)
(*                                                                         *)
(* A response is named by the request whose transport brought it: size,    *)
(* until and sentBearing are attributes of that response, kept for those   *)
(* others may be given.  start is when a request that is not a leader      *)
(* looked, answer whose response it was given instead of its own.          *)
(***************************************************************************)
EXTENDS Integers, Sequences, FiniteSets, FiniteSetsExt

CONSTANTS N,            \* requests, named in the order they start
          Keys,         \* named in the order they are first asked for
          Lifetimes,    \* what response_cache_lifetime may return; 0: none
          Sizes,        \* bytes a body may have
          MaxEntries,   \* RESOURCE_CACHE_MAX_ENTRIES
          MaxBytes,     \* RESOURCE_CACHE_MAX_BYTES
          MaxHops,      \* redirects a transport follows before it gives up
          MaxTime,      \* bound: ticks of the clock
          JarChanges    \* may credentials come between a key and its request

ASSUME CacheAssumption ==
    /\ N \in Nat /\ Keys \subseteq Nat \ {0}
    /\ Lifetimes \subseteq Nat /\ Sizes \subseteq Nat
    /\ MaxEntries \in Nat \ {0} /\ MaxBytes \in Nat /\ MaxHops \in Nat
    /\ MaxTime \in Nat /\ JarChanges \in BOOLEAN

Requests == 1..N
None == 0

VARIABLES now,                           \* the clock
          pc, key, role, lead, start,    \* the requests
          hops, answer,
          life, size, until, sentBearing,  \* the responses
          told,                          \* what a leader's channel holds
          entries, order, bytes,         \* ResourceCache
          slot,                          \* shared_fetches
          active                         \* in_flight

request  == <<pc, key, role, lead, start, hops, answer>>
response == <<life, size, until, sentBearing>>
cache    == <<entries, order, bytes>>
vars     == <<now, request, response, told, cache, slot, active>>

TypeOK ==
    /\ now \in Nat
    /\ pc \in [Requests -> {"idle", "keyed", "fetch", "wire", "following",
                            "storing", "releasing", "telling", "done"}]
    /\ key \in [Requests -> Keys \cup {None}]
    /\ role \in [Requests -> {"none", "alone", "leader"}]
    /\ lead \in [Requests -> Requests \cup {None}]
    /\ start \in [Requests -> Nat] /\ hops \in [Requests -> 0..MaxHops]
    /\ answer \in [Requests -> Requests \cup {None}]
    /\ life \in [Requests -> Nat] /\ size \in [Requests -> Nat]
    /\ until \in [Requests -> Nat] /\ sentBearing \in [Requests -> BOOLEAN]
    /\ told \in [Requests -> {"open", "Cacheable", "RetryUncoalesced"}]
    /\ entries \in [Keys -> Requests \cup {None}]
    /\ order \in Seq(Keys) /\ bytes \in Nat
    /\ slot \in [Keys -> Requests \cup {None}]
    /\ active \in Nat

Init ==
    /\ now = 0
    /\ pc = [r \in Requests |-> "idle"] /\ key = [r \in Requests |-> None]
    /\ role = [r \in Requests |-> "none"] /\ lead = [r \in Requests |-> None]
    /\ start = [r \in Requests |-> 0] /\ hops = [r \in Requests |-> 0]
    /\ answer = [r \in Requests |-> None]
    /\ life = [r \in Requests |-> 0] /\ size = [r \in Requests |-> 0]
    /\ until = [r \in Requests |-> 0]
    /\ sentBearing = [r \in Requests |-> FALSE]
    /\ told = [r \in Requests |-> "open"]
    /\ entries = [k \in Keys |-> None] /\ order = <<>> /\ bytes = 0
    /\ slot = [k \in Keys |-> None] /\ active = 0

----------------------------------------------------------------------------
(* The cache itself.                                                       *)

Less(a, b) == IF a < b THEN 0 ELSE a - b     \* saturating_sub
Cached == {k \in Keys : entries[k] # None}
Fresh_Ever(k) == entries[k] # None
Fresh(k) == entries[k] # None /\ now < until[entries[k]]

\* What get leaves behind: an expired entry goes, its place in the queue stays.
Look(k) ==
    /\ UNCHANGED order
    /\ IF k \in Cached /\ ~Fresh(k)
       THEN /\ entries' = [entries EXCEPT ![k] = None]
            /\ bytes' = Less(bytes, size[entries[k]])
       ELSE UNCHANGED <<entries, bytes>>

\* The bytes of some entries, each by its place in one of them.
Held(S) == UNION {{k} \X (1..size[entries[k]]) : k \in S}
SizeOf(S) == Cardinality(Held(S))

\* VecDeque::retain: all but x.  (SelectSeq, which no prover knows.)
Without(s, x) ==
    LET kept[n \in 0..Len(s)] ==
          IF n = 0 THEN <<>> ELSE IF s[n] = x THEN kept[n - 1] ELSE Append(kept[n - 1], s[n])
    IN  kept[Len(s)]

\* insert: the previous entry of the key leaves first, then the oldest ones
\* until the new one fits or nothing is left to take out.
Rest(k)  == Cached \ {k}
Queue(k) == IF k \in Cached THEN Without(order, k) ELSE order
Used(k)  == IF k \in Cached THEN Less(bytes, size[entries[k]]) ELSE bytes
Front(k, n) == Rest(k) \cap {Queue(k)[i] : i \in 1..n}
Fits_Entries(r, n) == Cardinality(Rest(key[r]) \ Front(key[r], n)) < MaxEntries
Fits(r, n)  == /\ Cardinality(Rest(key[r]) \ Front(key[r], n)) < MaxEntries
               /\ Less(Used(key[r]), SizeOf(Front(key[r], n))) + size[r] <= MaxBytes
Pops(r)     == LET all == Len(Queue(key[r]))
               IN  Min({n \in 0..all : Fits(r, n) \/ n = all})
Evicted(r)  == Front(key[r], Pops(r))

Insert(r) ==
    IF size[r] > MaxBytes THEN UNCHANGED cache
    ELSE /\ entries' = [q \in Keys |-> IF q = key[r] THEN r
                                     ELSE IF q \in Evicted(r) THEN None ELSE entries[q]]
         /\ order' = Append(SubSeq(Queue(key[r]), Pops(r) + 1, Len(Queue(key[r]))), key[r])
         /\ bytes' = Less(Used(key[r]), SizeOf(Evicted(r))) + size[r]

----------------------------------------------------------------------------
(* A request.  resource_cache_key: a request of a kind that is never shared *)
(* or that would carry credentials has no key and fetches alone.           *)

Start(r, k) ==
    /\ pc[r] = "idle" /\ \A q \in Requests : q < r => pc[q] # "idle"
    /\ \/ /\ pc' = [pc EXCEPT ![r] = "fetch"] /\ role' = [role EXCEPT ![r] = "alone"]
          /\ UNCHANGED key
       \/ /\ \A j \in Keys : j < k => \E q \in Requests : key[q] = j
          /\ pc' = [pc EXCEPT ![r] = "keyed"] /\ key' = [key EXCEPT ![r] = k]
          /\ UNCHANGED role
    /\ UNCHANGED <<now, lead, start, hops, answer, response, told, cache, slot, active>>

\* The lookup and the election, one critical section.
Hit(r) ==
    /\ pc[r] = "keyed" /\ Fresh(key[r])
    /\ answer' = [answer EXCEPT ![r] = entries[key[r]]]
    /\ pc' = [pc EXCEPT ![r] = "done"] /\ start' = [start EXCEPT ![r] = now]
    /\ Look(key[r])
    /\ UNCHANGED <<now, key, role, lead, hops, response, told, slot, active>>

Follow(r) ==
    /\ pc[r] = "keyed" /\ ~Fresh(key[r]) /\ slot[key[r]] # None
    /\ lead' = [lead EXCEPT ![r] = slot[key[r]]]
    /\ pc' = [pc EXCEPT ![r] = "following"] /\ start' = [start EXCEPT ![r] = now]
    /\ Look(key[r])
    /\ UNCHANGED <<now, key, role, hops, answer, response, told, slot, active>>

Lead_Unlocked(r) ==
    /\ pc[r] = "keyed" /\ ~Fresh(key[r])
    /\ slot' = [slot EXCEPT ![key[r]] = r] /\ role' = [role EXCEPT ![r] = "leader"]
    /\ pc' = [pc EXCEPT ![r] = "fetch"]
    /\ Look(key[r])
    /\ UNCHANGED <<now, key, lead, start, hops, answer, response, told, active>>

Lead(r) ==
    /\ pc[r] = "keyed" /\ ~Fresh(key[r]) /\ slot[key[r]] = None
    /\ slot' = [slot EXCEPT ![key[r]] = r] /\ role' = [role EXCEPT ![r] = "leader"]
    /\ pc' = [pc EXCEPT ![r] = "fetch"]
    /\ Look(key[r])
    /\ UNCHANGED <<now, key, lead, start, hops, answer, response, told, active>>

\* One hop of fetch_with_profile_uncached: the headers and the cookies are
\* read again when the request is built, and may have credentials by now.
Send(r) ==
    /\ pc[r] = "fetch"
    /\ pc' = [pc EXCEPT ![r] = "wire"] /\ active' = active + 1
    /\ \E b \in BOOLEAN : /\ b => JarChanges
                          /\ sentBearing' = [sentBearing EXCEPT ![r] = b]
    /\ UNCHANGED <<now, key, role, lead, start, hops, answer, life, size,
                   until, told, cache, slot>>

Redirect(r) ==
    /\ pc[r] = "wire" /\ hops[r] < MaxHops
    /\ hops' = [hops EXCEPT ![r] = @ + 1]
    /\ pc' = [pc EXCEPT ![r] = "fetch"] /\ active' = active - 1
    /\ UNCHANGED <<now, key, role, lead, start, answer, response, told,
                   cache, slot>>

\* InFlightGuard goes with the hop or the future that made it.
Landed_IfAnswered(r) == active
Landed(r) == IF pc[r] = "wire" THEN active - 1 ELSE active

\* Where a transport leaves its request.
After(r, keep) ==
    IF role[r] = "alone" THEN "done" ELSE IF keep THEN "storing" ELSE "releasing"

\* A response; a redirected one is never cacheable.
Receive(r, l, b) ==
    /\ pc[r] = "wire" /\ (hops[r] > 0 => l = 0)
    /\ IF role[r] = "leader" /\ l > 0
       THEN life' = [life EXCEPT ![r] = l] /\ size' = [size EXCEPT ![r] = b]
       ELSE UNCHANGED <<life, size>>
    /\ pc' = [pc EXCEPT ![r] = After(r, l > 0)] /\ active' = active - 1
    /\ hops' = [hops EXCEPT ![r] = 0]
    /\ UNCHANGED <<now, key, role, lead, start, answer, until, sentBearing, told,
                   cache, slot>>

\* An error before the request is sent, on the wire, or one redirect too many.
Fail(r) ==
    /\ pc[r] \in {"fetch", "wire"}
    /\ pc' = [pc EXCEPT ![r] = After(r, FALSE)]
    /\ active' = Landed(r) /\ hops' = [hops EXCEPT ![r] = 0]
    /\ UNCHANGED <<now, key, role, lead, start, answer, response, told,
                   cache, slot>>

Store(r) ==
    /\ pc[r] = "storing" /\ pc' = [pc EXCEPT ![r] = "releasing"]
    /\ until' = [until EXCEPT ![r] = now + life[r]]
    /\ Insert(r)
    /\ UNCHANGED <<now, key, role, lead, start, hops, answer, life, size,
                   sentBearing, told, slot, active>>

\* SharedFetchLeader::finish, and its drop: the slot first, the channel next.
Release(r) ==
    /\ pc[r] = "releasing" /\ pc' = [pc EXCEPT ![r] = "telling"]
    /\ slot' = [slot EXCEPT ![key[r]] = None]
    /\ UNCHANGED <<now, key, role, lead, start, hops, answer, response,
                   told, cache, active>>

Tell(r) ==
    /\ pc[r] = "telling" /\ pc' = [pc EXCEPT ![r] = "done"]
    /\ told' = [told EXCEPT ![r] =
           IF life[r] > 0 THEN "Cacheable" ELSE "RetryUncoalesced"]
    /\ UNCHANGED <<now, key, role, lead, start, hops, answer, response,
                   cache, slot, active>>

\* A follower hears its leader.
Hear(r) ==
    /\ pc[r] = "following" /\ told[lead[r]] # "open"
    /\ IF told[lead[r]] = "Cacheable"
       THEN /\ answer' = [answer EXCEPT ![r] = lead[r]]
            /\ pc' = [pc EXCEPT ![r] = "done"] /\ UNCHANGED role
       ELSE /\ pc' = [pc EXCEPT ![r] = "fetch"]
            /\ role' = [role EXCEPT ![r] = "alone"] /\ UNCHANGED answer
    /\ lead' = [lead EXCEPT ![r] = None]
    /\ UNCHANGED <<now, key, start, hops, response, told, cache, slot,
                   active>>

\* The future of a request is dropped at one of its awaits; the leader's
\* guard goes on to free its slot.
AfterDrop_NoGuard(r) == "done"
AfterDrop(r) == IF role[r] = "leader" THEN "releasing" ELSE "done"

Cancel(r) ==
    /\ pc[r] \in {"keyed", "fetch", "wire", "following", "storing"}
    /\ pc' = [pc EXCEPT ![r] = AfterDrop(r)] /\ active' = Landed(r)
    /\ hops' = [hops EXCEPT ![r] = 0]
    /\ lead' = [lead EXCEPT ![r] = None] /\ life' = [life EXCEPT ![r] = 0]
    /\ UNCHANGED <<now, key, role, start, answer, size, until, sentBearing,
                   told, cache, slot>>

----------------------------------------------------------------------------
(* Outside: the clock, the cookie jar and the extra headers.               *)

\* A tick is a second: the leader's way from the stored response to its channel
\* has no await and takes none.
Tick ==
    /\ now < MaxTime /\ now' = now + 1
    /\ \A r \in Requests : pc[r] \notin {"releasing", "telling"}
    /\ UNCHANGED <<request, response, told, cache, slot, active>>

Answered(r) == \/ \E l \in Lifetimes, b \in Sizes : Receive(r, l, b)
               \/ Fail(r)
OwnStep(r)  == Hit(r) \/ Follow(r) \/ Lead(r) \/ Send(r) \/ Store(r)
               \/ Release(r) \/ Tell(r) \/ Hear(r)

Next ==
    \/ \E r \in Requests :
         \/ \E k \in Keys : Start(r, k)
         \/ OwnStep(r) \/ Answered(r) \/ Redirect(r) \/ Cancel(r)
    \/ Tick

\* The executor polls a task that can go on; the client's timeout answers a
\* request the server does not.
Fairness == \A r \in Requests : WF_vars(OwnStep(r) \/ Answered(r))
Spec == Init /\ [][Next]_vars /\ Fairness

----------------------------------------------------------------------------
(* Properties.                                                             *)

\* Exactly the requests that lead and have not freed their slot yet hold the
\* slot of their key: there are never two transports of one key that others
\* may join, and nobody frees the slot of another leader.
OneLeader ==
    /\ \A r \in Requests : role[r] = "leader" /\ pc[r] \notin {"telling", "done"}
           => slot[key[r]] = r
    /\ \A k \in Keys : slot[k] # None =>
           /\ key[slot[k]] = k /\ role[slot[k]] = "leader"
           /\ pc[slot[k]] \notin {"telling", "done"}

\* The cache keeps to its two limits, its byte count is the sum of what it
\* holds, and every entry can be evicted: its key is in the queue.
WithinLimits ==
    /\ Cardinality(Cached) <= MaxEntries /\ bytes <= MaxBytes
    /\ bytes = SizeOf(Cached)
    /\ Cached \subseteq {order[i] : i \in DOMAIN order}

\* A request that is given another's response asked for the same key, and the
\* response was still fresh, or still to come, when it looked.
NeverStale ==
    \A r \in Requests : answer[r] # None =>
        /\ key[answer[r]] = key[r] /\ life[answer[r]] > 0
        /\ start[r] < until[answer[r]]

\* active_requests is the number of transports on the wire, whichever way
\* each ends, a dropped future included.
InFlightExact == active = Cardinality({r \in Requests : pc[r] = "wire"})

\* What the cache holds was asked for without credentials.
\* (client.rs:2416, authorization_and_cookie_bearing_requests_bypass_resource_cache)
BearersBypass == \A k \in Cached : ~sentBearing[entries[k]]

\* A request that follows another is answered, fetches alone or is dropped:
\* whatever becomes of the leader, nobody waits for it for ever.
FollowersGoOn == \A r \in Requests : []<>(pc[r] # "following")

=============================================================================
