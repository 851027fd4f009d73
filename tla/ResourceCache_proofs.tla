------------------------- MODULE ResourceCache_proofs -------------------------
(***************************************************************************)
(* Proofs about ResourceCache, for any number of requests and keys and any *)
(* limits: there is one leader per key, what a request is given from       *)
(* another was fresh or still to come when it looked, the count of         *)
(* requests in flight is exact, and the cache keeps to its limits.         *)
(***************************************************************************)
EXTENDS ResourceCache, FiniteSetTheorems, TLAPS

\* Zero names no request.
LEMMA RequestFacts == /\ 0 \notin Requests /\ Requests \subseteq Nat
                      /\ 0 \notin Keys
BY CacheAssumption DEF Requests

-----------------------------------------------------------------------------
(* The invariant.  It is stated request by request and key by key, because *)
(* a step changes one request and at most one slot.                        *)

\* TypeOK without the queue and the byte count, which nothing below reads.
Typed ==
    /\ now \in Nat
    /\ pc \in [Requests -> {"idle", "keyed", "fetch", "wire", "following",
                            "storing", "releasing", "telling", "done"}]
    /\ key \in [Requests -> Keys \cup {None}]
    /\ role \in [Requests -> {"none", "alone", "leader"}]
    /\ lead \in [Requests -> Requests \cup {None}]
    /\ start \in [Requests -> Nat] /\ hops \in [Requests -> 0..MaxHops]
    /\ answer \in [Requests -> Requests \cup {None}]
    /\ life \in [Requests -> Nat] /\ size \in [Requests -> Nat]
    /\ until \in [Requests -> Nat] /\ sentBearing \in [Requests -> BOOLEAN]
    /\ told \in [Requests -> {"open", "Cacheable", "RetryUncoalesced"}]
    /\ entries \in [Keys -> Requests \cup {None}]
    /\ slot \in [Keys -> Requests \cup {None}]

\* Typed, value by value.
Ranges ==
    /\ now \in Nat
    /\ \A q \in Requests :
         /\ lead[q] \in Requests \cup {None} /\ answer[q] \in Requests \cup {None}
         /\ life[q] \in Nat /\ until[q] \in Nat /\ start[q] \in Nat
    /\ \A k \in Keys : /\ slot[k] \in Requests \cup {None}
                        /\ entries[k] \in Requests \cup {None}

\* Which role a request has in which phase, and which requests have a key.
Roles ==
    \A r \in Requests :
      /\ pc[r] \in {"idle", "keyed", "following"} => role[r] = "none"
      /\ pc[r] \in {"fetch", "wire"} => role[r] \in {"alone", "leader"}
      /\ pc[r] \in {"storing", "releasing", "telling"} => role[r] = "leader"
      /\ pc[r] \in {"keyed", "following"} \/ role[r] = "leader" => key[r] \in Keys
      /\ told[r] # "open" => pc[r] = "done"
      /\ start[r] <= now

\* The leaders that have not freed their slot.
Holds(r) == role[r] = "leader" /\ pc[r] \notin {"telling", "done"}

SlotOf(k) == slot[k] # None => key[slot[k]] = k /\ Holds(slot[k])

\* A response others may be given: its leader has had its turn to store it.
Stored(s) == /\ role[s] = "leader" /\ pc[s] \in {"releasing", "telling", "done"}
             /\ life[s] > 0

ResponseOf(s) ==
    /\ pc[s] \in {"idle", "keyed", "following", "fetch", "wire"} => life[s] = 0
    /\ told[s] = "Cacheable" => Stored(s)
    /\ pc[s] = "releasing" /\ life[s] > 0 => now < until[s]
    /\ pc[s] = "storing" => life[s] > 0
EntryOf(k) == entries[k] # None => key[entries[k]] = k /\ Stored(entries[k])
Responses  == (\A s \in Requests : ResponseOf(s)) /\ (\A k \in Keys : EntryOf(k))

\* A follower waits for a leader of its key, and looked before that leader's
\* response expired, if there is one.
FollowOf(r) ==
    pc[r] = "following" =>
      /\ lead[r] # None /\ role[lead[r]] = "leader" /\ key[lead[r]] = key[r]
      /\ Stored(lead[r]) => start[r] < until[lead[r]]
Following == \A r \in Requests : FollowOf(r)

\* NeverStale, with what makes it stay true.
GivenOf(r) ==
    answer[r] # None =>
      /\ pc[r] = "done" /\ Stored(answer[r]) /\ key[answer[r]] = key[r]
      /\ start[r] < until[answer[r]]
Given == \A r \in Requests : GivenOf(r)

Inv == Typed /\ Roles /\ OneLeader /\ Responses /\ Following /\ Given

-----------------------------------------------------------------------------
(* What a step of one request keeps.                                       *)

\* A step of r leaves the other requests alone.
Others(r) ==
    \A q \in Requests \ {r} :
      /\ pc'[q] = pc[q] /\ key'[q] = key[q] /\ role'[q] = role[q]
      /\ lead'[q] = lead[q] /\ start'[q] = start[q] /\ answer'[q] = answer[q]
      /\ life'[q] = life[q] /\ until'[q] = until[q] /\ told'[q] = told[q]

\* The values of a typed state have their ranges.
LEMMA RangesOf == Typed => Ranges
BY DEF Typed, Ranges

\* A step that neither changes a slot nor makes or unmakes a holder.
LEMMA SlotsKept ==
  ASSUME Ranges, OneLeader, NEW r \in Requests, Others(r), slot' = slot,
         Holds(r)' <=> Holds(r), Holds(r) => key'[r] = key[r]
  PROVE  OneLeader'
<1> USE RequestFacts DEF None
<1>1. ASSUME NEW q \in Requests, Holds(q)' PROVE slot'[key'[q]] = q
  <2>1. CASE q = r
    BY <1>1, <2>1 DEF OneLeader, Holds
  <2>2. CASE q # r
    BY <1>1, <2>2 DEF OneLeader, Others, Holds
  <2>3. QED BY <2>1, <2>2
<1>2. ASSUME NEW k \in Keys, slot'[k] # None
      PROVE  SlotOf(k)'
  <2>1. slot[k] \in Requests /\ Holds(slot[k]) /\ key[slot[k]] = k
    BY <1>2 DEF Ranges, OneLeader, Holds
  <2>2. CASE slot[k] = r
    BY <2>1, <2>2 DEF Holds, SlotOf
  <2>3. CASE slot[k] # r
    BY <2>1, <2>3 DEF Others, Holds, SlotOf
  <2>4. QED BY <2>2, <2>3
<1>3. QED BY <1>1, <1>2 DEF OneLeader, Holds, SlotOf

\* A step that keeps r a leader with its response, if it was one, and makes
\* only true promises for r, keeps everybody's.
LEMMA PromisesKept ==
  ASSUME Ranges, Ranges', Roles, Responses, Following, Given,
         NEW r \in Requests, Others(r), now' = now,
         role[r] = "leader" => role'[r] = "leader" /\ key'[r] = key[r],
         Stored(r) => Stored(r)' /\ until'[r] = until[r],
         Stored(r)' => (Stored(r) /\ until'[r] = until[r]) \/ now < until'[r],
         ResponseOf(r)', FollowOf(r)', GivenOf(r)',
         \A k \in Keys : entries'[k] \in {entries[k], None} \/ EntryOf(k)'
  PROVE  Responses' /\ Following' /\ Given'
<1> USE RequestFacts DEF None
<1>1. ASSUME NEW s \in Requests, Stored(s)
      PROVE  Stored(s)' /\ key'[s] = key[s] /\ until'[s] = until[s]
  <2>1. CASE s = r
    BY <1>1, <2>1 DEF Stored
  <2>2. CASE s # r
    BY <1>1, <2>2 DEF Stored, Others
  <2>3. QED BY <2>1, <2>2
<1>2. ASSUME NEW s \in Requests, s # r PROVE ResponseOf(s)'
  BY <1>2 DEF Responses, ResponseOf, Stored, Others
<1>3. ASSUME NEW k \in Keys, entries'[k] \in {entries[k], None} PROVE EntryOf(k)'
  <2>1. CASE entries'[k] = None
    BY <2>1 DEF EntryOf
  <2>2. CASE entries'[k] # None
    <3>1. entries'[k] = entries[k] /\ entries[k] \in Requests
      BY <1>3, <2>2 DEF Ranges
    <3>2. key[entries[k]] = k /\ Stored(entries[k])
      BY <2>2, <3>1 DEF Responses, EntryOf
    <3>3. QED BY <1>1, <3>1, <3>2 DEF EntryOf, Stored
  <2>3. QED BY <2>1, <2>2
<1>4. Responses'
  BY <1>2, <1>3 DEF Responses
<1>5. ASSUME NEW q \in Requests, q # r PROVE FollowOf(q)'
  <2>1. SUFFICES ASSUME pc'[q] = "following" PROVE FollowOf(q)'
    BY DEF FollowOf
  <2>2. /\ pc[q] = "following" /\ lead'[q] = lead[q] /\ start'[q] = start[q]
        /\ key'[q] = key[q]
    BY <1>5, <2>1 DEF Others
  <2>3. /\ lead[q] \in Requests /\ lead[q] # None /\ role[lead[q]] = "leader"
        /\ key[lead[q]] = key[q]
        /\ Stored(lead[q]) => start[q] < until[lead[q]]
    BY <2>2 DEF Following, FollowOf, Ranges
  <2>4. role'[lead[q]] = "leader" /\ key'[lead[q]] = key[q]
    BY <2>3 DEF Others
  <2>5. ASSUME Stored(lead[q])' PROVE start[q] < until'[lead[q]]
    <3>1. start[q] <= now /\ start[q] \in Nat /\ now \in Nat /\ until'[lead[q]] \in Nat
      BY <2>3 DEF Roles, Ranges
    <3>2. CASE lead[q] = r
      BY <2>2, <2>3, <2>5, <3>1, <3>2
    <3>3. CASE lead[q] # r
      <4>1. Stored(lead[q]) /\ until'[lead[q]] = until[lead[q]]
        BY <2>2, <2>3, <2>5, <3>3 DEF Stored, Others
      <4>2. QED BY <2>3, <4>1
    <3>4. QED BY <3>2, <3>3
  <2>6. QED BY <2>2, <2>3, <2>4, <2>5 DEF FollowOf, Stored
<1>6. ASSUME NEW q \in Requests, q # r PROVE GivenOf(q)'
  <2>1. SUFFICES ASSUME answer'[q] # None PROVE GivenOf(q)'
    BY DEF GivenOf
  <2>2. /\ answer'[q] = answer[q] /\ start'[q] = start[q] /\ key'[q] = key[q]
        /\ pc'[q] = pc[q] /\ answer[q] \in Requests
    BY <1>6, <2>1 DEF Others, Ranges
  <2>3. /\ pc[q] = "done" /\ Stored(answer[q]) /\ key[answer[q]] = key[q]
        /\ start[q] < until[answer[q]]
    BY <2>1, <2>2 DEF Given, GivenOf
  <2>4. QED BY <1>1, <2>2, <2>3 DEF GivenOf, Stored
<1>7. QED BY <1>4, <1>5, <1>6 DEF Following, Given

-----------------------------------------------------------------------------
(* Every step keeps the invariant.                                         *)

\* A request starts.
LEMMA StartStep ==
  ASSUME Inv, NEW r \in Requests,
         NEW kk \in Keys,
         Start(r, kk)
  PROVE  Inv'
<1> USE RequestFacts DEF Inv, None
<1>1. Typed'
  BY CacheAssumption DEF Typed, Start, request, response, cache
<1>2. /\ Others(r) /\ now' = now
      /\ pc[r] = "idle"
      /\ \/ (pc'[r] = "fetch" /\ key'[r] = key[r] /\ role'[r] = "alone"
            /\ lead'[r] = lead[r] /\ start'[r] = start[r] /\ answer'[r] = answer[r]
            /\ life'[r] = life[r] /\ until'[r] = until[r] /\ told'[r] = told[r])
         \/ (pc'[r] = "keyed" /\ key'[r] = kk /\ role'[r] = role[r]
            /\ lead'[r] = lead[r] /\ start'[r] = start[r] /\ answer'[r] = answer[r]
            /\ life'[r] = life[r] /\ until'[r] = until[r] /\ told'[r] = told[r])
      /\ \A k \in Keys : entries'[k] = entries[k]
      /\ slot' = slot
  BY <1>1 DEF Typed, Others, Start, Roles, request, response, cache
<1>3. Roles'
  BY <1>1, <1>2 DEF Typed, Roles, Others, OneLeader, Responses, ResponseOf
<1>4. Ranges /\ Ranges'
  BY <1>1, RangesOf DEF Typed, Ranges
<1>5. OneLeader'
  <2>1. (Holds(r)' <=> Holds(r)) /\ (Holds(r) => key'[r] = key[r])
    BY <1>2 DEF Holds, Roles
  <2>2. QED BY SlotsKept, <1>2, <1>4, <2>1
<1>6. /\ role[r] = "leader" => role'[r] = "leader" /\ key'[r] = key[r]
      /\ Stored(r) => Stored(r)' /\ until'[r] = until[r]
      /\ Stored(r)' => (Stored(r) /\ until'[r] = until[r]) \/ now < until'[r]
      /\ ResponseOf(r)' /\ FollowOf(r)' /\ GivenOf(r)'
  BY <1>2, <1>4 DEF Roles, Ranges, Responses, ResponseOf, Stored, FollowOf, Given, GivenOf
<1>7. Responses' /\ Following' /\ Given'
  BY PromisesKept, <1>2, <1>4, <1>6
<1>8. QED BY <1>1, <1>3, <1>5, <1>7

\* A request is answered from the cache.
LEMMA HitStep ==
  ASSUME Inv, NEW r \in Requests,
         Hit(r)
  PROVE  Inv'
<1> USE RequestFacts DEF Inv, None
<1>0. entries' \in [Keys -> Requests \cup {None}]
  BY DEF Typed, Roles, Hit, Look, Cached
<1>1. Typed'
  BY <1>0, CacheAssumption DEF Typed, Hit, Roles, Fresh, request, response, cache
<1>2. /\ Others(r) /\ now' = now
      /\ pc[r] = "keyed" /\ entries[key[r]] # None /\ now < until[entries[key[r]]]
      /\ pc'[r] = "done" /\ key'[r] = key[r] /\ role'[r] = role[r]
            /\ lead'[r] = lead[r] /\ start'[r] = now /\ answer'[r] = entries[key[r]]
            /\ life'[r] = life[r] /\ until'[r] = until[r] /\ told'[r] = told[r]
      /\ \A k \in Keys : entries'[k] \in {entries[k], None}
      /\ slot' = slot
  BY <1>1 DEF Typed, Others, Hit, Roles, Fresh, Look, Cached, request, response, cache
<1>3. Roles'
  BY <1>1, <1>2 DEF Typed, Roles, Others, OneLeader, Responses, ResponseOf
<1>4. Ranges /\ Ranges'
  BY <1>1, RangesOf DEF Typed, Ranges
<1>5. OneLeader'
  <2>1. (Holds(r)' <=> Holds(r)) /\ (Holds(r) => key'[r] = key[r])
    BY <1>2 DEF Holds, Roles
  <2>2. QED BY SlotsKept, <1>2, <1>4, <2>1
<1>6. GivenOf(r)'
  <2>1. /\ key[r] \in Keys /\ entries[key[r]] \in Requests /\ entries[key[r]] # r
        /\ Stored(entries[key[r]]) /\ key[entries[key[r]]] = key[r]
    BY <1>2, <1>4 DEF Roles, Ranges, Responses, EntryOf, Stored
  <2>2. QED BY <1>2, <2>1 DEF GivenOf, Others, Stored
<1>7. /\ role[r] = "leader" => role'[r] = "leader" /\ key'[r] = key[r]
      /\ Stored(r) => Stored(r)' /\ until'[r] = until[r]
      /\ Stored(r)' => (Stored(r) /\ until'[r] = until[r]) \/ now < until'[r]
      /\ ResponseOf(r)' /\ FollowOf(r)' /\ GivenOf(r)'
  BY <1>2, <1>4, <1>6 DEF Roles, Ranges, Responses, ResponseOf, Stored, FollowOf, Given, GivenOf
<1>8. Responses' /\ Following' /\ Given'
  BY PromisesKept, <1>2, <1>4, <1>7
<1>9. QED BY <1>1, <1>3, <1>5, <1>8

\* A request joins the leader of its key.
LEMMA FollowStep ==
  ASSUME Inv, NEW r \in Requests,
         Follow(r)
  PROVE  Inv'
<1> USE RequestFacts DEF Inv, None
<1>0. entries' \in [Keys -> Requests \cup {None}]
  BY DEF Typed, Roles, Follow, Look, Cached
<1>1. Typed'
  BY <1>0, CacheAssumption DEF Typed, Follow, Roles, Fresh, request, response, cache
<1>2. /\ Others(r) /\ now' = now
      /\ pc[r] = "keyed" /\ slot[key[r]] # None
      /\ pc'[r] = "following" /\ key'[r] = key[r] /\ role'[r] = role[r]
            /\ lead'[r] = slot[key[r]] /\ start'[r] = now /\ answer'[r] = answer[r]
            /\ life'[r] = life[r] /\ until'[r] = until[r] /\ told'[r] = told[r]
      /\ \A k \in Keys : entries'[k] \in {entries[k], None}
      /\ slot' = slot
  BY <1>1 DEF Typed, Others, Follow, Roles, Fresh, Look, Cached, request, response, cache
<1>3. Roles'
  BY <1>1, <1>2 DEF Typed, Roles, Others, OneLeader, Responses, ResponseOf
<1>4. Ranges /\ Ranges'
  BY <1>1, RangesOf DEF Typed, Ranges
<1>5. OneLeader'
  <2>1. (Holds(r)' <=> Holds(r)) /\ (Holds(r) => key'[r] = key[r])
    BY <1>2 DEF Holds, Roles
  <2>2. QED BY SlotsKept, <1>2, <1>4, <2>1
<1>6. FollowOf(r)'
  <2>1. /\ key[r] \in Keys /\ slot[key[r]] \in Requests /\ slot[key[r]] # r
        /\ Holds(slot[key[r]]) /\ key[slot[key[r]]] = key[r]
    BY <1>2, <1>4 DEF Roles, Ranges, OneLeader, Holds
  <2>2. Stored(slot[key[r]]) => now < until[slot[key[r]]]
    BY <2>1 DEF Responses, ResponseOf, Stored, Holds
  <2>3. PICK s \in Requests : s = slot[key[r]]
    BY <2>1
  <2>4. /\ pc'[s] = pc[s] /\ role'[s] = role[s] /\ life'[s] = life[s]
        /\ until'[s] = until[s] /\ key'[s] = key[s]
    BY <1>2, <2>1, <2>3 DEF Others
  <2>5. lead'[r] = s /\ key'[r] = key[r] /\ start'[r] = now
    BY <1>2, <2>3
  <2>6. QED BY <2>1, <2>2, <2>3, <2>4, <2>5 DEF FollowOf, Stored, Holds
<1>7. /\ role[r] = "leader" => role'[r] = "leader" /\ key'[r] = key[r]
      /\ Stored(r) => Stored(r)' /\ until'[r] = until[r]
      /\ Stored(r)' => (Stored(r) /\ until'[r] = until[r]) \/ now < until'[r]
      /\ ResponseOf(r)' /\ FollowOf(r)' /\ GivenOf(r)'
  BY <1>2, <1>4, <1>6 DEF Roles, Ranges, Responses, ResponseOf, Stored, FollowOf, Given, GivenOf
<1>8. Responses' /\ Following' /\ Given'
  BY PromisesKept, <1>2, <1>4, <1>7
<1>9. QED BY <1>1, <1>3, <1>5, <1>8

\* A request becomes the leader of its key.
LEMMA LeadStep ==
  ASSUME Inv, NEW r \in Requests,
         Lead(r)
  PROVE  Inv'
<1> USE RequestFacts DEF Inv, None
<1>0. entries' \in [Keys -> Requests \cup {None}]
  BY DEF Typed, Roles, Lead, Look, Cached
<1>1. Typed'
  BY <1>0, CacheAssumption DEF Typed, Lead, Roles, Fresh, request, response, cache
<1>2. /\ Others(r) /\ now' = now
      /\ pc[r] = "keyed" /\ slot[key[r]] = None
      /\ pc'[r] = "fetch" /\ key'[r] = key[r] /\ role'[r] = "leader"
            /\ lead'[r] = lead[r] /\ start'[r] = start[r] /\ answer'[r] = answer[r]
            /\ life'[r] = life[r] /\ until'[r] = until[r] /\ told'[r] = told[r]
      /\ \A k \in Keys : entries'[k] \in {entries[k], None}
      /\ slot' = [slot EXCEPT ![key[r]] = r]
  BY <1>1 DEF Typed, Others, Lead, Roles, Fresh, Look, Cached, request, response, cache
<1>3. Roles'
  BY <1>1, <1>2 DEF Typed, Roles, Others, OneLeader, Responses, ResponseOf
<1>4. Ranges /\ Ranges'
  BY <1>1, RangesOf DEF Typed, Ranges
<1>5. OneLeader'
  <2>1. ASSUME NEW q \in Requests, Holds(q)' PROVE slot'[key'[q]] = q
    <3>1. CASE q = r
      BY <1>1, <1>2, <1>3, <3>1 DEF Typed, Roles
    <3>2. CASE q # r
      <4>1. Holds(q) /\ key'[q] = key[q] /\ slot[key[q]] = q
        BY <1>2, <2>1, <3>2 DEF Others, Holds, OneLeader
      <4>2. key[q] # key[r]
        BY <1>2, <4>1
      <4>3. QED BY <1>2, <4>1, <4>2 DEF Typed
    <3>3. QED BY <3>1, <3>2
  <2>2. ASSUME NEW k \in Keys, slot'[k] # None
        PROVE  SlotOf(k)'
    <3>1. CASE k = key[r]
      BY <1>2, <3>1 DEF Holds, Typed, SlotOf
    <3>2. CASE k # key[r]
      <4>1. slot'[k] = slot[k] /\ slot[k] \in Requests
        BY <1>2, <1>4, <2>2, <3>2 DEF Typed, Ranges
      <4>2. key[slot[k]] = k /\ Holds(slot[k])
        BY <2>2, <4>1 DEF OneLeader, Holds
      <4>3. slot[k] # r
        BY <3>2, <4>2
      <4>4. PICK s \in Requests : s = slot[k]
        BY <4>1
      <4>5. key'[s] = k /\ Holds(s)'
        BY <1>2, <4>2, <4>3, <4>4 DEF Others, Holds
      <4>6. QED BY <4>1, <4>4, <4>5 DEF SlotOf, Holds
    <3>3. QED BY <3>1, <3>2
  <2>3. QED BY <2>1, <2>2 DEF OneLeader, Holds, SlotOf
<1>6. /\ role[r] = "leader" => role'[r] = "leader" /\ key'[r] = key[r]
      /\ Stored(r) => Stored(r)' /\ until'[r] = until[r]
      /\ Stored(r)' => (Stored(r) /\ until'[r] = until[r]) \/ now < until'[r]
      /\ ResponseOf(r)' /\ FollowOf(r)' /\ GivenOf(r)'
  BY <1>2, <1>4 DEF Roles, Ranges, Responses, ResponseOf, Stored, FollowOf, Given, GivenOf
<1>7. Responses' /\ Following' /\ Given'
  BY PromisesKept, <1>2, <1>4, <1>6
<1>8. QED BY <1>1, <1>3, <1>5, <1>7

\* A hop goes out.
LEMMA SendStep ==
  ASSUME Inv, NEW r \in Requests,
         Send(r)
  PROVE  Inv'
<1> USE RequestFacts DEF Inv, None
<1>1. Typed'
  BY CacheAssumption DEF Typed, Send, request, response, cache
<1>2. /\ Others(r) /\ now' = now
      /\ pc[r] = "fetch"
      /\ pc'[r] = "wire" /\ key'[r] = key[r] /\ role'[r] = role[r]
            /\ lead'[r] = lead[r] /\ start'[r] = start[r] /\ answer'[r] = answer[r]
            /\ life'[r] = life[r] /\ until'[r] = until[r] /\ told'[r] = told[r]
      /\ \A k \in Keys : entries'[k] = entries[k]
      /\ slot' = slot
  BY <1>1 DEF Typed, Others, Send, Roles, request, response, cache
<1>3. Roles'
  BY <1>1, <1>2 DEF Typed, Roles, Others, OneLeader, Responses, ResponseOf
<1>4. Ranges /\ Ranges'
  BY <1>1, RangesOf DEF Typed, Ranges
<1>5. OneLeader'
  <2>1. (Holds(r)' <=> Holds(r)) /\ (Holds(r) => key'[r] = key[r])
    BY <1>2 DEF Holds, Roles
  <2>2. QED BY SlotsKept, <1>2, <1>4, <2>1
<1>6. /\ role[r] = "leader" => role'[r] = "leader" /\ key'[r] = key[r]
      /\ Stored(r) => Stored(r)' /\ until'[r] = until[r]
      /\ Stored(r)' => (Stored(r) /\ until'[r] = until[r]) \/ now < until'[r]
      /\ ResponseOf(r)' /\ FollowOf(r)' /\ GivenOf(r)'
  BY <1>2, <1>4 DEF Roles, Ranges, Responses, ResponseOf, Stored, FollowOf, Given, GivenOf
<1>7. Responses' /\ Following' /\ Given'
  BY PromisesKept, <1>2, <1>4, <1>6
<1>8. QED BY <1>1, <1>3, <1>5, <1>7

\* A redirect comes back.
LEMMA RedirectStep ==
  ASSUME Inv, NEW r \in Requests,
         Redirect(r)
  PROVE  Inv'
<1> USE RequestFacts DEF Inv, None
<1>1. Typed'
  BY CacheAssumption DEF Typed, Redirect, request, response, cache
<1>2. /\ Others(r) /\ now' = now
      /\ pc[r] = "wire"
      /\ pc'[r] = "fetch" /\ key'[r] = key[r] /\ role'[r] = role[r]
            /\ lead'[r] = lead[r] /\ start'[r] = start[r] /\ answer'[r] = answer[r]
            /\ life'[r] = life[r] /\ until'[r] = until[r] /\ told'[r] = told[r]
      /\ \A k \in Keys : entries'[k] = entries[k]
      /\ slot' = slot
  BY <1>1 DEF Typed, Others, Redirect, Roles, request, response, cache
<1>3. Roles'
  BY <1>1, <1>2 DEF Typed, Roles, Others, OneLeader, Responses, ResponseOf
<1>4. Ranges /\ Ranges'
  BY <1>1, RangesOf DEF Typed, Ranges
<1>5. OneLeader'
  <2>1. (Holds(r)' <=> Holds(r)) /\ (Holds(r) => key'[r] = key[r])
    BY <1>2 DEF Holds, Roles
  <2>2. QED BY SlotsKept, <1>2, <1>4, <2>1
<1>6. /\ role[r] = "leader" => role'[r] = "leader" /\ key'[r] = key[r]
      /\ Stored(r) => Stored(r)' /\ until'[r] = until[r]
      /\ Stored(r)' => (Stored(r) /\ until'[r] = until[r]) \/ now < until'[r]
      /\ ResponseOf(r)' /\ FollowOf(r)' /\ GivenOf(r)'
  BY <1>2, <1>4 DEF Roles, Ranges, Responses, ResponseOf, Stored, FollowOf, Given, GivenOf
<1>7. Responses' /\ Following' /\ Given'
  BY PromisesKept, <1>2, <1>4, <1>6
<1>8. QED BY <1>1, <1>3, <1>5, <1>7

\* A response comes back.
LEMMA ReceiveStep ==
  ASSUME Inv, NEW r \in Requests,
         NEW l \in Lifetimes, NEW b \in Sizes,
         Receive(r, l, b)
  PROVE  Inv'
<1> USE RequestFacts DEF Inv, None
<1>1. Typed'
  BY CacheAssumption DEF Typed, Receive, After, request, response, cache
<1>2. /\ Others(r) /\ now' = now
      /\ pc[r] = "wire"
      /\ \/ (pc'[r] = "done" /\ key'[r] = key[r] /\ role'[r] = role[r]
            /\ lead'[r] = lead[r] /\ start'[r] = start[r] /\ answer'[r] = answer[r]
            /\ life'[r] = life[r] /\ until'[r] = until[r] /\ told'[r] = told[r] /\ role[r] = "alone")
         \/ (pc'[r] = "storing" /\ key'[r] = key[r] /\ role'[r] = role[r]
            /\ lead'[r] = lead[r] /\ start'[r] = start[r] /\ answer'[r] = answer[r]
            /\ life'[r] = l /\ until'[r] = until[r] /\ told'[r] = told[r] /\ role[r] = "leader" /\ l \in Nat /\ l > 0)
         \/ (pc'[r] = "releasing" /\ key'[r] = key[r] /\ role'[r] = role[r]
            /\ lead'[r] = lead[r] /\ start'[r] = start[r] /\ answer'[r] = answer[r]
            /\ life'[r] = life[r] /\ until'[r] = until[r] /\ told'[r] = told[r] /\ role[r] = "leader")
      /\ \A k \in Keys : entries'[k] = entries[k]
      /\ slot' = slot
  BY <1>1 DEF Typed, Others, Receive, After, Roles, request, response, cache
<1>3. Roles'
  BY <1>1, <1>2 DEF Typed, Roles, Others, OneLeader, Responses, ResponseOf
<1>4. Ranges /\ Ranges'
  BY <1>1, RangesOf DEF Typed, Ranges
<1>5. OneLeader'
  <2>1. (Holds(r)' <=> Holds(r)) /\ (Holds(r) => key'[r] = key[r])
    BY <1>2 DEF Holds, Roles
  <2>2. QED BY SlotsKept, <1>2, <1>4, <2>1
<1>6. /\ role[r] = "leader" => role'[r] = "leader" /\ key'[r] = key[r]
      /\ Stored(r) => Stored(r)' /\ until'[r] = until[r]
      /\ Stored(r)' => (Stored(r) /\ until'[r] = until[r]) \/ now < until'[r]
      /\ ResponseOf(r)' /\ FollowOf(r)' /\ GivenOf(r)'
  BY <1>2, <1>4 DEF Roles, Ranges, Responses, ResponseOf, Stored, FollowOf, Given, GivenOf
<1>7. Responses' /\ Following' /\ Given'
  BY PromisesKept, <1>2, <1>4, <1>6
<1>8. QED BY <1>1, <1>3, <1>5, <1>7

\* A transport fails.
LEMMA FailStep ==
  ASSUME Inv, NEW r \in Requests,
         Fail(r)
  PROVE  Inv'
<1> USE RequestFacts DEF Inv, None
<1>1. Typed'
  BY CacheAssumption DEF Typed, Fail, After, request, response, cache
<1>2. /\ Others(r) /\ now' = now
      /\ pc[r] \in {"fetch", "wire"}
      /\ \/ (pc'[r] = "done" /\ key'[r] = key[r] /\ role'[r] = role[r]
            /\ lead'[r] = lead[r] /\ start'[r] = start[r] /\ answer'[r] = answer[r]
            /\ life'[r] = life[r] /\ until'[r] = until[r] /\ told'[r] = told[r] /\ role[r] = "alone")
         \/ (pc'[r] = "releasing" /\ key'[r] = key[r] /\ role'[r] = role[r]
            /\ lead'[r] = lead[r] /\ start'[r] = start[r] /\ answer'[r] = answer[r]
            /\ life'[r] = life[r] /\ until'[r] = until[r] /\ told'[r] = told[r] /\ role[r] = "leader")
      /\ \A k \in Keys : entries'[k] = entries[k]
      /\ slot' = slot
  BY <1>1 DEF Typed, Others, Fail, After, Roles, request, response, cache
<1>3. Roles'
  BY <1>1, <1>2 DEF Typed, Roles, Others, OneLeader, Responses, ResponseOf
<1>4. Ranges /\ Ranges'
  BY <1>1, RangesOf DEF Typed, Ranges
<1>5. OneLeader'
  <2>1. (Holds(r)' <=> Holds(r)) /\ (Holds(r) => key'[r] = key[r])
    BY <1>2 DEF Holds, Roles
  <2>2. QED BY SlotsKept, <1>2, <1>4, <2>1
<1>6. /\ role[r] = "leader" => role'[r] = "leader" /\ key'[r] = key[r]
      /\ Stored(r) => Stored(r)' /\ until'[r] = until[r]
      /\ Stored(r)' => (Stored(r) /\ until'[r] = until[r]) \/ now < until'[r]
      /\ ResponseOf(r)' /\ FollowOf(r)' /\ GivenOf(r)'
  BY <1>2, <1>4 DEF Roles, Ranges, Responses, ResponseOf, Stored, FollowOf, Given, GivenOf
<1>7. Responses' /\ Following' /\ Given'
  BY PromisesKept, <1>2, <1>4, <1>6
<1>8. QED BY <1>1, <1>3, <1>5, <1>7

\* The leader stores its response.
LEMMA StoreStep ==
  ASSUME Inv, NEW r \in Requests,
         Store(r)
  PROVE  Inv'
<1> USE RequestFacts DEF Inv, None
<1>0. /\ entries' \in [Keys -> Requests \cup {None}]
      /\ \A k \in Keys : entries'[k] \in {entries[k], None} \/ (k = key[r] /\ entries'[k] = r)
  <2>1. Insert(r)
    BY DEF Store
  <2>2. CASE size[r] > MaxBytes
    BY <2>1, <2>2 DEF Insert, Typed, cache
  <2>3. CASE ~(size[r] > MaxBytes)
    <3>1. entries' = [q \in Keys |-> IF q = key[r] THEN r
                                    ELSE IF q \in Evicted(r) THEN None ELSE entries[q]]
      BY <2>1, <2>3 DEF Insert
    <3>2. QED BY <3>1 DEF Typed
  <2>4. QED BY <2>2, <2>3
<1>1. Typed'
  BY <1>0, CacheAssumption DEF Typed, Store, request, response, cache
<1>2. /\ Others(r) /\ now' = now
      /\ pc[r] = "storing"
      /\ pc'[r] = "releasing" /\ key'[r] = key[r] /\ role'[r] = role[r]
            /\ lead'[r] = lead[r] /\ start'[r] = start[r] /\ answer'[r] = answer[r]
            /\ life'[r] = life[r] /\ until'[r] = now + life[r] /\ told'[r] = told[r]
      /\ \A k \in Keys : entries'[k] \in {entries[k], None} \/ (k = key[r] /\ entries'[k] = r)
      /\ slot' = slot
  BY <1>0, <1>1 DEF Typed, Others, Store, Roles, request, response, cache
<1>3. Roles'
  BY <1>1, <1>2 DEF Typed, Roles, Others, OneLeader, Responses, ResponseOf
<1>4. Ranges /\ Ranges'
  BY <1>1, RangesOf DEF Typed, Ranges
<1>5. OneLeader'
  <2>1. (Holds(r)' <=> Holds(r)) /\ (Holds(r) => key'[r] = key[r])
    BY <1>2 DEF Holds, Roles
  <2>2. QED BY SlotsKept, <1>2, <1>4, <2>1
<1>6. \A k \in Keys : entries'[k] \in {entries[k], None} \/ EntryOf(k)'
  BY <1>2 DEF EntryOf, Stored, Roles, Responses, ResponseOf
<1>7. /\ role[r] = "leader" => role'[r] = "leader" /\ key'[r] = key[r]
      /\ Stored(r) => Stored(r)' /\ until'[r] = until[r]
      /\ Stored(r)' => (Stored(r) /\ until'[r] = until[r]) \/ now < until'[r]
      /\ ResponseOf(r)' /\ FollowOf(r)' /\ GivenOf(r)'
  BY <1>2, <1>4, <1>6 DEF Roles, Ranges, Responses, ResponseOf, Stored, FollowOf, Given, GivenOf
<1>8. Responses' /\ Following' /\ Given'
  BY PromisesKept, <1>2, <1>4, <1>7, <1>6
<1>9. QED BY <1>1, <1>3, <1>5, <1>8

\* The leader frees its slot.
LEMMA ReleaseStep ==
  ASSUME Inv, NEW r \in Requests,
         Release(r)
  PROVE  Inv'
<1> USE RequestFacts DEF Inv, None
<1>1. Typed'
  BY CacheAssumption DEF Typed, Release, request, response, cache
<1>2. /\ Others(r) /\ now' = now
      /\ pc[r] = "releasing"
      /\ pc'[r] = "telling" /\ key'[r] = key[r] /\ role'[r] = role[r]
            /\ lead'[r] = lead[r] /\ start'[r] = start[r] /\ answer'[r] = answer[r]
            /\ life'[r] = life[r] /\ until'[r] = until[r] /\ told'[r] = told[r]
      /\ \A k \in Keys : entries'[k] = entries[k]
      /\ slot' = [slot EXCEPT ![key[r]] = None]
  BY <1>1 DEF Typed, Others, Release, Roles, request, response, cache
<1>3. Roles'
  BY <1>1, <1>2 DEF Typed, Roles, Others, OneLeader, Responses, ResponseOf
<1>4. Ranges /\ Ranges'
  BY <1>1, RangesOf DEF Typed, Ranges
<1>5. OneLeader'
  <2>1. Holds(r) /\ slot[key[r]] = r
    BY <1>2 DEF Holds, Roles, OneLeader
  <2>2. ASSUME NEW q \in Requests, Holds(q)' PROVE slot'[key'[q]] = q
    <3>1. q # r
      BY <1>2, <2>2 DEF Holds
    <3>2. Holds(q) /\ key'[q] = key[q] /\ slot[key[q]] = q
      BY <1>2, <2>2, <3>1 DEF Others, Holds, OneLeader
    <3>3. key[q] # key[r]
      BY <2>1, <3>1, <3>2
    <3>4. QED BY <1>2, <3>2, <3>3 DEF Typed
  <2>3. ASSUME NEW k \in Keys, slot'[k] # None
        PROVE  SlotOf(k)'
    <3>1. k # key[r] /\ slot'[k] = slot[k] /\ slot[k] \in Requests
      BY <1>2, <1>4, <2>3 DEF Typed, Ranges
    <3>2. key[slot[k]] = k /\ Holds(slot[k]) /\ slot[k] # r
      BY <2>3, <3>1 DEF OneLeader, Holds
    <3>3. QED BY <1>2, <3>1, <3>2 DEF Others, Holds, SlotOf
  <2>4. QED BY <2>2, <2>3 DEF OneLeader, Holds, SlotOf
<1>6. /\ role[r] = "leader" => role'[r] = "leader" /\ key'[r] = key[r]
      /\ Stored(r) => Stored(r)' /\ until'[r] = until[r]
      /\ Stored(r)' => (Stored(r) /\ until'[r] = until[r]) \/ now < until'[r]
      /\ ResponseOf(r)' /\ FollowOf(r)' /\ GivenOf(r)'
  BY <1>2, <1>4 DEF Roles, Ranges, Responses, ResponseOf, Stored, FollowOf, Given, GivenOf
<1>7. Responses' /\ Following' /\ Given'
  BY PromisesKept, <1>2, <1>4, <1>6
<1>8. QED BY <1>1, <1>3, <1>5, <1>7

\* The leader tells its followers.
LEMMA TellStep ==
  ASSUME Inv, NEW r \in Requests,
         Tell(r)
  PROVE  Inv'
<1> USE RequestFacts DEF Inv, None
<1>1. Typed'
  BY CacheAssumption DEF Typed, Tell, request, response, cache
<1>2. /\ Others(r) /\ now' = now
      /\ pc[r] = "telling"
      /\ \/ (pc'[r] = "done" /\ key'[r] = key[r] /\ role'[r] = role[r]
            /\ lead'[r] = lead[r] /\ start'[r] = start[r] /\ answer'[r] = answer[r]
            /\ life'[r] = life[r] /\ until'[r] = until[r] /\ told'[r] = "Cacheable" /\ life[r] > 0)
         \/ (pc'[r] = "done" /\ key'[r] = key[r] /\ role'[r] = role[r]
            /\ lead'[r] = lead[r] /\ start'[r] = start[r] /\ answer'[r] = answer[r]
            /\ life'[r] = life[r] /\ until'[r] = until[r] /\ told'[r] = "RetryUncoalesced" /\ life[r] = 0)
      /\ \A k \in Keys : entries'[k] = entries[k]
      /\ slot' = slot
  BY <1>1 DEF Typed, Others, Tell, Roles, request, response, cache
<1>3. Roles'
  BY <1>1, <1>2 DEF Typed, Roles, Others, OneLeader, Responses, ResponseOf
<1>4. Ranges /\ Ranges'
  BY <1>1, RangesOf DEF Typed, Ranges
<1>5. OneLeader'
  <2>1. (Holds(r)' <=> Holds(r)) /\ (Holds(r) => key'[r] = key[r])
    BY <1>2 DEF Holds, Roles
  <2>2. QED BY SlotsKept, <1>2, <1>4, <2>1
<1>6. /\ role[r] = "leader" => role'[r] = "leader" /\ key'[r] = key[r]
      /\ Stored(r) => Stored(r)' /\ until'[r] = until[r]
      /\ Stored(r)' => (Stored(r) /\ until'[r] = until[r]) \/ now < until'[r]
      /\ ResponseOf(r)' /\ FollowOf(r)' /\ GivenOf(r)'
  BY <1>2, <1>4 DEF Roles, Ranges, Responses, ResponseOf, Stored, FollowOf, Given, GivenOf
<1>7. Responses' /\ Following' /\ Given'
  BY PromisesKept, <1>2, <1>4, <1>6
<1>8. QED BY <1>1, <1>3, <1>5, <1>7

\* A follower hears its leader.
LEMMA HearStep ==
  ASSUME Inv, NEW r \in Requests,
         Hear(r)
  PROVE  Inv'
<1> USE RequestFacts DEF Inv, None
<1>1. Typed'
  BY CacheAssumption DEF Typed, Hear, request, response, cache
<1>2. /\ Others(r) /\ now' = now
      /\ pc[r] = "following"
      /\ \/ (pc'[r] = "done" /\ key'[r] = key[r] /\ role'[r] = role[r]
            /\ lead'[r] = None /\ start'[r] = start[r] /\ answer'[r] = lead[r]
            /\ life'[r] = life[r] /\ until'[r] = until[r] /\ told'[r] = told[r] /\ told[lead[r]] = "Cacheable")
         \/ (pc'[r] = "fetch" /\ key'[r] = key[r] /\ role'[r] = "alone"
            /\ lead'[r] = None /\ start'[r] = start[r] /\ answer'[r] = answer[r]
            /\ life'[r] = life[r] /\ until'[r] = until[r] /\ told'[r] = told[r])
      /\ \A k \in Keys : entries'[k] = entries[k]
      /\ slot' = slot
  BY <1>1 DEF Typed, Others, Hear, Roles, request, response, cache
<1>3. Roles'
  BY <1>1, <1>2 DEF Typed, Roles, Others, OneLeader, Responses, ResponseOf
<1>4. Ranges /\ Ranges'
  BY <1>1, RangesOf DEF Typed, Ranges
<1>5. OneLeader'
  <2>1. (Holds(r)' <=> Holds(r)) /\ (Holds(r) => key'[r] = key[r])
    BY <1>2 DEF Holds, Roles
  <2>2. QED BY SlotsKept, <1>2, <1>4, <2>1
<1>6. GivenOf(r)'
  <2>1. /\ lead[r] \in Requests /\ lead[r] # r /\ key[lead[r]] = key[r]
        /\ Stored(lead[r]) => start[r] < until[lead[r]]
    BY <1>2, <1>4 DEF Roles, Ranges, Following, FollowOf, Stored
  <2>2. told[lead[r]] = "Cacheable" => Stored(lead[r])
    BY <2>1 DEF Responses, ResponseOf
  <2>3. answer[r] = None
    BY <1>2 DEF Given, GivenOf
  <2>4. PICK s \in Requests : s = lead[r]
    BY <2>1
  <2>5. /\ pc'[s] = pc[s] /\ role'[s] = role[s] /\ life'[s] = life[s]
        /\ until'[s] = until[s] /\ key'[s] = key[s]
    BY <1>2, <2>1, <2>4 DEF Others
  <2>6. QED BY <1>2, <2>1, <2>2, <2>3, <2>4, <2>5 DEF GivenOf, Stored
<1>7. /\ role[r] = "leader" => role'[r] = "leader" /\ key'[r] = key[r]
      /\ Stored(r) => Stored(r)' /\ until'[r] = until[r]
      /\ Stored(r)' => (Stored(r) /\ until'[r] = until[r]) \/ now < until'[r]
      /\ ResponseOf(r)' /\ FollowOf(r)' /\ GivenOf(r)'
  BY <1>2, <1>4, <1>6 DEF Roles, Ranges, Responses, ResponseOf, Stored, FollowOf, Given, GivenOf
<1>8. Responses' /\ Following' /\ Given'
  BY PromisesKept, <1>2, <1>4, <1>7
<1>9. QED BY <1>1, <1>3, <1>5, <1>8

\* A request is dropped.
LEMMA CancelStep ==
  ASSUME Inv, NEW r \in Requests,
         Cancel(r)
  PROVE  Inv'
<1> USE RequestFacts DEF Inv, None
<1>1. Typed'
  BY CacheAssumption DEF Typed, Cancel, AfterDrop, request, response, cache
<1>2. /\ Others(r) /\ now' = now
      /\ pc[r] \in {"keyed", "fetch", "wire", "following", "storing"}
      /\ \/ (pc'[r] = "releasing" /\ key'[r] = key[r] /\ role'[r] = role[r]
            /\ lead'[r] = None /\ start'[r] = start[r] /\ answer'[r] = answer[r]
            /\ life'[r] = 0 /\ until'[r] = until[r] /\ told'[r] = told[r] /\ role[r] = "leader")
         \/ (pc'[r] = "done" /\ key'[r] = key[r] /\ role'[r] = role[r]
            /\ lead'[r] = None /\ start'[r] = start[r] /\ answer'[r] = answer[r]
            /\ life'[r] = 0 /\ until'[r] = until[r] /\ told'[r] = told[r] /\ role[r] # "leader")
      /\ \A k \in Keys : entries'[k] = entries[k]
      /\ slot' = slot
  BY <1>1 DEF Typed, Others, Cancel, AfterDrop, Roles, request, response, cache
<1>3. Roles'
  BY <1>1, <1>2 DEF Typed, Roles, Others, OneLeader, Responses, ResponseOf
<1>4. Ranges /\ Ranges'
  BY <1>1, RangesOf DEF Typed, Ranges
<1>5. OneLeader'
  <2>1. (Holds(r)' <=> Holds(r)) /\ (Holds(r) => key'[r] = key[r])
    BY <1>2 DEF Holds, Roles
  <2>2. QED BY SlotsKept, <1>2, <1>4, <2>1
<1>6. /\ role[r] = "leader" => role'[r] = "leader" /\ key'[r] = key[r]
      /\ Stored(r) => Stored(r)' /\ until'[r] = until[r]
      /\ Stored(r)' => (Stored(r) /\ until'[r] = until[r]) \/ now < until'[r]
      /\ ResponseOf(r)' /\ FollowOf(r)' /\ GivenOf(r)'
  BY <1>2, <1>4 DEF Roles, Ranges, Responses, ResponseOf, Stored, FollowOf, Given, GivenOf
<1>7. Responses' /\ Following' /\ Given'
  BY PromisesKept, <1>2, <1>4, <1>6
<1>8. QED BY <1>1, <1>3, <1>5, <1>7

\* The clock moves only when no leader stands between its store and its word.
LEMMA TickStep == ASSUME Inv, Tick PROVE Inv'
<1> USE RequestFacts DEF Inv, None
<1>1. Typed'
  BY DEF Typed, Tick, request, response, cache
<1>2. now' = now + 1 /\ now \in Nat
  BY DEF Tick, Typed
<1>3. Roles'
  BY <1>2 DEF Typed, Roles, Tick, request, response, cache
<1>4. OneLeader'
  BY DEF OneLeader, Tick, request, response, cache
<1>5. Responses'
  BY DEF Responses, ResponseOf, EntryOf, Stored, Tick, request, response, cache
<1>6. Following' /\ Given'
  BY DEF Following, FollowOf, Given, GivenOf, Stored, Tick, request, response, cache
<1>7. QED BY <1>1, <1>3, <1>4, <1>5, <1>6

\* A stutter changes nothing.
LEMMA IdleStep == ASSUME Inv, UNCHANGED vars PROVE Inv'
<1> USE DEF Inv
<1>1. Typed'
  BY DEF Typed, vars, request, response, cache
<1>2. Roles' /\ OneLeader'
  BY DEF Roles, OneLeader, vars, request, response, cache
<1>3. Responses'
  BY DEF Responses, ResponseOf, EntryOf, Stored, vars, request, response, cache
<1>4. Following' /\ Given'
  BY DEF Following, FollowOf, Given, GivenOf, Stored, vars, request, response, cache
<1>5. QED BY <1>1, <1>2, <1>3, <1>4

\* The invariant holds at first.
LEMMA InvInit == Init => Inv
<1> SUFFICES ASSUME Init PROVE Inv
  OBVIOUS
<1> USE RequestFacts DEF Init, None
<1>1. Typed
  <2>1. 0 \in 0..MaxHops
    BY CacheAssumption
  <2>2. QED BY <2>1 DEF Typed
<1>2. QED BY <1>1 DEF Inv, Roles, OneLeader, Responses, ResponseOf, EntryOf, Stored,
                      Following, FollowOf, Given, GivenOf

\* Every step keeps it.
LEMMA InvNext == Inv /\ [Next]_vars => Inv'
<1> SUFFICES ASSUME Inv, [Next]_vars PROVE Inv'
  OBVIOUS
<1>1. ASSUME NEW r \in Requests, NEW k \in Keys, Start(r, k) PROVE Inv'
  BY <1>1, StartStep
<1>2. ASSUME NEW r \in Requests, OwnStep(r) PROVE Inv'
  BY <1>2, HitStep, FollowStep, LeadStep, SendStep, StoreStep, ReleaseStep, TellStep,
     HearStep DEF OwnStep
<1>3. ASSUME NEW r \in Requests, Answered(r) PROVE Inv'
  BY <1>3, ReceiveStep, FailStep DEF Answered
<1>4. ASSUME NEW r \in Requests, Redirect(r) \/ Cancel(r) PROVE Inv'
  BY <1>4, RedirectStep, CancelStep
<1>5. QED BY <1>1, <1>2, <1>3, <1>4, TickStep, IdleStep DEF Next

\* The inductive invariant.
THEOREM CacheInvariant == Spec => []Inv
<1>1. QED BY InvInit, InvNext, PTL DEF Spec

\* Exactly the leaders that have not freed their slot hold one: two requests
\* never lead for one key, and none frees the slot of another.
THEOREM LeaderIsUnique == Spec => []OneLeader
<1>1. Inv => OneLeader
  BY DEF Inv
<1>2. QED BY <1>1, CacheInvariant, PTL

\* What a request is given from another's transport is for its key, and was
\* fresh or still to come when it looked.
THEOREM NothingStale == Spec => []NeverStale
<1>1. Inv => NeverStale
  BY DEF Inv, Given, GivenOf, NeverStale, Stored
<1>2. QED BY <1>1, CacheInvariant, PTL

-----------------------------------------------------------------------------
(* The count of requests in flight.                                        *)

OnWire == {r \in Requests : pc[r] = "wire"}

\* A step that leaves the other requests where they are, with the count it
\* leaves behind.
LEMMA CountKept ==
  ASSUME Typed, Typed', InFlightExact, NEW r \in Requests,
         \A q \in Requests \ {r} : pc'[q] = pc[q],
         \/ pc[r] # "wire" /\ pc'[r] # "wire" /\ active' = active
         \/ pc[r] # "wire" /\ pc'[r] = "wire" /\ active' = active + 1
         \/ pc[r] = "wire" /\ pc'[r] # "wire" /\ active' = active - 1
  PROVE  InFlightExact'
<1>1. IsFiniteSet(Requests)
  BY CacheAssumption, FS_Interval DEF Requests
<1>2. IsFiniteSet(OnWire) /\ OnWire \subseteq Requests
  BY <1>1, FS_Subset DEF OnWire
<1>3. active = Cardinality(OnWire) /\ Cardinality(OnWire) \in Nat
  BY <1>2, FS_CardinalityType DEF InFlightExact, OnWire
<1>4. CASE pc[r] # "wire" /\ pc'[r] # "wire" /\ active' = active
  <2>1. OnWire' = OnWire
    BY <1>4 DEF OnWire
  <2>2. QED BY <1>3, <1>4, <2>1 DEF InFlightExact, OnWire
<1>5. CASE pc[r] # "wire" /\ pc'[r] = "wire" /\ active' = active + 1
  <2>1. OnWire' = OnWire \cup {r} /\ r \notin OnWire
    BY <1>5 DEF OnWire
  <2>2. Cardinality(OnWire') = Cardinality(OnWire) + 1
    BY <1>2, <2>1, FS_AddElement
  <2>3. QED BY <1>3, <1>5, <2>2 DEF InFlightExact, OnWire
<1>6. CASE pc[r] = "wire" /\ pc'[r] # "wire" /\ active' = active - 1
  <2>1. OnWire' = OnWire \ {r} /\ r \in OnWire
    BY <1>6 DEF OnWire
  <2>2. Cardinality(OnWire') = Cardinality(OnWire) - 1
    BY <1>2, <2>1, FS_RemoveElement
  <2>3. QED BY <1>3, <1>6, <2>2 DEF InFlightExact, OnWire
<1>7. QED BY <1>4, <1>5, <1>6

\* Every step keeps the count exact.
LEMMA CountNext == Inv /\ Inv' /\ InFlightExact /\ [Next]_vars => InFlightExact'
<1> SUFFICES ASSUME Inv, Inv', InFlightExact, [Next]_vars PROVE InFlightExact'
  OBVIOUS
<1>1. Typed /\ Typed' /\ Roles
  BY DEF Inv
<1>2. ASSUME NEW r \in Requests,
             (\E k \in Keys : Start(r, k)) \/ OwnStep(r) \/ Answered(r) \/ Redirect(r) \/ Cancel(r)
      PROVE  InFlightExact'
  <2>1. \A q \in Requests \ {r} : pc'[q] = pc[q]
    <3>1. CASE \E k \in Keys : Start(r, k)
      BY <1>1, <3>1 DEF Typed, Start
    <3>2. CASE Hit(r) \/ Follow(r) \/ Lead(r) \/ Send(r)
      BY <1>1, <3>2 DEF Typed, Hit, Follow, Lead, Send
    <3>3. CASE Store(r) \/ Release(r) \/ Tell(r) \/ Hear(r)
      BY <1>1, <3>3 DEF Typed, Store, Release, Tell, Hear
    <3>4. CASE Answered(r) \/ Redirect(r) \/ Cancel(r)
      BY <1>1, <3>4 DEF Typed, Answered, Receive, Fail, Redirect, Cancel
    <3>5. QED BY <1>2, <3>1, <3>2, <3>3, <3>4 DEF OwnStep
  <2>2. CASE \/ \E k \in Keys : Start(r, k)
             \/ Hit(r) \/ Follow(r) \/ Lead(r) \/ Store(r) \/ Release(r) \/ Tell(r) \/ Hear(r)
    <3>1. pc[r] # "wire" /\ pc'[r] # "wire" /\ active' = active
      BY <1>1, <2>2 DEF Typed, Start, Hit, Follow, Lead, Store, Release, Tell, Hear
    <3>2. QED BY <1>1, <2>1, <3>1, CountKept
  <2>3. CASE Send(r)
    <3>1. pc[r] # "wire" /\ pc'[r] = "wire" /\ active' = active + 1
      BY <1>1, <2>3 DEF Typed, Send
    <3>2. QED BY <1>1, <2>1, <3>1, CountKept
  <2>4. CASE Answered(r) \/ Redirect(r) \/ Cancel(r)
    <3>1. /\ pc'[r] # "wire"
          /\ active' = IF pc[r] = "wire" THEN active - 1 ELSE active
      BY <1>1, <2>4 DEF Typed, Answered, Receive, Fail, Redirect, Cancel, After, AfterDrop,
         Landed
    <3>2. QED BY <1>1, <2>1, <3>1, CountKept
  <2>5. QED BY <1>2, <2>2, <2>3, <2>4 DEF OwnStep
<1>3. CASE Tick \/ UNCHANGED vars
  BY <1>3 DEF InFlightExact, Tick, vars, request, response, cache
<1>4. QED BY <1>2, <1>3 DEF Next

\* The counter page.rs waits on is the number of transports on the wire,
\* however each of them ended.
THEOREM CountIsExact == Spec => []InFlightExact
<1>1. Init => InFlightExact
  <2>1. SUFFICES ASSUME Init PROVE InFlightExact
    OBVIOUS
  <2>2. {r \in Requests : pc[r] = "wire"} = {} /\ active = 0
    BY <2>1 DEF Init
  <2>3. QED BY <2>2, FS_EmptySet DEF InFlightExact
<1>2. QED BY <1>1, CacheInvariant, CountNext, PTL DEF Spec

-----------------------------------------------------------------------------
(* Sets of numbers, and queues without one of their elements.              *)

\* Every set of natural numbers that has one has a least one.
LEMMA LeastOf ==
    ASSUME NEW T, T \subseteq Nat, T # {}
    PROVE  \E m \in T : \A y \in T : m <= y
<1>1. IsWellFoundedOn(OpToRel(<, Nat), Nat)
  BY NatLessThanWellFounded
<1>2. \E m \in T : \A y \in T : ~(<<y, m>> \in OpToRel(<, Nat))
  BY <1>1, WFMin
<1>3. \A y, m \in Nat : y < m => <<y, m>> \in OpToRel(<, Nat)
  BY DEF OpToRel
<1>4. \E m \in T : \A y \in T : ~(y < m)
  BY <1>2, <1>3
<1>5. QED BY ONLY <1>4, T \subseteq Nat

\* The equation of the recursion in Without, up to n.
Keeping(f, s, x, n) ==
    \A i \in 0..n :
        f[i] = IF i = 0 THEN <<>> ELSE IF s[i] = x THEN f[i - 1] ELSE Append(f[i - 1], s[i])

KeptUpTo(f, s, x, n) ==
    f = [i \in 0..n |->
           IF i = 0 THEN <<>> ELSE IF s[i] = x THEN f[i - 1] ELSE Append(f[i - 1], s[i])]

\* It has a solution.
LEMMA KeptExists ==
    ASSUME NEW s, NEW x, NEW n \in Nat
    PROVE  \E f : KeptUpTo(f, s, x, n)
<1> DEFINE T == {m \in Nat : ~ \E f : KeptUpTo(f, s, x, m)}
<1>1. SUFFICES ASSUME T # {} PROVE FALSE
  OBVIOUS
<1>2. PICK m \in T : \A y \in T : m <= y
  BY <1>1, LeastOf
<1>3. m # 0
  <2>1. SUFFICES ASSUME m = 0 PROVE FALSE
    OBVIOUS
  <2>2. PICK g : g = [i \in 0..0 |-> <<>>]
    OBVIOUS
  <2>3. KeptUpTo(g, s, x, 0)
    BY <2>2 DEF KeptUpTo
  <2>4. QED BY <1>2, <2>1, <2>3
<1>4. m - 1 \in Nat /\ m - 1 \notin T
  BY <1>2, <1>3
<1>5. PICK f : KeptUpTo(f, s, x, m - 1)
  BY <1>4
<1>6. PICK g : g = [i \in 0..m |-> IF i = m THEN (IF s[m] = x THEN f[m - 1] ELSE Append(f[m - 1], s[m]))
                                 ELSE f[i]]
  OBVIOUS
<1>7. KeptUpTo(g, s, x, m)
  <2>1. \A i \in 0..m : i # m => i \in 0..(m - 1) /\ i - 1 # m /\ (i # 0 => i - 1 \in 0..m)
    BY <1>2, <1>3
  <2>2. m \in 0..m /\ m - 1 \in 0..m /\ m - 1 # m
    BY <1>2, <1>3
  <2>3. \A i \in 0..m : i # m => g[i] = f[i]
    BY <1>6
  <2>4. \A i \in 0..(m - 1) : f[i] = IF i = 0 THEN <<>> ELSE IF s[i] = x THEN f[i - 1] ELSE Append(f[i - 1], s[i])
    BY <1>5 DEF KeptUpTo
  <2>5. \A i \in 0..m : g[i] = IF i = 0 THEN <<>> ELSE IF s[i] = x THEN g[i - 1] ELSE Append(g[i - 1], s[i])
    <3> TAKE i \in 0..m
    <3>1. CASE i = m
      BY <1>3, <1>6, <2>2, <2>3, <3>1
    <3>2. CASE i # m
      BY <2>1, <2>3, <2>4, <3>2
    <3>3. QED BY <3>1, <3>2
  <2>6. DOMAIN g = 0..m /\ g = [i \in 0..m |-> g[i]]
    BY <1>6
  <2>7. QED BY <2>5, <2>6 DEF KeptUpTo
<1>8. QED BY <1>2, <1>7

\* Without takes the last value of that solution.
LEMMA WithoutIs ==
    ASSUME NEW s, NEW x, Len(s) \in Nat
    PROVE  \E f : KeptUpTo(f, s, x, Len(s)) /\ Without(s, x) = f[Len(s)]
<1>1. \E f : KeptUpTo(f, s, x, Len(s))
  BY KeptExists
<1>2. QED BY <1>1 DEF Without, KeptUpTo

\* What Without returns: the others, in their order.
Increasing(s) == \A i, j \in 1..Len(s) : i < j => s[i] < s[j]
Elements(s) == {s[i] : i \in 1..Len(s)}

KeptSoFar(f, s, x, S, n) ==
    /\ f[n] \in Seq(S) /\ Len(f[n]) <= n
    /\ Elements(f[n]) = {s[i] : i \in 1..n} \ {x}
    /\ S \subseteq Int /\ Increasing(s) => Increasing(f[n])

LEMMA KeepsSoFar ==
    ASSUME NEW S, NEW s \in Seq(S), NEW x, NEW f, KeptUpTo(f, s, x, Len(s))
    PROVE  \A n \in 0..Len(s) : KeptSoFar(f, s, x, S, n)
<1> DEFINE T == {m \in 0..Len(s) : ~KeptSoFar(f, s, x, S, m)}
<1>1. SUFFICES ASSUME T # {} PROVE FALSE
  OBVIOUS
<1>2. PICK m \in T : \A y \in T : m <= y
  <2>1. T \subseteq Nat
    OBVIOUS
  <2>2. QED BY ONLY <1>1, <2>1, LeastOf
<1>3. \A i \in 0..Len(s) : f[i] = IF i = 0 THEN <<>> ELSE IF s[i] = x THEN f[i - 1] ELSE Append(f[i - 1], s[i])
  BY DEF KeptUpTo
<1>4. CASE m = 0
  <2>1. f[0] = <<>>
    BY <1>3
  <2>2. KeptSoFar(f, s, x, S, 0)
    BY <2>1 DEF KeptSoFar, Elements, Increasing
  <2>3. QED BY <1>2, <1>4, <2>2
<1>5. CASE m # 0
  <2>1. m \in 1..Len(s) /\ m - 1 \in 0..Len(s) /\ m - 1 \notin T
    BY <1>2, <1>5
  <2>2. KeptSoFar(f, s, x, S, m - 1)
    BY <2>1
  <2>3. PICK g : g = f[m - 1]
    OBVIOUS
  <2>4. /\ g \in Seq(S) /\ Len(g) <= m - 1
        /\ Elements(g) = {s[i] : i \in 1..(m - 1)} \ {x}
        /\ S \subseteq Int /\ Increasing(s) => Increasing(g)
    BY <2>2, <2>3 DEF KeptSoFar
  <2>5. s[m] \in S
    BY <2>1
  <2>6. {s[i] : i \in 1..m} = {s[i] : i \in 1..(m - 1)} \cup {s[m]}
    BY <2>1
  <2>7. CASE s[m] = x
    <3>1. f[m] = g
      BY <1>3, <1>5, <2>1, <2>3, <2>7
    <3>2. {s[i] : i \in 1..m} \ {x} = {s[i] : i \in 1..(m - 1)} \ {x}
      BY <2>6, <2>7
    <3>3. KeptSoFar(f, s, x, S, m)
      <4>1. m - 1 <= m /\ m \in Nat
        BY <2>1
      <4>2. Len(g) \in Nat /\ Len(g) <= m
        BY <2>1, <2>4
      <4>3. QED BY <2>4, <2>1, <3>1, <3>2, <4>2 DEF KeptSoFar
    <3>4. QED BY <1>2, <3>3
  <2>8. CASE s[m] # x
    <3>1. f[m] = Append(g, s[m])
      BY <1>3, <1>5, <2>1, <2>3, <2>8
    <3>2. PICK h : h = Append(g, s[m])
      OBVIOUS
    <3>3. /\ h \in Seq(S) /\ Len(h) = Len(g) + 1 /\ h[Len(g) + 1] = s[m]
          /\ \A i \in 1..Len(g) : h[i] = g[i]
      BY <2>4, <2>5, <3>2
    <3>4. Elements(h) = Elements(g) \cup {s[m]}
      BY <2>4, <3>3 DEF Elements
    <3>5. Elements(h) = {s[i] : i \in 1..m} \ {x}
      BY <2>4, <2>6, <2>8, <3>4
    <3>6. ASSUME S \subseteq Int, Increasing(s) PROVE Increasing(h)
      <4>1. \A i \in 1..Len(g) : g[i] < s[m]
        <5> TAKE i \in 1..Len(g)
        <5>1. g[i] \in Elements(g)
          BY DEF Elements
        <5>2. PICK j \in 1..(m - 1) : g[i] = s[j]
          BY <2>4, <5>1
        <5>3. QED BY <2>1, <3>6, <5>2 DEF Increasing
      <4>2. Increasing(g)
        BY <2>4, <3>6
      <4>3. Len(g) \in Nat
        BY <2>4
      <4>4. s[m] \in Int
        BY <2>5, <3>6
      <4>5. ASSUME NEW i \in 1..Len(h), NEW j \in 1..Len(h), i < j PROVE h[i] < h[j]
        <5>1. i \in 1..Len(g) /\ h[i] = g[i]
          BY <3>3, <4>3, <4>5
        <5>2. CASE j = Len(g) + 1
          BY <3>3, <4>1, <4>3, <5>1, <5>2
        <5>3. CASE j # Len(g) + 1
          <6>1. j \in 1..Len(g) /\ h[j] = g[j]
            BY <3>3, <4>3, <5>3
          <6>2. QED BY <4>2, <4>5, <5>1, <6>1 DEF Increasing
        <5>4. QED BY <5>2, <5>3
      <4>6. QED BY <4>5 DEF Increasing
    <3>7. KeptSoFar(f, s, x, S, m)
      BY <2>1, <2>4, <3>1, <3>2, <3>3, <3>5, <3>6 DEF KeptSoFar
    <3>8. QED BY <1>2, <3>7
  <2>9. QED BY <2>7, <2>8
<1>6. QED BY <1>4, <1>5

LEMMA WithoutFacts ==
    ASSUME NEW S, NEW s \in Seq(S), NEW x
    PROVE  /\ Without(s, x) \in Seq(S) /\ Len(Without(s, x)) <= Len(s)
           /\ Elements(Without(s, x)) = Elements(s) \ {x}
           /\ S \subseteq Int /\ Increasing(s) => Increasing(Without(s, x))
<1>1. PICK f : KeptUpTo(f, s, x, Len(s)) /\ Without(s, x) = f[Len(s)]
  BY WithoutIs
<1>2. KeptSoFar(f, s, x, S, Len(s))
  BY <1>1, KeepsSoFar
<1>3. QED BY <1>1, <1>2 DEF KeptSoFar, Elements

-----------------------------------------------------------------------------
(* Bytes: e names the response of a key, z its size.                       *)

HeldBy(e, z, ks) == UNION {{k} \X (1..z[e[k]]) : k \in ks}

\* Entries of bounded size hold finitely many bytes, each entry its own.
LEMMA HeldFacts ==
    ASSUME NEW e, NEW z, NEW ks, IsFiniteSet(ks), NEW b \in Nat,
           \A k \in ks : z[e[k]] \in 0..b
    PROVE  /\ IsFiniteSet(HeldBy(e, z, ks)) /\ Cardinality(HeldBy(e, z, ks)) \in Nat
           /\ \A js \in SUBSET ks :
                /\ Cardinality(HeldBy(e, z, js)) \in Nat
                /\ Cardinality(HeldBy(e, z, ks))
                     = Cardinality(HeldBy(e, z, js)) + Cardinality(HeldBy(e, z, ks \ js))
<1>1. IsFiniteSet(ks \X (1..b))
  <2>1. IsFiniteSet(1..b)
    BY FS_Interval
  <2>2. QED BY <2>1, FS_Product
<1>2. ASSUME NEW js \in SUBSET ks
      PROVE  IsFiniteSet(HeldBy(e, z, js)) /\ Cardinality(HeldBy(e, z, js)) \in Nat
  <2>1. HeldBy(e, z, js) \subseteq ks \X (1..b)
    BY DEF HeldBy
  <2>2. QED BY <1>1, <2>1, FS_Subset, FS_CardinalityType
<1>3. ASSUME NEW js \in SUBSET ks
      PROVE  Cardinality(HeldBy(e, z, ks))
               = Cardinality(HeldBy(e, z, js)) + Cardinality(HeldBy(e, z, ks \ js))
  <2>1. HeldBy(e, z, ks) = HeldBy(e, z, js) \cup HeldBy(e, z, ks \ js)
    BY DEF HeldBy
  <2>2. HeldBy(e, z, js) \cap HeldBy(e, z, ks \ js) = {}
    BY DEF HeldBy
  <2>3. ks \ js \in SUBSET ks
    OBVIOUS
  <2>4. PICK A, B : A = HeldBy(e, z, js) /\ B = HeldBy(e, z, ks \ js)
    OBVIOUS
  <2>5. IsFiniteSet(A) /\ IsFiniteSet(B) /\ Cardinality(A) \in Nat /\ Cardinality(B) \in Nat
    BY <1>2, <2>3, <2>4
  <2>6. Cardinality(A \cup B) = Cardinality(A) + Cardinality(B) - Cardinality(A \cap B)
    BY ONLY <2>5, FS_Union
  <2>7. Cardinality(A \cap B) = 0
    BY <2>2, <2>4, FS_EmptySet
  <2>8. QED BY <2>1, <2>4, <2>5, <2>6, <2>7
<1>4. QED BY <1>2, <1>3

\* What one entry holds.
LEMMA HeldOne ==
    ASSUME NEW e, NEW z, NEW k, z[e[k]] \in Nat
    PROVE  Cardinality(HeldBy(e, z, {k})) = z[e[k]]
<1>1. PICK n, A, B : n \in Nat /\ n = z[e[k]] /\ A = {k} /\ B = 1..n
  OBVIOUS
<1>2. HeldBy(e, z, {k}) = A \X B
  BY <1>1 DEF HeldBy
<1>3. IsFiniteSet(A) /\ Cardinality(A) = 1
  BY <1>1, FS_Singleton
<1>4. IsFiniteSet(B) /\ Cardinality(B) = n
  <2>1. n \in Nat
    BY <1>1
  <2>2. IsFiniteSet(1..n) /\ Cardinality(1..n) = IF 1 > n THEN 0 ELSE n - 1 + 1
    BY ONLY <2>1, FS_Interval
  <2>3. QED BY <1>1, <2>1, <2>2
<1>5. Cardinality(A \X B) = Cardinality(A) * Cardinality(B)
  BY ONLY <1>3, <1>4, FS_Product
<1>6. Cardinality(A \X B) = n
  <2>1. n \in Nat
    BY <1>1
  <2>2. QED BY ONLY <1>3, <1>4, <1>5, <2>1
<1>7. QED BY <1>1, <1>2, <1>6

\* What is held depends on the sizes only.
LEMMA HeldSame ==
    ASSUME NEW e, NEW z, NEW f, NEW y, NEW ks, \A k \in ks : z[e[k]] = y[f[k]]
    PROVE  HeldBy(e, z, ks) = HeldBy(f, y, ks)
BY DEF HeldBy

LEMMA HeldNothing == ASSUME NEW e, NEW z PROVE Cardinality(HeldBy(e, z, {})) = 0
<1>1. HeldBy(e, z, {}) = {}
  BY DEF HeldBy
<1>2. QED BY <1>1, FS_EmptySet

-----------------------------------------------------------------------------
(* The limits of the cache.                                                *)

\* WithinLimits, with what makes it stay true: no body is larger than the
\* whole cache, and the queue is one of keys.
Limits ==
    /\ IsFiniteSet(Cached) /\ Cardinality(Cached) <= MaxEntries
    /\ \A k \in Cached : size[entries[k]] \in 0..MaxBytes
    /\ bytes = Cardinality(HeldBy(entries, size, Cached)) /\ bytes <= MaxBytes
    /\ order \in Seq(Keys) /\ Cached \subseteq Elements(order)

LEMMA LimitFacts == MaxEntries \in Nat \ {0} /\ MaxBytes \in Nat
BY CacheAssumption

\* The bytes of the cache without some of its entries.
LEMMA CacheBytes ==
    ASSUME Limits
    PROVE  /\ bytes \in Nat
           /\ \A js \in SUBSET Cached :
                /\ IsFiniteSet(js) /\ Cardinality(js) \in Nat /\ Cardinality(js) <= MaxEntries
                /\ Cardinality(HeldBy(entries, size, js)) \in Nat
                /\ bytes = Cardinality(HeldBy(entries, size, js))
                             + Cardinality(HeldBy(entries, size, Cached \ js))
<1>1. /\ Cardinality(HeldBy(entries, size, Cached)) \in Nat
      /\ \A js \in SUBSET Cached :
           /\ Cardinality(HeldBy(entries, size, js)) \in Nat
           /\ Cardinality(HeldBy(entries, size, Cached))
                = Cardinality(HeldBy(entries, size, js))
                    + Cardinality(HeldBy(entries, size, Cached \ js))
  BY LimitFacts, HeldFacts DEF Limits
<1>2. ASSUME NEW js \in SUBSET Cached
      PROVE  IsFiniteSet(js) /\ Cardinality(js) \in Nat /\ Cardinality(js) <= MaxEntries
  <2>1. IsFiniteSet(js) /\ Cardinality(js) <= Cardinality(Cached)
    BY FS_Subset DEF Limits
  <2>2. Cardinality(js) \in Nat /\ Cardinality(Cached) \in Nat
    BY <2>1, FS_CardinalityType DEF Limits
  <2>3. QED BY <2>1, <2>2, LimitFacts DEF Limits
<1>3. QED BY <1>1, <1>2 DEF Limits

\* A step that leaves the cache and the sizes of what it holds alone.
LEMMA CacheStays ==
    ASSUME Typed, Limits, entries' = entries, order' = order, bytes' = bytes,
           \A k \in Cached : size'[entries[k]] = size[entries[k]]
    PROVE  Limits'
<1>1. Cached' = Cached
  BY DEF Cached
<1>2. HeldBy(entries', size', Cached') = HeldBy(entries, size, Cached)
  BY <1>1, HeldSame
<1>3. QED BY <1>1, <1>2 DEF Limits

\* An expired entry goes, its bytes with it.
LEMMA LookStep ==
    ASSUME Typed, Limits, NEW k \in Keys, Look(k), size' = size
    PROVE  Limits'
<1>1. CASE ~(k \in Cached /\ ~Fresh(k))
  BY <1>1, CacheStays DEF Look
<1>2. CASE k \in Cached /\ ~Fresh(k)
  <2>1. /\ entries' = [entries EXCEPT ![k] = None] /\ order' = order
        /\ bytes' = Less(bytes, size[entries[k]])
    BY <1>2 DEF Look
  <2>2. /\ Cached' = Cached \ {k} /\ \A j \in Cached' : entries'[j] = entries[j]
    BY <2>1 DEF Cached, Typed
  <2>3. /\ IsFiniteSet(Cached \ {k}) /\ Cardinality(Cached \ {k}) <= MaxEntries
        /\ Cardinality(HeldBy(entries, size, {k})) = size[entries[k]]
        /\ bytes = Cardinality(HeldBy(entries, size, {k}))
                     + Cardinality(HeldBy(entries, size, Cached \ {k}))
        /\ Cardinality(HeldBy(entries, size, Cached \ {k})) \in Nat
        /\ size[entries[k]] \in Nat /\ bytes \in Nat
    <3>1. {k} \in SUBSET Cached /\ Cached \ {k} \in SUBSET Cached
      BY <1>2
    <3>2. size[entries[k]] \in Nat
      BY <1>2 DEF Limits
    <3>3. QED BY <3>1, <3>2, CacheBytes, HeldOne
  <2>4. HeldBy(entries', size', Cached') = HeldBy(entries, size, Cached \ {k})
    BY <2>2, HeldSame
  <2>5. bytes' = Cardinality(HeldBy(entries', size', Cached')) /\ bytes' <= MaxBytes
    BY <2>1, <2>3, <2>4, LimitFacts DEF Less, Limits
  <2>6. QED BY <2>1, <2>2, <2>3, <2>5 DEF Limits
<1>3. QED BY <1>1, <1>2

\* What insert starts from: the key without the entry it may have had.
LEMMA RestFacts ==
    ASSUME Limits, NEW q \in Keys
    PROVE  /\ Rest(q) \in SUBSET Cached
           /\ Used(q) = Cardinality(HeldBy(entries, size, Rest(q)))
           /\ Queue(q) \in Seq(Keys) /\ Rest(q) \subseteq Elements(Queue(q))
<1>1. CASE q \in Cached
  <2>1. size[entries[q]] \in Nat
    BY <1>1 DEF Limits
  <2>2. /\ bytes \in Nat
        /\ bytes = Cardinality(HeldBy(entries, size, {q}))
                     + Cardinality(HeldBy(entries, size, Cached \ {q}))
        /\ Cardinality(HeldBy(entries, size, Cached \ {q})) \in Nat
        /\ Cardinality(HeldBy(entries, size, {q})) = size[entries[q]]
    <3>1. {q} \in SUBSET Cached /\ Cached \ {q} \in SUBSET Cached
      BY <1>1
    <3>2. QED BY <2>1, <3>1, CacheBytes, HeldOne
  <2>3. Used(q) = Cardinality(HeldBy(entries, size, Rest(q)))
    BY <1>1, <2>1, <2>2 DEF Used, Rest, Less
  <2>4. /\ Without(order, q) \in Seq(Keys)
        /\ Elements(Without(order, q)) = Elements(order) \ {q}
    BY WithoutFacts DEF Limits
  <2>5. QED BY <1>1, <2>3, <2>4 DEF Queue, Rest, Limits
<1>2. CASE q \notin Cached
  BY <1>2 DEF Queue, Rest, Used, Limits
<1>3. QED BY <1>1, <1>2

\* The oldest places of the queue that insert empties: as few as will do.
LEMMA PopsFacts ==
    ASSUME NEW r, NEW q, q = key[r], Queue(q) \in Seq(Keys)
    PROVE  /\ Pops(r) \in 0..Len(Queue(q))
           /\ Fits(r, Pops(r)) \/ Pops(r) = Len(Queue(q))
<1>1. PICK all \in Nat : all = Len(Queue(q))
  OBVIOUS
<1>2. PICK T : T = {n \in 0..all : Fits(r, n) \/ n = all}
  OBVIOUS
<1>3. T \subseteq Nat /\ all \in T
  BY <1>1, <1>2
<1>4. \E m \in T : \A y \in T : m <= y
  <2>1. T \subseteq Nat /\ T # {}
    BY <1>3
  <2>2. QED BY ONLY <2>1, LeastOf
<1>5. Pops(r) = Min(T)
  BY <1>1, <1>2 DEF Pops
<1>6. Min(T) \in T
  BY <1>4 DEF Min
<1>7. QED BY <1>1, <1>2, <1>5, <1>6

\* What insert leaves makes room for the new response.
LEMMA RoomMade ==
    ASSUME Typed, Limits, NEW r \in Requests, key[r] \in Keys, size[r] <= MaxBytes
    PROVE  /\ Cardinality(Rest(key[r]) \ Evicted(r)) < MaxEntries
           /\ Less(Used(key[r]), SizeOf(Evicted(r)))
                = Cardinality(HeldBy(entries, size, Rest(key[r]) \ Evicted(r)))
           /\ Cardinality(HeldBy(entries, size, Rest(key[r]) \ Evicted(r))) + size[r] <= MaxBytes
           /\ Evicted(r) \in SUBSET Rest(key[r])
<1>1. PICK q \in Keys : q = key[r]
  OBVIOUS
<1>2. /\ Rest(q) \in SUBSET Cached
      /\ Used(q) = Cardinality(HeldBy(entries, size, Rest(q)))
      /\ Queue(q) \in Seq(Keys) /\ Rest(q) \subseteq Elements(Queue(q))
  BY RestFacts
<1>3. PICK n \in 0..Len(Queue(q)) : n = Pops(r) /\ (Fits(r, n) \/ n = Len(Queue(q)))
  BY <1>1, <1>2, PopsFacts
<1>4. PICK R, E : R = Rest(q) /\ E = Evicted(r)
  OBVIOUS
<1>5. E = R \cap {Queue(q)[i] : i \in 1..n}
  BY <1>1, <1>3, <1>4 DEF Evicted, Front
<1>6. E \in SUBSET R /\ E \in SUBSET Cached /\ R \ E \in SUBSET Cached /\ R \in SUBSET Cached
  BY <1>2, <1>4, <1>5
<1>7. /\ Used(q) = Cardinality(HeldBy(entries, size, E)) + Cardinality(HeldBy(entries, size, R \ E))
      /\ Cardinality(HeldBy(entries, size, E)) \in Nat
      /\ Cardinality(HeldBy(entries, size, R \ E)) \in Nat
  <2>1. IsFiniteSet(R) /\ \A k \in R : size[entries[k]] \in 0..MaxBytes
    BY <1>6, FS_Subset DEF Limits
  <2>2. /\ Cardinality(HeldBy(entries, size, E)) \in Nat
        /\ Cardinality(HeldBy(entries, size, R \ E)) \in Nat
        /\ Cardinality(HeldBy(entries, size, R))
             = Cardinality(HeldBy(entries, size, E)) + Cardinality(HeldBy(entries, size, R \ E))
    <3>1. MaxBytes \in Nat
      BY LimitFacts
    <3>2. R \ E \in SUBSET R
      OBVIOUS
    <3>3. \A js \in SUBSET R :
                /\ Cardinality(HeldBy(entries, size, js)) \in Nat
                /\ Cardinality(HeldBy(entries, size, R))
                     = Cardinality(HeldBy(entries, size, js))
                         + Cardinality(HeldBy(entries, size, R \ js))
      BY ONLY <2>1, <3>1, HeldFacts
    <3>4. QED BY <1>6, <3>2, <3>3
  <2>3. QED BY <1>2, <1>4, <2>2
<1>8. SizeOf(E) = Cardinality(HeldBy(entries, size, E))
  BY DEF SizeOf, Held, HeldBy
<1>9. Less(Used(q), SizeOf(E)) = Cardinality(HeldBy(entries, size, R \ E))
  BY <1>7, <1>8 DEF Less
<1>10. /\ Cardinality(R \ E) < MaxEntries
       /\ Cardinality(HeldBy(entries, size, R \ E)) + size[r] <= MaxBytes
  <2>1. CASE Fits(r, n)
    <3>1. Front(q, n) = E
      BY <1>4, <1>5 DEF Front
    <3>2. QED BY <1>1, <1>4, <1>9, <2>1, <3>1 DEF Fits
  <2>2. CASE n = Len(Queue(q))
    <3>1. R \ E = {}
      BY <1>2, <1>4, <1>5, <2>2 DEF Elements
    <3>2. Cardinality(R \ E) = 0 /\ Cardinality(HeldBy(entries, size, R \ E)) = 0
      BY <3>1, FS_EmptySet, HeldNothing
    <3>3. size[r] \in Nat
      BY DEF Typed
    <3>4. QED BY <3>2, <3>3, LimitFacts
  <2>3. QED BY <1>3, <2>1, <2>2
<1>11. QED BY <1>1, <1>4, <1>6, <1>9, <1>10

QueueAfter(t, s, n, q, R, D) ==
    /\ n \in 0..Len(s) /\ t = Append(SubSeq(s, n + 1, Len(s)), q)
    /\ R \subseteq Elements(s) /\ \A x \in D : x \in R /\ \A i \in 1..n : x # s[i]

\* The places left of the queue still name what is left.
LEMMA QueueKept ==
    ASSUME NEW S, NEW s \in Seq(S), NEW q \in S, NEW n, NEW R, NEW D, NEW t,
           QueueAfter(t, s, n, q, R, D)
    PROVE  t \in Seq(S) /\ D \cup {q} \subseteq Elements(t)
<1> USE DEF QueueAfter
<1>1. PICK u : u = SubSeq(s, n + 1, Len(s))
  OBVIOUS
<1>2. /\ u \in Seq(S) /\ Len(u) = Len(s) - n
      /\ \A i \in 1..(Len(s) - n) : u[i] = s[n + i]
  BY <1>1
<1>3. /\ t \in Seq(S) /\ Len(t) = Len(u) + 1 /\ t[Len(u) + 1] = q
      /\ \A i \in 1..Len(u) : t[i] = u[i]
  <2>1. t = Append(u, q)
    BY <1>1
  <2>2. QED BY <1>2, <2>1
<1>4. q \in Elements(t)
  <2>1. Len(u) \in Nat
    BY <1>2
  <2>2. Len(u) + 1 \in 1..Len(t)
    BY <1>3, <2>1
  <2>3. QED BY <1>3, <2>2 DEF Elements
<1>5. ASSUME NEW x \in D PROVE x \in Elements(t)
  <2>1. PICK i \in 1..Len(s) : x = s[i]
    BY DEF Elements
  <2>2. i > n
    BY <2>1
  <2>3. i - n \in 1..(Len(s) - n) /\ n + (i - n) = i
    BY <2>2
  <2>4. PICK j \in 1..(Len(s) - n) : n + j = i
    BY <2>3
  <2>5. t[j] = x /\ j \in 1..Len(t)
    <3>1. u[j] = x
      BY <1>2, <2>1, <2>4
    <3>2. j \in 1..Len(u)
      BY <1>2
    <3>3. QED BY <1>3, <3>1, <3>2
  <2>6. QED BY <2>5 DEF Elements
<1>6. QED BY <1>3, <1>4, <1>5

\* A response is stored.
LEMMA InsertStep ==
    ASSUME Typed, Limits, NEW r \in Requests, key[r] \in Keys, Insert(r), size' = size
    PROVE  Limits'
<1>1. CASE size[r] > MaxBytes
  BY <1>1, CacheStays DEF Insert, cache
<1>2. CASE ~(size[r] > MaxBytes)
  <2>1. size[r] \in 0..MaxBytes /\ size[r] \in Nat /\ size[r] <= MaxBytes
    BY <1>2, LimitFacts DEF Typed
  <2>2. PICK q \in Keys : q = key[r]
    OBVIOUS
  <2>3. PICK R, E, b : /\ R = Rest(q) /\ E = Evicted(r)
                       /\ b = Cardinality(HeldBy(entries, size, R \ E))
    OBVIOUS
  <2>4. /\ Cardinality(R \ E) < MaxEntries /\ b + size[r] <= MaxBytes
        /\ Less(Used(q), SizeOf(E)) = b /\ E \in SUBSET R
    BY <2>1, <2>2, <2>3, RoomMade
  <2>5. /\ R \in SUBSET Cached /\ R = Cached \ {q}
        /\ Queue(q) \in Seq(Keys) /\ R \subseteq Elements(Queue(q))
    BY <2>3, RestFacts DEF Rest
  <2>6. /\ entries' = [k \in Keys |-> IF k = q THEN r ELSE IF k \in E THEN None ELSE entries[k]]
        /\ order' = Append(SubSeq(Queue(q), Pops(r) + 1, Len(Queue(q))), q)
        /\ bytes' = b + size[r]
    BY <1>2, <2>2, <2>3, <2>4 DEF Insert
  <2>7. /\ Cached' = (R \ E) \cup {q} /\ q \notin R \ E
        /\ entries'[q] = r /\ \A k \in R \ E : entries'[k] = entries[k]
    <3>1. r # None
      BY RequestFacts DEF None
    <3>2. QED BY <2>5, <2>6, <3>1 DEF Cached
  <2>8. R \ E \in SUBSET Cached
    BY <2>5
  <2>9. IsFiniteSet(R \ E) /\ Cardinality(R \ E) \in Nat
    BY <2>8, CacheBytes
  <2>10. IsFiniteSet(Cached') /\ Cardinality(Cached') <= MaxEntries
    <3>1. IsFiniteSet((R \ E) \cup {q}) /\ Cardinality((R \ E) \cup {q}) = Cardinality(R \ E) + 1
      BY <2>7, <2>9, FS_AddElement
    <3>2. QED BY <2>4, <2>7, <2>9, <3>1, LimitFacts
  <2>11. \A k \in Cached' : size'[entries'[k]] \in 0..MaxBytes
    BY <2>1, <2>7, <2>8 DEF Limits
  <2>12. bytes' = Cardinality(HeldBy(entries', size', Cached'))
    <3>1. PICK C, e, z : C = Cached' /\ e = entries' /\ z = size'
      OBVIOUS
    <3>2. MaxBytes \in Nat
      BY LimitFacts
    <3>3. {q} \in SUBSET C /\ C \ {q} = R \ E
      BY <2>7, <3>1
    <3>4. Cardinality(HeldBy(e, z, C))
            = Cardinality(HeldBy(e, z, {q})) + Cardinality(HeldBy(e, z, R \ E))
      BY <2>10, <2>11, <3>1, <3>2, <3>3, HeldFacts
    <3>5. Cardinality(HeldBy(e, z, {q})) = size[r]
      BY <2>1, <2>7, <3>1, HeldOne
    <3>6. HeldBy(e, z, R \ E) = HeldBy(entries, size, R \ E)
      BY <2>7, <3>1, HeldSame
    <3>7. b \in Nat
      BY <2>3, <2>8, CacheBytes
    <3>8. QED BY <2>1, <2>3, <2>6, <3>1, <3>4, <3>5, <3>6, <3>7
  <2>13. order' \in Seq(Keys) /\ Cached' \subseteq Elements(order')
    <3>1. PICK s \in Seq(Keys) : s = Queue(q)
      BY <2>5
    <3>2. PICK n \in 0..Len(s) : n = Pops(r)
      BY <2>2, <2>5, <3>1, PopsFacts
    <3>3. PICK D : D = R \ E
      OBVIOUS
    <3>4. \A x \in D : x \in R /\ \A i \in 1..n : x # s[i]
      BY <2>2, <2>3, <3>1, <3>2, <3>3 DEF Evicted, Front
    <3>5. PICK t : t = Append(SubSeq(s, n + 1, Len(s)), q) /\ t = order'
      BY <2>6, <3>1, <3>2
    <3>6. QueueAfter(t, s, n, q, R, D)
      BY <2>5, <3>1, <3>4, <3>5 DEF QueueAfter
    <3>7. q \in Keys /\ s \in Seq(Keys)
      OBVIOUS
    <3>8. t \in Seq(Keys) /\ D \cup {q} \subseteq Elements(t)
      BY ONLY <3>6, <3>7, QueueKept
    <3>9. Elements(t) = Elements(order')
      BY <3>5
    <3>10. QED BY <2>7, <3>3, <3>5, <3>8, <3>9
  <2>14. bytes' <= MaxBytes
    BY <2>4, <2>6
  <2>15. QED BY <2>10, <2>11, <2>12, <2>13, <2>14 DEF Limits
<1>3. QED BY <1>1, <1>2

\* A response on the wire is in no entry yet, whatever its size becomes.
LEMMA ReceiveLimits ==
    ASSUME Inv, Limits, NEW r \in Requests, NEW l \in Lifetimes, NEW b \in Sizes,
           Receive(r, l, b)
    PROVE  Limits'
<1>1. Typed
  BY DEF Inv
<1>2. pc[r] = "wire" /\ UNCHANGED cache /\ \A s \in Requests : s # r => size'[s] = size[s]
  BY <1>1 DEF Receive, Typed
<1>3. \A k \in Cached : entries[k] \in Requests /\ entries[k] # r
  BY <1>1, <1>2 DEF Inv, Responses, EntryOf, Stored, Cached, Typed
<1>4. QED BY <1>1, <1>2, <1>3, CacheStays DEF cache

\* Every step keeps the limits.
LEMMA LimitsNext == Inv /\ Limits /\ [Next]_vars => Limits'
<1> SUFFICES ASSUME Inv, Limits, [Next]_vars PROVE Limits'
  OBVIOUS
<1>1. Typed /\ Roles
  BY DEF Inv
<1>2. ASSUME NEW r \in Requests, Hit(r) \/ Follow(r) \/ Lead(r) PROVE Limits'
  <2>1. key[r] \in Keys
    BY <1>1, <1>2 DEF Roles, Hit, Follow, Lead
  <2>2. Look(key[r]) /\ size' = size
    BY <1>2 DEF Hit, Follow, Lead, response
  <2>3. QED BY <1>1, <2>1, <2>2, LookStep
<1>3. ASSUME NEW r \in Requests, Store(r) PROVE Limits'
  <2>1. key[r] \in Keys
    BY <1>1, <1>3 DEF Roles, Store
  <2>2. Insert(r) /\ size' = size
    BY <1>3 DEF Store
  <2>3. QED BY <1>1, <2>1, <2>2, InsertStep
<1>4. ASSUME UNCHANGED cache, size' = size PROVE Limits'
  BY <1>1, <1>4, CacheStays DEF cache
<1>5. ASSUME NEW r \in Requests, NEW k \in Keys, Start(r, k) PROVE Limits'
  BY <1>4, <1>5 DEF Start, response
<1>6. ASSUME NEW r \in Requests, Send(r) \/ Release(r) \/ Tell(r) \/ Hear(r) PROVE Limits'
  BY <1>4, <1>6 DEF Send, Release, Tell, Hear, response
<1>7. ASSUME NEW r \in Requests, Fail(r) \/ Redirect(r) \/ Cancel(r) PROVE Limits'
  BY <1>4, <1>7 DEF Fail, Redirect, Cancel, response
<1>8. ASSUME Tick \/ UNCHANGED vars PROVE Limits'
  BY <1>4, <1>8 DEF Tick, vars, response
<1>9. ASSUME NEW r \in Requests, OwnStep(r) \/ Answered(r) PROVE Limits'
  BY <1>2, <1>3, <1>6, <1>7, <1>9, ReceiveLimits DEF OwnStep, Answered
<1>10. QED BY <1>5, <1>7, <1>8, <1>9 DEF Next

LEMMA LimitsInit == Init => Limits
<1> SUFFICES ASSUME Init PROVE Limits
  OBVIOUS
<1>1. Cached = {} /\ bytes = 0 /\ order = <<>>
  BY DEF Init, Cached
<1>2. /\ IsFiniteSet(Cached) /\ Cardinality(Cached) = 0
      /\ Cardinality(HeldBy(entries, size, Cached)) = 0
  BY <1>1, FS_EmptySet, HeldNothing
<1>3. QED BY <1>1, <1>2, LimitFacts DEF Limits

THEOREM LimitsInvariant == Spec => []Limits
BY LimitsInit, LimitsNext, CacheInvariant, PTL DEF Spec

\* The cache never holds more entries or more bytes than it may, its byte
\* count is exact, and every entry has its place in the queue, whichever
\* requests look, store, expire and replace in whatever order.
THEOREM CacheWithinLimits == Spec => []WithinLimits
<1>1. Limits => WithinLimits
  <2>1. SUFFICES ASSUME Limits PROVE WithinLimits
    OBVIOUS
  <2>2. SizeOf(Cached) = Cardinality(HeldBy(entries, size, Cached))
    BY DEF SizeOf, Held, HeldBy
  <2>3. DOMAIN order = 1..Len(order)
    BY <2>1 DEF Limits
  <2>4. QED BY <2>1, <2>2, <2>3 DEF Limits, WithinLimits, Elements
<1>2. QED BY <1>1, LimitsInvariant, PTL

\* The types of the module, the queue's and the counters' among them.
THEOREM CacheTypeCorrect == Spec => []TypeOK
<1>1. Inv /\ Limits /\ InFlightExact => TypeOK
  <2>1. SUFFICES ASSUME Inv, Limits, InFlightExact PROVE TypeOK
    OBVIOUS
  <2>2. Typed
    BY <2>1 DEF Inv
  <2>3. order \in Seq(Keys) /\ bytes \in Nat
    BY <2>1, CacheBytes DEF Limits
  <2>4. active \in Nat
    <3>1. IsFiniteSet(Requests)
      BY CacheAssumption, FS_Interval DEF Requests
    <3>2. IsFiniteSet(OnWire)
      BY <3>1, FS_Subset DEF OnWire
    <3>3. QED BY <2>1, <3>2, FS_CardinalityType DEF InFlightExact, OnWire
  <2>5. QED BY <2>2, <2>3, <2>4 DEF Typed, TypeOK
<1>2. QED BY <1>1, CacheInvariant, LimitsInvariant, CountIsExact, PTL

=============================================================================
