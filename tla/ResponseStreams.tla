--------------------------- MODULE ResponseStreams ---------------------------
(***************************************************************************)
(* Response bodies on their way to a CDP client: the page's bounded cache  *)
(* of bodies (Page::store_response_body and friends), the one its scripts' *)
(* fetches have in the JavaScript runtime, and the bounded store of open   *)
(* streams (IoStreamStore) that Fetch.takeResponseBodyAsStream moves or    *)
(* copies them into and IO.read / IO.close drain and free.                 *)
(*                                                                         *)
(* A body is abstracted to its length.  A request id is <<"req", n>>; the  *)
(* alias of a main resource under its navigation's loader id is            *)
(* <<"loader", n>>.  A stream handle is the number the code formats into   *)
(* its name, so a smaller handle is an older stream.                       *)
(***************************************************************************)
EXTENDS Integers, Sequences, FiniteSets, SequencesExt

CONSTANTS
  MaxEntries,   \* TELEMACO_IO_STREAM_MAX_ENTRIES, at least 1 (with_limits)
  MaxBytes,     \* TELEMACO_IO_STREAM_MAX_BYTES
  MaxChunk,     \* MAX_READ_CHUNK
  HandleSpace,  \* first handle the u64 counter cannot advance past
  BodyEntries,  \* TELEMACO_NETWORK_BODY_BUFFER_ENTRIES
  BodyBytes,    \* TELEMACO_NETWORK_BODY_BUFFER_BYTES, per body
  Sizes,        \* lengths a response or a PDF may have
  MaxRequests,  \* bound on the number of responses of a behaviour
  MaxFetches    \* bound on the number of fetches of one runtime

ASSUME LimitsAssumption ==
  /\ MaxEntries \in Nat \ {0}
  /\ {MaxBytes, MaxChunk, HandleSpace, BodyEntries, BodyBytes, MaxRequests,
      MaxFetches} \subseteq Nat
  /\ Sizes \subseteq Nat

VARIABLES
  bodies,      \* cached bodies: request id -> length
  bodyOrder,   \* their ids, oldest first (response_body_order)
  responses,   \* number of responses recorded so far (network_event_counter)
  navigated,   \* responses that had been recorded at the last alias
  jsBodies,    \* network_response_bodies in their order: [id, len], oldest first
  fetches,     \* network_response_body_counter
  streams,     \* open streams: handle -> [len, pos] and what the client got
  order,       \* their handles, oldest first
  totalBytes,  \* the store's byte account
  counter      \* next handle

cacheVars   == <<bodies, bodyOrder, responses, navigated>>
storeVars   == <<streams, order, totalBytes, counter>>
jsVars      == <<jsBodies, fetches>>
streamsVars == <<cacheVars, jsVars, storeVars>>

Request(n) == <<"req", n>>
Loader(n)  == <<"loader", n>>

Drop(f, S) == [x \in DOMAIN f \ S |-> f[x]]
Put(f, x, v) == [y \in DOMAIN f \cup {x} |-> IF y = x THEN v ELSE f[y]]

\* StoredNetworkResponseBody, under its number.
Copy == [id : Nat, len : Nat]

\* VecDeque::retain: all but x.  (SelectSeq, which no prover knows.)
Without(s, x) ==
  LET kept[n \in 0..Len(s)] ==
        IF n = 0 THEN <<>> ELSE IF s[n] = x THEN kept[n - 1] ELSE Append(kept[n - 1], s[n])
  IN  kept[Len(s)]

\* The bytes of some streams, each by its place in one of them.
Held(hs) == UNION {{h} \X (1..streams[h].len) : h \in hs}
SumLen(hs) == Cardinality(Held(hs))

-----------------------------------------------------------------------------
(* The page's body cache.                                                  *)

Keep(ord, n) == IF Len(ord) > n THEN SubSeq(ord, Len(ord) - n + 1, Len(ord)) ELSE ord

\* A response arrives; its body is cached unless it is over the byte limit,
\* and the oldest bodies make room for it.
Respond(size) ==
  LET id   == Request(responses + 1)
      kept == Keep(Append(bodyOrder, id), BodyEntries)
  IN /\ responses < MaxRequests
     /\ responses' = responses + 1
     /\ IF BodyEntries = 0 \/ BodyBytes = 0 \/ size > BodyBytes
        THEN UNCHANGED <<bodies, bodyOrder>>
        ELSE /\ bodyOrder' = kept
             /\ bodies' = Drop(Put(bodies, id, size), ToSet(Append(bodyOrder, id)) \ ToSet(kept))
     /\ UNCHANGED <<navigated, jsVars, storeVars>>

\* A navigation that recorded response n as its main resource has finished:
\* the body becomes retrievable under the loader id as well.
AliasBody(n) ==
  /\ n \in (navigated + 1)..responses
  /\ navigated' = responses
  /\ IF Request(n) \in DOMAIN bodies /\ Loader(n) \notin DOMAIN bodies
     THEN /\ bodies' = Put(bodies, Loader(n), bodies[Request(n)])
          /\ bodyOrder' = Append(bodyOrder, Loader(n))
     ELSE UNCHANGED <<bodies, bodyOrder>>
  /\ UNCHANGED <<responses, jsVars, storeVars>>

\* Network.disable: both are emptied.
ClearBodies ==
  /\ bodies' = Drop(bodies, DOMAIN bodies)
  /\ bodyOrder' = <<>>
  /\ jsBodies' = <<>>
  /\ UNCHANGED <<responses, navigated, fetches, storeVars>>

\* A script's fetch has its answer; the runtime keeps a copy of the body.
ScriptFetch(size) ==
  /\ fetches < MaxFetches
  /\ fetches' = fetches + 1
  /\ jsBodies' = IF BodyEntries = 0 \/ BodyBytes = 0 \/ size > BodyBytes THEN jsBodies
                 ELSE Keep(Append(jsBodies, [id |-> fetches + 1, len |-> size]), BodyEntries)
  /\ UNCHANGED <<cacheVars, storeVars>>

\* A new document, or a page that is suspended: the runtime goes with what it
\* keeps, and the next one counts from the start.
NewRuntime ==
  /\ jsBodies' = <<>>
  /\ fetches' = 0
  /\ UNCHANGED <<cacheVars, storeVars>>

-----------------------------------------------------------------------------
(* The stream store.                                                       *)

\* The loop in insert stops at the first number of evictions after which the
\* new body fits, or when nothing is left to evict.
Fits(k, size) ==
  \/ k = Len(order)
  \/ /\ Len(order) - k < MaxEntries
     /\ totalBytes - SumLen({order[i] : i \in 1..k}) + size <= MaxBytes

Evictions(size) ==
  CHOOSE k \in 0..Len(order) :
    /\ Fits(k, size)
    /\ \A j \in 0..(k - 1) : ~Fits(j, size)

Evicted(size) == {order[i] : i \in 1..Evictions(size)}

NewHandle == counter

Oversize_OffByOne(size) == size >= MaxBytes
Oversize(size) == size > MaxBytes

Exhausted == counter = HandleSpace

\* IoStreamStore::insert.  The victims are gone even when the handle space
\* turns out to be exhausted.
Insert(size) ==
  LET gone  == Evicted(size)
      rest  == SubSeq(order, Evictions(size) + 1, Len(order))
      freed == totalBytes - SumLen(gone)
      fresh == [len |-> size, pos |-> 0, got |-> 0, seeked |-> FALSE, eof |-> FALSE]
  IN \/ /\ Oversize(size)
        /\ UNCHANGED storeVars
     \/ /\ ~Oversize(size) /\ Exhausted
        /\ streams' = Drop(streams, gone)
        /\ order' = rest
        /\ totalBytes' = freed
        /\ UNCHANGED counter
     \/ /\ ~Oversize(size) /\ ~Exhausted
        /\ streams' = Put(Drop(streams, gone), NewHandle, fresh)
        /\ order' = Append(rest, NewHandle)
        /\ totalBytes' = freed + size
        /\ counter' = counter + 1

\* Fetch.takeResponseBodyAsStream: the body leaves the cache, then is
\* inserted; an insertion that fails reports an error and the body is gone.
TakeBody(id) ==
  /\ id \in DOMAIN bodies
  /\ bodies' = Drop(bodies, {id})
  /\ bodyOrder' = Without(bodyOrder, id)
  /\ Insert(bodies[id])
  /\ UNCHANGED <<responses, navigated, jsVars>>

\* The same of a body that only the runtime has: it is copied, and stays.
TakeFetched(i) ==
  /\ i \in 1..Len(jsBodies)
  /\ Insert(jsBodies[i].len)
  /\ UNCHANGED <<cacheVars, jsVars>>

\* Page.printToPDF with transferMode ReturnAsStream.
PrintToPdf(size) ==
  /\ Insert(size)
  /\ UNCHANGED <<cacheVars, jsVars>>

Least(a, b) == IF a < b THEN a ELSE b

AtEof_ShortRead(start, end, size, len) == end - start < size
AtEof(start, end, size, len) == end >= len

\* IO.read of a known handle; from = -1 stands for no offset parameter.
Read(h, from, size) ==
  LET s     == streams[h]
      start == IF from >= 0 THEN Least(from, s.len) ELSE s.pos
      end   == Least(start + Least(size, MaxChunk), s.len)
  IN /\ h \in DOMAIN streams
     /\ streams' = [streams EXCEPT ![h] =
          [len |-> s.len, pos |-> end,
           got |-> IF s.seeked \/ from >= 0 THEN 0 ELSE s.got + (end - start),
           seeked |-> s.seeked \/ from >= 0,
           eof |-> AtEof(start, end, size, s.len)]]
     /\ UNCHANGED <<order, totalBytes, counter, cacheVars, jsVars>>

\* IO.close of a known handle (an unknown one changes nothing).
Close_KeepsBytes(h) ==
  /\ h \in DOMAIN streams
  /\ streams' = Drop(streams, {h})
  /\ order' = Without(order, h)
  /\ UNCHANGED <<totalBytes, counter, cacheVars, jsVars>>

Close(h) ==
  /\ h \in DOMAIN streams
  /\ streams' = Drop(streams, {h})
  /\ totalBytes' = totalBytes - streams[h].len
  /\ order' = Without(order, h)
  /\ UNCHANGED <<counter, cacheVars, jsVars>>

StreamsInit ==
  /\ bodies = [x \in {} |-> 0]
  /\ bodyOrder = <<>>
  /\ responses = 0
  /\ navigated = 0
  /\ jsBodies = <<>>
  /\ fetches = 0
  /\ streams = [h \in {} |-> 0]
  /\ order = <<>>
  /\ totalBytes = 0
  /\ counter = 0

StreamsNext ==
  \/ \E size \in Sizes : Respond(size) \/ ScriptFetch(size) \/ PrintToPdf(size)
  \/ \E n \in 1..MaxRequests : AliasBody(n)
  \/ ClearBodies \/ NewRuntime
  \/ \E id \in DOMAIN bodies : TakeBody(id)
  \/ \E i \in 1..Len(jsBodies) : TakeFetched(i)
  \/ \E h \in DOMAIN streams :
       \/ Close(h)
       \/ \E from \in -1..1, size \in Sizes : Read(h, from, size)

StreamsSpec == StreamsInit /\ [][StreamsNext]_streamsVars

-----------------------------------------------------------------------------
(* Properties.                                                             *)

StreamsTypeOK ==
  /\ DOMAIN bodies \subseteq ({"req", "loader"} \X (1..MaxRequests))
  /\ \A id \in DOMAIN bodies : bodies[id] \in Nat
  /\ responses \in 0..MaxRequests
  /\ navigated \in 0..responses
  /\ jsBodies \in Seq(Copy) /\ fetches \in 0..MaxFetches
  /\ counter \in 0..HandleSpace
  /\ DOMAIN streams \subseteq 0..HandleSpace
  /\ \A h \in DOMAIN streams :
       streams[h] \in [len : Nat, pos : Nat, got : Nat,
                       seeked : BOOLEAN, eof : BOOLEAN]
  /\ order \in Seq(0..HandleSpace)
  /\ totalBytes \in Nat

\* What eviction relies on: the order lists exactly the open streams, oldest
\* first, and no handle still to come.
OrderOK ==
  /\ ToSet(order) = DOMAIN streams
  /\ \A i, j \in 1..Len(order) : i < j => order[i] < order[j]
  /\ \A i \in 1..Len(order) : order[i] < counter

\* The byte account is the sum of what is really held.
BytesAccounted == totalBytes = SumLen(DOMAIN streams)

\* The store's memory contract (issue #360): closes, evictions and refused
\* inserts all keep the books, and neither cap is ever passed, whatever the
\* client opens and forgets to close.
BooksKept ==
  /\ OrderOK /\ BytesAccounted
  /\ Len(order) <= MaxEntries /\ totalBytes <= MaxBytes

\* Eviction takes a prefix of the order and no stream more than it must: if
\* the youngest victim had been spared, a cap would have been passed.
EvictsOnlyWhatItMust ==
  [][ \A h \in DOMAIN streams' \ DOMAIN streams :
        LET gone  == DOMAIN streams \ DOMAIN streams'
            kept  == DOMAIN streams \ gone
        IN /\ \A g \in gone, k \in kept : g < k
           /\ gone # {} =>
                LET spared == CHOOSE g \in gone : \A x \in gone : x <= g
                IN \/ Cardinality(kept) + 2 > MaxEntries
                   \/ SumLen(kept \cup {spared}) + streams'[h].len > MaxBytes
    ]_streams

\* A freed handle never becomes readable again, so a client holding a stale
\* handle gets an error and never another body's bytes.
HandlesNotReused ==
  [][ \A h \in 0..(counter - 1) : h \notin DOMAIN streams => h \notin DOMAIN streams'
    ]_streamsVars

\* A client that reads on without seeking has received exactly the bytes up to
\* the cursor, and is told EOF only when it has the whole body.
SequentialReadsAreComplete ==
  \A h \in DOMAIN streams :
    LET s == streams[h]
    IN /\ ~s.seeked => s.got = s.pos
       /\ ~s.seeked /\ s.eof => s.got = s.len

\* The cache's order lists exactly the cached bodies once each, and the cache
\* holds at most one body (a loader alias) over its limit.
BodyCacheOK ==
  /\ ToSet(bodyOrder) = DOMAIN bodies
  /\ Len(bodyOrder) = Cardinality(DOMAIN bodies)
  /\ Len(bodyOrder) <= BodyEntries + 1

\* Of a step: a body of this length is in a new stream, if it may be.
Streamed(len) == len <= MaxBytes /\ counter < HandleSpace =>
                   \E h \in DOMAIN streams' \ DOMAIN streams : streams'[h].len = len

\* A body that is taken is afterwards held by a new stream of its length; it is
\* lost only when the store rejects it for its size.  One of the page's cache
\* has left the cache and cannot be taken again.  One that a script fetched
\* stays with the runtime, is held twice, and can be taken again (against
\* page.rs:4171 and fetch.rs:194).
TakenBodyIsStreamed ==
  [][ /\ \A id \in DOMAIN bodies :
           TakeBody(id) => Streamed(bodies[id]) /\ id \notin DOMAIN bodies'
      /\ \A i \in 1..Len(jsBodies) : TakeFetched(i) => Streamed(jsBodies[i].len)
    ]_streamsVars

=============================================================================
