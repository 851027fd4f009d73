-------------------------- MODULE CookiePersistence --------------------------
(***************************************************************************)
(* How a server with a storage directory keeps its cookies: every          *)
(* connection starts from the startup snapshot in a jar of its own, and    *)
(* when it ends merges what it changed into the persistence jar, under the *)
(* persistence lock, and saves that jar.  The main thread saves it once    *)
(* more after the shutdown drain, outside that lock.  A crash can come     *)
(* between any two steps.                                                  *)
(*                                                                         *)
(* A cookie is the writer of its value and its expiry; a jar is a function *)
(* from the (domain, name, path) keys.  CdpServer has the connections'     *)
(* threads and the drain in full.                                          *)
(***************************************************************************)
EXTENDS Integers, FiniteSets

CONSTANTS
  Conns,     \* connections, over all runs of the process
  Keys,      \* cookie keys
  Main,      \* the main thread, as a saver
  Nobody,    \* the persistence lock is free
  Stored,    \* the writer of the cookies found on the disk at first
  Expiries,  \* expiry times a cookie may be given; MaxTime + 1 is a session cookie
  MaxTime,   \* the clock stops here
  MaxBoots,  \* runs of the process
  MaxFails   \* saves that fail

ASSUME CookieAssumption ==
  /\ MaxTime \in Nat /\ Expiries \subseteq 1..(MaxTime + 1)
  /\ MaxBoots \in Nat /\ MaxFails \in Nat
  /\ Main \notin Conns /\ Nobody \notin Conns /\ Stored \notin Conns

VARIABLES
  clock,      \* seconds
  disk,       \* cookies.json
  template,   \* the shared context's jar: the startup snapshot
  persist,    \* the persistence context's jar
  conn,       \* where a connection is
  jar,        \* its jar; from "merging" on, the cookies it ended with
  initial,    \* initial_cookies
  touched,    \* keys its pages or its client have set or deleted
  deleted,    \* keys this merge has still to delete
  lock,       \* persistence_lock
  snapshot,   \* what each saver is writing
  savers,     \* the savers that hold the jar's read lock
  main,       \* the main thread: "up", "drained", "saving", "down"
  gaveUp,     \* the drain's deadline passed
  unsaved,    \* a save failed and none has succeeded since
  boots, fails

serverVars == <<template, persist, lock, snapshot, savers, main, gaveUp, unsaved, boots>>
connVars == <<conn, jar, initial, touched, deleted>>
vars == <<clock, disk, serverVars, connVars, fails>>

NoCookie == [by |-> Nobody, expires |-> 0]
Cookies == [by : Conns \cup {Stored}, expires : Expiries]
Jars == [Keys -> Cookies \cup {NoCookie}]
Empty == [k \in Keys |-> NoCookie]

Expired(cookie) == cookie.expires <= clock

\* get_all_cookies, save_to_file and set_cookies_from_cdp leave expired cookies out.
Live(j) == [k \in Keys |-> IF Expired(j[k]) THEN NoCookie ELSE j[k]]

-----------------------------------------------------------------------------
(* A connection's life before it closes.                                   *)

\* isolated_copy: from the startup snapshot, not from the persistence jar.
Source == template

Open(c) ==
  /\ main = "up" /\ conn[c] = "unborn"
  /\ conn' = [conn EXCEPT ![c] = "open"]
  /\ jar' = [jar EXCEPT ![c] = Live(Source)]
  /\ initial' = [initial EXCEPT ![c] = Live(Source)]
  /\ UNCHANGED <<clock, disk, serverVars, touched, deleted, fails>>

\* Set-Cookie, document.cookie, Network.setCookies, and the ways to delete.
Change(c, k, cookie) ==
  /\ main # "down" /\ conn[c] = "open"
  /\ jar' = [jar EXCEPT ![c][k] = cookie]
  /\ touched' = [touched EXCEPT ![c] = @ \cup {k}]
  /\ UNCHANGED <<clock, disk, serverVars, conn, initial, deleted, fails>>

SetCookie(c, k, expires) ==
  expires > clock /\ Change(c, k, [by |-> c, expires |-> expires])

DeleteCookie(c, k) == jar[c][k] # NoCookie /\ Change(c, k, NoCookie)

\* The LocalSet has ended.
Close(c) ==
  /\ main # "down" /\ conn[c] = "open"
  /\ conn' = [conn EXCEPT ![c] = "closed"]
  /\ UNCHANGED <<clock, disk, serverVars, jar, initial, touched, deleted, fails>>

-----------------------------------------------------------------------------
(* merge_cookie_delta, under persistence_lock.                             *)

\* Keys of the initial cookies that are not among the current ones.
Gone(c, current) == {k \in Keys : initial[c][k] # NoCookie /\ current[k] = NoCookie}

LockFree == lock = Nobody

LockPersistence(c) ==
  /\ main # "down" /\ conn[c] = "closed" /\ LockFree
  /\ lock' = c
  /\ conn' = [conn EXCEPT ![c] = "merging"]
  /\ jar' = [jar EXCEPT ![c] = Live(@)]
  /\ deleted' = [deleted EXCEPT ![c] = Gone(c, Live(jar[c]))]
  /\ UNCHANGED <<clock, disk, template, persist, snapshot, savers, main, gaveUp,
                 unsaved, boots, initial, touched, fails>>

\* A writer of the persistence jar waits until no saver holds its read lock.
JarWritable == savers = {}

\* delete_cookies_filtered, one write lock for each cookie.
MergeDelete(c, k) ==
  /\ main # "down" /\ conn[c] = "merging" /\ k \in deleted[c] /\ JarWritable
  /\ persist' = [persist EXCEPT ![k] = NoCookie]
  /\ deleted' = [deleted EXCEPT ![c] = @ \ {k}]
  /\ UNCHANGED <<clock, disk, template, lock, snapshot, savers, main, gaveUp, unsaved,
                 boots, conn, jar, initial, touched, fails>>

\* The current cookies that are new or differ from the initial ones.
Changed_All(c) == {k \in Keys : jar[c][k] # NoCookie}
Changed_OnlyNew(c) == {k \in Keys : jar[c][k] # NoCookie /\ initial[c][k] = NoCookie}
Changed(c) == {k \in Keys : jar[c][k] # NoCookie /\ jar[c][k] # initial[c][k]}

\* set_cookies_from_cdp, all under one write lock.  A cookie that expired since
\* the list was made is removed.
MergeSets(c) ==
  /\ main # "down" /\ conn[c] = "merging" /\ deleted[c] = {} /\ JarWritable
  /\ persist' = [k \in Keys |-> IF k \in Changed(c) THEN Live(jar[c])[k] ELSE persist[k]]
  /\ conn' = [conn EXCEPT ![c] = "merged"]
  /\ UNCHANGED <<clock, disk, template, lock, snapshot, savers, main, gaveUp, unsaved,
                 boots, jar, initial, touched, deleted, fails>>

-----------------------------------------------------------------------------
(* save_to_file: the jar's read lock is held from the listing to the       *)
(* rename, and the rename replaces the file in one step.                   *)

BeginSave(s) ==
  /\ savers' = savers \cup {s}
  /\ snapshot' = [snapshot EXCEPT ![s] = Live(persist)]

EndSave(s) ==
  /\ savers' = savers \ {s}
  /\ snapshot' = [snapshot EXCEPT ![s] = Empty]
  /\ \/ disk' = snapshot[s] /\ unsaved' = FALSE /\ UNCHANGED fails
     \/ fails < MaxFails /\ fails' = fails + 1 /\ unsaved' = TRUE /\ UNCHANGED disk

ThreadSave_LeftToMain(c) ==
  /\ main # "down" /\ conn[c] = "merged"
  /\ conn' = [conn EXCEPT ![c] = "done"]
  /\ lock' = Nobody
  /\ UNCHANGED <<clock, disk, template, persist, snapshot, savers, main, gaveUp, unsaved,
                 boots, jar, initial, touched, deleted, fails>>

ThreadSave(c) ==
  /\ main # "down" /\ conn[c] = "merged"
  /\ BeginSave(c)
  /\ conn' = [conn EXCEPT ![c] = "saving"]
  /\ UNCHANGED <<clock, disk, template, persist, lock, main, gaveUp, unsaved, boots,
                 jar, initial, touched, deleted, fails>>

\* The save is done or has failed (it is only logged); the lock and the slot go.
ThreadSaved(c) ==
  /\ main # "down" /\ conn[c] = "saving"
  /\ EndSave(c)
  /\ lock' = Nobody
  /\ conn' = [conn EXCEPT ![c] = "done"]
  /\ UNCHANGED <<clock, template, persist, main, gaveUp, boots, jar, initial, touched,
                 deleted>>

-----------------------------------------------------------------------------
(* The main thread and the process.                                        *)

\* The drain ends when no connection is left, or at its deadline.
Drained_AtOnce == TRUE
Drained == \A c \in Conns : conn[c] \in {"unborn", "done"}

DrainEnds ==
  /\ main = "up"
  /\ main' = "drained"
  /\ \/ Drained /\ UNCHANGED gaveUp
     \/ ~Drained /\ gaveUp' = TRUE
  /\ UNCHANGED <<clock, disk, template, persist, lock, snapshot, savers, unsaved, boots,
                 connVars, fails>>

MainSave ==
  /\ main = "drained"
  /\ BeginSave(Main)
  /\ main' = "saving"
  /\ UNCHANGED <<clock, disk, template, persist, lock, gaveUp, unsaved, boots, connVars,
                 fails>>

\* The process is gone, and with it everything but the file.
Down ==
  /\ main' = "down"
  /\ template' = Empty /\ persist' = Empty
  /\ lock' = Nobody /\ savers' = {}
  /\ snapshot' = [s \in Conns \cup {Main} |-> Empty]
  /\ conn' = [c \in Conns |-> IF conn[c] = "unborn" THEN "unborn" ELSE "done"]
  /\ jar' = [c \in Conns |-> Empty] /\ initial' = jar'
  /\ touched' = [c \in Conns |-> {}] /\ deleted' = touched'
  /\ gaveUp' = FALSE /\ unsaved' = FALSE
  /\ UNCHANGED <<clock, boots>>

MainSaved ==
  /\ main = "saving"
  /\ \/ disk' = snapshot[Main] /\ UNCHANGED fails
     \/ fails < MaxFails /\ fails' = fails + 1 /\ UNCHANGED disk
  /\ Down

Crash == main # "down" /\ Down /\ UNCHANGED <<disk, fails>>

\* The file is loaded into the template and copied into the persistence jar.
Boot ==
  /\ main = "down" /\ boots < MaxBoots
  /\ main' = "up"
  /\ boots' = boots + 1
  /\ template' = Live(disk) /\ persist' = Live(disk)
  /\ UNCHANGED <<clock, disk, lock, snapshot, savers, gaveUp, unsaved, connVars, fails>>

Tick ==
  /\ clock < MaxTime
  /\ clock' = clock + 1
  /\ UNCHANGED <<disk, serverVars, connVars, fails>>

-----------------------------------------------------------------------------
Init ==
  /\ clock = 0
  /\ disk \in [Keys -> [by : {Stored}, expires : Expiries] \cup {NoCookie}]
  /\ template = Empty /\ persist = Empty
  /\ conn = [c \in Conns |-> "unborn"]
  /\ jar = [c \in Conns |-> Empty] /\ initial = jar
  /\ touched = [c \in Conns |-> {}] /\ deleted = touched
  /\ lock = Nobody
  /\ snapshot = [s \in Conns \cup {Main} |-> Empty]
  /\ savers = {}
  /\ main = "down" /\ gaveUp = FALSE /\ unsaved = FALSE
  /\ boots = 0 /\ fails = 0

Merging(c) == (\E k \in Keys : MergeDelete(c, k)) \/ MergeSets(c)

Next ==
  \/ \E c \in Conns :
       \/ Open(c) \/ Close(c) \/ LockPersistence(c) \/ Merging(c)
       \/ ThreadSave(c) \/ ThreadSaved(c)
       \/ \E k \in Keys :
            DeleteCookie(c, k) \/ \E expires \in Expiries : SetCookie(c, k, expires)
  \/ DrainEnds \/ MainSave \/ MainSaved \/ Crash \/ Boot \/ Tick

Spec == Init /\ [][Next]_vars

-----------------------------------------------------------------------------
(* Properties.                                                             *)

TypeOK ==
  /\ clock \in 0..MaxTime
  /\ disk \in Jars /\ template \in Jars /\ persist \in Jars
  /\ conn \in [Conns -> {"unborn", "open", "closed", "merging", "merged", "saving", "done"}]
  /\ jar \in [Conns -> Jars] /\ initial \in [Conns -> Jars]
  /\ touched \in [Conns -> SUBSET Keys] /\ deleted \in [Conns -> SUBSET Keys]
  /\ lock \in Conns \cup {Nobody}
  /\ snapshot \in [Conns \cup {Main} -> Jars] /\ savers \subseteq Conns \cup {Main}
  /\ main \in {"up", "drained", "saving", "down"}
  /\ gaveUp \in BOOLEAN /\ unsaved \in BOOLEAN
  /\ boots \in 0..MaxBoots /\ fails \in 0..MaxFails

\* The lock holder is the one connection between its lock and its save.
LockExact ==
  \A c \in Conns : lock = c <=> conn[c] \in {"merging", "merged", "saving"}

\* With no merge or save under way, the file has what the persistence jar has,
\* so a crash loses no connection whose thread has ended.
DiskFollowsJar ==
  main # "down" /\ lock = Nobody /\ savers = {} /\ ~unsaved =>
    Live(disk) = Live(persist)

\* What a rename puts on the disk is the persistence jar at that moment, though
\* the final save may overlap a thread's merge and save: no save writes a jar
\* that has changed since it was listed, or over a newer one.
WritesCurrentJar == [][disk' # disk => Live(disk') = Live(persist)]_vars

\* While the drain has not given up, the file never has half of a connection's
\* delta: it does not change between the first delete of a merge and its sets.
NoTornSave ==
  [][(\E c \in Conns : conn[c] = "merging") /\ main # "down" /\ ~gaveUp
       => UNCHANGED disk]_vars

\* A connection's jar has only its own cookies and those of the startup
\* snapshot, never another live connection's (the comment on persistence_ctx).
Isolated ==
  \A c \in Conns, k \in Keys :
    jar[c][k] # NoCookie => jar[c][k].by = c \/ jar[c][k] = template[k]

\* After its merge, what a connection has set or deleted is what the
\* persistence jar has, whatever was merged between its start and its end,
\* unless it ended with the cookie it had begun with.
ChangesPersist ==
  \A c \in Conns : conn[c] \in {"merged", "saving"} =>
    \A k \in touched[c] :
      \/ Live(persist)[k] = Live(jar[c])[k]
      \/ Live(initial[c])[k] = Live(jar[c])[k]

\* The connection began with a cookie under this key, and it has expired since.
Outlived(c, k) == initial[c][k] # NoCookie /\ Expired(initial[c][k])

\* A merge leaves alone the keys its connection did not touch, unless it began
\* with a cookie there that has expired since; a key it did not begin with,
\* another connection's new cookie, it leaves alone in any case.
OthersKept ==
  [][\A c \in Conns : Merging(c) =>
       \A k \in Keys \ touched[c] : Outlived(c, k) \/ persist'[k] = persist[k]]_vars

\* What the comment on the merge says: cookies a connection has not changed
\* cannot overwrite another connection's updates.
UntouchedNeverOverwrite ==
  [][\A c \in Conns : Merging(c) =>
       \A k \in Keys \ touched[c] : UNCHANGED (persist[k])]_vars

=============================================================================
