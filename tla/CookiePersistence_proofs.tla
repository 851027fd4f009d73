----------------------- MODULE CookiePersistence_proofs -----------------------
(***************************************************************************)
(* Proofs about CookiePersistence, for any connections, keys and expiries: *)
(* typing, that a merge leaves alone what its connection did not touch and *)
(* persists what it did, that jars are isolated, and that what is renamed  *)
(* over the file is the current persistence jar.                           *)
(***************************************************************************)
EXTENDS CookiePersistence, TLAPS

USE DEF vars, serverVars, connVars

LEMMA Apart == Main \notin Conns /\ Nobody \notin Conns /\ MaxTime \in Nat /\ MaxBoots \in Nat
               /\ MaxFails \in Nat /\ Expiries \subseteq Int
BY CookieAssumption

LEMMA EmptyJar == Empty \in Jars /\ \A k \in Keys : Empty[k] = NoCookie
BY DEF Empty, Jars

LEMMA LiveJar == ASSUME NEW j \in Jars PROVE Live(j) \in Jars
BY DEF Live, Jars

LEMMA ExpiryTimes == \A j \in Jars, k \in Keys : j[k].expires \in Int
<1>1. \A cookie \in Cookies : cookie.expires \in Int
  BY Apart DEF Cookies
<1>2. NoCookie.expires \in Int
  BY DEF NoCookie
<1>3. QED BY <1>1, <1>2 DEF Jars

\* A cookie that has expired stays expired.
LEMMA ExpiryIsFinal ==
  ASSUME clock \in Int, clock' = clock + 1, NEW j \in Jars, NEW k \in Keys, Expired(j[k])
  PROVE  j[k].expires <= clock'
BY ExpiryTimes DEF Expired

-----------------------------------------------------------------------------
(* Types.                                                                  *)

ConnStates == {"unborn", "open", "closed", "merging", "merged", "saving", "done"}

\* The jars, the phases of the connections and the lock have their types.
THEOREM Typing == Spec => []TypeOK
<1>1. Init => TypeOK
  <2> SUFFICES ASSUME Init PROVE TypeOK
    OBVIOUS
  <2>1. disk \in Jars /\ template \in Jars /\ persist \in Jars
    BY EmptyJar DEF Init, Jars, Cookies
  <2>2. /\ jar \in [Conns -> Jars] /\ initial \in [Conns -> Jars]
        /\ snapshot \in [Conns \cup {Main} -> Jars]
    BY EmptyJar DEF Init
  <2>3. /\ touched \in [Conns -> SUBSET Keys] /\ deleted \in [Conns -> SUBSET Keys]
        /\ conn \in [Conns -> ConnStates]
    BY DEF Init, ConnStates
  <2>4. /\ clock \in 0..MaxTime /\ boots \in 0..MaxBoots /\ fails \in 0..MaxFails
    BY Apart DEF Init
  <2>5. /\ lock \in Conns \cup {Nobody} /\ savers \subseteq Conns \cup {Main}
        /\ main \in {"up", "drained", "saving", "down"}
    BY DEF Init
  <2>6. gaveUp \in BOOLEAN /\ unsaved \in BOOLEAN
    BY DEF Init
  <2>7. QED BY <2>1, <2>2, <2>3, <2>4, <2>5, <2>6 DEF TypeOK, ConnStates
<1>2. TypeOK /\ [Next]_vars => TypeOK'
  <2> SUFFICES ASSUME TypeOK, [Next]_vars PROVE TypeOK'
    OBVIOUS
  <2> USE DEF TypeOK
  <2>1. ASSUME NEW c \in Conns, Open(c) PROVE TypeOK'
    <3>1. Live(template) \in Jars
      BY LiveJar
    <3>2. QED BY <2>1, <3>1 DEF Open, Source
  <2>2. ASSUME NEW c \in Conns, Close(c) PROVE TypeOK'
    BY <2>2 DEF Close
  <2>3. ASSUME NEW c \in Conns, LockPersistence(c) PROVE TypeOK'
    <3>1. Live(jar[c]) \in Jars /\ Gone(c, Live(jar[c])) \subseteq Keys
      BY LiveJar DEF Gone
    <3>2. QED BY <2>3, <3>1 DEF LockPersistence
  <2>4. ASSUME NEW c \in Conns, NEW k \in Keys, MergeDelete(c, k) PROVE TypeOK'
    BY <2>4 DEF MergeDelete, Jars
  <2>5. ASSUME NEW c \in Conns, MergeSets(c) PROVE TypeOK'
    <3>1. Live(jar[c]) \in Jars
      BY LiveJar
    <3>2. persist' \in Jars
      BY <2>5, <3>1 DEF MergeSets, Jars
    <3>3. QED BY <2>5, <3>2 DEF MergeSets
  <2>6. ASSUME NEW c \in Conns, ThreadSave(c) PROVE TypeOK'
    <3>1. Live(persist) \in Jars
      BY LiveJar
    <3>2. QED BY <2>6, <3>1 DEF ThreadSave, BeginSave
  <2>7. ASSUME NEW c \in Conns, ThreadSaved(c) PROVE TypeOK'
    <3>1. disk' \in Jars /\ fails' \in 0..MaxFails
      BY <2>7, Apart DEF ThreadSaved, EndSave
    <3>3. unsaved' \in BOOLEAN
      BY <2>7 DEF ThreadSaved, EndSave
    <3>2. snapshot' \in [Conns \cup {Main} -> Jars] /\ savers' \subseteq Conns \cup {Main}
      <4>1. savers' = savers \ {c} /\ snapshot' = [snapshot EXCEPT ![c] = Empty]
        BY <2>7 DEF ThreadSaved, EndSave
      <4>2. QED BY <4>1, EmptyJar
    <3>4. QED BY <2>7, <3>1, <3>2, <3>3 DEF ThreadSaved
  <2>8. ASSUME NEW c \in Conns, NEW k \in Keys, NEW cookie \in Cookies \cup {NoCookie},
               Change(c, k, cookie)
        PROVE  TypeOK'
    <3>1. jar' \in [Conns -> Jars]
      BY <2>8 DEF Change, Jars
    <3>2. touched' \in [Conns -> SUBSET Keys]
      BY <2>8 DEF Change
    <3>3. QED BY <2>8, <3>1, <3>2 DEF Change
  <2>9. ASSUME NEW c \in Conns, NEW k \in Keys, DeleteCookie(c, k) PROVE TypeOK'
    BY <2>8, <2>9 DEF DeleteCookie
  <2>10. ASSUME NEW c \in Conns, NEW k \in Keys, NEW expires \in Expiries,
                SetCookie(c, k, expires)
         PROVE  TypeOK'
    <3>1. [by |-> c, expires |-> expires] \in Cookies
      BY DEF Cookies
    <3>2. QED BY <2>8, <2>10, <3>1 DEF SetCookie
  <2>11. CASE DrainEnds
    BY <2>11 DEF DrainEnds
  <2>12. CASE MainSave
    <3>1. Live(persist) \in Jars
      BY LiveJar
    <3>2. QED BY <2>12, <3>1 DEF MainSave, BeginSave
  <2>13. ASSUME Down, disk' \in Jars, fails' \in 0..MaxFails PROVE TypeOK'
    <3>1. /\ jar' \in [Conns -> Jars] /\ initial' \in [Conns -> Jars]
          /\ snapshot' \in [Conns \cup {Main} -> Jars]
          /\ template' \in Jars /\ persist' \in Jars
      BY <2>13, EmptyJar DEF Down
    <3>2. /\ touched' \in [Conns -> SUBSET Keys] /\ deleted' \in [Conns -> SUBSET Keys]
          /\ conn' \in [Conns -> ConnStates]
      BY <2>13 DEF Down, ConnStates
    <3>3. /\ clock' = clock /\ boots' = boots /\ lock' = Nobody /\ savers' = {}
          /\ main' = "down" /\ gaveUp' = FALSE /\ unsaved' = FALSE
      BY <2>13 DEF Down
    <3>4. QED BY <2>13, <3>1, <3>2, <3>3 DEF ConnStates
  <2>14. CASE MainSaved
    <3>1. disk' \in Jars /\ fails' \in 0..MaxFails
      BY <2>14, Apart DEF MainSaved
    <3>2. QED BY <2>13, <2>14, <3>1 DEF MainSaved
  <2>15. CASE Crash
    BY <2>13, <2>15 DEF Crash
  <2>16. CASE Boot
    <3>1. Live(disk) \in Jars
      BY LiveJar
    <3>2. boots' \in 0..MaxBoots
      BY <2>16, Apart DEF Boot
    <3>3. QED BY <2>16, <3>1, <3>2 DEF Boot
  <2>17. CASE Tick
    BY <2>17, Apart DEF Tick
  <2>18. CASE UNCHANGED vars
    BY <2>18
  <2>19. QED
    BY <2>1, <2>2, <2>3, <2>4, <2>5, <2>6, <2>7, <2>9, <2>10, <2>11, <2>12, <2>14, <2>15,
       <2>16, <2>17, <2>18
       DEF Next, Merging
<1>3. QED BY <1>1, <1>2, PTL DEF Spec

-----------------------------------------------------------------------------
(* The lock, and what a merge still has to delete.                         *)

Busy == {"merging", "merged", "saving"}

\* A connection that is not merging has nothing to delete, and one that is has
\* only cookies it began with and has no longer.
DeletedOK ==
  \A c \in Conns :
    /\ conn[c] \in {"unborn", "open", "closed"} => deleted[c] = {}
    /\ \A k \in deleted[c] : initial[c][k] # NoCookie /\ jar[c][k] = NoCookie

\* Where a connection has not touched a key, it still has the cookie it began
\* with, unless that has expired.
Untouched ==
  \A c \in Conns : \A k \in Keys \ touched[c] :
    jar[c][k] = initial[c][k] \/ Outlived(c, k)

MergeInv == LockExact /\ DeletedOK /\ Untouched

LEMMA LockStep == TypeOK /\ LockExact /\ [Next]_vars => LockExact'
<1> SUFFICES ASSUME TypeOK, LockExact, [Next]_vars PROVE LockExact'
  OBVIOUS
<1>t. conn \in [Conns -> ConnStates] /\ Nobody \notin Conns
  BY Apart DEF TypeOK, ConnStates
<1> USE DEF LockExact
<1>1. ASSUME NEW c \in Conns, LockPersistence(c) PROVE LockExact'
  BY <1>1, <1>t DEF LockPersistence, LockFree
<1>2. ASSUME NEW c \in Conns, ThreadSaved(c) PROVE LockExact'
  BY <1>2, <1>t DEF ThreadSaved
<1>3. ASSUME NEW c \in Conns, MergeSets(c) \/ ThreadSave(c) PROVE LockExact'
  BY <1>3, <1>t DEF MergeSets, ThreadSave
<1>4. ASSUME NEW c \in Conns, Open(c) \/ Close(c) PROVE LockExact'
  BY <1>4, <1>t DEF Open, Close
<1>5. ASSUME NEW c \in Conns, NEW k \in Keys,
             \/ MergeDelete(c, k) \/ DeleteCookie(c, k)
             \/ \E expires \in Expiries : SetCookie(c, k, expires)
      PROVE  LockExact'
  BY <1>5 DEF MergeDelete, DeleteCookie, SetCookie, Change
<1>6. CASE MainSaved \/ Crash
  <2>1. lock' = Nobody /\ \A c \in Conns : conn'[c] \in {"unborn", "done"}
    BY <1>6 DEF MainSaved, Crash, Down
  <2>2. QED BY <2>1, <1>t
<1>7. CASE DrainEnds \/ MainSave \/ Boot \/ Tick \/ UNCHANGED vars
  BY <1>7 DEF DrainEnds, MainSave, Boot, Tick
<1>8. QED BY <1>1, <1>2, <1>3, <1>4, <1>5, <1>6, <1>7 DEF Next, Merging

LEMMA DeletedStep == TypeOK /\ DeletedOK /\ [Next]_vars => DeletedOK'
<1> SUFFICES ASSUME TypeOK, DeletedOK, [Next]_vars PROVE DeletedOK'
  OBVIOUS
<1>t. /\ conn \in [Conns -> ConnStates] /\ deleted \in [Conns -> SUBSET Keys]
      /\ jar \in [Conns -> Jars] /\ initial \in [Conns -> Jars]
  BY DEF TypeOK, ConnStates
<1> USE DEF DeletedOK
<1>1. ASSUME NEW c \in Conns, LockPersistence(c) PROVE DeletedOK'
  <2>1. \A k \in Keys : Live(jar[c])[k] = Live(jar[c])[k] /\ k \in Gone(c, Live(jar[c])) =>
           initial[c][k] # NoCookie /\ Live(jar[c])[k] = NoCookie
    BY DEF Gone
  <2>2. /\ jar' = [jar EXCEPT ![c] = Live(jar[c])] /\ initial' = initial
        /\ deleted' = [deleted EXCEPT ![c] = Gone(c, Live(jar[c]))]
        /\ conn' = [conn EXCEPT ![c] = "merging"]
    BY <1>1 DEF LockPersistence
  <2>3. Gone(c, Live(jar[c])) \subseteq Keys
    BY DEF Gone
  <2>4. QED BY <1>t, <2>1, <2>2, <2>3
<1>2. ASSUME NEW c \in Conns, Open(c) PROVE DeletedOK'
  <2>1. deleted[c] = {} /\ deleted' = deleted
    BY <1>2 DEF Open
  <2>2. \A d \in Conns \ {c} : jar'[d] = jar[d] /\ initial'[d] = initial[d] /\ conn'[d] = conn[d]
    BY <1>2, <1>t DEF Open
  <2>3. QED BY <2>1, <2>2
<1>3. ASSUME NEW c \in Conns, NEW k \in Keys,
             DeleteCookie(c, k) \/ \E expires \in Expiries : SetCookie(c, k, expires)
      PROVE  DeletedOK'
  <2>1. deleted[c] = {} /\ UNCHANGED <<deleted, conn, initial>>
    BY <1>3 DEF DeleteCookie, SetCookie, Change
  <2>2. \A d \in Conns \ {c} : jar'[d] = jar[d]
    BY <1>3, <1>t DEF DeleteCookie, SetCookie, Change
  <2>3. QED BY <2>1, <2>2
<1>4. ASSUME NEW c \in Conns, NEW k \in Keys, MergeDelete(c, k) PROVE DeletedOK'
  BY <1>4, <1>t DEF MergeDelete
<1>5. ASSUME NEW c \in Conns, Close(c) \/ MergeSets(c) \/ ThreadSave(c) \/ ThreadSaved(c)
      PROVE  DeletedOK'
  BY <1>5, <1>t DEF Close, MergeSets, ThreadSave, ThreadSaved
<1>6. CASE MainSaved \/ Crash
  <2>1. \A c \in Conns : deleted'[c] = {}
    BY <1>6 DEF MainSaved, Crash, Down
  <2>2. QED BY <2>1
<1>7. CASE DrainEnds \/ MainSave \/ Boot \/ Tick \/ UNCHANGED vars
  BY <1>7 DEF DrainEnds, MainSave, Boot, Tick
<1>8. QED BY <1>1, <1>2, <1>3, <1>4, <1>5, <1>6, <1>7 DEF Next, Merging

LEMMA UntouchedStep == TypeOK /\ Untouched /\ [Next]_vars => Untouched'
<1> SUFFICES ASSUME TypeOK, Untouched, [Next]_vars PROVE Untouched'
  OBVIOUS
<1>t. /\ touched \in [Conns -> SUBSET Keys] /\ clock \in Int
      /\ jar \in [Conns -> Jars] /\ initial \in [Conns -> Jars]
  BY DEF TypeOK
<1> USE DEF Untouched, Outlived
<1>1. ASSUME NEW c \in Conns, LockPersistence(c) PROVE Untouched'
  <2>1. /\ jar' = [jar EXCEPT ![c] = Live(jar[c])] /\ UNCHANGED <<initial, touched, clock>>
    BY <1>1 DEF LockPersistence
  <2>2. \A k \in Keys : \/ Live(jar[c])[k] = jar[c][k]
                        \/ jar[c][k] # NoCookie /\ Expired(jar[c][k])
    BY DEF Live
  <2>3. QED BY <1>t, <2>1, <2>2 DEF Expired
<1>2. ASSUME NEW c \in Conns, Open(c) PROVE Untouched'
  <2>1. /\ jar' = [jar EXCEPT ![c] = Live(template)]
        /\ initial' = [initial EXCEPT ![c] = Live(template)] /\ UNCHANGED <<touched, clock>>
    BY <1>2 DEF Open, Source
  <2>2. QED BY <1>t, <2>1 DEF Expired
<1>3. ASSUME NEW c \in Conns, NEW k \in Keys,
             DeleteCookie(c, k) \/ \E expires \in Expiries : SetCookie(c, k, expires)
      PROVE  Untouched'
  <2>1. PICK cookie : Change(c, k, cookie)
    BY <1>3 DEF DeleteCookie, SetCookie
  <2>2. /\ jar' = [jar EXCEPT ![c] = [jar[c] EXCEPT ![k] = cookie]]
        /\ touched' = [touched EXCEPT ![c] = touched[c] \cup {k}] /\ UNCHANGED <<initial, clock>>
    BY <2>1 DEF Change
  <2>3. \A l \in Keys \ {k} : jar'[c][l] = jar[c][l]
    BY <1>t, <2>2 DEF Jars
  <2>4. \A d \in Conns \ {c} : jar'[d] = jar[d] /\ touched'[d] = touched[d]
    BY <1>t, <2>2
  <2>5. touched'[c] = touched[c] \cup {k}
    BY <1>t, <2>2
  <2>6. QED BY <2>2, <2>3, <2>4, <2>5 DEF Expired
<1>4. ASSUME NEW c \in Conns,
             \/ Close(c) \/ Merging(c) \/ ThreadSave(c) \/ ThreadSaved(c)
      PROVE  Untouched'
  BY <1>4 DEF Close, Merging, MergeDelete, MergeSets, ThreadSave, ThreadSaved, Expired
<1>5. CASE MainSaved \/ Crash
  <2>1. \A c \in Conns : jar'[c] = initial'[c]
    BY <1>5 DEF MainSaved, Crash, Down
  <2>2. QED BY <2>1
<1>6. CASE Tick
  <2>1. clock' = clock + 1 /\ UNCHANGED <<jar, initial, touched>>
    BY <1>6 DEF Tick
  <2>2. \A c \in Conns, k \in Keys : Expired(initial[c][k]) => Expired(initial[c][k])'
    BY <1>t, <2>1, ExpiryIsFinal DEF Expired
  <2>3. QED BY <2>1, <2>2
<1>7. CASE DrainEnds \/ MainSave \/ Boot \/ UNCHANGED vars
  BY <1>7 DEF DrainEnds, MainSave, Boot, Expired
<1>8. QED BY <1>1, <1>2, <1>3, <1>4, <1>5, <1>6, <1>7 DEF Next

\* The three conjuncts together: what every later theorem starts from.
THEOREM MergeInvariant == Spec => []MergeInv
<1>1. Init => MergeInv
  BY Apart DEF Init, MergeInv, LockExact, DeletedOK, Untouched
<1>2. TypeOK /\ MergeInv /\ [Next]_vars => MergeInv'
  BY LockStep, DeletedStep, UntouchedStep DEF MergeInv
<1>3. QED BY <1>1, <1>2, Typing, PTL DEF Spec

\* The persistence lock is held by exactly the connection that merges or saves.
THEOREM LockHolder == Spec => []LockExact
<1>1. MergeInv => LockExact
  BY DEF MergeInv
<1>2. QED BY <1>1, MergeInvariant, PTL

\* A merge leaves alone every key its connection did not touch, except one
\* under which it began with a cookie that has expired since (merge_cookie_delta).
THEOREM MergeKeepsOthers == Spec => OthersKept
<1> DEFINE Kept == \A c \in Conns : Merging(c) =>
                 \A k \in Keys \ touched[c] :
                   Outlived(c, k) \/ persist'[k] = persist[k]
<1>1. TypeOK /\ MergeInv /\ [Next]_vars => [Kept]_vars
  <2> SUFFICES ASSUME TypeOK, MergeInv, NEW c \in Conns, Merging(c),
                      NEW k \in Keys \ touched[c], ~Outlived(c, k)
               PROVE  persist'[k] = persist[k]
    OBVIOUS
  <2>1. jar[c][k] = initial[c][k] /\ persist \in [Keys -> Cookies \cup {NoCookie}]
    BY DEF MergeInv, Untouched, TypeOK, Jars
  <2>2. ASSUME NEW l \in Keys, MergeDelete(c, l) PROVE persist'[k] = persist[k]
    <3>1. persist' = [persist EXCEPT ![l] = NoCookie] /\ l # k
      BY <2>1, <2>2 DEF MergeDelete, MergeInv, DeletedOK
    <3>2. QED BY <2>1, <3>1
  <2>3. ASSUME MergeSets(c) PROVE persist'[k] = persist[k]
    <3>1. k \notin Changed(c)
      BY <2>1 DEF Changed
    <3>2. QED BY <2>3, <3>1 DEF MergeSets
  <2>4. QED BY <2>2, <2>3 DEF Merging
<1>2. QED BY <1>1, Typing, MergeInvariant, PTL DEF Spec, OthersKept

-----------------------------------------------------------------------------
(* Isolation.                                                              *)

DownIsEmpty == main = "down" => \A c \in Conns, k \in Keys : jar[c][k] = NoCookie

\* A connection never has another live connection's cookies: what it has is
\* its own or the startup snapshot's.
THEOREM JarsIsolated == Spec => []Isolated
<1>1. Init => DownIsEmpty /\ Isolated
  BY EmptyJar DEF Init, DownIsEmpty, Isolated
<1>2. TypeOK /\ DownIsEmpty /\ Isolated /\ [Next]_vars => DownIsEmpty' /\ Isolated'
  <2> SUFFICES ASSUME TypeOK, DownIsEmpty, Isolated, [Next]_vars
               PROVE  DownIsEmpty' /\ Isolated'
    OBVIOUS
  <2>t. jar \in [Conns -> Jars]
    BY DEF TypeOK
  <2> USE DEF DownIsEmpty, Isolated
  <2>1. ASSUME NEW c \in Conns, Open(c) PROVE DownIsEmpty' /\ Isolated'
    <3>1. jar' = [jar EXCEPT ![c] = Live(template)] /\ UNCHANGED <<template, main>> /\ main = "up"
      BY <2>1 DEF Open, Source
    <3>2. \A k \in Keys : Live(template)[k] # NoCookie => Live(template)[k] = template[k]
      BY DEF Live
    <3>3. QED BY <2>t, <3>1, <3>2
  <2>2. ASSUME NEW c \in Conns, LockPersistence(c) PROVE DownIsEmpty' /\ Isolated'
    <3>1. jar' = [jar EXCEPT ![c] = Live(jar[c])] /\ UNCHANGED <<template, main>> /\ main # "down"
      BY <2>2 DEF LockPersistence
    <3>2. \A k \in Keys : Live(jar[c])[k] # NoCookie => Live(jar[c])[k] = jar[c][k]
      BY DEF Live
    <3>3. QED BY <2>t, <3>1, <3>2
  <2>3. ASSUME NEW c \in Conns, NEW k \in Keys,
               DeleteCookie(c, k) \/ \E expires \in Expiries : SetCookie(c, k, expires)
        PROVE  DownIsEmpty' /\ Isolated'
    <3>1. PICK cookie : Change(c, k, cookie) /\ (cookie = NoCookie \/ cookie.by = c)
      <4>1. CASE DeleteCookie(c, k)
        BY <4>1 DEF DeleteCookie
      <4>2. CASE \E expires \in Expiries : SetCookie(c, k, expires)
        <5>1. PICK expires \in Expiries : Change(c, k, [by |-> c, expires |-> expires])
          BY <4>2 DEF SetCookie
        <5>2. [by |-> c, expires |-> expires].by = c
          OBVIOUS
        <5>3. QED BY <5>1, <5>2
      <4>3. QED BY <2>3, <4>1, <4>2
    <3>2. /\ jar' = [jar EXCEPT ![c] = [jar[c] EXCEPT ![k] = cookie]]
          /\ UNCHANGED <<template, main>> /\ main # "down"
      BY <3>1 DEF Change
    <3>3. /\ \A l \in Keys \ {k} : jar'[c][l] = jar[c][l]
          /\ jar'[c][k] = cookie
          /\ \A d \in Conns \ {c} : jar'[d] = jar[d]
      <4>1. \A d \in Conns \ {c} : jar'[d] = jar[d]
        BY <2>t, <3>2
      <4>2. jar'[c] = [jar[c] EXCEPT ![k] = cookie] /\ jar[c] \in Jars
        BY <2>t, <3>2
      <4>3. QED BY <4>1, <4>2 DEF Jars
    <3>4. QED BY <3>1, <3>2, <3>3
  <2>4. CASE MainSaved \/ Crash
    <3>1. \A c \in Conns, k \in Keys : jar'[c][k] = NoCookie
      BY <2>4, EmptyJar DEF MainSaved, Crash, Down
    <3>2. QED BY <3>1
  <2>5. CASE Boot
    BY <2>5 DEF Boot
  <2>6. ASSUME NEW c \in Conns,
               \/ Close(c) \/ Merging(c) \/ ThreadSave(c) \/ ThreadSaved(c)
        PROVE  DownIsEmpty' /\ Isolated'
    BY <2>6 DEF Close, Merging, MergeDelete, MergeSets, ThreadSave, ThreadSaved
  <2>7. CASE DrainEnds \/ MainSave \/ Tick \/ UNCHANGED vars
    BY <2>7 DEF DrainEnds, MainSave, Tick
  <2>8. QED BY <2>1, <2>2, <2>3, <2>4, <2>5, <2>6, <2>7 DEF Next
<1>3. QED BY <1>1, <1>2, Typing, PTL DEF Spec

-----------------------------------------------------------------------------
(* The file.                                                               *)

\* Two cookies that no reader can tell apart.
Same(x, y) == x = y \/ (Expired(x) /\ Expired(y))

LEMMA SameIsLive ==
  ASSUME NEW i, NEW j, \A k \in Keys : Same(i[k], j[k])
  PROVE  Live(i) = Live(j)
BY DEF Live, Same

LEMMA LiveIsSame == ASSUME clock \in Nat, NEW j, NEW k \in Keys PROVE Same(Live(j)[k], j[k])
BY DEF Live, Same, Expired, NoCookie

\* A saver's list is the persistence jar as long as it holds the read lock, and
\* the file is the jar whenever no merge is under way and no save has failed.
SaveInv ==
  /\ \A s \in savers, k \in Keys : Same(snapshot[s][k], persist[k])
  /\ main # "down" /\ lock = Nobody /\ ~unsaved => \A k \in Keys : Same(disk[k], persist[k])
  /\ main = "down" => savers = {}
  /\ main = "saving" => Main \in savers
  /\ \A c \in Conns : conn[c] = "saving" => c \in savers

LEMMA SaveStep == TypeOK /\ LockExact /\ SaveInv /\ [Next]_vars => SaveInv'
<1> SUFFICES ASSUME TypeOK, LockExact, SaveInv, [Next]_vars PROVE SaveInv'
  OBVIOUS
<1>t. /\ conn \in [Conns -> ConnStates] /\ clock \in Nat
      /\ snapshot \in [Conns \cup {Main} -> Jars] /\ savers \subseteq Conns \cup {Main}
      /\ persist \in Jars /\ disk \in Jars
      /\ Main \notin Conns /\ Nobody \notin Conns
  BY Apart DEF TypeOK, ConnStates
<1> USE DEF SaveInv
<1>1. ASSUME NEW c \in Conns, Merging(c) PROVE SaveInv'
  <2>1. savers = {} /\ lock = c /\ main # "down"
    BY <1>1 DEF Merging, MergeDelete, MergeSets, JarWritable, LockExact
  <2>2. UNCHANGED <<savers, lock, main>>
    BY <1>1 DEF Merging, MergeDelete, MergeSets
  <2>3. \A d \in Conns : conn'[d] = "saving" => conn[d] = "saving"
    BY <1>1, <1>t DEF Merging, MergeDelete, MergeSets
  <2>4. QED BY <1>t, <2>1, <2>2, <2>3
<1>2. ASSUME NEW c \in Conns, ThreadSave(c) PROVE SaveInv'
  <2>1. /\ savers' = savers \cup {c} /\ snapshot' = [snapshot EXCEPT ![c] = Live(persist)]
        /\ UNCHANGED <<disk, persist, lock, main, unsaved, clock>> /\ main # "down"
        /\ conn' = [conn EXCEPT ![c] = "saving"]
    BY <1>2 DEF ThreadSave, BeginSave
  <2>2. \A k \in Keys : Same(snapshot'[c][k], persist[k])
    BY <1>t, <2>1, LiveIsSame
  <2>3. \A s \in savers \ {c} : snapshot'[s] = snapshot[s]
    BY <1>t, <2>1
  <2>4. QED BY <1>t, <2>1, <2>2, <2>3 DEF Same, Expired
<1>3. ASSUME NEW c \in Conns, ThreadSaved(c) PROVE SaveInv'
  <2>1. /\ savers' = savers \ {c} /\ snapshot' = [snapshot EXCEPT ![c] = Empty]
        /\ UNCHANGED <<persist, main, clock>> /\ main # "down" /\ conn[c] = "saving"
        /\ conn' = [conn EXCEPT ![c] = "done"]
        /\ disk' = snapshot[c] \/ unsaved' = TRUE
    BY <1>3 DEF ThreadSaved, EndSave
  <2>2. \A s \in savers' : snapshot'[s] = snapshot[s]
    BY <1>t, <2>1
  <2>3. ~unsaved' => \A k \in Keys : Same(disk'[k], persist[k])
    BY <2>1
  <2>4. \A d \in Conns : conn'[d] = "saving" => d # c /\ conn[d] = "saving"
    BY <1>t, <2>1 DEF ConnStates
  <2>5. QED BY <1>t, <2>1, <2>2, <2>3, <2>4 DEF Same, Expired
<1>4. CASE MainSave
  <2>1. /\ savers' = savers \cup {Main} /\ snapshot' = [snapshot EXCEPT ![Main] = Live(persist)]
        /\ UNCHANGED <<disk, persist, lock, unsaved, clock, conn>>
        /\ main = "drained" /\ main' = "saving"
    BY <1>4 DEF MainSave, BeginSave
  <2>2. \A k \in Keys : Same(snapshot'[Main][k], persist[k])
    BY <1>t, <2>1, LiveIsSame
  <2>3. \A s \in savers \ {Main} : snapshot'[s] = snapshot[s]
    BY <1>t, <2>1
  <2>4. QED BY <1>t, <2>1, <2>2, <2>3 DEF Same, Expired
<1>5. CASE MainSaved \/ Crash
  <2>1. savers' = {} /\ main' = "down" /\ \A c \in Conns : conn'[c] \in {"unborn", "done"}
    BY <1>5 DEF MainSaved, Crash, Down
  <2>2. QED BY <2>1
<1>6. CASE Boot
  <2>1. /\ persist' = Live(disk) /\ main = "down" /\ main' = "up"
        /\ UNCHANGED <<disk, savers, conn, clock>>
    BY <1>6 DEF Boot
  <2>2. \A k \in Keys : Same(disk[k], Live(disk)[k])
    BY <1>t, LiveIsSame DEF Same
  <2>3. QED BY <2>1, <2>2 DEF Same, Expired
<1>7. CASE Tick
  <2>1. /\ clock' = clock + 1
        /\ UNCHANGED <<disk, persist, savers, snapshot, main, lock, unsaved, conn>>
    BY <1>7 DEF Tick
  <2>2. ASSUME NEW i \in Jars, NEW j \in Jars, NEW k \in Keys, Same(i[k], j[k])
        PROVE  i[k] = j[k] \/ (i[k].expires <= clock' /\ j[k].expires <= clock')
    BY <1>t, <2>1, <2>2, ExpiryIsFinal DEF Same
  <2>3. \A s \in savers, k \in Keys : Same(snapshot[s][k], persist[k])'
    BY <1>t, <2>1, <2>2 DEF Same, Expired
  <2>4. main # "down" /\ lock = Nobody /\ ~unsaved => \A k \in Keys : Same(disk[k], persist[k])'
    BY <1>t, <2>1, <2>2 DEF Same, Expired
  <2>5. QED BY <2>1, <2>3, <2>4
<1>8. ASSUME NEW c \in Conns,
             \/ Open(c) \/ Close(c) \/ LockPersistence(c)
             \/ \E k \in Keys :
                  DeleteCookie(c, k) \/ \E expires \in Expiries : SetCookie(c, k, expires)
      PROVE  SaveInv'
  <2>1. /\ UNCHANGED <<clock, disk, persist, snapshot, savers, main, unsaved>>
        /\ lock' = lock \/ lock' = c
    BY <1>8 DEF Open, Close, LockPersistence, DeleteCookie, SetCookie, Change
  <2>2. \A d \in Conns : conn'[d] = "saving" => conn[d] = "saving"
    BY <1>8, <1>t DEF Open, Close, LockPersistence, DeleteCookie, SetCookie, Change
  <2>3. QED BY <1>t, <2>1, <2>2 DEF Same, Expired
<1>9. CASE DrainEnds \/ UNCHANGED vars
  BY <1>9 DEF DrainEnds, Same, Expired
<1>10. QED BY <1>1, <1>2, <1>3, <1>4, <1>5, <1>6, <1>7, <1>8, <1>9 DEF Next

THEOREM SaveInvariant == Spec => []SaveInv
<1>1. Init => SaveInv
  BY DEF Init, SaveInv
<1>2. TypeOK /\ LockExact /\ SaveInv /\ [Next]_vars => SaveInv'
  BY SaveStep
<1>3. QED BY <1>1, <1>2, Typing, LockHolder, PTL DEF Spec

\* With no merge or save under way and none failed, a crash loses nothing that
\* has been merged.
THEOREM CrashLosesNothing == Spec => []DiskFollowsJar
<1>1. SaveInv => DiskFollowsJar
  BY SameIsLive DEF SaveInv, DiskFollowsJar
<1>2. QED BY <1>1, SaveInvariant, PTL

\* Every rename, the unlocked final save's included, writes the persistence jar
\* as it is at that moment.
THEOREM RenamesAreCurrent == Spec => WritesCurrentJar
<1>1. SaveInv /\ [Next]_vars => [disk' # disk => Live(disk') = Live(persist)]_vars
  <2> SUFFICES ASSUME SaveInv, Next, disk' # disk PROVE Live(disk') = Live(persist)
    OBVIOUS
  <2>1. PICK s \in savers : disk' = snapshot[s]
    <3>1. (\E c \in Conns : ThreadSaved(c)) \/ MainSaved
      BY DEF Next, Open, Close, LockPersistence, Merging, MergeDelete, MergeSets, ThreadSave,
             DeleteCookie, SetCookie, Change, DrainEnds, MainSave, Crash, Boot, Tick
    <3>2. QED BY <3>1 DEF ThreadSaved, EndSave, MainSaved, SaveInv
  <2>2. \A k \in Keys : Same(disk'[k], persist[k])
    BY <2>1 DEF SaveInv
  <2>3. QED BY <2>2, SameIsLive
<1>2. QED BY <1>1, SaveInvariant, PTL DEF Spec, WritesCurrentJar

-----------------------------------------------------------------------------
(* What a connection changed is persisted.                                 *)

\* While a merge runs, what is to be deleted is deleted or still listed; after
\* its sets, every key has what the connection ended with, or the connection
\* ended with what it began with.
ResultInv ==
  /\ \A c \in Conns : conn[c] = "merging" =>
       \A k \in Keys : initial[c][k] # NoCookie /\ jar[c][k] = NoCookie =>
         k \in deleted[c] \/ persist[k] = NoCookie
  /\ \A c \in Conns : conn[c] \in {"merged", "saving"} =>
       \A k \in Keys : Same(persist[k], jar[c][k]) \/ Same(initial[c][k], jar[c][k])
  /\ main = "down" => \A c \in Conns : conn[c] \in {"unborn", "done"}

LEMMA ResultStep == TypeOK /\ LockExact /\ ResultInv /\ [Next]_vars => ResultInv'
<1> SUFFICES ASSUME TypeOK, LockExact, ResultInv, [Next]_vars PROVE ResultInv'
  OBVIOUS
<1>t. /\ conn \in [Conns -> ConnStates] /\ clock \in Nat
      /\ jar \in [Conns -> Jars] /\ initial \in [Conns -> Jars] /\ persist \in Jars
      /\ deleted \in [Conns -> SUBSET Keys]
  BY Apart DEF TypeOK, ConnStates
<1> USE DEF ResultInv
<1>1. ASSUME NEW c \in Conns, LockPersistence(c) PROVE ResultInv'
  <2>1. /\ jar' = [jar EXCEPT ![c] = Live(jar[c])] /\ UNCHANGED <<initial, persist, clock, main>>
        /\ deleted' = [deleted EXCEPT ![c] = Gone(c, Live(jar[c]))]
        /\ conn' = [conn EXCEPT ![c] = "merging"] /\ main # "down"
    BY <1>1 DEF LockPersistence
  <2>2. \A k \in Keys : initial[c][k] # NoCookie /\ Live(jar[c])[k] = NoCookie => k \in deleted'[c]
    BY <1>t, <2>1 DEF Gone
  <2>3. \A d \in Conns \ {c} : conn'[d] = conn[d] /\ jar'[d] = jar[d] /\ deleted'[d] = deleted[d]
    BY <1>t, <2>1
  <2>4. conn'[c] = "merging" /\ jar'[c] = Live(jar[c])
    BY <1>t, <2>1
  <2>5. QED BY <2>1, <2>2, <2>3, <2>4 DEF Same, Expired
<1>2. ASSUME NEW c \in Conns, NEW l \in Keys, MergeDelete(c, l) PROVE ResultInv'
  <2>1. /\ persist' = [persist EXCEPT ![l] = NoCookie] /\ conn[c] = "merging"
        /\ deleted' = [deleted EXCEPT ![c] = deleted[c] \ {l}]
        /\ UNCHANGED <<conn, jar, initial, main>> /\ main # "down"
    BY <1>2 DEF MergeDelete
  <2>2. \A d \in Conns \ {c} : conn[d] \notin Busy
    BY <2>1 DEF LockExact, Busy
  <2>3. \A k \in Keys : persist'[k] = persist[k] \/ persist'[k] = NoCookie
    BY <1>t, <2>1 DEF Jars
  <2>4. persist'[l] = NoCookie /\ \A k \in deleted[c] : k \in deleted'[c] \/ k = l
    BY <1>t, <2>1 DEF Jars
  <2>5. QED BY <2>1, <2>2, <2>3, <2>4 DEF Busy
<1>3. ASSUME NEW c \in Conns, MergeSets(c) PROVE ResultInv'
  <2>1. /\ persist' = [k \in Keys |-> IF k \in Changed(c) THEN Live(jar[c])[k] ELSE persist[k]]
        /\ conn[c] = "merging" /\ deleted[c] = {} /\ conn' = [conn EXCEPT ![c] = "merged"]
        /\ UNCHANGED <<jar, initial, deleted, main, clock>> /\ main # "down"
    BY <1>3 DEF MergeSets
  <2>2. \A d \in Conns \ {c} : conn'[d] = conn[d] /\ conn[d] \notin Busy
    BY <1>t, <2>1 DEF LockExact, Busy
  <2>3. ASSUME NEW k \in Keys
        PROVE  Same(persist'[k], jar[c][k]) \/ Same(initial[c][k], jar[c][k])
    <3>1. CASE k \in Changed(c)
      <4>1. persist'[k] = Live(jar[c])[k]
        BY <2>1, <3>1
      <4>2. QED BY <1>t, <4>1, LiveIsSame
    <3>2. CASE k \notin Changed(c) /\ jar[c][k] # NoCookie
      BY <3>2 DEF Changed, Same
    <3>3. CASE jar[c][k] = NoCookie
      <4>1. persist'[k] = persist[k]
        BY <2>1, <3>3 DEF Changed
      <4>2. initial[c][k] = NoCookie \/ persist[k] = NoCookie
        BY <2>1, <3>3
      <4>3. QED BY <3>3, <4>1, <4>2 DEF Same
    <3>4. QED BY <3>1, <3>2, <3>3
  <2>4. conn'[c] = "merged"
    BY <1>t, <2>1
  <2>5. QED BY <2>1, <2>2, <2>3, <2>4 DEF Busy, Same, Expired
<1>4. ASSUME NEW c \in Conns, ThreadSave(c) \/ ThreadSaved(c) \/ Close(c) PROVE ResultInv'
  <2>1. /\ UNCHANGED <<clock, persist, jar, initial, deleted, main>> /\ main # "down"
        /\ \A d \in Conns \ {c} : conn'[d] = conn[d]
        /\ \/ conn[c] = "merged" /\ conn'[c] = "saving"
           \/ conn'[c] \in {"done", "closed"}
    BY <1>4, <1>t DEF ThreadSave, ThreadSaved, Close
  <2>2. QED BY <2>1 DEF Same, Expired
<1>5. ASSUME NEW c \in Conns,
             \/ Open(c)
             \/ \E k \in Keys :
                  DeleteCookie(c, k) \/ \E expires \in Expiries : SetCookie(c, k, expires)
      PROVE  ResultInv'
  <2>1. /\ UNCHANGED <<clock, persist, deleted, main>> /\ main # "down"
        /\ conn'[c] = "open"
        /\ \A d \in Conns \ {c} : conn'[d] = conn[d] /\ jar'[d] = jar[d] /\ initial'[d] = initial[d]
    BY <1>5, <1>t DEF Open, DeleteCookie, SetCookie, Change
  <2>2. QED BY <2>1 DEF Same, Expired
<1>6. CASE MainSaved \/ Crash
  <2>1. \A c \in Conns : conn'[c] \in {"unborn", "done"}
    BY <1>6 DEF MainSaved, Crash, Down
  <2>2. QED BY <2>1
<1>7. CASE Boot
  <2>1. UNCHANGED conn /\ \A c \in Conns : conn[c] \in {"unborn", "done"}
    BY <1>7 DEF Boot
  <2>2. QED BY <2>1
<1>8. CASE Tick
  <2>1. clock' = clock + 1 /\ UNCHANGED <<persist, jar, initial, deleted, conn, main>>
    BY <1>8 DEF Tick
  <2>2. ASSUME NEW i \in Jars, NEW j \in Jars, NEW k \in Keys, Same(i[k], j[k])
        PROVE  i[k] = j[k] \/ (i[k].expires <= clock' /\ j[k].expires <= clock')
    BY <1>t, <2>1, <2>2, ExpiryIsFinal DEF Same
  <2>3. ASSUME NEW c \in Conns, conn[c] \in {"merged", "saving"}, NEW k \in Keys
        PROVE  Same(persist[k], jar[c][k])' \/ Same(initial[c][k], jar[c][k])'
    <3>1. Same(persist[k], jar[c][k]) \/ Same(initial[c][k], jar[c][k])
      BY <2>3
    <3>2. QED BY <1>t, <2>1, <2>2, <3>1 DEF Same, Expired
  <2>4. QED BY <2>1, <2>3
<1>9. CASE DrainEnds \/ MainSave \/ UNCHANGED vars
  BY <1>9 DEF DrainEnds, MainSave, Same, Expired
<1>10. QED BY <1>1, <1>2, <1>3, <1>4, <1>5, <1>6, <1>7, <1>8, <1>9 DEF Next, Merging

\* What a connection set or deleted is in the persistence jar after its merge,
\* whoever merged in between.
THEOREM MergeKeepsChanges == Spec => []ChangesPersist
<1>1. Init => ResultInv
  BY DEF Init, ResultInv
<1>2. TypeOK /\ LockExact /\ ResultInv /\ [Next]_vars => ResultInv'
  BY ResultStep
<1>3. TypeOK /\ ResultInv => ChangesPersist
  <2> SUFFICES ASSUME TypeOK, ResultInv, NEW c \in Conns, conn[c] \in {"merged", "saving"},
                      NEW k \in touched[c]
               PROVE  \/ Live(persist)[k] = Live(jar[c])[k]
                      \/ Live(initial[c])[k] = Live(jar[c])[k]
    BY DEF ChangesPersist
  <2>1. k \in Keys
    BY DEF TypeOK
  <2>2. Same(persist[k], jar[c][k]) \/ Same(initial[c][k], jar[c][k])
    BY <2>1 DEF ResultInv
  <2>3. QED BY <2>1, <2>2 DEF Same, Live
<1>4. QED BY <1>1, <1>2, <1>3, Typing, LockHolder, PTL DEF Spec

-----------------------------------------------------------------------------
(* No half of a delta reaches the file.                                    *)

DrainInv == main \in {"drained", "saving"} /\ ~gaveUp =>
              \A c \in Conns : conn[c] \in {"unborn", "done"}

LEMMA DrainStep == TypeOK /\ DrainInv /\ [Next]_vars => DrainInv'
<1> SUFFICES ASSUME TypeOK, DrainInv, [Next]_vars PROVE DrainInv'
  OBVIOUS
<1>t. conn \in [Conns -> ConnStates]
  BY DEF TypeOK, ConnStates
<1> USE DEF DrainInv
<1>1. ASSUME NEW c \in Conns,
             \/ Open(c) \/ Close(c) \/ LockPersistence(c) \/ Merging(c)
             \/ ThreadSave(c) \/ ThreadSaved(c)
             \/ \E k \in Keys :
                  DeleteCookie(c, k) \/ \E expires \in Expiries : SetCookie(c, k, expires)
      PROVE  DrainInv'
  <2>1. UNCHANGED <<main, gaveUp>> /\ (main = "up" \/ conn[c] \notin {"unborn", "done"})
    BY <1>1 DEF Open, Close, LockPersistence, Merging, MergeDelete, MergeSets, ThreadSave,
                ThreadSaved, DeleteCookie, SetCookie, Change
  <2>2. QED BY <2>1
<1>2. CASE DrainEnds
  <2>1. main' = "drained" /\ UNCHANGED conn /\ (Drained \/ gaveUp' = TRUE)
    BY <1>2 DEF DrainEnds
  <2>2. QED BY <2>1 DEF Drained
<1>3. CASE MainSave
  BY <1>3 DEF MainSave
<1>4. CASE MainSaved \/ Crash \/ Boot
  <2>1. main' \in {"down", "up"}
    BY <1>4 DEF MainSaved, Crash, Down, Boot
  <2>2. QED BY <2>1
<1>5. CASE Tick \/ UNCHANGED vars
  BY <1>5 DEF Tick
<1>6. QED BY <1>1, <1>2, <1>3, <1>4, <1>5 DEF Next

\* Unless the drain gave up, the file does not change while a connection is
\* between the first delete and the sets of its merge.
THEOREM SavesAreWhole == Spec => NoTornSave
<1> DEFINE Whole == (\E c \in Conns : conn[c] = "merging") /\ main # "down" /\ ~gaveUp
                      => UNCHANGED disk
<1>1. Init => DrainInv
  BY DEF Init, DrainInv
<1>2. TypeOK /\ DrainInv /\ [Next]_vars => DrainInv'
  BY DrainStep
<1>3. LockExact /\ DrainInv /\ [Next]_vars => [Whole]_vars
  <2> SUFFICES ASSUME LockExact, DrainInv, Next, ~gaveUp,
                      NEW c \in Conns, conn[c] = "merging"
               PROVE  UNCHANGED disk
    OBVIOUS
  <2>1. \A d \in Conns : ~ThreadSaved(d)
    BY DEF LockExact, ThreadSaved
  <2>2. ~MainSaved
    BY DEF DrainInv, MainSaved
  <2>3. QED
    BY <2>1, <2>2
       DEF Next, Open, Close, LockPersistence, Merging, MergeDelete, MergeSets, ThreadSave,
           DeleteCookie, SetCookie, Change, DrainEnds, MainSave, Crash, Boot, Tick
<1>4. QED BY <1>1, <1>2, <1>3, Typing, LockHolder, PTL DEF Spec, NoTornSave

=============================================================================
