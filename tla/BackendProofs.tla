---------------------------- MODULE BackendProofs ----------------------------
(* Theorems about the parts of the desktop backend that stream, for any      *)
(* values of their constants: the files of the terminal panels, what a       *)
(* terminal panel shows of its session, the frames of the timeline poller,   *)
(* the exec sessions of SSH, and the five of them together.                  *)
EXTENDS MCBackend, RemoteTerminalsProofs

-----------------------------------------------------------------------------
(* The scrollback files of the terminal panels.                               *)

Recs == [for : Panels, alive : BOOLEAN, seq : 0..MaxOut]

(* The map is a function of numbers that this run has handed out.             *)
MapIs ==
  /\ sessions \in [DOMAIN sessions -> Recs]
  /\ \A i \in DOMAIN sessions : i < nextId

(* While nobody took another panel's session, a flusher's panel is closed, or *)
(* the manager knows its session as that panel's, and the panel has it for    *)
(* its own, or awaits it, or went away while it awaited one.                  *)
Mine(f) == waits[f.key] = f.id \/ (waits[f.key] = 0 /\ saved[f.key] = f.id)
Owner(f) ==
  /\ f.id \in DOMAIN sessions /\ sessions[f.id].for = f.key
  /\ f.key \in gaveUp \/ Mine(f)
Owned == crossed \/ \A f \in flushers : tab[f.key] = "closed" \/ Owner(f)

StoreInv == StoreTypeOK /\ MapIs /\ Owned /\ SoleOwner

LEMMA StoreInitKept ==
  ASSUME StoreInit
  PROVE  StoreInv
<1>0. sessions \in Seq(Recs) /\ Len(sessions) = 0 BY DEF StoreInit
<1>1. DOMAIN sessions = {} BY <1>0
<1>2. sessions \in [DOMAIN sessions -> Recs] BY <1>0, LenProperties
<1>3. StoreTypeOK
  <2>1. /\ nextId = 1 /\ saved = [p \in Panels |-> 0] /\ shows = [p \in Panels |-> 0]
        /\ tab = [p \in Panels |-> "new"] /\ enabled = TRUE /\ disk = [p \in Panels |-> FALSE]
        /\ flushers = {} /\ runs = 1 /\ crossed = FALSE
        /\ waits = [p \in Panels |-> 0] /\ gaveUp = {}
    BY DEF StoreInit
  <2>2. 1 \in 1..MaxRuns /\ 0 \in 0..MaxIds /\ 1 \in 1..MaxIds + 1 BY TerminalStoreAssumption
  <2>3. /\ saved \in [Panels -> 0..MaxIds] /\ shows \in [Panels -> 0..MaxIds]
        /\ waits \in [Panels -> 0..MaxIds]
    BY <2>1, <2>2
  <2>4. tab \in [Panels -> {"new", "open", "closed"}] /\ disk \in [Panels -> BOOLEAN] BY <2>1
  <2> QED BY <1>1, <2>1, <2>2, <2>3, <2>4 DEF StoreTypeOK
<1>4. flushers = {} BY DEF StoreInit
<1> QED BY <1>1, <1>2, <1>3, <1>4 DEF StoreInv, MapIs, Owned, SoleOwner

(* A step that leaves the map and the flushers alone.                         *)
LEMMA PanelKept ==
  ASSUME StoreInv, NEW p \in Panels,
         OpenPanel(p) \/ Attach(p) \/ Detach(p) \/ CreateAnswered(p)
  PROVE  StoreInv'
<1>1. UNCHANGED <<sessions, nextId, enabled, disk, flushers, runs>>
  BY DEF OpenPanel, Attach, Detach, CreateAnswered
<1>2. StoreTypeOK'
  <2>1. CASE OpenPanel(p) BY <2>1 DEF OpenPanel, StoreInv, StoreTypeOK
  <2>2. CASE Attach(p)
    <3>1. sessions[saved[p]].for \in Panels /\ saved[p] \in 0..MaxIds
      BY <2>2 DEF Attach, StoreInv, StoreTypeOK
    <3> QED BY <2>2, <3>1 DEF Attach, StoreInv, StoreTypeOK
  <2>3. CASE Detach(p)
    <3>1. gaveUp' \subseteq Panels BY <2>3 DEF Detach, GivesUp, StoreInv, StoreTypeOK
    <3> QED BY <2>3, <3>1, TerminalStoreAssumption DEF Detach, GivesUp, StoreInv, StoreTypeOK
  <2>4. CASE CreateAnswered(p)
    <3>1. waits[p] \in 0..MaxIds BY DEF StoreInv, StoreTypeOK
    <3> QED BY <2>4, <3>1, TerminalStoreAssumption DEF CreateAnswered, StoreInv, StoreTypeOK
  <2> QED BY <2>1, <2>2, <2>3, <2>4
<1>3. MapIs' BY <1>1 DEF StoreInv, MapIs
<1>4. (crossed => crossed') /\ gaveUp \subseteq gaveUp'
  <2>1. crossed => crossed' BY DEF OpenPanel, Attach, Detach, CreateAnswered
  <2>2. gaveUp' = gaveUp \cup {p} \/ gaveUp' = gaveUp
    BY DEF OpenPanel, Attach, Detach, CreateAnswered, GivesUp
  <2> QED BY <2>1, <2>2
<1>5. \A q \in Panels : tab[q] = "closed" => tab'[q] = "closed"
  BY DEF OpenPanel, Attach, Detach, CreateAnswered, StoreInv, StoreTypeOK
(* Whose the sessions are stays, but for a panel that goes away.              *)
<1>6. ASSUME NEW f \in flushers, f.key \in gaveUp \/ Mine(f) PROVE f.key \in gaveUp' \/ Mine(f)'
  <2>1. f.key \in Panels /\ f.id \in 1..MaxIds BY DEF StoreInv, StoreTypeOK
  <2>2. CASE OpenPanel(p) \/ Attach(p) BY <1>1, <1>4, <1>6, <2>2 DEF OpenPanel, Attach, Mine
  <2>3. CASE Detach(p)
    BY <1>1, <1>4, <1>6, <2>1, <2>3 DEF Detach, GivesUp, Mine, StoreInv, StoreTypeOK
  <2>4. CASE CreateAnswered(p)
    BY <1>1, <1>4, <1>6, <2>1, <2>4 DEF CreateAnswered, Mine, StoreInv, StoreTypeOK
  <2> QED BY <2>2, <2>3, <2>4
<1>7. Owned'
  <2>1. ASSUME ~crossed', NEW f \in flushers' PROVE tab'[f.key] = "closed" \/ Owner(f)'
    <3>1. tab[f.key] = "closed" \/ Owner(f) BY <1>1, <1>4, <2>1 DEF StoreInv, Owned
    <3>2. f.key \in Panels /\ f \in flushers BY <1>1, <2>1 DEF StoreInv, StoreTypeOK
    <3>3. CASE tab[f.key] = "closed" BY <1>5, <3>2, <3>3
    <3>4. CASE Owner(f) BY <1>1, <1>6, <3>2, <3>4 DEF Owner
    <3> QED BY <3>1, <3>3, <3>4
  <2> QED BY <2>1 DEF Owned
<1>8. SoleOwner' BY <1>1, <1>4 DEF StoreInv, SoleOwner
<1> QED BY <1>2, <1>3, <1>7, <1>8 DEF StoreInv

LEMMA CreateKept ==
  ASSUME StoreInv, NEW p \in Panels, Create(p)
  PROVE  StoreInv'
<1>1. /\ tab[p] = "open" /\ saved[p] \notin DOMAIN sessions /\ nextId \in 1..MaxIds
      /\ UNCHANGED <<tab, saved, shows, enabled, disk, runs, crossed, gaveUp>>
      /\ nextId' = nextId + 1 /\ waits[p] = 0 /\ waits' = [waits EXCEPT ![p] = nextId]
      /\ flushers' = IF enabled THEN flushers \cup {Flusher(nextId, p)} ELSE flushers
  BY TerminalStoreAssumption DEF Create, StoreInv, StoreTypeOK
<1>2. PICK s : s = [for |-> p, alive |-> TRUE, seq |-> 0] OBVIOUS
<1>3. s \in Recs /\ s.for = p BY <1>2, TerminalStoreAssumption DEF Recs
<1>4. sessions' = [j \in DOMAIN sessions \cup {nextId} |-> IF j = nextId THEN s ELSE sessions[j]]
  BY <1>2 DEF Create
<1>5. /\ DOMAIN sessions' = DOMAIN sessions \cup {nextId} /\ sessions'[nextId] = s
      /\ \A i \in DOMAIN sessions : i # nextId /\ sessions'[i] = sessions[i] /\ sessions[i] \in Recs
  BY <1>1, <1>4, TerminalStoreAssumption DEF StoreInv, MapIs
<1>6. MapIs'
  <2>1. \A i \in DOMAIN sessions' : sessions'[i] \in Recs BY <1>3, <1>5
  <2>2. sessions' \in [DOMAIN sessions' -> Recs] BY <1>4, <1>5, <2>1
  <2>3. \A i \in DOMAIN sessions : i < nextId /\ i \in Int BY DEF StoreInv, StoreTypeOK, MapIs
  <2> QED BY <1>1, <1>5, <2>2, <2>3, TerminalStoreAssumption DEF MapIs
<1>7. PICK n : n = Flusher(nextId, p) OBVIOUS
<1>8. n \in [id : 1..MaxIds, key : Panels, last : -1..MaxOut] /\ n.key = p /\ n.id = nextId
  BY <1>1, <1>7, TerminalStoreAssumption DEF Flusher
<1>9. \A f \in flushers' : f = n \/ f \in flushers BY <1>1, <1>7
<1>10. StoreTypeOK'
  <2>1. flushers' \subseteq [id : 1..MaxIds, key : Panels, last : -1..MaxOut]
    BY <1>8, <1>9 DEF StoreInv, StoreTypeOK
  <2>2. \A i \in DOMAIN sessions' : sessions'[i] \in Recs BY <1>3, <1>5
  <2>3. nextId' \in 1..MaxIds + 1 /\ DOMAIN sessions' \subseteq 1..MaxIds
    BY <1>1, <1>5, TerminalStoreAssumption DEF StoreInv, StoreTypeOK
  <2>4. waits' \in [Panels -> 0..MaxIds]
    BY <1>1, TerminalStoreAssumption DEF StoreInv, StoreTypeOK
  <2> QED BY <1>1, <2>1, <2>2, <2>3, <2>4 DEF StoreInv, StoreTypeOK, Recs
(* A panel that makes a session has no flusher yet, unless it gave up on one. *)
<1>11. ASSUME ~crossed, NEW f \in flushers, p \notin gaveUp PROVE f.key # p
  <2>1. tab[f.key] = "closed" \/ Owner(f) BY <1>11 DEF StoreInv, Owned
  <2>2. f.id # 0 /\ f.id \in Int BY DEF StoreInv, StoreTypeOK
  <2> QED BY <1>1, <1>11, <2>1, <2>2 DEF Owner, Mine
<1>12. Owned'
  <2>1. ASSUME ~crossed', NEW f \in flushers' PROVE tab'[f.key] = "closed" \/ Owner(f)'
    <3>1. CASE f = n
      <4>1. waits'[p] = nextId BY <1>1 DEF StoreInv, StoreTypeOK
      <4> QED BY <1>1, <1>3, <1>5, <1>8, <3>1, <4>1 DEF Owner, Mine
    <3>2. CASE f \in flushers
      <4>1. tab[f.key] = "closed" \/ Owner(f) BY <1>1, <2>1, <3>2 DEF StoreInv, Owned
      <4>2. f.key \in Panels BY <1>1, <3>2 DEF StoreInv, StoreTypeOK
      <4>3. f.key # p => waits'[f.key] = waits[f.key] BY <1>1, <4>2 DEF StoreInv, StoreTypeOK
      <4>4. f.key # p \/ p \in gaveUp BY <1>1, <1>11, <2>1, <3>2
      <4> QED BY <1>1, <1>5, <4>1, <4>3, <4>4 DEF Owner, Mine
    <3> QED BY <1>9, <2>1, <3>1, <3>2
  <2> QED BY <2>1 DEF Owned
<1>13. SoleOwner'
  <2>1. ASSUME ~crossed', NEW f \in flushers', NEW g \in flushers',
              f.key = g.key, f.key \notin gaveUp'
       PROVE  f = g
    <3>1. CASE f = n \/ g = n BY <1>1, <1>8, <1>9, <1>11, <2>1, <3>1
    <3>2. CASE f \in flushers /\ g \in flushers BY <1>1, <2>1, <3>2 DEF StoreInv, SoleOwner
    <3> QED BY <1>9, <2>1, <3>1, <3>2
  <2> QED BY <2>1 DEF SoleOwner
<1> QED BY <1>6, <1>10, <1>12, <1>13 DEF StoreInv

LEMMA ClosePanelKept ==
  ASSUME StoreInv, NEW p \in Panels, ClosePanel(p)
  PROVE  StoreInv'
<1>1. /\ tab[p] = "open" /\ tab' = [tab EXCEPT ![p] = "closed"]
      /\ saved' = [saved EXCEPT ![p] = 0] /\ shows' = [shows EXCEPT ![p] = 0]
      /\ waits' = [waits EXCEPT ![p] = 0] /\ gaveUp \subseteq gaveUp' /\ gaveUp' \subseteq gaveUp \cup {p}
      /\ crossed' = (crossed \/ (saved[p] \in DOMAIN sessions /\ sessions[saved[p]].for # p))
      /\ UNCHANGED <<nextId, enabled, disk, flushers, runs>>
      /\ sessions' = [j \in DOMAIN sessions \ {saved[p]} |-> sessions[j]]
  BY DEF ClosePanel, GivesUp, Without
<1>2. /\ DOMAIN sessions' = DOMAIN sessions \ {saved[p]}
      /\ \A i \in DOMAIN sessions' : sessions'[i] = sessions[i] /\ sessions[i] \in Recs
  BY <1>1 DEF StoreInv, MapIs
<1>3. MapIs'
  <2>1. sessions' \in [DOMAIN sessions' -> Recs] BY <1>1, <1>2
  <2> QED BY <1>1, <1>2, <2>1 DEF MapIs, StoreInv
<1>4. StoreTypeOK'
  <2>1. 0 \in 0..MaxIds BY TerminalStoreAssumption
  <2> QED BY <1>1, <1>2, <2>1 DEF StoreInv, StoreTypeOK, Recs
<1>5. Owned'
  <2>1. ASSUME ~crossed', NEW f \in flushers' PROVE tab'[f.key] = "closed" \/ Owner(f)'
    <3>1. ~crossed /\ f \in flushers /\ f.key \in Panels BY <1>1, <2>1 DEF StoreInv, StoreTypeOK
    <3>2. tab[f.key] = "closed" \/ Owner(f) BY <3>1 DEF StoreInv, Owned
    <3>3. CASE f.key = p BY <1>1, <3>1, <3>3 DEF StoreInv, StoreTypeOK
    <3>4. CASE f.key # p
      <4>1. /\ tab'[f.key] = tab[f.key] /\ saved'[f.key] = saved[f.key]
            /\ waits'[f.key] = waits[f.key]
        BY <1>1, <3>1, <3>4 DEF StoreInv, StoreTypeOK
      <4>2. Owner(f) => f.id # saved[p] BY <1>1, <2>1, <3>4 DEF Owner
      <4> QED BY <1>1, <1>2, <3>2, <4>1, <4>2 DEF Owner, Mine
    <3> QED BY <3>3, <3>4
  <2> QED BY <2>1 DEF Owned
<1>6. SoleOwner' BY <1>1 DEF StoreInv, SoleOwner
<1> QED BY <1>3, <1>4, <1>5, <1>6 DEF StoreInv

LEMMA SessionKept ==
  ASSUME StoreInv, NEW i \in DOMAIN sessions, Output(i) \/ Dies(i)
  PROVE  StoreInv'
<1>1. UNCHANGED <<nextId, saved, shows, tab, enabled, disk, flushers, runs, waits, crossed, gaveUp>>
  BY DEF Output, Dies
<1>3. PICK r \in Recs : sessions' = [sessions EXCEPT ![i] = r] /\ r.for = sessions[i].for
  <2>1. sessions[i] \in Recs BY DEF StoreInv, MapIs
  <2>2. CASE Output(i)
    <3>1. PICK r : r = [sessions[i] EXCEPT !.seq = @ + 1] OBVIOUS
    <3>2. r \in Recs /\ r.for = sessions[i].for
      BY <2>1, <2>2, <3>1, TerminalStoreAssumption DEF Output, Recs
    <3>3. sessions' = [sessions EXCEPT ![i] = r] BY <2>2, <3>1 DEF Output
    <3> QED BY <3>2, <3>3
  <2>3. CASE Dies(i)
    <3>1. PICK r : r = [sessions[i] EXCEPT !.alive = FALSE] OBVIOUS
    <3>2. r \in Recs /\ r.for = sessions[i].for BY <2>1, <3>1 DEF Recs
    <3>3. sessions' = [sessions EXCEPT ![i] = r] BY <2>3, <3>1 DEF Dies
    <3> QED BY <3>2, <3>3
  <2> QED BY <2>2, <2>3
<1>4. /\ DOMAIN sessions' = DOMAIN sessions /\ sessions' \in [DOMAIN sessions -> Recs]
      /\ \A j \in DOMAIN sessions : sessions'[j].for = sessions[j].for
  BY <1>3 DEF StoreInv, MapIs
<1>5. StoreTypeOK' BY <1>1, <1>4 DEF StoreInv, StoreTypeOK, Recs
<1>6. MapIs' BY <1>1, <1>4 DEF StoreInv, MapIs
<1>7. Owned' /\ SoleOwner' BY <1>1, <1>4 DEF StoreInv, Owned, Owner, Mine, SoleOwner
<1> QED BY <1>5, <1>6, <1>7 DEF StoreInv

LEMMA FlushKept ==
  ASSUME StoreInv, NEW f \in flushers, Flush(f)
  PROVE  StoreInv'
<1>1. UNCHANGED <<sessions, nextId, saved, shows, tab, enabled, runs, waits, crossed, gaveUp>> BY DEF Flush
<1>2. f \in [id : 1..MaxIds, key : Panels, last : -1..MaxOut] BY DEF StoreInv, StoreTypeOK
<1>3. PICK g : /\ g \in [id : 1..MaxIds, key : Panels, last : -1..MaxOut]
               /\ g.id = f.id /\ g.key = f.key
               /\ flushers' \subseteq (flushers \ {f}) \cup {g}
  <2>1. CASE f.id \in DOMAIN sessions /\ enabled /\ Save(f.key)
             /\ flushers' = (flushers \ {f}) \cup {[f EXCEPT !.last = sessions[f.id].seq]}
    <3>1. PICK g : g = [f EXCEPT !.last = sessions[f.id].seq] OBVIOUS
    <3>2. sessions[f.id].seq \in -1..MaxOut BY <2>1, TerminalStoreAssumption DEF StoreInv, StoreTypeOK
    <3>3. g \in [id : 1..MaxIds, key : Panels, last : -1..MaxOut] /\ g.id = f.id /\ g.key = f.key
      BY <1>2, <3>1, <3>2
    <3> QED BY <2>1, <3>1, <3>3
  <2>2. CASE flushers' = flushers \ {f} BY <1>2, <2>2
  <2> QED BY <2>1, <2>2 DEF Flush
<1>4. StoreTypeOK'
  <2>1. disk' \in [Panels -> BOOLEAN] BY <1>2 DEF Flush, Save, Delete, StoreInv, StoreTypeOK
  <2>2. flushers' \subseteq [id : 1..MaxIds, key : Panels, last : -1..MaxOut]
    BY <1>3 DEF StoreInv, StoreTypeOK
  <2> QED BY <1>1, <2>1, <2>2 DEF StoreInv, StoreTypeOK
<1>5. MapIs' BY <1>1 DEF StoreInv, MapIs
<1>6. Owned' BY <1>1, <1>3 DEF StoreInv, Owned, Owner, Mine
<1>7. SoleOwner'
  <2>1. ASSUME ~crossed', NEW a \in flushers', NEW b \in flushers',
              a.key = b.key, a.key \notin gaveUp'
       PROVE  a = b
    BY <1>1, <1>3, <2>1 DEF StoreInv, SoleOwner
  <2> QED BY <2>1 DEF SoleOwner
<1> QED BY <1>4, <1>5, <1>6, <1>7 DEF StoreInv

LEMMA RestartKept ==
  ASSUME StoreInv, Restart
  PROVE  StoreInv'
<1>1. /\ sessions' = <<>> /\ nextId' = 1 /\ flushers' = {} /\ shows' = [p \in Panels |-> 0]
      /\ runs' = runs + 1 /\ runs < MaxRuns /\ UNCHANGED <<saved, tab, enabled, disk, crossed>>
      /\ waits' = [p \in Panels |-> 0] /\ gaveUp' = {}
  BY DEF Restart
<1>2. DOMAIN sessions' = {} BY <1>1
<1>3. sessions' \in [DOMAIN sessions' -> Recs] BY <1>1, <1>2
<1>4. StoreTypeOK' BY <1>1, <1>2, TerminalStoreAssumption DEF StoreInv, StoreTypeOK
<1> QED BY <1>1, <1>2, <1>3, <1>4 DEF StoreInv, MapIs, Owned, SoleOwner

LEMMA StoreStep ==
  ASSUME StoreInv, [StoreNext]_storeVars
  PROVE  StoreInv'
<1>1. CASE \E p \in Panels : \/ OpenPanel(p) \/ Attach(p) \/ Create(p) \/ CreateAnswered(p)
                             \/ Detach(p) \/ ClosePanel(p)
  BY <1>1, PanelKept, CreateKept, ClosePanelKept
<1>2. CASE \E i \in DOMAIN sessions : Output(i) \/ Dies(i) BY <1>2, SessionKept
<1>3. CASE \E f \in flushers : Flush(f) BY <1>3, FlushKept
<1>4. CASE SetEnabled
  BY <1>4 DEF SetEnabled, StoreInv, StoreTypeOK, MapIs, Owned, Owner, Mine, SoleOwner
<1>5. CASE Restart BY <1>5, RestartKept
<1>6. CASE UNCHANGED storeVars
  BY <1>6 DEF storeVars, StoreInv, StoreTypeOK, MapIs, Owned, Owner, Mine, SoleOwner
<1> QED BY <1>1, <1>2, <1>3, <1>4, <1>5, <1>6 DEF StoreNext

(* The types of the store: a session has a number this run has handed out.    *)
THEOREM StoreTypeTheorem == StoreSpec => []StoreTypeOK
<1>1. StoreInit => StoreInv BY StoreInitKept
<1>2. StoreInv /\ [StoreNext]_storeVars => StoreInv' BY StoreStep
<1>3. StoreInv => StoreTypeOK BY DEF StoreInv
<1> QED BY <1>1, <1>2, <1>3, PTL DEF StoreSpec

(* Until a panel takes another one's session for its own, no file goes while  *)
(* its panel is in the layout, and a flusher is the only one of its file      *)
(* unless its panel went away while it awaited a session.                     *)
THEOREM FilesTheorem == StoreSpec => FileKeptWhileOpen /\ []SoleOwner
<1>1. StoreInit => StoreInv BY StoreInitKept
<1>2. StoreInv /\ [StoreNext]_storeVars => StoreInv' BY StoreStep
<1>3. StoreInv => SoleOwner BY DEF StoreInv
<1>4. StoreInv /\ [StoreNext]_storeVars =>
        [\A p \in Panels : disk[p] /\ ~disk'[p] /\ ~crossed' => tab[p] # "open"]_storeVars
  <2>. SUFFICES ASSUME StoreInv, StoreNext,
                       NEW p \in Panels, disk[p], ~disk'[p], ~crossed'
                PROVE  tab[p] # "open"
    OBVIOUS
  <2>1. PICK f \in flushers : Flush(f)
    BY DEF StoreNext, OpenPanel, Attach, Create, CreateAnswered, Detach, ClosePanel, Output, Dies, SetEnabled, Restart
  <2>2. f.key \in Panels /\ disk \in [Panels -> BOOLEAN] BY DEF StoreInv, StoreTypeOK
  <2>3. f.key = p /\ f.id \notin DOMAIN sessions /\ ~crossed
    BY <2>1, <2>2 DEF Flush, Save, Delete
  <2>4. tab[p] = "closed" BY <2>3 DEF StoreInv, Owned, Owner
  <2> QED BY <2>4
<1> QED BY <1>1, <1>2, <1>3, <1>4, PTL DEF StoreSpec, FileKeptWhileOpen

-----------------------------------------------------------------------------
(* The drain of the pending chunks.                                          *)

Draining(f, v, p, m) ==
  f = [n \in 0..m |-> IF n = 0 THEN v ELSE Applied(f[n - 1], p[n])]

LEMMA DrainingExists ==
  ASSUME NEW v, NEW p, NEW m \in Nat
  PROVE  \E f : Draining(f, v, p, m)
<1> DEFINE T == {n \in Nat : ~\E f : Draining(f, v, p, n)}
<1>1. SUFFICES ASSUME T # {} PROVE FALSE
  OBVIOUS
<1>2. PICK n \in T : \A k \in T : n <= k
  <2> HIDE DEF T
  <2>1. T \in SUBSET Nat
    BY DEF T
  <2> QED BY <1>1, <2>1, LeastNat
<1>3. n \in Nat /\ ~\E f : Draining(f, v, p, n)
  OBVIOUS
<1>4. n # 0
  <2>1. Draining([k \in 0..0 |-> v], v, p, 0)
    BY DEF Draining
  <2> QED BY <1>3, <2>1
<1>5. n - 1 \in Nat /\ n - 1 \notin T
  <2>1. n - 1 \in Nat /\ ~(n <= n - 1)
    BY <1>3, <1>4
  <2> QED BY <1>2, <2>1
<1>6. PICK f : Draining(f, v, p, n - 1)
  BY <1>5
<1> DEFINE g == [k \in 0..n |-> IF k = n THEN Applied(f[n - 1], p[n]) ELSE f[k]]
<1>7. \A k \in 0..n : g[k] = IF k = 0 THEN v ELSE Applied(g[k - 1], p[k])
  <2> SUFFICES ASSUME NEW k \in 0..n
               PROVE  g[k] = IF k = 0 THEN v ELSE Applied(g[k - 1], p[k])
    OBVIOUS
  <2>1. k # 0 => k - 1 \in 0..n /\ k - 1 # n /\ g[k - 1] = f[k - 1]
    BY <1>3
  <2>2. CASE k = n
    <3>1. g[k] = Applied(f[k - 1], p[k]) BY <2>2
    <3> QED BY <1>4, <2>1, <2>2, <3>1
  <2>3. CASE k # n
    <3>1. k \in 0..(n - 1) /\ g[k] = f[k]
      BY <1>3, <2>3
    <3>2. f[k] = IF k = 0 THEN v ELSE Applied(f[k - 1], p[k])
      BY <1>6, <3>1 DEF Draining
    <3> QED BY <2>1, <3>1, <3>2
  <2> QED BY <2>2, <2>3
<1>8. Draining(g, v, p, n)
  <2>1. g = [k \in 0..n |-> g[k]]
    OBVIOUS
  <2> HIDE DEF g
  <2> QED BY <1>7, <2>1 DEF Draining
<1> QED BY <1>3, <1>8

(* The drain has what its first state has and each of its steps keeps.       *)
LEMMA DrainKeeps ==
  ASSUME NEW v, NEW p, Len(p) \in Nat, NEW G, <<0, v>> \in G,
         \A n \in 1..Len(p) : \A w : <<n - 1, w>> \in G => <<n, Applied(w, p[n])>> \in G
  PROVE  <<Len(p), Drained(v, p)>> \in G
<1>1. PICK f : Draining(f, v, p, Len(p)) /\ Drained(v, p) = f[Len(p)]
  <2>1. \E f : Draining(f, v, p, Len(p))
    BY DrainingExists
  <2> DEFINE f == CHOOSE f0 : Draining(f0, v, p, Len(p))
  <2>2. Draining(f, v, p, Len(p))
    BY <2>1
  <2>3. Drained(v, p) = f[Len(p)]
    BY DEF Drained, Draining
  <2> QED BY <2>2, <2>3
<1>2. \A n \in 0..Len(p) : f[n] = IF n = 0 THEN v ELSE Applied(f[n - 1], p[n])
  BY <1>1 DEF Draining
<1> DEFINE T == {n \in 0..Len(p) : <<n, f[n]>> \notin G}
<1>3. SUFFICES ASSUME T # {} PROVE FALSE
  BY <1>1
<1>4. PICK n \in T : \A k \in T : n <= k
  <2>1. T \in SUBSET Nat
    OBVIOUS
  <2> HIDE DEF T
  <2> QED BY <1>3, <2>1, LeastNat
<1>5. n \in 0..Len(p) /\ <<n, f[n]>> \notin G
  OBVIOUS
<1>6. n # 0
  BY <1>2, <1>5
<1>7. n \in 1..Len(p) /\ n - 1 \in 0..Len(p) /\ ~(n <= n - 1)
  BY <1>5, <1>6
<1>8. <<n - 1, f[n - 1]>> \in G
  BY <1>4, <1>7
<1>9. f[n] = Applied(f[n - 1], p[n])
  BY <1>2, <1>5, <1>6
<1> QED BY <1>5, <1>7, <1>8, <1>9

(* A view keeps its type ...                                                 *)
LEMMA AppliedType ==
  ASSUME NEW v \in View, NEW n \in Chunk
  PROVE  Applied(v, n) \in View
<1>1. CASE n <= v.applied BY <1>1 DEF Applied
<1>2. CASE ~(n <= v.applied)
  <2>1. PICK s : s = Append(v.shown, n) OBVIOUS
  <2>2. s \in Seq(Chunk) BY <2>1 DEF View
  <2>3. Applied(v, n) = [v EXCEPT !.shown = s, !.applied = n] BY <1>2, <2>1 DEF Applied
  <2>4. n \in 0..MaxChunks BY StreamAssumption DEF Chunk
  <2> QED BY <2>2, <2>3, <2>4 DEF View
<1> QED BY <1>1, <1>2

Same(v, w) ==
  /\ w.phase = v.phase /\ w.listening = v.listening /\ w.pending = v.pending
  /\ w.dropped = v.dropped /\ w.got = v.got /\ w.snaps = v.snaps

LEMMA AppliedSame ==
  ASSUME NEW v \in View, NEW w \in View, NEW n \in Chunk, Same(v, w)
  PROVE  Same(v, Applied(w, n))
<1>1. PICK s : s = Append(w.shown, n) OBVIOUS
<1>2. Applied(w, n) = w \/ Applied(w, n) = [w EXCEPT !.shown = s, !.applied = n]
  BY <1>1 DEF Applied
<1> QED BY <1>2 DEF Same, View

LEMMA DrainType ==
  ASSUME NEW v \in View, NEW p \in Seq(Chunk)
  PROVE  Drained(v, p) \in View /\ Same(v, Drained(v, p))
<1> DEFINE G == {<<n, w>> : n \in 0..Len(p), w \in {u \in View : Same(v, u)}}
<1>1. Len(p) \in Nat /\ \A n \in 1..Len(p) : p[n] \in Chunk OBVIOUS
<1>2. <<0, v>> \in G BY <1>1 DEF Same
<1>3. \A n \in 1..Len(p) : \A w : <<n - 1, w>> \in G => <<n, Applied(w, p[n])>> \in G
  <2> SUFFICES ASSUME NEW n \in 1..Len(p), NEW w, <<n - 1, w>> \in G
               PROVE  <<n, Applied(w, p[n])>> \in G
    OBVIOUS
  <2>1. w \in View /\ Same(v, w) OBVIOUS
  <2>2. Applied(w, p[n]) \in View /\ Same(v, Applied(w, p[n]))
    BY <1>1, <2>1, AppliedType, AppliedSame
  <2>3. n \in 0..Len(p) BY <1>1
  <2> QED BY <2>2, <2>3
<1>4. <<Len(p), Drained(v, p)>> \in G
  <2> HIDE DEF G
  <2> QED BY <1>1, <1>2, <1>3, DrainKeeps
<1> QED BY <1>4

(* ... and, when the pending chunks go on from the screen, shows a run.      *)
IsRun(s, n) ==
  /\ Len(s) <= n /\ (s = <<>> => n = 0)
  /\ \A i \in 1..Len(s) : s[i] = n - Len(s) + i

LEMMA RunGrows ==
  ASSUME NEW v \in View, IsRun(v.shown, v.applied), NEW n \in Chunk, n <= v.applied + 1
  PROVE  LET w == Applied(v, n)
         IN /\ IsRun(w.shown, w.applied) /\ w.applied = IF n <= v.applied THEN v.applied ELSE n
            /\ w.shown = IF n <= v.applied THEN v.shown ELSE Append(v.shown, n)
<1>0. v.applied \in Nat /\ n \in Nat /\ v.shown \in Seq(Chunk) BY DEF View, Chunk
<1>1. CASE n <= v.applied BY <1>1 DEF Applied
<1>2. CASE ~(n <= v.applied)
  <2>1. PICK s : s = Append(v.shown, n) OBVIOUS
  <2>2. /\ s \in Seq(Chunk) /\ Len(s) = Len(v.shown) + 1 /\ Len(v.shown) \in Nat
        /\ s[Len(v.shown) + 1] = n /\ \A i \in 1..Len(v.shown) : s[i] = v.shown[i]
    BY <1>0, <2>1, AppendProperties
  <2>3. PICK w : w = [v EXCEPT !.shown = s, !.applied = n] OBVIOUS
  <2>4. Applied(v, n) = w BY <1>2, <2>1, <2>3 DEF Applied
  <2>5. w.shown = s /\ w.applied = n BY <2>3 DEF View
  <2>6. n = v.applied + 1 BY <1>0, <1>2
  <2>7. \A i \in 1..Len(s) : s[i] = n - Len(s) + i
    <3> SUFFICES ASSUME NEW i \in 1..Len(s) PROVE s[i] = n - Len(s) + i
      OBVIOUS
    <3>1. CASE i = Len(v.shown) + 1 BY <1>0, <2>2, <3>1
    <3>2. CASE i # Len(v.shown) + 1
      <4>1. i \in 1..Len(v.shown) BY <2>2, <3>2
      <4>2. s[i] = v.applied - Len(v.shown) + i BY <2>2, <4>1 DEF IsRun
      <4> i \in Int /\ Len(v.shown) \in Int /\ v.applied \in Int BY <1>0, <2>2, <4>1
      <4>3. PICK k \in Int, l \in Int, a \in Int : k = i /\ l = Len(v.shown) /\ a = v.applied
        BY Zenon
      <4>4. n = a + 1 /\ Len(s) = l + 1 BY <2>2, <2>6, <4>3
      <4>5. n - Len(s) + k = a - l + k BY <4>3, <4>4
      <4> QED BY <4>2, <4>3, <4>5
    <3> QED BY <3>1, <3>2
  <2>8. IsRun(s, n)
    <3>1. Len(s) <= n /\ s # <<>> BY <1>0, <2>2, <2>6 DEF IsRun
    <3> QED BY <2>7, <3>1 DEF IsRun
  <2> QED BY <1>2, <2>1, <2>4, <2>5, <2>8
<1> QED BY <1>1, <1>2

LEMMA DrainRun ==
  ASSUME NEW v \in View, IsRun(v.shown, v.applied), NEW p \in Seq(Chunk),
         NEW b \in Int, b <= v.applied, \A i \in 1..Len(p) : p[i] = b + i
  PROVE  LET w == Drained(v, p)
         IN /\ IsRun(w.shown, w.applied) /\ w.applied >= b + Len(p) /\ w.applied >= v.applied
            /\ w.applied = v.applied \/ w.applied <= b + Len(p)
<1> DEFINE Good(n, w) ==
             /\ w \in View /\ IsRun(w.shown, w.applied)
             /\ w.applied >= b + n /\ w.applied >= v.applied
             /\ w.applied = v.applied \/ w.applied <= b + n
           G == {x \in (0..Len(p)) \X View : Good(x[1], x[2])}
<1>1. Len(p) \in Nat /\ \A n \in 1..Len(p) : p[n] \in Chunk OBVIOUS
<1>2. <<0, v>> \in G
  <2>1. v.applied \in Int BY DEF View
  <2> QED BY <1>1, <2>1
<1>3. \A n \in 1..Len(p) : \A w : <<n - 1, w>> \in G => <<n, Applied(w, p[n])>> \in G
  <2> SUFFICES ASSUME NEW n \in 1..Len(p), NEW w, <<n - 1, w>> \in G
               PROVE  <<n, Applied(w, p[n])>> \in G
    OBVIOUS
  <2>1. w \in View /\ Good(n - 1, w) OBVIOUS
  <2>2. v.applied \in Int /\ w.applied \in Int /\ n \in Int BY <2>1 DEF View
  <2>3. p[n] \in Chunk /\ p[n] = b + n /\ p[n] <= w.applied + 1 BY <1>1, <2>1, <2>2
  <2>4. PICK u : u = Applied(w, p[n]) OBVIOUS
  <2>5. u \in View BY <2>1, <2>3, <2>4, AppliedType
  <2>6. IsRun(u.shown, u.applied) /\ u.applied = IF p[n] <= w.applied THEN w.applied ELSE p[n]
    BY <2>1, <2>3, <2>4, RunGrows
  <2>7. u.applied >= b + n /\ u.applied >= v.applied /\ (u.applied = v.applied \/ u.applied <= b + n)
    BY <2>1, <2>2, <2>3, <2>6
  <2>8. n \in 0..Len(p) BY <1>1
  <2> QED BY <2>4, <2>5, <2>6, <2>7, <2>8
<1>4. <<Len(p), Drained(v, p)>> \in G
  <2> HIDE DEF G
  <2> QED BY <1>1, <1>2, <1>3, DrainKeeps
<1> QED BY <1>4

-----------------------------------------------------------------------------
(* The inductive invariant.  The chunks between the scrollback and the       *)
(* window are the newest ones, in order: the last delivered one, `Delivered`,*)
(* is followed by those in events, then by those in rx, then by the one that *)
(* is being fanned out.                                                      *)

Riding == IF emitting = 0 THEN 0 ELSE 1
Delivered == lastSeq - Riding - Len(rx) - Len(events)

Wired ==
  /\ emitting \in {0, lastSeq}
  /\ session \in {"none", "dead", "removed"} => emitting = 0
  /\ relayed = "off" => rx = Unsubscribed /\ events = <<>> /\ view = NoView
  /\ relayed # "off" => rx \in Seq(Chunk)
  /\ relayed = "ended" => session = "removed"
  /\ view.phase = "closed" => view = NoView
  /\ view.listening <=> view.phase \in {"asking", "answered", "live"}

Flow ==
  /\ \A i \in 1..Len(rx) : rx[i] = lastSeq - Riding - Len(rx) + i
  /\ \A i \in 1..Len(events) : events[i] = Delivered + i

(* A view shows a run, and can join what comes next to it.                   *)
Joins(v, last, d) ==
  /\ IsRun(v.shown, v.applied) /\ v.applied <= last
  /\ ~v.listening => v.pending = <<>>
  /\ v.phase \in {"asking", "answered"} =>
       \A i \in 1..Len(v.pending) : v.pending[i] = d - Len(v.pending) + i
  /\ v.phase = "answered" =>
       /\ v.got \in Nat /\ v.applied <= v.got /\ v.got <= last
       /\ v.dropped \/ v.got >= d - Len(v.pending)
  /\ v.phase = "live" => v.applied >= d

StreamInv ==
  /\ PtyTypeOK /\ Wired
  /\ OutOfMap \/ (relayed # "off" => Flow /\ Joins(view, lastSeq, Delivered))

LEMMA NoViewType == NoView \in View /\ \A last \in Nat, d \in Int : Joins(NoView, last, d)
<1>1. <<>> \in Seq(Chunk) /\ 0 \in 0..MaxChunks /\ 0 \in 0..MaxSnapshots BY StreamAssumption
<1>2. NoView \in View BY <1>1 DEF NoView, View
<1>3. IsRun(<<>>, 0) BY DEF IsRun
<1> QED BY <1>2, <1>3 DEF NoView, Joins

LEMMA StreamInit ==
  ASSUME PtyInit
  PROVE  StreamInv
<1>1. PtyTypeOK
  <2>1. 0 \in 0..MaxChunks /\ 0 \in 0..0 /\ 0 \in 0..MaxMounts BY StreamAssumption
  <2>2. events \in Seq(Chunk) BY DEF PtyInit
  <2> QED BY <2>1, <2>2, NoViewType DEF PtyInit, PtyTypeOK
<1>2. Wired BY DEF PtyInit, Wired, NoView
<1> QED BY <1>1, <1>2 DEF StreamInv, PtyInit

(* The steps of the backend.                                                 *)
LEMMA BackendKept ==
  ASSUME StreamInv,
         CreateSession \/ Subscribe \/ Push \/ ChildExits \/ RemoveSession \/ ReaderJoined \/ RelayEnds
  PROVE  StreamInv'
<1>0. lastSeq \in Nat /\ emitting \in Nat /\ view \in View /\ events \in Seq(Chunk)
  BY DEF StreamInv, PtyTypeOK
<1>1. CASE CreateSession \/ ChildExits \/ RemoveSession \/ ReaderJoined \/ RelayEnds
  <2>1. UNCHANGED <<lastSeq, emitting, rx, events, view, mounts>>
    BY <1>1 DEF CreateSession, ChildExits, RemoveSession, ReaderJoined, RelayEnds
  <2>2. PtyTypeOK' BY <1>1, <2>1 DEF CreateSession, ChildExits, RemoveSession, ReaderJoined, RelayEnds,
          StreamInv, PtyTypeOK
  <2>3. Wired' BY <1>1, <2>1 DEF CreateSession, ChildExits, RemoveSession, ReaderJoined, RelayEnds,
          StreamInv, Wired
  <2>4. OutOfMap => OutOfMap' BY <1>1 DEF CreateSession, ChildExits, RemoveSession, ReaderJoined, RelayEnds,
          OutOfMap
  <2>5. OutOfMap' \/ (relayed' # "off" => relayed # "off")
    BY <1>1 DEF CreateSession, ChildExits, RemoveSession, ReaderJoined, RelayEnds, OutOfMap
  <2>6. (Flow /\ Joins(view, lastSeq, Delivered))' <=> Flow /\ Joins(view, lastSeq, Delivered)
    BY <2>1 DEF Flow, Joins, Delivered, Riding
  <2> QED BY <2>2, <2>3, <2>4, <2>5, <2>6 DEF StreamInv
<1>2. CASE Subscribe
  <2>1. /\ rx' = <<>> /\ relayed' = "on" /\ relayed = "off" /\ session \in {"live", "dead"}
        /\ UNCHANGED <<session, lastSeq, emitting, events, view, mounts>>
    BY <1>2 DEF Subscribe
  <2>2. events = <<>> /\ view = NoView BY <2>1 DEF StreamInv, Wired
  <2>3. rx' \in Seq(Chunk) BY <2>1
  <2>4. PtyTypeOK' BY <2>1, <2>3 DEF StreamInv, PtyTypeOK
  <2>5. Wired' BY <2>1, <2>3 DEF StreamInv, Wired
  <2>6. Delivered' = lastSeq - Riding /\ Delivered' \in Int
    BY <1>0, <2>1, <2>2 DEF Delivered, Riding
  <2>7. Flow' BY <2>1, <2>2 DEF Flow
  <2>8. Joins(view', lastSeq', Delivered') BY <1>0, <2>1, <2>2, <2>6, NoViewType
  <2> QED BY <2>4, <2>5, <2>7, <2>8 DEF StreamInv
<1>3. CASE Push
  <2>1. /\ session \in {"live", "closing"} /\ emitting = 0 /\ lastSeq < MaxChunks
        /\ lastSeq' = lastSeq + 1 /\ emitting' = lastSeq + 1
        /\ UNCHANGED <<session, rx, relayed, events, view, mounts>>
    BY <1>3 DEF Push
  <2>2. PtyTypeOK' BY <1>0, <2>1, StreamAssumption DEF StreamInv, PtyTypeOK
  <2>3. Wired' BY <2>1 DEF StreamInv, Wired
  <2>4. Riding = 0 /\ Riding' = 1 BY <1>0, <2>1 DEF Riding
  <2>5. ASSUME ~OutOfMap', relayed' # "off" PROVE (Flow /\ Joins(view, lastSeq, Delivered))'
    <3>1. Flow /\ Joins(view, lastSeq, Delivered) /\ rx \in Seq(Chunk)
      BY <2>1, <2>5 DEF StreamInv, OutOfMap, Wired
    <3>2. Len(rx) \in Nat /\ Len(events) \in Nat BY <1>0, <3>1
    <3>3. Delivered' = Delivered BY <1>0, <2>1, <2>4, <3>2 DEF Delivered
    <3>4. Flow' BY <1>0, <2>1, <2>4, <3>1, <3>2, <3>3 DEF Flow
    <3>5. Joins(view', lastSeq', Delivered')
      <4>1. view.applied \in Nat /\ (view.phase = "answered" => view.got \in Nat)
        BY <1>0, <3>1 DEF View, Joins
      <4> QED BY <1>0, <2>1, <3>1, <3>3, <4>1 DEF Joins
    <3> QED BY <3>4, <3>5
  <2> QED BY <2>2, <2>3, <2>5 DEF StreamInv
<1> QED BY <1>1, <1>2, <1>3

(* A chunk moves on towards the window, and none is passed over.             *)
LEMMA FanOutKept ==
  ASSUME StreamInv, FanOut
  PROVE  StreamInv'
<1>0. lastSeq \in Nat /\ emitting \in Nat /\ view \in View /\ events \in Seq(Chunk)
  BY DEF StreamInv, PtyTypeOK
<1>1. /\ emitting # 0 /\ emitting' = 0 /\ UNCHANGED <<session, lastSeq, relayed, events, view, mounts>>
      /\ rx' = IF relayed = "on" THEN Append(rx, emitting) ELSE rx
  BY DEF FanOut
<1>2. emitting = lastSeq /\ lastSeq \in Chunk /\ relayed # "ended"
  BY <1>0, <1>1, StreamAssumption DEF StreamInv, Wired, PtyTypeOK, Chunk
<1>3. CASE relayed # "on"
  <2>1. relayed = "off" /\ rx' = rx BY <1>1, <1>2, <1>3 DEF StreamInv, PtyTypeOK
  <2>2. PtyTypeOK' /\ Wired' BY <1>0, <1>1, <2>1 DEF StreamInv, PtyTypeOK, Wired
  <2> QED BY <1>1, <2>1, <2>2 DEF StreamInv
<1>4. CASE relayed = "on"
  <2>1. rx \in Seq(Chunk) /\ rx' = Append(rx, lastSeq)
    BY <1>1, <1>2, <1>4 DEF StreamInv, Wired
  <2>2. /\ rx' \in Seq(Chunk) /\ Len(rx') = Len(rx) + 1 /\ Len(rx) \in Nat /\ Len(events) \in Nat
        /\ rx'[Len(rx) + 1] = lastSeq /\ \A i \in 1..Len(rx) : rx'[i] = rx[i]
    BY <1>0, <1>2, <2>1, AppendProperties
  <2>3. PtyTypeOK' /\ Wired' BY <1>0, <1>1, <1>4, <2>2 DEF StreamInv, PtyTypeOK, Wired
  <2>4. Riding = 1 /\ Riding' = 0 BY <1>1 DEF Riding
  <2>5. Delivered' = Delivered BY <1>0, <1>1, <2>2, <2>4 DEF Delivered
  <2>6. ASSUME ~OutOfMap PROVE (Flow /\ Joins(view, lastSeq, Delivered))'
    <3>1. Flow /\ Joins(view, lastSeq, Delivered) BY <1>4, <2>6 DEF StreamInv
    <3>2. \A i \in 1..Len(rx) : rx[i] = lastSeq - 1 - Len(rx) + i BY <2>4, <3>1 DEF Flow
    <3>3. \A i \in 1..Len(rx') : rx'[i] = lastSeq' - Riding' - Len(rx') + i
      <4> SUFFICES ASSUME NEW i \in 1..Len(rx') PROVE rx'[i] = lastSeq' - Riding' - Len(rx') + i
        OBVIOUS
      <4>1. CASE i = Len(rx) + 1
        <5>1. PICK r \in Int : r = Len(rx) /\ Len(rx') = r + 1 /\ i = r + 1 BY <2>2, <4>1
        <5>2. lastSeq - 0 - (r + 1) + (r + 1) = lastSeq BY <1>0, <5>1
        <5> QED BY <1>1, <2>2, <2>4, <4>1, <5>1, <5>2
      <4>2. CASE i # Len(rx) + 1
        <5>1. i \in 1..Len(rx) /\ i \in Int BY <2>2, <4>2
        <5>2. rx'[i] = lastSeq - 1 - Len(rx) + i BY <2>2, <3>2, <5>1
        <5>3. PICK r \in Int : r = Len(rx) /\ Len(rx') = r + 1 BY <2>2
        <5>4. lastSeq - 1 - r + i = lastSeq - 0 - (r + 1) + i BY <1>0, <5>1, <5>3
        <5> QED BY <1>1, <2>4, <5>2, <5>3, <5>4
      <4> QED BY <4>1, <4>2
    <3>4. Flow' BY <1>1, <2>5, <3>1, <3>3 DEF Flow
    <3> QED BY <1>1, <2>5, <3>1, <3>4
  <2> QED BY <1>1, <2>3, <2>6 DEF StreamInv, OutOfMap
<1> QED BY <1>3, <1>4

LEMMA RelayKept ==
  ASSUME StreamInv, Relay
  PROVE  StreamInv'
<1>0. lastSeq \in Nat /\ emitting \in Nat /\ view \in View /\ events \in Seq(Chunk)
  BY DEF StreamInv, PtyTypeOK
<1>1. /\ relayed = "on" /\ rx # <<>> /\ rx' = Tail(rx) /\ events' = Append(events, Head(rx))
      /\ UNCHANGED <<session, lastSeq, emitting, relayed, view, mounts>>
  BY DEF Relay
<1>2. rx \in Seq(Chunk) BY <1>1 DEF StreamInv, Wired
<1>3. /\ rx' \in Seq(Chunk) /\ Len(rx') = Len(rx) - 1 /\ Len(rx) \in Nat
      /\ Head(rx) = rx[1] /\ rx[1] \in Chunk /\ 1 \in 1..Len(rx)
      /\ \A i \in 1..Len(rx') : rx'[i] = rx[i + 1] /\ i + 1 \in 1..Len(rx)
  BY <1>1, <1>2, HeadTailProperties
<1>4. /\ events' \in Seq(Chunk) /\ Len(events') = Len(events) + 1 /\ Len(events) \in Nat
      /\ events'[Len(events) + 1] = rx[1] /\ \A i \in 1..Len(events) : events'[i] = events[i]
  BY <1>0, <1>1, <1>3, AppendProperties
<1>5. PtyTypeOK' /\ Wired' BY <1>0, <1>1, <1>3, <1>4 DEF StreamInv, PtyTypeOK, Wired
<1>6. Riding' = Riding /\ Riding \in Int BY <1>1 DEF Riding
<1>7. Delivered' = Delivered BY <1>0, <1>1, <1>3, <1>4, <1>6 DEF Delivered
<1>8. ASSUME ~OutOfMap PROVE (Flow /\ Joins(view, lastSeq, Delivered))'
  <2>1. Flow /\ Joins(view, lastSeq, Delivered) BY <1>1, <1>8 DEF StreamInv
  <2>2. PICK l \in Int, m \in Int, r \in Int, e \in Int :
          l = lastSeq /\ m = Riding /\ r = Len(rx) /\ e = Len(events)
    BY <1>0, <1>3, <1>4, <1>6
  <2>3. \A i \in 1..r : rx[i] = l - m - r + i BY <2>1, <2>2 DEF Flow
  <2>4. Delivered = l - m - r - e BY <2>2 DEF Delivered
  <2>5. \A i \in 1..Len(rx') : rx'[i] = lastSeq' - Riding' - Len(rx') + i
    <3> SUFFICES ASSUME NEW i \in 1..Len(rx') PROVE rx'[i] = l - m - (r - 1) + i
      BY <1>1, <1>3, <1>6, <2>2
    <3>1. rx'[i] = l - m - r + (i + 1) /\ i \in Int BY <1>3, <2>2, <2>3
    <3> QED BY <3>1
  <2>6. \A i \in 1..Len(events') : events'[i] = Delivered + i
    <3> SUFFICES ASSUME NEW i \in 1..Len(events') PROVE events'[i] = Delivered + i
      OBVIOUS
    <3>1. CASE i = Len(events) + 1
      <4>1. events'[i] = l - m - r + 1 BY <1>3, <1>4, <2>2, <2>3, <3>1
      <4>2. Delivered + i = l - m - r - e + (e + 1) BY <2>2, <2>4, <3>1
      <4> QED BY <4>1, <4>2
    <3>2. CASE i # Len(events) + 1
      <4>1. i \in 1..Len(events) BY <1>4, <3>2
      <4> QED BY <1>4, <2>1, <4>1 DEF Flow
    <3> QED BY <3>1, <3>2
  <2> QED BY <1>1, <1>7, <2>1, <2>5, <2>6 DEF Flow
<1> QED BY <1>1, <1>5, <1>8 DEF StreamInv, OutOfMap

-----------------------------------------------------------------------------
(* The steps of the panel.                                                   *)

LEMMA RingRun ==
  ASSUME NEW to \in 0..MaxChunks
  PROVE  Ring(to) \in Seq(Chunk) /\ IsRun(Ring(to), to)
<1>1. PICK from : from = IF to > Cap THEN to - Cap + 1 ELSE 1 OBVIOUS
<1>2. from \in Nat \ {0} /\ from <= to + 1 /\ (to # 0 => from <= to) BY <1>1, StreamAssumption
<1>3. PICK n \in Nat : n = to - from + 1 BY <1>2
<1>4. PICK s : s = [i \in 1..n |-> from + i - 1] OBVIOUS
<1>5. Ring(to) = s BY <1>1, <1>3, <1>4 DEF Ring
<1>6. \A i \in 1..n : from + i - 1 \in Chunk BY <1>2, <1>3, StreamAssumption DEF Chunk
<1>7. s \in Seq(Chunk) /\ Len(s) = n BY <1>4, <1>6
<1>8. \A i \in 1..n : s[i] = to - n + i BY <1>2, <1>3, <1>4
<1>9. s = <<>> => to = 0 BY <1>2, <1>3, <1>7
<1>10. n <= to BY <1>2, <1>3
<1> QED BY <1>5, <1>7, <1>8, <1>9, <1>10 DEF IsRun

LEMMA PaintedFact ==
  ASSUME NEW v \in View, NEW to \in 0..MaxChunks
  PROVE  /\ Painted(v, to) \in View /\ Same(v, Painted(v, to))
         /\ Painted(v, to).shown = Ring(to) /\ Painted(v, to).applied = to
<1>1. PICK s : s = Ring(to) OBVIOUS
<1>2. s \in Seq(Chunk) BY <1>1, RingRun
<1>3. PICK w : w = [v EXCEPT !.shown = s, !.applied = to] OBVIOUS
<1>4. Painted(v, to) = w BY <1>1, <1>3 DEF Painted
<1>5. w \in View /\ w.shown = s /\ w.applied = to BY <1>2, <1>3 DEF View
<1>6. Same(v, w) BY <1>3 DEF View, Same
<1> QED BY <1>1, <1>4, <1>5, <1>6

(* A step of the panel alone.                                                *)
LEMMA ViewKept ==
  ASSUME StreamInv, UNCHANGED <<session, lastSeq, emitting, rx, relayed, events>>,
         mounts' \in 0..MaxMounts, view' \in View,
         relayed # "off" \/ view' = NoView,
         view'.phase = "closed" => view' = NoView,
         view'.listening <=> view'.phase \in {"asking", "answered", "live"},
         ~OutOfMap /\ relayed # "off" /\ Joins(view, lastSeq, Delivered) => Joins(view', lastSeq, Delivered)
  PROVE  StreamInv'
<1>1. PtyTypeOK' BY DEF StreamInv, PtyTypeOK
<1>2. Wired' BY DEF StreamInv, Wired
<1>3. Delivered' = Delivered /\ (Flow' <=> Flow) BY DEF Flow, Delivered, Riding
<1> QED BY <1>1, <1>2, <1>3 DEF StreamInv, OutOfMap

LEMMA MountKept ==
  ASSUME StreamInv, Mount \/ Listen \/ Snapshot \/ Unmount
  PROVE  StreamInv'
<1>0. lastSeq \in 0..MaxChunks /\ view \in View /\ mounts \in 0..MaxMounts /\ Wired
  BY DEF StreamInv, PtyTypeOK
<1>1. PICK d : d = Delivered OBVIOUS
<1>2. CASE Mount
  <2>1. /\ relayed = "on" /\ mounts' = mounts + 1 /\ mounts < MaxMounts /\ view = NoView
        /\ view' = [NoView EXCEPT !.phase = "fresh"]
        /\ UNCHANGED <<session, lastSeq, emitting, rx, relayed, events>>
    BY <1>0, <1>2 DEF Mount, Wired
  <2>2. view' \in View /\ view'.phase = "fresh" /\ view'.listening = FALSE
    BY <2>1, NoViewType DEF NoView, View
  <2>3. Joins(view, lastSeq, d) => Joins(view', lastSeq, d)
    BY <2>1, <2>2, NoViewType DEF Joins, NoView
  <2>4. mounts' \in 0..MaxMounts BY <1>0, <2>1, StreamAssumption
  <2> QED BY <1>1, <2>1, <2>2, <2>3, <2>4, ViewKept
<1>3. CASE Listen
  <2>1. /\ view.phase = "fresh" /\ ~view.listening /\ mounts' = mounts
        /\ view' = [view EXCEPT !.listening = TRUE, !.phase = "asking"]
        /\ UNCHANGED <<session, lastSeq, emitting, rx, relayed, events>>
    BY <1>3 DEF Listen
  <2>2. view' \in View /\ view'.phase = "asking" /\ view'.listening = TRUE
    BY <1>0, <2>1 DEF View
  <2>3. view'.shown = view.shown /\ view'.applied = view.applied /\ view'.pending = view.pending
    BY <1>0, <2>1 DEF View
  <2>4. Joins(view, lastSeq, d) => Joins(view', lastSeq, d)
    BY <2>1, <2>2, <2>3 DEF Joins
  <2>5. relayed # "off" BY <1>0, <2>1 DEF Wired, NoView
  <2> QED BY <1>0, <1>1, <2>1, <2>2, <2>4, <2>5, ViewKept
<1>4. CASE Snapshot
  <2>1. PICK g : g = IF OutOfMap THEN Gone ELSE lastSeq OBVIOUS
  <2>2. /\ view.phase = "asking" /\ mounts' = mounts
        /\ view' = [view EXCEPT !.phase = "answered", !.got = g]
        /\ UNCHANGED <<session, lastSeq, emitting, rx, relayed, events>>
    BY <1>4, <2>1 DEF Snapshot
  <2>3. g \in {Gone} \cup (0..MaxChunks) BY <1>0, <2>1
  <2>4. view' \in View /\ view'.phase = "answered" /\ view'.listening = view.listening /\ view'.got = g
    BY <1>0, <2>2, <2>3 DEF View
  <2>5. view'.shown = view.shown /\ view'.applied = view.applied /\ view'.pending = view.pending
    BY <1>0, <2>2 DEF View
  <2>6. view.listening BY <1>0, <2>2 DEF Wired
  <2>7. ASSUME ~OutOfMap, relayed # "off", Joins(view, lastSeq, Delivered)
        PROVE  Joins(view', lastSeq, Delivered)
    <3>1. g = lastSeq /\ lastSeq \in Nat /\ view.applied <= lastSeq
      BY <1>0, <2>1, <2>7 DEF Joins
    <3>2. Delivered <= lastSeq /\ Delivered \in Int
      <4>1. Len(rx) \in Nat /\ Len(events) \in Nat
        BY <1>0, <2>7 DEF Wired, StreamInv, PtyTypeOK
      <4> QED BY <3>1, <4>1 DEF Delivered, Riding
    <3>3. Len(view.pending) \in Nat BY <1>0 DEF View
    <3>4. g >= Delivered - Len(view.pending) BY <3>1, <3>2, <3>3
    <3> QED BY <2>2, <2>4, <2>5, <2>6, <2>7, <3>1, <3>4 DEF Joins
  <2>8. relayed # "off" BY <1>0, <2>2 DEF Wired, NoView
  <2> QED BY <1>0, <2>2, <2>4, <2>6, <2>7, <2>8, ViewKept
<1>5. CASE Unmount
  <2>1. view' = NoView /\ mounts' = mounts /\ UNCHANGED <<session, lastSeq, emitting, rx, relayed, events>>
    BY <1>5 DEF Unmount
  <2>2. ASSUME ~OutOfMap, relayed # "off" PROVE Joins(view', lastSeq, Delivered)
    <3>1. Len(rx) \in Nat /\ Len(events) \in Nat /\ lastSeq \in Nat
      BY <1>0, <2>2 DEF Wired, StreamInv, PtyTypeOK
    <3>2. Delivered \in Int BY <3>1 DEF Delivered, Riding
    <3> QED BY <2>1, <3>1, <3>2, NoViewType
  <2>3. view'.phase = "closed" /\ view'.listening = FALSE BY <2>1 DEF NoView
  <2> QED BY <1>0, <2>1, <2>2, <2>3, NoViewType, ViewKept
<1> QED BY <1>2, <1>3, <1>4, <1>5

(* What is kept while the snapshot is asked for is the newest, without a     *)
(* hole; it is all of it as long as the cap is not reached.                  *)
LEMMA PendedFact ==
  ASSUME NEW p \in Seq(Chunk), NEW n \in Chunk
  PROVE  /\ Pended(p, n) \in Seq(Chunk)
         /\ Len(p) < PendingCap => Len(Pended(p, n)) = Len(p) + 1
         /\ \A d \in Int : n = d + 1 /\ (\A i \in 1..Len(p) : p[i] = d - Len(p) + i)
              => \A i \in 1..Len(Pended(p, n)) : Pended(p, n)[i] = d + 1 - Len(Pended(p, n)) + i
<1>1. PICK q : q = Append(p, n) OBVIOUS
<1>2. /\ q \in Seq(Chunk) /\ Len(q) = Len(p) + 1 /\ Len(p) \in Nat /\ q # <<>>
      /\ q[Len(p) + 1] = n /\ \A i \in 1..Len(p) : q[i] = p[i]
  BY <1>1, AppendProperties
<1>3. PICK l \in Int : l = Len(p) /\ Len(q) = l + 1 BY <1>2
<1>4. ASSUME NEW d \in Int, n = d + 1, \A i \in 1..Len(p) : p[i] = d - Len(p) + i
      PROVE  \A i \in 1..Len(q) : q[i] = d - l + i
  <2> SUFFICES ASSUME NEW i \in 1..Len(q) PROVE q[i] = d - l + i
    OBVIOUS
  <2>1. CASE i = l + 1
    <3>1. d - l + (l + 1) = d + 1 BY <1>3
    <3> QED BY <1>2, <1>3, <1>4, <2>1, <3>1
  <2>2. CASE i # l + 1
    <3>1. i \in 1..Len(p) BY <1>3, <2>2
    <3> QED BY <1>2, <1>3, <1>4, <3>1
  <2> QED BY <2>1, <2>2
<1>5. CASE Len(q) > PendingCap
  <2>1. PICK t : t = Tail(q) OBVIOUS
  <2>2. Pended(p, n) = t BY <1>1, <1>5, <2>1 DEF Pended
  <2>3. t \in Seq(Chunk) /\ Len(t) = l /\ \A i \in 1..l : t[i] = q[i + 1]
    BY <1>2, <1>3, <2>1, HeadTailProperties
  <2>4. ~(Len(p) < PendingCap) BY <1>3, <1>5, StreamAssumption
  <2>5. ASSUME NEW d \in Int, n = d + 1, \A i \in 1..Len(p) : p[i] = d - Len(p) + i
        PROVE  \A i \in 1..Len(t) : t[i] = d + 1 - Len(t) + i
    <3>1. \A i \in 1..l : i + 1 \in 1..Len(q) /\ d - l + (i + 1) = d + 1 - l + i
      BY <1>3
    <3> QED BY <1>4, <2>3, <2>5, <3>1
  <2> QED BY <2>2, <2>3, <2>4, <2>5
<1>6. CASE ~(Len(q) > PendingCap)
  <2>1. Pended(p, n) = q BY <1>1, <1>6 DEF Pended
  <2>2. ASSUME NEW d \in Int, n = d + 1, \A i \in 1..Len(p) : p[i] = d - Len(p) + i
        PROVE  \A i \in 1..Len(q) : q[i] = d + 1 - Len(q) + i
    <3>1. \A i \in 1..Len(q) : d - l + i = d + 1 - Len(q) + i BY <1>3
    <3> QED BY <1>4, <2>2, <3>1
  <2> QED BY <1>2, <2>1, <2>2
<1> QED BY <1>5, <1>6

(* What a delivery does to a view that can join it.                          *)
Delivers(v, n) ==
  IF ~v.listening THEN v
  ELSE IF v.phase = "live" THEN Applied(v, n)
  ELSE [v EXCEPT !.pending = Pended(@, n), !.dropped = @ \/ Len(v.pending) >= PendingCap]

LEMMA DeliversType ==
  ASSUME NEW v \in View, NEW n \in Chunk
  PROVE  /\ Delivers(v, n) \in View
         /\ Delivers(v, n).phase = v.phase /\ Delivers(v, n).listening = v.listening
<1>1. CASE ~v.listening BY <1>1 DEF Delivers
<1>2. CASE v.listening /\ v.phase = "live"
  BY <1>2, AppliedType, AppliedSame DEF Delivers, Same
<1>3. CASE v.listening /\ v.phase # "live"
  <2>1. PICK q, b : q = Pended(v.pending, n) /\ b = (v.dropped \/ Len(v.pending) >= PendingCap)
    OBVIOUS
  <2>2. v.pending \in Seq(Chunk) /\ b \in BOOLEAN BY <2>1 DEF View
  <2>3. q \in Seq(Chunk) BY <2>1, <2>2, PendedFact
  <2>4. Delivers(v, n) = [v EXCEPT !.pending = q, !.dropped = b] BY <1>3, <2>1 DEF Delivers
  <2> QED BY <2>2, <2>3, <2>4 DEF View
<1> QED BY <1>1, <1>2, <1>3

LEMMA DeliversJoins ==
  ASSUME NEW v \in View, NEW n \in Chunk, NEW d \in Int, n = d + 1, NEW last \in Nat, n <= last,
         v.listening <=> v.phase \in {"asking", "answered", "live"}, Joins(v, last, d)
  PROVE  Joins(Delivers(v, n), last, d + 1)
<1>0. v.applied \in Nat /\ v.pending \in Seq(Chunk) /\ Len(v.pending) \in Nat BY DEF View
<1>1. CASE ~v.listening BY <1>1 DEF Delivers, Joins
<1>2. CASE v.listening /\ v.phase = "live"
  <2>1. PICK w : w = Applied(v, n) OBVIOUS
  <2>2. w.phase = "live" /\ w.listening BY <1>2, <2>1, AppliedSame DEF Same
  <2>3. n <= v.applied + 1 BY <1>0, <1>2 DEF Joins
  <2>4. IsRun(w.shown, w.applied) /\ w.applied = IF n <= v.applied THEN v.applied ELSE n
    BY <2>1, <2>3, RunGrows DEF Joins
  <2>5. w.applied <= last /\ w.applied >= d + 1 BY <1>0, <2>4 DEF Joins
  <2>6. Delivers(v, n) = w BY <1>2, <2>1 DEF Delivers
  <2> QED BY <2>2, <2>4, <2>5, <2>6 DEF Joins
<1>3. CASE v.listening /\ v.phase # "live"
  <2>1. PICK q, b : q = Pended(v.pending, n) /\ b = (v.dropped \/ Len(v.pending) >= PendingCap)
    OBVIOUS
  <2>2. PICK w : w = [v EXCEPT !.pending = q, !.dropped = b] OBVIOUS
  <2>3. Delivers(v, n) = w BY <1>3, <2>1, <2>2 DEF Delivers
  <2>4. /\ w.shown = v.shown /\ w.applied = v.applied /\ w.listening = v.listening
        /\ w.phase = v.phase /\ w.got = v.got /\ w.pending = q /\ w.dropped = b
    BY <2>2 DEF View
  <2>5. \A i \in 1..Len(v.pending) : v.pending[i] = d - Len(v.pending) + i
    BY <1>3 DEF Joins
  <2>6. \A i \in 1..Len(q) : q[i] = d + 1 - Len(q) + i BY <1>0, <2>1, <2>5, PendedFact
  <2>7. ASSUME v.phase = "answered", ~b PROVE v.got >= d + 1 - Len(q)
    <3>0. ~v.dropped /\ ~(Len(v.pending) >= PendingCap) BY <2>1, <2>7
    <3>1. v.got \in Nat /\ v.got >= d - Len(v.pending) BY <2>7, <3>0 DEF Joins
    <3>2. Len(v.pending) < PendingCap BY <1>0, <3>0, StreamAssumption
    <3>3. Len(q) = Len(v.pending) + 1 BY <1>0, <2>1, <3>2, PendedFact
    <3> QED BY <1>0, <3>1, <3>3
  <2>8. v.phase = "answered" => v.got \in Nat /\ v.applied <= v.got /\ v.got <= last
    BY DEF Joins
  <2>9. IsRun(w.shown, w.applied) /\ w.applied <= last BY <2>4 DEF Joins
  <2>10. w.phase = "answered" => w.dropped \/ w.got >= d + 1 - Len(w.pending) BY <2>4, <2>7
  <2>11. \A i \in 1..Len(w.pending) : w.pending[i] = d + 1 - Len(w.pending) + i BY <2>4, <2>6
  <2>12. w.phase = "answered" => w.got \in Nat /\ w.applied <= w.got /\ w.got <= last BY <2>4, <2>8
  <2>13. w.listening /\ w.phase # "live" BY <1>3, <2>4
  <2>14. PICK e \in Int : e = d + 1 OBVIOUS
  <2>15. /\ w.phase = "answered" => w.dropped \/ w.got >= e - Len(w.pending)
         /\ \A i \in 1..Len(w.pending) : w.pending[i] = e - Len(w.pending) + i
    <3>0. q \in Seq(Chunk) BY <1>0, <2>1, PendedFact
    <3>1. PICK k \in Int : k = e - Len(w.pending) /\ k = d + 1 - Len(w.pending)
      <4>1. PICK l \in Int : l = Len(w.pending) BY <2>4, <3>0
      <4>2. e - l \in Int /\ e - l = d + 1 - l BY <2>14
      <4> QED BY <4>1, <4>2
    <3>2. \A i \in 1..Len(w.pending) : w.pending[i] = k + i BY <2>11, <3>1
    <3>3. w.phase = "answered" => w.dropped \/ w.got >= k BY <2>10, <3>1, Zenon
    <3>4. \A i \in 1..Len(w.pending) : w.pending[i] = e - Len(w.pending) + i BY <3>1, <3>2
    <3>5. w.phase = "answered" => w.dropped \/ w.got >= e - Len(w.pending) BY <3>1, <3>3, Zenon
    <3> QED BY <3>4, <3>5, Zenon
  <2>16. Joins(w, last, e) BY <2>9, <2>12, <2>13, <2>15, Zenon DEF Joins
  <2> QED BY <2>3, <2>14, <2>16
<1> QED BY <1>1, <1>2, <1>3

LEMMA DeliveredFact ==
  ASSUME StreamInv, ~OutOfMap, events # <<>>
  PROVE  /\ relayed # "off" /\ Flow /\ Joins(view, lastSeq, Delivered)
         /\ Delivered \in Int /\ Head(events) = Delivered + 1 /\ Delivered + 1 <= lastSeq
<1>1. relayed # "off" /\ Flow /\ Joins(view, lastSeq, Delivered) BY DEF StreamInv, Wired
<1>2. /\ rx \in Seq(Chunk) /\ events \in Seq(Chunk) /\ lastSeq \in Nat
  BY <1>1 DEF StreamInv, Wired, PtyTypeOK
<1>3. Len(rx) \in Nat /\ Len(events) \in Nat /\ Len(events) >= 1 /\ Head(events) = events[1]
  BY <1>2, HeadTailProperties, EmptySeq
<1>4. Delivered \in Int /\ Delivered + 1 <= lastSeq BY <1>2, <1>3 DEF Delivered, Riding
<1>5. 1 \in 1..Len(events) BY <1>3
<1> QED BY <1>1, <1>3, <1>4, <1>5 DEF Flow

LEMMA DeliverKept ==
  ASSUME StreamInv, Deliver
  PROVE  StreamInv'
<1>0. lastSeq \in Nat /\ view \in View /\ events \in Seq(Chunk) /\ Wired
  BY DEF StreamInv, PtyTypeOK
<1>1. /\ events # <<>> /\ events' = Tail(events) /\ view' = Delivers(view, Head(events))
      /\ UNCHANGED <<session, lastSeq, emitting, rx, relayed, mounts>>
  BY DEF Deliver, Delivers
<1>2. relayed # "off" /\ rx \in Seq(Chunk) BY <1>0, <1>1 DEF Wired
<1>3. /\ events' \in Seq(Chunk) /\ Len(events') = Len(events) - 1 /\ Len(events) \in Nat
      /\ Head(events) \in Chunk
      /\ \A i \in 1..Len(events') : events'[i] = events[i + 1] /\ i + 1 \in 1..Len(events)
  BY <1>0, <1>1, HeadTailProperties
<1>4. view' \in View /\ view'.phase = view.phase /\ view'.listening = view.listening
  BY <1>0, <1>1, <1>3, DeliversType
<1>5. view.phase = "closed" => view' = NoView
  BY <1>0, <1>1 DEF Wired, Delivers, NoView
<1>6. PtyTypeOK' BY <1>1, <1>3, <1>4 DEF StreamInv, PtyTypeOK
<1>7. Wired' BY <1>0, <1>1, <1>2, <1>4, <1>5 DEF Wired
<1>8. ASSUME ~OutOfMap PROVE (Flow /\ Joins(view, lastSeq, Delivered))'
  <2>1. /\ Flow /\ Joins(view, lastSeq, Delivered) /\ Delivered \in Int
        /\ Head(events) = Delivered + 1 /\ Delivered + 1 <= lastSeq
    BY <1>1, <1>8, DeliveredFact
  <2>2. Delivered' = Delivered + 1
    <3>1. Len(rx) \in Nat /\ Riding \in Int /\ Riding' = Riding BY <1>1, <1>2 DEF Riding
    <3> QED BY <1>0, <1>1, <1>3, <3>1 DEF Delivered
  <2>3. Flow'
    <3>1. \A i \in 1..Len(events') : events'[i] = Delivered + 1 + i
      <4> SUFFICES ASSUME NEW i \in 1..Len(events') PROVE events'[i] = Delivered + 1 + i
        OBVIOUS
      <4>1. events'[i] = Delivered + (i + 1) /\ i \in Int BY <1>3, <2>1 DEF Flow
      <4> QED BY <2>1, <4>1
    <3>2. Riding' = Riding BY <1>1 DEF Riding
    <3> QED BY <1>1, <2>1, <2>2, <3>1, <3>2 DEF Flow
  <2>4. Joins(view', lastSeq, Delivered + 1)
    BY <1>0, <1>1, <1>3, <2>1, DeliversJoins DEF Wired
  <2> QED BY <1>1, <2>2, <2>3, <2>4
<1> QED BY <1>1, <1>6, <1>7, <1>8 DEF StreamInv, OutOfMap

(* The answer of a snapshot, by what becomes of the view.                    *)
Healed(v) == [Drained(v, v.pending) EXCEPT !.phase = "live", !.pending = <<>>, !.dropped = FALSE]
AskedAgain(v) == [v EXCEPT !.phase = "asking", !.dropped = FALSE, !.pending = <<>>, !.snaps = @ + 1]
Covered == IF view.got = Gone THEN view ELSE Painted(view, view.got)

LEMMA BackIs ==
  ASSUME SnapshotBack
  PROVE  /\ view.phase = "answered"
         /\ UNCHANGED <<session, lastSeq, emitting, rx, relayed, events, mounts>>
         /\ \/ view.got = Gone /\ view' = NoView
            \/ view.dropped /\ view.snaps < MaxSnapshots /\ view' = AskedAgain(Covered)
            \/ (view.dropped => view.got = Gone) /\ view' = Healed(Covered)
BY DEF SnapshotBack, AskedAgain, Covered, Healed

LEMMA CoveredType ==
  ASSUME view \in View
  PROVE  Covered \in View /\ Same(view, Covered)
<1>1. view.got # Gone => view.got \in 0..MaxChunks BY DEF View
<1> QED BY <1>1, PaintedFact DEF Covered, Same

LEMMA HealedType ==
  ASSUME NEW v \in View
  PROVE  /\ Healed(v) \in View /\ Healed(v).phase = "live" /\ Healed(v).pending = <<>>
         /\ Healed(v).listening = v.listening
         /\ Healed(v).shown = Drained(v, v.pending).shown
         /\ Healed(v).applied = Drained(v, v.pending).applied
<1>1. PICK w : w = Drained(v, v.pending) OBVIOUS
<1>2. v.pending \in Seq(Chunk) BY DEF View
<1>3. w \in View /\ Same(v, w) BY <1>1, <1>2, DrainType
<1>4. Healed(v) = [w EXCEPT !.phase = "live", !.pending = <<>>, !.dropped = FALSE]
  BY <1>1 DEF Healed
<1>5. <<>> \in Seq(Chunk) OBVIOUS
<1> QED BY <1>1, <1>3, <1>4, <1>5 DEF View, Same

LEMMA AskedType ==
  ASSUME NEW v \in View, v.snaps < MaxSnapshots
  PROVE  /\ AskedAgain(v) \in View /\ AskedAgain(v).phase = "asking" /\ AskedAgain(v).pending = <<>>
         /\ AskedAgain(v).listening = v.listening
         /\ AskedAgain(v).shown = v.shown /\ AskedAgain(v).applied = v.applied
<1>1. v.snaps + 1 \in 0..MaxSnapshots BY StreamAssumption DEF View
<1>2. <<>> \in Seq(Chunk) OBVIOUS
<1> QED BY <1>1, <1>2 DEF AskedAgain, View

(* What the answer paints joins what was kept meanwhile.                     *)
LEMMA HealedRun ==
  ASSUME view \in View, view.phase = "answered", ~view.dropped,
         NEW last \in Nat, last <= MaxChunks, NEW d \in Int, d <= last, Joins(view, last, d)
  PROVE  LET w == Healed(Covered)
         IN IsRun(w.shown, w.applied) /\ w.applied <= last /\ w.applied >= d /\ w.applied >= view.applied
<1>1. /\ view.got \in Nat /\ view.applied <= view.got /\ view.got <= last
      /\ view.got >= d - Len(view.pending)
      /\ \A i \in 1..Len(view.pending) : view.pending[i] = d - Len(view.pending) + i
  BY DEF Joins
<1>2. view.got # Gone /\ view.got \in 0..MaxChunks BY <1>1, StreamAssumption DEF Gone
<1>3. PICK v \in View : v = Covered BY CoveredType
<1>4. /\ v.shown = Ring(view.got) /\ v.applied = view.got /\ v.pending = view.pending
  BY <1>2, <1>3, PaintedFact DEF Covered, Same
<1>5. IsRun(v.shown, v.applied) BY <1>2, <1>4, RingRun
<1>6. PICK w : w = Drained(v, v.pending) OBVIOUS
<1>7. PICK p \in Seq(Chunk) : p = v.pending BY DEF View
<1>8. PICK l \in Nat : l = Len(p) BY <1>7
<1>9. PICK b \in Int : b = d - l BY <1>8
<1>10. b <= v.applied /\ \A i \in 1..Len(p) : p[i] = b + i BY <1>1, <1>4, <1>7, <1>8, <1>9
<1>11. /\ IsRun(w.shown, w.applied) /\ w.applied >= b + Len(p) /\ w.applied >= v.applied
       /\ w.applied = v.applied \/ w.applied <= b + Len(p)
  BY <1>5, <1>6, <1>7, <1>10, DrainRun
<1>12. b + Len(p) = d BY <1>8, <1>9
<1>13. w \in View BY <1>6, <1>7, DrainType
<1>14. w.applied <= last /\ w.applied >= d /\ w.applied >= view.applied
  <2>1. w.applied \in Int /\ view.applied \in Int BY <1>13 DEF View
  <2> QED BY <1>1, <1>4, <1>11, <1>12, <2>1
<1> QED BY <1>3, <1>6, <1>11, <1>14, HealedType

LEMMA SnapshotBackKept ==
  ASSUME StreamInv, SnapshotBack
  PROVE  StreamInv'
<1>0. lastSeq \in 0..MaxChunks /\ view \in View /\ mounts \in 0..MaxMounts /\ Wired
  BY DEF StreamInv, PtyTypeOK
<1>1. /\ view.phase = "answered" /\ mounts' = mounts
      /\ UNCHANGED <<session, lastSeq, emitting, rx, relayed, events>>
  BY BackIs
<1>2. relayed # "off" /\ view.listening BY <1>0, <1>1 DEF Wired, NoView
<1>3. Delivered \in Int /\ Delivered <= lastSeq
  <2>1. Len(rx) \in Nat /\ Len(events) \in Nat BY <1>0, <1>2 DEF Wired, StreamInv, PtyTypeOK
  <2> QED BY <1>0, <2>1 DEF Delivered, Riding
<1>4. PICK d \in Int : d = Delivered /\ d <= lastSeq BY <1>3
<1>5. CASE view.got = Gone /\ view' = NoView
  <2>1. Joins(view, lastSeq, d) => Joins(view', lastSeq, d) BY <1>0, <1>5, NoViewType
  <2>2. view'.phase = "closed" /\ view'.listening = FALSE BY <1>5 DEF NoView
  <2> QED BY <1>0, <1>1, <1>2, <1>4, <1>5, <2>1, <2>2, NoViewType, ViewKept
<1>6. CASE view.dropped /\ view.snaps < MaxSnapshots /\ view' = AskedAgain(Covered)
  <2>1. PICK v \in View : v = Covered /\ Same(view, v) BY <1>0, CoveredType
  <2>2. /\ view' \in View /\ view'.phase = "asking" /\ view'.pending = <<>> /\ view'.listening
        /\ view'.shown = v.shown /\ view'.applied = v.applied
    BY <1>2, <1>6, <2>1, AskedType DEF Same
  <2>3. ASSUME Joins(view, lastSeq, d) PROVE Joins(view', lastSeq, d)
    <3>1. view.got \in Nat /\ view.got <= lastSeq BY <1>1, <2>3 DEF Joins
    <3>2. view.got # Gone /\ view.got \in 0..MaxChunks BY <1>0, <3>1, StreamAssumption DEF Gone
    <3>3. v.shown = Ring(view.got) /\ v.applied = view.got
      BY <1>0, <2>1, <3>2, PaintedFact DEF Covered
    <3>4. IsRun(v.shown, v.applied) BY <3>2, <3>3, RingRun
    <3> QED BY <2>2, <3>1, <3>3, <3>4 DEF Joins
  <2> QED BY <1>0, <1>1, <1>2, <1>4, <2>2, <2>3, ViewKept
<1>7. CASE (view.dropped => view.got = Gone) /\ view' = Healed(Covered)
  <2>1. PICK v \in View : v = Covered /\ Same(view, v) BY <1>0, CoveredType
  <2>2. /\ view' \in View /\ view'.phase = "live" /\ view'.pending = <<>> /\ view'.listening
    BY <1>2, <1>7, <2>1, HealedType DEF Same
  <2>3. ASSUME Joins(view, lastSeq, d) PROVE Joins(view', lastSeq, d)
    <3>1. ~view.dropped BY <1>1, <1>7, <2>3 DEF Joins, Gone
    <3>2. /\ IsRun(view'.shown, view'.applied) /\ view'.applied <= lastSeq /\ view'.applied >= d
      BY <1>0, <1>1, <1>4, <1>7, <2>3, <3>1, HealedRun
    <3> QED BY <2>2, <3>2 DEF Joins
  <2> QED BY <1>0, <1>1, <1>2, <1>4, <2>2, <2>3, ViewKept
<1> QED BY <1>5, <1>6, <1>7, BackIs

LEMMA StreamStep ==
  ASSUME StreamInv, [PtyNext]_ptyVars
  PROVE  StreamInv'
<1>1. CASE PtyNext
  BY <1>1, BackendKept, FanOutKept, RelayKept, MountKept, DeliverKept, SnapshotBackKept DEF PtyNext
<1>2. CASE UNCHANGED ptyVars
  <2>1. PtyTypeOK' BY <1>2 DEF ptyVars, StreamInv, PtyTypeOK
  <2>2. Wired' BY <1>2 DEF ptyVars, StreamInv, Wired
  <2>3. OutOfMap' <=> OutOfMap BY <1>2 DEF ptyVars, OutOfMap
  <2>4. Delivered' = Delivered BY <1>2 DEF ptyVars, Delivered, Riding
  <2>5. Flow' <=> Flow
    <3>1. Riding' = Riding BY <1>2 DEF ptyVars, Riding
    <3> QED BY <1>2, <2>4, <3>1 DEF ptyVars, Flow
  <2>6. UNCHANGED <<view, lastSeq, relayed>> BY <1>2 DEF ptyVars
  <2> QED BY <2>1, <2>2, <2>3, <2>4, <2>5, <2>6 DEF StreamInv
<1> QED BY <1>1, <1>2

-----------------------------------------------------------------------------
(* The refinement: each step of the stream is one of the screen, or none.    *)

LEMMA IsARun ==
  ASSUME NEW s \in Seq(Chunk), NEW n \in Nat, IsRun(s, n)
  PROVE  s = Screen!Run(n - Len(s) + 1, n)
<1>1. PICK l \in Nat : l = Len(s) /\ l <= n BY DEF IsRun
<1>2. PICK r : r = Screen!Run(n - Len(s) + 1, n) OBVIOUS
<1>3. r = [i \in 1..l |-> n - l + 1 + i - 1]
  <2>1. n - (n - l + 1) + 1 = l BY <1>1
  <2> QED BY <1>1, <1>2, <2>1 DEF Screen!Run
<1>4. \A i \in 1..l : r[i] = s[i]
  <2> SUFFICES ASSUME NEW i \in 1..l PROVE r[i] = s[i]
    OBVIOUS
  <2>1. s[i] = n - l + i BY <1>1 DEF IsRun
  <2>2. n - l + 1 + i - 1 = n - l + i BY <1>1
  <2> QED BY <1>3, <2>1, <2>2
<1>5. s = [i \in 1..l |-> s[i]] BY <1>1
<1> QED BY <1>2, <1>3, <1>4, <1>5

LEMMA NewestIs ==
  ASSUME view \in View, IsRun(view.shown, view.applied)
  PROVE  Screen!Newest = view.applied
<1>1. view.shown \in Seq(Chunk) /\ view.applied \in Nat BY DEF View
<1>2. PICK l \in Nat : l = Len(view.shown) BY <1>1
<1>3. CASE view.shown = <<>> BY <1>3 DEF IsRun, Screen!Newest
<1>4. CASE view.shown # <<>>
  <2>1. l \in 1..l BY <1>1, <1>2, <1>4, EmptySeq
  <2>2. view.shown[l] = view.applied - l + l BY <1>2, <2>1 DEF IsRun
  <2>3. view.shown[l] = view.applied BY <1>1, <1>2, <2>2
  <2> QED BY <1>2, <1>4, <2>3 DEF Screen!Newest, Screen!Last
<1> QED BY <1>3, <1>4

Mapped == [Screen!ScreenNext]_<<view.shown, OutOfMap>>

LEMMA RepaintMapped ==
  ASSUME StreamInv, ~OutOfMap, UNCHANGED OutOfMap, IsRun(view.shown, view.applied),
         view' \in View, IsRun(view'.shown, view'.applied), view'.applied >= view.applied
  PROVE  Mapped
<1>1. view \in View BY DEF StreamInv, PtyTypeOK
<1>2. PICK s \in Seq(Chunk) : s = view'.shown BY DEF View
<1>3. PICK n \in 0..MaxChunks : n = view'.applied BY DEF View
<1>4. s = Screen!Run(n - Len(s) + 1, n) BY <1>2, <1>3, IsARun
<1>5. Len(s) \in Nat /\ Len(s) <= n BY <1>2, <1>3 DEF IsRun
<1>6. n - Len(s) + 1 \in 1..MaxChunks + 1 BY <1>3, <1>5, StreamAssumption
<1>7. n \in Screen!Newest..MaxChunks
  <2>1. Screen!Newest = view.applied /\ view.applied \in Nat BY <1>1, NewestIs DEF View
  <2> QED BY <1>3, <2>1
<1>8. Screen!Repaint BY <1>2, <1>4, <1>6, <1>7 DEF Screen!Repaint
<1> QED BY <1>8 DEF Mapped, Screen!ScreenNext

LEMMA StepMapped ==
  ASSUME StreamInv, StreamInv', [PtyNext]_ptyVars
  PROVE  Mapped
<1>0. view \in View /\ view' \in View /\ Wired BY DEF StreamInv, PtyTypeOK
<1>1. CASE OutOfMap
  <2>1. OutOfMap'
    BY <1>1 DEF PtyNext, ptyVars, OutOfMap, CreateSession, Subscribe, Push, FanOut, ChildExits,
       RemoveSession, ReaderJoined, Relay, RelayEnds, Mount, Listen, Snapshot, SnapshotBack, Deliver, Unmount
  <2>2. view'.shown \in Seq(1..MaxChunks) BY <1>0 DEF View, Chunk
  <2> QED BY <1>1, <2>1, <2>2 DEF Mapped, Screen!ScreenNext
<1>2. CASE ~OutOfMap /\ RemoveSession
  <2>1. OutOfMap' = TRUE /\ view' = view BY <1>2 DEF RemoveSession, OutOfMap
  <2> QED BY <1>2, <2>1 DEF Mapped, Screen!ScreenNext
<1>3. CASE ~OutOfMap /\ UNCHANGED <<OutOfMap, view.shown>> BY <1>3 DEF Mapped
<1>4. CASE ~OutOfMap /\ UNCHANGED OutOfMap /\ view'.shown = <<>>
  BY <1>4 DEF Mapped, Screen!ScreenNext, Screen!Blank
<1>5. CASE ~OutOfMap /\ Deliver
  <2>1. /\ events # <<>> /\ view' = Delivers(view, Head(events)) /\ OutOfMap' = OutOfMap
    BY <1>5 DEF Deliver, Delivers, OutOfMap
  <2>2. /\ Joins(view, lastSeq, Delivered) /\ Delivered \in Int /\ Head(events) = Delivered + 1
    BY <1>5, <2>1, DeliveredFact
  <2>3. PICK n \in Chunk : n = Head(events)
    <3>1. events \in Seq(Chunk) BY DEF StreamInv, PtyTypeOK
    <3> QED BY <2>1, <3>1, HeadTailProperties
  <2>4. CASE ~view.listening BY <1>3, <1>5, <2>1, <2>4 DEF Delivers
  <2>5. CASE view.listening /\ view.phase = "live"
    <3>1. view' = Applied(view, n) BY <2>1, <2>3, <2>5 DEF Delivers
    <3>2. view.applied \in Nat /\ n <= view.applied + 1 BY <1>0, <2>2, <2>3, <2>5 DEF Joins, View
    <3>3. /\ IsRun(view.shown, view.applied)
          /\ view'.shown = IF n <= view.applied THEN view.shown ELSE Append(view.shown, n)
      BY <1>0, <2>2, <3>1, <3>2, RunGrows DEF Joins
    <3>4. CASE n <= view.applied BY <1>3, <1>5, <2>1, <3>3, <3>4
    <3>5. CASE ~(n <= view.applied)
      <4>1. n = Screen!Newest + 1 BY <1>0, <3>2, <3>3, <3>5, NewestIs DEF Chunk
      <4>2. Screen!Grow BY <3>3, <3>5, <4>1 DEF Screen!Grow
      <4> QED BY <1>5, <2>1, <4>2 DEF Mapped, Screen!ScreenNext
    <3> QED BY <3>4, <3>5
  <2>6. CASE view.listening /\ view.phase # "live"
    <3>1. view'.shown = view.shown BY <1>0, <2>1, <2>6 DEF Delivers, View
    <3> QED BY <1>3, <1>5, <2>1, <3>1
  <2> QED BY <2>4, <2>5, <2>6
<1>6. CASE ~OutOfMap /\ SnapshotBack
  <2>1. /\ view.phase = "answered" /\ OutOfMap' = OutOfMap
        /\ \/ view' = NoView
           \/ view.dropped /\ view.snaps < MaxSnapshots /\ view' = AskedAgain(Covered)
           \/ (view.dropped => view.got = Gone) /\ view' = Healed(Covered)
    BY <1>6, BackIs DEF OutOfMap
  <2>2. relayed # "off" /\ Joins(view, lastSeq, Delivered)
    BY <1>0, <1>6, <2>1 DEF StreamInv, Wired, NoView
  <2>3. PICK last \in 0..MaxChunks, d \in Int : last = lastSeq /\ d = Delivered /\ d <= last
    <3>1. rx \in Seq(Chunk) /\ events \in Seq(Chunk) /\ lastSeq \in 0..MaxChunks
      BY <2>2 DEF StreamInv, Wired, PtyTypeOK
    <3>2. Len(rx) \in Nat /\ Len(events) \in Nat BY <3>1
    <3>3. Delivered \in Int /\ Delivered <= lastSeq BY <3>1, <3>2 DEF Delivered, Riding
    <3> QED BY <3>1, <3>3
  <2>4. /\ view.got \in Nat /\ view.got <= last /\ view.applied <= view.got
        /\ IsRun(view.shown, view.applied)
    BY <2>1, <2>2, <2>3 DEF Joins
  <2>5. view.got # Gone /\ view.got \in 0..MaxChunks BY <2>3, <2>4, StreamAssumption DEF Gone
  <2>6. CASE view' = NoView BY <1>4, <1>6, <2>1, <2>6 DEF NoView
  <2>7. CASE view.dropped /\ view.snaps < MaxSnapshots /\ view' = AskedAgain(Covered)
    <3>1. PICK v \in View : v = Covered /\ Same(view, v) BY <1>0, CoveredType
    <3>2. view'.shown = v.shown /\ view'.applied = v.applied
      BY <2>7, <3>1, AskedType DEF Same
    <3>3. v.shown = Ring(view.got) /\ v.applied = view.got
      BY <1>0, <2>5, <3>1, PaintedFact DEF Covered
    <3>4. IsRun(v.shown, v.applied) BY <2>5, <3>3, RingRun
    <3> QED BY <1>0, <1>6, <2>1, <2>4, <3>2, <3>3, <3>4, RepaintMapped
  <2>8. CASE (view.dropped => view.got = Gone) /\ view' = Healed(Covered)
    <3>1. ~view.dropped BY <2>5, <2>8
    <3>2. IsRun(view'.shown, view'.applied) /\ view'.applied >= view.applied
      BY <1>0, <2>1, <2>2, <2>3, <2>8, <3>1, HealedRun
    <3> QED BY <1>0, <1>6, <2>1, <2>4, <3>2, RepaintMapped
  <2> QED BY <2>1, <2>6, <2>7, <2>8
<1>7. CASE ~OutOfMap /\ (Mount \/ Unmount)
  <2>1. OutOfMap' = OutOfMap /\ view'.shown = <<>> BY <1>7 DEF Mount, Unmount, OutOfMap, NoView
  <2> QED BY <1>4, <1>7, <2>1
<1>8. CASE ~OutOfMap /\ (Listen \/ Snapshot)
  <2>1. OutOfMap' = OutOfMap BY <1>8 DEF Listen, Snapshot, OutOfMap
  <2>2. view'.shown = view.shown BY <1>0, <1>8 DEF Listen, Snapshot, View
  <2> QED BY <1>3, <1>8, <2>1, <2>2
<1>9. CASE ~OutOfMap /\ ( \/ CreateSession \/ Subscribe \/ Push \/ FanOut \/ ChildExits \/ ReaderJoined
                         \/ Relay \/ RelayEnds \/ UNCHANGED ptyVars)
  <2>1. view' = view /\ OutOfMap' = OutOfMap
    BY <1>9 DEF CreateSession, Subscribe, Push, FanOut, ChildExits, ReaderJoined, Relay, RelayEnds, ptyVars,
       OutOfMap
  <2> QED BY <1>3, <1>9, <2>1
<1> QED BY <1>1, <1>2, <1>5, <1>6, <1>7, <1>8, <1>9 DEF PtyNext

(* The types of the stream.                                                  *)
THEOREM PtyTypeTheorem == PtySpec => []PtyTypeOK
<1>1. PtyInit => StreamInv BY StreamInit
<1>2. StreamInv /\ [PtyNext]_ptyVars => StreamInv' BY StreamStep
<1>3. StreamInv => PtyTypeOK BY DEF StreamInv
<1> QED BY <1>1, <1>2, <1>3, PTL DEF PtySpec

(* What a panel shows is a run of the output: no chunk is lost, doubled or   *)
(* reordered between the reader, the relay, the snapshots and the drain.     *)
THEOREM ScreenTheorem == PtySpec => ShowsARun
<1>1. PtyInit => StreamInv BY StreamInit
<1>2. StreamInv /\ [PtyNext]_ptyVars => StreamInv' BY StreamStep
<1>3. PtyInit => Screen!ScreenInit BY DEF PtyInit, NoView, OutOfMap, Screen!ScreenInit
<1>4. StreamInv /\ StreamInv' /\ [PtyNext]_ptyVars => [Screen!ScreenNext]_<<view.shown, OutOfMap>>
  BY StepMapped DEF Mapped
<1> QED BY <1>1, <1>2, <1>3, <1>4, PTL DEF PtySpec, ShowsARun, Screen!ScreenSpec

-----------------------------------------------------------------------------
(* The timeline poller.                                                      *)

(* The records of the thread's state: an item is the version of the file it   *)
(* was last read from and its revision, a tail has read no further than the   *)
(* items it has.                                                              *)
Item == [gen : Nat, rev : Nat]
FileOK == file \in [Agents -> [gen : Nat, n : 0 .. MaxRecs]]
TailOK(t) ==
  /\ t \in [off : 0 .. MaxRecs, items : Seq(Item), on : BOOLEAN]
  /\ t.off <= Len(t.items) /\ Len(t.items) <= MaxRecs
DoneOK(d) ==
  d \in [sig : [gen : Nat, n : 0 .. MaxRecs], items : Seq(Item)] /\ Len(d.items) <= MaxRecs
StableOK(s) == s \in [sig : [gen : Nat, n : 0 .. MaxRecs], n : 0 .. DoneStreak]

Counters ==
  /\ main \in 0 .. MaxMain /\ items \in 0 .. main /\ stored \in 0 .. items
  /\ pc \in {"off", "sleep", "flush", "poll", "ended"}
  /\ age \in 0 .. SaveTicks /\ faults \in 0 .. MaxFaults

(* A subagent has the items of its tail or those that were kept when it was   *)
(* done, never both.                                                          *)
Frames ==
  /\ DOMAIN tail = Agents /\ DOMAIN done = Agents /\ DOMAIN stable = Agents
  /\ \A a \in Agents : /\ TailOK(tail[a]) /\ DoneOK(done[a]) /\ StableOK(stable[a])
                       /\ ~(tail[a].on /\ tail[a].items # <<>> /\ done[a].items # <<>>)

TLInv == Counters /\ FileOK /\ Frames

LEMMA TLInvTypes == TLInv => TLTypeOK
BY DEF TLInv, Counters, Frames, TailOK, DoneOK, StableOK, TLTypeOK

LEMMA NoneOK == TailOK(NoTail) /\ DoneOK(NotDone) /\ StableOK([sig |-> NoSig, n |-> 0])
<1>1. <<>> \in Seq(Item) /\ Len(<<>>) = 0 OBVIOUS
<1>2. 0 \in 0 .. MaxRecs /\ 0 \in 0 .. DoneStreak BY TimelinePollAssumption
<1> QED BY <1>1, <1>2, TimelinePollAssumption DEF TailOK, DoneOK, StableOK, NoTail, NotDone, NoSig

LEMMA TLInitKept == TLInit => TLInv
<1> SUFFICES ASSUME TLInit PROVE TLInv OBVIOUS
<1>1. Counters BY TimelinePollAssumption DEF TLInit, Counters
<1>2. FileOK BY TimelinePollAssumption DEF TLInit, FileOK, NoSig
<1>3. Frames
  <2>1. \A a \in Agents : tail[a] = NoTail /\ done[a] = NotDone /\ stable[a] = [sig |-> NoSig, n |-> 0]
    BY DEF TLInit
  <2>2. NoTail.on = FALSE BY DEF NoTail
  <2>3. DOMAIN tail = Agents /\ DOMAIN done = Agents /\ DOMAIN stable = Agents BY DEF TLInit
  <2> QED BY <2>1, <2>2, <2>3, NoneOK DEF Frames
<1> QED BY <1>1, <1>2, <1>3 DEF TLInv

LEMMA PolledOK ==
  ASSUME NEW t, TailOK(t), NEW f \in [gen : Nat, n : 0 .. MaxRecs]
  PROVE  TailOK(Polled(t, f)) /\ Polled(t, f).on
<1>1. PICK from : from = IF f.n < t.off THEN 0 ELSE t.off OBVIOUS
<1>2. PICK had \in Nat : had = Len(t.items) BY DEF TailOK
<1>3. PICK N \in Nat : N = IF f.n > had THEN f.n ELSE had BY <1>2
<1>4. t.items \in Seq(Item) /\ had <= MaxRecs /\ t.off <= had /\ t.off \in Nat /\ f.n \in Nat /\ f.n <= MaxRecs
  BY <1>2, TimelinePollAssumption DEF TailOK
<1>5. PICK s : s = [k \in 1 .. N |->
                      IF k \notin from + 1 .. f.n THEN t.items[k]
                      ELSE [gen |-> f.gen, rev |-> IF k <= had THEN t.items[k].rev + 1 ELSE 0]]
  OBVIOUS
<1>6. \A k \in 1 .. N : (IF k \notin from + 1 .. f.n THEN t.items[k]
                      ELSE [gen |-> f.gen, rev |-> IF k <= had THEN t.items[k].rev + 1 ELSE 0]) \in Item
  <2> SUFFICES ASSUME NEW k \in 1 .. N
               PROVE (IF k \notin from + 1 .. f.n THEN t.items[k]
                      ELSE [gen |-> f.gen, rev |-> IF k <= had THEN t.items[k].rev + 1 ELSE 0]) \in Item
    OBVIOUS
  <2>1. k <= had => t.items[k] \in Item BY <1>2, <1>4
  <2>2. CASE k \notin from + 1 .. f.n
    <3>1. k <= had BY <1>1, <1>3, <1>4, <2>2
    <3> QED BY <2>1, <2>2, <3>1
  <2>3. CASE k \in from + 1 .. f.n
    <3>1. (IF k <= had THEN t.items[k].rev + 1 ELSE 0) \in Nat BY <2>1 DEF Item
    <3> QED BY <2>3, <3>1 DEF Item
  <2> QED BY <2>2, <2>3
<1>7. s \in Seq(Item) /\ Len(s) = N BY <1>5, <1>6
<1>8. Polled(t, f) = [on |-> TRUE, off |-> f.n, items |-> s]
  BY <1>1, <1>2, <1>3, <1>5 DEF Polled
<1>9. f.n \in 0 .. MaxRecs /\ f.n <= N /\ N <= MaxRecs BY <1>3, <1>4
<1> QED BY <1>7, <1>8, <1>9 DEF TailOK

LEMMA PollKept ==
  ASSUME TLInv, Poll
  PROVE  TLInv'
<1> DEFINE t1 == [a \in Agents |-> Scanned(a)]
           st == [a \in Agents |-> Streak(a, t1[a])]
           fin == {a \in Agents : t1[a].on /\ Finished(t1[a], st[a])}
<1>1. /\ UNCHANGED <<main, file, stop, age, stored, faults>> /\ items' = main
      /\ pc' \in {"sleep", "ended"}
  BY DEF Poll, transcripts, Emit
<1>2. /\ tail' = [a \in Agents |-> IF a \in fin THEN NoTail ELSE t1[a]]
      /\ done' = [a \in Agents |-> IF a \in fin THEN [sig |-> st[a].sig, items |-> t1[a].items]
                                 ELSE StillDone(a, t1[a])]
      /\ stable' = [a \in Agents |-> IF a \in fin THEN [sig |-> NoSig, n |-> 0] ELSE st[a]]
  BY DEF Poll, Tails
<1>3. \A a \in Agents : file[a] \in [gen : Nat, n : 0 .. MaxRecs] BY DEF TLInv, FileOK
<1>4. \A a \in Agents : TailOK(t1[a])
  BY <1>3, PolledOK DEF Scanned, TLInv, Frames
<1>5. \A a \in Agents : StableOK(st[a])
  <2> SUFFICES ASSUME NEW a \in Agents PROVE StableOK(st[a])
    OBVIOUS
  <2>1. StableOK(stable[a]) BY DEF TLInv, Frames
  <2>2. PICK n : n = IF stable[a].sig # file[a] THEN 0
                     ELSE IF stable[a].n < DoneStreak THEN stable[a].n + 1 ELSE DoneStreak
    OBVIOUS
  <2>3. n \in 0 .. DoneStreak BY <2>1, <2>2, TimelinePollAssumption DEF StableOK
  <2>4. st[a] = IF ~t1[a].on THEN [sig |-> NoSig, n |-> 0] ELSE [sig |-> file[a], n |-> n]
    BY <2>2 DEF Streak
  <2> QED BY <1>3, <2>3, <2>4, NoneOK DEF StableOK
<1>6. \A a \in Agents : DoneOK(StillDone(a, t1[a])) BY NoneOK DEF StillDone, TLInv, Frames
<1> HIDE DEF t1, st
<1>7. Frames'
  <2> SUFFICES ASSUME NEW a \in Agents
               PROVE  /\ TailOK(tail'[a]) /\ DoneOK(done'[a]) /\ StableOK(stable'[a])
                      /\ ~(tail'[a].on /\ tail'[a].items # <<>> /\ done'[a].items # <<>>)
    BY <1>2 DEF Frames, TailOK, DoneOK, StableOK
  <2>1. CASE a \in fin
    <3>1. tail'[a] = NoTail /\ done'[a] = [sig |-> st[a].sig, items |-> t1[a].items]
          /\ stable'[a] = [sig |-> NoSig, n |-> 0]
      BY <1>2, <2>1
    <3>2. DoneOK(done'[a]) BY <1>4, <1>5, <3>1 DEF TailOK, StableOK, DoneOK
    <3>3. NoTail.on = FALSE BY DEF NoTail
    <3> QED BY <3>1, <3>2, <3>3, NoneOK
  <2>2. CASE a \notin fin
    <3>1. tail'[a] = t1[a] /\ done'[a] = StillDone(a, t1[a]) /\ stable'[a] = st[a]
      BY <1>2, <2>2
    <3>2. t1[a].on /\ t1[a].items # <<>> => done'[a].items = <<>>
      BY <3>1 DEF StillDone, NotDone
    <3> QED BY <1>4, <1>5, <1>6, <3>1, <3>2
  <2> QED BY <2>1, <2>2
<1>8. Counters' BY <1>1 DEF TLInv, Counters
<1> QED BY <1>1, <1>7, <1>8 DEF TLInv, FileOK

LEMMA TLStep ==
  ASSUME TLInv, [TLNext]_tlVars
  PROVE  TLInv'
<1>1. CASE StartPoll \/ AppendMain \/ StopPoll \/ Wake \/ FlushSnapshot \/ PollFails
  <2>1. UNCHANGED <<file, items, tail, done, stable>>
    BY <1>1 DEF StartPoll, AppendMain, StopPoll, Wake, FlushSnapshot, PollFails, transcripts, poll, snap
  <2>2. Counters'
    BY <1>1, TimelinePollAssumption DEF TLInv, Counters, StartPoll, AppendMain, StopPoll, Wake, FlushSnapshot,
       PollFails, transcripts, poll, snap
  <2> QED BY <2>1, <2>2 DEF TLInv, FileOK, Frames
<1>2. ASSUME NEW a \in Agents, AppendAgent(a) \/ Rewrite(a) PROVE TLInv'
  <2>1. UNCHANGED <<main, pc, stop, poll, snap, faults>> BY <1>2 DEF AppendAgent, Rewrite
  <2>2. PICK g, n : file' = [file EXCEPT ![a] = [gen |-> g, n |-> n]] /\ g \in Nat /\ n \in 0 .. MaxRecs
    <3>1. file[a] \in [gen : Nat, n : 0 .. MaxRecs] BY DEF TLInv, FileOK
    <3>2. CASE AppendAgent(a)
      <4>1. file' = [file EXCEPT ![a] = [gen |-> IF file[a].gen = 0 THEN 1 ELSE file[a].gen, n |-> file[a].n + 1]]
        BY <3>2 DEF AppendAgent
      <4>2. file[a].n + 1 \in 0 .. MaxRecs BY <3>1, <3>2, TimelinePollAssumption DEF AppendAgent
      <4> QED BY <3>1, <4>1, <4>2
    <3>3. CASE Rewrite(a)
      <4>1. PICK n \in {0, file[a].n} : file' = [file EXCEPT ![a] = [gen |-> file[a].gen + 1, n |-> n]]
        BY <3>3 DEF Rewrite
      <4>2. file[a].gen + 1 \in Nat /\ n \in 0 .. MaxRecs BY <3>1, TimelinePollAssumption
      <4> QED BY <4>1, <4>2
    <3> QED BY <1>2, <3>2, <3>3
  <2>3. FileOK' BY <2>2 DEF TLInv, FileOK
  <2> QED BY <2>1, <2>3 DEF TLInv, Counters, Frames, poll, snap
<1>3. CASE Poll BY <1>3, PollKept
<1>4. CASE UNCHANGED tlVars BY <1>4 DEF tlVars, TLInv, Counters, FileOK, Frames
<1> QED BY <1>1, <1>2, <1>3, <1>4 DEF TLNext

(* The types of the poller: a tail has read no further than the items it has.  *)
THEOREM TLTypeTheorem == TLSpec => []TLTypeOK
<1>1. TLInv /\ [TLNext]_tlVars => TLInv' BY TLStep
<1> QED BY <1>1, TLInitKept, TLInvTypes, PTL DEF TLSpec

-----------------------------------------------------------------------------
(* Sums over a list.                                                         *)

LEMMA UpTo ==
  ASSUME NEW m \in Nat, NEW S, 0 \in S, \A n \in 1..m : n - 1 \in S => n \in S
  PROVE  m \in S
<1> DEFINE T == {n \in 0..m : n \notin S}
<1>1. SUFFICES ASSUME T # {} PROVE FALSE
  OBVIOUS
<1>2. PICK n \in T : \A k \in T : n <= k
  <2>1. T \in SUBSET Nat OBVIOUS
  <2> HIDE DEF T
  <2> QED BY <1>1, <2>1, LeastNat
<1>3. n \in 0..m /\ n # 0 /\ n \notin S
  <2>1. n \in 0..m /\ n \notin S BY ONLY <1>2
  <2> QED BY ONLY <2>1, 0 \in S
<1>6. n \in 1..m /\ n - 1 \in 0..m /\ ~(n <= n - 1) BY ONLY <1>3, m \in Nat
<1>4. n - 1 \in S BY <1>2, <1>6
<1>5. n \in S BY <1>4, <1>6
<1> QED BY ONLY <1>3, <1>5

LEMMA AsSeq ==
  ASSUME NEW n \in Nat, NEW S, NEW v \in [1..n -> S]
  PROVE  v \in Seq(S) /\ Len(v) = n
<1>1. v \in Seq(S) BY ONLY n \in Nat, v \in [1..n -> S], SeqDef
<1>2. Len(v) \in Nat /\ DOMAIN v = 1..Len(v) BY ONLY <1>1, LenProperties
<1>3. DOMAIN v = 1..n OBVIOUS
<1>4. Len(v) = n BY ONLY <1>2, <1>3, n \in Nat
<1> QED BY ONLY <1>1, <1>4

IsTotals(s, q, n) == s = [k \in 0 .. n |-> IF k = 0 THEN 0 ELSE s[k - 1] + q[k]]

LEMMA TotalsExist ==
  ASSUME NEW q, NEW m \in Nat
  PROVE  \E s : IsTotals(s, q, m)
<1> DEFINE S == {n \in 0..m : \E s : IsTotals(s, q, n)}
<1>1. 0 \in S
  <2>1. IsTotals([k \in 0..0 |-> 0], q, 0) BY DEF IsTotals
  <2> QED BY <2>1
<1>2. ASSUME NEW n \in 1..m, n - 1 \in S PROVE n \in S
  <2>1. PICK s : IsTotals(s, q, n - 1) BY <1>2
  <2> DEFINE g == [k \in 0..n |-> IF k = n THEN s[n - 1] + q[n] ELSE s[k]]
  <2>2. ASSUME NEW k \in 0..n PROVE g[k] = IF k = 0 THEN 0 ELSE g[k - 1] + q[k]
    <3>1. k # 0 => k - 1 \in 0..n /\ k - 1 # n /\ g[k - 1] = s[k - 1] OBVIOUS
    <3>2. CASE k = n BY <3>1, <3>2
    <3>3. CASE k # n
      <4>1. k \in 0..(n - 1) /\ g[k] = s[k] BY <3>3
      <4>2. s[k] = IF k = 0 THEN 0 ELSE s[k - 1] + q[k] BY <2>1, <4>1 DEF IsTotals
      <4> QED BY <3>1, <4>1, <4>2
    <3> QED BY <3>2, <3>3
  <2>3. IsTotals(g, q, n)
    <3>1. g = [k \in 0..n |-> g[k]] OBVIOUS
    <3> HIDE DEF g
    <3> QED BY <2>2, <3>1 DEF IsTotals
  <2> QED BY <2>3
<1> HIDE DEF S
<1>3. m \in S BY <1>1, <1>2, UpTo
<1> QED BY <1>3 DEF S

LEMMA TotalUnfold ==
  ASSUME NEW q, Len(q) \in Nat
  PROVE  \E s : /\ s[0] = 0 /\ Total(q) = s[Len(q)]
                /\ \A k \in 1..Len(q) : s[k] = s[k - 1] + q[k]
<1>1. PICK s : s = CHOOSE r : IsTotals(r, q, Len(q)) OBVIOUS
<1>2. Total(q) = s[Len(q)] BY <1>1 DEF Total, IsTotals
<1>3. IsTotals(s, q, Len(q)) BY <1>1, TotalsExist
<1>4. s[0] = 0 BY <1>3 DEF IsTotals
<1>5. ASSUME NEW k \in 1..Len(q) PROVE s[k] = s[k - 1] + q[k]
  <2>1. k \in 0..Len(q) /\ k # 0 OBVIOUS
  <2> QED BY <1>3, <2>1 DEF IsTotals
<1> QED BY <1>2, <1>4, <1>5

LEMMA SumsInOrder ==
  ASSUME NEW a \in Nat, NEW b \in Nat, NEW x \in Nat, NEW y \in Nat, a <= b, x <= y
  PROVE  /\ a + x \in Nat /\ b + y \in Nat /\ a + x <= b + y
         /\ (a + x = b + y) => (a = b /\ x = y)
OBVIOUS

(* The running totals s of q and t of p up to n: in order, and equal only if *)
(* the lists agree so far; and from l on: t grows, or p adds nothing to it.  *)
InOrder(s, t, q, p, n) == /\ s[n] \in Nat /\ t[n] \in Nat /\ s[n] <= t[n]
                          /\ (s[n] = t[n]) => \A k \in 1..n : q[k] = p[k]
GrowsFrom(t, p, l, n) == /\ t[n] \in Nat /\ t[l] <= t[n]
                         /\ (t[l] = t[n]) => \A k \in l + 1 .. n : p[k] = 0

LEMMA InOrderStep ==
  ASSUME NEW s, NEW t, NEW q, NEW p, NEW n \in Nat, n # 0, InOrder(s, t, q, p, n - 1),
         s[n] = s[n - 1] + q[n], t[n] = t[n - 1] + p[n], q[n] \in Nat, p[n] \in Nat, q[n] <= p[n]
  PROVE  InOrder(s, t, q, p, n)
<1>1. PICK a \in Nat, b \in Nat : a = s[n - 1] /\ b = t[n - 1] /\ a <= b BY DEF InOrder
<1>2. PICK x \in Nat, y \in Nat : x = q[n] /\ y = p[n] /\ x <= y OBVIOUS
<1>3. s[n] = a + x /\ t[n] = b + y BY <1>1, <1>2
<1>4. /\ a + x \in Nat /\ b + y \in Nat /\ a + x <= b + y
      /\ (a + x = b + y) => (a = b /\ x = y)
  BY ONLY <1>1, <1>2, SumsInOrder
<1>5. ASSUME s[n] = t[n] PROVE \A k \in 1..n : q[k] = p[k]
  <2>1. a = b /\ x = y BY ONLY <1>3, <1>4, <1>5
  <2>2. q[n] = p[n] BY ONLY <1>2, <2>1
  <2>3. \A k \in 1..(n - 1) : q[k] = p[k] BY <1>1, <2>1 DEF InOrder
  <2>4. \A k \in 1..n : k = n \/ k \in 1..(n - 1) OBVIOUS
  <2> QED BY ONLY <2>2, <2>3, <2>4
<1>6. s[n] \in Nat /\ t[n] \in Nat /\ s[n] <= t[n] BY ONLY <1>3, <1>4
<1> QED BY ONLY <1>5, <1>6 DEF InOrder

LEMMA GrowsStep ==
  ASSUME NEW t, NEW p, NEW l \in Nat, NEW n \in Nat, l < n, t[l] \in Nat, GrowsFrom(t, p, l, n - 1),
         t[n] = t[n - 1] + p[n], p[n] \in Nat
  PROVE  GrowsFrom(t, p, l, n)
<1>1. PICK a \in Nat, b \in Nat, y \in Nat : a = t[l] /\ b = t[n - 1] /\ a <= b /\ y = p[n]
  BY DEF GrowsFrom
<1>2. t[n] = b + y BY <1>1
<1>3. b + y \in Nat /\ a <= b + y /\ ((a = b + y) => (a = b /\ y = 0)) BY ONLY <1>1
<1>4. ASSUME t[l] = t[n] PROVE \A k \in l + 1 .. n : p[k] = 0
  <2>1. a = b /\ y = 0 BY ONLY <1>1, <1>2, <1>3, <1>4
  <2>2. p[n] = 0 BY ONLY <1>1, <2>1
  <2>3. \A k \in l + 1 .. n - 1 : p[k] = 0 BY <1>1, <2>1 DEF GrowsFrom
  <2>4. \A k \in l + 1 .. n : k = n \/ k \in l + 1 .. n - 1 OBVIOUS
  <2> QED BY ONLY <2>2, <2>3, <2>4
<1>5. t[n] \in Nat /\ t[l] <= t[n] BY ONLY <1>1, <1>2, <1>3
<1> QED BY ONLY <1>4, <1>5 DEF GrowsFrom

(* A list that is longer, and nowhere less, has a total that is not less; and *)
(* if it is not more either, then it was only made longer by zeros.           *)
LEMMA TotalGrows ==
  ASSUME NEW q \in Seq(Nat), NEW p \in Seq(Nat), Len(q) <= Len(p), \A k \in 1..Len(q) : q[k] <= p[k]
  PROVE  /\ Total(q) \in Nat /\ Total(p) \in Nat /\ Total(q) <= Total(p)
         /\ Total(q) = Total(p) => /\ \A k \in 1..Len(q) : q[k] = p[k]
                                   /\ \A k \in Len(q) + 1 .. Len(p) : p[k] = 0
<1>0. PICK l \in Nat, m \in Nat : l = Len(q) /\ m = Len(p) /\ l <= m OBVIOUS
<1>1. PICK s : s[0] = 0 /\ Total(q) = s[l] /\ \A k \in 1..l : s[k] = s[k - 1] + q[k]
  BY <1>0, TotalUnfold
<1>2. PICK t : t[0] = 0 /\ Total(p) = t[m] /\ \A k \in 1..m : t[k] = t[k - 1] + p[k]
  BY <1>0, TotalUnfold
<1>3. \A k \in 1..l : q[k] \in Nat /\ p[k] \in Nat /\ q[k] <= p[k] BY <1>0
<1>4. \A k \in 1..m : p[k] \in Nat BY <1>0
<1> DEFINE S == {n \in 0..l : InOrder(s, t, q, p, n)}
           T == {n \in 0..(m - l) : GrowsFrom(t, p, l, l + n)}
<1>5. 0 \in S
  <2>1. InOrder(s, t, q, p, 0)
    <3>1. \A k \in 1..0 : FALSE OBVIOUS
    <3>2. 0 \in Nat /\ 0 <= 0 OBVIOUS
    <3> QED BY ONLY <1>1, <1>2, <3>1, <3>2 DEF InOrder
  <2>2. 0 \in 0..l OBVIOUS
  <2> QED BY ONLY <2>1, <2>2
<1>6. ASSUME NEW n \in 1..l, n - 1 \in S PROVE n \in S
  <2>1. n \in 1..m /\ n \in Nat /\ n # 0 /\ n \in 0..l BY <1>0
  <2>2. s[n] = s[n - 1] + q[n] BY ONLY <1>1, <1>6
  <2>3. t[n] = t[n - 1] + p[n] BY ONLY <1>2, <2>1
  <2>4. q[n] \in Nat /\ p[n] \in Nat /\ q[n] <= p[n] BY ONLY <1>3, <1>6
  <2>5. InOrder(s, t, q, p, n - 1) BY ONLY <1>6
  <2>6. InOrder(s, t, q, p, n) BY ONLY <2>1, <2>2, <2>3, <2>4, <2>5, InOrderStep
  <2> QED BY ONLY <2>1, <2>6
<1>7. InOrder(s, t, q, p, l)
  <2> HIDE DEF S
  <2>1. l \in S BY ONLY <1>0, <1>5, <1>6, UpTo
  <2> QED BY ONLY <2>1 DEF S
<1>8. t[l] \in Nat BY ONLY <1>7 DEF InOrder
<1>9. 0 \in T
  <2>1. GrowsFrom(t, p, l, l)
    <3>1. \A k \in l + 1 .. l : FALSE OBVIOUS
    <3>2. t[l] <= t[l] BY ONLY <1>8
    <3> QED BY ONLY <1>8, <3>1, <3>2 DEF GrowsFrom
  <2>2. l + 0 = l /\ 0 \in 0..(m - l) BY <1>0
  <2> QED BY ONLY <2>1, <2>2
<1>10. ASSUME NEW n \in 1..(m - l), n - 1 \in T PROVE n \in T
  <2>1. PICK i \in 1..m : i = l + n BY <1>0
  <2>2. i \in Nat /\ l < i /\ l + (n - 1) = i - 1 /\ n \in 0..(m - l) BY <2>1
  <2>3. t[i] = t[i - 1] + p[i] BY ONLY <1>2, <2>1
  <2>4. p[i] \in Nat BY ONLY <1>4, <2>1
  <2>5. GrowsFrom(t, p, l, i - 1) BY ONLY <1>10, <2>2
  <2>6. l \in Nat BY ONLY <1>0
  <2>7. GrowsFrom(t, p, l, i) BY ONLY <1>8, <2>2, <2>3, <2>4, <2>5, <2>6, GrowsStep
  <2> QED BY ONLY <2>1, <2>2, <2>7
<1>11. GrowsFrom(t, p, l, m)
  <2>1. m - l \in Nat /\ l + (m - l) = m BY <1>0
  <2> HIDE DEF T
  <2>2. m - l \in T BY ONLY <1>9, <1>10, <2>1, UpTo
  <2> QED BY ONLY <2>1, <2>2 DEF T
<1> HIDE DEF S, T
<1>12. /\ s[l] \in Nat /\ t[l] \in Nat /\ s[l] <= t[l]
       /\ (s[l] = t[l]) => \A k \in 1..l : q[k] = p[k]
  BY ONLY <1>7 DEF InOrder
<1>13. /\ t[m] \in Nat /\ t[l] <= t[m]
       /\ (t[l] = t[m]) => \A k \in l + 1 .. m : p[k] = 0
  BY ONLY <1>11 DEF GrowsFrom
<1>14. (s[l] = t[m]) => (s[l] = t[l] /\ t[l] = t[m]) BY ONLY <1>12, <1>13
<1>15. s[l] <= t[m] BY ONLY <1>12, <1>13
<1>16. Total(q) = s[l] /\ Total(p) = t[m] BY ONLY <1>1, <1>2
<1>17. /\ Total(q) \in Nat /\ Total(p) \in Nat /\ Total(q) <= Total(p)
       /\ (Total(q) = Total(p)) => /\ \A k \in 1..l : q[k] = p[k]
                                   /\ \A k \in l + 1 .. m : p[k] = 0
  BY ONLY <1>12, <1>13, <1>14, <1>15, <1>16
<1> QED BY ONLY <1>0, <1>17


-----------------------------------------------------------------------------
(* The frames of a list of subagents: those of its members that have items.  *)

FrameRec(ts, ds, a) == [id |-> a, items |-> FrameOf(ts, ds, a)]
IsFrames(s, ts, ds, ord, n) ==
  s = [k \in 0 .. n |->
        IF k = 0 THEN <<>>
        ELSE IF FrameOf(ts, ds, ord[k]) = <<>> THEN s[k - 1]
        ELSE Append(s[k - 1], [id |-> ord[k], items |-> FrameOf(ts, ds, ord[k])])]

LEMMA FramesExist ==
  ASSUME NEW ts, NEW ds, NEW ord, NEW m \in Nat
  PROVE  \E s : IsFrames(s, ts, ds, ord, m)
<1> DEFINE St(p, k) == IF FrameOf(ts, ds, ord[k]) = <<>> THEN p
                       ELSE Append(p, [id |-> ord[k], items |-> FrameOf(ts, ds, ord[k])])
           S == {n \in 0..m : \E s : s = [k \in 0 .. n |-> IF k = 0 THEN <<>> ELSE St(s[k - 1], k)]}
<1>1. 0 \in S
  <2> DEFINE g == [k \in 0 .. 0 |-> <<>>]
  <2>1. g = [k \in 0 .. 0 |-> IF k = 0 THEN <<>> ELSE St(g[k - 1], k)] OBVIOUS
  <2> HIDE DEF g, St
  <2> QED BY <2>1
<1> HIDE DEF St
<1>2. ASSUME NEW n \in 1..m, n - 1 \in S PROVE n \in S
  <2>1. PICK s : s = [k \in 0 .. n - 1 |-> IF k = 0 THEN <<>> ELSE St(s[k - 1], k)] BY <1>2
  <2> DEFINE g == [k \in 0..n |-> IF k = n THEN St(s[n - 1], n) ELSE s[k]]
  <2>2. ASSUME NEW k \in 0..n PROVE g[k] = IF k = 0 THEN <<>> ELSE St(g[k - 1], k)
    <3>1. k # 0 => k - 1 \in 0..n /\ k - 1 # n /\ g[k - 1] = s[k - 1] OBVIOUS
    <3>2. CASE k = n BY <3>1, <3>2
    <3>3. CASE k # n
      <4>1. k \in 0..(n - 1) /\ g[k] = s[k] BY <3>3
      <4>2. s[k] = IF k = 0 THEN <<>> ELSE St(s[k - 1], k) BY <2>1, <4>1
      <4> QED BY <3>1, <4>1, <4>2
    <3> QED BY <3>2, <3>3
  <2>3. g = [k \in 0..n |-> IF k = 0 THEN <<>> ELSE St(g[k - 1], k)]
    <3>1. g = [k \in 0..n |-> g[k]] OBVIOUS
    <3> HIDE DEF g
    <3> QED BY <2>2, <3>1
  <2> HIDE DEF g
  <2> QED BY <2>3
<1> HIDE DEF S
<1>3. m \in S BY <1>1, <1>2, UpTo
<1> QED BY <1>3 DEF S, St, IsFrames

LEMMA FramesUnfold ==
  ASSUME NEW ts, NEW ds, NEW ord, Len(ord) \in Nat
  PROVE  \E s : /\ s[0] = <<>> /\ FramesOf(ts, ds, ord) = s[Len(ord)]
                /\ \A k \in 1 .. Len(ord) :
                     s[k] = IF FrameOf(ts, ds, ord[k]) = <<>> THEN s[k - 1]
                            ELSE Append(s[k - 1], FrameRec(ts, ds, ord[k]))
<1>1. PICK s : s = CHOOSE r : IsFrames(r, ts, ds, ord, Len(ord)) OBVIOUS
<1>2. FramesOf(ts, ds, ord) = s[Len(ord)] BY <1>1 DEF FramesOf, IsFrames
<1>3. IsFrames(s, ts, ds, ord, Len(ord)) BY <1>1, FramesExist
<1>4. s[0] = <<>> BY <1>3 DEF IsFrames
<1>5. ASSUME NEW k \in 1 .. Len(ord)
      PROVE s[k] = IF FrameOf(ts, ds, ord[k]) = <<>> THEN s[k - 1]
                   ELSE Append(s[k - 1], FrameRec(ts, ds, ord[k]))
  <2>1. k \in 0..Len(ord) /\ k # 0 OBVIOUS
  <2> QED BY <1>3, <2>1 DEF IsFrames, FrameRec
<1> QED BY <1>2, <1>4, <1>5

SameOn(ts, ds, ts2, ds2, ord) ==
  \A n \in 1 .. Len(ord) : FrameOf(ts, ds, ord[n]) = FrameOf(ts2, ds2, ord[n])
NoneOn(ts, ds, ord) == \A n \in 1 .. Len(ord) : FrameOf(ts, ds, ord[n]) = <<>>

(* Subagents listed at the end without items add no frame.                   *)
LEMMA SameFrames ==
  ASSUME NEW ts, NEW ds, NEW ts2, NEW ds2, NEW ord \in Seq(Agents), NEW ext \in Seq(Agents),
         SameOn(ts, ds, ts2, ds2, ord), NoneOn(ts2, ds2, ext)
  PROVE  FramesOf(ts2, ds2, ord \o ext) = FramesOf(ts, ds, ord)
<1>l. PICK l \in Nat : l = Len(ord) OBVIOUS
<1>m. PICK m \in Nat : m = Len(ext) OBVIOUS
<1>n. PICK new \in Seq(Agents) : new = ord \o ext
  <2>1. ord \o ext \in Seq(Agents) OBVIOUS
  <2> QED BY <2>1
<1>0. l = Len(ord) /\ m = Len(ext) /\ new = ord \o ext BY <1>l, <1>m, <1>n
<1>1. /\ Len(new) = l + m
      /\ (\A n \in 1 .. l : new[n] = ord[n]) /\ (\A n \in 1 .. m : new[l + n] = ext[n])
  BY <1>0
<1>2. PICK s : s[0] = <<>> /\ FramesOf(ts, ds, ord) = s[l]
               /\ \A k \in 1 .. l : s[k] = IF FrameOf(ts, ds, ord[k]) = <<>> THEN s[k - 1]
                                           ELSE Append(s[k - 1], FrameRec(ts, ds, ord[k]))
  <2>1. Len(ord) \in Nat OBVIOUS
  <2>2. PICK t : t[0] = <<>> /\ FramesOf(ts, ds, ord) = t[Len(ord)]
                 /\ \A k \in 1 .. Len(ord) : t[k] = IF FrameOf(ts, ds, ord[k]) = <<>> THEN t[k - 1]
                                           ELSE Append(t[k - 1], FrameRec(ts, ds, ord[k]))
    BY <2>1, FramesUnfold
  <2> QED BY <1>0, <2>2
<1>3. PICK u : u[0] = <<>> /\ FramesOf(ts2, ds2, new) = u[l + m]
               /\ \A k \in 1 .. l + m : u[k] = IF FrameOf(ts2, ds2, new[k]) = <<>> THEN u[k - 1]
                                           ELSE Append(u[k - 1], FrameRec(ts2, ds2, new[k]))
  <2>1. Len(new) \in Nat OBVIOUS
  <2>2. PICK t : t[0] = <<>> /\ FramesOf(ts2, ds2, new) = t[Len(new)]
                  /\ \A k \in 1 .. Len(new) : t[k] = IF FrameOf(ts2, ds2, new[k]) = <<>> THEN t[k - 1]
                                           ELSE Append(t[k - 1], FrameRec(ts2, ds2, new[k]))
    BY <2>1, FramesUnfold
  <2>3. Len(new) = l + m BY <1>1
  <2> QED BY <2>2, <2>3
<1>h. /\ \A n \in 1 .. l : FrameOf(ts, ds, ord[n]) = FrameOf(ts2, ds2, ord[n])
      /\ \A n \in 1 .. m : FrameOf(ts2, ds2, ext[n]) = <<>>
  BY <1>0 DEF SameOn, NoneOn
<1> DEFINE S == {n \in 0 .. l : s[n] = u[n]}
           T == {n \in 0 .. m : u[l + n] = u[l]}
<1>4. 0 \in S BY <1>1, <1>2, <1>3
<1>5. ASSUME NEW n \in 1 .. l, n - 1 \in S PROVE n \in S
  <2>1. n \in 1 .. l + m /\ new[n] = ord[n] BY <1>1
  <2>2. FrameOf(ts, ds, ord[n]) = FrameOf(ts2, ds2, new[n]) BY <1>h, <2>1
  <2>3. FrameRec(ts, ds, ord[n]) = FrameRec(ts2, ds2, new[n]) BY <2>1, <2>2 DEF FrameRec
  <2>4. s[n - 1] = u[n - 1] BY <1>5
  <2>5. s[n] = u[n] BY <1>2, <1>3, <2>1, <2>2, <2>3, <2>4
  <2> QED BY <2>5
<1>6. l \in S
  <2> HIDE DEF S
  <2> QED BY <1>1, <1>4, <1>5, UpTo
<1>7. 0 \in T BY <1>1
<1>8. ASSUME NEW n \in 1 .. m, n - 1 \in T PROVE n \in T
  <2>1. PICK i \in 1 .. l + m : i = l + n BY <1>1
  <2>2. FrameOf(ts2, ds2, new[i]) = <<>> BY <1>1, <1>h, <2>1
  <2>3. u[i] = u[i - 1] BY <1>3, <2>2
  <2>4. i - 1 = l + (n - 1) BY <1>1, <2>1
  <2> QED BY <1>8, <2>1, <2>3, <2>4
<1>9. m \in T
  <2> HIDE DEF T
  <2> QED BY <1>1, <1>7, <1>8, UpTo
<1> QED BY <1>0, <1>2, <1>3, <1>6, <1>9

(* A frame is that of a subagent of the list, with its items; and one that   *)
(* has items has a frame.                                                    *)
WithItems(ts, ds, ord) == {ord[n] : n \in {k \in 1 .. Len(ord) : FrameOf(ts, ds, ord[k]) # <<>>}}
HasFrame(frames, a) == \E j \in DOMAIN frames : frames[j].id = a
HaveFrames(frames, ts, ds, ord, n) ==
  \A k \in 1 .. n : FrameOf(ts, ds, ord[k]) # <<>> => HasFrame(frames, ord[k])

LEMMA FramesMembers ==
  ASSUME NEW ts, NEW ds, NEW ord \in Seq(Agents)
  PROVE  /\ FramesOf(ts, ds, ord) \in Seq({FrameRec(ts, ds, a) : a \in WithItems(ts, ds, ord)})
         /\ \A a \in WithItems(ts, ds, ord) : HasFrame(FramesOf(ts, ds, ord), a)
<1>0. PICK F : F = {FrameRec(ts, ds, a) : a \in WithItems(ts, ds, ord)} OBVIOUS
<1>1. PICK l \in Nat : l = Len(ord) OBVIOUS
<1>2. PICK s : s[0] = <<>> /\ FramesOf(ts, ds, ord) = s[l]
               /\ \A k \in 1 .. l : s[k] = IF FrameOf(ts, ds, ord[k]) = <<>> THEN s[k - 1]
                                           ELSE Append(s[k - 1], FrameRec(ts, ds, ord[k]))
  BY <1>1, FramesUnfold
<1> DEFINE S == {n \in 0 .. l : s[n] \in Seq(F) /\ HaveFrames(s[n], ts, ds, ord, n)}
<1>3. 0 \in S
  <2>1. <<>> \in Seq(F) OBVIOUS
  <2>2. s[0] \in Seq(F) BY ONLY <1>2, <2>1
  <2>3. 0 \in 0 .. l BY ONLY <1>1
  <2>4. HaveFrames(s[0], ts, ds, ord, 0)
    <3>1. \A k \in 1 .. 0 : FALSE OBVIOUS
    <3> QED BY ONLY <3>1 DEF HaveFrames
  <2> QED BY ONLY <2>2, <2>3, <2>4
<1>4. ASSUME NEW n \in 1 .. l, n - 1 \in S PROVE n \in S
  <2>0. PICK p \in Seq(F) : p = s[n - 1] BY ONLY <1>4
  <2>1. HaveFrames(p, ts, ds, ord, n - 1) BY ONLY <1>4, <2>0
  <2>2. n \in 0 .. l /\ \A k \in 1 .. n : k = n \/ k \in 1 .. n - 1 OBVIOUS
  <2>3. CASE FrameOf(ts, ds, ord[n]) = <<>>
    <3>1. s[n] = p BY ONLY <1>2, <1>4, <2>0, <2>3
    <3>2. HaveFrames(p, ts, ds, ord, n) BY ONLY <2>1, <2>2, <2>3 DEF HaveFrames
    <3>3. s[n] \in Seq(F) /\ HaveFrames(s[n], ts, ds, ord, n) BY ONLY <2>0, <3>1, <3>2
    <3> QED BY ONLY <2>2, <3>3
  <2>4. CASE FrameOf(ts, ds, ord[n]) # <<>>
    <3>1. s[n] = Append(p, FrameRec(ts, ds, ord[n])) BY ONLY <1>2, <1>4, <2>0, <2>4
    <3>2. ord[n] \in WithItems(ts, ds, ord) BY <1>1, <2>4 DEF WithItems
    <3>3. PICK r \in F : r = FrameRec(ts, ds, ord[n]) /\ r.id = ord[n]
      <4>1. FrameRec(ts, ds, ord[n]).id = ord[n] BY DEF FrameRec
      <4>2. FrameRec(ts, ds, ord[n]) \in F BY ONLY <1>0, <3>2
      <4> QED BY ONLY <4>1, <4>2
    <3>4. PICK q \in Seq(F) : q = s[n] /\ q = Append(p, r) BY ONLY <2>0, <3>1, <3>3, AppendProperties
    <3>5. DOMAIN p = 1 .. Len(p) /\ DOMAIN q = 1 .. Len(p) + 1 /\ Len(p) \in Nat
          /\ q[Len(p) + 1] = r /\ \A j \in 1 .. Len(p) : q[j] = p[j]
      BY ONLY <2>0, <3>3, <3>4, AppendProperties
    <3>6. HasFrame(q, ord[n])
      <4>1. Len(p) + 1 \in DOMAIN q BY ONLY <3>5
      <4> QED BY ONLY <3>3, <3>5, <4>1 DEF HasFrame
    <3>7. ASSUME NEW a, HasFrame(p, a) PROVE HasFrame(q, a)
      <4>1. PICK j \in DOMAIN p : p[j].id = a BY ONLY <3>7 DEF HasFrame
      <4>2. j \in DOMAIN q /\ q[j].id = a BY ONLY <3>5, <4>1
      <4> QED BY ONLY <4>2 DEF HasFrame
    <3>8. HaveFrames(q, ts, ds, ord, n) BY ONLY <2>1, <2>2, <3>6, <3>7 DEF HaveFrames
    <3>9. s[n] \in Seq(F) /\ HaveFrames(s[n], ts, ds, ord, n) BY ONLY <3>4, <3>8
    <3> QED BY ONLY <2>2, <3>9
  <2> QED BY ONLY <2>3, <2>4
<1>5. l \in S
  <2> HIDE DEF S
  <2> QED BY <1>3, <1>4, UpTo
<1>6. s[l] \in Seq(F) /\ HaveFrames(s[l], ts, ds, ord, l) BY ONLY <1>5
<1> HIDE DEF S
<1>7. FramesOf(ts, ds, ord) = s[l] BY ONLY <1>2
<1>8. ASSUME NEW a \in WithItems(ts, ds, ord) PROVE HasFrame(s[l], a)
  <2>1. PICK k \in 1 .. l : a = ord[k] /\ FrameOf(ts, ds, ord[k]) # <<>> BY ONLY <1>1, <1>8 DEF WithItems
  <2> QED BY ONLY <1>6, <2>1 DEF HaveFrames
<1> QED BY ONLY <1>0, <1>6, <1>7, <1>8


-----------------------------------------------------------------------------
(* What a poll makes of one subagent's frame.                                *)

(* The later frame has the items of the earlier one, no revision goes back,  *)
(* and the same revision is the same item.                                   *)
Longer(f, g) ==
  /\ Len(f) <= Len(g)
  /\ \A k \in 1 .. Len(f) : f[k].rev <= g[k].rev /\ (f[k].rev = g[k].rev => f[k] = g[k])

LEMMA PolledLonger ==
  ASSUME NEW t, TailOK(t), NEW f \in [gen : Nat, n : 0 .. MaxRecs]
  PROVE  Longer(t.items, Polled(t, f).items)
<1>1. PICK from : from = IF f.n < t.off THEN 0 ELSE t.off OBVIOUS
<1>2. PICK had \in Nat : had = Len(t.items) BY DEF TailOK
<1>3. PICK N \in Nat : N = IF f.n > had THEN f.n ELSE had BY <1>2
<1>4. PICK s : s = [k \in 1 .. N |->
                      IF k \notin from + 1 .. f.n THEN t.items[k]
                      ELSE [gen |-> f.gen, rev |-> IF k <= had THEN t.items[k].rev + 1 ELSE 0]]
  OBVIOUS
<1>5. Polled(t, f).items = s BY <1>1, <1>2, <1>3, <1>4 DEF Polled
<1>6. Len(s) = N /\ had <= N BY <1>3, <1>4
<1>7. ASSUME NEW k \in 1 .. had
      PROVE  t.items[k].rev <= s[k].rev /\ (t.items[k].rev = s[k].rev => t.items[k] = s[k])
  <2>1. k \in 1 .. N BY <1>3
  <2>2. t.items[k] \in Item BY <1>2 DEF TailOK
  <2>3. t.items[k].rev \in Nat BY <2>2 DEF Item
  <2>4. CASE k \notin from + 1 .. f.n BY <1>4, <2>1, <2>3, <2>4
  <2>5. CASE k \in from + 1 .. f.n
    <3>1. s[k] = [gen |-> f.gen, rev |-> t.items[k].rev + 1] BY <1>4, <2>1, <2>5
    <3> QED BY <2>3, <3>1
  <2> QED BY <2>4, <2>5
<1> QED BY <1>2, <1>5, <1>6, <1>7 DEF Longer

LEMMA LongerSelf == ASSUME NEW f \in Seq(Item) PROVE Longer(f, f)
<1>1. Len(f) \in Nat /\ \A k \in 1 .. Len(f) : f[k] \in Item OBVIOUS
<1>2. \A i \in Item : i.rev \in Nat BY DEF Item
<1>3. \A k \in 1 .. Len(f) : f[k].rev <= f[k].rev BY <1>1, <1>2
<1> QED BY <1>1, <1>3 DEF Longer

(* A tail that is off has nothing in it.                                     *)
OffIsEmpty == \A a \in Agents : ~tail[a].on => tail[a] = NoTail

LEMMA ScannedShape ==
  ASSUME TLInv, NEW a \in Agents
  PROVE  /\ TailOK(Scanned(a)) /\ Longer(tail[a].items, Scanned(a).items)
         /\ ~Scanned(a).on => Scanned(a) = tail[a]
         /\ Scanned(a).on /\ ~tail[a].on => done[a].items = <<>> \/ Reopens(a)
<1>1. file[a] \in [gen : Nat, n : 0 .. MaxRecs] /\ TailOK(tail[a]) BY DEF TLInv, FileOK, Frames
<1>2. CASE Scanned(a) = tail[a]
  <2>1. tail[a].items \in Seq(Item) BY <1>1 DEF TailOK
  <2> QED BY <1>1, <1>2, <2>1, LongerSelf
<1>3. CASE Scanned(a) # tail[a]
  <2>1. Scanned(a) = Polled(tail[a], file[a]) /\ (tail[a].on \/ done[a].items = <<>> \/ Reopens(a))
    BY <1>3 DEF Scanned
  <2> QED BY <1>1, <2>1, PolledOK, PolledLonger
<1> QED BY <1>2, <1>3

LEMMA PollTails ==
  ASSUME Poll, NEW a \in Agents
  PROVE  \/ /\ Scanned(a).on /\ Scanned(a).items # <<>>
            /\ tail'[a] = NoTail /\ done'[a].items = Scanned(a).items
         \/ tail'[a] = Scanned(a) /\ done'[a] = StillDone(a, Scanned(a))
<1> DEFINE t1 == [b \in Agents |-> Scanned(b)]
           st == [b \in Agents |-> Streak(b, t1[b])]
           fin == {b \in Agents : t1[b].on /\ Finished(t1[b], st[b])}
<1>1. /\ tail' = [b \in Agents |-> IF b \in fin THEN NoTail ELSE t1[b]]
      /\ done' = [b \in Agents |-> IF b \in fin THEN [sig |-> st[b].sig, items |-> t1[b].items]
                                 ELSE StillDone(b, t1[b])]
  BY DEF Poll, Tails
<1>2. t1[a] = Scanned(a) OBVIOUS
<1>3. a \in fin => t1[a].on /\ t1[a].items # <<>> BY DEF Finished
<1> HIDE DEF t1, st, fin
<1> QED BY <1>1, <1>2, <1>3

LEMMA PollShape ==
  ASSUME Poll
  PROVE  /\ items' = main /\ subGen' = Generation(Tails)
         /\ \E listed \in Listings(Tails.new) : order' = order \o listed
         /\ fp' = <<main, Total([n \in DOMAIN order' |-> RevisionsOf(tail', done', order'[n])]),
                    Total([n \in DOMAIN order' |-> CountOf(tail', done', order'[n])]), subGen'>>
         /\ torn' = (torn \/ Tails.emptied # {})
         /\ \/ fp' = fp /\ memo' = Purged(memo) /\ shown' = shown
            \/ Emit(FramesOf(tail', done', order'))
<1>1. PICK t : /\ t = Tails
               /\ items' = main /\ tail' = t.tail /\ done' = t.done /\ stable' = t.stable
               /\ (\E listed \in Listings(t.new) : order' = order \o listed)
               /\ subGen' = Generation(t) /\ fp' = Fingerprint(t, order')
               /\ torn' = (torn \/ t.emptied # {})
               /\ IF fp' = fp
                  THEN memo' = Purged(memo) /\ pc' = "sleep" /\ UNCHANGED <<shown, dirty>>
                  ELSE \E frames \in {FramesOf(t.tail, t.done, order')} : Emit(frames)
  BY DEF Poll
<1>2. fp' = <<main, Total([n \in DOMAIN order' |-> RevisionsOf(tail', done', order'[n])]),
                    Total([n \in DOMAIN order' |-> CountOf(tail', done', order'[n])]), subGen'>>
  BY <1>1 DEF Fingerprint
<1>3. \/ fp' = fp /\ memo' = Purged(memo) /\ shown' = shown
      \/ Emit(FramesOf(tail', done', order'))
  BY <1>1
<1> QED BY <1>1, <1>2, <1>3

(* A poll that replaces what was kept of a done subagent by its tail.        *)
Rebuilt(a) == done[a].items # <<>> /\ Scanned(a).on /\ Scanned(a).items # <<>>

LEMMA FrameLonger ==
  ASSUME TLInv, OffIsEmpty, Poll, NEW a \in Agents
  PROVE  /\ ~Rebuilt(a) => Longer(FrameOf(tail, done, a), FrameOf(tail', done', a))
         /\ FrameOf(tail, done, a) # <<>> => FrameOf(tail', done', a) # <<>>
<1>0. tail[a].items \in Seq(Item) /\ done[a].items \in Seq(Item) BY DEF TLInv, Frames, TailOK, DoneOK
<1>1. /\ TailOK(Scanned(a)) /\ Longer(tail[a].items, Scanned(a).items)
      /\ ~Scanned(a).on => Scanned(a) = tail[a]
  BY ScannedShape
<1>2. \/ /\ Scanned(a).on /\ Scanned(a).items # <<>>
         /\ tail'[a] = NoTail /\ done'[a].items = Scanned(a).items
      \/ tail'[a] = Scanned(a) /\ done'[a] = StillDone(a, Scanned(a))
  BY PollTails
<1>3. NoTail.items = <<>> BY DEF NoTail
<1>4. CASE Scanned(a).items = <<>>
  <2>1. tail[a].items = <<>>
    <3>1. Len(tail[a].items) <= 0 BY <1>1, <1>4 DEF Longer
    <3> QED BY <1>0, <3>1
  <2>2. tail'[a].items = <<>> /\ done'[a] = done[a] BY <1>2, <1>4 DEF StillDone
  <2>3. FrameOf(tail, done, a) = done[a].items /\ FrameOf(tail', done', a) = done[a].items
    BY <2>1, <2>2 DEF FrameOf
  <2> QED BY <1>0, <2>3, LongerSelf
<1>5. CASE Scanned(a).items # <<>>
  <2>1. Scanned(a).on BY <1>1, <1>3, <1>5 DEF OffIsEmpty
  <2>2. FrameOf(tail', done', a) = Scanned(a).items BY <1>2, <1>3, <1>5 DEF FrameOf
  <2>3. done[a].items = <<>> => FrameOf(tail, done, a) = tail[a].items BY DEF FrameOf
  <2> QED BY <1>1, <1>5, <2>1, <2>2, <2>3 DEF Rebuilt
<1> QED BY <1>4, <1>5

(* A poll that replaces nothing starts no generation.                        *)
LEMMA SameGeneration ==
  ASSUME subGen \in Nat
  PROVE  /\ Generation(Tails) \in Nat
         /\ Generation(Tails) = subGen => \A a \in Agents : ~Rebuilt(a)
<1>1. PICK R : R = Tails.replaced /\ R = {a \in Agents : StillDone(a, Scanned(a)) # done[a]}
  BY DEF Tails
<1>2. PICK Q : Q = {a \in R : ~tail[a].on} OBVIOUS
<1>3. IsFiniteSet(Q)
  <2>1. Q \subseteq Agents BY <1>1, <1>2
  <2> QED BY <2>1, FS_Subset, TimelinePollAssumption
<1>4. PICK c \in Nat : c = Cardinality(Q) BY <1>3, FS_CardinalityType
<1>5. c = 0 => Q = {} BY <1>3, <1>4, FS_EmptySet
<1>6. PICK late \in {0, 1} : late = IF \E a \in R : tail[a].on THEN 1 ELSE 0 OBVIOUS
<1>7. Generation(Tails) = subGen + c + late BY <1>1, <1>2, <1>4, <1>6 DEF Generation
<1>8. ASSUME Generation(Tails) = subGen PROVE R = {}
  <2>1. c = 0 /\ late = 0 BY <1>7, <1>8
  <2> QED BY <1>2, <1>5, <1>6, <2>1
<1>9. ASSUME R = {}, NEW a \in Agents PROVE ~Rebuilt(a)
  <2>1. StillDone(a, Scanned(a)) = done[a] BY <1>1, <1>9
  <2>2. NotDone.items = <<>> BY DEF NotDone
  <2> QED BY <2>1, <2>2 DEF StillDone, Rebuilt
<1> QED BY <1>7, <1>8, <1>9

(* The order of the subagents is a list that only grows.                     *)
LEMMA OrderGrows ==
  ASSUME Poll
  PROVE  \E ext \in Seq(Agents) : order' = order \o ext
<1>1. PICK S : S = Tails.new /\ S \subseteq Agents BY DEF Tails
<1>2. PICK c \in Nat : c = Cardinality(S) BY <1>1, FS_Subset, FS_CardinalityType, TimelinePollAssumption
<1>3. PICK ext \in [1 .. c -> S] : order' = order \o ext BY <1>1, <1>2, PollShape DEF Listings
<1>4. ext \in Seq(Agents) BY <1>1
<1> QED BY <1>3, <1>4


-----------------------------------------------------------------------------
(* The fingerprint: the sums of the frames' revisions and items.             *)

RevList(f) == [k \in DOMAIN f |-> f[k].rev]

LEMMA RevListOK ==
  ASSUME NEW f \in Seq(Item)
  PROVE  RevList(f) \in Seq(Nat) /\ Len(RevList(f)) = Len(f)
         /\ \A k \in 1 .. Len(f) : RevList(f)[k] = f[k].rev
<1>1. PICK l \in Nat : l = Len(f) /\ DOMAIN f = 1 .. l OBVIOUS
<1>2. \A k \in 1 .. l : f[k] \in Item BY <1>1
<1>3. \A i \in Item : i.rev \in Nat BY DEF Item
<1>4. RevList(f) = [k \in 1 .. l |-> f[k].rev] BY <1>1 DEF RevList
<1>5. RevList(f) \in [1 .. l -> Nat] BY <1>2, <1>3, <1>4
<1> QED BY <1>1, <1>4, <1>5

LEMMA RevisionsGrow ==
  ASSUME NEW f \in Seq(Item), NEW g \in Seq(Item), Longer(f, g)
  PROVE  /\ Revisions(f) \in Nat /\ Revisions(g) \in Nat /\ Revisions(f) <= Revisions(g)
         /\ Revisions(f) = Revisions(g) /\ Len(f) = Len(g) => f = g
<1>1. PICK q \in Seq(Nat) : q = RevList(f) BY RevListOK
<1>2. PICK p \in Seq(Nat) : p = RevList(g) BY RevListOK
<1>3. Revisions(f) = Total(q) /\ Revisions(g) = Total(p) BY <1>1, <1>2 DEF Revisions, RevList
<1>4. PICK l \in Nat, m \in Nat : l = Len(f) /\ m = Len(g) /\ l <= m BY DEF Longer
<1>5. Len(q) = l /\ Len(p) = m /\ (\A k \in 1 .. l : q[k] = f[k].rev) /\ \A k \in 1 .. m : p[k] = g[k].rev
  BY <1>1, <1>2, <1>4, RevListOK
<1>6. \A k \in 1 .. l : f[k].rev <= g[k].rev /\ (f[k].rev = g[k].rev => f[k] = g[k]) BY <1>4 DEF Longer
<1>7. \A k \in 1 .. l : k \in 1 .. m BY <1>4
<1>8. \A k \in 1 .. l : q[k] <= p[k] BY <1>5, <1>6, <1>7
<1>9. /\ Total(q) \in Nat /\ Total(p) \in Nat /\ Total(q) <= Total(p)
      /\ Total(q) = Total(p) => \A k \in 1 .. l : q[k] = p[k]
  BY <1>4, <1>5, <1>8, TotalGrows
<1>10. ASSUME Revisions(f) = Revisions(g), Len(f) = Len(g) PROVE f = g
  <2>1. \A k \in 1 .. l : f[k] = g[k] BY <1>3, <1>5, <1>6, <1>7, <1>9, <1>10
  <2> QED BY <1>4, <1>10, <2>1, SeqEqual
<1> QED BY <1>3, <1>9, <1>10

LEMMA NoRevisions == Revisions(<<>>) = 0
<1>1. PICK q : q = [k \in DOMAIN <<>> |-> <<>>[k].rev] OBVIOUS
<1>2. q = <<>> /\ Len(q) = 0 BY <1>1
<1>3. Total(q) = 0 BY <1>2, TotalUnfold
<1> QED BY <1>1, <1>3 DEF Revisions

(* The items of a subagent are in its tail or in its done entry.             *)
LEMMA SumOfFrame ==
  ASSUME NEW ts, NEW ds, NEW a, ts[a].items \in Seq(Item), ds[a].items \in Seq(Item),
         ts[a].items = <<>> \/ ds[a].items = <<>>
  PROVE  /\ RevisionsOf(ts, ds, a) = Revisions(FrameOf(ts, ds, a))
         /\ CountOf(ts, ds, a) = Len(FrameOf(ts, ds, a))
         /\ FrameOf(ts, ds, a) \in Seq(Item)
<1>1. PICK f \in Seq(Item), g \in Seq(Item) : f = ts[a].items /\ g = ds[a].items OBVIOUS
<1>2. Revisions(f) \in Nat /\ Revisions(g) \in Nat BY LongerSelf, RevisionsGrow
<1>3. FrameOf(ts, ds, a) = IF f # <<>> THEN f ELSE g BY <1>1 DEF FrameOf
<1>4. RevisionsOf(ts, ds, a) = Revisions(f) + Revisions(g) BY <1>1 DEF RevisionsOf
<1>5. CountOf(ts, ds, a) = Len(f) + Len(g) BY <1>1 DEF CountOf
<1>6. Len(<<>>) = 0 /\ Len(f) \in Nat /\ Len(g) \in Nat OBVIOUS
<1>7. CASE f = <<>> BY <1>2, <1>3, <1>4, <1>5, <1>6, <1>7, NoRevisions
<1>8. CASE f # <<>>
  <2>1. g = <<>> BY <1>1, <1>8
  <2> QED BY <1>2, <1>3, <1>4, <1>5, <1>6, <1>8, <2>1, NoRevisions
<1> QED BY <1>7, <1>8

LEMMA FrameOK ==
  ASSUME TLInv, OffIsEmpty, NEW a \in Agents
  PROVE  /\ RevisionsOf(tail, done, a) = Revisions(FrameOf(tail, done, a))
         /\ CountOf(tail, done, a) = Len(FrameOf(tail, done, a))
         /\ FrameOf(tail, done, a) \in Seq(Item)
<1>1. tail[a].items \in Seq(Item) /\ done[a].items \in Seq(Item) BY DEF TLInv, Frames, TailOK, DoneOK
<1>2. tail[a].items = <<>> \/ done[a].items = <<>> BY DEF TLInv, Frames, OffIsEmpty, NoTail
<1> QED BY <1>1, <1>2, SumOfFrame

LEMMA FrameOKNext ==
  ASSUME TLInv', OffIsEmpty', NEW a \in Agents
  PROVE  /\ RevisionsOf(tail', done', a) = Revisions(FrameOf(tail', done', a))
         /\ CountOf(tail', done', a) = Len(FrameOf(tail', done', a))
         /\ FrameOf(tail', done', a) \in Seq(Item)
<1>1. tail'[a].items \in Seq(Item) /\ done'[a].items \in Seq(Item) BY DEF TLInv, Frames, TailOK, DoneOK
<1>2. tail'[a].items = <<>> \/ done'[a].items = <<>> BY DEF TLInv, Frames, OffIsEmpty, NoTail
<1> QED BY <1>1, <1>2, SumOfFrame

RevSums(ts, ds, ord) == [n \in DOMAIN ord |-> RevisionsOf(ts, ds, ord[n])]
CountSums(ts, ds, ord) == [n \in DOMAIN ord |-> CountOf(ts, ds, ord[n])]

AreSums(ts, ds) == \A a \in Agents : RevisionsOf(ts, ds, a) \in Nat /\ CountOf(ts, ds, a) \in Nat

LEMMA SumsOK ==
  ASSUME NEW ts, NEW ds, NEW ord \in Seq(Agents), AreSums(ts, ds)
  PROVE  /\ RevSums(ts, ds, ord) \in Seq(Nat) /\ Len(RevSums(ts, ds, ord)) = Len(ord)
         /\ CountSums(ts, ds, ord) \in Seq(Nat) /\ Len(CountSums(ts, ds, ord)) = Len(ord)
         /\ \A n \in 1 .. Len(ord) : /\ RevSums(ts, ds, ord)[n] = RevisionsOf(ts, ds, ord[n])
                                     /\ CountSums(ts, ds, ord)[n] = CountOf(ts, ds, ord[n])
<1>1. PICK l \in Nat : l = Len(ord) /\ DOMAIN ord = 1 .. l OBVIOUS
<1>2. \A n \in 1 .. l : ord[n] \in Agents BY <1>1
<1>3. RevSums(ts, ds, ord) = [n \in 1 .. l |-> RevisionsOf(ts, ds, ord[n])]
      /\ CountSums(ts, ds, ord) = [n \in 1 .. l |-> CountOf(ts, ds, ord[n])]
  BY <1>1 DEF RevSums, CountSums
<1>4. PICK v \in Seq(Nat) : v = RevSums(ts, ds, ord) /\ Len(v) = l
  <2>1. RevSums(ts, ds, ord) \in [1 .. l -> Nat] BY <1>2, <1>3 DEF AreSums
  <2> QED BY ONLY l \in Nat, <2>1, AsSeq
<1>5. PICK w \in Seq(Nat) : w = CountSums(ts, ds, ord) /\ Len(w) = l
  <2>1. CountSums(ts, ds, ord) \in [1 .. l -> Nat] BY <1>2, <1>3 DEF AreSums
  <2> QED BY ONLY l \in Nat, <2>1, AsSeq
<1>6. \A n \in 1 .. l : v[n] = RevisionsOf(ts, ds, ord[n]) /\ w[n] = CountOf(ts, ds, ord[n])
  BY ONLY <1>3, <1>4, <1>5
<1> QED BY ONLY <1>1, <1>4, <1>5, <1>6


FpKept ==
  fp = <<items, Total(RevSums(tail, done, order)), Total(CountSums(tail, done, order)), subGen>>
FpInv == TLInv /\ OffIsEmpty /\ order \in Seq(Agents) /\ subGen \in Nat /\ FpKept

LEMMA FpInitKept == TLInit => FpInv /\ ShownIsPolled
<1> SUFFICES ASSUME TLInit PROVE FpInv /\ ShownIsPolled OBVIOUS
<1>1. OffIsEmpty BY DEF TLInit, OffIsEmpty
<1>2. order = <<>> /\ <<>> \in Seq(Agents) /\ subGen \in Nat /\ Len(<<>>) = 0 BY DEF TLInit
<1>3. RevSums(tail, done, order) = <<>> /\ CountSums(tail, done, order) = <<>>
  BY <1>2 DEF RevSums, CountSums
<1>4. Total(<<>>) = 0 BY <1>2, TotalUnfold
<1>5. FpKept BY <1>3, <1>4 DEF TLInit, FpKept
<1>6. FramesOf(tail, done, <<>>) = <<>> BY <1>2, FramesUnfold
<1>7. ShownIsPolled BY <1>2, <1>6 DEF TLInit, ShownIsPolled, Blank
<1> QED BY <1>1, <1>2, <1>5, <1>7, TLInitKept DEF FpInv

LEMMA FpPollKept ==
  ASSUME FpInv, Poll
  PROVE  FpInv'
<1>1. TLInv' BY PollKept DEF FpInv
<1>2. OffIsEmpty'
  <2>1. DOMAIN tail' = Agents BY <1>1 DEF TLInv, Frames
  <2>2. ASSUME NEW a \in Agents, ~tail'[a].on PROVE tail'[a] = NoTail
    <3>1. ~Scanned(a).on => Scanned(a) = tail[a] BY ScannedShape DEF FpInv
    <3>2. tail'[a] = NoTail \/ tail'[a] = Scanned(a) BY PollTails
    <3> QED BY <2>2, <3>1, <3>2 DEF FpInv, OffIsEmpty
  <2> QED BY <2>2 DEF OffIsEmpty
<1>5. PICK ext \in Seq(Agents) : order' = order \o ext BY OrderGrows
<1>6. order' \in Seq(Agents) BY <1>5 DEF FpInv
<1>7. subGen' \in Nat BY PollShape, SameGeneration DEF FpInv
<1>8. FpKept' BY PollShape DEF FpKept, RevSums, CountSums
<1> QED BY <1>1, <1>2, <1>6, <1>7, <1>8 DEF FpInv

(* Two states of a fingerprint have the same frames.                         *)
LEMMA SameFingerprint ==
  ASSUME FpInv, Poll, fp' = fp
  PROVE  items' = items /\ FramesOf(tail', done', order') = FramesOf(tail, done, order)
<1>1. FpInv' BY FpPollKept
<1>2. /\ items' = items /\ subGen' = subGen
      /\ Total(RevSums(tail', done', order')) = Total(RevSums(tail, done, order))
      /\ Total(CountSums(tail', done', order')) = Total(CountSums(tail, done, order))
  BY <1>1 DEF FpInv, FpKept
<1>3. \A a \in Agents : ~Rebuilt(a) BY <1>2, PollShape, SameGeneration DEF FpInv
<1>5. PICK ext \in Seq(Agents) : order' = order \o ext BY OrderGrows
<1>6. PICK ord \in Seq(Agents) : ord = order BY DEF FpInv
<1>7. PICK all \in Seq(Agents) : all = order' BY <1>1 DEF FpInv
<1>8. PICK l \in Nat, m \in Nat : l = Len(ord) /\ m = Len(ext) OBVIOUS
<1>9. Len(all) = l + m /\ (\A n \in 1 .. l : all[n] = ord[n] /\ ord[n] \in Agents)
      /\ \A n \in 1 .. m : all[l + n] = ext[n] /\ ext[n] \in Agents
  BY <1>5, <1>6, <1>7, <1>8
<1>10. ASSUME NEW a \in Agents
       PROVE  /\ Longer(FrameOf(tail, done, a), FrameOf(tail', done', a))
              /\ RevisionsOf(tail, done, a) = Revisions(FrameOf(tail, done, a))
              /\ CountOf(tail, done, a) = Len(FrameOf(tail, done, a))
              /\ RevisionsOf(tail', done', a) = Revisions(FrameOf(tail', done', a))
              /\ CountOf(tail', done', a) = Len(FrameOf(tail', done', a))
              /\ FrameOf(tail, done, a) \in Seq(Item) /\ FrameOf(tail', done', a) \in Seq(Item)
  BY <1>1, <1>3, FrameLonger, FrameOK, FrameOKNext DEF FpInv
<1>11. ASSUME NEW a \in Agents
       PROVE  /\ RevisionsOf(tail, done, a) \in Nat /\ RevisionsOf(tail', done', a) \in Nat
              /\ CountOf(tail, done, a) \in Nat /\ CountOf(tail', done', a) \in Nat
              /\ RevisionsOf(tail, done, a) <= RevisionsOf(tail', done', a)
              /\ CountOf(tail, done, a) <= CountOf(tail', done', a)
              /\ RevisionsOf(tail, done, a) = RevisionsOf(tail', done', a)
                 /\ CountOf(tail, done, a) = CountOf(tail', done', a)
                 => FrameOf(tail, done, a) = FrameOf(tail', done', a)
              /\ CountOf(tail', done', a) = 0 => FrameOf(tail', done', a) = <<>>
  <2>1. PICK f \in Seq(Item) : f = FrameOf(tail, done, a) BY <1>10
  <2>2. PICK g \in Seq(Item) : g = FrameOf(tail', done', a) BY <1>10
  <2>3. Longer(f, g) /\ RevisionsOf(tail, done, a) = Revisions(f) /\ CountOf(tail, done, a) = Len(f)
        /\ RevisionsOf(tail', done', a) = Revisions(g) /\ CountOf(tail', done', a) = Len(g)
    BY <1>10, <2>1, <2>2
  <2>4. Len(f) <= Len(g) /\ Len(f) \in Nat /\ Len(g) \in Nat /\ (Len(g) = 0 => g = <<>>)
    BY <2>3 DEF Longer
  <2>5. /\ Revisions(f) \in Nat /\ Revisions(g) \in Nat /\ Revisions(f) <= Revisions(g)
        /\ Revisions(f) = Revisions(g) /\ Len(f) = Len(g) => f = g
    BY <2>3, RevisionsGrow
  <2> QED BY <2>1, <2>2, <2>3, <2>4, <2>5
<1>12. PICK ts, ds, ts2, ds2 : ts = tail /\ ds = done /\ ts2 = tail' /\ ds2 = done' OBVIOUS
<1>13. AreSums(ts, ds) /\ AreSums(ts2, ds2) BY <1>11, <1>12 DEF AreSums
<1> DEFINE q == RevSums(ts, ds, ord)
           c == CountSums(ts, ds, ord)
           p == RevSums(ts2, ds2, all)
           d == CountSums(ts2, ds2, all)
<1>14. /\ q \in Seq(Nat) /\ Len(q) = l /\ c \in Seq(Nat) /\ Len(c) = l
       /\ \A n \in 1 .. l : q[n] = RevisionsOf(tail, done, ord[n]) /\ c[n] = CountOf(tail, done, ord[n])
  <2>1. /\ q \in Seq(Nat) /\ Len(q) = Len(ord) /\ c \in Seq(Nat) /\ Len(c) = Len(ord)
        /\ \A n \in 1 .. Len(ord) : q[n] = RevisionsOf(ts, ds, ord[n]) /\ c[n] = CountOf(ts, ds, ord[n])
    BY ONLY ord \in Seq(Agents), <1>13, SumsOK
  <2> HIDE DEF q, c
  <2> QED BY ONLY <1>8, <1>12, <2>1
<1>15. /\ p \in Seq(Nat) /\ Len(p) = l + m /\ d \in Seq(Nat) /\ Len(d) = l + m
       /\ \A n \in 1 .. l + m : p[n] = RevisionsOf(tail', done', all[n]) /\ d[n] = CountOf(tail', done', all[n])
  <2>1. /\ p \in Seq(Nat) /\ Len(p) = Len(all) /\ d \in Seq(Nat) /\ Len(d) = Len(all)
        /\ \A n \in 1 .. Len(all) : p[n] = RevisionsOf(ts2, ds2, all[n]) /\ d[n] = CountOf(ts2, ds2, all[n])
    BY ONLY all \in Seq(Agents), <1>13, SumsOK
  <2> HIDE DEF p, d
  <2> QED BY ONLY <1>9, <1>12, <2>1
<1>s. /\ q = RevSums(tail, done, order) /\ p = RevSums(tail', done', order')
      /\ c = CountSums(tail, done, order) /\ d = CountSums(tail', done', order')
  BY <1>6, <1>7, <1>12
<1> HIDE DEF q, c, p, d
<1>16. \A n \in 1 .. l : n \in 1 .. l + m BY <1>8
<1>17. \A n \in 1 .. l : q[n] <= p[n] /\ c[n] <= d[n] BY <1>9, <1>11, <1>14, <1>15, <1>16
<1>18. Total(q) = Total(p) /\ Total(c) = Total(d) BY <1>2, <1>s
<1>19. \A n \in 1 .. l : q[n] = p[n]
  <2>1. Len(q) <= Len(p) /\ q \in Seq(Nat) /\ p \in Seq(Nat) BY <1>14, <1>15
  <2>2. \A k \in 1 .. Len(q) : q[k] <= p[k] BY <1>14, <1>17
  <2>3. \A k \in 1 .. Len(q) : q[k] = p[k] BY ONLY <1>18, <2>1, <2>2, TotalGrows
  <2> QED BY <1>14, <2>3
<1>20. (\A n \in 1 .. l : c[n] = d[n]) /\ \A n \in l + 1 .. l + m : d[n] = 0
  <2>1. Len(c) <= Len(d) /\ c \in Seq(Nat) /\ d \in Seq(Nat) BY <1>14, <1>15
  <2>2. \A k \in 1 .. Len(c) : c[k] <= d[k] BY <1>14, <1>17
  <2>3. (\A k \in 1 .. Len(c) : c[k] = d[k]) /\ \A k \in Len(c) + 1 .. Len(d) : d[k] = 0
    BY ONLY <1>18, <2>1, <2>2, TotalGrows
  <2> QED BY <1>14, <1>15, <2>3
<1>21. \A n \in 1 .. l : FrameOf(tail, done, ord[n]) = FrameOf(tail', done', ord[n])
  BY <1>9, <1>11, <1>14, <1>15, <1>16, <1>19, <1>20
<1>22. ASSUME NEW n \in 1 .. m PROVE FrameOf(tail', done', ext[n]) = <<>>
  <2>1. l + n \in l + 1 .. l + m /\ l + n \in 1 .. l + m OBVIOUS
  <2>2. CountOf(tail', done', ext[n]) = 0 BY <1>9, <1>15, <1>20, <2>1
  <2> QED BY <1>9, <1>11, <2>2
<1>23. FramesOf(tail', done', ord \o ext) = FramesOf(tail, done, ord)
  <2>2. SameOn(ts, ds, ts2, ds2, ord) BY <1>8, <1>12, <1>21 DEF SameOn
  <2>3. NoneOn(ts2, ds2, ext) BY <1>8, <1>12, <1>22 DEF NoneOn
  <2>4. FramesOf(ts2, ds2, ord \o ext) = FramesOf(ts, ds, ord) BY <2>2, <2>3, SameFrames
  <2> QED BY <1>12, <2>4
<1> QED BY <1>2, <1>5, <1>6, <1>23

LEMMA PolledIsShown ==
  ASSUME FpInv, ShownIsPolled, Poll
  PROVE  ShownIsPolled'
<1>1. CASE fp' = fp /\ memo' = Purged(memo) /\ shown' = shown
  BY <1>1, SameFingerprint DEF ShownIsPolled
<1>2. CASE Emit(FramesOf(tail', done', order'))
  <2>1. shown'.main = main /\ shown'.frames = FramesOf(tail', done', order') BY <1>2 DEF Emit
  <2> QED BY <2>1, PollShape DEF ShownIsPolled
<1> QED BY <1>1, <1>2, PollShape


-----------------------------------------------------------------------------
(* The candidates of a subagent's parent are the items of the frames.        *)

Place(ts, ds, source, k) == source = "main" \/ (source \in Agents /\ k \in DOMAIN FrameOf(ts, ds, source))
CandidateAt(ts, ds, source, k) ==
  Candidate(source, k, IF source = "main" THEN MainItem ELSE FrameOf(ts, ds, source)[k])
CandidateSet(ts, ds) ==
  {c \in [source : Agents \cup {"main"}, k : Nat, gen : Nat, rev : Nat] :
     Place(ts, ds, c.source, c.k) /\ c = CandidateAt(ts, ds, c.source, c.k)}

MainCandidates(n) == [k \in 1 .. n |-> Candidate("main", k, MainItem)]
FrameCandidates(frames, i) ==
  [k \in DOMAIN frames[i].items |-> Candidate(frames[i].id, k, frames[i].items[k])]
IsCandidates(s, n, frames, a, m) ==
  s = [i \in 0 .. m |->
        IF i = 0 THEN [k \in 1 .. n |-> Candidate("main", k, MainItem)]
        ELSE IF frames[i].id = a THEN s[i - 1]
        ELSE s[i - 1] \o [k \in DOMAIN frames[i].items |->
                            Candidate(frames[i].id, k, frames[i].items[k])]]

LEMMA CandidatesExist ==
  ASSUME NEW n, NEW frames, NEW a, NEW m \in Nat
  PROVE  \E s : IsCandidates(s, n, frames, a, m)
<1> DEFINE base == [k \in 1 .. n |-> Candidate("main", k, MainItem)]
           St(p, i) == IF frames[i].id = a THEN p
                       ELSE p \o [k \in DOMAIN frames[i].items |->
                                          Candidate(frames[i].id, k, frames[i].items[k])]
           S == {j \in 0..m : \E s : s = [i \in 0 .. j |-> IF i = 0 THEN base ELSE St(s[i - 1], i)]}
<1>1. 0 \in S
  <2> DEFINE g == [i \in 0 .. 0 |-> base]
  <2>1. g = [i \in 0 .. 0 |-> IF i = 0 THEN base ELSE St(g[i - 1], i)] OBVIOUS
  <2> HIDE DEF g, St, base
  <2> QED BY <2>1
<1> HIDE DEF St, base
<1>2. ASSUME NEW j \in 1..m, j - 1 \in S PROVE j \in S
  <2>1. PICK s : s = [i \in 0 .. j - 1 |-> IF i = 0 THEN base ELSE St(s[i - 1], i)] BY <1>2
  <2> DEFINE g == [i \in 0..j |-> IF i = j THEN St(s[j - 1], j) ELSE s[i]]
  <2>2. ASSUME NEW i \in 0..j PROVE g[i] = IF i = 0 THEN base ELSE St(g[i - 1], i)
    <3>1. i # 0 => i - 1 \in 0..j /\ i - 1 # j /\ g[i - 1] = s[i - 1] OBVIOUS
    <3>2. CASE i = j BY <3>1, <3>2
    <3>3. CASE i # j
      <4>1. i \in 0..(j - 1) /\ g[i] = s[i] BY <3>3
      <4>2. s[i] = IF i = 0 THEN base ELSE St(s[i - 1], i) BY <2>1, <4>1
      <4> QED BY <3>1, <4>1, <4>2
    <3> QED BY <3>2, <3>3
  <2>3. g = [i \in 0..j |-> IF i = 0 THEN base ELSE St(g[i - 1], i)]
    <3>1. g = [i \in 0..j |-> g[i]] OBVIOUS
    <3> HIDE DEF g
    <3> QED BY <2>2, <3>1
  <2> HIDE DEF g
  <2> QED BY <2>3
<1> HIDE DEF S
<1>3. m \in S BY <1>1, <1>2, UpTo
<1> QED BY <1>3 DEF S, St, base, IsCandidates

LEMMA CandidatesUnfold ==
  ASSUME NEW n, NEW frames, Len(frames) \in Nat, NEW a
  PROVE  \E s : /\ s[0] = MainCandidates(n)
                /\ Candidates(n, frames, a) = s[Len(frames)]
                /\ \A i \in 1 .. Len(frames) :
                     s[i] = IF frames[i].id = a THEN s[i - 1] ELSE s[i - 1] \o FrameCandidates(frames, i)
<1>1. PICK s : s = CHOOSE r : IsCandidates(r, n, frames, a, Len(frames)) OBVIOUS
<1>2. Candidates(n, frames, a) = s[Len(frames)] BY <1>1 DEF Candidates, IsCandidates
<1>3. IsCandidates(s, n, frames, a, Len(frames)) BY <1>1, CandidatesExist
<1>4. s[0] = MainCandidates(n) BY <1>3 DEF IsCandidates, MainCandidates
<1>5. ASSUME NEW i \in 1 .. Len(frames)
      PROVE  s[i] = IF frames[i].id = a THEN s[i - 1] ELSE s[i - 1] \o FrameCandidates(frames, i)
  <2>1. i \in 0..Len(frames) /\ i # 0 OBVIOUS
  <2> QED BY <1>3, <2>1 DEF IsCandidates, FrameCandidates
<1> QED BY <1>2, <1>4, <1>5

LEMMA CandidatesOK ==
  ASSUME NEW ts, NEW ds, NEW ord \in Seq(Agents), NEW n \in Nat, NEW a,
         \A b \in Agents : FrameOf(ts, ds, b) \in Seq(Item)
  PROVE  Candidates(n, FramesOf(ts, ds, ord), a) \in Seq(CandidateSet(ts, ds))
<1>1. PICK C : C = CandidateSet(ts, ds) OBVIOUS
<1>2. PICK F : F = {FrameRec(ts, ds, b) : b \in WithItems(ts, ds, ord)} OBVIOUS
<1>3. PICK frames \in Seq(F) : frames = FramesOf(ts, ds, ord) BY <1>2, FramesMembers
<1>4. PICK l \in Nat : l = Len(frames) OBVIOUS
<1>5. PICK s : /\ s[0] = MainCandidates(n)
                /\ Candidates(n, frames, a) = s[l]
                /\ \A i \in 1 .. l :
                     s[i] = IF frames[i].id = a THEN s[i - 1] ELSE s[i - 1] \o FrameCandidates(frames, i)
  <2>1. Len(frames) \in Nat BY <1>4
  <2>2. PICK t : /\ t[0] = MainCandidates(n)
                 /\ Candidates(n, frames, a) = t[Len(frames)]
                 /\ \A i \in 1 .. Len(frames) :
                     t[i] = IF frames[i].id = a THEN t[i - 1] ELSE t[i - 1] \o FrameCandidates(frames, i)
    BY <2>1, CandidatesUnfold
  <2> QED BY <1>4, <2>2
<1> DEFINE S == {i \in 0 .. l : s[i] \in Seq(C)}
<1>6. 0 \in S
  <2>1. ASSUME NEW k \in 1 .. n PROVE Candidate("main", k, MainItem) \in C
    <3>1. PICK c : c = [source |-> "main", k |-> k, gen |-> 1, rev |-> 1] OBVIOUS
    <3>2. Candidate("main", k, MainItem) = c BY <3>1 DEF Candidate, MainItem
    <3>3. c.source = "main" /\ c.k = k BY <3>1
    <3>4. Place(ts, ds, c.source, c.k) /\ c = CandidateAt(ts, ds, c.source, c.k)
      BY <3>2, <3>3 DEF Place, CandidateAt
    <3>5. c \in [source : Agents \cup {"main"}, k : Nat, gen : Nat, rev : Nat] BY <3>1
    <3> QED BY <1>1, <3>2, <3>4, <3>5 DEF CandidateSet
  <2>2. MainCandidates(n) \in Seq(C) BY <2>1 DEF MainCandidates
  <2> QED BY <1>4, <1>5, <2>2
<1>7. ASSUME NEW i \in 1 .. l, i - 1 \in S PROVE i \in S
  <2>1. PICK b \in Agents : frames[i] = FrameRec(ts, ds, b)
    <3>1. frames[i] \in F BY <1>4
    <3>2. \A b \in WithItems(ts, ds, ord) : b \in Agents BY DEF WithItems
    <3> QED BY <1>2, <3>1, <3>2
  <2>2. PICK f \in Seq(Item) : f = FrameOf(ts, ds, b) OBVIOUS
  <2>3. frames[i].id = b /\ frames[i].items = f BY <2>1, <2>2 DEF FrameRec
  <2>4. ASSUME NEW k \in DOMAIN f PROVE Candidate(b, k, f[k]) \in C
    <3>1. f[k] \in Item /\ k \in Nat OBVIOUS
    <3>2. PICK c : c = [source |-> b, k |-> k, gen |-> f[k].gen, rev |-> f[k].rev] OBVIOUS
    <3>3. Candidate(b, k, f[k]) = c BY <3>2 DEF Candidate
    <3>4. c.source = b /\ c.k = k BY <3>2
    <3>5. b # "main" BY TimelinePollAssumption
    <3>6. Place(ts, ds, c.source, c.k) BY <2>2, <3>4 DEF Place
    <3>7. c = CandidateAt(ts, ds, c.source, c.k) BY <2>2, <3>3, <3>4, <3>5 DEF CandidateAt
    <3>8. c \in [source : Agents \cup {"main"}, k : Nat, gen : Nat, rev : Nat] BY <3>1, <3>2 DEF Item
    <3> QED BY <1>1, <3>3, <3>6, <3>7, <3>8 DEF CandidateSet
  <2>5. PICK q : q = FrameCandidates(frames, i) /\ q = [k \in DOMAIN f |-> Candidate(b, k, f[k])]
    BY <2>3 DEF FrameCandidates
  <2>6. q \in Seq(C)
    <3>1. PICK m \in Nat : DOMAIN f = 1 .. m
      <4>1. DOMAIN f = 1 .. Len(f) /\ Len(f) \in Nat OBVIOUS
      <4> QED BY <4>1
    <3>2. q \in [1 .. m -> C] BY <2>4, <2>5, <3>1
    <3> QED BY <3>2
  <2>7. PICK p \in Seq(C) : p = s[i - 1] BY <1>7
  <2>8. s[i] = IF b = a THEN p ELSE p \o q BY <1>5, <2>3, <2>5, <2>7
  <2>9. p \o q \in Seq(C) BY <2>6
  <2>10. s[i] \in Seq(C) BY <2>7, <2>8, <2>9
  <2> QED BY <1>4, <2>10
<1>8. l \in S
  <2> HIDE DEF S
  <2> QED BY <1>4, <1>6, <1>7, UpTo
<1> QED BY <1>1, <1>3, <1>5, <1>8

-----------------------------------------------------------------------------
(* A search through the candidates sees members of the list only.            *)

LEMMA FirstFound ==
  ASSUME NEW C, NEW cs \in Seq(C), NEW found \in SUBSET (1 .. Len(cs))
  PROVE  FirstOf(cs, found) \in 1 .. Len(cs) + 1
<1>1. PICK l \in Nat : l = Len(cs) OBVIOUS
<1>2. CASE found = {} BY <1>1, <1>2 DEF FirstOf
<1>3. CASE found # {}
  <2>1. found \in SUBSET Nat OBVIOUS
  <2>2. \E i \in found : \A j \in found : i <= j BY <1>3, <2>1, LeastNat
  <2>3. FirstOf(cs, found) \in found BY <1>3, <2>2 DEF FirstOf
  <2>4. FirstOf(cs, found) \in 1 .. l BY <1>1, <2>3
  <2> QED BY <1>1, <2>4
<1> QED BY <1>2, <1>3


-----------------------------------------------------------------------------
(* The memo: one entry for a question, and none that is ahead of its item or *)
(* answers otherwise than an item of its revision.                           *)

OneEach(m) == \A e, d \in m : (e.a = d.a /\ e.source = d.source /\ e.k = d.k) => e = d
Fits(m, ts, ds) ==
  \A e \in m : /\ Place(ts, ds, e.source, e.k) /\ e.rev \in Nat
               /\ LET c == CandidateAt(ts, ds, e.source, e.k)
                  IN  e.rev <= c.rev /\ (e.rev = c.rev => e.yes = Names(e.a, e.source, c))

LEMMA AnswerIsNames ==
  ASSUME NEW m, NEW ts, NEW ds, OneEach(m), Fits(m, ts, ds), NEW c \in CandidateSet(ts, ds), NEW a
  PROVE  MemoAnswer(m, a, c) = Names(a, c.source, c)
<1>1. c = CandidateAt(ts, ds, c.source, c.k) BY DEF CandidateSet
<1>2. CASE \E e \in Asked(m, a, c) : e.rev = c.rev
  <2>1. PICK e \in Asked(m, a, c) : e.rev = c.rev BY <1>2
  <2>2. e \in m /\ e.a = a /\ e.source = c.source /\ e.k = c.k BY <2>1 DEF Asked
  <2>3. \A d \in Asked(m, a, c) : d = e BY <2>2 DEF Asked, OneEach
  <2>4. (CHOOSE d \in Asked(m, a, c) : TRUE) = e BY <2>1, <2>3
  <2>5. e.yes = Names(a, c.source, c) BY <1>1, <2>1, <2>2 DEF Fits
  <2>6. MemoAnswer(m, a, c) = (CHOOSE d \in Asked(m, a, c) : TRUE).yes BY <1>2 DEF MemoAnswer
  <2> QED BY <2>4, <2>5, <2>6
<1>3. CASE ~\E e \in Asked(m, a, c) : e.rev = c.rev BY <1>3 DEF MemoAnswer
<1> QED BY <1>2, <1>3

(* What the search for one subagent's parent leaves in the memo.             *)
Entry(m, a, c) ==
  [a |-> a, source |-> c.source, k |-> c.k, rev |-> c.rev, yes |-> MemoAnswer(m, a, c)]
Kept(m, a, seen) == {e \in m : e.a = a /\ ~\E c \in seen : e \in Asked(m, a, c)}
Left(m, a, seen) == Kept(m, a, seen) \cup {Entry(m, a, c) : c \in seen}

LEMMA ParentFound ==
  ASSUME NEW m, NEW ts, NEW ds, OneEach(m), Fits(m, ts, ds), NEW n, NEW frames, NEW a,
         Candidates(n, frames, a) \in Seq(CandidateSet(ts, ds))
  PROVE  /\ ParentMemo(m, n, frames, a).parent = Parent(n, frames, a)
         /\ \E seen \in SUBSET CandidateSet(ts, ds) :
              ParentMemo(m, n, frames, a).memo = Left(m, a, seen)
<1>1. PICK C : C = CandidateSet(ts, ds) OBVIOUS
<1>2. PICK cs \in Seq(C) : cs = Candidates(n, frames, a) BY <1>1
<1>3. \A i \in DOMAIN cs : cs[i] \in C OBVIOUS
<1>4. \A i \in DOMAIN cs : MemoAnswer(m, a, cs[i]) = Names(a, cs[i].source, cs[i])
  BY <1>1, <1>3, AnswerIsNames
<1>5. PICK found : found = {i \in DOMAIN cs : MemoAnswer(m, a, cs[i])} OBVIOUS
<1>6. found = {i \in DOMAIN cs : Names(a, cs[i].source, cs[i])} BY <1>4, <1>5
<1>7. PICK at : at = FirstOf(cs, found) OBVIOUS
<1>8. PICK l \in Nat : l = Len(cs) /\ DOMAIN cs = 1 .. l OBVIOUS
<1>9. at \in 1 .. l + 1
  <2>1. found \in SUBSET (1 .. Len(cs)) BY <1>5, <1>8
  <2> QED BY <1>7, <1>8, <2>1, FirstFound
<1>10. PICK seen : seen = {cs[i] : i \in 1 .. IF at > l THEN l ELSE at} OBVIOUS
<1>11. seen \in SUBSET C
  <2>1. \A i \in 1 .. (IF at > l THEN l ELSE at) : i \in DOMAIN cs BY <1>8, <1>9
  <2> QED BY <1>3, <1>10, <2>1
<1>12. /\ ParentMemo(m, n, frames, a).parent = ParentAt(cs, at)
       /\ ParentMemo(m, n, frames, a).memo = Left(m, a, seen)
  <2> DEFINE cs0 == Candidates(n, frames, a)
             at0 == FirstOf(cs0, {i \in DOMAIN cs0 : MemoAnswer(m, a, cs0[i])})
             seen0 == {cs0[i] : i \in 1 .. IF at0 > Len(cs0) THEN Len(cs0) ELSE at0}
  <2>1. cs0 = cs BY <1>2
  <2>2. at0 = at BY <1>5, <1>7, <2>1
  <2>3. seen0 = seen BY <1>8, <1>10, <2>1, <2>2
  <2>4. ParentMemo(m, n, frames, a) =
          [parent |-> ParentAt(cs0, at0),
           memo |-> {e \in m : e.a = a /\ ~\E c \in seen0 : e \in Asked(m, a, c)}
                    \cup {[a |-> a, source |-> c.source, k |-> c.k, rev |-> c.rev,
                           yes |-> MemoAnswer(m, a, c)] : c \in seen0}]
    BY DEF ParentMemo
  <2> HIDE DEF cs0, at0, seen0
  <2>5. ParentMemo(m, n, frames, a).memo = Left(m, a, seen0)
    BY <2>4 DEF Left, Kept, Entry
  <2> QED BY <2>1, <2>2, <2>3, <2>4, <2>5
<1>13. Parent(n, frames, a) = ParentAt(cs, at) BY <1>2, <1>6, <1>7 DEF Parent
<1> QED BY <1>1, <1>11, <1>12, <1>13

LEMMA MemoOfOne ==
  ASSUME NEW m, NEW ts, NEW ds, OneEach(m), Fits(m, ts, ds), NEW a,
         NEW seen \in SUBSET CandidateSet(ts, ds)
  PROVE  OneEach(Left(m, a, seen)) /\ Fits(Left(m, a, seen), ts, ds) /\ \A e \in Left(m, a, seen) : e.a = a
<1>0. PICK u : u = Left(m, a, seen) OBVIOUS
<1>1. \A c \in seen : c = CandidateAt(ts, ds, c.source, c.k) /\ Place(ts, ds, c.source, c.k) /\ c.rev \in Nat
  BY DEF CandidateSet
<1>2. \A c \in seen : MemoAnswer(m, a, c) = Names(a, c.source, c) BY AnswerIsNames
<1>3. \A c \in seen : /\ Entry(m, a, c).a = a /\ Entry(m, a, c).source = c.source /\ Entry(m, a, c).k = c.k
                      /\ Entry(m, a, c).rev = c.rev /\ Entry(m, a, c).yes = MemoAnswer(m, a, c)
  BY DEF Entry
<1>4. \A e \in u : (e \in m /\ e.a = a /\ \A c \in seen : e \notin Asked(m, a, c)) \/ \E c \in seen : e = Entry(m, a, c)
  BY <1>0 DEF Left, Kept
<1>5. \A e \in u : e.a = a BY <1>3, <1>4
<1>6. ASSUME NEW e \in u, NEW d \in u, e.a = d.a, e.source = d.source, e.k = d.k PROVE e = d
  <2>1. CASE e \in m /\ d \in m BY <1>6, <2>1 DEF OneEach
  <2>2. ASSUME NEW x \in u, NEW y \in u, x.source = y.source, x.k = y.k, x \in m, x.a = a,
               \A c \in seen : x \notin Asked(m, a, c), NEW c \in seen, y = Entry(m, a, c)
        PROVE FALSE
    <3>1. x \in Asked(m, a, c) BY <1>3, <2>2 DEF Asked
    <3> QED BY <2>2, <3>1
  <2>3. ASSUME NEW c \in seen, NEW b \in seen, e = Entry(m, a, c), d = Entry(m, a, b) PROVE e = d
    <3>1. c.source = b.source /\ c.k = b.k BY <1>3, <1>6, <2>3
    <3>2. c = b BY <1>1, <3>1
    <3> QED BY <2>3, <3>2
  <2> QED BY <1>4, <1>6, <2>1, <2>2, <2>3
<1>7. ASSUME NEW e \in u
      PROVE  /\ Place(ts, ds, e.source, e.k) /\ e.rev \in Nat
             /\ e.rev <= CandidateAt(ts, ds, e.source, e.k).rev
             /\ e.rev = CandidateAt(ts, ds, e.source, e.k).rev
                => e.yes = Names(e.a, e.source, CandidateAt(ts, ds, e.source, e.k))
  <2>1. CASE e \in m BY <2>1 DEF Fits
  <2>2. ASSUME NEW c \in seen, e = Entry(m, a, c)
        PROVE  /\ Place(ts, ds, e.source, e.k) /\ e.rev \in Nat
               /\ e.rev <= CandidateAt(ts, ds, e.source, e.k).rev
               /\ e.yes = Names(e.a, e.source, CandidateAt(ts, ds, e.source, e.k))
    <3>1. e.source = c.source /\ e.k = c.k /\ e.rev = c.rev /\ e.a = a /\ e.yes = MemoAnswer(m, a, c)
      BY <1>3, <2>2
    <3>2. CandidateAt(ts, ds, e.source, e.k) = c /\ Place(ts, ds, e.source, e.k) /\ c.rev \in Nat
      BY <1>1, <3>1
    <3> QED BY <1>2, <3>1, <3>2
  <2> QED BY <1>4, <2>1, <2>2
<1>8. OneEach(u) BY <1>6 DEF OneEach
<1>9. Fits(u, ts, ds) BY <1>7 DEF Fits
<1> QED BY <1>0, <1>5, <1>8, <1>9


(* A tail that is on has no done entry beside it; nor is the memo wrong,     *)
(* unless a done subagent was reopened on an empty file.                     *)
Once == \A a \in Agents : tail[a].on => done[a].items = <<>>
MemoInv == torn \/ (Once /\ OneEach(memo) /\ Fits(memo, tail, done))

LEMMA NotTorn ==
  ASSUME Poll, ~torn', NEW a \in Agents
  PROVE  ~torn /\ ~(Reopens(a) /\ Scanned(a).items = <<>>)
<1>1. Tails.emptied = {b \in Agents : Reopens(b) /\ Scanned(b).items = <<>>} BY DEF Tails
<1>2. torn' = (torn \/ Tails.emptied # {}) BY PollShape
<1> QED BY <1>1, <1>2

LEMMA OnceKept ==
  ASSUME FpInv, Poll, ~torn', Once
  PROVE  Once'
<1> SUFFICES ASSUME NEW a \in Agents, tail'[a].on PROVE done'[a].items = <<>>
  BY DEF Once
<1>1. tail'[a] = Scanned(a) /\ done'[a] = StillDone(a, Scanned(a)) BY PollTails DEF NoTail
<1>2. CASE Scanned(a).items # <<>> BY <1>1, <1>2 DEF StillDone, NotDone
<1>3. CASE Scanned(a).items = <<>>
  <2>1. done'[a] = done[a] BY <1>1, <1>3 DEF StillDone
  <2>2. ~Reopens(a) BY <1>3, NotTorn
  <2>3. tail[a].on \/ done[a].items = <<>> BY <1>1, <2>2, ScannedShape DEF FpInv
  <2> QED BY <2>1, <2>3 DEF Once
<1> QED BY <1>2, <1>3

(* What the purge leaves fits the frames of after the poll: a frame that was *)
(* not rebuilt only grew, and nothing is left of one that was.               *)
LEMMA PurgedFits ==
  ASSUME FpInv, Poll, ~torn', Once, OneEach(memo), Fits(memo, tail, done)
  PROVE  OneEach(Purged(memo)) /\ Fits(Purged(memo), tail', done')
<1>1. \A e \in Purged(memo) : e \in memo BY DEF Purged
<1>2. OneEach(Purged(memo)) BY <1>1 DEF OneEach
<1>3. ASSUME NEW e \in Purged(memo), e.source = "main"
      PROVE  /\ Place(tail', done', e.source, e.k)
             /\ CandidateAt(tail', done', e.source, e.k) = CandidateAt(tail, done, e.source, e.k)
  BY <1>3 DEF Place, CandidateAt
<1>4. ASSUME NEW e \in Purged(memo), e.source # "main"
      PROVE  /\ Place(tail', done', e.source, e.k)
             /\ e.rev <= CandidateAt(tail', done', e.source, e.k).rev
             /\ e.rev = CandidateAt(tail', done', e.source, e.k).rev
                => CandidateAt(tail', done', e.source, e.k) = CandidateAt(tail, done, e.source, e.k)
                   /\ e.rev = CandidateAt(tail, done, e.source, e.k).rev
  <2>1. /\ Place(tail, done, e.source, e.k) /\ e.rev \in Nat
        /\ e.rev <= CandidateAt(tail, done, e.source, e.k).rev
    BY <1>1 DEF Fits
  <2>2. PICK a \in Agents : e.source = a /\ e.k \in DOMAIN FrameOf(tail, done, a)
    BY <1>4, <2>1 DEF Place
  <2>3. PICK f \in Seq(Item) : f = FrameOf(tail, done, a) BY FrameOK DEF FpInv
  <2>4. ~Rebuilt(a)
    <3>1. SUFFICES ASSUME Rebuilt(a) PROVE FALSE OBVIOUS
    <3>2. ~tail[a].on BY <3>1 DEF Rebuilt, Once
    <3>3. Reopens(a) BY <3>1, <3>2, ScannedShape DEF Rebuilt, FpInv
    <3>4. FrameOf(tail, done, a) = done[a].items BY <3>2 DEF FrameOf, FpInv, OffIsEmpty, NoTail
    <3> QED BY <2>2, <3>3, <3>4 DEF Purged
  <2>5. FpInv' BY FpPollKept
  <2>6. PICK g \in Seq(Item) : g = FrameOf(tail', done', a) BY <2>5, FrameOKNext DEF FpInv
  <2>7. Longer(f, g) BY <2>3, <2>4, <2>6, FrameLonger DEF FpInv
  <2>8. PICK k \in 1 .. Len(f) : k = e.k BY <2>2, <2>3
  <2>9. k \in 1 .. Len(g) /\ f[k].rev <= g[k].rev /\ (f[k].rev = g[k].rev => f[k] = g[k])
    BY <2>7, <2>8 DEF Longer
  <2>10. f[k].rev \in Nat /\ g[k].rev \in Nat
    <3>1. f[k] \in Item /\ g[k] \in Item BY <2>9
    <3> QED BY <3>1 DEF Item
  <2>11. CandidateAt(tail, done, e.source, e.k) = Candidate(a, k, f[k])
         /\ CandidateAt(tail', done', e.source, e.k) = Candidate(a, k, g[k])
    BY <1>4, <2>2, <2>3, <2>6, <2>8 DEF CandidateAt
  <2>12. Candidate(a, k, f[k]).rev = f[k].rev /\ Candidate(a, k, g[k]).rev = g[k].rev BY DEF Candidate
  <2>13. Place(tail', done', e.source, e.k)
    <3>1. DOMAIN g = 1 .. Len(g) OBVIOUS
    <3> QED BY <2>2, <2>6, <2>8, <2>9, <3>1 DEF Place
  <2>14. e.rev <= f[k].rev BY <2>1, <2>11, <2>12
  <2>15. e.rev <= g[k].rev /\ (e.rev = g[k].rev => e.rev = f[k].rev /\ f[k] = g[k])
    BY <2>1, <2>9, <2>10, <2>14
  <2> QED BY <2>11, <2>12, <2>13, <2>15
<1>5. ASSUME NEW e \in Purged(memo)
      PROVE  /\ Place(tail', done', e.source, e.k) /\ e.rev \in Nat
             /\ e.rev <= CandidateAt(tail', done', e.source, e.k).rev
             /\ e.rev = CandidateAt(tail', done', e.source, e.k).rev
                => e.yes = Names(e.a, e.source, CandidateAt(tail', done', e.source, e.k))
  <2>1. /\ e.rev \in Nat /\ e.rev <= CandidateAt(tail, done, e.source, e.k).rev
        /\ e.rev = CandidateAt(tail, done, e.source, e.k).rev
           => e.yes = Names(e.a, e.source, CandidateAt(tail, done, e.source, e.k))
    BY <1>1 DEF Fits
  <2>2. CASE e.source = "main" BY <1>3, <2>1, <2>2
  <2>3. CASE e.source # "main" BY <1>4, <2>1, <2>3
  <2> QED BY <2>2, <2>3
<1>6. Fits(Purged(memo), tail', done') BY <1>5 DEF Fits
<1> QED BY <1>2, <1>6

(* One emit: the parents by way of the memo are those of the plain search,   *)
(* and what the searches leave is such a memo again.                         *)
LEMMA EmitTrue ==
  ASSUME NEW ts, NEW ds, NEW ord \in Seq(Agents), NEW frames, frames = FramesOf(ts, ds, ord),
         OneEach(Purged(memo)), Fits(Purged(memo), ts, ds), main \in Nat,
         \A b \in Agents : FrameOf(ts, ds, b) \in Seq(Item), Emit(frames)
  PROVE  /\ OneEach(memo') /\ Fits(memo', ts, ds)
         /\ \A i \in DOMAIN frames : shown'.parents[i] = Parent(main, frames, frames[i].id)
<1> DEFINE P == Purged(memo)
<1>1. PICK found : /\ found = [i \in DOMAIN frames |-> ParentMemo(P, main, frames, frames[i].id)]
                   /\ memo' = {e \in P : \A i \in DOMAIN frames : frames[i].id # e.a}
                              \cup UNION {found[i].memo : i \in DOMAIN frames}
                   /\ shown' = [main |-> main, frames |-> frames,
                                parents |-> [i \in DOMAIN frames |-> found[i].parent]]
  BY DEF Emit
<1>p. OneEach(P) /\ Fits(P, ts, ds) OBVIOUS
<1> HIDE DEF P
<1>2. ASSUME NEW a
      PROVE  /\ ParentMemo(P, main, frames, a).parent = Parent(main, frames, a)
             /\ OneEach(ParentMemo(P, main, frames, a).memo) /\ Fits(ParentMemo(P, main, frames, a).memo, ts, ds)
             /\ \A e \in ParentMemo(P, main, frames, a).memo : e.a = a
  <2>1. PICK n \in Nat : n = main OBVIOUS
  <2>2. Candidates(n, frames, a) \in Seq(CandidateSet(ts, ds)) BY CandidatesOK
  <2>3. /\ ParentMemo(P, n, frames, a).parent = Parent(n, frames, a)
        /\ \E seen \in SUBSET CandidateSet(ts, ds) : ParentMemo(P, n, frames, a).memo = Left(P, a, seen)
    BY ONLY <1>p, <2>2, ParentFound
  <2>4. PICK seen \in SUBSET CandidateSet(ts, ds) : ParentMemo(P, n, frames, a).memo = Left(P, a, seen)
    BY <2>3
  <2>5. OneEach(Left(P, a, seen)) /\ Fits(Left(P, a, seen), ts, ds) /\ \A e \in Left(P, a, seen) : e.a = a
    BY ONLY <1>p, MemoOfOne
  <2> QED BY <2>1, <2>3, <2>4, <2>5
<1>3. \A e \in memo' : \/ e \in P /\ \A i \in DOMAIN frames : frames[i].id # e.a
                       \/ \E i \in DOMAIN frames : e \in ParentMemo(P, main, frames, frames[i].id).memo
  BY <1>1
<1>4. \A e \in memo' : \/ e \in P /\ \A i \in DOMAIN frames : frames[i].id # e.a
                       \/ /\ \E i \in DOMAIN frames : frames[i].id = e.a
                          /\ e \in ParentMemo(P, main, frames, e.a).memo
  BY <1>2, <1>3
<1>5. OneEach(memo')
  <2> SUFFICES ASSUME NEW e \in memo', NEW d \in memo', e.a = d.a, e.source = d.source, e.k = d.k PROVE e = d
    BY DEF OneEach
  <2>1. CASE e \in P /\ d \in P BY <1>p, <2>1 DEF OneEach
  <2>2. CASE e \in ParentMemo(P, main, frames, e.a).memo /\ d \in ParentMemo(P, main, frames, e.a).memo
    BY <1>2, <2>2 DEF OneEach
  <2> QED BY <1>4, <2>1, <2>2
<1>6. Fits(memo', ts, ds)
  <2> SUFFICES ASSUME NEW e \in memo'
      PROVE  /\ Place(ts, ds, e.source, e.k) /\ e.rev \in Nat
             /\ e.rev <= CandidateAt(ts, ds, e.source, e.k).rev
             /\ e.rev = CandidateAt(ts, ds, e.source, e.k).rev
                => e.yes = Names(e.a, e.source, CandidateAt(ts, ds, e.source, e.k))
    BY DEF Fits
  <2>1. CASE e \in P BY <1>p, <2>1 DEF Fits
  <2>2. CASE e \in ParentMemo(P, main, frames, e.a).memo BY <1>2, <2>2 DEF Fits
  <2> QED BY <1>4, <2>1, <2>2
<1>7. \A i \in DOMAIN frames : shown'.parents[i] = Parent(main, frames, frames[i].id) BY <1>1, <1>2
<1> QED BY <1>5, <1>6, <1>7

TimelineInv == FpInv /\ ShownIsPolled /\ MemoInv /\ MemoIsNaive

LEMMA TimelineInitKept == TLInit => TimelineInv
<1> SUFFICES ASSUME TLInit PROVE TimelineInv OBVIOUS
<1>1. MemoInv BY DEF TLInit, MemoInv, Once, OneEach, Fits, NoTail
<1>2. MemoIsNaive BY DEF TLInit, MemoIsNaive, Blank
<1> QED BY <1>1, <1>2, FpInitKept DEF TimelineInv

LEMMA MemoPollKept ==
  ASSUME TimelineInv, Poll
  PROVE  MemoInv' /\ MemoIsNaive'
<1>1. SUFFICES ASSUME ~torn'
               PROVE  /\ Once' /\ OneEach(memo') /\ Fits(memo', tail', done')
                      /\ \A i \in DOMAIN shown'.frames :
                           shown'.parents[i] = Parent(shown'.main, shown'.frames, shown'.frames[i].id)
  BY DEF MemoInv, MemoIsNaive
<1>2. FpInv /\ FpInv' BY FpPollKept DEF TimelineInv
<1>3. ~torn BY <1>1, PollShape
<1>4. Once /\ OneEach(memo) /\ Fits(memo, tail, done) BY <1>3 DEF TimelineInv, MemoInv
<1>5. Once' BY <1>1, <1>2, <1>4, OnceKept
<1>6. PICK P : P = Purged(memo) OBVIOUS
<1>7. OneEach(P) /\ Fits(P, tail', done') BY <1>1, <1>2, <1>4, <1>6, PurgedFits
<1>8. CASE fp' = fp /\ memo' = Purged(memo) /\ shown' = shown
  <2>1. \A i \in DOMAIN shown.frames :
           shown.parents[i] = Parent(shown.main, shown.frames, shown.frames[i].id)
    BY <1>3 DEF TimelineInv, MemoIsNaive
  <2>2. shown' = shown /\ memo' = P BY <1>6, <1>8
  <2> QED BY <1>5, <1>7, <2>1, <2>2
<1>9. CASE Emit(FramesOf(tail', done', order'))
  <2>1. PICK ts, ds : ts = tail' /\ ds = done' OBVIOUS
  <2>2. PICK ord \in Seq(Agents) : ord = order' BY <1>2 DEF FpInv
  <2>3. PICK frames : frames = FramesOf(ts, ds, ord) OBVIOUS
  <2>4. Emit(frames) BY <1>9, <2>1, <2>2, <2>3
  <2>5. main \in Nat BY <1>2, TimelinePollAssumption DEF FpInv, TLInv, Counters
  <2>6. \A b \in Agents : FrameOf(ts, ds, b) \in Seq(Item)
    <3>1. TLInv' /\ OffIsEmpty' BY <1>2 DEF FpInv
    <3>2. \A b \in Agents : FrameOf(tail', done', b) \in Seq(Item) BY <3>1, FrameOKNext
    <3> QED BY <2>1, <3>2
  <2>7. Fits(P, ts, ds) BY <1>7, <2>1
  <2>8. /\ OneEach(memo') /\ Fits(memo', ts, ds)
        /\ \A i \in DOMAIN frames : shown'.parents[i] = Parent(main, frames, frames[i].id)
    <3>1. OneEach(Purged(memo)) /\ Fits(Purged(memo), ts, ds) BY <1>6, <1>7, <2>7
    <3> QED BY <2>3, <2>4, <2>5, <2>6, <3>1, EmitTrue
  <2>9. shown'.main = main /\ shown'.frames = frames BY <2>4 DEF Emit
  <2>10. Fits(memo', tail', done') BY <2>1, <2>8
  <2> QED BY <1>5, <2>8, <2>9, <2>10
<1> QED BY <1>8, <1>9, PollShape

LEMMA TimelineStep ==
  ASSUME TimelineInv, [TLNext]_tlVars
  PROVE  TimelineInv'
<1>1. TLInv' BY TLStep DEF TimelineInv, FpInv
<1>2. CASE Poll
  <2>1. FpInv' BY <1>2, FpPollKept DEF TimelineInv
  <2>2. ShownIsPolled' BY <1>2, PolledIsShown DEF TimelineInv
  <2> QED BY <1>2, <2>1, <2>2, MemoPollKept DEF TimelineInv
<1>3. CASE UNCHANGED poll
  <2>1. UNCHANGED <<items, tail, done, order, subGen, fp, memo, shown, torn>> BY <1>3 DEF poll
  <2>2. FpInv' BY <1>1, <2>1 DEF TimelineInv, FpInv, OffIsEmpty, FpKept
  <2>3. ShownIsPolled' BY <2>1 DEF TimelineInv, ShownIsPolled
  <2>4. MemoInv' BY <2>1 DEF TimelineInv, MemoInv, Once
  <2>5. MemoIsNaive' BY <2>1 DEF TimelineInv, MemoIsNaive
  <2> QED BY <2>2, <2>3, <2>4, <2>5 DEF TimelineInv
<1>4. Poll \/ UNCHANGED poll
  BY DEF TLNext, StartPoll, AppendMain, StopPoll, Wake, FlushSnapshot, PollFails, AppendAgent, Rewrite,
         tlVars, poll
<1> QED BY <1>2, <1>3, <1>4

(* What the window shows is what the thread has read, and the parents the    *)
(* memo gives are those of the plain search.                                 *)
THEOREM FramesAreTrueTheorem == TLSpec => []FramesAreTrue
<1>1. TimelineInv => FramesAreTrue BY DEF TimelineInv, FramesAreTrue
<1>2. TLInit => TimelineInv BY TimelineInitKept
<1>3. TimelineInv /\ [TLNext]_tlVars => TimelineInv' BY TimelineStep
<1> QED BY <1>1, <1>2, <1>3, PTL DEF TLSpec

LEMMA FrameStays ==
  ASSUME TimelineInv, [TLNext]_tlVars, NEW i \in DOMAIN shown.frames
  PROVE  \E j \in DOMAIN shown'.frames : shown'.frames[j].id = shown.frames[i].id
<1>1. CASE shown' = shown BY <1>1
<1>2. CASE Poll
  <2>1. FpInv /\ FpInv' /\ ShownIsPolled /\ ShownIsPolled'
    BY <1>2, FpPollKept, PolledIsShown DEF TimelineInv
  <2>2. PICK ord \in Seq(Agents) : ord = order BY <2>1 DEF FpInv
  <2>3. PICK F : F = {FrameRec(tail, done, a) : a \in WithItems(tail, done, ord)} OBVIOUS
  <2>4. shown.frames \in Seq(F) BY <2>1, <2>2, <2>3, FramesMembers DEF ShownIsPolled
  <2>5. shown.frames[i] \in F BY <2>4
  <2>6. PICK n \in 1 .. Len(ord) : FrameOf(tail, done, ord[n]) # <<>> /\ shown.frames[i].id = ord[n]
    <3>1. PICK a \in WithItems(tail, done, ord) : shown.frames[i] = FrameRec(tail, done, a) BY <2>3, <2>5
    <3> QED BY <3>1 DEF WithItems, FrameRec
  <2>7. ord[n] \in Agents OBVIOUS
  <2>8. FrameOf(tail', done', ord[n]) # <<>> BY <1>2, <2>1, <2>6, <2>7, FrameLonger DEF FpInv
  <2>9. PICK ext \in Seq(Agents) : order' = order \o ext BY <1>2, OrderGrows
  <2>10. PICK all \in Seq(Agents) : all = order' BY <2>1 DEF FpInv
  <2>11. all = ord \o ext BY <2>2, <2>9, <2>10
  <2>12. n \in 1 .. Len(all) /\ all[n] = ord[n] BY <2>11
  <2>13. \E j \in DOMAIN FramesOf(tail', done', all) : FramesOf(tail', done', all)[j].id = all[n]
    <3>1. PICK ts, ds : ts = tail' /\ ds = done' OBVIOUS
    <3>2. all[n] \in WithItems(ts, ds, all) BY <2>8, <2>12, <3>1 DEF WithItems
    <3>3. HasFrame(FramesOf(ts, ds, all), all[n]) BY <3>2, FramesMembers
    <3> QED BY <3>1, <3>3 DEF HasFrame
  <2>14. shown'.frames = FramesOf(tail', done', all) BY <2>1, <2>10 DEF ShownIsPolled
  <2> QED BY <2>6, <2>12, <2>13, <2>14
<1>3. Poll \/ shown' = shown
  BY DEF TLNext, StartPoll, AppendMain, StopPoll, Wake, FlushSnapshot, PollFails, AppendAgent, Rewrite,
         tlVars, poll
<1> QED BY <1>1, <1>2, <1>3

(* A subagent that was shown is shown by every later payload.                *)
THEOREM FramesStayTheorem == TLSpec => FramesStay
<1>1. TLInit => TimelineInv BY TimelineInitKept
<1>2. TimelineInv /\ [TLNext]_tlVars => TimelineInv' BY TimelineStep
<1>3. TimelineInv /\ [TLNext]_tlVars
      => \A i \in DOMAIN shown.frames :
           \E j \in DOMAIN shown'.frames : shown'.frames[j].id = shown.frames[i].id
  BY FrameStays
<1> QED BY <1>1, <1>2, <1>3, PTL DEF TLSpec, FramesStay

-----------------------------------------------------------------------------
(* What the caller of a remote command is told: the bytes it got accepted    *)
(* are on the wire, in the queue, in the writer's hands or counted as lost   *)
(* (Ledger), and the stages of the session decide whether a verdict is due   *)
(* (Stages).                                                                 *)
USE SshAssumption DEF SshAssumption

Early == {"none", "connecting", "asking", "prompted", "auth", "opening"}

Amounts == accepted \in Int /\ queued \in Int /\ left \in Int /\ wire \in Int /\ lost \in Int
Flags == open \in BOOLEAN /\ asked \in BOOLEAN /\ cancelled \in BOOLEAN

Ledger == accepted <= wire + lost + queued + left

(* A chunk is in the writer's hands exactly while it waits or sends, and     *)
(* nothing can be accepted any more once the writer is through.              *)
Hands ==
  /\ left <= ChunkBytes
  /\ IF writer \in {"sending", "backlog"} THEN left >= 1 ELSE left = 0
Shut == writer = "done" => queued = 0 /\ ~open

Stages ==
  /\ stage \in Early => ~asked /\ writer = "off"
  /\ stage = "running" => (asked <=> mode # "shell")
  /\ stage = "reporting" => asked /\ writer = "done"
  /\ verdicts \in {0, 1}
  /\ verdicts = 1 => stage = "over" /\ asked /\ writer = "done"
  /\ stage = "over" /\ asked /\ ~cancelled => verdicts = 1

HonestInv == Amounts /\ Flags /\ Ledger /\ Hands /\ Shut /\ Stages

(* What the invariant speaks of.                                             *)
honestVars == <<stage, mode, cancelled, queued, open, accepted, writer, left, wire, lost, asked,
                verdicts>>


(* The invariant says what the callers rely on.                              *)
LEMMA HonestEnough == HonestInv => ExecIsHonest
  BY DEF HonestInv, Amounts, Flags, Ledger, Hands, Shut, Stages, ExecIsHonest, NoSilentLoss, OneVerdict, Early

LEMMA HonestInit == SshInit => HonestInv
<1> SUFFICES ASSUME SshInit PROVE HonestInv
  OBVIOUS
<1>1. Amounts
  BY DEF SshInit, Amounts
<1>5. Flags
  BY DEF SshInit, Flags
<1>2. Ledger
  BY DEF SshInit, Ledger
<1>3. Hands
  BY DEF SshInit, Hands
<1>6. Shut
  BY DEF SshInit, Shut
<1>4. Stages
  BY DEF SshInit, Stages, Early
<1> QED BY <1>1, <1>2, <1>3, <1>4, <1>5, <1>6 DEF HonestInv

(* A step that touches none of it keeps it.                                  *)
LEMMA HonestUntouched == ASSUME HonestInv, UNCHANGED honestVars PROVE HonestInv'
  BY DEF HonestInv, honestVars, Amounts, Flags, Ledger, Hands, Shut, Stages, Early

(* A step before the channel is open: the session goes on, or ends with no   *)
(* verdict due.                                                              *)
LEMMA HonestEarly ==
  ASSUME HonestInv, stage \in Early,
         stage' \in Early \cup {"over"} /\ open' \in {open, FALSE} /\ cancelled' = cancelled,
         UNCHANGED <<queued, accepted, writer, left, wire, lost, asked, verdicts>>
  PROVE HonestInv'
<1>1. Amounts'
  BY DEF HonestInv, Amounts
<1>5. Flags'
  BY DEF HonestInv, Flags
<1>2. Ledger'
  BY DEF HonestInv, Ledger
<1>3. Hands'
  BY DEF HonestInv, Hands
<1>6. Shut'
  BY DEF HonestInv, Flags, Shut
<1>4. Stages'
  BY DEF HonestInv, Stages, Early
<1> QED BY <1>1, <1>2, <1>3, <1>4, <1>5, <1>6 DEF HonestInv

(* The writer's way out: what it holds and what is queued is counted.        *)
LEMMA HonestDrain ==
  ASSUME HonestInv, NEW extra \in Int, extra >= left, Drain(extra),
         stage = "running", mode # "shell",
         UNCHANGED <<stage, mode, cancelled, accepted, wire, asked, verdicts>>
  PROVE HonestInv'
<1>1. Amounts'
  BY DEF HonestInv, Amounts, Drain
<1>5. Flags'
  BY DEF HonestInv, Flags, Drain
<1>2. Ledger'
  BY DEF HonestInv, Amounts, Flags, Ledger, Drain
<1>3. Hands'
  BY DEF HonestInv, Hands, Drain
<1>6. Shut'
  BY DEF HonestInv, Shut, Drain
<1>4. Stages'
  BY DEF HonestInv, Stages, Early, Drain
<1> QED BY <1>1, <1>2, <1>3, <1>4, <1>5, <1>6 DEF HonestInv

(* Every step keeps the books and the promise of one verdict.                *)
LEMMA HonestStep == HonestInv /\ [SshNext]_sshVars => HonestInv'
<1> SUFFICES ASSUME HonestInv, [SshNext]_sshVars PROVE HonestInv'
  OBVIOUS
<1> USE DEF connVars, inVars, writeVars, readVars, netVars, eventVars
<1>1. CASE UNCHANGED sshVars
  BY <1>1, HonestUntouched DEF sshVars, honestVars
<1>2. CASE SshCreate \/ RemoteExec \/ CheckServerKey \/ PromptRelay \/ HostKeyDecision \/ Authenticate
           \/ Fails
  BY <1>2, HonestEarly DEF SshCreate, RemoteExec, SpawnSsh, CheckServerKey, PromptRelay,
     HostKeyDecision, Authenticate, Fails, Ends, Early, HonestInv, Amounts, Flags
<1>3. CASE ChannelOpens
  <2>1. Amounts'
    BY <1>3 DEF ChannelOpens, HonestInv, Amounts
  <2>2. Flags'
    BY <1>3 DEF ChannelOpens, HonestInv, Flags
  <2>3. Ledger'
    BY <1>3 DEF ChannelOpens, HonestInv, Amounts, Ledger, Hands, Shut
  <2>4. Hands'
    BY <1>3 DEF ChannelOpens, HonestInv, Hands, Stages, Early
  <2>5. Shut'
    BY <1>3 DEF ChannelOpens, HonestInv, Flags, Shut
  <2>6. Stages'
    BY <1>3 DEF ChannelOpens, HonestInv, Flags, Stages, Early
  <2> QED BY <2>1, <2>2, <2>3, <2>4, <2>5, <2>6 DEF HonestInv
<1>4. CASE ExecNotSent
  <2>1. Amounts'
    BY <1>4 DEF ExecNotSent, HonestInv, Amounts
  <2>2. Flags'
    BY <1>4 DEF ExecNotSent, HonestInv, Flags
  <2>3. Ledger'
    BY <1>4 DEF ExecNotSent, HonestInv, Amounts, Ledger, Hands, Shut
  <2>4. Hands'
    BY <1>4 DEF ExecNotSent, HonestInv, Hands, Stages, Early
  <2>5. Shut'
    BY <1>4 DEF ExecNotSent, HonestInv, Flags, Shut
  <2>6. Stages'
    BY <1>4 DEF ExecNotSent, HonestInv, Flags, Stages, Early
  <2> QED BY <2>1, <2>2, <2>3, <2>4, <2>5, <2>6 DEF HonestInv
<1>5. CASE TrySend
  BY <1>5 DEF TrySend, HonestInv, Amounts, Flags, Ledger, Hands, Shut, Stages, Early
<1>6. CASE CheckGate \/ ServerAnswers \/ ServerWrites \/ ServerReads \/ ServerEnds \/ ConnectionLoop
           \/ Reader \/ ReaderSends \/ Consume \/ DropConsumer
  BY <1>6, HonestUntouched DEF honestVars, CheckGate, ServerAnswers, ServerWrites, ServerReads,
     ServerEnds, ConnectionLoop, Reader, ReaderSends, Consume, DropConsumer, ServerStep, ReaderStops
<1>7. CASE WriterStarts
  <2>1. CASE Drain(0)
    BY <1>7, <2>1, HonestDrain DEF WriterStarts, Exec, HonestInv, Hands
  <2>2. CASE writer' = "recv" /\ UNCHANGED <<left, open, lost, queued>>
    BY <1>7, <2>2 DEF WriterStarts, Exec, HonestInv, Amounts, Flags, Ledger, Hands, Shut, Stages, Early
  <2> QED BY <1>7, <2>1, <2>2 DEF WriterStarts
<1>8. CASE WriterReceives
  <2>1. CASE Drain(0)
    BY <1>8, <2>1, HonestDrain DEF WriterReceives, Exec, HonestInv, Hands
  <2>2. CASE ~Drain(0)
    BY <1>8, <2>2 DEF WriterReceives, Exec, HonestInv, Amounts, Flags, Ledger, Hands, Shut, Stages, Early
  <2> QED BY <2>1, <2>2
<1>9. CASE WriterSends
  BY <1>9 DEF WriterSends, HonestInv, Amounts, Flags, Ledger, Hands, Shut, Stages, Early
<1>10. CASE WriterStops
  BY <1>10, HonestDrain DEF WriterStops, Exec, HonestInv, Hands
<1>11. CASE JoinHalves
  BY <1>11 DEF JoinHalves, HalvesDone, Exec, HonestInv, Amounts, Flags, Ledger, Hands, Shut, Stages, Early
<1>12. CASE Report
  <2>1. Amounts'
    BY <1>12 DEF Report, Ends, HonestInv, Amounts
  <2>2. Flags'
    BY <1>12 DEF Report, Ends, HonestInv, Flags
  <2>3. Ledger'
    BY <1>12 DEF Report, Ends, HonestInv, Amounts, Ledger, Hands, Shut
  <2>4. Hands'
    BY <1>12 DEF Report, Ends, HonestInv, Amounts, Hands
  <2>5. Shut'
    BY <1>12 DEF Report, Ends, HonestInv, Flags, Shut
  <2>6. Stages'
    BY <1>12 DEF Report, Ends, HonestInv, Flags, Stages, Early
  <2> QED BY <2>1, <2>2, <2>3, <2>4, <2>5, <2>6 DEF HonestInv
<1>13. CASE ShellReads \/ ShellTakes \/ ShellFlushes
  <2>1. Amounts'
    BY <1>13 DEF Shell, ShellReads, ShellTakes, ShellFlushes, HonestInv, Amounts
  <2>2. Flags'
    BY <1>13 DEF Shell, ShellReads, ShellTakes, ShellFlushes, HonestInv, Flags
  <2>3. Ledger'
    BY <1>13 DEF Shell, ShellReads, ShellTakes, ShellFlushes, HonestInv, Amounts, Ledger, Hands, Shut
  <2>4. Hands'
    BY <1>13 DEF Shell, ShellReads, ShellTakes, ShellFlushes, HonestInv, Amounts, Hands
  <2>5. Shut'
    BY <1>13 DEF Shell, ShellReads, ShellTakes, ShellFlushes, HonestInv, Flags, Shut
  <2>6. Stages'
    BY <1>13 DEF Shell, ShellReads, ShellTakes, ShellFlushes, HonestInv, Flags, Stages, Early
  <2> QED BY <2>1, <2>2, <2>3, <2>4, <2>5, <2>6 DEF HonestInv
<1>14. CASE Cancel
  BY <1>14 DEF Cancel, Ends, HonestInv, Amounts, Flags, Ledger, Hands, Shut, Stages, Early
<1> QED
  BY <1>1, <1>2, <1>3, <1>4, <1>5, <1>6, <1>7, <1>8, <1>9, <1>10, <1>11, <1>12, <1>13, <1>14
     DEF SshNext

(* Whatever the server, the network and the consumer do: once the verdict of *)
(* an exec is out every byte that send_input accepted was written or is      *)
(* counted as undelivered; no request has two verdicts, one that was not sent*)
(* has none, and one that was sent has one when it is over, unless the       *)
(* session was cancelled.                                                    *)
THEOREM ExecIsHonestTheorem == SshSpec => []ExecIsHonest
<1>1. HonestInv /\ [SshNext]_sshVars => HonestInv'
  BY HonestStep
<1> QED
  BY <1>1, HonestInit, HonestEnough, PTL DEF SshSpec

-----------------------------------------------------------------------------
(* The types: the input queue holds whole chunks, and the other queues stay  *)
(* within their bounds.                                                      *)

Msgs == {"success", "failure", "data", "stderr", "adjust", "exit", "eof", "close"}
Chunks(n) == \E k \in Nat : n = k * ChunkBytes

Queues ==
  /\ net \in Seq(Msgs)
  /\ recvq \in Seq(Msgs) /\ Len(recvq) <= RecvQueue
  /\ execEvents \in Seq({"stderr", "verdict"}) /\ Len(execEvents) <= EventQueue

Thread ==
  /\ stage \in {"none", "connecting", "asking", "prompted", "auth", "opening", "running", "reporting", "over"}
  /\ mode \in {"shell", "eof", "stream"} /\ known \in {"none", "same", "other"} /\ cancelled \in BOOLEAN
Input == gate \in {"open", "never", "ended"} /\ caller \in {"idle", "checked"} /\ open \in BOOLEAN
Halves ==
  /\ writer \in {"off", "start", "recv", "backlog", "sending", "done"}
  /\ reader \in {"off", "wait", "event", "done"}
Signals == started \in BOOLEAN /\ finished \in BOOLEAN /\ asked \in BOOLEAN
FarEnds == server \in {"none", "asked", "runs", "gone"} /\ consumer \in {"reads", "dropped"}
Controls == Thread /\ Input /\ Halves /\ Signals /\ FarEnds

Bytes ==
  /\ queued \in 0..InputQueue /\ Chunks(queued) /\ accepted \in Nat
  /\ left \in 0..ChunkBytes /\ (writer \in {"sending", "backlog"} => left > 0)
  /\ window \in Nat /\ wire \in Nat /\ lost \in Nat
  /\ outs \in Nat /\ got \in 0..wire /\ verdicts \in Nat

SshTypes == Controls /\ Bytes /\ Queues

LEMMA SshTypesEnough == SshTypes => SshTypeOK
BY DEF SshTypes, Controls, Thread, Input, Halves, Signals, FarEnds, Bytes, Queues, SshTypeOK

LEMMA SshTypesInit == SshInit => SshTypes
<1> SUFFICES ASSUME SshInit PROVE SshTypes
  OBVIOUS
<1>1. Controls BY DEF SshInit, Controls, Thread, Input, Halves, Signals, FarEnds
<1>2. Chunks(0)
  <2>1. 0 = 0 * ChunkBytes OBVIOUS
  <2> QED BY <2>1 DEF Chunks
<1>3. Bytes BY <1>2 DEF SshInit, Bytes
<1>4. <<>> \in Seq(Msgs) /\ <<>> \in Seq({"stderr", "verdict"}) /\ Len(<<>>) = 0 OBVIOUS
<1>5. Queues BY <1>4 DEF SshInit, Queues
<1> QED BY <1>1, <1>3, <1>5 DEF SshTypes

LEMMA ChunkMore ==
  ASSUME NEW n \in Nat, Chunks(n)
  PROVE  Chunks(n + ChunkBytes)
<1>1. PICK k \in Nat : n = k * ChunkBytes BY DEF Chunks
<1>2. n + ChunkBytes = (k + 1) * ChunkBytes BY <1>1
<1> QED BY <1>2 DEF Chunks

LEMMA ChunkLess ==
  ASSUME NEW n \in Nat, Chunks(n), n > 0
  PROVE  n - ChunkBytes \in Nat /\ Chunks(n - ChunkBytes)
<1>1. PICK k \in Nat : n = k * ChunkBytes BY DEF Chunks
<1>2. k # 0 BY <1>1
<1>3. k - 1 \in Nat BY <1>2
<1>4. n - ChunkBytes = (k - 1) * ChunkBytes BY <1>1
<1>5. (k - 1) * ChunkBytes \in Nat BY <1>3
<1> QED BY <1>3, <1>4, <1>5 DEF Chunks

LEMMA ControlsKept ==
  ASSUME SshTypes, SshNext
  PROVE  Controls'
<1> USE DEF connVars, inVars, writeVars, readVars, netVars, eventVars
<1>0. Thread /\ Input /\ Halves /\ Signals /\ FarEnds BY DEF SshTypes, Controls
<1>1. CASE SshCreate \/ RemoteExec \/ Fails
  <2>1. Thread' BY <1>0, <1>1 DEF SshCreate, RemoteExec, Fails, SpawnSsh, Ends, Thread
  <2>2. Input' BY <1>0, <1>1 DEF SshCreate, RemoteExec, Fails, SpawnSsh, Ends, Input
  <2>3. Halves' BY <1>0, <1>1 DEF SshCreate, RemoteExec, Fails, SpawnSsh, Ends, Halves
  <2>4. Signals' BY <1>0, <1>1 DEF SshCreate, RemoteExec, Fails, SpawnSsh, Ends, Signals
  <2>5. FarEnds' BY <1>0, <1>1 DEF SshCreate, RemoteExec, Fails, SpawnSsh, Ends, FarEnds
  <2> QED BY <2>1, <2>2, <2>3, <2>4, <2>5 DEF Controls
<1>2. CASE CheckServerKey \/ PromptRelay \/ HostKeyDecision
  <2>1. Thread' BY <1>0, <1>2 DEF CheckServerKey, PromptRelay, HostKeyDecision, Thread
  <2>2. Input' BY <1>0, <1>2 DEF CheckServerKey, PromptRelay, HostKeyDecision, Input
  <2>3. Halves' BY <1>0, <1>2 DEF CheckServerKey, PromptRelay, HostKeyDecision, Halves
  <2>4. Signals' BY <1>0, <1>2 DEF CheckServerKey, PromptRelay, HostKeyDecision, Signals
  <2>5. FarEnds' BY <1>0, <1>2 DEF CheckServerKey, PromptRelay, HostKeyDecision, FarEnds
  <2> QED BY <2>1, <2>2, <2>3, <2>4, <2>5 DEF Controls
<1>3. CASE Authenticate \/ ChannelOpens \/ ExecNotSent
  <2>1. Thread' BY <1>0, <1>3 DEF Authenticate, ChannelOpens, ExecNotSent, Thread
  <2>2. Input' BY <1>0, <1>3 DEF Authenticate, ChannelOpens, ExecNotSent, Input
  <2>3. Halves' BY <1>0, <1>3 DEF Authenticate, ChannelOpens, ExecNotSent, Halves
  <2>4. Signals' BY <1>0, <1>3 DEF Authenticate, ChannelOpens, ExecNotSent, Signals
  <2>5. FarEnds' BY <1>0, <1>3 DEF Authenticate, ChannelOpens, ExecNotSent, FarEnds
  <2> QED BY <2>1, <2>2, <2>3, <2>4, <2>5 DEF Controls
<1>4. CASE CheckGate \/ TrySend
  <2>1. Thread' BY <1>0, <1>4 DEF CheckGate, TrySend, Thread
  <2>2. Input' BY <1>0, <1>4 DEF CheckGate, TrySend, Input
  <2>3. Halves' BY <1>0, <1>4 DEF CheckGate, TrySend, Halves
  <2>4. Signals' BY <1>0, <1>4 DEF CheckGate, TrySend, Signals
  <2>5. FarEnds' BY <1>0, <1>4 DEF CheckGate, TrySend, FarEnds
  <2> QED BY <2>1, <2>2, <2>3, <2>4, <2>5 DEF Controls
<1>5. CASE ServerAnswers \/ ServerWrites \/ ServerReads \/ ServerEnds \/ ConnectionLoop
  <2>1. Thread' BY <1>0, <1>5 DEF ServerAnswers, ServerWrites, ServerReads, ServerEnds, ConnectionLoop, ServerStep, Thread
  <2>2. Input' BY <1>0, <1>5 DEF ServerAnswers, ServerWrites, ServerReads, ServerEnds, ConnectionLoop, ServerStep, Input
  <2>3. Halves' BY <1>0, <1>5 DEF ServerAnswers, ServerWrites, ServerReads, ServerEnds, ConnectionLoop, ServerStep, Halves
  <2>4. Signals' BY <1>0, <1>5 DEF ServerAnswers, ServerWrites, ServerReads, ServerEnds, ConnectionLoop, ServerStep, Signals
  <2>5. FarEnds' BY <1>0, <1>5 DEF ServerAnswers, ServerWrites, ServerReads, ServerEnds, ConnectionLoop, ServerStep, FarEnds
  <2> QED BY <2>1, <2>2, <2>3, <2>4, <2>5 DEF Controls
<1>6. CASE Reader \/ ReaderSends \/ Consume \/ DropConsumer
  <2>1. Thread' BY <1>0, <1>6 DEF Reader, ReaderSends, Consume, DropConsumer, ReaderStops, Thread
  <2>2. Input' BY <1>0, <1>6 DEF Reader, ReaderSends, Consume, DropConsumer, ReaderStops, Input
  <2>3. Halves' BY <1>0, <1>6 DEF Reader, ReaderSends, Consume, DropConsumer, ReaderStops, Halves
  <2>4. Signals' BY <1>0, <1>6 DEF Reader, ReaderSends, Consume, DropConsumer, ReaderStops, Signals
  <2>5. FarEnds' BY <1>0, <1>6 DEF Reader, ReaderSends, Consume, DropConsumer, ReaderStops, FarEnds
  <2> QED BY <2>1, <2>2, <2>3, <2>4, <2>5 DEF Controls
<1>7. CASE WriterStarts \/ WriterReceives
  <2>1. Thread' BY <1>0, <1>7 DEF WriterStarts, WriterReceives, Drain, Thread
  <2>2. Input' BY <1>0, <1>7 DEF WriterStarts, WriterReceives, Drain, Input
  <2>3. Halves' BY <1>0, <1>7 DEF WriterStarts, WriterReceives, Drain, Halves
  <2>4. Signals' BY <1>0, <1>7 DEF WriterStarts, WriterReceives, Drain, Signals
  <2>5. FarEnds' BY <1>0, <1>7 DEF WriterStarts, WriterReceives, Drain, FarEnds
  <2> QED BY <2>1, <2>2, <2>3, <2>4, <2>5 DEF Controls
<1>8. CASE WriterSends \/ WriterStops
  <2>1. Thread' BY <1>0, <1>8 DEF WriterSends, WriterStops, Drain, Thread
  <2>2. Input' BY <1>0, <1>8 DEF WriterSends, WriterStops, Drain, Input
  <2>3. Halves' BY <1>0, <1>8 DEF WriterSends, WriterStops, Drain, Halves
  <2>4. Signals' BY <1>0, <1>8 DEF WriterSends, WriterStops, Drain, Signals
  <2>5. FarEnds' BY <1>0, <1>8 DEF WriterSends, WriterStops, Drain, FarEnds
  <2> QED BY <2>1, <2>2, <2>3, <2>4, <2>5 DEF Controls
<1>9. CASE JoinHalves \/ Report \/ Cancel
  <2>1. Thread' BY <1>0, <1>9 DEF JoinHalves, Report, Cancel, Ends, Thread
  <2>2. Input' BY <1>0, <1>9 DEF JoinHalves, Report, Cancel, Ends, Input
  <2>3. Halves' BY <1>0, <1>9 DEF JoinHalves, Report, Cancel, Ends, Halves
  <2>4. Signals' BY <1>0, <1>9 DEF JoinHalves, Report, Cancel, Ends, Signals
  <2>5. FarEnds' BY <1>0, <1>9 DEF JoinHalves, Report, Cancel, Ends, FarEnds
  <2> QED BY <2>1, <2>2, <2>3, <2>4, <2>5 DEF Controls
<1>10. CASE ShellReads \/ ShellTakes \/ ShellFlushes
  <2>1. Thread' BY <1>0, <1>10 DEF ShellReads, ShellTakes, ShellFlushes, Thread
  <2>2. Input' BY <1>0, <1>10 DEF ShellReads, ShellTakes, ShellFlushes, Input
  <2>3. Halves' BY <1>0, <1>10 DEF ShellReads, ShellTakes, ShellFlushes, Halves
  <2>4. Signals' BY <1>0, <1>10 DEF ShellReads, ShellTakes, ShellFlushes, Signals
  <2>5. FarEnds' BY <1>0, <1>10 DEF ShellReads, ShellTakes, ShellFlushes, FarEnds
  <2> QED BY <2>1, <2>2, <2>3, <2>4, <2>5 DEF Controls
<1> QED BY <1>1, <1>2, <1>3, <1>4, <1>5, <1>6, <1>7, <1>8, <1>9, <1>10 DEF SshNext

(* The sums in whose order and sort nothing is lost.                         *)
LEMMA DrainBytes ==
  ASSUME Bytes, NEW extra \in Nat, Drain(extra), UNCHANGED <<accepted, window, wire, outs, got, verdicts>>
  PROVE  Bytes'
<1>1. Chunks(0)
  <2>1. 0 = 0 * ChunkBytes OBVIOUS
  <2> QED BY <2>1 DEF Chunks
<1>2. /\ queued' = 0 /\ left' = 0 /\ writer' = "done" /\ lost' = lost + extra + queued
  BY DEF Drain
<1>3. Chunks(queued)' BY <1>1, <1>2 DEF Chunks
<1>4. lost' \in Nat BY <1>2 DEF Bytes
<1> QED BY <1>2, <1>3, <1>4 DEF Bytes

LEMMA BytesKept ==
  ASSUME SshTypes, SshNext
  PROVE  Bytes'
<1> USE DEF connVars, inVars, writeVars, readVars, netVars, eventVars
<1>0. Bytes BY DEF SshTypes
<1>1. ASSUME UNCHANGED <<queued, accepted, left, window, wire, lost, outs, got, verdicts>>,
             writer' = writer \/ writer' \notin {"sending", "backlog"}
      PROVE  Bytes'
  BY <1>0, <1>1 DEF Bytes, Chunks
<1>2. CASE SshCreate \/ RemoteExec \/ Fails \/ CheckServerKey \/ PromptRelay \/ HostKeyDecision
  BY <1>1, <1>2 DEF SshCreate, RemoteExec, SpawnSsh, Fails, Ends, CheckServerKey, PromptRelay, HostKeyDecision
<1>3. CASE Authenticate \/ ChannelOpens \/ CheckGate
  BY <1>1, <1>3 DEF Authenticate, ChannelOpens, CheckGate
<1>4. CASE ExecNotSent
  <2>1. /\ queued' = 0 /\ lost' = lost + queued /\ writer' = "done"
        /\ UNCHANGED <<accepted, left, window, wire, outs, got, verdicts>>
    BY <1>4 DEF ExecNotSent
  <2>2. Chunks(0)
    <3>1. 0 = 0 * ChunkBytes OBVIOUS
    <3> QED BY <3>1 DEF Chunks
  <2>3. Chunks(queued)' BY <2>1, <2>2 DEF Chunks
  <2> QED BY <1>0, <2>1, <2>3 DEF Bytes
<1>5. CASE TrySend
  <2>1. /\ UNCHANGED <<left, window, wire, lost, outs, got, verdicts, writer>>
        /\ \/ queued + ChunkBytes <= InputQueue /\ queued' = queued + ChunkBytes /\ accepted' = accepted + ChunkBytes
           \/ UNCHANGED <<queued, accepted>>
    BY <1>5 DEF TrySend
  <2>2. Chunks(queued + ChunkBytes) BY <1>0, ChunkMore DEF Bytes
  <2>3. Chunks(queued)' BY <1>0, <2>1, <2>2 DEF Bytes, Chunks
  <2> QED BY <1>0, <2>1, <2>3 DEF Bytes
<1>6. CASE ServerAnswers \/ ServerWrites \/ ServerEnds \/ ServerReads
  <2>1. /\ UNCHANGED <<queued, accepted, left, window, wire, lost, verdicts, writer>>
        /\ outs' \in {outs, outs + 1} /\ (got' = got \/ (got < wire /\ got' = got + 1))
    BY <1>6 DEF ServerAnswers, ServerWrites, ServerEnds, ServerReads, ServerStep
  <2> QED BY <1>0, <2>1 DEF Bytes, Chunks
<1>7. CASE ConnectionLoop
  <2>1. /\ UNCHANGED <<queued, accepted, left, wire, lost, outs, got, verdicts, writer>>
        /\ window' \in {window, window + 1}
    BY <1>7 DEF ConnectionLoop
  <2> QED BY <1>0, <2>1 DEF Bytes, Chunks
<1>8. CASE Reader \/ ReaderSends \/ Consume \/ DropConsumer \/ JoinHalves \/ ShellReads \/ Cancel
  BY <1>1, <1>8 DEF Reader, ReaderSends, Consume, DropConsumer, JoinHalves, ShellReads, Cancel, Ends
<1>9. CASE WriterStarts
  <2>1. UNCHANGED <<accepted, window, wire, outs, got, verdicts>>
        /\ (Drain(0) \/ (writer' = "recv" /\ UNCHANGED <<left, lost, queued>>))
    BY <1>9 DEF WriterStarts
  <2>2. CASE Drain(0) BY <1>0, <2>1, <2>2, DrainBytes
  <2>3. CASE writer' = "recv" /\ UNCHANGED <<left, lost, queued>> BY <1>1, <2>1, <2>3
  <2> QED BY <2>1, <2>2, <2>3
<1>10. CASE WriterReceives \/ ShellTakes
  <2>1. /\ UNCHANGED <<accepted, window, wire, outs, got, verdicts>>
        /\ Drain(0) \/ (queued > 0 /\ left' = ChunkBytes /\ queued' = queued - ChunkBytes /\ lost' = lost)
    BY <1>10 DEF WriterReceives, ShellTakes
  <2>2. CASE Drain(0) BY <1>0, <2>1, <2>2, DrainBytes
  <2>3. CASE queued > 0 /\ left' = ChunkBytes /\ queued' = queued - ChunkBytes /\ lost' = lost
    <3>1. queued - ChunkBytes \in Nat /\ Chunks(queued - ChunkBytes) BY <1>0, <2>3, ChunkLess DEF Bytes
    <3>2. Chunks(queued)' BY <2>3, <3>1 DEF Chunks
    <3> QED BY <1>0, <2>1, <2>3, <3>1, <3>2 DEF Bytes
  <2> QED BY <2>1, <2>2, <2>3
<1>11. CASE WriterSends
  <2>1. /\ UNCHANGED <<queued, accepted, lost, outs, got, verdicts>>
        /\ writer = "sending" /\ window > 0 /\ window' = window - 1 /\ wire' = wire + 1 /\ left' = left - 1
        /\ writer' = IF left = 1 THEN "recv" ELSE "sending"
    BY <1>11 DEF WriterSends
  <2> QED BY <1>0, <2>1 DEF Bytes, Chunks
<1>12. CASE WriterStops BY <1>0, <1>12, DrainBytes DEF WriterStops
<1>13. CASE Report
  <2>1. /\ UNCHANGED <<queued, accepted, left, window, wire, lost, outs, got, writer>>
        /\ verdicts' = verdicts + 1
    BY <1>13 DEF Report, Ends
  <2> QED BY <1>0, <2>1 DEF Bytes, Chunks
<1>14. CASE ShellFlushes
  <2>1. /\ UNCHANGED <<queued, accepted, left, window, wire, lost, outs, got, verdicts>>
        /\ writer = "backlog"
    BY <1>14 DEF ShellFlushes
  <2> QED BY <1>0, <2>1 DEF Bytes, Chunks
<1> QED BY <1>2, <1>3, <1>4, <1>5, <1>6, <1>7, <1>8, <1>9, <1>10, <1>11, <1>12, <1>13, <1>14 DEF SshNext

LEMMA QueuesKept ==
  ASSUME SshTypes, SshNext
  PROVE  Queues'
<1> USE DEF connVars, inVars, writeVars, readVars, netVars, eventVars
<1>0. Queues BY DEF SshTypes
<1>1. ASSUME UNCHANGED <<net, recvq, execEvents>> PROVE Queues' BY <1>0, <1>1 DEF Queues
<1>2. CASE \/ SshCreate \/ RemoteExec \/ Fails \/ CheckServerKey \/ PromptRelay \/ HostKeyDecision
           \/ Authenticate \/ ChannelOpens \/ ExecNotSent \/ CheckGate \/ TrySend \/ WriterStarts
           \/ WriterReceives \/ WriterSends \/ WriterStops \/ JoinHalves \/ ShellTakes \/ ShellFlushes \/ Cancel
  BY <1>1, <1>2 DEF SshCreate, RemoteExec, SpawnSsh, Fails, Ends, CheckServerKey, PromptRelay, HostKeyDecision,
     Authenticate, ChannelOpens, ExecNotSent, CheckGate, TrySend, WriterStarts, WriterReceives, WriterSends,
     WriterStops, JoinHalves, ShellTakes, ShellFlushes, Cancel
<1>3. ASSUME NEW msgs \in Seq(Msgs), Says(msgs), UNCHANGED <<recvq, execEvents>> PROVE Queues'
  BY <1>0, <1>3 DEF Queues, Says
<1>4. CASE ServerAnswers \/ ServerWrites \/ ServerReads
  <2>1. \A m \in Msgs : <<m>> \in Seq(Msgs) OBVIOUS
  <2>2. \E m \in Msgs : Says(<<m>>)
    BY <1>4 DEF ServerAnswers, ServerWrites, ServerReads, Msgs
  <2>3. UNCHANGED <<recvq, execEvents>> BY <1>4 DEF ServerAnswers, ServerWrites, ServerReads, ServerStep
  <2> QED BY <1>3, <2>1, <2>2, <2>3
<1>5. CASE ServerEnds
  <2>1. <<"exit", "eof", "close">> \in Seq(Msgs) /\ <<"eof", "exit", "close">> \in Seq(Msgs) /\ <<"close">> \in Seq(Msgs)
    BY "exit" \in Msgs, "eof" \in Msgs, "close" \in Msgs DEF Msgs
  <2>2. UNCHANGED <<recvq, execEvents>> BY <1>5 DEF ServerEnds, ServerStep
  <2> QED BY <1>3, <1>5, <2>1, <2>2 DEF ServerEnds
<1>6. CASE ConnectionLoop
  <2>1. /\ net # <<>> /\ net' = Tail(net) /\ execEvents' = execEvents
        /\ recvq' = recvq \/ (Len(recvq) < RecvQueue /\ recvq' = Append(recvq, Head(net)))
    BY <1>6 DEF ConnectionLoop
  <2>2. net' \in Seq(Msgs) /\ Head(net) \in Msgs
    <3>1. net \in Seq(Msgs) BY <1>0 DEF Queues
    <3>2. Head(net) \in Msgs /\ Tail(net) \in Seq(Msgs) BY <2>1, <3>1, HeadTailProperties
    <3>3. net' = Tail(net) BY <2>1
    <3> QED BY <3>2, <3>3, Zenon
  <2>3. recvq \in Seq(Msgs) /\ Len(recvq) \in Nat /\ Len(recvq) <= RecvQueue BY <1>0 DEF Queues
  <2>4. CASE recvq' = recvq BY <1>0, <2>1, <2>2, <2>3, <2>4 DEF Queues
  <2>5. CASE Len(recvq) < RecvQueue /\ recvq' = Append(recvq, Head(net))
    <3>1. recvq' \in Seq(Msgs) /\ Len(recvq') = Len(recvq) + 1
      BY <2>2, <2>3, <2>5, AppendProperties
    <3>2. RecvQueue \in Nat BY DEF SshAssumption
    <3>3. Len(recvq') <= RecvQueue BY <2>3, <2>5, <3>1, <3>2
    <3> QED BY <1>0, <2>1, <2>2, <3>1, <3>3 DEF Queues
  <2> QED BY <2>1, <2>4, <2>5
<1>7. CASE Reader \/ ShellReads
  <2>1. recvq # <<>> /\ recvq' = Tail(recvq) /\ UNCHANGED <<net, execEvents>>
    BY <1>7 DEF Reader, ShellReads, Message
  <2>2. recvq' \in Seq(Msgs) /\ Len(recvq') <= RecvQueue BY <1>0, <2>1 DEF Queues
  <2> QED BY <1>0, <2>1, <2>2 DEF Queues
<1>8. ASSUME NEW e \in {"stderr", "verdict"}, Sent(e), UNCHANGED <<net, recvq>> PROVE Queues'
  <2>1. CASE execEvents' = execEvents BY <1>0, <1>8, <2>1 DEF Queues
  <2> SUFFICES ASSUME Len(execEvents) < EventQueue, execEvents' = Append(execEvents, e) PROVE Queues'
    BY <1>8, <2>1 DEF Sent
  <2>2. PICK S : S = {"stderr", "verdict"} OBVIOUS
  <2>3. execEvents \in Seq(S) /\ e \in S BY <1>0, <2>2 DEF Queues
  <2>4. execEvents' \in Seq(S) /\ Len(execEvents') = Len(execEvents) + 1
    BY <2>3, AppendProperties
  <2>5. Len(execEvents) \in Nat /\ EventQueue \in Nat BY <2>3 DEF SshAssumption
  <2>6. Len(execEvents') <= EventQueue BY <2>4, <2>5
  <2> QED BY <1>0, <1>8, <2>2, <2>4, <2>6 DEF Queues
<1>9. CASE ReaderSends \/ Report BY <1>8, <1>9 DEF ReaderSends, Report, Ends
<1>10. CASE Consume \/ DropConsumer
  <2>1. UNCHANGED <<net, recvq>> /\ ((execEvents # <<>> /\ execEvents' = Tail(execEvents)) \/ execEvents' = <<>>)
    BY <1>10 DEF Consume, DropConsumer
  <2>2. PICK S : S = {"stderr", "verdict"} OBVIOUS
  <2>3. execEvents \in Seq(S) /\ Len(execEvents) <= EventQueue BY <1>0, <2>2 DEF Queues
  <2>4. <<>> \in Seq(S) /\ Len(<<>>) = 0 OBVIOUS
  <2>5. CASE execEvents' = <<>> BY <1>0, <2>1, <2>2, <2>4, <2>5, 0 <= EventQueue DEF Queues
  <2>6. CASE execEvents # <<>> /\ execEvents' = Tail(execEvents)
    <3>1. execEvents' \in Seq(S) /\ Len(execEvents') = Len(execEvents) - 1
      BY <2>3, <2>6, HeadTailProperties
    <3>2. Len(execEvents) \in Nat BY <2>3
    <3>3. Len(execEvents') <= EventQueue BY <2>3, <3>1, <3>2
    <3> QED BY <1>0, <2>1, <2>2, <3>1, <3>3 DEF Queues
  <2> QED BY <2>1, <2>5, <2>6
<1> QED BY <1>2, <1>4, <1>5, <1>6, <1>7, <1>9, <1>10 DEF SshNext

(* The types of an SSH session.                                              *)
THEOREM SshTypeTheorem == SshSpec => []SshTypeOK
<1>1. SshTypes /\ [SshNext]_sshVars => SshTypes'
  <2> SUFFICES ASSUME SshTypes, [SshNext]_sshVars PROVE SshTypes'
    OBVIOUS
  <2>1. CASE SshNext BY <2>1, ControlsKept, BytesKept, QueuesKept DEF SshTypes
  <2>2. CASE UNCHANGED sshVars
    BY <2>2 DEF sshVars, connVars, inVars, writeVars, readVars, netVars, eventVars, SshTypes, Controls, Thread,
       Input, Halves, Signals, FarEnds, Bytes, Chunks, Queues
  <2> QED BY <2>1, <2>2
<1> QED BY <1>1, SshTypesInit, SshTypesEnough, PTL DEF SshSpec

-----------------------------------------------------------------------------
(* The five parts together.  The steps of one leave the state of the others  *)
(* alone, so a behaviour of the backend is one of each part.                 *)

LEMMA PartSteps ==
  [BackendNext]_backendVars =>
    /\ [PtyNext]_ptyVars /\ [StoreNext]_storeVars /\ [RTNext]_rtVars
    /\ [SshNext]_sshVars /\ [TLNext]_tlVars
BY DEF BackendNext, backendVars

LEMMA Parts == BackendSpec => PtySpec /\ StoreSpec /\ RTSpec /\ SshSpec /\ TLSpec
BY PartSteps, PTL DEF BackendSpec, BackendInit, PtySpec, StoreSpec, RTSpec, SshSpec, TLSpec

(* Every part of the backend keeps the types of its state.                   *)
THEOREM BackendTypeTheorem == BackendSpec => []TypeOK
<1>1. BackendSpec => []PtyTypeOK /\ []StoreTypeOK /\ []RTTypeOK /\ []SshTypeOK /\ []TLTypeOK
  BY Parts, PtyTypeTheorem, StoreTypeTheorem, RTTypeTheorem, SshTypeTheorem, TLTypeTheorem
<1>2. PtyTypeOK /\ StoreTypeOK /\ RTTypeOK /\ SshTypeOK /\ TLTypeOK => TypeOK
  BY DEF TypeOK
<1> QED BY <1>1, <1>2, PTL
=============================================================================
