-------------------------- MODULE MemoEditorProofs --------------------------
(* That an auto-saver saves one text at a time, loses none, and that the     *)
(* stash never brings back an old one, for any windows and any number of     *)
(* edits, editors and failures.  All three rest on OneSave: a write that is  *)
(* not answered yet is the only one of its run, in whatever window, and      *)
(* carries the text its saver is sending.                                    *)
EXTENDS MemoEditor, SequenceTheorems, TLAPS

(* The editor of an open panel has run, and what has not run holds nothing.  *)
PanelsBorn ==
  \A w \in Windows :
    IF panel[w].phase = "closed" THEN panel[w].run = 0
      ELSE panel[w].run \in 1..runs /\ panel[w].inst \in 1..runs

SaversBorn ==
  /\ \A r \in 1..runs : saver[r].inst \in 1..runs
  /\ \A r \in RunIds : r > runs => saver[r] = NewSaver(0)

(* A call on its way is of a run that began, and a save that succeeded left  *)
(* its text in the file.                                                     *)
Flying ==
  \A w \in Windows : \A i \in DOMAIN calls[w] :
    /\ calls[w][i].run \in 1..runs
    /\ calls[w][i].op = "write" =>
         /\ calls[w][i].text \in Text
         /\ calls[w][i].res = "ok" => calls[w][i].text \in onDisk

OneSave ==
  \A w \in Windows : \A i \in DOMAIN calls[w] :
    calls[w][i].op = "write" =>
      /\ saver[calls[w][i].run].sending = calls[w][i].text
      /\ \A v \in Windows : \A j \in DOMAIN calls[v] :
           calls[v][j].op = "write" /\ calls[v][j].run = calls[w][i].run
             => v = w /\ j = i

(* No two panels share a run.                                                *)
Apart ==
  \A v, w \in Windows : panel[v].run = panel[w].run => v = w \/ panel[v].run = 0

(* What a window has kept, in its open editor or in the stash, is the last   *)
(* text typed there, and an editor one can type in has emptied the stash.    *)
Latest ==
  \A w \in Windows :
    /\ stash[w] \in {None, lastEdit[w]}
    /\ panel[w].phase # "closed" => saver[panel[w].run].box \in {None, lastEdit[w]}
    /\ panel[w].phase = "open" => stash[w] = None

MemoInv == TypeOK /\ PanelsBorn /\ SaversBorn /\ Flying /\ OneSave /\ Apart /\ Latest

(* CleanMeansSaved, of one step.                                             *)
Clean ==
  \A r \in RunIds :
    saver[r].box # None /\ saver'[r].box = None => saver[r].box \in onDisk

USE BoundsAssumption DEF Text, Hash, RunIds, None

-----------------------------------------------------------------------------
(* Sequences of calls.                                                       *)

LEMMA RemoveAtFact ==
  ASSUME NEW S, NEW s \in Seq(S), NEW i \in DOMAIN s
  PROVE  /\ RemoveAt(s, i) \in Seq(S)
         /\ DOMAIN RemoveAt(s, i) = 1..(Len(s) - 1)
         /\ \A j \in DOMAIN RemoveAt(s, i) :
              RemoveAt(s, i)[j] = IF j < i THEN s[j] ELSE s[j + 1]
<1> DEFINE a == SubSeq(s, 1, i - 1)
           b == SubSeq(s, i + 1, Len(s))
<1>1. i \in 1..Len(s) /\ Len(s) \in Nat
  OBVIOUS
<1>2. /\ a \in Seq(S) /\ Len(a) = i - 1
      /\ \A j \in 1..(i - 1) : a[j] = s[j]
  BY <1>1
<1>3. /\ b \in Seq(S) /\ Len(b) = Len(s) - i
      /\ \A j \in 1..(Len(s) - i) : b[j] = s[i + j]
  BY <1>1
<1>4. RemoveAt(s, i) = a \o b
  BY DEF RemoveAt
<1> HIDE DEF a, b
<1>5. /\ a \o b \in Seq(S) /\ Len(a \o b) = Len(s) - 1
      /\ \A j \in 1..(Len(s) - 1) : (a \o b)[j] = IF j <= i - 1 THEN a[j] ELSE b[j - (i - 1)]
  <2>1. /\ a \o b \in Seq(S) /\ Len(a \o b) = Len(a) + Len(b)
        /\ \A j \in 1..(Len(a) + Len(b)) :
             (a \o b)[j] = IF j <= Len(a) THEN a[j] ELSE b[j - Len(a)]
    BY <1>2, <1>3, ConcatProperties
  <2>2. Len(a) + Len(b) = Len(s) - 1
    BY <1>1, <1>2, <1>3
  <2> QED BY <1>2, <2>1, <2>2
<1> DEFINE c == a \o b
<1> HIDE DEF c
<1>6. c \in Seq(S) /\ DOMAIN c = 1..(Len(s) - 1)
  BY <1>5 DEF c
<1>7. \A j \in 1..(Len(s) - 1) : c[j] = IF j < i THEN s[j] ELSE s[j + 1]
  <2> SUFFICES ASSUME NEW j \in 1..(Len(s) - 1)
               PROVE  c[j] = IF j < i THEN s[j] ELSE s[j + 1]
    OBVIOUS
  <2>1. CASE j < i
    <3>1. j \in 1..(i - 1)
      BY <1>1, <2>1
    <3> QED BY <1>1, <1>2, <1>5, <2>1, <3>1 DEF c
  <2>2. CASE ~(j < i)
    <3>1. j - (i - 1) \in 1..(Len(s) - i) /\ i + (j - (i - 1)) = j + 1 /\ ~(j <= i - 1)
      BY <1>1, <2>2
    <3> QED BY <1>3, <1>5, <2>2, <3>1 DEF c
  <2> QED BY <2>1, <2>2
<1> QED BY <1>4, <1>6, <1>7 DEF c

LEMMA AppendFact ==
  ASSUME NEW S, NEW s \in Seq(S), NEW t \in Seq(S)
  PROVE  /\ s \o t \in Seq(S)
         /\ DOMAIN (s \o t) = 1..(Len(s) + Len(t))
         /\ \A j \in DOMAIN s : (s \o t)[j] = s[j]
         /\ \A j \in DOMAIN (s \o t) :
              j \notin DOMAIN s => /\ j - Len(s) \in DOMAIN t
                                   /\ (s \o t)[j] = t[j - Len(s)]
OBVIOUS

LEMMA AppendOneFact ==
  ASSUME NEW S, NEW t \in Seq(S), NEW e \in S
  PROVE  /\ t \o <<e>> \in Seq(S)
         /\ DOMAIN (t \o <<e>>) = 1..(Len(t) + 1)
         /\ \A j \in DOMAIN t : (t \o <<e>>)[j] = t[j]
         /\ (t \o <<e>>)[Len(t) + 1] = e
<1> DEFINE u == <<e>>
<1>1. u \in Seq(S) /\ Len(u) = 1 /\ u[1] = e
  OBVIOUS
<1> HIDE DEF u
<1>2. /\ t \o u \in Seq(S) /\ DOMAIN (t \o u) = 1..(Len(t) + 1)
      /\ \A j \in DOMAIN t : (t \o u)[j] = t[j]
      /\ (t \o u)[Len(t) + 1] = e
  <2>1. /\ t \o u \in Seq(S) /\ Len(t \o u) = Len(t) + Len(u)
        /\ \A j \in 1..(Len(t) + Len(u)) :
             (t \o u)[j] = IF j <= Len(t) THEN t[j] ELSE u[j - Len(t)]
    BY <1>1, ConcatProperties
  <2>2. Len(t) \in Nat /\ DOMAIN t = 1..Len(t)
    OBVIOUS
  <2>3. DOMAIN (t \o u) = 1..(Len(t) + 1)
    BY <1>1, <2>1
  <2> HIDE DEF u
  <2> DEFINE c == t \o u
  <2> HIDE DEF c
  <2>4. \A j \in 1..Len(t) : c[j] = t[j]
    BY <1>1, <2>1, <2>2 DEF c
  <2>5. c[Len(t) + 1] = e
    BY <1>1, <2>1, <2>2 DEF c
  <2> QED BY <2>1, <2>2, <2>3, <2>4, <2>5 DEF c
<1> QED BY <1>2 DEF u

-----------------------------------------------------------------------------
(* What the auto-saver's transitions keep: whose it is, what it holds, and   *)
(* what it is sending, if it is.                                             *)
Kicked(s, q) ==
  /\ q \in Saver /\ q.inst = s.inst /\ q.box = s.box
  /\ s.sending # None => q.sending = s.sending

LEMMA CountFact ==
  ASSUME NEW s \in Saver, NEW n \in Nat, NEW f \in BOOLEAN
  PROVE  LET q == [s EXCEPT !.chained = n, !.timer = f]
         IN  /\ q \in Saver /\ q.inst = s.inst /\ q.box = s.box
             /\ q.sending = s.sending
BY DEF Saver

LEMMA RunOnceFact ==
  ASSUME NEW s \in Saver
  PROVE  Kicked(s, RunOnce(s))
BY DEF RunOnce, Kicked, Saver

LEMMA FiredFact ==
  ASSUME NEW s \in Saver
  PROVE  Kicked(s, Fired(s))
<1> DEFINE q == [s EXCEPT !.timer = FALSE]
<1>1. q \in Saver /\ q.inst = s.inst /\ q.box = s.box /\ q.sending = s.sending
  BY DEF Saver
<1>2. Kicked(q, RunOnce(q))
  BY <1>1, RunOnceFact
<1> QED BY <1>1, <1>2 DEF Fired, Kicked

LEMMA FlushedFact ==
  ASSUME NEW s \in Saver
  PROVE  Kicked(s, Flushed(s))
<1> DEFINE q == [s EXCEPT !.timer = FALSE]
<1>1. q \in Saver /\ q.inst = s.inst /\ q.box = s.box /\ q.sending = s.sending
  BY DEF Saver
<1>2. Kicked(q, RunOnce(q))
  BY <1>1, RunOnceFact
<1>3. Flushed(s) \in {RunOnce(q), [q EXCEPT !.chained = @ + 1]}
  BY DEF Flushed
<1> HIDE DEF q
<1>4. Kicked(q, [q EXCEPT !.chained = @ + 1])
  <2> DEFINE n == q.chained + 1
  <2>1. n \in Nat
    BY <1>1 DEF Saver
  <2> HIDE DEF n
  <2>2. [q EXCEPT !.chained = n] \in Saver
    BY <1>1, <2>1 DEF Saver
  <2>3. /\ [q EXCEPT !.chained = n].inst = q.inst
        /\ [q EXCEPT !.chained = n].box = q.box
        /\ [q EXCEPT !.chained = n].sending = q.sending
    BY <1>1 DEF Saver
  <2> QED BY <2>2, <2>3 DEF Kicked, n
<1> QED BY <1>1, <1>2, <1>3, <1>4 DEF Kicked

LEMMA LeftFact ==
  ASSUME NEW s \in Saver
  PROVE  Kicked(s, Left(s))
<1> DEFINE q == Flushed(s)
<1>1. Kicked(s, q)
  BY FlushedFact
<1>2. Left(s) = [q EXCEPT !.leaving = q.box # None]
  BY DEF Left
<1> HIDE DEF q
<1> QED BY <1>1, <1>2 DEF Kicked, Saver

LEMMA ScheduledFact ==
  ASSUME NEW s \in Saver, NEW t \in Text
  PROVE  /\ Scheduled(s, t) \in Saver
         /\ Scheduled(s, t).inst = s.inst /\ Scheduled(s, t).sending = s.sending
         /\ Scheduled(s, t).box = t
BY DEF Scheduled, Saver

(* An answer cleans nothing but the text that was sent, when it was saved.   *)
LEMMA SettledFact ==
  ASSUME NEW s \in Saver, NEW saved \in BOOLEAN
  PROVE  LET n == Settled(s, saved) IN
           /\ n \in Saver /\ n.inst = s.inst
           /\ n.box = s.box \/ (n.box = None /\ saved /\ s.box = s.sending)
           /\ n.sending \in {None, n.box}
<1> DEFINE q == [s EXCEPT !.sending = None,
                          !.box = IF saved /\ @ = s.sending THEN None ELSE @]
           e == [q EXCEPT !.chained = 0, !.timer = FALSE]
           d == [q EXCEPT !.chained = @ - 1, !.timer = FALSE]
<1>1. /\ q \in Saver /\ q.inst = s.inst /\ q.sending = None
      /\ q.box = s.box \/ (q.box = None /\ saved /\ s.box = s.sending)
  BY DEF Saver
<1>2. Settled(s, saved) = CASE q.chained = 0 -> q
                            [] q.chained > 0 /\ q.box = None -> e
                            [] q.chained > 0 /\ q.box # None -> RunOnce(d)
  BY DEF Settled
<1>3. q.chained \in Nat
  BY <1>1 DEF Saver
<1> HIDE DEF q
<1>4. CASE q.chained = 0
  BY <1>1, <1>2, <1>4
<1>5. CASE q.chained > 0 /\ q.box = None
  <2>1. Settled(s, saved) = e
    BY <1>2, <1>3, <1>5
  <2>2. e \in Saver /\ e.inst = q.inst /\ e.box = q.box /\ e.sending = None
    BY <1>1, CountFact
  <2> HIDE DEF e
  <2> QED BY <1>1, <1>5, <2>1, <2>2
<1>6. CASE q.chained > 0 /\ q.box # None
  <2>1. d \in Saver /\ d.inst = q.inst /\ d.box = q.box /\ d.sending = None
    <3>1. q.chained - 1 \in Nat
      BY <1>3, <1>6
    <3> QED BY <1>1, <3>1, CountFact
  <2>2. Settled(s, saved) = RunOnce(d)
    BY <1>2, <1>3, <1>6
  <2> HIDE DEF d
  <2>3. RunOnce(d) \in {d, [d EXCEPT !.sending = d.box]}
    BY DEF RunOnce
  <2> QED BY <1>1, <2>1, <2>2, <2>3 DEF Saver
<1> QED BY <1>3, <1>4, <1>5, <1>6

-----------------------------------------------------------------------------
(* The calls of a window, longer by `t`.  A saver that is sending goes on    *)
(* with it, so what was on its way stays alone; what is new is of a saver    *)
(* that was not sending.                                                     *)
LEMMA QueueKept ==
  ASSUME MemoInv, NEW w \in Windows, NEW t \in Seq(Call),
         calls' = [calls EXCEPT ![w] = calls[w] \o t],
         runs' \in Nat, runs <= runs', onDisk' = onDisk,
         \A p \in RunIds :
           saver[p].sending # None => saver'[p].sending = saver[p].sending,
         \A j \in DOMAIN t : t[j].run \in 1..runs',
         \A j \in DOMAIN t : t[j].op = "write" =>
           /\ t[j].text \in Text /\ t[j].res = "pending"
           /\ saver[t[j].run].sending = None
           /\ saver'[t[j].run].sending = t[j].text
           /\ \A k \in DOMAIN t : t[k].op = "write" => k = j
  PROVE  calls' \in [Windows -> Seq(Call)] /\ Flying' /\ OneSave'
<1> DEFINE Old(v, i) == i \in DOMAIN calls[v] /\ calls'[v][i] = calls[v][i]
           n == Len(calls[w])
           Fresh(v, i) == /\ v = w /\ i - n \in DOMAIN t
                          /\ calls'[v][i] = t[i - n]
<1>1. calls \in [Windows -> Seq(Call)] /\ runs \in 0..MaxRuns
  BY DEF MemoInv, TypeOK
<1>2. /\ calls' \in [Windows -> Seq(Call)]
      /\ calls'[w] = calls[w] \o t
      /\ \A v \in Windows : v # w => calls'[v] = calls[v]
  BY <1>1, AppendFact
<1>3. n \in Nat /\ \A i \in DOMAIN calls'[w] : i \in Nat
  BY <1>1, <1>2
<1>4. \A v \in Windows : \A i \in DOMAIN calls'[v] : Old(v, i) \/ Fresh(v, i)
  BY <1>1, <1>2, AppendFact
<1> HIDE DEF n
<1>5. Flying'
  <2> SUFFICES ASSUME NEW v \in Windows, NEW i \in DOMAIN calls'[v]
               PROVE  /\ calls'[v][i].run \in 1..runs'
                      /\ calls'[v][i].op = "write" =>
                           /\ calls'[v][i].text \in Text
                           /\ calls'[v][i].res = "ok" => calls'[v][i].text \in onDisk'
    BY DEF Flying
  <2>1. CASE Old(v, i)
    BY <1>1, <2>1 DEF MemoInv, Flying
  <2>2. CASE Fresh(v, i)
    BY <2>2
  <2> QED BY <1>4, <2>1, <2>2
<1>6. OneSave'
  <2> SUFFICES ASSUME NEW v \in Windows, NEW i \in DOMAIN calls'[v],
                      calls'[v][i].op = "write"
               PROVE  /\ saver'[calls'[v][i].run].sending = calls'[v][i].text
                      /\ \A u \in Windows : \A j \in DOMAIN calls'[u] :
                           calls'[u][j].op = "write"
                           /\ calls'[u][j].run = calls'[v][i].run
                             => u = v /\ j = i
    BY DEF OneSave
  <2> DEFINE Sending(u, j) ==
        calls[u][j].op = "write" =>
          /\ saver[calls[u][j].run].sending = calls[u][j].text
          /\ calls[u][j].text # None /\ calls[u][j].run \in RunIds
  <2>1. \A u \in Windows : \A j \in DOMAIN calls[u] : Sending(u, j)
    <3> SUFFICES ASSUME NEW u \in Windows, NEW j \in DOMAIN calls[u],
                        calls[u][j].op = "write"
                 PROVE  /\ saver[calls[u][j].run].sending = calls[u][j].text
                        /\ calls[u][j].text # None /\ calls[u][j].run \in RunIds
      OBVIOUS
    <3>1. calls[u][j].text \in Text /\ calls[u][j].run \in 1..runs
      BY DEF MemoInv, Flying
    <3>2. saver[calls[u][j].run].sending = calls[u][j].text
      BY DEF MemoInv, OneSave
    <3> DEFINE d == calls[u][j]
    <3> HIDE DEF d
    <3>3. d.text \in Text /\ d.run \in 1..runs
      BY <3>1 DEF d
    <3>4. d.text # None
      BY <3>3
    <3>5. d.run \in RunIds
      <4>1. runs \in 0..MaxRuns
        BY <1>1
      <4> QED BY <3>3, <4>1
    <3> QED BY <3>2, <3>4, <3>5 DEF d
  <2> HIDE DEF Sending
  <2>2. ASSUME NEW u \in Windows, NEW j \in DOMAIN calls'[u],
               calls'[u][j].op = "write", calls'[u][j].run = calls'[v][i].run
        PROVE  u = v /\ j = i
    <3>1. CASE Old(v, i) /\ Old(u, j)
      <4>1. /\ i \in DOMAIN calls[v] /\ calls[v][i].op = "write"
            /\ j \in DOMAIN calls[u] /\ calls[u][j].op = "write"
            /\ calls[u][j].run = calls[v][i].run
        BY <2>2, <3>1
      <4>2. OneSave
        BY DEF MemoInv
      <4> QED BY <4>1, <4>2 DEF OneSave
    <3>2. CASE Old(v, i) /\ Fresh(u, j)
      <4>1. saver[calls'[v][i].run].sending # None
        <5>1. Sending(v, i) /\ calls'[v][i] = calls[v][i]
          BY <2>1, <3>2
        <5> QED BY <5>1 DEF Sending
      <4>2. saver[calls'[u][j].run].sending = None
        BY <2>2, <3>2
      <4> QED BY <2>2, <4>1, <4>2
    <3>3. CASE Fresh(v, i) /\ Old(u, j)
      <4>1. saver[calls'[u][j].run].sending # None
        <5>1. Sending(u, j) /\ calls'[u][j] = calls[u][j]
          BY <2>1, <3>3
        <5> QED BY <2>2, <5>1 DEF Sending
      <4>2. saver[calls'[v][i].run].sending = None
        BY <3>3
      <4> QED BY <2>2, <4>1, <4>2
    <3>4. CASE Fresh(v, i) /\ Fresh(u, j)
      <4>1. j - n = i - n /\ u = w /\ v = w
        BY <2>2, <3>4
      <4> QED BY <1>3, <4>1
    <3> QED BY <1>4, <3>1, <3>2, <3>3, <3>4
  <2>3. saver'[calls'[v][i].run].sending = calls'[v][i].text
    <3>1. CASE Old(v, i)
      <4>1. /\ saver[calls'[v][i].run].sending = calls'[v][i].text
            /\ calls'[v][i].text # None /\ calls'[v][i].run \in RunIds
        <5>1. Sending(v, i) /\ calls'[v][i] = calls[v][i]
          BY <2>1, <3>1
        <5> QED BY <5>1 DEF Sending
      <4> QED BY <4>1
    <3>2. CASE Fresh(v, i)
      BY <3>2
    <3> QED BY <1>4, <3>1, <3>2
  <2> QED BY <2>2, <2>3
<1> QED BY <1>2, <1>5, <1>6

(* What a saver's step adds: one write of the text it now sends, when it was *)
(* not sending.                                                              *)
LEMMA BegunFact ==
  ASSUME NEW r \in RunIds, NEW s \in Saver, NEW q, Kicked(s, q), NEW b \in Base
  PROVE  LET t == Begun(r, s, q, b) IN
           \/ t = <<>>
           \/ /\ s.sending = None /\ q.sending \in Text
              /\ t = <<WriteCall(r, q.sending, b)>>
              /\ WriteCall(r, q.sending, b) \in Call
BY DEF Begun, Kicked, Saver, WriteCall, Call, Base

LEMMA ReadFact ==
  ASSUME NEW r \in RunIds
  PROVE  ReadCall(r) \in Call
BY DEF ReadCall, Call, Base, NoBase

-----------------------------------------------------------------------------
(* The editor.                                                               *)

(* A step of the saver of an open panel.                                     *)
LEMMA KickKept ==
  ASSUME MemoInv, NEW w \in Windows, panel[w].phase # "closed",
         NEW q, Kicked(saver[panel[w].run], q), NEW b \in Base,
         saver' = [saver EXCEPT ![panel[w].run] = q],
         calls' = [calls EXCEPT ![w] = @ \o Begun(panel[w].run,
                                         saver[panel[w].run], q, b)],
         runs' = runs, onDisk' = onDisk
  PROVE  /\ calls' \in [Windows -> Seq(Call)] /\ Flying' /\ OneSave'
         /\ saver' \in [RunIds -> Saver] /\ SaversBorn'
         /\ \A p \in RunIds : saver'[p].box = saver[p].box
<1> DEFINE r == panel[w].run
           t == Begun(r, saver[r], q, b)
<1>1. /\ saver \in [RunIds -> Saver] /\ runs \in 0..MaxRuns
      /\ calls \in [Windows -> Seq(Call)]
      /\ r \in 1..runs /\ r \in RunIds
  BY DEF MemoInv, TypeOK, PanelsBorn
<1>2. /\ q \in Saver /\ q.inst = saver[r].inst /\ q.box = saver[r].box
      /\ saver[r].sending # None => q.sending = saver[r].sending
  BY DEF Kicked
<1>3. /\ saver' \in [RunIds -> Saver] /\ saver'[r] = q
      /\ \A p \in RunIds : p # r => saver'[p] = saver[p]
  BY <1>1, <1>2
<1>4. \A p \in RunIds : saver'[p].box = saver[p].box /\ saver'[p].inst = saver[p].inst
  BY <1>2, <1>3
<1>5. SaversBorn'
  BY <1>1, <1>3, <1>4 DEF MemoInv, SaversBorn
<1> HIDE DEF t
<1>6. calls' = [calls EXCEPT ![w] = calls[w] \o t]
  BY DEF t
<1>7. \A p \in RunIds :
        saver[p].sending # None => saver'[p].sending = saver[p].sending
  BY <1>2, <1>3
<1>8. /\ t \in Seq(Call)
      /\ \A j \in DOMAIN t : t[j].run \in 1..runs'
      /\ \A j \in DOMAIN t : t[j].op = "write" =>
           /\ t[j].text \in Text /\ t[j].res = "pending"
           /\ saver[t[j].run].sending = None
           /\ saver'[t[j].run].sending = t[j].text
           /\ \A k \in DOMAIN t : t[k].op = "write" => k = j
  <2>1. CASE t = <<>>
    BY <2>1
  <2>2. CASE /\ saver[r].sending = None /\ q.sending \in Text
             /\ t = <<WriteCall(r, q.sending, b)>>
             /\ WriteCall(r, q.sending, b) \in Call
    <3>1. t \in Seq(Call) /\ DOMAIN t = {1} /\ t[1] = WriteCall(r, q.sending, b)
      BY <2>2
    <3>2. t[1].run = r /\ t[1].text = q.sending /\ t[1].res = "pending"
      BY <3>1 DEF WriteCall
    <3>3. /\ r \in 1..runs' /\ saver[r].sending = None /\ q.sending \in Text
          /\ saver'[r].sending = q.sending
      BY <1>1, <1>3, <2>2
    <3> HIDE DEF r
    <3> QED BY <3>1, <3>2, <3>3
  <2>3. saver[r] \in Saver /\ r \in RunIds
    BY <1>1
  <2>4. \/ t = <<>>
        \/ /\ saver[r].sending = None /\ q.sending \in Text
           /\ t = <<WriteCall(r, q.sending, b)>>
           /\ WriteCall(r, q.sending, b) \in Call
    BY <2>3, BegunFact DEF t
  <2> HIDE DEF r
  <2> QED BY <2>1, <2>2, <2>4
<1>9. calls' \in [Windows -> Seq(Call)] /\ Flying' /\ OneSave'
  <2>1. runs' \in Nat /\ runs <= runs' /\ onDisk' = onDisk
    BY <1>1
  <2> QED BY <1>6, <1>7, <1>8, <2>1, QueueKept
<1> QED BY <1>3, <1>4, <1>5, <1>9

(* Where no box, panel, stash or text changes, what they say stays.          *)
LEMMA QuietKept ==
  ASSUME MemoInv, UNCHANGED <<disk, onDisk, typed, panel, stash, runs, lastEdit, failures>>,
         base' \in [RunIds -> Base],
         calls' \in [Windows -> Seq(Call)], Flying', OneSave',
         saver' \in [RunIds -> Saver], SaversBorn',
         \A p \in RunIds : saver'[p].box = saver[p].box
  PROVE  MemoInv' /\ Clean
<1>1. TypeOK'
  BY DEF MemoInv, TypeOK
<1>2. PanelsBorn' /\ Apart'
  BY DEF MemoInv, PanelsBorn, Apart
<1>3. \A w \in Windows : panel[w].phase # "closed" => panel[w].run \in RunIds
  BY DEF MemoInv, TypeOK, PanelsBorn
<1>4. Latest'
  BY <1>3 DEF MemoInv, Latest
<1>5. Clean
  BY DEF Clean
<1> QED BY <1>1, <1>2, <1>4, <1>5 DEF MemoInv

LEMMA TimerKept ==
  ASSUME MemoInv, NEW w \in Windows, Timer(w)
  PROVE  MemoInv' /\ Clean
<1> DEFINE r == panel[w].run
<1>1. panel[w].phase # "closed" /\ r \in RunIds /\ saver[r] \in Saver
  BY DEF Timer, MemoInv, TypeOK, PanelsBorn
<1>2. Kicked(saver[r], Fired(saver[r]))
  BY <1>1, FiredFact
<1>3. base[saver[r].inst] \in Base
  BY DEF Timer, MemoInv, TypeOK, PanelsBorn, SaversBorn
<1>4. /\ calls' \in [Windows -> Seq(Call)] /\ Flying' /\ OneSave'
      /\ saver' \in [RunIds -> Saver] /\ SaversBorn'
      /\ \A p \in RunIds : saver'[p].box = saver[p].box
  BY <1>1, <1>2, <1>3, KickKept DEF Timer, SaverStep
<1>5. base' \in [RunIds -> Base]
  BY DEF Timer, MemoInv, TypeOK
<1> QED BY <1>4, <1>5, QuietKept DEF Timer

LEMMA BlurKept ==
  ASSUME MemoInv, NEW w \in Windows, Blur(w)
  PROVE  MemoInv' /\ Clean
<1> DEFINE r == panel[w].run
<1>1. panel[w].phase # "closed" /\ r \in RunIds /\ saver[r] \in Saver
  BY DEF Blur, MemoInv, TypeOK, PanelsBorn
<1>2. Kicked(saver[r], Flushed(saver[r]))
  BY <1>1, FlushedFact
<1>3. base[saver[r].inst] \in Base
  BY DEF Blur, MemoInv, TypeOK, PanelsBorn, SaversBorn
<1>4. /\ calls' \in [Windows -> Seq(Call)] /\ Flying' /\ OneSave'
      /\ saver' \in [RunIds -> Saver] /\ SaversBorn'
      /\ \A p \in RunIds : saver'[p].box = saver[p].box
  BY <1>1, <1>2, <1>3, KickKept DEF Blur, SaverStep
<1>5. base' \in [RunIds -> Base]
  BY DEF Blur, MemoInv, TypeOK
<1> QED BY <1>4, <1>5, QuietKept DEF Blur

LEMMA OverwriteKept ==
  ASSUME MemoInv, NEW w \in Windows, Overwrite(w)
  PROVE  MemoInv' /\ Clean
<1> DEFINE r == panel[w].run
           b == [base[panel[w].inst] EXCEPT !.from = "chosen"]
<1>1. panel[w].phase # "closed" /\ r \in RunIds /\ saver[r] \in Saver
  BY DEF Overwrite, MemoInv, TypeOK, PanelsBorn
<1>2. Kicked(saver[r], Flushed(saver[r]))
  BY <1>1, FlushedFact
<1>3. b \in Base /\ base' \in [RunIds -> Base]
  <2>1. base[panel[w].inst] \in Base /\ base \in [RunIds -> Base]
    BY <1>1 DEF MemoInv, TypeOK, PanelsBorn
  <2>2. b \in Base
    BY <2>1 DEF Base
  <2>3. base' = [base EXCEPT ![panel[w].inst] = b]
    BY DEF Overwrite
  <2> HIDE DEF b
  <2> QED BY <2>1, <2>2, <2>3
<1>4. /\ saver' = [saver EXCEPT ![r] = Flushed(saver[r])]
      /\ calls' = [calls EXCEPT ![w] = @ \o Begun(r, saver[r], Flushed(saver[r]), b)]
      /\ runs' = runs /\ onDisk' = onDisk
  BY DEF Overwrite
<1> HIDE DEF b
<1>5. /\ calls' \in [Windows -> Seq(Call)] /\ Flying' /\ OneSave'
      /\ saver' \in [RunIds -> Saver] /\ SaversBorn'
      /\ \A p \in RunIds : saver'[p].box = saver[p].box
  BY <1>1, <1>2, <1>3, <1>4, KickKept
<1> QED
  BY <1>3, <1>5, QuietKept DEF Overwrite

(* Whoever leaves puts aside what it holds.                                  *)
LEMMA UnmountKept ==
  ASSUME MemoInv, NEW w \in Windows, Unmount(w)
  PROVE  MemoInv' /\ Clean
<1> DEFINE r == panel[w].run
<1>1. panel[w].phase # "closed" /\ r \in RunIds /\ saver[r] \in Saver
  BY DEF Unmount, MemoInv, TypeOK, PanelsBorn
<1>2. Kicked(saver[r], Left(saver[r]))
  BY <1>1, LeftFact
<1>3. base[saver[r].inst] \in Base
  BY DEF Unmount, MemoInv, TypeOK, PanelsBorn, SaversBorn
<1>4. /\ calls' \in [Windows -> Seq(Call)] /\ Flying' /\ OneSave'
      /\ saver' \in [RunIds -> Saver] /\ SaversBorn'
      /\ \A p \in RunIds : saver'[p].box = saver[p].box
  BY <1>1, <1>2, <1>3, KickKept DEF Unmount, SaverStep
<1>5. /\ stash' = [stash EXCEPT ![w] = saver[r].box]
      /\ saver[r].box \in Text \cup {None} /\ saver[r].box \in {None, lastEdit[w]}
  BY <1>1 DEF Unmount, StashOnLeave, Saver, MemoInv, Latest
<1>6. /\ panel' = [panel EXCEPT ![w] = Closed] /\ Closed \in Panel
      /\ Closed.phase = "closed" /\ Closed.run = 0
  BY DEF Unmount, Closed, Panel, Phases
<1> HIDE DEF r
<1>7. TypeOK'
  <2>1. stash' \in [Windows -> Text \cup {None}]
    BY <1>5 DEF MemoInv, TypeOK
  <2>2. panel' \in [Windows -> Panel]
    BY <1>6 DEF MemoInv, TypeOK
  <2> QED BY <1>4, <2>1, <2>2 DEF Unmount, MemoInv, TypeOK
<1>8. PanelsBorn' /\ Apart'
  BY <1>6 DEF Unmount, MemoInv, TypeOK, PanelsBorn, Apart
<1>9. Latest'
  <2> SUFFICES ASSUME NEW v \in Windows
               PROVE  /\ stash'[v] \in {None, lastEdit[v]}
                      /\ panel'[v].phase # "closed" =>
                           saver'[panel'[v].run].box \in {None, lastEdit[v]}
                      /\ panel'[v].phase = "open" => stash'[v] = None
    BY DEF Latest, Unmount
  <2>1. CASE v = w
    BY <1>5, <1>6, <2>1 DEF MemoInv, TypeOK
  <2>2. CASE v # w
    <3>1. panel'[v] = panel[v] /\ stash'[v] = stash[v]
      BY <1>5, <1>6, <2>2 DEF MemoInv, TypeOK
    <3>2. panel[v].phase # "closed" => panel[v].run \in RunIds
      BY DEF MemoInv, TypeOK, PanelsBorn
    <3> QED BY <1>4, <3>1, <3>2 DEF MemoInv, Latest
  <2> QED BY <2>1, <2>2
<1> QED BY <1>4, <1>7, <1>8, <1>9 DEF MemoInv, Clean

(* A text typed: panels are apart, so that it is in no other editor.         *)
LEMMA TypeKept ==
  ASSUME MemoInv, NEW w \in Windows, Type(w)
  PROVE  MemoInv' /\ Clean
<1> DEFINE r == panel[w].run
           x == typed + 1
           q == Scheduled(saver[r], x)
<1>1. /\ saver \in [RunIds -> Saver] /\ runs \in 0..MaxRuns
      /\ calls \in [Windows -> Seq(Call)] /\ lastEdit \in [Windows -> Text]
      /\ r \in 1..runs /\ r \in RunIds /\ x \in Text
  BY DEF Type, MemoInv, TypeOK, PanelsBorn
<1>2. saver[r] \in Saver
  BY <1>1
<1>3. /\ saver' = [saver EXCEPT ![r] = q]
      /\ typed' = x /\ lastEdit' = [lastEdit EXCEPT ![w] = x]
  BY DEF Type
<1> HIDE DEF x
<1>4. /\ q \in Saver /\ q.inst = saver[r].inst
      /\ q.sending = saver[r].sending /\ q.box = x
  BY <1>1, <1>2, ScheduledFact
<1> HIDE DEF q
<1>5. /\ saver' \in [RunIds -> Saver] /\ saver'[r] = q
      /\ \A p \in RunIds : p # r => saver'[p] = saver[p]
      /\ \A p \in RunIds : saver'[p].sending = saver[p].sending
  BY <1>1, <1>3, <1>4
<1>6. TypeOK'
  BY <1>1, <1>3, <1>5 DEF Type, MemoInv, TypeOK
<1>7. PanelsBorn' /\ Apart' /\ Flying'
  BY DEF Type, MemoInv, PanelsBorn, Apart, Flying
<1>8. SaversBorn'
  BY <1>1, <1>4, <1>5 DEF Type, MemoInv, SaversBorn
<1>9. OneSave'
  <2>1. \A v \in Windows : \A i \in DOMAIN calls[v] : calls[v][i].run \in RunIds
    BY <1>1 DEF MemoInv, Flying
  <2>2. calls' = calls
    BY DEF Type
  <2> QED BY <1>5, <2>1, <2>2 DEF MemoInv, OneSave
<1>10. Latest'
  <2> SUFFICES ASSUME NEW v \in Windows
               PROVE  /\ stash[v] \in {None, lastEdit'[v]}
                      /\ panel[v].phase # "closed" =>
                           saver'[panel[v].run].box \in {None, lastEdit'[v]}
                      /\ panel[v].phase = "open" => stash[v] = None
    BY DEF Latest, Type
  <2>1. CASE v = w
    <3>1. stash[w] = None
      BY DEF Type, MemoInv, Latest
    <3>2. lastEdit'[w] = x
      BY <1>1, <1>3
    <3> QED BY <1>4, <1>5, <2>1, <3>1, <3>2
  <2>2. CASE v # w
    <3>1. panel[v].phase # "closed" => panel[v].run \in RunIds /\ panel[v].run # r
      BY <1>1, <2>2 DEF MemoInv, TypeOK, PanelsBorn, Apart
    <3>2. lastEdit'[v] = lastEdit[v]
      BY <1>1, <1>3, <2>2
    <3> QED BY <1>5, <3>1, <3>2 DEF MemoInv, Latest
  <2> QED BY <2>1, <2>2
<1>11. Clean
  <2>1. saver'[r].box # None
    BY <1>1, <1>4, <1>5
  <2>2. \A p \in RunIds : p # r => saver'[p].box = saver[p].box
    BY <1>5
  <2> HIDE DEF r
  <2> QED BY <2>1, <2>2 DEF Clean
<1> QED BY <1>6, <1>7, <1>8, <1>9, <1>10, <1>11 DEF MemoInv

(* A new run of the effect in `w`, of component `i`: a fresh saver, and a    *)
(* read at the end of what the old run may have sent.                        *)
LEMMA RunFact ==
  ASSUME MemoInv, NEW w \in Windows, NEW i, NEW queue, Run(w, i, queue),
         i \in 1..(runs + 1), i \in RunIds
  PROVE  /\ runs + 1 \in RunIds /\ runs' = runs + 1 /\ runs' \in 0..MaxRuns
         /\ runs \in Nat /\ runs <= runs'
         /\ panel' \in [Windows -> Panel]
         /\ panel'[w] = [phase |-> "reading", run |-> runs + 1, inst |-> i,
                         banner |-> FALSE]
         /\ \A v \in Windows : v # w => panel'[v] = panel[v]
         /\ PanelsBorn' /\ Apart'
         /\ NewSaver(i) \in Saver
<1>1. runs \in 0..MaxRuns /\ runs < MaxRuns /\ panel \in [Windows -> Panel]
  BY DEF MemoInv, TypeOK, Run
<1>2. runs + 1 \in RunIds /\ runs' = runs + 1 /\ runs' \in 0..MaxRuns
  BY <1>1 DEF Run
<1> DEFINE new == [phase |-> "reading", run |-> runs + 1, inst |-> i, banner |-> FALSE]
<1>3. new \in Panel
  BY <1>2 DEF Panel, Phases
<1>4. panel' = [panel EXCEPT ![w] = new]
  BY DEF Run
<1>5. new.phase = "reading" /\ new.run = runs + 1 /\ new.inst = i
  OBVIOUS
<1> HIDE DEF new
<1>6. /\ panel' \in [Windows -> Panel] /\ panel'[w] = new
      /\ \A v \in Windows : v # w => panel'[v] = panel[v]
  BY <1>1, <1>3, <1>4
<1>7. PanelsBorn'
  BY <1>1, <1>2, <1>5, <1>6 DEF MemoInv, PanelsBorn
<1>8. \A v \in Windows : panel[v].run \in 0..runs
  BY <1>1 DEF MemoInv, PanelsBorn
<1>9. Apart'
  BY <1>1, <1>5, <1>6, <1>8 DEF MemoInv, Apart
<1>10. NewSaver(i) \in Saver
  BY DEF NewSaver, Saver
<1> QED BY <1>1, <1>2, <1>6, <1>7, <1>9, <1>10 DEF new

LEMMA OpenKept ==
  ASSUME MemoInv, NEW w \in Windows, Open(w)
  PROVE  MemoInv' /\ Clean
<1> DEFINE n == runs + 1
           t == <<ReadCall(n)>>
<1>1. /\ saver \in [RunIds -> Saver] /\ runs \in 0..MaxRuns /\ runs < MaxRuns
      /\ calls \in [Windows -> Seq(Call)]
  BY DEF Open, Run, MemoInv, TypeOK
<1>2. n \in RunIds /\ n \in 1..(runs + 1)
  BY <1>1
<1>3. /\ n \in RunIds /\ runs' = n /\ runs' \in 0..MaxRuns
      /\ runs \in Nat /\ runs <= runs'
      /\ panel' \in [Windows -> Panel]
      /\ panel'[w].phase = "reading" /\ panel'[w].run = n
      /\ \A v \in Windows : v # w => panel'[v] = panel[v]
      /\ PanelsBorn' /\ Apart'
      /\ NewSaver(n) \in Saver
  <2>1. Run(w, n, calls[w])
    BY DEF Open
  <2>2. /\ runs' = n /\ runs' \in 0..MaxRuns /\ runs \in Nat /\ runs <= runs'
        /\ panel' \in [Windows -> Panel]
        /\ panel'[w] = [phase |-> "reading", run |-> n, inst |-> n, banner |-> FALSE]
        /\ \A v \in Windows : v # w => panel'[v] = panel[v]
        /\ PanelsBorn' /\ Apart' /\ NewSaver(n) \in Saver
    BY <1>2, <2>1, RunFact, Zenon
  <2> HIDE DEF n
  <2> QED BY <1>2, <2>2
<1>4. /\ saver' = [saver EXCEPT ![n] = NewSaver(n)]
      /\ calls' = [calls EXCEPT ![w] = calls[w] \o t]
      /\ UNCHANGED <<disk, onDisk, typed, stash, base, lastEdit, failures>>
  BY DEF Open, Run
<1>5. /\ saver' \in [RunIds -> Saver] /\ saver'[n] = NewSaver(n)
      /\ \A p \in RunIds : p # n => saver'[p] = saver[p]
  BY <1>1, <1>3, <1>4
<1>6. saver[n] = NewSaver(0)
  BY <1>1, <1>2 DEF MemoInv, SaversBorn
<1>7. /\ t \in Seq(Call) /\ DOMAIN t = {1} /\ t[1].run = n /\ t[1].op = "read"
  <2>1. ReadCall(n) \in Call /\ ReadCall(n).run = n /\ ReadCall(n).op = "read"
    BY <1>2, ReadFact DEF ReadCall
  <2> QED BY <2>1
<1> HIDE DEF t
<1>8. \A p \in RunIds :
        saver[p].sending # None => saver'[p].sending = saver[p].sending
  BY <1>5, <1>6 DEF NewSaver
<1>9. calls' \in [Windows -> Seq(Call)] /\ Flying' /\ OneSave'
  <2>1. \A j \in DOMAIN t : t[j].run \in 1..runs' /\ t[j].op # "write"
    BY <1>3, <1>7
  <2>2. onDisk' = onDisk /\ runs' \in Nat
    BY <1>3, <1>4
  <2> QED BY <1>3, <1>4, <1>7, <1>8, <2>1, <2>2, QueueKept
<1>10. TypeOK'
  BY <1>3, <1>4, <1>5, <1>9 DEF MemoInv, TypeOK
<1>11. SaversBorn'
  <2>1. NewSaver(n).inst = n
    BY DEF NewSaver
  <2>2. \A p \in 1..n : saver'[p].inst \in 1..n
    <3>1. saver'[n].inst \in 1..n
      BY <1>2, <1>5, <2>1
    <3>2. \A p \in 1..runs : saver'[p].inst \in 1..n
      BY <1>1, <1>2, <1>5 DEF MemoInv, SaversBorn
    <3>3. \A p \in 1..n : p = n \/ p \in 1..runs
      BY <1>1, <1>2
    <3> QED BY <3>1, <3>2, <3>3
  <2>3. \A p \in RunIds : p > n => saver'[p] = NewSaver(0)
    BY <1>1, <1>5 DEF MemoInv, SaversBorn
  <2> QED BY <1>3, <2>2, <2>3 DEF SaversBorn
<1>12. Latest'
  <2> SUFFICES ASSUME NEW v \in Windows
               PROVE  /\ stash[v] \in {None, lastEdit[v]}
                      /\ panel'[v].phase # "closed" =>
                           saver'[panel'[v].run].box \in {None, lastEdit[v]}
                      /\ panel'[v].phase = "open" => stash[v] = None
    BY <1>4 DEF Latest
  <2>1. CASE v = w
    <3>1. NewSaver(n).box = None
      BY DEF NewSaver
    <3> QED BY <1>3, <1>5, <2>1, <3>1 DEF MemoInv, Latest
  <2>2. CASE v # w
    <3>1. panel[v].phase # "closed" => panel[v].run \in RunIds /\ panel[v].run # n
      BY <1>1 DEF MemoInv, PanelsBorn
    <3> QED BY <1>3, <1>5, <2>2, <3>1 DEF MemoInv, Latest
  <2> QED BY <2>1, <2>2
<1>13. Clean
  BY <1>5, <1>6 DEF Clean, NewSaver
<1> QED BY <1>3, <1>9, <1>10, <1>11, <1>12, <1>13 DEF MemoInv

(* [Reload] and the retry: the old run leaves and a new one begins.          *)
LEMMA AgainKept ==
  ASSUME MemoInv, NEW w \in Windows, panel[w].phase # "closed", Again(w)
  PROVE  MemoInv' /\ Clean
<1> DEFINE r == panel[w].run
           i == panel[w].inst
           n == runs + 1
           s == saver[r]
           q == Left(s)
           g == Begun(r, s, q, base[i])
           queue == calls[w] \o g
           t == g \o <<ReadCall(n)>>
<1>1. /\ saver \in [RunIds -> Saver] /\ runs \in 0..MaxRuns /\ runs < MaxRuns
      /\ calls \in [Windows -> Seq(Call)] /\ base \in [RunIds -> Base]
      /\ r \in 1..runs /\ r \in RunIds /\ i \in 1..runs /\ i \in RunIds
      /\ stash \in [Windows -> Text \cup {None}]
  <2>1. /\ saver \in [RunIds -> Saver] /\ runs \in 0..MaxRuns
        /\ calls \in [Windows -> Seq(Call)] /\ base \in [RunIds -> Base]
        /\ stash \in [Windows -> Text \cup {None}]
    BY DEF MemoInv, TypeOK
  <2>2. r \in 1..runs /\ i \in 1..runs
    BY DEF MemoInv, PanelsBorn
  <2>3. runs < MaxRuns
    BY DEF Again, Run
  <2> HIDE DEF r, i
  <2> QED BY <2>1, <2>2, <2>3
<1>2. n \in RunIds /\ n = runs + 1 /\ n # r /\ i \in 1..n /\ r \in 1..n
  BY <1>1
<1>3. s \in Saver /\ base[i] \in Base /\ Kicked(s, q)
  <2>1. s \in Saver /\ base[i] \in Base
    BY <1>1
  <2> HIDE DEF s
  <2> QED BY <2>1, LeftFact
<1>4. /\ runs' = n /\ runs' \in 0..MaxRuns /\ runs \in Nat /\ runs <= runs'
      /\ panel' \in [Windows -> Panel]
      /\ panel'[w].phase = "reading" /\ panel'[w].run = n
      /\ \A v \in Windows : v # w => panel'[v] = panel[v]
      /\ PanelsBorn' /\ Apart'
      /\ NewSaver(i) \in Saver
  <2>1. Run(w, i, queue)
    BY DEF Again
  <2> HIDE DEF queue, i
  <2>2. /\ runs' = n /\ runs' \in 0..MaxRuns /\ runs \in Nat /\ runs <= runs'
        /\ panel' \in [Windows -> Panel]
        /\ panel'[w] = [phase |-> "reading", run |-> n, inst |-> i, banner |-> FALSE]
        /\ \A v \in Windows : v # w => panel'[v] = panel[v]
        /\ PanelsBorn' /\ Apart' /\ NewSaver(i) \in Saver
    BY <1>1, <1>2, <2>1, RunFact, Zenon
  <2> HIDE DEF n
  <2> QED BY <2>2
<1>5. /\ saver' = [saver EXCEPT ![r] = q, ![n] = NewSaver(i)]
      /\ calls' = [calls EXCEPT ![w] = queue \o <<ReadCall(n)>>]
      /\ stash' = [stash EXCEPT ![w] = s.box]
      /\ UNCHANGED <<disk, onDisk, typed, base, lastEdit, failures>>
  BY DEF Again, Run, StashOnLeave
<1>6. saver[n] = NewSaver(0)
  BY <1>1, <1>2 DEF MemoInv, SaversBorn
<1> HIDE DEF n, q, s
<1>7. q \in Saver /\ q.inst = s.inst /\ q.box = s.box
      /\ (s.sending # None => q.sending = s.sending)
  BY <1>3 DEF Kicked
<1>8. /\ saver' \in [RunIds -> Saver] /\ saver'[r] = q /\ saver'[n] = NewSaver(i)
      /\ \A p \in RunIds : p # r /\ p # n => saver'[p] = saver[p]
  BY <1>1, <1>2, <1>4, <1>5, <1>7
<1>9. \A p \in RunIds :
        saver[p].sending # None => saver'[p].sending = saver[p].sending
  BY <1>6, <1>7, <1>8 DEF NewSaver, s
<1> HIDE DEF g
<1>10. ReadCall(n) \in Call /\ ReadCall(n).run = n /\ ReadCall(n).op = "read"
  BY <1>2, ReadFact DEF ReadCall
<1>11. g \in Seq(Call)
       /\ \/ g = <<>>
          \/ /\ s.sending = None /\ q.sending \in Text
             /\ g = <<WriteCall(r, q.sending, base[i])>>
             /\ WriteCall(r, q.sending, base[i]) \in Call
  <2>1. \/ g = <<>>
        \/ /\ s.sending = None /\ q.sending \in Text
           /\ g = <<WriteCall(r, q.sending, base[i])>>
           /\ WriteCall(r, q.sending, base[i]) \in Call
    BY <1>1, <1>3, BegunFact DEF g
  <2> DEFINE c == WriteCall(r, q.sending, base[i])
  <2> HIDE DEF c
  <2>2. g = <<>> \/ (c \in Call /\ g = <<c>>)
    BY <2>1 DEF c
  <2>3. g \in Seq(Call)
    <3>1. CASE g = <<>>
      BY <3>1
    <3>2. CASE c \in Call /\ g = <<c>>
      BY <3>2
    <3> QED BY <2>2, <3>1, <3>2
  <2> QED BY <2>1, <2>3
<1>12. /\ t \in Seq(Call)
       /\ \A j \in DOMAIN t : t[j].run \in 1..n
       /\ \A j \in DOMAIN t : t[j].op = "write" =>
            /\ t[j].text \in Text /\ t[j].res = "pending" /\ t[j].run = r
            /\ s.sending = None /\ q.sending = t[j].text
            /\ \A k \in DOMAIN t : t[k].op = "write" => k = j
  <2> DEFINE rd == ReadCall(n)
  <2>1. rd \in Call /\ g \in Seq(Call) /\ t = g \o <<rd>>
    BY <1>10, <1>11
  <2> HIDE DEF rd, t
  <2>2. /\ t \in Seq(Call) /\ DOMAIN t = 1..(Len(g) + 1)
        /\ \A j \in DOMAIN g : t[j] = g[j]
        /\ t[Len(g) + 1] = ReadCall(n)
    BY <2>1, AppendOneFact DEF rd
  <2>3. CASE g = <<>>
    <3>1. Len(g) = 0
      BY <2>3
    <3> QED BY <1>2, <1>10, <2>2, <3>1
  <2>4. CASE /\ s.sending = None /\ q.sending \in Text
             /\ g = <<WriteCall(r, q.sending, base[i])>>
             /\ WriteCall(r, q.sending, base[i]) \in Call
    <3>1. /\ Len(g) = 1 /\ DOMAIN g = {1}
          /\ g[1].run = r /\ g[1].text = q.sending /\ g[1].res = "pending"
      BY <2>4 DEF WriteCall
    <3>2. DOMAIN t = {1, 2} /\ t[1] = g[1] /\ t[2] = ReadCall(n)
      BY <2>2, <3>1
    <3> QED BY <1>2, <1>10, <2>2, <2>4, <3>1, <3>2
  <2> QED BY <1>11, <2>3, <2>4
<1>13. calls' = [calls EXCEPT ![w] = calls[w] \o t]
  <2>1. (calls[w] \o g) \o <<ReadCall(n)>> = calls[w] \o t
    <3> DEFINE u == <<ReadCall(n)>>
               cs == calls[w]
    <3>1. cs \in Seq(Call) /\ g \in Seq(Call) /\ u \in Seq(Call)
      BY <1>1, <1>10, <1>11
    <3> HIDE DEF u, cs
    <3>2. (cs \o g) \o u = cs \o (g \o u)
      BY <3>1, ConcatAssociative
    <3> QED BY <3>2 DEF u, cs
  <2> QED BY <1>5, <2>1
<1> HIDE DEF t
<1>14. calls' \in [Windows -> Seq(Call)] /\ Flying' /\ OneSave'
  <2>1. \A j \in DOMAIN t : t[j].run \in 1..runs'
    BY <1>4, <1>12
  <2>2. \A j \in DOMAIN t : t[j].op = "write" =>
           /\ t[j].text \in Text /\ t[j].res = "pending"
           /\ saver[t[j].run].sending = None
           /\ saver'[t[j].run].sending = t[j].text
           /\ \A k \in DOMAIN t : t[k].op = "write" => k = j
    BY <1>8, <1>12 DEF s
  <2>3. onDisk' = onDisk /\ runs' \in Nat
    BY <1>4, <1>5
  <2> QED BY <1>4, <1>9, <1>12, <1>13, <2>1, <2>2, <2>3, QueueKept
<1>15. s.box \in Text \cup {None} /\ s.box \in {None, lastEdit[w]}
  BY <1>3 DEF Saver, MemoInv, Latest, s
<1>16. TypeOK'
  <2>1. stash' \in [Windows -> Text \cup {None}]
    BY <1>1, <1>5, <1>15
  <2> QED BY <1>4, <1>5, <1>8, <1>14, <2>1 DEF MemoInv, TypeOK
<1>17. SaversBorn'
  <2>1. NewSaver(i).inst = i
    BY DEF NewSaver
  <2>2. \A p \in 1..n : saver'[p].inst \in 1..n
    <3>1. saver'[n].inst \in 1..n
      BY <1>2, <1>8, <2>1
    <3>2. saver'[r].inst \in 1..n
      BY <1>1, <1>2, <1>7, <1>8 DEF MemoInv, SaversBorn, s
    <3>3. \A p \in 1..runs : p # r => saver'[p].inst \in 1..n
      BY <1>1, <1>2, <1>8 DEF MemoInv, SaversBorn
    <3>4. \A p \in 1..n : p = n \/ p \in 1..runs
      BY <1>1, <1>2
    <3> HIDE DEF r
    <3> QED BY <3>1, <3>2, <3>3, <3>4
  <2>3. \A p \in RunIds : p > n => saver'[p] = NewSaver(0)
    BY <1>1, <1>2, <1>8 DEF MemoInv, SaversBorn
  <2> QED BY <1>4, <2>2, <2>3 DEF SaversBorn
<1>18. Latest'
  <2> SUFFICES ASSUME NEW v \in Windows
               PROVE  /\ stash'[v] \in {None, lastEdit[v]}
                      /\ panel'[v].phase # "closed" =>
                           saver'[panel'[v].run].box \in {None, lastEdit[v]}
                      /\ panel'[v].phase = "open" => stash'[v] = None
    BY <1>5 DEF Latest
  <2>1. CASE v = w
    <3>1. NewSaver(i).box = None
      BY DEF NewSaver
    <3>2. stash'[w] = s.box
      BY <1>1, <1>5
    <3> QED BY <1>4, <1>8, <1>15, <2>1, <3>1, <3>2
  <2>2. CASE v # w
    <3>1. panel[v].phase # "closed" =>
            panel[v].run \in RunIds /\ panel[v].run # n /\ panel[v].run # r
      BY <1>1, <1>2, <2>2 DEF MemoInv, PanelsBorn, Apart
    <3>2. stash'[v] = stash[v]
      BY <1>1, <1>5, <2>2
    <3> QED BY <1>4, <1>8, <2>2, <3>1, <3>2 DEF MemoInv, Latest
  <2> QED BY <2>1, <2>2
<1>19. Clean
  <2>1. saver'[r].box = saver[r].box
    BY <1>7, <1>8 DEF s
  <2>2. saver[n].box = None
    BY <1>6 DEF NewSaver
  <2> HIDE DEF r
  <2> QED BY <1>8, <2>1, <2>2 DEF Clean
<1> QED BY <1>4, <1>14, <1>16, <1>17, <1>18, <1>19 DEF MemoInv

-----------------------------------------------------------------------------
(* The commands.                                                             *)

LEMMA AnswerFact ==
  ASSUME MemoInv, NEW w \in Windows, NEW i \in DOMAIN calls[w],
         NEW res \in {"ok", "conflict", "failed"}, NEW h \in Hash,
         Answer(w, i, res, h)
  PROVE  /\ calls' \in [Windows -> Seq(Call)]
         /\ \A v \in Windows : DOMAIN calls'[v] = DOMAIN calls[v]
         /\ \A v \in Windows : \A j \in DOMAIN calls[v] :
              /\ calls'[v][j].op = calls[v][j].op
              /\ calls'[v][j].run = calls[v][j].run
              /\ calls'[v][j].text = calls[v][j].text
              /\ v # w \/ j # i => calls'[v][j] = calls[v][j]
         /\ calls'[w][i].res = res
<1> DEFINE c == [calls[w][i] EXCEPT !.res = res, !.hash = h]
           s == [calls[w] EXCEPT ![i] = c]
<1>1. calls \in [Windows -> Seq(Call)] /\ calls[w] \in Seq(Call) /\ calls[w][i] \in Call
  BY DEF MemoInv, TypeOK
<1>2. /\ c \in Call /\ c.res = res /\ c.op = calls[w][i].op
      /\ c.run = calls[w][i].run /\ c.text = calls[w][i].text
  BY <1>1 DEF Call
<1>3. calls' = [calls EXCEPT ![w] = s]
  BY <1>1 DEF Answer
<1> HIDE DEF c
<1>4. /\ s \in Seq(Call) /\ DOMAIN s = DOMAIN calls[w] /\ s[i] = c
      /\ \A j \in DOMAIN calls[w] : j # i => s[j] = calls[w][j]
  BY <1>1, <1>2
<1> HIDE DEF s
<1>5. calls'[w] = s /\ \A v \in Windows : v # w => calls'[v] = calls[v]
  BY <1>1, <1>3
<1>6. calls' \in [Windows -> Seq(Call)]
  BY <1>1, <1>3, <1>4
<1> QED BY <1>2, <1>4, <1>5, <1>6

(* A call answered: it stays in its place, and a save that succeeded is on   *)
(* disk by then.                                                             *)
LEMMA AnswerKept ==
  ASSUME MemoInv, NEW w \in Windows, NEW i \in DOMAIN calls[w],
         NEW res \in {"ok", "conflict", "failed"}, NEW h \in Hash,
         Answer(w, i, res, h),
         calls[w][i].op = "write" /\ res = "ok" => calls[w][i].text \in onDisk',
         disk' \in Hash, onDisk' \subseteq Hash, onDisk \subseteq onDisk',
         failures' \in 0..MaxFailures,
         UNCHANGED <<typed, panel, stash, base, saver, runs, lastEdit>>
  PROVE  MemoInv' /\ Clean
<1>1. /\ calls' \in [Windows -> Seq(Call)]
      /\ \A v \in Windows : DOMAIN calls'[v] = DOMAIN calls[v]
      /\ \A v \in Windows : \A j \in DOMAIN calls[v] :
           /\ calls'[v][j].op = calls[v][j].op
           /\ calls'[v][j].run = calls[v][j].run
           /\ calls'[v][j].text = calls[v][j].text
           /\ v # w \/ j # i => calls'[v][j] = calls[v][j]
      /\ calls'[w][i].res = res
  BY AnswerFact
<1>2. TypeOK'
  BY <1>1 DEF MemoInv, TypeOK
<1>3. PanelsBorn' /\ SaversBorn' /\ Apart' /\ Latest'
  BY DEF MemoInv, PanelsBorn, SaversBorn, Apart, Latest
<1>4. Flying'
  BY <1>1 DEF MemoInv, Flying
<1>5. OneSave'
  <2> SUFFICES ASSUME NEW v \in Windows, NEW j \in DOMAIN calls'[v],
                      calls'[v][j].op = "write"
               PROVE  /\ saver[calls'[v][j].run].sending = calls'[v][j].text
                      /\ \A u \in Windows : \A k \in DOMAIN calls'[u] :
                           calls'[u][k].op = "write"
                           /\ calls'[u][k].run = calls'[v][j].run
                             => u = v /\ k = j
    BY DEF OneSave
  <2>1. /\ j \in DOMAIN calls[v] /\ calls[v][j].op = "write"
        /\ calls'[v][j].run = calls[v][j].run /\ calls'[v][j].text = calls[v][j].text
    BY <1>1
  <2>2. /\ saver[calls[v][j].run].sending = calls[v][j].text
        /\ \A u \in Windows : \A k \in DOMAIN calls[u] :
             calls[u][k].op = "write" /\ calls[u][k].run = calls[v][j].run
               => u = v /\ k = j
    BY <2>1 DEF MemoInv, OneSave
  <2>3. ASSUME NEW u \in Windows, NEW k \in DOMAIN calls'[u],
               calls'[u][k].op = "write", calls'[u][k].run = calls'[v][j].run
        PROVE  u = v /\ k = j
    <3>1. /\ k \in DOMAIN calls[u] /\ calls[u][k].op = "write"
          /\ calls[u][k].run = calls[v][j].run
      BY <1>1, <2>1, <2>3
    <3> QED BY <2>2, <3>1
  <2> QED BY <2>1, <2>2, <2>3
<1>6. Clean
  BY DEF Clean
<1> QED BY <1>2, <1>3, <1>4, <1>5, <1>6 DEF MemoInv

LEMMA CommandKept ==
  ASSUME MemoInv, NEW w \in Windows, Command(w)
  PROVE  MemoInv' /\ Clean
<1> PICK i \in 1..MaxCalls : MemoRead(w, i) \/ MemoWrite(w, i) \/ Fail(w, i)
  BY DEF Command
<1>1. disk \in Hash /\ onDisk \subseteq Hash /\ failures \in 0..MaxFailures
  BY DEF MemoInv, TypeOK
<1>2. CASE MemoRead(w, i)
  BY <1>1, <1>2, AnswerKept DEF MemoRead, Turn
<1>3. CASE MemoWrite(w, i)
  <2>1. i \in DOMAIN calls[w] /\ calls[w][i].op = "write"
    BY <1>3 DEF MemoWrite, Turn
  <2>2. calls[w][i].text \in Text
    BY <2>1 DEF MemoInv, Flying
  <2>3. CASE Refused(disk, calls[w][i].base)
    BY <1>1, <1>3, <2>1, <2>3, AnswerKept DEF MemoWrite
  <2>4. CASE ~Refused(disk, calls[w][i].base)
    <3>1. /\ Answer(w, i, "ok", calls[w][i].text)
          /\ disk' = calls[w][i].text
          /\ onDisk' = onDisk \cup {calls[w][i].text}
          /\ UNCHANGED <<typed, panel, stash, base, saver, runs, lastEdit, failures>>
      BY <1>3, <2>4 DEF MemoWrite
    <3> QED BY <1>1, <2>1, <2>2, <3>1, AnswerKept
  <2> QED BY <2>3, <2>4
<1>4. CASE Fail(w, i)
  <2>1. failures' \in 0..MaxFailures
    BY <1>1, <1>4 DEF Fail
  <2> QED BY <1>1, <1>4, <2>1, AnswerKept DEF Fail, Turn
<1> QED BY <1>2, <1>3, <1>4

-----------------------------------------------------------------------------
(* The answers.                                                              *)

(* The place in a queue that a call had before place `i` was taken out.      *)
At(j, i) == IF j < i THEN j ELSE j + 1

(* A queue without its answered call, and longer by `t`.  No other call on   *)
(* its way is a save of the same run, so that saver is free for the next.    *)
LEMMA DropKept ==
  ASSUME MemoInv, NEW w \in Windows, NEW i \in DOMAIN calls[w], NEW t \in Seq(Call),
         calls' = [calls EXCEPT ![w] = RemoveAt(@, i) \o t],
         runs' = runs, onDisk' = onDisk,
         \A p \in RunIds :
           \/ saver'[p].sending = saver[p].sending
           \/ calls[w][i].op = "write" /\ p = calls[w][i].run,
         \A j \in DOMAIN t : t[j].run \in 1..runs,
         \A j \in DOMAIN t : t[j].op = "write" =>
           /\ t[j].text \in Text /\ t[j].res = "pending"
           /\ calls[w][i].op = "write" /\ t[j].run = calls[w][i].run
           /\ saver'[t[j].run].sending = t[j].text
           /\ \A k \in DOMAIN t : t[k].op = "write" => k = j
  PROVE  calls' \in [Windows -> Seq(Call)] /\ Flying' /\ OneSave'
<1> DEFINE c == calls[w][i]
           rest == RemoveAt(calls[w], i)
           n == Len(rest)
           Was(v, j) == IF v = w THEN At(j, i) ELSE j
           Old(v, j) == /\ Was(v, j) \in DOMAIN calls[v]
                        /\ v = w => Was(v, j) # i
                        /\ calls'[v][j] = calls[v][Was(v, j)]
           Fresh(v, j) == v = w /\ j - n \in DOMAIN t /\ calls'[v][j] = t[j - n]
<1>1. /\ calls \in [Windows -> Seq(Call)] /\ runs \in 0..MaxRuns
      /\ calls[w] \in Seq(Call)
  BY DEF MemoInv, TypeOK
<1>2. /\ rest \in Seq(Call) /\ DOMAIN rest = 1..(Len(calls[w]) - 1) /\ n \in Nat
      /\ \A j \in DOMAIN rest : rest[j] = IF j < i THEN calls[w][j] ELSE calls[w][j + 1]
  <2>1. /\ rest \in Seq(Call) /\ DOMAIN rest = 1..(Len(calls[w]) - 1)
        /\ \A j \in DOMAIN rest : rest[j] = IF j < i THEN calls[w][j] ELSE calls[w][j + 1]
    BY <1>1, RemoveAtFact
  <2> HIDE DEF rest
  <2> QED BY <2>1
<1>3. calls' = [calls EXCEPT ![w] = rest \o t]
  OBVIOUS
<1>4. i \in Nat /\ i \in 1..Len(calls[w]) /\ Len(calls[w]) \in Nat
  BY <1>1
<1> HIDE DEF rest
<1>5. \A j \in DOMAIN rest :
        At(j, i) \in DOMAIN calls[w] /\ At(j, i) # i /\ rest[j] = calls[w][At(j, i)]
  BY <1>1, <1>2, <1>4 DEF At
<1>6. /\ calls' \in [Windows -> Seq(Call)]
      /\ calls'[w] = rest \o t
      /\ \A v \in Windows : v # w => calls'[v] = calls[v]
  <2>1. rest \o t \in Seq(Call)
    BY <1>2
  <2> QED BY <1>1, <1>3, <2>1
<1>7. \A v \in Windows : \A j \in DOMAIN calls'[v] : j \in Nat
  BY <1>6
<1>8. \A v \in Windows : \A j \in DOMAIN calls'[v] : Old(v, j) \/ Fresh(v, j)
  <2> SUFFICES ASSUME NEW v \in Windows, NEW j \in DOMAIN calls'[v]
               PROVE  Old(v, j) \/ Fresh(v, j)
    OBVIOUS
  <2>1. CASE v # w
    BY <1>6, <2>1
  <2>2. CASE v = w /\ j \in DOMAIN rest
    <3>1. calls'[w][j] = rest[j]
      BY <1>2, <1>6, <2>2, AppendFact
    <3> QED BY <1>5, <2>2, <3>1
  <2>3. CASE v = w /\ j \notin DOMAIN rest
    <3>1. j \in DOMAIN (rest \o t) /\ calls'[w][j] = (rest \o t)[j]
      BY <1>6, <2>3
    <3>2. j - Len(rest) \in DOMAIN t /\ (rest \o t)[j] = t[j - Len(rest)]
      BY <1>2, <2>3, <3>1, AppendFact
    <3> QED BY <2>3, <3>1, <3>2
  <2> QED BY <2>1, <2>2, <2>3
<1> HIDE DEF n
<1>9. \A v \in Windows : \A j, k \in Nat : Was(v, j) = Was(v, k) => j = k
  BY <1>4 DEF At
<1>10. Flying'
  <2> SUFFICES ASSUME NEW v \in Windows, NEW j \in DOMAIN calls'[v]
               PROVE  /\ calls'[v][j].run \in 1..runs
                      /\ calls'[v][j].op = "write" =>
                           /\ calls'[v][j].text \in Text
                           /\ calls'[v][j].res = "ok" => calls'[v][j].text \in onDisk
    BY DEF Flying
  <2>1. CASE Old(v, j)
    BY <2>1 DEF MemoInv, Flying
  <2>2. CASE Fresh(v, j)
    BY <2>2
  <2> QED BY <1>8, <2>1, <2>2
<1>11. OneSave'
  <2> SUFFICES ASSUME NEW v \in Windows, NEW j \in DOMAIN calls'[v],
                      calls'[v][j].op = "write"
               PROVE  /\ saver'[calls'[v][j].run].sending = calls'[v][j].text
                      /\ \A u \in Windows : \A k \in DOMAIN calls'[u] :
                           calls'[u][k].op = "write"
                           /\ calls'[u][k].run = calls'[v][j].run
                             => u = v /\ k = j
    BY DEF OneSave
  <2>1. ASSUME NEW u \in Windows, NEW k \in DOMAIN calls'[u], Old(u, k),
               calls'[u][k].op = "write"
        PROVE  /\ calls'[u][k].run \in RunIds
               /\ saver[calls'[u][k].run].sending = calls'[u][k].text
               /\ c.op = "write" => calls'[u][k].run # c.run
    <3> DEFINE m == Was(u, k)
    <3>1. m \in DOMAIN calls[u] /\ calls'[u][k] = calls[u][m] /\ (u = w => m # i)
      BY <2>1
    <3> HIDE DEF m
    <3>2. calls[u][m].run \in RunIds
      BY <1>1, <3>1 DEF MemoInv, Flying
    <3>3. saver[calls[u][m].run].sending = calls[u][m].text
      BY <2>1, <3>1 DEF MemoInv, OneSave
    <3>4. c.op = "write" => calls[u][m].run # c.run
      <4> SUFFICES ASSUME c.op = "write", calls[u][m].run = c.run PROVE FALSE
        OBVIOUS
      <4>1. u = w /\ m = i
        BY <2>1, <3>1 DEF MemoInv, OneSave
      <4> QED BY <3>1, <4>1
    <3> QED BY <3>1, <3>2, <3>3, <3>4
  <2>2. ASSUME NEW u \in Windows, NEW k \in DOMAIN calls'[u],
               calls'[u][k].op = "write", calls'[u][k].run = calls'[v][j].run
        PROVE  u = v /\ k = j
    <3>1. CASE Old(v, j) /\ Old(u, k)
      <4>1. u = v /\ Was(u, k) = Was(v, j)
        <5> DEFINE a == Was(u, k)
                   b == Was(v, j)
        <5>1. /\ a \in DOMAIN calls[u] /\ calls[u][a].op = "write"
              /\ b \in DOMAIN calls[v] /\ calls[v][b].op = "write"
              /\ calls[u][a].run = calls[v][b].run
          BY <2>2, <3>1, SMTT(30)
        <5>2. OneSave
          BY DEF MemoInv
        <5> HIDE DEF a, b
        <5>3. u = v /\ a = b
          BY <5>1, <5>2 DEF OneSave
        <5> QED BY <5>3 DEF a, b
      <4> QED BY <1>7, <1>9, <4>1
    <3>2. CASE Old(v, j) /\ Fresh(u, k)
      <4>1. c.op = "write" /\ calls'[u][k].run = c.run
        BY <2>2, <3>2
      <4>2. calls'[v][j].run # c.run
        <5> HIDE DEF Old, Fresh
        <5> QED BY <2>1, <3>2, <4>1
      <4> QED BY <2>2, <4>1, <4>2
    <3>3. CASE Fresh(v, j) /\ Old(u, k)
      <4>1. c.op = "write" /\ calls'[v][j].run = c.run
        BY <3>3
      <4>2. calls'[u][k].run # c.run
        <5> HIDE DEF Old, Fresh
        <5> QED BY <2>1, <2>2, <3>3, <4>1
      <4> QED BY <2>2, <4>1, <4>2
    <3>4. CASE Fresh(v, j) /\ Fresh(u, k)
      <4>1. k - n = j - n /\ u = w /\ v = w
        BY <2>2, <3>4
      <4> QED BY <1>2, <1>7, <4>1 DEF n
    <3> QED BY <1>8, <3>1, <3>2, <3>3, <3>4
  <2>3. saver'[calls'[v][j].run].sending = calls'[v][j].text
    <3>1. CASE Old(v, j)
      <4>1. /\ calls'[v][j].run \in RunIds
            /\ saver[calls'[v][j].run].sending = calls'[v][j].text
            /\ c.op = "write" => calls'[v][j].run # c.run
        <5> HIDE DEF Old, Fresh
        <5> QED BY <2>1, <3>1
      <4>2. saver'[calls'[v][j].run].sending = saver[calls'[v][j].run].sending
        BY <4>1
      <4> QED BY <4>1, <4>2
    <3>2. CASE Fresh(v, j)
      BY <3>2
    <3> QED BY <1>8, <3>1, <3>2
  <2> QED BY <2>2, <2>3
<1> QED BY <1>6, <1>10, <1>11

LEMMA ReadDoneKept ==
  ASSUME MemoInv, NEW w \in Windows, NEW i \in Nat, ReadDone(w, i)
  PROVE  MemoInv' /\ Clean
<1> DEFINE c == calls[w][i]
           current == c.run = panel[w].run
           text == IF c.hash = None THEN 0 ELSE c.hash
           kept == stash[w]
           back == kept # None /\ kept # text
           q == Scheduled(saver[c.run], kept)
<1>1. /\ i \in DOMAIN calls[w] /\ c.op = "read" /\ calls \in [Windows -> Seq(Call)]
      /\ runs \in 0..MaxRuns /\ saver \in [RunIds -> Saver]
      /\ panel \in [Windows -> Panel] /\ stash \in [Windows -> Text \cup {None}]
      /\ base \in [RunIds -> Base]
  BY DEF ReadDone, Arrives, MemoInv, TypeOK
<1>2. c \in Call /\ c.run \in 1..runs /\ c.run \in RunIds /\ c.hash \in Hash
      /\ saver[c.run] \in Saver
  <2>1. c \in Call /\ c.run \in 1..runs
    BY <1>1 DEF MemoInv, Flying
  <2> HIDE DEF c
  <2> QED BY <1>1, <2>1 DEF Call
<1>3. current => panel[w].phase # "closed" /\ panel[w].inst \in RunIds
  BY <1>1, <1>2 DEF MemoInv, PanelsBorn
<1>4. /\ calls' = [calls EXCEPT ![w] = RemoveAt(@, i)]
      /\ UNCHANGED <<disk, onDisk, typed, runs, lastEdit, failures>>
  BY DEF ReadDone
<1>5. CASE current /\ c.res = "ok"
  <2>1. /\ base' = [base EXCEPT ![panel[w].inst] = [hash |-> c.hash, from |-> "read"]]
        /\ stash' = [stash EXCEPT ![w] = None]
        /\ saver' = IF back THEN [saver EXCEPT ![c.run] = q] ELSE saver
        /\ panel' = [panel EXCEPT ![w].phase = "open"]
    BY <1>5 DEF ReadDone, StashAfterRead
  <2>2. kept \in Text \cup {None} /\ kept \in {None, lastEdit[w]}
    BY <1>1 DEF MemoInv, Latest
  <2>3. back => /\ q \in Saver /\ q.inst = saver[c.run].inst
                /\ q.sending = saver[c.run].sending /\ q.box = kept
    BY <1>2, <2>2, ScheduledFact
  <2> HIDE DEF q
  <2>4. /\ saver' \in [RunIds -> Saver]
        /\ \A p \in RunIds : /\ saver'[p].inst = saver[p].inst
                             /\ saver'[p].sending = saver[p].sending
                             /\ p # c.run => saver'[p] = saver[p]
        /\ saver'[c.run].box = saver[c.run].box \/ (back /\ saver'[c.run].box = kept)
    <3> HIDE DEF c, kept, back
    <3>1. CASE back
      BY <1>1, <1>2, <2>1, <2>3, <3>1
    <3>2. CASE ~back
      BY <1>1, <2>1, <3>2
    <3> QED BY <3>1, <3>2
  <2>5. base' \in [RunIds -> Base]
    <3>1. [hash |-> c.hash, from |-> "read"] \in Base
      BY <1>2 DEF Base
    <3> QED BY <1>1, <1>3, <1>5, <2>1, <3>1
  <2>6. /\ panel' \in [Windows -> Panel]
        /\ \A v \in Windows : panel'[v].run = panel[v].run /\ panel'[v].inst = panel[v].inst
        /\ \A v \in Windows : v # w => panel'[v] = panel[v]
        /\ panel'[w].phase = "open"
    <3> DEFINE new == [panel[w] EXCEPT !.phase = "open"]
    <3>1. new \in Panel /\ new.run = panel[w].run /\ new.inst = panel[w].inst
          /\ new.phase = "open"
      BY <1>1 DEF Panel, Phases
    <3>2. panel' = [panel EXCEPT ![w] = new]
      BY <1>1, <2>1
    <3> HIDE DEF new
    <3> QED BY <1>1, <3>1, <3>2
  <2>7. calls' \in [Windows -> Seq(Call)] /\ Flying' /\ OneSave'
    <3> DEFINE t == << >>
    <3>1. t \in Seq(Call) /\ DOMAIN t = {}
      OBVIOUS
    <3>2. RemoveAt(calls[w], i) \o t = RemoveAt(calls[w], i)
      <4>1. calls[w] \in Seq(Call)
        BY <1>1
      <4>2. RemoveAt(calls[w], i) \in Seq(Call)
        BY <1>1, <4>1, RemoveAtFact
      <4> QED BY <4>2, ConcatEmptySeq
    <3> HIDE DEF t
    <3>3. calls' = [calls EXCEPT ![w] = RemoveAt(@, i) \o t]
      BY <1>4, <3>2
    <3>4. /\ \A j \in DOMAIN t : t[j].run \in 1..runs
          /\ \A j \in DOMAIN t : t[j].op = "write" =>
               /\ t[j].text \in Text /\ t[j].res = "pending"
               /\ calls[w][i].op = "write" /\ t[j].run = calls[w][i].run
               /\ saver'[t[j].run].sending = t[j].text
               /\ \A k \in DOMAIN t : t[k].op = "write" => k = j
      BY <3>1
    <3>5. \A p \in RunIds : \/ saver'[p].sending = saver[p].sending
                            \/ calls[w][i].op = "write" /\ p = calls[w][i].run
      BY <2>4
    <3>6. runs' = runs /\ onDisk' = onDisk /\ i \in DOMAIN calls[w]
      BY <1>1, <1>4
    <3> QED BY <3>1, <3>3, <3>4, <3>5, <3>6, DropKept
  <2>8. TypeOK'
    <3>1. stash' \in [Windows -> Text \cup {None}]
      BY <1>1, <2>1
    <3> QED BY <1>4, <2>4, <2>5, <2>6, <2>7, <3>1 DEF MemoInv, TypeOK
  <2>9. PanelsBorn' /\ Apart'
    <3>1. panel[w].phase # "closed"
      BY <1>3, <1>5
    <3> QED BY <1>4, <2>6, <3>1 DEF MemoInv, PanelsBorn, Apart
  <2>10. SaversBorn'
    <3>1. \A p \in RunIds : p > runs => p # c.run
      BY <1>1, <1>2
    <3>2. \A p \in 1..runs : p \in RunIds
      BY <1>1
    <3> HIDE DEF c
    <3> QED BY <1>4, <2>4, <3>1, <3>2 DEF MemoInv, SaversBorn
  <2>11. Latest'
    <3> SUFFICES ASSUME NEW v \in Windows
                 PROVE  /\ stash'[v] \in {None, lastEdit[v]}
                        /\ panel'[v].phase # "closed" =>
                             saver'[panel'[v].run].box \in {None, lastEdit[v]}
                        /\ panel'[v].phase = "open" => stash'[v] = None
      BY <1>4 DEF Latest
    <3>1. CASE v = w
      <4>1. stash'[w] = None
        BY <1>1, <2>1
      <4>2. saver[c.run].box \in {None, lastEdit[w]}
        BY <1>3, <1>5 DEF MemoInv, Latest
      <4>3. panel'[w].run = c.run
        BY <1>5, <2>6
      <4> QED BY <2>2, <2>4, <3>1, <4>1, <4>2, <4>3
    <3>2. CASE v # w
      <4>1. panel[v].phase # "closed" => panel[v].run \in RunIds /\ panel[v].run # c.run
        BY <1>1, <1>2, <1>5, <3>2 DEF MemoInv, PanelsBorn, Apart
      <4>2. stash'[v] = stash[v]
        BY <1>1, <2>1, <3>2
      <4> QED BY <2>4, <2>6, <3>2, <4>1, <4>2 DEF MemoInv, Latest
    <3> QED BY <3>1, <3>2
  <2>12. Clean
    BY <2>4 DEF Clean
  <2> QED BY <2>7, <2>8, <2>9, <2>10, <2>11, <2>12 DEF MemoInv
<1>6. CASE ~(current /\ c.res = "ok")
  <2>1. /\ UNCHANGED <<base, stash, saver>>
        /\ panel' = IF current THEN [panel EXCEPT ![w].phase = "unreadable"] ELSE panel
    BY <1>6 DEF ReadDone
  <2>2. /\ panel' \in [Windows -> Panel]
        /\ \A v \in Windows : panel'[v].run = panel[v].run /\ panel'[v].inst = panel[v].inst
        /\ \A v \in Windows : \/ panel'[v] = panel[v]
                              \/ panel[v].phase # "closed" /\ panel'[v].phase = "unreadable"
    <3>1. CASE current
      <4> DEFINE new == [panel[w] EXCEPT !.phase = "unreadable"]
      <4>1. new \in Panel /\ new.run = panel[w].run /\ new.inst = panel[w].inst
            /\ new.phase = "unreadable"
        BY <1>1 DEF Panel, Phases
      <4>2. panel' = [panel EXCEPT ![w] = new]
        BY <1>1, <2>1, <3>1
      <4>3. panel[w].phase # "closed"
        BY <1>3, <3>1
      <4> HIDE DEF new
      <4> QED BY <1>1, <4>1, <4>2, <4>3
    <3>2. CASE ~current
      BY <1>1, <2>1, <3>2
    <3> QED BY <3>1, <3>2
  <2>3. calls' \in [Windows -> Seq(Call)] /\ Flying' /\ OneSave'
    <3> DEFINE t == << >>
    <3>1. t \in Seq(Call) /\ DOMAIN t = {}
      OBVIOUS
    <3>2. RemoveAt(calls[w], i) \o t = RemoveAt(calls[w], i)
      <4>1. calls[w] \in Seq(Call)
        BY <1>1
      <4>2. RemoveAt(calls[w], i) \in Seq(Call)
        BY <1>1, <4>1, RemoveAtFact
      <4> QED BY <4>2, ConcatEmptySeq
    <3> HIDE DEF t
    <3>3. calls' = [calls EXCEPT ![w] = RemoveAt(@, i) \o t]
      BY <1>4, <3>2
    <3>4. /\ \A j \in DOMAIN t : t[j].run \in 1..runs
          /\ \A j \in DOMAIN t : t[j].op = "write" =>
               /\ t[j].text \in Text /\ t[j].res = "pending"
               /\ calls[w][i].op = "write" /\ t[j].run = calls[w][i].run
               /\ saver'[t[j].run].sending = t[j].text
               /\ \A k \in DOMAIN t : t[k].op = "write" => k = j
      BY <3>1
    <3>5. \A p \in RunIds : \/ saver'[p].sending = saver[p].sending
                            \/ calls[w][i].op = "write" /\ p = calls[w][i].run
      BY <2>1
    <3>6. runs' = runs /\ onDisk' = onDisk /\ i \in DOMAIN calls[w]
      BY <1>1, <1>4
    <3> QED BY <3>1, <3>3, <3>4, <3>5, <3>6, DropKept
  <2>4. TypeOK'
    BY <1>4, <2>1, <2>2, <2>3 DEF MemoInv, TypeOK
  <2>5. PanelsBorn'
    BY <1>4, <2>2 DEF MemoInv, PanelsBorn
  <2>6. Apart' /\ SaversBorn'
    BY <1>4, <2>1, <2>2 DEF MemoInv, Apart, SaversBorn
  <2>8. Latest'
    <3> SUFFICES ASSUME NEW v \in Windows
                 PROVE  /\ stash[v] \in {None, lastEdit[v]}
                        /\ panel'[v].phase # "closed" =>
                             saver[panel'[v].run].box \in {None, lastEdit[v]}
                        /\ panel'[v].phase = "open" => stash[v] = None
      BY <1>4, <2>1 DEF Latest
    <3>1. panel'[v].run = panel[v].run
      BY <2>2
    <3>2. panel'[v].phase # "closed" => panel[v].phase # "closed"
      BY <2>2
    <3>3. panel'[v].phase = "open" => panel[v].phase = "open"
      BY <2>2
    <3> QED BY <3>1, <3>2, <3>3 DEF MemoInv, Latest
  <2>7. Clean
    BY <2>1 DEF Clean
  <2> QED BY <2>3, <2>4, <2>5, <2>6, <2>7, <2>8 DEF MemoInv
<1> QED BY <1>5, <1>6

LEMMA BaseAfterFact ==
  ASSUME NEW c \in Call, c.res # "pending", NEW b \in Base
  PROVE  BaseAfter(c, b) \in Base
BY DEF BaseAfter, Call, Base

(* A save answered: its saver goes on with what is in the box by now, and    *)
(* has dropped a text only if that is the one on disk.                       *)
LEMMA WriteDoneKept ==
  ASSUME MemoInv, NEW w \in Windows, NEW i \in Nat, WriteDone(w, i)
  PROVE  MemoInv' /\ Clean
<1> DEFINE c == calls[w][i]
           r == c.run
           s == saver[r]
           saved == c.res = "ok"
           next == Settled(s, saved)
           b == BaseAfter(c, base[s.inst])
           left == s.leaving /\ next.sending = None
           q == IF left THEN [next EXCEPT !.leaving = FALSE] ELSE next
           t == IF next.sending # None THEN <<WriteCall(r, next.sending, b)>> ELSE << >>
           shown == [panel[w] EXCEPT !.banner = BannerAfter(c, panel[w].banner)]
<1>1. /\ i \in DOMAIN calls[w] /\ c.op = "write" /\ c.res # "pending"
      /\ calls \in [Windows -> Seq(Call)]
      /\ runs \in 0..MaxRuns /\ saver \in [RunIds -> Saver]
      /\ panel \in [Windows -> Panel] /\ stash \in [Windows -> Text \cup {None}]
      /\ base \in [RunIds -> Base]
  BY DEF WriteDone, Arrives, MemoInv, TypeOK
<1>2. /\ c \in Call /\ r \in 1..runs /\ r \in RunIds /\ s \in Saver
      /\ s.inst \in RunIds /\ s.inst \in 1..runs
  <2>1. c \in Call /\ r \in 1..runs
    BY <1>1 DEF MemoInv, Flying
  <2> HIDE DEF r
  <2> QED BY <1>1, <2>1 DEF MemoInv, SaversBorn
<1>3. s.sending = c.text /\ (saved => c.text \in onDisk)
  BY <1>1 DEF MemoInv, OneSave, Flying
<1>4. /\ base' = [base EXCEPT ![s.inst] = b]
      /\ saver' = [saver EXCEPT ![r] = q]
      /\ calls' = [calls EXCEPT ![w] = RemoveAt(@, i) \o t]
      /\ stash' = IF left /\ next.box = None THEN [stash EXCEPT ![w] = None] ELSE stash
      /\ panel' = IF r = panel[w].run THEN [panel EXCEPT ![w] = shown] ELSE panel
      /\ UNCHANGED <<disk, onDisk, typed, runs, lastEdit, failures>>
  BY <1>1 DEF WriteDone
<1>5. /\ next \in Saver /\ next.inst = s.inst
      /\ next.box = s.box \/ (next.box = None /\ saved /\ s.box = s.sending)
      /\ next.sending \in {None, next.box}
  <2>1. saved \in BOOLEAN
    OBVIOUS
  <2> HIDE DEF saved, s
  <2> QED BY <1>2, <2>1, SettledFact
<1>6. b \in Base
  <2>1. base[s.inst] \in Base
    BY <1>1, <1>2
  <2> HIDE DEF c, s
  <2> QED BY <1>1, <1>2, <2>1, BaseAfterFact
<1>7. shown \in Panel /\ shown.run = panel[w].run /\ shown.inst = panel[w].inst
      /\ shown.phase = panel[w].phase
  BY <1>1 DEF Panel, BannerAfter
<1> HIDE DEF saved, next, b, shown
<1>8. /\ q \in Saver /\ q.inst = s.inst /\ q.box = next.box /\ q.sending = next.sending
  BY <1>5 DEF Saver
<1> HIDE DEF q
<1>9. /\ saver' \in [RunIds -> Saver] /\ saver'[r] = q
      /\ \A p \in RunIds : p # r => saver'[p] = saver[p]
      /\ \A p \in RunIds : saver'[p].inst = saver[p].inst
  <2> HIDE DEF r
  <2> QED BY <1>1, <1>2, <1>4, <1>8
<1>10. /\ t \in Seq(Call)
       /\ \A j \in DOMAIN t : t[j].run \in 1..runs
       /\ \A j \in DOMAIN t : t[j].op = "write" =>
            /\ t[j].text \in Text /\ t[j].res = "pending" /\ t[j].run = r
            /\ next.sending = t[j].text
            /\ \A k \in DOMAIN t : t[k].op = "write" => k = j
  <2>1. CASE next.sending = None
    <3>1. t = << >>
      BY <2>1
    <3> HIDE DEF t
    <3> QED BY <3>1
  <2>2. CASE next.sending # None
    <3>1. next.sending \in Text
      BY <1>5, <2>2 DEF Saver
    <3> DEFINE d == WriteCall(r, next.sending, b)
    <3>2. d \in Call /\ d.run = r /\ d.text = next.sending /\ d.res = "pending"
      BY <1>2, <1>6, <3>1 DEF WriteCall, Call
    <3>3. t = <<d>>
      BY <2>2
    <3> HIDE DEF t, d, r
    <3>4. t \in Seq(Call) /\ DOMAIN t = {1} /\ t[1] = d
      BY <3>2, <3>3
    <3> QED BY <1>2, <3>1, <3>2, <3>4
  <2> QED BY <2>1, <2>2
<1> HIDE DEF t
<1>11. calls' \in [Windows -> Seq(Call)] /\ Flying' /\ OneSave'
  <2>1. \A j \in DOMAIN t : t[j].op = "write" =>
          /\ t[j].text \in Text /\ t[j].res = "pending"
          /\ calls[w][i].op = "write" /\ t[j].run = calls[w][i].run
          /\ saver'[t[j].run].sending = t[j].text
          /\ \A k \in DOMAIN t : t[k].op = "write" => k = j
    BY <1>1, <1>8, <1>9, <1>10
  <2>2. \A p \in RunIds : \/ saver'[p].sending = saver[p].sending
                          \/ calls[w][i].op = "write" /\ p = calls[w][i].run
    BY <1>1, <1>9
  <2>3. runs' = runs /\ onDisk' = onDisk /\ i \in DOMAIN calls[w]
    BY <1>1, <1>4
  <2>4. t \in Seq(Call) /\ \A j \in DOMAIN t : t[j].run \in 1..runs
    BY <1>10
  <2>5. calls' = [calls EXCEPT ![w] = RemoveAt(@, i) \o t]
    BY <1>4
  <2> QED BY <2>1, <2>2, <2>3, <2>4, <2>5, DropKept
<1>12. /\ panel' \in [Windows -> Panel]
       /\ \A v \in Windows : /\ panel'[v].run = panel[v].run
                             /\ panel'[v].inst = panel[v].inst
                             /\ panel'[v].phase = panel[v].phase
  BY <1>1, <1>4, <1>7
<1>13. /\ stash' \in [Windows -> Text \cup {None}]
       /\ \A v \in Windows : stash'[v] \in {stash[v], None}
  BY <1>1, <1>4
<1>14. base' \in [RunIds -> Base]
  <2> HIDE DEF s
  <2> QED BY <1>1, <1>2, <1>4, <1>6
<1>15. TypeOK'
  BY <1>4, <1>9, <1>11, <1>12, <1>13, <1>14 DEF MemoInv, TypeOK
<1>16. PanelsBorn' /\ Apart'
  BY <1>4, <1>12 DEF MemoInv, PanelsBorn, Apart
<1>17. SaversBorn'
  <2>1. \A p \in RunIds : p > runs => p # r
    BY <1>1, <1>2
  <2>2. \A p \in 1..runs : p \in RunIds
    BY <1>1
  <2> HIDE DEF r
  <2> QED BY <1>4, <1>9, <2>1, <2>2 DEF MemoInv, SaversBorn
<1>18. \A p \in RunIds : saver'[p].box \in {saver[p].box, None}
  <2> HIDE DEF r
  <2>1. saver'[r].box \in {saver[r].box, None}
    BY <1>5, <1>8, <1>9
  <2> QED BY <1>9, <2>1
<1>19. Latest'
  <2> SUFFICES ASSUME NEW v \in Windows
               PROVE  /\ stash'[v] \in {None, lastEdit[v]}
                      /\ panel'[v].phase # "closed" =>
                           saver'[panel'[v].run].box \in {None, lastEdit[v]}
                      /\ panel'[v].phase = "open" => stash'[v] = None
    BY <1>4 DEF Latest
  <2>1. panel[v].phase # "closed" => panel[v].run \in RunIds
    BY <1>1 DEF MemoInv, PanelsBorn
  <2>2. /\ panel'[v].phase = panel[v].phase /\ panel'[v].run = panel[v].run
        /\ stash'[v] \in {stash[v], None}
    BY <1>12, <1>13
  <2>3. /\ stash[v] \in {None, lastEdit[v]}
        /\ panel[v].phase # "closed" => saver[panel[v].run].box \in {None, lastEdit[v]}
        /\ panel[v].phase = "open" => stash[v] = None
    BY DEF MemoInv, Latest
  <2>4. panel[v].phase # "closed" =>
          saver'[panel[v].run].box \in {saver[panel[v].run].box, None}
    BY <1>18, <2>1
  <2> QED BY <2>2, <2>3, <2>4
<1>20. Clean
  <2>1. saver[r].box # None /\ saver'[r].box = None => saver[r].box \in onDisk
    BY <1>3, <1>5, <1>8, <1>9
  <2> HIDE DEF r
  <2> QED BY <1>9, <2>1 DEF Clean
<1> QED BY <1>11, <1>15, <1>16, <1>17, <1>19, <1>20 DEF MemoInv

-----------------------------------------------------------------------------
(* Every step.                                                               *)

LEMMA EditorKept ==
  ASSUME MemoInv, NEW w \in Windows, Editor(w)
  PROVE  MemoInv' /\ Clean
<1>1. CASE Open(w)
  BY <1>1, OpenKept
<1>2. CASE Unmount(w)
  BY <1>2, UnmountKept
<1>3. CASE Retry(w)
  BY <1>3, AgainKept DEF Retry
<1>4. CASE Reload(w)
  BY <1>4, AgainKept DEF Reload
<1>5. CASE Overwrite(w)
  BY <1>5, OverwriteKept
<1>6. CASE Type(w)
  BY <1>6, TypeKept
<1>7. CASE Blur(w)
  BY <1>7, BlurKept
<1>8. CASE Timer(w)
  BY <1>8, TimerKept
<1> QED BY <1>1, <1>2, <1>3, <1>4, <1>5, <1>6, <1>7, <1>8 DEF Editor

LEMMA ReplyKept ==
  ASSUME MemoInv, NEW w \in Windows, Reply(w)
  PROVE  MemoInv' /\ Clean
<1> PICK i \in 1..MaxCalls : ReadDone(w, i) \/ WriteDone(w, i)
  BY DEF Reply
<1>1. i \in Nat
  OBVIOUS
<1>2. CASE ReadDone(w, i)
  BY <1>1, <1>2, ReadDoneKept
<1>3. CASE WriteDone(w, i)
  BY <1>1, <1>3, WriteDoneKept
<1> QED BY <1>2, <1>3

LEMMA InitKept == Init => MemoInv
<1> SUFFICES ASSUME Init PROVE MemoInv
  OBVIOUS
<1>1. 0 \in Text /\ 0 \in 0..MaxRuns /\ 0 \in 0..MaxFailures
  OBVIOUS
<1>2. NewSaver(0) \in Saver /\ NoBase \in Base /\ Closed \in Panel
      /\ NewSaver(0).box = None /\ Closed.phase = "closed" /\ Closed.run = 0
  BY <1>1 DEF NewSaver, Saver, NoBase, Base, Closed, Panel, Phases
<1>3. << >> \in Seq(Call) /\ DOMAIN << >> = {}
  OBVIOUS
<1>4. TypeOK
  BY <1>1, <1>2, <1>3 DEF Init, TypeOK
<1>5. PanelsBorn /\ Apart
  BY <1>2 DEF Init, PanelsBorn, Apart
<1>6. SaversBorn
  BY DEF Init, SaversBorn
<1>7. Flying /\ OneSave
  <2>1. \A w \in Windows : \A i \in DOMAIN calls[w] : FALSE
    BY <1>3 DEF Init
  <2> QED BY <2>1 DEF Flying, OneSave
<1>8. Latest
  BY <1>2 DEF Init, Latest
<1> QED BY <1>4, <1>5, <1>6, <1>7, <1>8 DEF MemoInv

LEMMA StepKept == MemoInv /\ [Next]_vars => MemoInv' /\ Clean
<1> SUFFICES ASSUME MemoInv, [Next]_vars PROVE MemoInv' /\ Clean
  OBVIOUS
<1>1. CASE Next
  <2> PICK w \in Windows : Editor(w) \/ Command(w) \/ Reply(w)
    BY <1>1 DEF Next
  <2> QED BY EditorKept, CommandKept, ReplyKept
<1>2. CASE UNCHANGED vars
  <2>1. TypeOK' /\ PanelsBorn' /\ SaversBorn' /\ Apart' /\ Latest' /\ Clean
    BY <1>2 DEF vars, MemoInv, TypeOK, PanelsBorn, SaversBorn, Apart, Latest, Clean
  <2>2. Flying' /\ OneSave'
    BY <1>2 DEF vars, MemoInv, Flying, OneSave
  <2> QED BY <2>1, <2>2 DEF MemoInv
<1> QED BY <1>1, <1>2

-----------------------------------------------------------------------------
(* The state of the memo's file, editors and saves has its type, and what    *)
(* the other theorems rest on holds.                                         *)
THEOREM MemoTheorem == Spec => []MemoInv
<1>1. Init => MemoInv
  BY InitKept
<1>2. MemoInv /\ [Next]_vars => MemoInv'
  BY StepKept
<1> QED BY <1>1, <1>2, PTL DEF Spec

(* makeAutoSaver: the saves of one editor are serial, in whatever order the  *)
(* timer, a blur, the leave and [Overwrite] ask for them.                    *)
THEOREM SerialTheorem == Spec => []SerialSaves
<1>1. MemoInv => SerialSaves
  BY DEF MemoInv, OneSave, SerialSaves
<1> QED BY <1>1, MemoTheorem, PTL

(* An edit leaves its auto-saver only for the file, or for a newer edit.     *)
THEOREM CleanTheorem == Spec => CleanMeansSaved
<1>1. MemoInv /\ [Next]_vars =>
        [\A r \in RunIds :
           saver[r].box # None /\ saver'[r].box = None => saver[r].box \in onDisk]_vars
  BY StepKept DEF Clean
<1> QED BY <1>1, MemoTheorem, PTL DEF Spec, CleanMeansSaved

(* The stash of a window brings back the last text typed there, or nothing.  *)
THEOREM StashTheorem == Spec => []StashIsLatest
<1>1. MemoInv => StashIsLatest
  BY DEF MemoInv, Latest, StashIsLatest
<1> QED BY <1>1, MemoTheorem, PTL

(* Every variable of MemoEditor keeps its type.                              *)
THEOREM MemoTypeCorrect == Spec => []TypeOK
<1>1. MemoInv => TypeOK
  BY DEF MemoInv
<1> QED BY <1>1, MemoTheorem, PTL

=============================================================================
