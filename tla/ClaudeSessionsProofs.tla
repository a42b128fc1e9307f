------------------------ MODULE ClaudeSessionsProofs ------------------------
(* Theorems about ClaudeSessions, for any windows, any panels and any number *)
(* of PTYs.                                                                  *)
EXTENDS ClaudeSessions, SequenceTheorems, FiniteSetTheorems, TLAPS

-----------------------------------------------------------------------------
(* The transitions of the table keep an entry an entry, and keep a driver    *)
(* that views.                                                               *)

HasDriver(s) == s.attached # <<>> => Views(s, s.driver)

LEMMA DrivenFact ==
  ASSUME NEW s \in Sess, NEW w \in Windows
  PROVE  /\ DrivenBy(s, w) \in Sess
         /\ DrivenBy(s, w).known = s.known
         /\ DrivenBy(s, w).attached = s.attached
         /\ DrivenBy(s, w).driver = w
<1> DEFINE d == [s EXCEPT !.driver = w]
<1>1. /\ d \in Sess /\ d.known = s.known /\ d.attached = s.attached
      /\ d.driver = w
  BY DEF Sess
<1>2. DrivenBy(s, w) = [d EXCEPT !.rev = @ + 1]
  BY DEF DrivenBy, Sess
<1> HIDE DEF d
<1> QED BY <1>1, <1>2 DEF Sess

LEMMA JoinedFact ==
  ASSUME NEW s \in Sess, NEW w \in Windows
  PROVE  /\ Joined(s, w) \in Sess
         /\ Views(Joined(s, w), w)
         /\ Joined(s, w).known = s.known
<1>1. s.attached \in Seq(Windows)
  BY DEF Sess
<1>2. CASE Views(s, w)
  BY <1>2 DEF Joined
<1>3. CASE ~Views(s, w)
  <2> DEFINE q == Append(s.attached, w)
  <2>1. q \in Seq(Windows) /\ Len(q) = Len(s.attached) + 1 /\ q[Len(q)] = w
    BY <1>1, AppendProperties
  <2>2. Len(q) \in DOMAIN q
    BY <1>1, <2>1
  <2>3. Joined(s, w) = [s EXCEPT !.attached = q]
    BY <1>3 DEF Joined
  <2> HIDE DEF q
  <2>4. Joined(s, w) \in Sess /\ Joined(s, w).attached = q
        /\ Joined(s, w).known = s.known
    BY <2>1, <2>3 DEF Sess
  <2> QED BY <2>1, <2>2, <2>4 DEF Views, ToSet
<1> QED BY <1>2, <1>3

(* attach_live: the window views, and somebody who views drives.             *)
LEMMA AttachedFact ==
  ASSUME NEW s \in Sess, NEW w \in Windows
  PROVE  /\ AttachedBy(s, w) \in Sess
         /\ AttachedBy(s, w).known = s.known
         /\ HasDriver(AttachedBy(s, w))
<1> DEFINE j == Joined(s, w)
<1>1. j \in Sess /\ Views(j, w) /\ j.known = s.known
  BY JoinedFact
<1>2. AttachedBy(s, w) = Promoted(j, w)
  BY DEF AttachedBy
<1> HIDE DEF j
<1>3. Promoted(j, w) \in Sess /\ Promoted(j, w).known = j.known
  BY <1>1, DrivenFact DEF Promoted
<1>4. HasDriver(Promoted(j, w))
  <2>1. CASE Views(j, j.driver)
    BY <2>1 DEF Promoted, HasDriver
  <2>2. CASE ~Views(j, j.driver)
    <3>1. Promoted(j, w).attached = j.attached /\ Promoted(j, w).driver = w
      BY <1>1, <2>2, DrivenFact DEF Promoted
    <3> QED BY <1>1, <3>1 DEF HasDriver, Views
  <2> QED BY <2>1, <2>2
<1> QED BY <1>1, <1>2, <1>3, <1>4

LEMMA TakenOverFact ==
  ASSUME NEW s \in Sess, NEW w \in Windows
  PROVE  /\ TakenOver(s, w) \in Sess
         /\ TakenOver(s, w).known = s.known
         /\ HasDriver(s) => HasDriver(TakenOver(s, w))
<1>1. TakenOver(s, w) \in Sess /\ TakenOver(s, w).known = s.known
  BY DrivenFact DEF TakenOver
<1>2. HasDriver(s) => HasDriver(TakenOver(s, w))
  <2>1. CASE Views(s, w) /\ s.driver # w
    <3>1. TakenOver(s, w).attached = s.attached /\ TakenOver(s, w).driver = w
      BY <2>1, DrivenFact DEF TakenOver
    <3> QED BY <2>1, <3>1 DEF HasDriver, Views
  <2>2. CASE ~(Views(s, w) /\ s.driver # w)
    BY <2>2 DEF TakenOver
  <2> QED BY <2>1, <2>2
<1> QED BY <1>1, <1>2

(* A window leaves, and the others stay.                                     *)
LEMMA WithoutFact ==
  ASSUME NEW s \in Sess, NEW w \in Windows
  PROVE  /\ Without(s, w) \in Sess
         /\ Without(s, w).known = s.known
         /\ Without(s, w).driver = s.driver
         /\ \A v : v # w /\ Views(s, v) => Views(Without(s, w), v)
<1> DEFINE q == s.attached
           i == Position(q, w)
           n == Len(q)
           front == SubSeq(q, 1, i - 1)
           back == SubSeq(q, i + 1, n)
<1>1. q \in Seq(Windows) /\ n \in Nat /\ DOMAIN q = 1..n
  BY DEF Sess
<1>2. CASE ~Views(s, w)
  BY <1>2 DEF Without
<1>3. CASE Views(s, w)
  <2>1. i \in 1..n /\ q[i] = w
    BY <1>1, <1>3 DEF Position, Views, ToSet
  <2>2. /\ front \in Seq(Windows) /\ Len(front) = i - 1
        /\ \A k \in 1..(i - 1) : front[k] = q[k]
    <3>1. \A k \in 1..(i - 1) : q[k] \in Windows
      BY <1>1, <2>1
    <3> QED BY <2>1, <3>1, SubSeqProperties
  <2>3. /\ back \in Seq(Windows) /\ Len(back) = n - i
        /\ \A k \in 1..(n - i) : back[k] = q[k + i]
    <3>1. \A k \in (i + 1)..n : q[k] \in Windows
      BY <1>1, <2>1
    <3> QED BY <1>1, <2>1, <3>1, SubSeqProperties
  <2> DEFINE rest == front \o back
  <2>4. /\ rest \in Seq(Windows) /\ Len(rest) = Len(front) + Len(back)
        /\ \A k \in 1..(Len(front) + Len(back)) :
             rest[k] = IF k <= Len(front) THEN front[k] ELSE back[k - Len(front)]
    <3> HIDE DEF front, back
    <3> QED BY <2>2, <2>3, ConcatProperties
  <2>5. Without(s, w) = [s EXCEPT !.attached = rest]
    BY <1>3 DEF Without, RemoveAt
  <2> HIDE DEF rest
  <2>6. /\ Without(s, w) \in Sess /\ Without(s, w).known = s.known
        /\ Without(s, w).driver = s.driver /\ Without(s, w).attached = rest
    BY <2>4, <2>5 DEF Sess
  <2>7. ASSUME NEW v, v # w, Views(s, v) PROVE Views(Without(s, w), v)
    <3>1. PICK k \in 1..n : q[k] = v
      BY <1>1, <2>7 DEF Views, ToSet
    <3>2. CASE k < i
      <4>1. k \in DOMAIN rest /\ rest[k] = v
        <5> HIDE DEF q, i, n, front, back
        <5> QED BY <1>1, <2>1, <2>2, <2>3, <2>4, <3>1, <3>2
      <4> QED BY <2>6, <4>1 DEF Views, ToSet
    <3>3. CASE k > i
      <4>1. k - 1 \in DOMAIN rest /\ rest[k - 1] = v
        <5> HIDE DEF q, i, n, front, back
        <5> QED BY <1>1, <2>1, <2>2, <2>3, <2>4, <3>1, <3>3
      <4> QED BY <2>6, <4>1 DEF Views, ToSet
    <3> QED BY <2>1, <2>7, <3>1, <3>2, <3>3
  <2> QED BY <2>6, <2>7
<1> QED BY <1>2, <1>3

(* detach: whoever is left, one of them drives.                              *)
LEMMA LeftFact ==
  ASSUME NEW s \in Sess, NEW w \in Windows
  PROVE  /\ Left(s, w) \in Sess
         /\ Left(s, w).known = s.known
         /\ HasDriver(s) => HasDriver(Left(s, w))
<1> DEFINE r == Without(s, w)
<1>1. /\ r \in Sess /\ r.known = s.known /\ r.driver = s.driver
      /\ \A v : v # w /\ Views(s, v) => Views(r, v)
  BY WithoutFact
<1>2. Left(s, w) = HandedOver(r, w)
  BY DEF Left
<1>3. s.attached = <<>> => r = s
  BY DEF Without, Views, ToSet
<1> HIDE DEF r
<1>4. CASE r.attached # <<>> /\ r.driver = w
  <2>1. Head(r.attached) \in Windows /\ Head(r.attached) = r.attached[1]
        /\ 1 \in DOMAIN r.attached
    BY <1>1, <1>4 DEF Sess
  <2>2. HandedOver(r, w) = DrivenBy(r, Head(r.attached))
    BY <1>4 DEF HandedOver
  <2>3. HandedOver(r, w) \in Sess /\ HandedOver(r, w).known = r.known
    BY <1>1, <2>1, <2>2, DrivenFact
  <2>4. HandedOver(r, w).attached = r.attached
        /\ HandedOver(r, w).driver = Head(r.attached)
    BY <1>1, <2>1, <2>2, DrivenFact
  <2>5. Views(HandedOver(r, w), HandedOver(r, w).driver)
    BY <2>1, <2>4 DEF Views, ToSet
  <2> QED BY <1>1, <1>2, <2>3, <2>5 DEF HasDriver
<1>5. CASE ~(r.attached # <<>> /\ r.driver = w)
  <2>1. HandedOver(r, w) = r
    BY <1>5 DEF HandedOver
  <2> QED BY <1>1, <1>2, <1>3, <1>5, <2>1 DEF HasDriver
<1> QED BY <1>4, <1>5

-----------------------------------------------------------------------------
(* Panels, calls and answers have their types.                               *)

Calls == [Windows -> Seq(Call)]
Layouts == [Windows -> [Panels -> Panel]]
SidType == Ptys \cup {NoPty}

LEMMA PtysType == Ptys \subseteq Nat /\ NoPty \notin Ptys /\ NoPty \in Nat
BY MaxPtyAssumption DEF Ptys, NoPty

LEMMA PanelTypes ==
  ASSUME NEW sid \in SidType
  PROVE  NoPanel \in Panel /\ Added(sid) \in Panel
<1>1. NoPanel \in Panel
  BY PtysType DEF NoPanel, Panel, ViewStates
<1>2. Added(sid) \in Panel
  BY PtysType DEF Added, NoPanel, Panel, ViewStates, SidType
<1> QED BY <1>1, <1>2

LEMMA ViewIsType ==
  ASSUME NEW q \in Panel, NEW v \in {"hidden", "opening", "failed", "ended"}
  PROVE  ViewIs(q, v) \in Panel
BY DEF ViewIs, Panel, ViewStates

LEMMA CallTypes ==
  ASSUME NEW p \in Panels
  PROVE  /\ OpenCall(p) \in Call
         /\ \A i \in Ptys : /\ \A last \in BOOLEAN : DetachCall(p, i, last) \in Call
                            /\ TakeCall(p, i) \in Call
                            /\ CloseCall(p, i) \in Call
BY MainAssumption, PtysType
   DEF OpenCall, DetachCall, TakeCall, CloseCall, ACall, Call

LEMMA EmitCallType ==
  ASSUME NEW p \in Panels, NEW m \in Moving
  PROVE  EmitCall(p, m) \in Call
BY DEF EmitCall, ACall, Moving, Call

LEMMA AwaitedType ==
  ASSUME NEW p, NEW old, NEW new \in {"panel", "nobody"}
  PROVE  /\ \A c \in Call : AwaitedBy(p, old, new, c) \in Call
         /\ \A a \in Answer : new = "panel" => AwaitedBy(p, old, new, a) \in Answer
<1>1. ASSUME NEW c \in Call PROVE AwaitedBy(p, old, new, c) \in Call
  BY <1>1 DEF AwaitedBy, Call
<1>2. ASSUME NEW a \in Answer, new = "panel"
      PROVE  AwaitedBy(p, old, new, a) \in Answer
  BY <1>2 DEF AwaitedBy, Answer
<1> QED BY <1>1, <1>2

LEMMA NoOneWaitsType ==
  ASSUME NEW p, NEW c \in Call
  PROVE  NoOneWaits(p, c) \in Call
BY DEF NoOneWaits, Call

(* Calls are appended, run and re-addressed.                                 *)
LEMMA CallAppended ==
  ASSUME NEW q \in Calls, NEW w \in Windows, NEW c \in Call
  PROVE  [q EXCEPT ![w] = Append(@, c)] \in Calls
<1>1. Append(q[w], c) \in Seq(Call)
  BY AppendProperties DEF Calls
<1> QED BY <1>1 DEF Calls

LEMMA CallRan ==
  ASSUME calls \in Calls, NEW w \in Windows, NEW op, Turn(w, op), Ran(w)
  PROVE  /\ calls' \in Calls
         /\ Head(calls[w]) \in Call
         /\ Head(calls[w]).op = op
<1>1. calls[w] \in Seq(Call) /\ calls[w] # <<>>
  BY DEF Turn, Calls
<1>2. Head(calls[w]) \in Call /\ Tail(calls[w]) \in Seq(Call)
  BY <1>1, HeadTailProperties
<1> QED BY <1>2 DEF Ran, Turn, Calls

LEMMA Mapped ==
  ASSUME NEW q \in Seq(Call), NEW r, r = [i \in DOMAIN q |-> r[i]],
         \A i \in DOMAIN q : r[i] \in Call
  PROVE  r \in Seq(Call)
<1>1. DOMAIN q = 1..Len(q) /\ Len(q) \in Nat
  OBVIOUS
<1>2. r \in [1..Len(q) -> Call]
  BY <1>1
<1> QED BY <1>1, <1>2

LEMMA PanelSet ==
  ASSUME panel \in Layouts, NEW w \in Windows, NEW p \in Panels, NEW q \in Panel
  PROVE  [panel EXCEPT ![w][p] = q] \in Layouts
BY DEF Layouts

LEMMA AddPanelType ==
  ASSUME panel \in Layouts, calls \in Calls, NEW w \in Windows, NEW p \in Panels,
         NEW sid \in SidType, AddPanel(w, p, sid)
  PROVE  panel' \in Layouts /\ calls' \in Calls
<1>1. Added(sid) \in Panel /\ OpenCall(p) \in Call
  BY PanelTypes, CallTypes
<1> QED BY <1>1, PanelSet, CallAppended DEF AddPanel

LEMMA DetachesType ==
  ASSUME NEW p \in Panels, NEW sid \in SidType, NEW last \in BOOLEAN
  PROVE  Detaches(p, sid, last) \in Seq(Call)
<1>1. CASE sid = NoPty
  BY <1>1, EmptySeq DEF Detaches
<1>2. CASE sid # NoPty
  <2>1. DetachCall(p, sid, last) \in Call
    BY <1>2, CallTypes DEF SidType
  <2> QED BY <1>2, <2>1 DEF Detaches
<1> QED BY <1>1, <1>2

(* A panel goes, its session is released, and its opens are awaited by       *)
(* nobody.                                                                   *)
LEMMA RemovePanelType ==
  ASSUME panel \in Layouts, calls \in Calls, NEW w \in Windows, NEW p \in Panels,
         NEW last \in BOOLEAN, NEW told \in SUBSET Answer,
         NEW then \in Seq(Call), RemovePanel(w, p, last, told, then)
  PROVE  panel' \in Layouts /\ calls' \in Calls /\ answers' \subseteq Answer
<1> DEFINE q == calls[w]
           r == [i \in DOMAIN q |-> AwaitedBy(p, "panel", "nobody",
                                      AwaitedBy(p, "view", "nobody", q[i]))]
           d == Detaches(p, panel[w][p].sid, last)
<1>1. NoPanel \in Panel
  BY PanelTypes DEF SidType
<1>2. panel' \in Layouts
  BY <1>1, PanelSet DEF RemovePanel
<1>3. r \in Seq(Call)
  <2>1. q \in Seq(Call)
    BY DEF Calls
  <2>2. \A i \in DOMAIN q : r[i] \in Call
    <3>1. \A old : \A c \in Call : AwaitedBy(p, old, "nobody", c) \in Call
      BY AwaitedType
    <3>2. \A i \in DOMAIN q : q[i] \in Call
      BY <2>1
    <3> QED BY <3>1, <3>2
  <2> QED BY <2>1, <2>2, Mapped
<1>4. d \in Seq(Call)
  BY DetachesType DEF Layouts, Panel, SidType
<1>5. calls' = [calls EXCEPT ![w] = r \o d \o then]
  BY DEF RemovePanel
<1>6. r \o d \o then \in Seq(Call)
  <2> HIDE DEF r, d
  <2> QED BY <1>3, <1>4, ConcatProperties
<1>7. calls' \in Calls
  <2> HIDE DEF r, d
  <2> QED BY <1>5, <1>6 DEF Calls
<1>8. answers' \subseteq Answer
  BY DEF RemovePanel
<1> QED BY <1>2, <1>7, <1>8

-----------------------------------------------------------------------------
(* Type correctness, one action after the other.                             *)

LEMMA InitType == Init => TypeOK
<1> SUFFICES ASSUME Init PROVE TypeOK
  OBVIOUS
<1>1. rt \in ClaudeRuntime
  <2>1. Unknown \in Sess
    BY DEF Unknown, Sess, NoWindow
  <2> QED BY <2>1 DEF Init, NoSessions, ClaudeRuntime
<1>2. panel \in Layouts
  BY PanelTypes DEF Init, Layouts, SidType
<1>3. moving \in [Windows -> [Panels -> Moving]]
  BY MainAssumption DEF Init, NotMoving, Moving
<1>4. calls \in Calls /\ inbox \in [Windows -> Seq(Event)]
  BY EmptySeq DEF Init, Calls
<1>5. acts \in 0..MaxActs /\ faults \in 0..MaxFaults
  BY ActsAssumption DEF Init
<1> QED BY <1>1, <1>2, <1>3, <1>4, <1>5 DEF Init, TypeOK, Layouts, Calls

(* What users do, and the faults there are, is counted.                      *)
LEMMA BoundsType ==
  TypeOK /\ (Act \/ Fault \/ UNCHANGED bounds)
    => acts' \in 0..MaxActs /\ faults' \in 0..MaxFaults
BY ActsAssumption DEF TypeOK, Act, Fault, bounds

LEMMA HideType ==
  ASSUME TypeOK, NEW w \in Windows, NEW p \in Panels, Hide(w, p)
  PROVE  TypeOK'
<1> DEFINE q == calls[w]
           r == [i \in DOMAIN q |-> AwaitedBy(p, "view", "panel", q[i])]
<1>1. panel \in Layouts /\ calls \in Calls /\ q \in Seq(Call)
  BY DEF TypeOK, Layouts, Calls
<1>2. panel' \in Layouts
  <2>1. ViewIs(panel[w][p], "hidden") \in Panel
    BY <1>1, ViewIsType DEF Layouts
  <2> QED BY <1>1, <2>1, PanelSet DEF Hide
<1>3. calls' \in Calls
  <2>1. \A i \in DOMAIN q : r[i] \in Call
    <3>1. \A c \in Call : AwaitedBy(p, "view", "panel", c) \in Call
      BY AwaitedType
    <3>2. \A i \in DOMAIN q : q[i] \in Call
      BY <1>1
    <3> QED BY <3>1, <3>2
  <2>2. r \in Seq(Call)
    BY <1>1, <2>1, Mapped
  <2>3. calls' = [calls EXCEPT ![w] = r]
    BY DEF Hide
  <2> HIDE DEF r
  <2> QED BY <1>1, <2>2, <2>3 DEF Calls
<1>4. answers' \subseteq Answer
  <2>1. \A a \in answers : AwaitedBy(p, "view", "panel", a) \in Answer
    BY AwaitedType DEF TypeOK
  <2> QED BY <2>1 DEF Hide, TypeOK
<1>5. acts' \in 0..MaxActs /\ faults' \in 0..MaxFaults
  BY BoundsType DEF Hide, User
<1> QED BY <1>2, <1>3, <1>4, <1>5
        DEF Hide, TypeOK, Layouts, Calls, backend, transfers

LEMMA PanelActionsType ==
  ASSUME TypeOK, NEW w \in Windows, NEW p \in Panels,
         OpenPanel(p) \/ Show(w, p) \/ ClosePanel(w, p)
  PROVE  TypeOK'
<1>1. panel \in Layouts /\ calls \in Calls /\ answers \subseteq Answer
  BY DEF TypeOK, Layouts, Calls
<1>2. acts' \in 0..MaxActs /\ faults' \in 0..MaxFaults
  BY BoundsType DEF OpenPanel, Show, ClosePanel, User
<1>3. CASE OpenPanel(p)
  <2>1. panel' \in Layouts /\ calls' \in Calls
    BY <1>1, <1>3, MainAssumption, AddPanelType DEF OpenPanel, SidType
  <2> QED BY <1>2, <1>3, <2>1
          DEF OpenPanel, TypeOK, Layouts, Calls, backend, transfers
<1>4. CASE Show(w, p)
  <2>1. ViewIs(panel[w][p], "opening") \in Panel
    BY <1>1, ViewIsType DEF Layouts
  <2>2. panel' \in Layouts
    BY <1>1, <1>4, <2>1, PanelSet DEF Show
  <2>3. calls' \in Calls
    BY <1>1, <1>4, CallTypes, CallAppended DEF Show
  <2> QED BY <1>2, <1>4, <2>2, <2>3
          DEF Show, TypeOK, Layouts, Calls, backend, transfers
<1>5. CASE ClosePanel(w, p)
  <2>1. RemovePanel(w, p, TRUE, answers, <<>>)
    BY <1>5 DEF ClosePanel
  <2>2. panel' \in Layouts /\ calls' \in Calls /\ answers' \subseteq Answer
    BY <1>1, <2>1, EmptySeq, RemovePanelType
  <2> QED BY <1>2, <1>5, <2>2
          DEF ClosePanel, TypeOK, Layouts, Calls, backend, transfers
<1> QED BY <1>3, <1>4, <1>5

(* A finite set in some order is a sequence of its members.                  *)
LEMMA OrderedType ==
  ASSUME NEW S, IsFiniteSet(S)
  PROVE  SetToSeq(S) \in Seq(S)
<1> DEFINE n == Cardinality(S)
<1>1. n \in Nat /\ ExistsBijection(1..n, S)
  BY FS_CardinalityType
<1>2. \E f \in [1..n -> S] : IsInjective(f)
  BY <1>1 DEF ExistsBijection, Bijection, Injection
<1>3. SetToSeq(S) \in [1..n -> S]
  BY <1>2 DEF SetToSeq
<1> QED BY <1>1, <1>3

(* What a window that closes asks for.                                       *)
Releases(w) == {DetachCall(Holder(w, i), i, TRUE) : i \in Owned(w)}

LEMMA ReleasesType ==
  ASSUME TypeOK, NEW w \in Windows
  PROVE  /\ SetToSeq(Releases(w)) \in Seq(Call)
         /\ \A j \in DOMAIN SetToSeq(Releases(w)) :
              SetToSeq(Releases(w))[j].op = "detach"
<1> DEFINE S == Releases(w)
<1>1. panel \in Layouts
  BY DEF TypeOK, Layouts
<1>2. \A i \in Owned(w) : i \in Ptys /\ Holder(w, i) \in Panels
  BY <1>1 DEF Owned, Holder, Layouts, Panel
<1>3. \A i \in Owned(w) : /\ DetachCall(Holder(w, i), i, TRUE).id = i
                          /\ DetachCall(Holder(w, i), i, TRUE).op = "detach"
  BY DEF DetachCall, ACall
<1>4. S \subseteq {c \in Call : c.op = "detach"}
  BY <1>2, <1>3, CallTypes DEF Releases
<1>5. IsFiniteSet(S)
  <2> DEFINE f == [c \in S |-> c.id]
  <2>1. f \in Injection(S, Ptys)
    <3>1. f \in [S -> Ptys]
      BY <1>2, <1>3, ZenonT(40) DEF Releases
    <3>2. \A c \in S : c = DetachCall(Holder(w, c.id), c.id, TRUE)
      BY <1>3 DEF Releases
    <3>3. \A a, b \in S : a.id = b.id => a = b
      <4> HIDE DEF S
      <4> QED BY <3>2
    <3>4. IsInjective(f)
      <4> HIDE DEF S
      <4> QED BY <3>3 DEF IsInjective
    <3> QED BY <3>1, <3>4 DEF Injection
  <2>2. IsFiniteSet(Ptys)
    BY MaxPtyAssumption, FS_Interval DEF Ptys
  <2> QED BY <2>1, <2>2, FS_Injection
<1>6. SetToSeq(S) \in Seq(S)
  BY <1>5, OrderedType
<1>7. PICK q : q = SetToSeq(S)
  OBVIOUS
<1> HIDE DEF S
<1>8. q \in Seq(S) /\ \A j \in DOMAIN q : q[j] \in S
  BY <1>6, <1>7
<1>9. q \in Seq(Call)
  BY <1>4, <1>8
<1> QED BY <1>4, <1>7, <1>8, <1>9 DEF S

LEMMA CloseWindowType ==
  ASSUME TypeOK, NEW w \in Windows, CloseWindow(w)
  PROVE  TypeOK'
<1>1. calls \in Calls
  BY DEF TypeOK, Calls
<1>2. SetToSeq(Releases(w)) \in Seq(Call)
  BY ReleasesType
<1>3. calls' \in Calls
  <2>1. calls[w] \o SetToSeq(Releases(w)) \in Seq(Call)
    BY <1>1, <1>2, ConcatProperties DEF Calls
  <2>2. calls' = [calls EXCEPT ![w] = @ \o SetToSeq(Releases(w))]
    BY DEF CloseWindow, Releases
  <2> QED BY <1>1, <2>1, <2>2 DEF Calls
<1>4. acts' \in 0..MaxActs /\ faults' \in 0..MaxFaults
  BY BoundsType DEF CloseWindow, User
<1>5. closing' \subseteq up'
  BY DEF CloseWindow, User, TypeOK
<1> QED BY <1>3, <1>4, <1>5 DEF CloseWindow, TypeOK, Calls, backend, transfers

LEMMA DestroyType ==
  ASSUME TypeOK, NEW w \in Windows, Destroy(w)
  PROVE  TypeOK'
<1>1. acts' \in 0..MaxActs /\ faults' \in 0..MaxFaults
  BY BoundsType DEF Destroy
<1>2. panel' \in Layouts
  BY PanelTypes DEF Destroy, TypeOK, Layouts, SidType
<1>3. moving' \in [Windows -> [Panels -> Moving]]
  <2>1. NotMoving \in Moving
    BY MainAssumption DEF NotMoving, Moving
  <2> QED BY <2>1 DEF Destroy, TypeOK
<1>4. calls' \in Calls /\ inbox' \in [Windows -> Seq(Event)]
  BY EmptySeq DEF Destroy, TypeOK, Calls
<1>5. /\ up' \subseteq Windows /\ closing' \subseteq up' /\ kept' \subseteq Panels
      /\ answers' \subseteq Answer
  BY DEF Destroy, TypeOK
<1> QED BY <1>1, <1>2, <1>3, <1>4, <1>5
        DEF Destroy, TypeOK, Layouts, Calls, backend

LEMMA AskType ==
  ASSUME TypeOK, NEW w \in Windows, NEW p \in Panels, TakeOver(w, p) \/ Delete(w, p)
  PROVE  TypeOK'
<1>1. panel[w][p] \in Panel /\ calls \in Calls
  BY DEF TypeOK, Calls
<1>2. acts' \in 0..MaxActs /\ faults' \in 0..MaxFaults
  BY BoundsType DEF TakeOver, Delete, User
<1>3. CASE TakeOver(w, p)
  <2>1. panel[w][p].id \in Ptys
    BY <1>1, <1>3 DEF TakeOver, Panel
  <2>2. calls' \in Calls
    BY <1>1, <1>3, <2>1, CallTypes, CallAppended DEF TakeOver
  <2> QED BY <1>2, <1>3, <2>2 DEF TakeOver, TypeOK, Calls, backend, transfers
<1>4. CASE Delete(w, p)
  <2>1. panel[w][p].sid \in Ptys
    BY <1>1, <1>4 DEF Delete, Panel
  <2>2. calls' \in Calls
    BY <1>1, <1>4, <2>1, CallTypes, CallAppended DEF Delete
  <2> QED BY <1>2, <1>4, <2>2 DEF Delete, TypeOK, Calls, backend, transfers
<1> QED BY <1>3, <1>4

LEMMA UsersType == TypeOK /\ Users => TypeOK'
<1> SUFFICES ASSUME TypeOK, Users PROVE TypeOK'
  OBVIOUS
<1>1. CASE \E p \in Panels : OpenPanel(p)
  BY <1>1, MainAssumption, PanelActionsType
<1>2. CASE \E w \in Windows, p \in Panels :
             \/ Hide(w, p) \/ Show(w, p) \/ ClosePanel(w, p) \/ TakeOver(w, p)
             \/ Delete(w, p)
  BY <1>2, HideType, PanelActionsType, AskType
<1>3. CASE \E w \in Windows : CloseWindow(w) \/ Destroy(w)
  BY <1>3, CloseWindowType, DestroyType
<1> QED BY <1>1, <1>2, <1>3 DEF Users

-----------------------------------------------------------------------------
(* The commands and the threads.                                             *)

LEMMA SayType ==
  ASSUME inbox \in [Windows -> Seq(Event)]
  PROVE  /\ \A e \in Event : Say(e) => inbox' \in [Windows -> Seq(Event)]
         /\ \A i \in Ptys, s \in Sess :
              SayDriver(i, s) => inbox' \in [Windows -> Seq(Event)]
         /\ \A i \in Ptys : SayClosed(i) => inbox' \in [Windows -> Seq(Event)]
<1>1. ASSUME NEW e \in Event, Say(e) PROVE inbox' \in [Windows -> Seq(Event)]
  <2>1. \A w \in Windows : Append(inbox[w], e) \in Seq(Event)
    BY AppendProperties
  <2> QED BY <1>1, <2>1, EmptySeq DEF Say
<1>2. ASSUME NEW i \in Ptys, NEW s \in Sess, SayDriver(i, s)
      PROVE  inbox' \in [Windows -> Seq(Event)]
  <2>1. [kind |-> "driver", id |-> i, driver |-> s.driver, rev |-> s.rev] \in Event
    BY DEF Sess, Event
  <2> QED BY <1>1, <1>2, <2>1 DEF SayDriver
<1>3. ASSUME NEW i \in Ptys, SayClosed(i) PROVE inbox' \in [Windows -> Seq(Event)]
  <2>1. [kind |-> "closed", id |-> i, driver |-> NoWindow, rev |-> 0] \in Event
    BY DEF Event
  <2> QED BY <1>1, <1>3, <2>1 DEF SayClosed
<1> QED BY <1>1, <1>2, <1>3

LEMMA TellType ==
  ASSUME answers \subseteq Answer, NEW w \in Windows, NEW c \in Call,
         c.op \in {"open", "close"}, NEW i \in SidType, NEW s \in Sess,
         Tell(w, c, i, s)
  PROVE  answers' \subseteq Answer
<1>1. CASE c.by = "nobody"
  BY <1>1 DEF Tell
<1>2. CASE c.by # "nobody"
  <2> DEFINE a == [to |-> w, panel |-> c.panel, by |-> c.by, op |-> c.op,
                   id |-> i, driver |-> s.driver, rev |-> s.rev]
  <2>1. a \in Answer
    BY <1>2 DEF Answer, Call, Sess, SidType
  <2> QED BY <1>2, <2>1 DEF Tell
<1> QED BY <1>1, <1>2

LEMMA UnknownType == Unknown \in Sess /\ ~Unknown.known /\ Unknown.attached = <<>>
BY DEF Unknown, Sess

(* What the steps do to the table.                                           *)
LEMMA EntrySet ==
  ASSUME NEW t \in ClaudeRuntime, NEW i \in Ptys, NEW s \in Sess
  PROVE  /\ [t EXCEPT !.by_id[i] = s] \in ClaudeRuntime
         /\ [t EXCEPT !.by_id[i] = s].live = t.live
         /\ [t EXCEPT !.by_id[i] = s].by_id = [t.by_id EXCEPT ![i] = s]
BY DEF ClaudeRuntime

LEMMA CleanedFact ==
  ASSUME NEW t \in ClaudeRuntime
  PROVE  /\ Cleaned(t) \in ClaudeRuntime
         /\ Cleaned(t).live = NoPty
         /\ \A j \in Ptys : Cleaned(t).by_id[j]
                              = IF j = t.live THEN Unknown ELSE t.by_id[j]
BY UnknownType DEF Cleaned, ClaudeRuntime

LEMMA RemovedFact ==
  ASSUME NEW t \in ClaudeRuntime, NEW i \in Ptys
  PROVE  /\ Removed(t, i) \in ClaudeRuntime
         /\ Removed(t, i).live = IF t.by_id[i].known THEN NoPty ELSE t.live
         /\ ~Removed(t, i).by_id[i].known
         /\ \A j \in Ptys : j # i => Removed(t, i).by_id[j] = t.by_id[j]
BY UnknownType DEF Removed, ClaudeRuntime

LEMMA RegisteredFact ==
  ASSUME NEW t \in ClaudeRuntime, NEW i \in Ptys, NEW w \in Windows
  PROVE  /\ Registered(t, i, w) \in ClaudeRuntime
         /\ Registered(t, i, w).live = i
         /\ Registered(t, i, w).by_id[i].known
         /\ HasDriver(Registered(t, i, w).by_id[i])
         /\ \A j \in Ptys : j # i => Registered(t, i, w).by_id[j] = t.by_id[j]
<1> DEFINE s == [known |-> TRUE, attached |-> <<w>>, driver |-> w, rev |-> 0]
<1>1. s \in Sess /\ s.known
  BY DEF Sess
<1>2. HasDriver(s)
  BY DEF HasDriver, Views, ToSet
<1>3. Registered(t, i, w) = [live |-> i, by_id |-> [t.by_id EXCEPT ![i] = s]]
  BY DEF Registered
<1> HIDE DEF s
<1> QED BY <1>1, <1>2, <1>3 DEF ClaudeRuntime

PtyFates == {"none", "running", "dead", "closed", "deleted"}

(* The variables a command may change, with their types.                     *)
CommandOK ==
  /\ rt \in ClaudeRuntime /\ pty \in [Ptys -> PtyFates]
  /\ stop \subseteq Ptys /\ polls \subseteq Ptys
  /\ calls \in Calls /\ answers \subseteq Answer
  /\ inbox \in [Windows -> Seq(Event)]

LEMMA CommandType ==
  ASSUME TypeOK, CommandOK', acts' \in 0..MaxActs /\ faults' \in 0..MaxFaults,
         UNCHANGED <<up, closing, panel, transfers, kept>>
  PROVE  TypeOK'
BY DEF CommandOK, TypeOK, Calls, PtyFates, transfers

LEMMA AttachType ==
  ASSUME TypeOK, NEW w \in Windows, Attach(w)
  PROVE  TypeOK'
<1> DEFINE i == rt.live
           old == rt.by_id[i]
           new == AttachedBy(old, w)
<1>1. CommandOK
  BY DEF TypeOK, CommandOK, Calls, PtyFates
<1>2. i \in Ptys /\ old \in Sess
  BY <1>1 DEF Attach, Alive, CommandOK, ClaudeRuntime
<1>3. new \in Sess
  BY <1>2, AttachedFact
<1> HIDE DEF old, new
<1>4. rt' \in ClaudeRuntime
  <2>1. rt' = [rt EXCEPT !.by_id[i] = new]
    BY DEF Attach, old, new
  <2> QED BY <1>1, <1>2, <1>3, <2>1, EntrySet DEF CommandOK
<1>5. inbox' \in [Windows -> Seq(Event)]
  <2>1. SayDriver(i, new) \/ UNCHANGED inbox
    BY DEF Attach, old, new
  <2> QED BY <1>1, <1>2, <1>3, <2>1, SayType DEF CommandOK
<1>6. /\ calls' \in Calls /\ Head(calls[w]) \in Call
      /\ Head(calls[w]).op = "open"
  BY <1>1, CallRan DEF Attach, CommandOK
<1>7. answers' \subseteq Answer
  <2>1. Tell(w, Head(calls[w]), i, new)
    BY DEF Attach, old, new
  <2> QED BY <1>1, <1>2, <1>3, <1>6, <2>1, TellType DEF CommandOK, SidType
<1>8. CommandOK'
  BY <1>1, <1>4, <1>5, <1>6, <1>7 DEF Attach, CommandOK
<1>9. acts' \in 0..MaxActs /\ faults' \in 0..MaxFaults
  BY BoundsType DEF Attach
<1> QED BY <1>8, <1>9, CommandType DEF Attach

LEMMA StoppedType ==
  ASSUME rt \in ClaudeRuntime
  PROVE  Stopped(rt.live) \subseteq Ptys
BY DEF Stopped, ClaudeRuntime

LEMMA SpawnType ==
  ASSUME TypeOK, NEW w \in Windows, Spawn(w)
  PROVE  TypeOK'
<1>1. CommandOK
  BY DEF TypeOK, CommandOK, Calls, PtyFates
<1>2. PICK i \in Ptys :
        /\ rt' = Registered(Cleaned(rt), i, w)
        /\ pty' = [pty EXCEPT ![i] = "running"] /\ polls' = polls \cup {i}
        /\ Tell(w, Head(calls[w]), i, rt'.by_id[i])
  BY DEF Spawn, Fresh
<1>3. rt' \in ClaudeRuntime
  BY <1>1, <1>2, CleanedFact, RegisteredFact DEF CommandOK
<1>4. /\ calls' \in Calls /\ Head(calls[w]) \in Call
      /\ Head(calls[w]).op = "open"
  BY <1>1, CallRan DEF Spawn, CommandOK
<1>5. answers' \subseteq Answer
  <2>1. rt'.by_id[i] \in Sess
    BY <1>3 DEF ClaudeRuntime
  <2> QED BY <1>1, <1>2, <1>4, <2>1, TellType DEF CommandOK, SidType
<1>6. CommandOK'
  BY <1>1, <1>2, <1>3, <1>4, <1>5, StoppedType DEF Spawn, CommandOK, PtyFates
<1>7. acts' \in 0..MaxActs /\ faults' \in 0..MaxFaults
  BY BoundsType DEF Spawn
<1> QED BY <1>6, <1>7, CommandType DEF Spawn

LEMMA SpawnFailsType ==
  ASSUME TypeOK, NEW w \in Windows, SpawnFails(w)
  PROVE  TypeOK'
<1>1. CommandOK
  BY DEF TypeOK, CommandOK, Calls, PtyFates
<1>2. rt' \in ClaudeRuntime
  BY <1>1, CleanedFact DEF SpawnFails, CommandOK
<1>3. /\ calls' \in Calls /\ Head(calls[w]) \in Call
      /\ Head(calls[w]).op = "open"
  BY <1>1, CallRan DEF SpawnFails, CommandOK
<1>4. answers' \subseteq Answer
  BY <1>1, <1>3, UnknownType, TellType DEF SpawnFails, CommandOK, SidType
<1>5. CommandOK'
  BY <1>1, <1>2, <1>3, <1>4, StoppedType DEF SpawnFails, CommandOK
<1>6. acts' \in 0..MaxActs /\ faults' \in 0..MaxFaults
  BY BoundsType DEF SpawnFails
<1> QED BY <1>5, <1>6, CommandType DEF SpawnFails

LEMMA DetachType ==
  ASSUME TypeOK, NEW w \in Windows, Detach(w)
  PROVE  TypeOK'
<1> DEFINE c == Head(calls[w])
           old == rt.by_id[c.id]
           new == Left(old, w)
<1>1. CommandOK
  BY DEF TypeOK, CommandOK, Calls, PtyFates
<1>2. calls' \in Calls /\ c \in Call /\ c.op = "detach"
  BY <1>1, CallRan DEF Detach, CommandOK
<1>3. c.id \in Ptys
  BY <1>2 DEF Call
<1>4. old \in Sess /\ new \in Sess
  BY <1>1, <1>3, LeftFact DEF CommandOK, ClaudeRuntime
<1> HIDE DEF c, old, new
<1>5. /\ rt' \in {rt, Removed(rt, c.id), [rt EXCEPT !.by_id[c.id] = new]}
      /\ pty' \in {pty, [pty EXCEPT ![c.id] = "closed"]}
      /\ stop' \in {stop, stop \cup {c.id}}
      /\ SayDriver(c.id, new) \/ UNCHANGED inbox
  BY DEF Detach, c, old, new
<1>6. rt' \in ClaudeRuntime
  BY <1>1, <1>3, <1>4, <1>5, RemovedFact, EntrySet DEF CommandOK
<1>7. inbox' \in [Windows -> Seq(Event)]
  BY <1>1, <1>3, <1>4, <1>5, SayType DEF CommandOK
<1>8. pty' \in [Ptys -> PtyFates] /\ stop' \subseteq Ptys
  BY <1>1, <1>3, <1>5 DEF CommandOK, PtyFates
<1>9. CommandOK'
  BY <1>1, <1>2, <1>6, <1>7, <1>8 DEF Detach, CommandOK
<1>10. acts' \in 0..MaxActs /\ faults' \in 0..MaxFaults
  BY BoundsType DEF Detach
<1> QED BY <1>9, <1>10, CommandType DEF Detach

LEMMA SetDriverType ==
  ASSUME TypeOK, NEW w \in Windows, SetDriver(w)
  PROVE  TypeOK'
<1> DEFINE i == Head(calls[w]).id
           new == TakenOver(rt.by_id[i], w)
<1>1. CommandOK
  BY DEF TypeOK, CommandOK, Calls, PtyFates
<1>2. calls' \in Calls /\ Head(calls[w]) \in Call /\ Head(calls[w]).op = "take"
  BY <1>1, CallRan DEF SetDriver, CommandOK
<1>3. i \in Ptys
  BY <1>2 DEF Call
<1>4. new \in Sess
  BY <1>1, <1>3, TakenOverFact DEF CommandOK, ClaudeRuntime
<1> HIDE DEF i, new
<1>5. /\ rt' = rt \/ rt' = [rt EXCEPT !.by_id[i] = new]
      /\ SayDriver(i, new) \/ UNCHANGED inbox
  BY DEF SetDriver, i, new
<1>6. rt' \in ClaudeRuntime /\ inbox' \in [Windows -> Seq(Event)]
  BY <1>1, <1>3, <1>4, <1>5, EntrySet, SayType DEF CommandOK
<1>7. CommandOK'
  BY <1>1, <1>2, <1>6 DEF SetDriver, CommandOK
<1>8. acts' \in 0..MaxActs /\ faults' \in 0..MaxFaults
  BY BoundsType DEF SetDriver
<1> QED BY <1>7, <1>8, CommandType DEF SetDriver

LEMMA CloseType ==
  ASSUME TypeOK, NEW w \in Windows, Close(w)
  PROVE  TypeOK'
<1> DEFINE c == Head(calls[w])
<1>1. CommandOK
  BY DEF TypeOK, CommandOK, Calls, PtyFates
<1>2. calls' \in Calls /\ c \in Call /\ c.op = "close"
  BY <1>1, CallRan DEF Close, CommandOK
<1>3. c.id \in Ptys
  BY <1>2 DEF Call
<1> HIDE DEF c
<1>4. /\ rt' = Removed(rt, c.id) /\ pty' = [pty EXCEPT ![c.id] = "deleted"]
      /\ stop' \in {stop, stop \cup {c.id}}
      /\ SayClosed(c.id) /\ Tell(w, c, c.id, Unknown)
  BY DEF Close, c
<1>5. rt' \in ClaudeRuntime /\ inbox' \in [Windows -> Seq(Event)]
  BY <1>1, <1>3, <1>4, RemovedFact, SayType DEF CommandOK
<1>6. answers' \subseteq Answer
  BY <1>1, <1>2, <1>3, <1>4, UnknownType, TellType DEF CommandOK, SidType
<1>7. pty' \in [Ptys -> PtyFates] /\ stop' \subseteq Ptys
  BY <1>1, <1>3, <1>4 DEF CommandOK, PtyFates
<1>8. CommandOK'
  BY <1>1, <1>2, <1>5, <1>6, <1>7 DEF Close, CommandOK
<1>9. acts' \in 0..MaxActs /\ faults' \in 0..MaxFaults
  BY BoundsType DEF Close
<1> QED BY <1>8, <1>9, CommandType DEF Close

LEMMA EmitType ==
  ASSUME TypeOK, NEW w \in Windows, Emit(w)
  PROVE  TypeOK'
<1> DEFINE c == Head(calls[w])
           m == [kind |-> "panel", from |-> w, to |-> c.to, panel |-> c.panel,
                 sid |-> c.id, awaited |-> c.by = "view"]
<1>1. calls \in Calls
  BY DEF TypeOK, Calls
<1>2. calls' \in Calls /\ c \in Call
  BY <1>1, CallRan DEF Emit
<1>3. m \in Mail
  BY <1>2 DEF Call, Mail
<1>4. mail' \subseteq Mail
  <2>1. mail' = mail \cup {m}
    BY DEF Emit
  <2> QED BY <1>3, <2>1 DEF TypeOK
<1>5. acts' \in 0..MaxActs /\ faults' \in 0..MaxFaults
  BY BoundsType DEF Emit
<1> QED BY <1>2, <1>4, <1>5 DEF Emit, TypeOK, Calls, backend

LEMMA ThreadsType ==
  ASSUME TypeOK, NEW i \in Ptys, Exit(i) \/ PollEnds(i)
  PROVE  TypeOK'
<1>1. CommandOK
  BY DEF TypeOK, CommandOK, Calls, PtyFates
<1>2. acts' \in 0..MaxActs /\ faults' \in 0..MaxFaults
  BY BoundsType DEF Exit, PollEnds
<1>3. CASE Exit(i)
  <2>1. CommandOK'
    BY <1>1, <1>3 DEF Exit, CommandOK, PtyFates
  <2> QED BY <1>2, <1>3, <2>1, CommandType DEF Exit
<1>4. CASE PollEnds(i)
  <2>1. rt' \in ClaudeRuntime
    BY <1>1, <1>4, RemovedFact DEF PollEnds, CommandOK
  <2>2. inbox' \in [Windows -> Seq(Event)]
    BY <1>1, <1>4, SayType DEF PollEnds, CommandOK
  <2>3. CommandOK'
    BY <1>1, <1>4, <2>1, <2>2 DEF PollEnds, CommandOK
  <2> QED BY <1>2, <1>4, <2>3, CommandType DEF PollEnds
<1> QED BY <1>3, <1>4

LEMMA BackendStepsType == TypeOK /\ (MainThread \/ Threads) => TypeOK'
BY AttachType, SpawnType, SpawnFailsType, DetachType, SetDriverType, CloseType,
   EmitType, ThreadsType DEF MainThread, Threads

-----------------------------------------------------------------------------
(* The windows and their transfers.                                          *)

LEMMA OpenedType ==
  ASSUME NEW q \in Panel, NEW a \in Answer, a.id # NoPty
  PROVE  Opened(q, a) \in Panel
<1>1. CASE a.by = "view"
  BY <1>1 DEF Opened, Panel, Answer, ViewStates
<1>2. CASE a.by # "view"
  BY <1>2 DEF Opened, Panel, Answer, ViewStates
<1> QED BY <1>1, <1>2

LEMMA HeardType ==
  ASSUME NEW q \in Panel, NEW w \in Windows, NEW e \in Event
  PROVE  Heard(q, w, e) \in Panel
<1>1. ViewIs(q, "ended") \in Panel
  BY ViewIsType
<1>2. [q EXCEPT !.rev = e.rev, !.drives = e.driver = w] \in Panel
  BY DEF Panel, Event
<1> QED BY <1>1, <1>2 DEF Heard

LEMMA WebviewsType == TypeOK /\ Webviews => TypeOK'
<1> SUFFICES ASSUME TypeOK, Webviews PROVE TypeOK'
  OBVIOUS
<1>1. panel \in Layouts /\ calls \in Calls
  BY DEF TypeOK, Layouts, Calls
<1>2. ASSUME NEW a \in answers, OpenAnswered(a) PROVE TypeOK'
  <2> DEFINE q == panel[a.to][a.panel]
             r == IF a.id = NoPty THEN NotOpened(q, a) ELSE Opened(q, a)
  <2>1. a \in Answer /\ a.to \in Windows /\ a.panel \in Panels
    BY <1>2 DEF TypeOK, Answer
  <2>2. q \in Panel
    BY <1>1, <2>1 DEF Layouts
  <2>3. r \in Panel
    BY <2>1, <2>2, OpenedType, ViewIsType DEF NotOpened
  <2>4. panel' \in Layouts
    <3>1. panel' = [panel EXCEPT ![a.to][a.panel] = r]
      BY <1>2 DEF OpenAnswered
    <3> HIDE DEF r
    <3> QED BY <1>1, <2>1, <2>3, <3>1, PanelSet
  <2>5. acts' \in 0..MaxActs /\ faults' \in 0..MaxFaults
    BY <1>2, BoundsType DEF OpenAnswered
  <2> QED BY <1>2, <2>4, <2>5
          DEF OpenAnswered, TypeOK, Layouts, backend, transfers
<1>3. ASSUME NEW a \in answers, DeleteAnswered(a) PROVE TypeOK'
  <2>1. a \in Answer /\ a.to \in Windows /\ a.panel \in Panels
    BY <1>3 DEF TypeOK, Answer
  <2>2. panel' \in Layouts /\ calls' \in Calls /\ answers' \subseteq Answer
    <3>1. CASE UNCHANGED <<panel, calls>> /\ answers' = answers \ {a}
      BY <1>1, <3>1 DEF TypeOK, Layouts, Calls
    <3>2. CASE RemovePanel(a.to, a.panel, TRUE, answers \ {a}, <<>>)
      <4>1. answers \ {a} \subseteq Answer /\ <<>> \in Seq(Call)
        BY EmptySeq DEF TypeOK
      <4> QED BY <1>1, <2>1, <3>2, <4>1, RemovePanelType
    <3> QED BY <1>3, <3>1, <3>2 DEF DeleteAnswered
  <2>3. acts' \in 0..MaxActs /\ faults' \in 0..MaxFaults
    BY <1>3, BoundsType DEF DeleteAnswered
  <2>4. kept' \subseteq Panels
    BY <1>3 DEF DeleteAnswered, TypeOK
  <2> QED BY <1>3, <2>2, <2>3, <2>4
          DEF DeleteAnswered, TypeOK, Layouts, Calls, backend, transfers
<1>4. ASSUME NEW w \in Windows, Hear(w) PROVE TypeOK'
  <2>1. inbox[w] \in Seq(Event) /\ inbox[w] # <<>>
    BY <1>4 DEF Hear, TypeOK
  <2>2. Head(inbox[w]) \in Event /\ Tail(inbox[w]) \in Seq(Event)
    BY <2>1, HeadTailProperties
  <2>3. panel' \in Layouts
    <3>1. \A p \in Panels : Heard(panel[w][p], w, Head(inbox[w])) \in Panel
      BY <1>1, <2>2, HeardType DEF Layouts
    <3> QED BY <1>1, <1>4, <3>1 DEF Hear, Layouts
  <2>4. inbox' \in [Windows -> Seq(Event)]
    BY <1>4, <2>2 DEF Hear, TypeOK
  <2>5. acts' \in 0..MaxActs /\ faults' \in 0..MaxFaults
    BY <1>4, BoundsType DEF Hear
  <2> QED BY <1>4, <2>3, <2>4, <2>5 DEF Hear, TypeOK, Layouts, backend, transfers
<1> QED BY <1>2, <1>3, <1>4 DEF Webviews

(* A transfer is begun, sent or given up, and its panel comes back.          *)
Moves == [Windows -> [Panels -> Moving]]

LEMMA MovingSetType ==
  ASSUME moving \in Moves, NEW w \in Windows, NEW p \in Panels, NEW m \in Moving
  PROVE  [moving EXCEPT ![w][p] = m] \in Moves
BY DEF Moves

LEMMA SettleType ==
  ASSUME moving \in Moves, NEW w \in Windows, NEW p \in Panels, Settle(w, p)
  PROVE  moving' \in Moves
<1>1. NotMoving \in Moving
  BY MainAssumption DEF NotMoving, Moving
<1> QED BY <1>1, MovingSetType DEF Settle

LEMMA MoveStartType ==
  ASSUME TypeOK, NEW w \in Windows, NEW p \in Panels, NEW v \in Windows,
         MoveStart(w, p, v)
  PROVE  TypeOK'
<1> DEFINE m == [stage |-> "ready", to |-> v, sid |-> panel[w][p].sid]
<1>1. m \in Moving
  BY DEF TypeOK, Panel, Moving
<1>2. moving' \in Moves
  <2>1. moving' = [moving EXCEPT ![w][p] = m]
    BY DEF MoveStart
  <2> HIDE DEF m
  <2> QED BY <1>1, <2>1, MovingSetType DEF TypeOK, Moves
<1>3. acts' \in 0..MaxActs /\ faults' \in 0..MaxFaults
  BY BoundsType DEF MoveStart, User
<1> QED BY <1>2, <1>3 DEF MoveStart, TypeOK, Moves, backend

LEMMA HandOffType ==
  ASSUME TypeOK, NEW w \in Windows, NEW p \in Panels, HandOff(w, p)
  PROVE  TypeOK'
<1> DEFINE e == <<EmitCall(p, moving[w][p])>>
<1>1. panel \in Layouts /\ calls \in Calls /\ moving \in Moves
      /\ answers \subseteq Answer
  BY DEF TypeOK, Layouts, Calls, Moves
<1>2. moving[w][p] \in Moving
  BY <1>1 DEF Moves
<1>3. e \in Seq(Call)
  BY <1>2, EmitCallType
<1>4. moving' \in Moves
  <2> DEFINE m == [moving[w][p] EXCEPT !.stage = "sent"]
  <2>1. m \in Moving
    BY <1>2 DEF Moving
  <2>2. moving' = [moving EXCEPT ![w][p] = m]
    BY DEF HandOff
  <2> HIDE DEF m
  <2> QED BY <1>1, <2>1, <2>2, MovingSetType
<1> HIDE DEF e
<1>5. panel' \in Layouts /\ calls' \in Calls /\ answers' \subseteq Answer
  <2>1. CASE RemovePanel(w, p, FALSE, answers, e)
    BY <1>1, <1>3, <2>1, RemovePanelType
  <2>2. CASE calls' = [calls EXCEPT ![w] = @ \o e] /\ UNCHANGED <<panel, answers>>
    <3>1. calls[w] \o e \in Seq(Call)
      BY <1>1, <1>3, ConcatProperties DEF Calls
    <3> QED BY <1>1, <2>2, <3>1 DEF Calls
  <2> QED BY <2>1, <2>2 DEF HandOff, e
<1>6. acts' \in 0..MaxActs /\ faults' \in 0..MaxFaults
  BY BoundsType DEF HandOff
<1>7. kept' \subseteq Panels
  BY DEF HandOff, TypeOK
<1> QED BY <1>4, <1>5, <1>6, <1>7
        DEF HandOff, TypeOK, Layouts, Calls, Moves, backend

LEMMA MoveAbortedType ==
  ASSUME TypeOK, NEW w \in Windows, NEW p \in Panels, MoveAborted(w, p)
  PROVE  TypeOK'
<1>1. moving' \in Moves
  BY SettleType DEF MoveAborted, TypeOK, Moves
<1>2. acts' \in 0..MaxActs /\ faults' \in 0..MaxFaults
  BY BoundsType DEF MoveAborted
<1> QED BY <1>1, <1>2 DEF MoveAborted, TypeOK, Moves, backend

LEMMA UnawaitedType ==
  ASSUME mail \subseteq Mail, NEW w, NEW p
  PROVE  Unawaited(w, p) \subseteq Mail
BY DEF Unawaited, Mail

LEMMA AckTimeoutType ==
  ASSUME TypeOK, NEW w \in Windows, NEW p \in Panels, AckTimeout(w, p)
  PROVE  TypeOK'
<1> DEFINE q == calls[w]
           r == [i \in DOMAIN q |-> NoOneWaits(p, q[i])]
           given == [calls EXCEPT ![w] = r]
           sid == moving[w][p].sid
<1>1. panel \in Layouts /\ calls \in Calls /\ moving \in Moves /\ q \in Seq(Call)
  BY DEF TypeOK, Layouts, Calls, Moves
<1>2. given \in Calls
  <2>1. \A i \in DOMAIN q : r[i] \in Call
    BY <1>1, NoOneWaitsType
  <2>2. r \in Seq(Call)
    BY <1>1, <2>1, Mapped
  <2> HIDE DEF r
  <2> QED BY <1>1, <2>2 DEF Calls
<1>3. Added(sid) \in Panel
  BY <1>1, PanelTypes DEF Moves, Moving, SidType
<1>4. \/ calls' = given /\ UNCHANGED panel
      \/ /\ panel' = [panel EXCEPT ![w][p] = Added(sid)]
         /\ calls' = [given EXCEPT ![w] = Append(@, OpenCall(p))]
  BY DEF AckTimeout
<1> HIDE DEF given, sid
<1>5. panel' \in Layouts /\ calls' \in Calls
  BY <1>1, <1>2, <1>3, <1>4, PanelSet, CallTypes, CallAppended
<1>6. moving' \in Moves
  BY <1>1, SettleType DEF AckTimeout
<1>7. mail' \subseteq Mail
  BY UnawaitedType DEF AckTimeout, TypeOK
<1>8. acts' \in 0..MaxActs /\ faults' \in 0..MaxFaults
  BY BoundsType DEF AckTimeout
<1> QED BY <1>5, <1>6, <1>7, <1>8
        DEF AckTimeout, TypeOK, Layouts, Calls, Moves, backend

LEMMA ReplyType ==
  ASSUME mail \subseteq Mail, NEW m \in mail, NEW kind \in {"taken", "refused"},
         Reply(m, kind)
  PROVE  mail' \subseteq Mail
<1> DEFINE r == [m EXCEPT !.kind = kind, !.from = m.to, !.to = m.from]
<1>1. r \in Mail
  BY DEF Mail
<1> QED BY <1>1 DEF Reply

LEMMA DeliveryType ==
  ASSUME TypeOK, NEW m \in mail, Take(m) \/ Refuse(m) \/ Result(m) \/ Undelivered(m)
  PROVE  TypeOK'
<1>1. panel \in Layouts /\ calls \in Calls /\ moving \in Moves
  BY DEF TypeOK, Layouts, Calls, Moves
<1>2. m \in Mail /\ m.to \in Windows /\ m.panel \in Panels /\ m.sid \in SidType
  BY DEF TypeOK, Mail, SidType
<1>3. panel' \in Layouts /\ calls' \in Calls
  <2>1. CASE UNCHANGED <<panel, calls>>
    BY <1>1, <2>1 DEF Layouts, Calls
  <2>2. CASE AddPanel(m.to, m.panel, m.sid)
    BY <1>1, <1>2, <2>2, AddPanelType
  <2>3. CASE AddPanel(m.to, m.panel, moving[m.to][m.panel].sid)
    <3>1. moving[m.to][m.panel].sid \in SidType
      BY <1>1, <1>2 DEF Moves, Moving, SidType
    <3> QED BY <1>1, <1>2, <2>3, <3>1, AddPanelType
  <2> QED BY <2>1, <2>2, <2>3 DEF Take, Refuse, Result, Reinsert, Undelivered
<1>4. moving' \in Moves
  BY <1>1, <1>2, SettleType DEF Take, Refuse, Result, Undelivered, Moves
<1>5. mail' \subseteq Mail
  BY ReplyType DEF Take, Refuse, Result, Undelivered, TypeOK
<1>6. acts' \in 0..MaxActs /\ faults' \in 0..MaxFaults
  BY BoundsType DEF Take, Refuse, Result, Undelivered
<1>7. UNCHANGED <<backend, up, closing, answers, inbox, kept>>
  BY DEF Take, Refuse, Result, Undelivered
<1> QED BY <1>3, <1>4, <1>5, <1>6, <1>7
        DEF TypeOK, Layouts, Calls, Moves, backend

LEMMA TransfersType == TypeOK /\ Transfers => TypeOK'
BY MoveStartType, HandOffType, MoveAbortedType, AckTimeoutType, DeliveryType
   DEF Transfers

LEMMA NextType == TypeOK /\ [Next]_vars => TypeOK'
<1>1. TypeOK /\ UNCHANGED vars => TypeOK'
  BY DEF TypeOK, vars
<1> QED BY <1>1, UsersType, BackendStepsType, WebviewsType, TransfersType DEF Next

(* Every variable keeps its type: the table and the PTYs, the panels of the  *)
(* windows, and whatever is on its way between them.                         *)
THEOREM SessionsTypeCorrect == Spec => []TypeOK
BY InitType, NextType, PTL DEF Spec

-----------------------------------------------------------------------------
(* The table of the sessions.  Two facts make OneLivePty and KnownIsPolled   *)
(* inductive: both maps name the same PTY, and a PTY that never ran is in    *)
(* neither and was not told to stop.                                         *)

KnownIsLive == \A i \in Ptys : rt.by_id[i].known => rt.live = i
UnstartedIsUnknown ==
  \A i \in Ptys : pty[i] = "none" => i \notin stop /\ rt.live # i
HaveDrivers == \A i \in Ptys : HasDriver(rt.by_id[i])

TableInv ==
  /\ OneLivePty /\ KnownIsPolled
  /\ KnownIsLive /\ UnstartedIsUnknown
  /\ HaveDrivers

LEMMA InitTable == Init => TableInv
<1> SUFFICES ASSUME Init PROVE TableInv
  OBVIOUS
<1>1. \A i \in Ptys : rt.by_id[i] = Unknown
  BY DEF Init, NoSessions
<1>2. \A i \in Ptys : rt.live # i /\ pty[i] = "none" /\ i \notin stop
  BY PtysType DEF Init, NoSessions
<1> QED BY <1>1, <1>2, UnknownType
        DEF TableInv, OneLivePty, KnownIsPolled, KnownIsLive, UnstartedIsUnknown,
            HaveDrivers, HasDriver

(* A step that leaves the backend alone.                                     *)
LEMMA BackendKept ==
  ASSUME TableInv, UNCHANGED backend
  PROVE  TableInv'
BY DEF TableInv, OneLivePty, KnownIsPolled, KnownIsLive, UnstartedIsUnknown,
       HaveDrivers, backend

(* A step that changes an entry, and not whether it is known.                *)
LEMMA EntryKept ==
  ASSUME TypeOK, TableInv, NEW i \in Ptys, NEW s \in Sess,
         s.known = rt.by_id[i].known, HasDriver(s),
         rt' = [rt EXCEPT !.by_id[i] = s], UNCHANGED <<pty, stop, polls>>
  PROVE  TableInv'
<1>1. /\ rt'.live = rt.live
      /\ \A j \in Ptys : rt'.by_id[j] = IF j = i THEN s ELSE rt.by_id[j]
  BY EntrySet DEF TypeOK, ClaudeRuntime
<1>2. \A j \in Ptys : rt'.by_id[j].known = rt.by_id[j].known
  BY <1>1
<1>3. HaveDrivers'
  BY <1>1 DEF TableInv, HaveDrivers
<1> QED BY <1>1, <1>2, <1>3
        DEF TableInv, OneLivePty, KnownIsPolled, KnownIsLive, UnstartedIsUnknown

(* A step that takes an entry away, if there is one, and ends its PTY.       *)
LEMMA EntryRemoved ==
  ASSUME TypeOK, TableInv, NEW i \in Ptys,
         rt' = Removed(rt, i), UNCHANGED polls,
         NEW fate \in {"closed", "deleted"}, pty' = [pty EXCEPT ![i] = fate],
         stop' \in {stop, stop \cup {i}}
  PROVE  TableInv'
<1>1. /\ rt'.live = IF rt.by_id[i].known THEN NoPty ELSE rt.live
      /\ ~rt'.by_id[i].known
      /\ \A j \in Ptys : j # i => rt'.by_id[j] = rt.by_id[j]
  BY RemovedFact DEF TypeOK
<1>2. \A j \in Ptys : pty'[j] = IF j = i THEN fate ELSE pty[j]
  BY DEF TypeOK
<1>3. rt.by_id[i].known => \A j \in Ptys : rt.by_id[j].known => j = i
  BY DEF TableInv, KnownIsLive
<1>4. OneLivePty'
  BY <1>1, <1>2, <1>3 DEF TableInv, OneLivePty
<1>5. KnownIsPolled'
  BY <1>1, <1>3 DEF TableInv, KnownIsPolled
<1>6. KnownIsLive'
  BY <1>1, <1>3 DEF TableInv, KnownIsLive
<1>7. UnstartedIsUnknown'
  BY <1>1, <1>2, PtysType DEF TableInv, UnstartedIsUnknown
<1>8. HaveDrivers'
  <2>1. HasDriver(rt'.by_id[i])
    <3>1. CASE rt.by_id[i].known
      <4>1. rt'.by_id[i] = Unknown
        BY <3>1 DEF Removed, TypeOK, ClaudeRuntime
      <4> QED BY <4>1, UnknownType DEF HasDriver
    <3>2. CASE ~rt.by_id[i].known
      BY <3>2 DEF Removed, TableInv, HaveDrivers
    <3> QED BY <3>1, <3>2
  <2> QED BY <1>1, <2>1 DEF TableInv, HaveDrivers
<1> QED BY <1>4, <1>5, <1>6, <1>7, <1>8 DEF TableInv

LEMMA AttachTable ==
  ASSUME TypeOK, TableInv, NEW w \in Windows, Attach(w)
  PROVE  TableInv'
<1> DEFINE i == rt.live
           new == AttachedBy(rt.by_id[i], w)
<1>1. i \in Ptys /\ rt.by_id[i] \in Sess
  BY DEF Attach, Alive, TypeOK, ClaudeRuntime
<1>2. new \in Sess /\ new.known = rt.by_id[i].known /\ HasDriver(new)
  BY <1>1, AttachedFact
<1>3. rt' = [rt EXCEPT !.by_id[i] = new] /\ UNCHANGED <<pty, stop, polls>>
  BY DEF Attach
<1> HIDE DEF new
<1> QED BY <1>1, <1>2, <1>3, EntryKept

(* An open finds no live PTY: whatever entry there was is cleaned, and the   *)
(* table knows none.                                                         *)
LEMMA CleanedKnowsNone ==
  ASSUME TypeOK, TableInv, ~Alive(rt.live)
  PROVE  /\ \A j \in Ptys : ~Cleaned(rt).by_id[j].known /\ pty[j] # "running"
         /\ \A j \in Ptys : HasDriver(Cleaned(rt).by_id[j])
<1>1. \A j \in Ptys : Cleaned(rt).by_id[j]
                        = IF j = rt.live THEN Unknown ELSE rt.by_id[j]
  BY CleanedFact DEF TypeOK
<1>2. \A j \in Ptys : ~Cleaned(rt).by_id[j].known
  BY <1>1, UnknownType DEF TableInv, KnownIsLive
<1>3. \A j \in Ptys : pty[j] # "running"
  BY PtysType DEF Alive, TableInv, OneLivePty
<1>4. \A j \in Ptys : HasDriver(Cleaned(rt).by_id[j])
  BY <1>1, UnknownType DEF TableInv, HaveDrivers, HasDriver
<1> QED BY <1>2, <1>3, <1>4

LEMMA SpawnTable ==
  ASSUME TypeOK, TableInv, NEW w \in Windows, Spawn(w)
  PROVE  TableInv'
<1>1. PICK i \in Fresh :
        /\ rt' = Registered(Cleaned(rt), i, w)
        /\ pty' = [pty EXCEPT ![i] = "running"] /\ polls' = polls \cup {i}
  BY DEF Spawn
<1>2. i \in Ptys /\ pty[i] = "none" /\ i \notin stop /\ rt.live # i
  BY DEF Fresh, TableInv, UnstartedIsUnknown
<1>3. /\ \A j \in Ptys : ~Cleaned(rt).by_id[j].known /\ pty[j] # "running"
      /\ \A j \in Ptys : HasDriver(Cleaned(rt).by_id[j])
  BY CleanedKnowsNone DEF Spawn
<1>4. /\ rt'.live = i /\ rt'.by_id[i].known /\ HasDriver(rt'.by_id[i])
      /\ \A j \in Ptys : j # i => rt'.by_id[j] = Cleaned(rt).by_id[j]
  BY <1>1, <1>2, CleanedFact, RegisteredFact DEF TypeOK
<1>5. \A j \in Ptys : pty'[j] = IF j = i THEN "running" ELSE pty[j]
  BY <1>1 DEF TypeOK
<1>6. stop' = stop \cup {rt.live} \/ stop' = stop
  BY DEF Spawn, Stopped, TypeOK, ClaudeRuntime
<1>7. OneLivePty'
  BY <1>3, <1>4, <1>5 DEF OneLivePty
<1>8. KnownIsPolled'
  BY <1>1, <1>2, <1>3, <1>4, <1>6 DEF KnownIsPolled
<1>9. KnownIsLive'
  BY <1>3, <1>4 DEF KnownIsLive
<1>10. UnstartedIsUnknown'
  BY <1>2, <1>4, <1>5, <1>6 DEF TableInv, UnstartedIsUnknown
<1>11. HaveDrivers'
  BY <1>3, <1>4 DEF HaveDrivers
<1> QED BY <1>7, <1>8, <1>9, <1>10, <1>11 DEF TableInv

LEMMA SpawnFailsTable ==
  ASSUME TypeOK, TableInv, NEW w \in Windows, SpawnFails(w)
  PROVE  TableInv'
<1>1. rt' = Cleaned(rt) /\ UNCHANGED <<pty, polls>>
  BY DEF SpawnFails
<1>2. /\ \A j \in Ptys : ~rt'.by_id[j].known /\ pty[j] # "running"
      /\ \A j \in Ptys : HasDriver(rt'.by_id[j])
  BY <1>1, CleanedKnowsNone DEF SpawnFails
<1>3. rt'.live = NoPty
  BY <1>1, CleanedFact DEF TypeOK
<1>4. stop' = stop \cup {rt.live} \/ stop' = stop
  BY DEF SpawnFails, Stopped
<1>5. UnstartedIsUnknown'
  BY <1>1, <1>3, <1>4, PtysType DEF TableInv, UnstartedIsUnknown
<1> QED BY <1>1, <1>2, <1>5
        DEF TableInv, OneLivePty, KnownIsPolled, KnownIsLive, HaveDrivers

LEMMA DetachTable ==
  ASSUME TypeOK, TableInv, NEW w \in Windows, Detach(w)
  PROVE  TableInv'
<1> DEFINE i == Head(calls[w]).id
           old == rt.by_id[i]
           new == Left(old, w)
<1>1. i \in Ptys
  <2>1. Head(calls[w]) \in Call /\ Head(calls[w]).op = "detach"
    BY CallRan DEF Detach, TypeOK, Calls
  <2> QED BY <2>1 DEF Call
<1>2. old \in Sess /\ HasDriver(old)
  BY <1>1 DEF TypeOK, ClaudeRuntime, TableInv, HaveDrivers
<1>3. new \in Sess /\ new.known = old.known /\ HasDriver(new)
  BY <1>2, LeftFact
<1>4. \/ UNCHANGED <<rt, pty, stop>>
      \/ /\ rt' = Removed(rt, i) /\ pty' = [pty EXCEPT ![i] = "closed"]
         /\ stop' = stop \cup {i}
      \/ rt' = [rt EXCEPT !.by_id[i] = new] /\ UNCHANGED <<pty, stop>>
  BY DEF Detach
<1>5. UNCHANGED polls
  BY DEF Detach
<1> HIDE DEF new, i
<1>6. CASE UNCHANGED <<rt, pty, stop>>
  BY <1>5, <1>6, BackendKept DEF backend
<1>7. CASE /\ rt' = Removed(rt, i) /\ pty' = [pty EXCEPT ![i] = "closed"]
           /\ stop' = stop \cup {i}
  BY <1>1, <1>5, <1>7, EntryRemoved
<1>8. CASE rt' = [rt EXCEPT !.by_id[i] = new] /\ UNCHANGED <<pty, stop>>
  BY <1>1, <1>3, <1>5, <1>8, EntryKept
<1> QED BY <1>4, <1>6, <1>7, <1>8

LEMMA SetDriverTable ==
  ASSUME TypeOK, TableInv, NEW w \in Windows, SetDriver(w)
  PROVE  TableInv'
<1> DEFINE i == Head(calls[w]).id
           new == TakenOver(rt.by_id[i], w)
<1>1. i \in Ptys
  <2>1. Head(calls[w]) \in Call /\ Head(calls[w]).op = "take"
    BY CallRan DEF SetDriver, TypeOK, Calls
  <2> QED BY <2>1 DEF Call
<1>2. rt.by_id[i] \in Sess /\ HasDriver(rt.by_id[i])
  BY <1>1 DEF TypeOK, ClaudeRuntime, TableInv, HaveDrivers
<1>3. new \in Sess /\ new.known = rt.by_id[i].known /\ HasDriver(new)
  BY <1>2, TakenOverFact
<1>4. /\ rt' = rt \/ rt' = [rt EXCEPT !.by_id[i] = new]
      /\ UNCHANGED <<pty, stop, polls>>
  BY DEF SetDriver
<1> HIDE DEF new, i
<1> QED BY <1>1, <1>3, <1>4, BackendKept, EntryKept DEF backend

LEMMA CloseTable ==
  ASSUME TypeOK, TableInv, NEW w \in Windows, Close(w)
  PROVE  TableInv'
<1> DEFINE i == Head(calls[w]).id
<1>1. i \in Ptys
  <2>1. Head(calls[w]) \in Call /\ Head(calls[w]).op = "close"
    BY CallRan DEF Close, TypeOK, Calls
  <2> QED BY <2>1 DEF Call
<1>2. /\ rt' = Removed(rt, i) /\ pty' = [pty EXCEPT ![i] = "deleted"]
      /\ stop' \in {stop, stop \cup {i}} /\ UNCHANGED polls
  BY DEF Close
<1> HIDE DEF i
<1> QED BY <1>1, <1>2, EntryRemoved

(* A PTY that dies leaves its entry; a poll thread that ends finds none.     *)
LEMMA ThreadsTable ==
  ASSUME TypeOK, TableInv, NEW i \in Ptys, Exit(i) \/ PollEnds(i)
  PROVE  TableInv'
<1>1. CASE Exit(i)
  <2>1. \A j \in Ptys : pty'[j] = IF j = i THEN "dead" ELSE pty[j]
    BY <1>1 DEF Exit, TypeOK
  <2> QED BY <1>1, <2>1
          DEF Exit, TableInv, OneLivePty, KnownIsPolled, KnownIsLive,
              UnstartedIsUnknown, HaveDrivers
<1>2. CASE PollEnds(i)
  <2>1. ~rt.by_id[i].known
    BY <1>2 DEF PollEnds, TableInv, KnownIsPolled
  <2>2. UNCHANGED <<rt, pty, stop>> /\ polls' = polls \ {i}
    BY <1>2, <2>1 DEF PollEnds, Removed
  <2> QED BY <2>1, <2>2
          DEF TableInv, OneLivePty, KnownIsPolled, KnownIsLive,
              UnstartedIsUnknown, HaveDrivers
<1> QED BY <1>1, <1>2

LEMMA NextTable == TypeOK /\ TableInv /\ [Next]_vars => TableInv'
<1> SUFFICES ASSUME TypeOK, TableInv, [Next]_vars PROVE TableInv'
  OBVIOUS
<1>1. CASE Users
  BY <1>1, BackendKept
     DEF Users, OpenPanel, Hide, Show, ClosePanel, TakeOver, Delete, CloseWindow,
         Destroy
<1>2. CASE MainThread
  <2>1. ASSUME NEW w \in Windows, Emit(w) PROVE TableInv'
    BY <2>1, BackendKept DEF Emit
  <2> QED BY <1>2, <2>1, AttachTable, SpawnTable, SpawnFailsTable, DetachTable,
             SetDriverTable, CloseTable DEF MainThread
<1>3. CASE Threads
  BY <1>3, ThreadsTable DEF Threads
<1>4. CASE Webviews
  BY <1>4, BackendKept DEF Webviews, OpenAnswered, DeleteAnswered, Hear
<1>5. CASE Transfers
  BY <1>5, BackendKept, ZenonT(40)
     DEF Transfers, MoveStart, HandOff, MoveAborted, AckTimeout, Take, Refuse,
         Result, Undelivered
<1>6. CASE UNCHANGED vars
  BY <1>6, BackendKept DEF vars, backend
<1> QED BY <1>1, <1>2, <1>3, <1>4, <1>5, <1>6 DEF Next

(* The inductive invariant of the table.                                     *)
THEOREM TableTheorem == Spec => [](TypeOK /\ TableInv)
BY InitType, NextType, InitTable, NextTable, PTL DEF Spec

(* Two windows that open one session share one PTY, and none runs on that    *)
(* the table has forgotten: however opens, detaches, deletes and exits       *)
(* interleave (open_or_attach under the runtime's lock).                     *)
THEOREM OneLivePtyTheorem == Spec => []OneLivePty
BY TableTheorem, PTL DEF TableInv

(* The timeline of a session the table knows is polled: the thread a detach, *)
(* a delete or a cleaned entry stops is never that of a live entry, though   *)
(* the same uuid may be opened anew before the old thread has ended.         *)
THEOREM PolledTheorem == Spec => []KnownIsPolled
BY TableTheorem, PTL DEF TableInv

(* Whenever somebody views a session, one of the viewers drives it: who      *)
(* leaves, joins and takes over in whatever order (attach_live, detach,      *)
(* set_driver).                                                              *)
THEOREM DriverTheorem == Spec => []DriverViews
<1>1. TableInv => DriverViews
  BY DEF TableInv, HaveDrivers, HasDriver, DriverViews
<1> QED BY <1>1, TableTheorem, PTL

-----------------------------------------------------------------------------
(* Whatever a window is told of a driver was so at the revision it is told,  *)
(* and the table never goes back: that makes RevNamesDriver inductive.       *)

Started(i) == pty[i] # "none"

Said(i, d, n) ==
  /\ Started(i)
  /\ LET s == rt.by_id[i] IN s.known => n <= s.rev /\ (n = s.rev => d = s.driver)

AnswerIsTrue(a) == a.op = "open" /\ a.id # NoPty => Said(a.id, a.driver, a.rev)
EventIsTrue(e) == e.kind = "driver" => Said(e.id, e.driver, e.rev)
ViewIsTrue(q, w) ==
  q.view = "open" =>
    \E d \in Windows \cup {NoWindow} : Said(q.id, d, q.rev) /\ q.drives = (d = w)

RevInv ==
  /\ \A a \in answers : AnswerIsTrue(a)
  /\ \A w \in Windows : \A j \in DOMAIN inbox[w] : EventIsTrue(inbox[w][j])
  /\ \A w \in Windows, p \in Panels : ViewIsTrue(panel[w][p], w)

(* An entry moves on: a driver changes with the revision only.               *)
Later(s, t) ==
  t.known => s.known /\ s.rev <= t.rev /\ (s.rev = t.rev => s.driver = t.driver)

TableMoves ==
  \A i \in Ptys : Started(i) => Started(i)' /\ Later(rt.by_id[i], rt.by_id[i]')

LEMMA DrivenLater ==
  ASSUME NEW s \in Sess, NEW w \in Windows
  PROVE  Later(s, s) /\ Later(s, DrivenBy(s, w))
<1> DEFINE d == [s EXCEPT !.driver = w]
<1>1. d \in Sess /\ d.known = s.known /\ d.rev = s.rev /\ s.rev \in Nat
  BY DEF Sess
<1>2. DrivenBy(s, w) = [d EXCEPT !.rev = @ + 1]
  BY DEF DrivenBy, Sess
<1> HIDE DEF d
<1>3. DrivenBy(s, w).rev = s.rev + 1 /\ DrivenBy(s, w).known = s.known
  BY <1>1, <1>2 DEF Sess
<1> QED BY <1>1, <1>3 DEF Later

LEMMA EntriesMove ==
  ASSUME NEW s \in Sess, NEW w \in Windows
  PROVE  /\ Later(s, AttachedBy(s, w))
         /\ Later(s, TakenOver(s, w))
         /\ Later(s, Left(s, w))
<1>1. Later(s, AttachedBy(s, w))
  <2>1. PICK j : j = Joined(s, w)
    OBVIOUS
  <2>2. j \in Sess /\ j.known = s.known /\ j.driver = s.driver /\ j.rev = s.rev
    <3>1. j \in Sess /\ j.known = s.known
      BY <2>1, JoinedFact
    <3>2. j.driver = s.driver /\ j.rev = s.rev
      BY <2>1 DEF Joined, Sess
    <3> QED BY <3>1, <3>2
  <2>3. Later(j, Promoted(j, w))
    BY <2>2, DrivenLater DEF Promoted
  <2> QED BY <2>1, <2>2, <2>3 DEF Later, AttachedBy
<1>2. Later(s, TakenOver(s, w))
  BY DrivenLater DEF TakenOver
<1>3. Later(s, Left(s, w))
  <2>1. PICK r : r = Without(s, w)
    OBVIOUS
  <2>2. r \in Sess /\ r.known = s.known /\ r.driver = s.driver /\ r.rev = s.rev
    <3>1. r \in Sess /\ r.known = s.known /\ r.driver = s.driver
      BY <2>1, WithoutFact
    <3>2. r.rev = s.rev
      BY <2>1 DEF Without, Sess
    <3> QED BY <3>1, <3>2
  <2>3. Later(r, HandedOver(r, w))
    <3>1. CASE r.attached # <<>> /\ r.driver = w
      <4>1. Head(r.attached) \in Windows
        BY <2>2, <3>1 DEF Sess
      <4> QED BY <2>2, <3>1, <4>1, DrivenLater DEF HandedOver
    <3>2. CASE ~(r.attached # <<>> /\ r.driver = w)
      BY <2>2, <3>2, DrivenLater DEF HandedOver
    <3> QED BY <3>1, <3>2
  <2> QED BY <2>1, <2>2, <2>3 DEF Later, Left
<1> QED BY <1>1, <1>2, <1>3

LEMMA SaidKept ==
  ASSUME TypeOK, TypeOK', TableMoves, NEW i \in Ptys, NEW d, NEW n \in Nat,
         Said(i, d, n)
  PROVE  Said(i, d, n)'
<1>1. PICK s \in Sess, t \in Sess : s = rt.by_id[i] /\ t = rt'.by_id[i]
  BY DEF TypeOK, ClaudeRuntime
<1>2. Started(i)' /\ Later(s, t)
  BY <1>1 DEF TableMoves, Said
<1>3. t.known => n <= t.rev /\ (n = t.rev => d = t.driver)
  BY <1>1, <1>2 DEF Later, Said, Sess
<1> QED BY <1>1, <1>2, <1>3 DEF Said

(* What was true of a message or of a view stays true of it.                 *)
LEMMA TruthKept ==
  ASSUME TypeOK, TypeOK', TableMoves
  PROVE  /\ \A a \in Answer : AnswerIsTrue(a) => AnswerIsTrue(a)'
         /\ \A e \in Event : EventIsTrue(e) => EventIsTrue(e)'
         /\ \A q \in Panel, w \in Windows : ViewIsTrue(q, w) => ViewIsTrue(q, w)'
<1>1. ASSUME NEW a \in Answer, AnswerIsTrue(a) PROVE AnswerIsTrue(a)'
  <2>1. a.id # NoPty => a.id \in Ptys
    BY DEF Answer
  <2> QED BY <1>1, <2>1, SaidKept DEF AnswerIsTrue, Answer
<1>2. ASSUME NEW e \in Event, EventIsTrue(e) PROVE EventIsTrue(e)'
  BY <1>2, SaidKept DEF EventIsTrue, Event
<1>3. ASSUME NEW q \in Panel, NEW w \in Windows, ViewIsTrue(q, w)
      PROVE  ViewIsTrue(q, w)'
  BY <1>3, SaidKept DEF ViewIsTrue, Panel
<1> QED BY <1>1, <1>2, <1>3

LEMMA EntryMoves ==
  ASSUME TypeOK, NEW i \in Ptys, NEW s \in Sess, Later(rt.by_id[i], s),
         rt' = [rt EXCEPT !.by_id[i] = s], UNCHANGED pty
  PROVE  TableMoves
<1>1. \A j \in Ptys : rt'.by_id[j] = IF j = i THEN s ELSE rt.by_id[j]
  BY EntrySet DEF TypeOK, ClaudeRuntime
<1>2. \A j \in Ptys : Later(rt.by_id[j], rt.by_id[j])
  BY DEF Later, TypeOK, ClaudeRuntime, Sess
<1> QED BY <1>1, <1>2 DEF TableMoves, Started

(* An entry is new only if its PTY is; every other is as it was, or gone.    *)
LEMMA OthersStay ==
  ASSUME TypeOK,
         \A j \in Ptys : Started(j) =>
           Started(j)' /\ (rt'.by_id[j] = rt.by_id[j] \/ ~rt'.by_id[j].known)
  PROVE  TableMoves
<1>1. \A j \in Ptys : Later(rt.by_id[j], rt.by_id[j])
  BY DEF Later, TypeOK, ClaudeRuntime, Sess
<1> QED BY <1>1 DEF TableMoves, Later

LEMMA TableMovesOn ==
  ASSUME TypeOK, TableInv, [Next]_vars
  PROVE  TableMoves
<1>1. CASE UNCHANGED backend
  BY <1>1, OthersStay DEF backend, Started
<1>2. ASSUME NEW w \in Windows, Attach(w) PROVE TableMoves
  <2>1. PICK i, s : i = rt.live /\ s = AttachedBy(rt.by_id[i], w)
    OBVIOUS
  <2>2. i \in Ptys /\ rt.by_id[i] \in Sess
    BY <1>2, <2>1 DEF Attach, Alive, TypeOK, ClaudeRuntime
  <2>3. s \in Sess /\ Later(rt.by_id[i], s)
    BY <2>1, <2>2, AttachedFact, EntriesMove
  <2>4. rt' = [rt EXCEPT !.by_id[i] = s] /\ UNCHANGED pty
    BY <1>2, <2>1 DEF Attach
  <2> QED BY <2>2, <2>3, <2>4, EntryMoves
<1>3. ASSUME NEW w \in Windows, Spawn(w) PROVE TableMoves
  <2>1. PICK i \in Fresh :
          rt' = Registered(Cleaned(rt), i, w) /\ pty' = [pty EXCEPT ![i] = "running"]
    BY <1>3 DEF Spawn
  <2>2. i \in Ptys /\ ~Started(i)
    BY DEF Fresh, Started
  <2>3. \A j \in Ptys : j # i => rt'.by_id[j] = Cleaned(rt).by_id[j]
    BY <2>1, <2>2, CleanedFact, RegisteredFact DEF TypeOK
  <2>4. \A j \in Ptys : ~Cleaned(rt).by_id[j].known
    BY <1>3, CleanedKnowsNone DEF Spawn
  <2>5. \A j \in Ptys : Started(j) => Started(j)'
    BY <2>1 DEF Started, TypeOK
  <2> QED BY <2>2, <2>3, <2>4, <2>5, OthersStay
<1>4. ASSUME NEW w \in Windows, SpawnFails(w) PROVE TableMoves
  <2>1. rt' = Cleaned(rt) /\ UNCHANGED pty
    BY <1>4 DEF SpawnFails
  <2>2. \A j \in Ptys : ~rt'.by_id[j].known
    BY <1>4, <2>1, CleanedKnowsNone DEF SpawnFails
  <2> QED BY <2>1, <2>2, OthersStay DEF Started
<1>5. ASSUME NEW i \in Ptys, rt' = Removed(rt, i),
             UNCHANGED pty \/ \E x \in PtyFates \ {"none"} : pty' = [pty EXCEPT ![i] = x]
      PROVE  TableMoves
  <2>1. /\ ~rt'.by_id[i].known
        /\ \A j \in Ptys : j # i => rt'.by_id[j] = rt.by_id[j]
    BY <1>5, RemovedFact DEF TypeOK
  <2>2. \A j \in Ptys : Started(j) => Started(j)'
    BY <1>5 DEF Started, TypeOK
  <2> QED BY <2>1, <2>2, OthersStay
<1>6. ASSUME NEW w \in Windows, Detach(w) PROVE TableMoves
  <2>1. PICK i : i = Head(calls[w]).id
    OBVIOUS
  <2>2. i \in Ptys
    <3>1. Head(calls[w]) \in Call /\ Head(calls[w]).op = "detach"
      BY <1>6, CallRan DEF Detach, TypeOK, Calls
    <3> QED BY <2>1, <3>1 DEF Call
  <2>3. PICK s : s = Left(rt.by_id[i], w)
    OBVIOUS
  <2>4. s \in Sess /\ Later(rt.by_id[i], s)
    BY <2>2, <2>3, LeftFact, EntriesMove DEF TypeOK, ClaudeRuntime
  <2>5. \/ UNCHANGED <<rt, pty>>
        \/ rt' = Removed(rt, i) /\ pty' = [pty EXCEPT ![i] = "closed"]
        \/ rt' = [rt EXCEPT !.by_id[i] = s] /\ UNCHANGED pty
    BY <1>6, <2>1, <2>3 DEF Detach
  <2>6. CASE UNCHANGED <<rt, pty>>
    BY <2>6, OthersStay DEF Started
  <2>7. CASE rt' = Removed(rt, i) /\ pty' = [pty EXCEPT ![i] = "closed"]
    BY <1>5, <2>2, <2>7 DEF PtyFates
  <2>8. CASE rt' = [rt EXCEPT !.by_id[i] = s] /\ UNCHANGED pty
    BY <2>2, <2>4, <2>8, EntryMoves
  <2> QED BY <2>5, <2>6, <2>7, <2>8
<1>7. ASSUME NEW w \in Windows, SetDriver(w) PROVE TableMoves
  <2>1. PICK i : i = Head(calls[w]).id
    OBVIOUS
  <2>2. i \in Ptys
    <3>1. Head(calls[w]) \in Call /\ Head(calls[w]).op = "take"
      BY <1>7, CallRan DEF SetDriver, TypeOK, Calls
    <3> QED BY <2>1, <3>1 DEF Call
  <2>3. PICK s : s = TakenOver(rt.by_id[i], w)
    OBVIOUS
  <2>4. s \in Sess /\ Later(rt.by_id[i], s)
    BY <2>2, <2>3, TakenOverFact, EntriesMove DEF TypeOK, ClaudeRuntime
  <2>5. (rt' = rt \/ rt' = [rt EXCEPT !.by_id[i] = s]) /\ UNCHANGED pty
    BY <1>7, <2>1, <2>3 DEF SetDriver
  <2>6. CASE rt' = rt
    BY <2>5, <2>6, OthersStay DEF Started
  <2> QED BY <2>2, <2>4, <2>5, <2>6, EntryMoves
<1>8. ASSUME NEW w \in Windows, Close(w) PROVE TableMoves
  <2>1. PICK i : i = Head(calls[w]).id
    OBVIOUS
  <2>2. i \in Ptys
    <3>1. Head(calls[w]) \in Call /\ Head(calls[w]).op = "close"
      BY <1>8, CallRan DEF Close, TypeOK, Calls
    <3> QED BY <2>1, <3>1 DEF Call
  <2>3. rt' = Removed(rt, i) /\ pty' = [pty EXCEPT ![i] = "deleted"]
    BY <1>8, <2>1 DEF Close
  <2> QED BY <1>5, <2>2, <2>3 DEF PtyFates
<1>9. ASSUME NEW i \in Ptys, Exit(i) \/ PollEnds(i) PROVE TableMoves
  <2>1. CASE Exit(i)
    BY <2>1, OthersStay DEF Exit, Started, TypeOK
  <2>2. CASE PollEnds(i)
    BY <1>5, <2>2 DEF PollEnds
  <2> QED BY <1>9, <2>1, <2>2
<1>10. CASE Users
  BY <1>1, <1>10
     DEF Users, OpenPanel, Hide, Show, ClosePanel, TakeOver, Delete, CloseWindow,
         Destroy
<1>11. CASE Webviews
  BY <1>1, <1>11 DEF Webviews, OpenAnswered, DeleteAnswered, Hear
<1>12. CASE Transfers
  BY <1>1, <1>12, ZenonT(40)
     DEF Transfers, MoveStart, HandOff, MoveAborted, AckTimeout, Take, Refuse,
         Result, Undelivered
<1>13. CASE UNCHANGED vars
  BY <1>1, <1>13 DEF vars, backend
<1>14. ASSUME NEW w \in Windows, Emit(w) PROVE TableMoves
  BY <1>1, <1>14 DEF Emit
<1> QED BY <1>2, <1>3, <1>4, <1>6, <1>7, <1>8, <1>9, <1>10, <1>11, <1>12, <1>13,
           <1>14
        DEF Next, MainThread, Threads

(* What a step leaves as it was, or makes true.                              *)
AnswersFair ==
  \A b \in answers' :
    \/ AnswerIsTrue(b)'
    \/ \E a \in answers :
         a.op = b.op /\ a.id = b.id /\ a.driver = b.driver /\ a.rev = b.rev
EventsFair ==
  \A w \in Windows : \A j \in DOMAIN inbox'[w] :
    \E e \in Event :
      /\ e = inbox'[w][j]
      /\ EventIsTrue(e)' \/ \E k \in DOMAIN inbox[w] : e = inbox[w][k]
PanelsFair ==
  \A w \in Windows, p \in Panels :
    \E q \in Panel :
      /\ q = panel'[w][p]
      /\ ViewIsTrue(q, w)' \/ q = panel[w][p] \/ q.view # "open"

LEMMA TruthStays ==
  ASSUME TypeOK, TypeOK', TableMoves, RevInv,
         AnswersFair, EventsFair, PanelsFair
  PROVE  RevInv'
<1>1. ASSUME NEW b \in answers' PROVE AnswerIsTrue(b)'
  <2>1. CASE AnswerIsTrue(b)'
    BY <2>1
  <2>2. ASSUME NEW a \in answers,
               a.op = b.op, a.id = b.id, a.driver = b.driver, a.rev = b.rev
        PROVE  AnswerIsTrue(b)'
    <3>1. a \in Answer /\ AnswerIsTrue(a)
      BY DEF TypeOK, RevInv
    <3>2. AnswerIsTrue(a)'
      BY <3>1, TruthKept
    <3> QED BY <2>2, <3>2 DEF AnswerIsTrue
  <2> QED BY <2>1, <2>2 DEF AnswersFair
<1>2. ASSUME NEW w \in Windows, NEW j \in DOMAIN inbox'[w]
      PROVE  EventIsTrue(inbox[w][j])'
  <2>1. PICK e \in Event :
          /\ e = inbox'[w][j]
          /\ EventIsTrue(e)' \/ \E k \in DOMAIN inbox[w] : e = inbox[w][k]
    BY DEF EventsFair
  <2>2. CASE \E k \in DOMAIN inbox[w] : e = inbox[w][k]
    BY <2>1, <2>2, TruthKept DEF RevInv
  <2> QED BY <2>1, <2>2
<1>3. ASSUME NEW w \in Windows, NEW p \in Panels
      PROVE  ViewIsTrue(panel[w][p], w)'
  <2>1. PICK q \in Panel :
          /\ q = panel'[w][p]
          /\ ViewIsTrue(q, w)' \/ q = panel[w][p] \/ q.view # "open"
    BY DEF PanelsFair
  <2>2. CASE q = panel[w][p]
    BY <2>1, <2>2, TruthKept DEF RevInv
  <2>3. CASE q.view # "open"
    BY <2>1, <2>3 DEF ViewIsTrue
  <2> QED BY <2>1, <2>2, <2>3
<1> QED BY <1>1, <1>2, <1>3 DEF RevInv

(* Panels: most steps leave a view as it is, or leave it not open.           *)
LEMMA PanelsSame ==
  ASSUME TypeOK, UNCHANGED panel
  PROVE  PanelsFair
BY DEF PanelsFair, TypeOK

LEMMA PanelsSet ==
  ASSUME TypeOK, NEW w \in Windows, NEW p \in Panels, NEW q \in Panel,
         q.view # "open", panel' = [panel EXCEPT ![w][p] = q]
  PROVE  PanelsFair
<1>1. \A v \in Windows, o \in Panels :
        panel'[v][o] = IF v = w /\ o = p THEN q ELSE panel[v][o]
  BY DEF TypeOK
<1> QED BY <1>1 DEF PanelsFair, TypeOK

LEMMA QuietPanels ==
  ASSUME TypeOK, NEW w \in Windows, NEW p \in Panels
  PROVE  /\ \A sid \in SidType :
              panel' = [panel EXCEPT ![w][p] = Added(sid)] => PanelsFair
         /\ panel' = [panel EXCEPT ![w][p] = NoPanel] => PanelsFair
         /\ \A v \in {"hidden", "opening", "failed", "ended"} :
              panel' = [panel EXCEPT ![w][p] = ViewIs(@, v)] => PanelsFair
<1>1. ASSUME NEW sid \in SidType, panel' = [panel EXCEPT ![w][p] = Added(sid)]
      PROVE  PanelsFair
  <2>1. Added(sid) \in Panel /\ Added(sid).view # "open"
    BY PanelTypes DEF Added, NoPanel
  <2> QED BY <1>1, <2>1, PanelsSet
<1>2. ASSUME panel' = [panel EXCEPT ![w][p] = NoPanel] PROVE PanelsFair
  <2>1. NoPanel \in Panel /\ NoPanel.view # "open"
    BY PanelTypes DEF NoPanel, SidType
  <2> QED BY <1>2, <2>1, PanelsSet
<1>3. ASSUME NEW v \in {"hidden", "opening", "failed", "ended"},
             panel' = [panel EXCEPT ![w][p] = ViewIs(@, v)]
      PROVE  PanelsFair
  <2>1. PICK q : q = ViewIs(panel[w][p], v)
    OBVIOUS
  <2>2. panel[w][p] \in Panel
    BY DEF TypeOK
  <2>3. q \in Panel /\ q.view # "open"
    BY <2>1, <2>2, ViewIsType DEF ViewIs, Panel
  <2>4. panel' = [panel EXCEPT ![w][p] = q]
    BY <1>3, <2>1
  <2> QED BY <2>3, <2>4, PanelsSet
<1> QED BY <1>1, <1>2, <1>3

LEMMA AnswersLess ==
  ASSUME answers' \subseteq answers
  PROVE  AnswersFair
BY DEF AnswersFair

LEMMA EventsSame ==
  ASSUME TypeOK, UNCHANGED inbox
  PROVE  EventsFair
BY DEF EventsFair, TypeOK

(* What a command says and tells.                                            *)
LEMMA EventSaid ==
  ASSUME TypeOK, NEW e \in Event, EventIsTrue(e)', Say(e)
  PROVE  EventsFair
<1>1. ASSUME NEW w \in Windows, NEW j \in DOMAIN inbox'[w]
      PROVE  \E d \in Event :
               /\ d = inbox'[w][j]
               /\ EventIsTrue(d)' \/ \E k \in DOMAIN inbox[w] : d = inbox[w][k]
  <2>1. inbox'[w] = IF w \in up THEN Append(inbox[w], e) ELSE <<>>
    BY DEF Say
  <2>2. inbox[w] \in Seq(Event)
    BY DEF TypeOK
  <2>3. CASE w \in up
    <3>1. inbox'[w] = Append(inbox[w], e)
      BY <2>1, <2>3
    <3>2. j \in 1..(Len(inbox[w]) + 1)
      BY <2>2, <3>1, AppendProperties
    <3>3. CASE j = Len(inbox[w]) + 1
      <4>1. inbox'[w][j] = e
        BY <2>2, <3>1, <3>3, AppendProperties
      <4> QED BY <4>1
    <3>4. CASE j # Len(inbox[w]) + 1
      <4>1. j \in DOMAIN inbox[w] /\ inbox[w][j] \in Event
        BY <2>2, <3>2, <3>4
      <4>2. inbox'[w][j] = inbox[w][j]
        BY <2>2, <3>1, <4>1, AppendProperties
      <4> QED BY <4>1, <4>2
    <3> QED BY <3>3, <3>4
  <2>4. CASE w \notin up
    BY <2>1, <2>4
  <2> QED BY <2>3, <2>4
<1> QED BY <1>1 DEF EventsFair

LEMMA DriverSaid ==
  ASSUME TypeOK, NEW i \in Ptys, NEW s \in Sess, Started(i)', rt'.by_id[i] = s
  PROVE  /\ SayDriver(i, s) => EventsFair
         /\ Said(i, s.driver, s.rev)'
<1>1. Said(i, s.driver, s.rev)'
  BY DEF Said, Sess
<1>2. ASSUME SayDriver(i, s) PROVE EventsFair
  <2>1. PICK e : e = [kind |-> "driver", id |-> i, driver |-> s.driver, rev |-> s.rev]
    OBVIOUS
  <2>2. e \in Event /\ e.id = i /\ e.driver = s.driver /\ e.rev = s.rev
    BY <2>1 DEF Event, Sess
  <2>3. EventIsTrue(e)'
    BY <1>1, <2>2 DEF EventIsTrue
  <2>4. Say(e)
    BY <1>2, <2>1 DEF SayDriver
  <2> QED BY <2>2, <2>3, <2>4, EventSaid
<1> QED BY <1>1, <1>2

LEMMA ClosedSaid ==
  ASSUME TypeOK, NEW i \in Ptys, SayClosed(i)
  PROVE  EventsFair
<1>1. PICK e : e = [kind |-> "closed", id |-> i, driver |-> NoWindow, rev |-> 0]
  OBVIOUS
<1>2. e \in Event /\ e.kind = "closed"
  BY <1>1 DEF Event
<1>3. EventIsTrue(e)'
  BY <1>2 DEF EventIsTrue
<1>4. Say(e)
  BY <1>1 DEF SayClosed
<1> QED BY <1>2, <1>3, <1>4, EventSaid

LEMMA AnswerTold ==
  ASSUME NEW w, NEW c, NEW i, NEW s, Tell(w, c, i, s),
         c.op = "open" /\ i # NoPty => Said(i, s.driver, s.rev)'
  PROVE  AnswersFair
<1>1. PICK a : a = [to |-> w, panel |-> c.panel, by |-> c.by, op |-> c.op, id |-> i,
                    driver |-> s.driver, rev |-> s.rev]
  OBVIOUS
<1>2. answers' \subseteq answers \cup {a}
  BY <1>1 DEF Tell
<1>3. a.op = c.op /\ a.id = i /\ a.driver = s.driver /\ a.rev = s.rev
  BY <1>1
<1>4. AnswerIsTrue(a)'
  BY <1>3 DEF AnswerIsTrue
<1> QED BY <1>2, <1>4 DEF AnswersFair

Fair == AnswersFair /\ EventsFair /\ PanelsFair

LEMMA AttachFair ==
  ASSUME TypeOK, TypeOK', TableInv, NEW w \in Windows, Attach(w)
  PROVE  Fair
<1>1. PICK i, s : i = rt.live /\ s = AttachedBy(rt.by_id[i], w)
  OBVIOUS
<1>2. i \in Ptys /\ rt.by_id[i] \in Sess /\ Started(i)
  BY <1>1 DEF Attach, Alive, TypeOK, ClaudeRuntime, Started
<1>3. s \in Sess
  BY <1>1, <1>2, AttachedFact
<1>4. rt' = [rt EXCEPT !.by_id[i] = s] /\ UNCHANGED <<pty, panel>>
  BY <1>1 DEF Attach
<1>5. rt'.by_id[i] = s /\ Started(i)'
  BY <1>2, <1>3, <1>4, EntrySet DEF TypeOK, ClaudeRuntime, Started
<1>6. (SayDriver(i, s) \/ UNCHANGED inbox) /\ Tell(w, Head(calls[w]), i, s)
  BY <1>1 DEF Attach
<1>7. AnswersFair
  BY <1>2, <1>3, <1>5, <1>6, DriverSaid, AnswerTold
<1>8. EventsFair
  BY <1>2, <1>3, <1>5, <1>6, DriverSaid, EventsSame
<1> QED BY <1>4, <1>7, <1>8, PanelsSame DEF Fair

LEMMA SpawnFair ==
  ASSUME TypeOK, TypeOK', TableInv, NEW w \in Windows, Spawn(w)
  PROVE  Fair
<1>1. PICK i \in Fresh :
        /\ pty' = [pty EXCEPT ![i] = "running"]
        /\ Tell(w, Head(calls[w]), i, rt'.by_id[i])
  BY DEF Spawn
<1>2. i \in Ptys /\ Started(i)'
  BY <1>1 DEF Fresh, Started, TypeOK
<1>3. PICK s \in Sess : s = rt'.by_id[i]
  BY <1>2 DEF TypeOK, ClaudeRuntime
<1>4. Tell(w, Head(calls[w]), i, s)
  BY <1>1, <1>3
<1>5. AnswersFair
  BY <1>2, <1>3, <1>4, DriverSaid, AnswerTold
<1>6. UNCHANGED <<inbox, panel>>
  BY DEF Spawn
<1> QED BY <1>5, <1>6, EventsSame, PanelsSame DEF Fair

LEMMA SpawnFailsFair ==
  ASSUME TypeOK, NEW w \in Windows, SpawnFails(w)
  PROVE  Fair
<1>1. PICK s, i : s = Unknown /\ i = NoPty
  OBVIOUS
<1>2. Tell(w, Head(calls[w]), i, s) /\ UNCHANGED <<inbox, panel>>
  BY <1>1 DEF SpawnFails
<1>3. AnswersFair
  BY <1>1, <1>2, AnswerTold
<1> QED BY <1>2, <1>3, EventsSame, PanelsSame DEF Fair

LEMMA KnownIsStarted ==
  ASSUME TableInv, NEW i \in Ptys, rt.by_id[i].known
  PROVE  Started(i)
BY DEF TableInv, KnownIsLive, UnstartedIsUnknown, Started

LEMMA DetachFair ==
  ASSUME TypeOK, TypeOK', TableInv, NEW w \in Windows, Detach(w)
  PROVE  Fair
<1>1. PICK i : i = Head(calls[w]).id
  OBVIOUS
<1>2. i \in Ptys
  <2>1. Head(calls[w]) \in Call /\ Head(calls[w]).op = "detach"
    BY CallRan DEF Detach, TypeOK, Calls
  <2> QED BY <1>1, <2>1 DEF Call
<1>3. PICK s : s = Left(rt.by_id[i], w)
  OBVIOUS
<1>4. s \in Sess
  BY <1>2, <1>3, LeftFact DEF TypeOK, ClaudeRuntime
<1>5. UNCHANGED <<answers, panel>>
  BY DEF Detach
<1>6. \/ UNCHANGED inbox
      \/ /\ rt.by_id[i].known /\ UNCHANGED pty
         /\ rt' = [rt EXCEPT !.by_id[i] = s] /\ SayDriver(i, s)
  BY <1>1, <1>3 DEF Detach
<1>7. ASSUME rt.by_id[i].known, UNCHANGED pty,
             rt' = [rt EXCEPT !.by_id[i] = s], SayDriver(i, s)
      PROVE  EventsFair
  <2>1. rt'.by_id[i] = s
    BY <1>2, <1>4, <1>7, EntrySet DEF TypeOK, ClaudeRuntime
  <2>2. Started(i)'
    BY <1>2, <1>7, KnownIsStarted DEF Started
  <2> QED BY <1>2, <1>4, <1>7, <2>1, <2>2, DriverSaid
<1> QED BY <1>5, <1>6, <1>7, AnswersLess, EventsSame, PanelsSame DEF Fair

LEMMA SetDriverFair ==
  ASSUME TypeOK, TypeOK', TableInv, NEW w \in Windows, SetDriver(w)
  PROVE  Fair
<1>1. PICK i : i = Head(calls[w]).id
  OBVIOUS
<1>2. i \in Ptys
  <2>1. Head(calls[w]) \in Call /\ Head(calls[w]).op = "take"
    BY CallRan DEF SetDriver, TypeOK, Calls
  <2> QED BY <1>1, <2>1 DEF Call
<1>3. PICK s : s = TakenOver(rt.by_id[i], w)
  OBVIOUS
<1>4. s \in Sess
  BY <1>2, <1>3, TakenOverFact DEF TypeOK, ClaudeRuntime
<1>5. UNCHANGED <<answers, panel, pty>>
  BY DEF SetDriver
<1>6. \/ UNCHANGED inbox
      \/ /\ rt.by_id[i].known
         /\ rt' = [rt EXCEPT !.by_id[i] = s] /\ SayDriver(i, s)
  BY <1>1, <1>3 DEF SetDriver
<1>7. ASSUME rt.by_id[i].known, rt' = [rt EXCEPT !.by_id[i] = s], SayDriver(i, s)
      PROVE  EventsFair
  <2>1. rt'.by_id[i] = s
    BY <1>2, <1>4, <1>7, EntrySet DEF TypeOK, ClaudeRuntime
  <2>2. Started(i)'
    BY <1>2, <1>5, <1>7, KnownIsStarted DEF Started
  <2> QED BY <1>2, <1>4, <1>7, <2>1, <2>2, DriverSaid
<1> QED BY <1>5, <1>6, <1>7, AnswersLess, EventsSame, PanelsSame DEF Fair

LEMMA CloseFair ==
  ASSUME TypeOK, NEW w \in Windows, Close(w)
  PROVE  Fair
<1>1. PICK c : c = Head(calls[w])
  OBVIOUS
<1>2. c \in Call /\ c.op = "close"
  BY <1>1, CallRan DEF Close, TypeOK, Calls
<1>3. PICK i, s : i = c.id /\ s = Unknown
  OBVIOUS
<1>4. Tell(w, c, i, s) /\ SayClosed(i) /\ UNCHANGED panel
  BY <1>1, <1>3 DEF Close
<1>5. AnswersFair
  BY <1>2, <1>4, AnswerTold
<1>6. EventsFair
  BY <1>2, <1>3, <1>4, ClosedSaid DEF Call
<1> QED BY <1>4, <1>5, <1>6, PanelsSame DEF Fair

LEMMA ThreadsFair ==
  ASSUME TypeOK, NEW i \in Ptys, Exit(i) \/ PollEnds(i)
  PROVE  Fair
<1>1. UNCHANGED <<answers, panel>> /\ (SayClosed(i) \/ UNCHANGED inbox)
  BY DEF Exit, PollEnds
<1> QED BY <1>1, AnswersLess, EventsSame, ClosedSaid, PanelsSame DEF Fair

-----------------------------------------------------------------------------

LEMMA UsersFair == TypeOK /\ Users => Fair
<1> SUFFICES ASSUME TypeOK, Users PROVE Fair
  OBVIOUS
<1>1. ASSUME NEW p \in Panels, OpenPanel(p) PROVE Fair
  BY <1>1, MainAssumption, QuietPanels, AnswersLess, EventsSame
     DEF OpenPanel, AddPanel, Fair, SidType
<1>2. ASSUME NEW w \in Windows, NEW p \in Panels, Hide(w, p) PROVE Fair
  <2>1. PanelsFair /\ EventsFair
    BY <1>2, QuietPanels, EventsSame DEF Hide
  <2>2. AnswersFair
    <3>1. ASSUME NEW a \in answers
          PROVE  LET b == AwaitedBy(p, "view", "panel", a) IN
                 a.op = b.op /\ a.id = b.id /\ a.driver = b.driver /\ a.rev = b.rev
      BY DEF AwaitedBy, TypeOK, Answer
    <3> QED BY <1>2, <3>1 DEF Hide, AnswersFair
  <2> QED BY <2>1, <2>2 DEF Fair
<1>3. ASSUME NEW w \in Windows, NEW p \in Panels, Show(w, p) PROVE Fair
  BY <1>3, QuietPanels, AnswersLess, EventsSame DEF Show, Fair
<1>4. ASSUME NEW w \in Windows, NEW p \in Panels, ClosePanel(w, p) PROVE Fair
  <2>1. answers' \subseteq answers
    BY <1>4 DEF ClosePanel, RemovePanel
  <2> QED BY <1>4, <2>1, QuietPanels, AnswersLess, EventsSame
          DEF ClosePanel, RemovePanel, Fair
<1>5. ASSUME NEW w \in Windows, NEW p \in Panels, TakeOver(w, p) \/ Delete(w, p)
      PROVE  Fair
  BY <1>5, PanelsSame, AnswersLess, EventsSame DEF TakeOver, Delete, Fair
<1>6. ASSUME NEW w \in Windows, CloseWindow(w) PROVE Fair
  BY <1>6, PanelsSame, AnswersLess, EventsSame DEF CloseWindow, Fair
<1>7. ASSUME NEW w \in Windows, Destroy(w) PROVE Fair
  <2>1. AnswersFair
    BY <1>7, AnswersLess DEF Destroy
  <2>2. EventsFair
    <3>1. inbox' = [inbox EXCEPT ![w] = <<>>]
      BY <1>7 DEF Destroy
    <3>2. \A v \in Windows : inbox'[v] = inbox[v] \/ inbox'[v] = <<>>
      BY <3>1 DEF TypeOK
    <3>3. \A v \in Windows : \A j \in DOMAIN inbox'[v] :
            inbox'[v] = inbox[v] /\ inbox'[v][j] \in Event
      BY <3>2 DEF TypeOK
    <3> QED BY <3>3 DEF EventsFair
  <2>3. PanelsFair
    <3>1. panel' = [panel EXCEPT ![w] = [p \in Panels |-> NoPanel]]
      BY <1>7 DEF Destroy
    <3>2. \A v \in Windows, p \in Panels :
            panel'[v][p] = panel[v][p] \/ panel'[v][p] = NoPanel
      BY <3>1 DEF TypeOK
    <3>3. NoPanel \in Panel /\ NoPanel.view # "open"
      BY PanelTypes DEF NoPanel, SidType
    <3> QED BY <3>2, <3>3 DEF PanelsFair, TypeOK
  <2> QED BY <2>1, <2>2, <2>3 DEF Fair
<1> QED BY <1>1, <1>2, <1>3, <1>4, <1>5, <1>6, <1>7 DEF Users

LEMMA TransfersFair == TypeOK /\ Transfers => Fair
<1> SUFFICES ASSUME TypeOK, Transfers PROVE Fair
  OBVIOUS
<1>1. ASSUME NEW w \in Windows, NEW p \in Panels,
             (\E v \in Windows : MoveStart(w, p, v)) \/ MoveAborted(w, p)
      PROVE  Fair
  BY <1>1, PanelsSame, AnswersLess, EventsSame DEF MoveStart, MoveAborted, Fair
<1>2. ASSUME NEW w \in Windows, NEW p \in Panels, HandOff(w, p) PROVE Fair
  <2>1. answers' \subseteq answers
    BY <1>2 DEF HandOff, RemovePanel
  <2>2. UNCHANGED panel \/ panel' = [panel EXCEPT ![w][p] = NoPanel]
    BY <1>2 DEF HandOff, RemovePanel
  <2>3. UNCHANGED inbox
    BY <1>2 DEF HandOff
  <2> QED BY <2>1, <2>2, <2>3, PanelsSame, QuietPanels, AnswersLess, EventsSame
          DEF Fair
<1>3. ASSUME NEW w \in Windows, NEW p \in Panels, AckTimeout(w, p) PROVE Fair
  <2>1. moving[w][p].sid \in SidType
    BY DEF TypeOK, Moving, SidType
  <2>2. UNCHANGED panel
          \/ panel' = [panel EXCEPT ![w][p] = Added(moving[w][p].sid)]
    BY <1>3 DEF AckTimeout
  <2>3. UNCHANGED <<answers, inbox>>
    BY <1>3 DEF AckTimeout
  <2> QED BY <2>1, <2>2, <2>3, PanelsSame, QuietPanels, AnswersLess, EventsSame
          DEF Fair
<1>4. ASSUME NEW m \in mail, Take(m) \/ Refuse(m) \/ Result(m) \/ Undelivered(m)
      PROVE  Fair
  <2>1. m.to \in Windows /\ m.panel \in Panels /\ m.sid \in SidType
    BY DEF TypeOK, Mail, SidType
  <2>2. moving[m.to][m.panel].sid \in SidType
    BY <2>1 DEF TypeOK, Moving, SidType
  <2>3. \/ UNCHANGED panel
        \/ \E sid \in SidType : panel' = [panel EXCEPT ![m.to][m.panel] = Added(sid)]
    BY <1>4, <2>1, <2>2
       DEF Take, Refuse, Result, Reinsert, AddPanel, Undelivered
  <2>4. UNCHANGED <<answers, inbox>>
    BY <1>4 DEF Take, Refuse, Result, Undelivered
  <2>5. PanelsFair
    BY <2>1, <2>3, PanelsSame, QuietPanels
  <2> QED BY <2>4, <2>5, AnswersLess, EventsSame DEF Fair
<1> QED BY <1>1, <1>2, <1>3, <1>4 DEF Transfers

(* What a panel makes of an answer, and a view of an event, is true.         *)
LEMMA OpenedTrue ==
  ASSUME NEW a \in Answer, a.op = "open", AnswerIsTrue(a), NEW q \in Panel,
         ViewIsTrue(q, a.to), a.id # NoPty
  PROVE  ViewIsTrue(Opened(q, a), a.to)
<1>1. Said(a.id, a.driver, a.rev) /\ a.driver \in Windows \cup {NoWindow}
  BY DEF AnswerIsTrue, Answer
<1>2. PICK r : r = Opened(q, a)
  OBVIOUS
<1>3. CASE a.by = "view"
  <2>1. r.id = a.id /\ r.rev = a.rev /\ r.drives = (a.driver = a.to)
    BY <1>2, <1>3 DEF Opened, Panel
  <2>2. Said(r.id, a.driver, r.rev)
    BY <1>1, <2>1
  <2> QED BY <1>1, <1>2, <2>1, <2>2 DEF ViewIsTrue
<1>4. CASE a.by # "view"
  <2>1. r.view = q.view /\ r.id = q.id /\ r.rev = q.rev /\ r.drives = q.drives
    BY <1>2, <1>4 DEF Opened, Panel
  <2> QED BY <1>2, <2>1 DEF ViewIsTrue
<1> QED BY <1>3, <1>4

LEMMA HeardTrue ==
  ASSUME NEW e \in Event, EventIsTrue(e), NEW q \in Panel, NEW w \in Windows,
         ViewIsTrue(q, w)
  PROVE  ViewIsTrue(Heard(q, w, e), w)
<1>1. CASE q.view # "open" \/ q.id # e.id
  BY <1>1 DEF Heard
<1>2. CASE q.view = "open" /\ q.id = e.id /\ e.kind = "closed"
  BY <1>2 DEF Heard, ViewIs, ViewIsTrue, Panel
<1>3. CASE q.view = "open" /\ q.id = e.id /\ e.kind # "closed"
  <2>1. CASE e.rev <= q.rev
    BY <1>3, <2>1 DEF Heard
  <2>2. CASE ~(e.rev <= q.rev)
    <3>1. PICK r : r = Heard(q, w, e)
      OBVIOUS
    <3>2. r = [q EXCEPT !.rev = e.rev, !.drives = e.driver = w]
      BY <1>3, <2>2, <3>1 DEF Heard
    <3>3. r.id = e.id /\ r.rev = e.rev /\ r.drives = (e.driver = w)
      BY <1>3, <3>2 DEF Panel
    <3>4. e.kind = "driver" /\ e.driver \in Windows \cup {NoWindow}
      BY <1>3 DEF Event
    <3>5. Said(r.id, e.driver, r.rev)
      BY <3>3, <3>4 DEF EventIsTrue
    <3> QED BY <3>1, <3>3, <3>4, <3>5 DEF ViewIsTrue
  <2> QED BY <2>1, <2>2
<1> QED BY <1>1, <1>2, <1>3

LEMMA AnsweredFair ==
  ASSUME TypeOK, TypeOK', TableMoves, RevInv, NEW a \in answers, OpenAnswered(a)
  PROVE  Fair
<1>1. a \in Answer /\ a.op = "open" /\ AnswerIsTrue(a)
      /\ a.to \in Windows /\ a.panel \in Panels
  BY DEF OpenAnswered, RevInv, TypeOK, Answer
<1>2. PICK q \in Panel : q = panel[a.to][a.panel]
  BY <1>1 DEF TypeOK
<1>3. ViewIsTrue(q, a.to)
  BY <1>1, <1>2 DEF RevInv
<1>4. UNCHANGED inbox /\ answers' \subseteq answers
  BY DEF OpenAnswered
<1>5. PICK r : r = IF a.id = NoPty THEN NotOpened(q, a) ELSE Opened(q, a)
  OBVIOUS
<1>6. r \in Panel /\ (ViewIsTrue(r, a.to)' \/ r = q \/ r.view # "open")
  <2>1. CASE a.id = NoPty /\ a.by = "view"
    <3>1. r = ViewIs(q, "failed")
      BY <1>5, <2>1 DEF NotOpened
    <3>2. r.view = "failed"
      BY <1>2, <3>1 DEF ViewIs, Panel
    <3> QED BY <1>2, <3>1, <3>2, ViewIsType
  <2>2. CASE a.id = NoPty /\ a.by # "view"
    BY <1>2, <1>5, <2>2 DEF NotOpened
  <2>3. CASE a.id # NoPty
    <3>1. r \in Panel /\ ViewIsTrue(r, a.to)
      BY <1>1, <1>2, <1>3, <1>5, <2>3, OpenedType, OpenedTrue
    <3> QED BY <1>1, <3>1, TruthKept
  <2> QED BY <2>1, <2>2, <2>3
<1>7. \A w \in Windows, p \in Panels :
        panel'[w][p] = IF w = a.to /\ p = a.panel THEN r ELSE panel[w][p]
  <2>1. panel' = [panel EXCEPT ![a.to][a.panel] = r]
    BY <1>2, <1>5 DEF OpenAnswered
  <2> QED BY <2>1 DEF TypeOK
<1>8. ASSUME NEW w \in Windows, NEW p \in Panels
      PROVE  \E o \in Panel :
               /\ o = panel'[w][p]
               /\ ViewIsTrue(o, w)' \/ o = panel[w][p] \/ o.view # "open"
  <2>1. CASE w = a.to /\ p = a.panel
    BY <1>2, <1>6, <1>7, <2>1
  <2>2. CASE ~(w = a.to /\ p = a.panel)
    <3>1. panel'[w][p] = panel[w][p] /\ panel[w][p] \in Panel
      BY <1>7, <2>2 DEF TypeOK
    <3> QED BY <3>1
  <2> QED BY <2>1, <2>2
<1>9. PanelsFair
  BY <1>8 DEF PanelsFair
<1> QED BY <1>4, <1>9, AnswersLess, EventsSame DEF Fair

LEMMA HearFair ==
  ASSUME TypeOK, TypeOK', TableMoves, RevInv, NEW w \in Windows, Hear(w)
  PROVE  Fair
<1>1. inbox[w] \in Seq(Event) /\ inbox[w] # <<>>
  BY DEF Hear, TypeOK
<1>2. PICK e : e = Head(inbox[w])
  OBVIOUS
<1>3. e \in Event /\ e = inbox[w][1] /\ 1 \in DOMAIN inbox[w]
  BY <1>1, <1>2
<1>4. EventIsTrue(e)
  BY <1>3 DEF RevInv
<1>5. UNCHANGED answers
  BY DEF Hear
<1>6. EventsFair
  <2>1. inbox' = [inbox EXCEPT ![w] = Tail(@)]
    BY DEF Hear
  <2>2. inbox'[w] = Tail(inbox[w]) /\ \A v \in Windows \ {w} : inbox'[v] = inbox[v]
    BY <2>1 DEF TypeOK
  <2>3. \A j \in DOMAIN inbox'[w] :
          j + 1 \in DOMAIN inbox[w] /\ inbox'[w][j] = inbox[w][j + 1]
    BY <1>1, <2>2, HeadTailProperties
  <2>4. \A v \in Windows : inbox[v] \in Seq(Event)
    BY DEF TypeOK
  <2>5. \A v \in Windows : \A j \in DOMAIN inbox'[v] :
          \E k \in DOMAIN inbox[v] : inbox'[v][j] = inbox[v][k]
    BY <2>2, <2>3
  <2> QED BY <2>4, <2>5 DEF EventsFair
<1>7. PanelsFair
  <2>1. ASSUME NEW p \in Panels
        PROVE  \E r \in Panel : r = panel'[w][p] /\ ViewIsTrue(r, w)'
    <3>1. PICK q \in Panel : q = panel[w][p]
      BY DEF TypeOK
    <3>2. PICK r : r = Heard(q, w, e)
      OBVIOUS
    <3>3. ViewIsTrue(q, w)
      BY <3>1 DEF RevInv
    <3>4. r \in Panel /\ ViewIsTrue(r, w)
      BY <1>3, <1>4, <3>2, <3>3, HeardType, HeardTrue
    <3>5. ViewIsTrue(r, w)'
      BY <3>4, TruthKept
    <3>6. panel'[w][p] = r
      BY <1>2, <3>1, <3>2 DEF Hear, TypeOK
    <3> QED BY <3>4, <3>5, <3>6
  <2>2. \A v \in Windows \ {w} : panel'[v] = panel[v]
    BY DEF Hear, TypeOK
  <2>3. \A v \in Windows \ {w}, p \in Panels :
          panel'[v][p] = panel[v][p] /\ panel[v][p] \in Panel
    BY <2>2 DEF TypeOK
  <2> QED BY <2>1, <2>3 DEF PanelsFair
<1> QED BY <1>5, <1>6, <1>7, AnswersLess DEF Fair

LEMMA InitRev == Init => RevInv
BY DEF Init, RevInv, ViewIsTrue, NoPanel

LEMMA NextRev ==
  TypeOK /\ TypeOK' /\ TableInv /\ RevInv /\ [Next]_vars => RevInv'
<1> SUFFICES ASSUME TypeOK, TypeOK', TableInv, RevInv, [Next]_vars
             PROVE  Fair
  BY TableMovesOn, TruthStays DEF Fair
<1>1. TableMoves
  BY TableMovesOn
<1>2. CASE MainThread
  <2>1. ASSUME NEW w \in Windows, Emit(w) PROVE Fair
    BY <2>1, PanelsSame, AnswersLess, EventsSame DEF Emit, Fair
  <2> QED BY <1>2, <2>1, AttachFair, SpawnFair, SpawnFailsFair, DetachFair,
             SetDriverFair, CloseFair DEF MainThread
<1>3. CASE Webviews
  <2>1. ASSUME NEW a \in answers, DeleteAnswered(a) PROVE Fair
    <3>1. a.to \in Windows /\ a.panel \in Panels
      BY DEF TypeOK, Answer
    <3>2. /\ answers' \subseteq answers /\ UNCHANGED inbox
          /\ \/ UNCHANGED panel
             \/ panel' = [panel EXCEPT ![a.to][a.panel] = NoPanel]
      BY <2>1 DEF DeleteAnswered, RemovePanel
    <3> QED BY <3>1, <3>2, PanelsSame, QuietPanels, AnswersLess, EventsSame
            DEF Fair
  <2> QED BY <1>1, <1>3, <2>1, AnsweredFair, HearFair DEF Webviews
<1>4. CASE UNCHANGED vars
  BY <1>4, PanelsSame, AnswersLess, EventsSame DEF vars, Fair
<1> QED BY <1>2, <1>3, <1>4, UsersFair, TransfersFair, ThreadsFair
        DEF Next, Threads

LEMMA TableIsInvariant == Spec => [](TypeOK /\ TableInv /\ RevInv)
BY InitType, NextType, InitTable, NextTable, InitRev, NextRev, PTL DEF Spec

(* No view is ahead of the table, and one that believes the table's revision *)
(* knows whether it drives, so that no two of them do: whatever answers and  *)
(* broadcasts overtake each other on their way to a panel, one that was      *)
(* hidden or handed over meanwhile included (ClaudeTermPanel.tsx's           *)
(* comparison of revisions).                                                 *)
THEOREM RevTheorem == Spec => []RevNamesDriver
<1>1. TypeOK /\ RevInv => RevNamesDriver
  <2> SUFFICES ASSUME TypeOK, RevInv, NEW w \in up, NEW p \in Panels,
                      panel[w][p].view = "open",
                      rt.by_id[panel[w][p].id].known
               PROVE  LET q == panel[w][p] s == rt.by_id[q.id] IN
                      q.rev <= s.rev /\ (q.rev = s.rev => q.drives = (s.driver = w))
    BY DEF RevNamesDriver
  <2>1. PICK q : q = panel[w][p]
    OBVIOUS
  <2>2. w \in Windows /\ ViewIsTrue(q, w)
    BY <2>1 DEF RevInv, TypeOK
  <2>3. PICK d \in Windows \cup {NoWindow} :
          Said(q.id, d, q.rev) /\ q.drives = (d = w)
    BY <2>1, <2>2 DEF ViewIsTrue
  <2> QED BY <2>1, <2>3 DEF Said
<1> QED BY <1>1, TableIsInvariant, PTL

-----------------------------------------------------------------------------
(* A transfer is under way in one place: in the calls of its source, or in   *)
(* the mail, and not at all unless it was sent.                              *)

IsEmit(c, p) == c.op = "emit" /\ c.panel = p /\ c.by = "view"
EmitsIn(q, p) == {j \in DOMAIN q : IsEmit(q[j], p)}
Emits(w, p) == EmitsIn(calls[w], p)

(* A panel on its way from a window that waits, or its answer.               *)
IsLetter(m, w, p) ==
  m.panel = p /\ IF m.kind = "panel" THEN m.from = w /\ m.awaited ELSE m.to = w
Letters(w, p) == {m \in mail : IsLetter(m, w, p)}

OneAt(w, p) ==
  /\ \A i, j \in Emits(w, p) : i = j
  /\ \A m, n \in Letters(w, p) : m = n
  /\ Emits(w, p) = {} \/ Letters(w, p) = {}
  /\ moving[w][p].stage # "sent" => Emits(w, p) = {} /\ Letters(w, p) = {}
OneTransfer == \A w \in up, p \in Panels : OneAt(w, p)

(* The emits of `r` are those of `q` that are left.                          *)
Follow(q, r, p) == \E k \in {0, 1} : \A j \in EmitsIn(r, p) : j + k \in EmitsIn(q, p)

LEMMA FollowMap ==
  ASSUME NEW q \in Seq(Call), NEW r \in Seq(Call), NEW p, Len(r) = Len(q),
         \A i \in DOMAIN q : IsEmit(r[i], p) => IsEmit(q[i], p)
  PROVE  Follow(q, r, p)
<1>1. DOMAIN r = DOMAIN q /\ DOMAIN r \subseteq Nat
  OBVIOUS
<1>2. \A j \in EmitsIn(r, p) : j + 0 \in EmitsIn(q, p)
  BY <1>1 DEF EmitsIn
<1> QED BY <1>2 DEF Follow

LEMMA FollowConcat ==
  ASSUME NEW q \in Seq(Call), NEW r \in Seq(Call), NEW s \in Seq(Call), NEW p,
         Follow(q, r, p), EmitsIn(s, p) = {}
  PROVE  Follow(q, r \o s, p)
<1>1. \A j \in EmitsIn(r \o s, p) : j \in EmitsIn(r, p)
  <2> SUFFICES ASSUME NEW j \in DOMAIN (r \o s), IsEmit((r \o s)[j], p)
               PROVE  j \in EmitsIn(r, p)
    BY DEF EmitsIn
  <2>1. j \in 1..(Len(r) + Len(s))
        /\ (r \o s)[j] = IF j <= Len(r) THEN r[j] ELSE s[j - Len(r)]
    BY ConcatProperties
  <2>2. j <= Len(r)
    <3> SUFFICES ASSUME j > Len(r) PROVE FALSE
      BY <2>1
    <3>1. (r \o s)[j] = s[j - Len(r)] /\ j - Len(r) \in DOMAIN s
      BY <2>1
    <3> QED BY <3>1 DEF EmitsIn
  <2> QED BY <2>1, <2>2 DEF EmitsIn
<1> QED BY <1>1 DEF Follow

LEMMA FollowAppend ==
  ASSUME NEW q \in Seq(Call), NEW r \in Seq(Call), NEW c \in Call, NEW p,
         Follow(q, r, p), ~IsEmit(c, p)
  PROVE  Follow(q, Append(r, c), p)
<1>1. \A j \in EmitsIn(Append(r, c), p) : j \in EmitsIn(r, p)
  <2> SUFFICES ASSUME NEW j \in DOMAIN Append(r, c), IsEmit(Append(r, c)[j], p)
               PROVE  j \in EmitsIn(r, p)
    BY DEF EmitsIn
  <2>1. j \in 1..(Len(r) + 1) /\ Append(r, c)[Len(r) + 1] = c
        /\ \A i \in 1..Len(r) : Append(r, c)[i] = r[i]
    BY AppendProperties
  <2> QED BY <2>1 DEF EmitsIn
<1> QED BY <1>1 DEF Follow

LEMMA FollowTail ==
  ASSUME NEW q \in Seq(Call), q # <<>>, NEW p
  PROVE  Follow(q, Tail(q), p)
<1>1. \A j \in DOMAIN Tail(q) : j + 1 \in DOMAIN q /\ Tail(q)[j] = q[j + 1]
  BY HeadTailProperties
<1>2. \A j \in EmitsIn(Tail(q), p) : j + 1 \in EmitsIn(q, p)
  BY <1>1 DEF EmitsIn
<1> QED BY <1>2 DEF Follow

LEMMA FollowNone ==
  ASSUME NEW q, NEW r, NEW p, Follow(q, r, p), EmitsIn(q, p) = {}
  PROVE  EmitsIn(r, p) = {}
BY DEF Follow

(* The calls of a window lose emits, and get none.                           *)
CallsFollow == \A w \in Windows, p \in Panels : Follow(calls[w], calls'[w], p)

LEMMA FollowSame ==
  ASSUME NEW q \in Seq(Call), NEW p
  PROVE  Follow(q, q, p)
BY FollowMap

LEMMA CallsSet ==
  ASSUME TypeOK, NEW w \in Windows, NEW q \in Seq(Call),
         \A p \in Panels : Follow(calls[w], q, p), calls' = [calls EXCEPT ![w] = q]
  PROVE  CallsFollow
<1>1. \A v \in Windows : calls'[v] = IF v = w THEN q ELSE calls[v]
  BY DEF TypeOK
<1>2. \A v \in Windows : calls[v] \in Seq(Call)
  BY DEF TypeOK
<1> QED BY <1>1, <1>2, FollowSame DEF CallsFollow

LEMMA CallsSame ==
  ASSUME TypeOK, UNCHANGED calls
  PROVE  CallsFollow
BY FollowSame DEF CallsFollow, TypeOK

LEMMA CallAdded ==
  ASSUME TypeOK, NEW w \in Windows, NEW c \in Call, c.op # "emit",
         calls' = [calls EXCEPT ![w] = Append(@, c)]
  PROVE  CallsFollow
<1>1. calls[w] \in Seq(Call) /\ Append(calls[w], c) \in Seq(Call)
  BY AppendProperties DEF TypeOK
<1>2. \A p \in Panels : Follow(calls[w], Append(calls[w], c), p)
  BY <1>1, FollowSame, FollowAppend DEF IsEmit
<1> QED BY <1>1, <1>2, CallsSet

LEMMA CallDone ==
  ASSUME TypeOK, NEW w \in Windows, NEW op, Turn(w, op), Ran(w)
  PROVE  CallsFollow
<1>1. calls[w] \in Seq(Call) /\ calls[w] # <<>>
  BY DEF TypeOK, Turn
<1>2. Tail(calls[w]) \in Seq(Call)
  BY <1>1, HeadTailProperties
<1>3. calls' = [calls EXCEPT ![w] = Tail(calls[w])]
  BY DEF Ran
<1> QED BY <1>1, <1>2, <1>3, FollowTail, CallsSet

(* The calls of a panel that goes, before what comes behind them.            *)
LEMMA RemovedCalls ==
  ASSUME TypeOK, NEW w \in Windows, NEW p \in Panels, NEW last \in BOOLEAN,
         NEW told, NEW then, RemovePanel(w, p, last, told, then)
  PROVE  \E q \in Seq(Call) :
           /\ calls' = [calls EXCEPT ![w] = q \o then]
           /\ \A o \in Panels : Follow(calls[w], q, o)
<1> DEFINE q == calls[w]
           r == [i \in DOMAIN q |-> AwaitedBy(p, "panel", "nobody",
                                      AwaitedBy(p, "view", "nobody", q[i]))]
           d == Detaches(p, panel[w][p].sid, last)
<1>1. q \in Seq(Call)
  BY DEF TypeOK
<1>2. r \in Seq(Call) /\ Len(r) = Len(q)
  <2>1. \A old : \A c \in Call : AwaitedBy(p, old, "nobody", c) \in Call
    BY AwaitedType
  <2>2. \A i \in DOMAIN q : q[i] \in Call
    BY <1>1
  <2>3. \A i \in DOMAIN q : r[i] \in Call
    BY <2>1, <2>2
  <2>4. r \in Seq(Call)
    BY <1>1, <2>3, Mapped
  <2>5. DOMAIN r = 1..Len(q) /\ Len(q) \in Nat
    BY <1>1
  <2> HIDE DEF r
  <2> QED BY <2>4, <2>5
<1>3. \A o, i : IsEmit(AwaitedBy(p, "panel", "nobody",
                         AwaitedBy(p, "view", "nobody", q[i])), o)
                  => IsEmit(q[i], o)
  BY DEF AwaitedBy, IsEmit
<1>4. \A o : \A i \in DOMAIN q : IsEmit(r[i], o) => IsEmit(q[i], o)
  BY <1>3
<1>5. d \in Seq(Call) /\ \A o : EmitsIn(d, o) = {}
  <2>1. panel[w][p].sid \in SidType
    BY DEF TypeOK, Panel, SidType
  <2>2. d \in Seq(Call)
    BY <2>1, DetachesType
  <2>3. \A i \in DOMAIN d : d[i].op = "detach"
    BY DEF Detaches, DetachCall, ACall
  <2> QED BY <2>2, <2>3 DEF EmitsIn, IsEmit
<1>6. calls' = [calls EXCEPT ![w] = r \o d \o then]
  BY DEF RemovePanel
<1> HIDE DEF q, r, d
<1>7. \A o : Follow(q, r, o)
  BY <1>1, <1>2, <1>4, FollowMap
<1>8. r \o d \in Seq(Call) /\ \A o : Follow(q, r \o d, o)
  BY <1>1, <1>2, <1>5, <1>7, FollowConcat, ConcatProperties
<1> QED BY <1>6, <1>8 DEF q

(* One transfer keeps being one: nothing is added to it.                     *)
LEMMA OneStays ==
  ASSUME TypeOK, TypeOK', NEW w \in Windows, NEW p \in Panels, OneAt(w, p),
         Follow(calls[w], calls'[w], p), Letters(w, p)' \subseteq Letters(w, p),
         moving[w][p].stage = "sent" => moving'[w][p].stage = "sent"
  PROVE  OneAt(w, p)'
<1>1. PICK k \in {0, 1} : \A j \in Emits(w, p)' : j + k \in Emits(w, p)
  BY DEF Follow, Emits
<1>2. Emits(w, p)' \subseteq Nat
  BY DEF Emits, EmitsIn, TypeOK
<1>3. ASSUME NEW i \in Emits(w, p)', NEW j \in Emits(w, p)' PROVE i = j
  <2>1. i + k = j + k
    BY <1>1 DEF OneAt
  <2> QED BY <1>2, <2>1
<1>4. Emits(w, p) = {} => Emits(w, p)' = {}
  BY <1>1
<1> QED BY <1>3, <1>4 DEF OneAt

(* Steps that send nothing and settle nothing.                               *)
LEMMA QuietOne ==
  ASSUME TypeOK, TypeOK', OneTransfer, CallsFollow, up' \subseteq up,
         mail' \subseteq mail,
         \A w \in up', p \in Panels :
           moving[w][p].stage = "sent" => moving'[w][p].stage = "sent"
  PROVE  OneTransfer'
<1> SUFFICES ASSUME NEW w \in up', NEW p \in Panels PROVE OneAt(w, p)'
  BY DEF OneTransfer
<1>1. w \in Windows /\ OneAt(w, p)
  BY DEF OneTransfer, TypeOK
<1>2. Letters(w, p)' \subseteq Letters(w, p)
  BY DEF Letters
<1> QED BY <1>1, <1>2, OneStays DEF CallsFollow

LEMMA AddPanelFollow ==
  ASSUME TypeOK, NEW w \in Windows, NEW p \in Panels, NEW sid, AddPanel(w, p, sid)
  PROVE  CallsFollow
<1>1. OpenCall(p) \in Call /\ OpenCall(p).op # "emit"
  BY CallTypes DEF OpenCall, ACall
<1> QED BY <1>1, CallAdded DEF AddPanel

LEMMA RemovePanelFollow ==
  ASSUME TypeOK, NEW w \in Windows, NEW p \in Panels, NEW last \in BOOLEAN,
         NEW told, RemovePanel(w, p, last, told, <<>>)
  PROVE  CallsFollow
<1>1. PICK q \in Seq(Call) :
        /\ calls' = [calls EXCEPT ![w] = q \o <<>>]
        /\ \A o \in Panels : Follow(calls[w], q, o)
  BY RemovedCalls
<1>2. q \o <<>> = q
  BY ConcatEmptySeq
<1> QED BY <1>1, <1>2, CallsSet

LEMMA HideFollow ==
  ASSUME TypeOK, NEW w \in Windows, NEW p \in Panels, Hide(w, p)
  PROVE  CallsFollow
<1> DEFINE q == calls[w]
           r == [i \in DOMAIN q |-> AwaitedBy(p, "view", "panel", q[i])]
<1>1. q \in Seq(Call)
  BY DEF TypeOK
<1>2. r \in Seq(Call) /\ Len(r) = Len(q)
  <2>1. \A c \in Call : AwaitedBy(p, "view", "panel", c) \in Call
    BY AwaitedType
  <2>2. \A i \in DOMAIN q : r[i] \in Call
    BY <1>1, <2>1
  <2>3. r \in Seq(Call)
    BY <1>1, <2>2, Mapped
  <2>4. DOMAIN r = 1..Len(q) /\ Len(q) \in Nat
    BY <1>1
  <2> HIDE DEF r
  <2> QED BY <2>3, <2>4
<1>3. \A o, i : IsEmit(AwaitedBy(p, "view", "panel", q[i]), o) => IsEmit(q[i], o)
  BY DEF AwaitedBy, IsEmit
<1>4. \A o : \A i \in DOMAIN q : IsEmit(r[i], o) => IsEmit(q[i], o)
  BY <1>3
<1>5. calls' = [calls EXCEPT ![w] = r]
  BY DEF Hide
<1> HIDE DEF q, r
<1>6. \A o : Follow(q, r, o)
  BY <1>1, <1>2, <1>4, FollowMap
<1> QED BY <1>2, <1>5, <1>6, CallsSet DEF q

LEMMA CloseWindowFollow ==
  ASSUME TypeOK, NEW w \in Windows, CloseWindow(w)
  PROVE  CallsFollow
<1>1. PICK s : s = SetToSeq(Releases(w))
  OBVIOUS
<1>2. s \in Seq(Call) /\ \A j \in DOMAIN s : s[j].op = "detach"
  BY <1>1, ReleasesType
<1>3. \A o : EmitsIn(s, o) = {}
  BY <1>2 DEF EmitsIn, IsEmit
<1>4. calls[w] \in Seq(Call)
  BY DEF TypeOK
<1>5. calls[w] \o s \in Seq(Call) /\ \A o : Follow(calls[w], calls[w] \o s, o)
  BY <1>2, <1>3, <1>4, FollowSame, FollowConcat, ConcatProperties
<1>6. calls' = [calls EXCEPT ![w] = calls[w] \o s]
  BY <1>1 DEF CloseWindow, Releases
<1> QED BY <1>5, <1>6, CallsSet

LEMMA UsersOne == TypeOK /\ TypeOK' /\ OneTransfer /\ Users => OneTransfer'
<1> SUFFICES ASSUME TypeOK, TypeOK', OneTransfer, Users PROVE OneTransfer'
  OBVIOUS
<1>1. ASSUME NEW p \in Panels, OpenPanel(p) PROVE OneTransfer'
  <2>1. CallsFollow
    BY <1>1, MainAssumption, AddPanelFollow DEF OpenPanel
  <2> QED BY <1>1, <2>1, QuietOne DEF OpenPanel, transfers
<1>2. ASSUME NEW w \in Windows, NEW p \in Panels, Hide(w, p) PROVE OneTransfer'
  BY <1>2, HideFollow, QuietOne DEF Hide, transfers
<1>3. ASSUME NEW w \in Windows, NEW p \in Panels, Show(w, p) PROVE OneTransfer'
  <2>1. OpenCall(p) \in Call /\ OpenCall(p).op # "emit"
    BY CallTypes DEF OpenCall, ACall
  <2>2. CallsFollow
    BY <1>3, <2>1, CallAdded DEF Show
  <2> QED BY <1>3, <2>2, QuietOne DEF Show, transfers
<1>4. ASSUME NEW w \in Windows, NEW p \in Panels, ClosePanel(w, p)
      PROVE  OneTransfer'
  <2>1. CallsFollow
    BY <1>4, RemovePanelFollow DEF ClosePanel
  <2> QED BY <1>4, <2>1, QuietOne DEF ClosePanel, transfers
<1>5. ASSUME NEW w \in Windows, NEW p \in Panels, TakeOver(w, p) \/ Delete(w, p)
      PROVE  OneTransfer'
  <2>1. panel[w][p] \in Panel
    BY DEF TypeOK
  <2>2. CASE TakeOver(w, p)
    <3>1. panel[w][p].id \in Ptys
      BY <2>1, <2>2 DEF TakeOver, Panel
    <3>2. TakeCall(p, panel[w][p].id) \in Call
          /\ TakeCall(p, panel[w][p].id).op # "emit"
      BY <3>1, CallTypes DEF TakeCall, ACall
    <3>3. CallsFollow
      BY <2>2, <3>2, CallAdded DEF TakeOver
    <3> QED BY <2>2, <3>3, QuietOne DEF TakeOver, transfers
  <2>3. CASE Delete(w, p)
    <3>1. panel[w][p].sid \in Ptys
      BY <2>1, <2>3 DEF Delete, Panel
    <3>2. CloseCall(p, panel[w][p].sid) \in Call
          /\ CloseCall(p, panel[w][p].sid).op # "emit"
      BY <3>1, CallTypes DEF CloseCall, ACall
    <3>3. CallsFollow
      BY <2>3, <3>2, CallAdded DEF Delete
    <3> QED BY <2>3, <3>3, QuietOne DEF Delete, transfers
  <2> QED BY <1>5, <2>2, <2>3
<1>6. ASSUME NEW w \in Windows, CloseWindow(w) PROVE OneTransfer'
  BY <1>6, CloseWindowFollow, QuietOne DEF CloseWindow, transfers
<1>7. ASSUME NEW w \in Windows, Destroy(w) PROVE OneTransfer'
  <2>1. calls[w] \in Seq(Call) /\ <<>> \in Seq(Call)
    BY EmptySeq DEF TypeOK
  <2>2. \A p \in Panels : Follow(calls[w], <<>>, p)
    BY DEF Follow, EmitsIn
  <2>3. CallsFollow
    BY <1>7, <2>1, <2>2, CallsSet DEF Destroy
  <2>4. \A v \in up' : v # w /\ moving'[v] = moving[v]
    BY <1>7 DEF Destroy, TypeOK
  <2>5. up' \subseteq up /\ mail' \subseteq mail
    BY <1>7 DEF Destroy
  <2> QED BY <2>3, <2>4, <2>5, QuietOne
<1> QED BY <1>1, <1>2, <1>3, <1>4, <1>5, <1>6, <1>7 DEF Users

LEMMA CommandsOne ==
  ASSUME TypeOK, TypeOK', OneTransfer, NEW w \in Windows,
         \/ Attach(w) \/ Spawn(w) \/ SpawnFails(w) \/ Detach(w) \/ SetDriver(w)
         \/ Close(w)
  PROVE  OneTransfer'
<1>1. \E op : Turn(w, op) /\ Ran(w)
  BY DEF Attach, Spawn, SpawnFails, Detach, SetDriver, Close
<1>2. UNCHANGED <<up, transfers>>
  BY DEF Attach, Spawn, SpawnFails, Detach, SetDriver, Close
<1> QED BY <1>1, <1>2, CallDone, QuietOne DEF transfers

LEMMA WebviewsOne ==
  TypeOK /\ TypeOK' /\ OneTransfer /\ (Webviews \/ Threads \/ UNCHANGED vars)
    => OneTransfer'
<1> SUFFICES ASSUME TypeOK, TypeOK', OneTransfer, UNCHANGED <<up, transfers>>,
                    Webviews \/ Threads \/ UNCHANGED vars
             PROVE  CallsFollow
  BY QuietOne
     DEF Webviews, OpenAnswered, DeleteAnswered, Hear, Threads, Exit, PollEnds,
         vars, transfers
<1>1. ASSUME NEW a \in answers, OpenAnswered(a) \/ DeleteAnswered(a)
      PROVE  CallsFollow
  <2>1. a.to \in Windows /\ a.panel \in Panels
    BY DEF TypeOK, Answer
  <2> QED BY <1>1, <2>1, RemovePanelFollow, CallsSame
          DEF OpenAnswered, DeleteAnswered
<1>2. CASE \E w \in Windows : Hear(w)
  BY <1>2, CallsSame DEF Hear
<1>3. CASE Threads
  BY <1>3, CallsSame DEF Threads, Exit, PollEnds
<1>4. CASE UNCHANGED vars
  BY <1>4, CallsSame DEF vars
<1> QED BY <1>1, <1>2, <1>3, <1>4 DEF Webviews

(* The stages of a transfer.                                                 *)
LEMMA HandOffOne ==
  ASSUME TypeOK, TypeOK', OneTransfer, NEW w \in Windows, NEW p \in Panels,
         HandOff(w, p)
  PROVE  OneTransfer'
<1>1. PICK e : e = EmitCall(p, moving[w][p])
  OBVIOUS
<1>2. e \in Call /\ e.op = "emit" /\ e.panel = p
  BY <1>1, EmitCallType DEF TypeOK, EmitCall, ACall
<1>3. PICK q \in Seq(Call) :
        /\ calls' = [calls EXCEPT ![w] = q \o <<e>>]
        /\ \A o \in Panels : Follow(calls[w], q, o)
  <2>1. CASE panel[w][p].here
    <3>1. RemovePanel(w, p, FALSE, answers, <<e>>)
      BY <1>1, <2>1 DEF HandOff
    <3> QED BY <3>1, RemovedCalls
  <2>2. CASE ~panel[w][p].here
    <3>1. calls' = [calls EXCEPT ![w] = calls[w] \o <<e>>]
      BY <1>1, <2>2 DEF HandOff
    <3>2. calls[w] \in Seq(Call)
      BY DEF TypeOK
    <3> QED BY <3>1, <3>2, FollowSame
  <2> QED BY <2>1, <2>2
<1>4. <<e>> \in Seq(Call) /\ Len(<<e>>) = 1 /\ <<e>>[1] = e
  BY <1>2
<1>5. moving' = [moving EXCEPT ![w][p] = [moving[w][p] EXCEPT !.stage = "sent"]]
  BY DEF HandOff
<1>6. \A v \in Windows, o \in Panels :
        moving'[v][o] = IF v = w /\ o = p
                          THEN [moving[w][p] EXCEPT !.stage = "sent"]
                          ELSE moving[v][o]
  BY <1>5 DEF TypeOK
<1>7. \A v \in Windows : calls'[v] = IF v = w THEN q \o <<e>> ELSE calls[v]
  BY <1>3 DEF TypeOK
<1>8. UNCHANGED <<up, mail>>
  BY DEF HandOff
<1>9. ASSUME NEW v \in up, NEW o \in Panels, v # w \/ o # p
      PROVE  OneAt(v, o)'
  <2>1. v \in Windows /\ calls[v] \in Seq(Call)
    BY DEF TypeOK
  <2>2. Follow(calls[v], calls'[v], o)
    <3>1. CASE v # w
      BY <1>7, <2>1, <3>1, FollowSame
    <3>2. CASE v = w
      <4>1. EmitsIn(<<e>>, o) = {}
        BY <1>2, <1>4, <1>9, <3>2 DEF EmitsIn, IsEmit
      <4>2. Follow(calls[w], q \o <<e>>, o)
        BY <1>3, <1>4, <2>1, <3>2, <4>1, FollowConcat
      <4> QED BY <1>7, <3>2, <4>2
    <3> QED BY <3>1, <3>2
  <2>3. moving'[v][o] = moving[v][o]
    BY <1>6, <1>9, <2>1
  <2>4. Letters(v, o)' \subseteq Letters(v, o)
    BY <1>8 DEF Letters
  <2> QED BY <2>1, <2>2, <2>3, <2>4, OneStays DEF OneTransfer
<1>10. ASSUME w \in up PROVE OneAt(w, p)'
  <2>1. Emits(w, p) = {} /\ Letters(w, p) = {}
    BY <1>10 DEF HandOff, OneTransfer, OneAt
  <2>2. EmitsIn(q, p) = {}
    BY <1>3, <2>1, FollowNone DEF Emits
  <2>3. \A j \in Emits(w, p)' : j = Len(q) + 1
    <3> SUFFICES ASSUME NEW j \in DOMAIN (q \o <<e>>), IsEmit((q \o <<e>>)[j], p)
                 PROVE  j = Len(q) + 1
      BY <1>7 DEF Emits, EmitsIn
    <3>1. j \in 1..(Len(q) + 1)
          /\ (q \o <<e>>)[j] = IF j <= Len(q) THEN q[j] ELSE <<e>>[j - Len(q)]
      BY <1>4, ConcatProperties
    <3>2. ~(j <= Len(q))
      BY <2>2, <3>1 DEF EmitsIn
    <3> QED BY <3>1, <3>2
  <2>4. Letters(w, p)' = {}
    BY <1>8, <2>1 DEF Letters
  <2>5. moving'[w][p].stage = "sent"
    BY <1>6 DEF TypeOK, Moving
  <2> QED BY <2>3, <2>4, <2>5 DEF OneAt
<1> QED BY <1>8, <1>9, <1>10 DEF HandOff, OneTransfer

LEMMA EmitOne ==
  ASSUME TypeOK, TypeOK', OneTransfer, NEW w \in Windows, Emit(w)
  PROVE  OneTransfer'
<1>1. PICK c : c = Head(calls[w])
  OBVIOUS
<1>2. c \in Call /\ c.op = "emit"
  BY <1>1, CallRan DEF Emit, TypeOK, Calls
<1>3. PICK m : m = [kind |-> "panel", from |-> w, to |-> c.to, panel |-> c.panel,
                    sid |-> c.id, awaited |-> c.by = "view"]
  OBVIOUS
<1>4. mail' = mail \cup {m} /\ UNCHANGED <<up, moving>>
  BY <1>1, <1>3 DEF Emit
<1>5. CallsFollow
  BY CallDone DEF Emit
<1>6. \A v, o : IsLetter(m, v, o) => v = w /\ o = c.panel /\ c.by = "view"
  BY <1>3 DEF IsLetter
<1>7. ASSUME NEW v \in up, NEW o \in Panels,
             ~(v = w /\ o = c.panel /\ c.by = "view")
      PROVE  OneAt(v, o)'
  <2>1. Letters(v, o)' \subseteq Letters(v, o)
    BY <1>4, <1>6, <1>7 DEF Letters
  <2>2. v \in Windows /\ OneAt(v, o) /\ Follow(calls[v], calls'[v], o)
    BY <1>5 DEF TypeOK, OneTransfer, CallsFollow
  <2> QED BY <1>4, <2>1, <2>2, OneStays
<1>8. ASSUME w \in up, c.by = "view" PROVE OneAt(w, c.panel)'
  <2>1. c.panel \in Panels
    BY <1>2 DEF Call
  <2>2. OneAt(w, c.panel)
    BY <1>8, <2>1 DEF OneTransfer
  <2>3. calls[w] \in Seq(Call) /\ calls[w] # <<>> /\ calls'[w] = Tail(calls[w])
    BY DEF Emit, Turn, Ran, TypeOK
  <2>4. 1 \in Emits(w, c.panel)
    BY <1>1, <1>2, <1>8, <2>3 DEF Emits, EmitsIn, IsEmit
  <2>5. Letters(w, c.panel) = {} /\ \A j \in Emits(w, c.panel) : j = 1
    BY <2>2, <2>4 DEF OneAt
  <2>6. Emits(w, c.panel)' = {}
    <3> SUFFICES ASSUME NEW j \in DOMAIN Tail(calls[w]),
                        IsEmit(Tail(calls[w])[j], c.panel)
                 PROVE  FALSE
      BY <2>3 DEF Emits, EmitsIn
    <3>1. /\ j \in Nat /\ j >= 1 /\ j + 1 \in DOMAIN calls[w]
          /\ Tail(calls[w])[j] = calls[w][j + 1]
      BY <2>3, HeadTailProperties
    <3>2. j + 1 \in Emits(w, c.panel)
      BY <3>1 DEF Emits, EmitsIn
    <3> QED BY <2>5, <3>1, <3>2
  <2>7. \A l \in Letters(w, c.panel)' : l = m
    BY <1>4, <2>5 DEF Letters
  <2>8. moving'[w][c.panel].stage = "sent"
    BY <1>4, <2>2, <2>4 DEF OneAt
  <2> QED BY <2>6, <2>7, <2>8 DEF OneAt
<1> QED BY <1>4, <1>7, <1>8 DEF OneTransfer

LEMMA AckTimeoutCalls ==
  ASSUME TypeOK, NEW w \in Windows, NEW p \in Panels, AckTimeout(w, p)
  PROVE  CallsFollow /\ Emits(w, p)' = {}
<1> DEFINE q == calls[w]
           r == [i \in DOMAIN q |-> NoOneWaits(p, q[i])]
<1>1. q \in Seq(Call)
  BY DEF TypeOK
<1>2. r \in Seq(Call) /\ Len(r) = Len(q)
  <2>1. \A i \in DOMAIN q : r[i] \in Call
    BY <1>1, NoOneWaitsType
  <2>2. r \in Seq(Call)
    BY <1>1, <2>1, Mapped
  <2>3. DOMAIN r = 1..Len(q) /\ Len(q) \in Nat
    BY <1>1
  <2> HIDE DEF r
  <2> QED BY <2>2, <2>3
<1>3. \A o : \A i \in DOMAIN q : IsEmit(r[i], o) => IsEmit(q[i], o)
  <2>1. \A o, i : IsEmit(NoOneWaits(p, q[i]), o) => IsEmit(q[i], o)
    BY DEF NoOneWaits, IsEmit
  <2> QED BY <2>1
<1>4. EmitsIn(r, p) = {}
  <2>1. \A i \in DOMAIN q : ~IsEmit(NoOneWaits(p, q[i]), p)
    <3>1. \A c \in Call : ~IsEmit(NoOneWaits(p, c), p)
      BY DEF NoOneWaits, IsEmit, Call
    <3> QED BY <1>1, <3>1
  <2> QED BY <2>1 DEF EmitsIn
<1>5. \/ calls' = [calls EXCEPT ![w] = r]
      \/ calls' = [[calls EXCEPT ![w] = r] EXCEPT ![w] = Append(@, OpenCall(p))]
  BY DEF AckTimeout
<1> HIDE DEF q, r
<1>6. PICK c : c = OpenCall(p)
  OBVIOUS
<1>7. c \in Call /\ \A o : ~IsEmit(c, o)
  BY <1>6, CallTypes DEF OpenCall, ACall, IsEmit
<1>8. \A o : Follow(q, r, o)
  BY <1>1, <1>2, <1>3, FollowMap
<1>9. Append(r, c) \in Seq(Call)
  BY <1>2, <1>7, AppendProperties
<1>10. \A o : Follow(q, Append(r, c), o) /\ Follow(r, Append(r, c), o)
  BY <1>1, <1>2, <1>7, <1>8, FollowSame, FollowAppend
<1>11. PICK s \in {r, Append(r, c)} : calls' = [calls EXCEPT ![w] = s]
  <2>1. \A v \in Windows : [calls EXCEPT ![w] = r][v] = IF v = w THEN r ELSE calls[v]
    BY DEF TypeOK
  <2>2. [[calls EXCEPT ![w] = r] EXCEPT ![w] = Append(@, c)]
          = [calls EXCEPT ![w] = Append(r, c)]
    BY <2>1 DEF TypeOK
  <2> QED BY <1>5, <1>6, <2>2
<1>12. s \in Seq(Call) /\ (\A o : Follow(q, s, o)) /\ EmitsIn(s, p) = {}
  <2>1. EmitsIn(Append(r, c), p) = {}
    BY <1>4, <1>10, FollowNone
  <2> QED BY <1>2, <1>4, <1>8, <1>9, <1>10, <1>11, <2>1
<1>13. calls'[w] = s
  BY <1>11 DEF TypeOK
<1>14. Emits(w, p)' = {}
  BY <1>12, <1>13 DEF Emits
<1> QED BY <1>11, <1>12, <1>14, CallsSet DEF q

LEMMA UnawaitedLetters ==
  ASSUME TypeOK, NEW w, NEW p, mail' = Unawaited(w, p)
  PROVE  \A v, o : Letters(v, o)' \subseteq Letters(v, o)
<1> SUFFICES ASSUME NEW v, NEW o, NEW l \in Unawaited(w, p), IsLetter(l, v, o)
             PROVE  l \in mail
  BY DEF Letters
<1>1. PICK m \in mail :
        l = IF m.kind = "panel" /\ m.from = w /\ m.panel = p
              THEN [m EXCEPT !.awaited = FALSE] ELSE m
  BY DEF Unawaited
<1>2. m \in Mail
  BY DEF TypeOK
<1>3. CASE m.kind = "panel" /\ m.from = w /\ m.panel = p
  <2>1. l = [m EXCEPT !.awaited = FALSE]
    BY <1>1, <1>3
  <2>2. l.kind = "panel" /\ l.awaited = FALSE
    BY <1>2, <1>3, <2>1 DEF Mail
  <2> QED BY <2>2 DEF IsLetter
<1>4. CASE ~(m.kind = "panel" /\ m.from = w /\ m.panel = p)
  BY <1>1, <1>4
<1> QED BY <1>3, <1>4

LEMMA AckTimeoutOne ==
  ASSUME TypeOK, TypeOK', OneTransfer, NEW w \in Windows, NEW p \in Panels,
         AckTimeout(w, p)
  PROVE  OneTransfer'
<1>1. CallsFollow /\ Emits(w, p)' = {}
  BY AckTimeoutCalls
<1>2. UNCHANGED up /\ mail' = Unawaited(w, p)
      /\ moving' = [moving EXCEPT ![w][p] = NotMoving]
  BY DEF AckTimeout, Settle
<1>3. \A v \in Windows, o \in Panels :
        moving'[v][o] = IF v = w /\ o = p THEN NotMoving ELSE moving[v][o]
  BY <1>2 DEF TypeOK
<1>4. \A v, o : Letters(v, o)' \subseteq Letters(v, o)
  BY <1>2, UnawaitedLetters
<1>5. Letters(w, p)' = {}
  <2> SUFFICES ASSUME NEW l \in Unawaited(w, p), IsLetter(l, w, p) PROVE FALSE
    BY <1>2 DEF Letters
  <2>1. PICK m \in mail :
          /\ ~(m.kind # "panel" /\ m.to = w /\ m.panel = p)
          /\ l = IF m.kind = "panel" /\ m.from = w /\ m.panel = p
                   THEN [m EXCEPT !.awaited = FALSE] ELSE m
    BY DEF Unawaited
  <2>2. m \in Mail
    BY DEF TypeOK
  <2>3. CASE m.kind = "panel" /\ m.from = w /\ m.panel = p
    <3>1. l = [m EXCEPT !.awaited = FALSE]
      BY <2>1, <2>3
    <3>2. l.kind = "panel" /\ l.awaited = FALSE
      BY <2>2, <2>3, <3>1 DEF Mail
    <3> QED BY <3>2 DEF IsLetter
  <2>4. CASE ~(m.kind = "panel" /\ m.from = w /\ m.panel = p)
    BY <2>1, <2>4 DEF IsLetter
  <2> QED BY <2>3, <2>4
<1>6. ASSUME NEW v \in up, NEW o \in Panels, v # w \/ o # p
      PROVE  OneAt(v, o)'
  <2>1. v \in Windows /\ OneAt(v, o) /\ Follow(calls[v], calls'[v], o)
    BY <1>1 DEF TypeOK, OneTransfer, CallsFollow
  <2>2. moving'[v][o] = moving[v][o]
    BY <1>3, <1>6, <2>1
  <2> QED BY <1>4, <2>1, <2>2, OneStays
<1>7. OneAt(w, p)'
  BY <1>1, <1>5 DEF OneAt
<1> QED BY <1>2, <1>6, <1>7 DEF OneTransfer

(* A panel is answered, and its letter becomes the answer.                   *)
LEMMA ReplyOne ==
  ASSUME TypeOK, TypeOK', OneTransfer, NEW m \in mail, m.kind = "panel",
         NEW kind \in {"taken", "refused"}, Reply(m, kind), CallsFollow,
         UNCHANGED <<up, moving>>
  PROVE  OneTransfer'
<1>1. m \in Mail
  BY DEF TypeOK
<1>2. PICK r : r = [m EXCEPT !.kind = kind, !.from = m.to, !.to = m.from]
  OBVIOUS
<1>3. r.kind = kind /\ r.to = m.from /\ r.panel = m.panel
  BY <1>1, <1>2 DEF Mail
<1>4. \A v, o : IsLetter(r, v, o) => v = m.from /\ o = m.panel
  BY <1>3 DEF IsLetter
<1>5. mail' = (mail \ {m}) \cup (IF m.awaited THEN {r} ELSE {})
  BY <1>2 DEF Reply
<1>6. ASSUME NEW v \in up, NEW o \in Panels,
             ~(m.awaited /\ v = m.from /\ o = m.panel)
      PROVE  OneAt(v, o)'
  <2>1. Letters(v, o)' \subseteq Letters(v, o)
    BY <1>4, <1>5, <1>6 DEF Letters
  <2>2. v \in Windows /\ OneAt(v, o) /\ Follow(calls[v], calls'[v], o)
    BY DEF TypeOK, OneTransfer, CallsFollow
  <2> QED BY <2>1, <2>2, OneStays
<1>7. ASSUME NEW v \in up, NEW o \in Panels,
             m.awaited, v = m.from, o = m.panel
      PROVE  OneAt(v, o)'
  <2>1. v \in Windows /\ OneAt(v, o) /\ Follow(calls[v], calls'[v], o)
    BY DEF TypeOK, OneTransfer, CallsFollow
  <2>2. m \in Letters(v, o)
    BY <1>7 DEF Letters, IsLetter
  <2>3. Emits(v, o) = {} /\ \A l \in Letters(v, o) : l = m
    BY <2>1, <2>2 DEF OneAt
  <2>4. Emits(v, o)' = {}
    BY <2>1, <2>3, FollowNone DEF Emits
  <2>5. \A l \in Letters(v, o)' : l = r
    BY <1>5, <1>7, <2>3 DEF Letters
  <2>6. moving'[v][o].stage = "sent"
    BY <2>1, <2>2 DEF OneAt
  <2> QED BY <2>4, <2>5, <2>6 DEF OneAt
<1> QED BY <1>6, <1>7 DEF OneTransfer

LEMMA ResultOne ==
  ASSUME TypeOK, TypeOK', OneTransfer, NEW m \in mail, Result(m)
  PROVE  OneTransfer'
<1>1. m.to \in up /\ m.to \in Windows /\ m.panel \in Panels /\ m.kind # "panel"
  BY DEF Result, TypeOK, Mail
<1>2. mail' = mail \ {m} /\ UNCHANGED up
      /\ moving' = [moving EXCEPT ![m.to][m.panel] = NotMoving]
  BY DEF Result, Settle
<1>3. \A v \in Windows, o \in Panels :
        moving'[v][o] = IF v = m.to /\ o = m.panel THEN NotMoving ELSE moving[v][o]
  BY <1>1, <1>2 DEF TypeOK
<1>4. CallsFollow
  BY <1>1, AddPanelFollow, CallsSame DEF Result, Reinsert
<1>5. ASSUME NEW v \in up, NEW o \in Panels, v # m.to \/ o # m.panel
      PROVE  OneAt(v, o)'
  <2>1. v \in Windows /\ OneAt(v, o) /\ Follow(calls[v], calls'[v], o)
    BY <1>4 DEF TypeOK, OneTransfer, CallsFollow
  <2>2. Letters(v, o)' \subseteq Letters(v, o)
    BY <1>2 DEF Letters
  <2>3. moving'[v][o] = moving[v][o]
    BY <1>3, <1>5, <2>1
  <2> QED BY <2>1, <2>2, <2>3, OneStays
<1>6. ASSUME NEW v \in up, NEW o \in Panels, v = m.to, o = m.panel
      PROVE  OneAt(v, o)'
  <2>1. v \in Windows /\ OneAt(v, o) /\ Follow(calls[v], calls'[v], o)
    BY <1>4 DEF TypeOK, OneTransfer, CallsFollow
  <2>2. m \in Letters(v, o)
    BY <1>1, <1>6 DEF Letters, IsLetter
  <2>3. Emits(v, o) = {} /\ \A l \in Letters(v, o) : l = m
    BY <2>1, <2>2 DEF OneAt
  <2>4. Emits(v, o)' = {}
    BY <2>1, <2>3, FollowNone DEF Emits
  <2>5. Letters(v, o)' = {}
    BY <1>2, <2>3 DEF Letters
  <2> QED BY <2>4, <2>5 DEF OneAt
<1> QED BY <1>2, <1>5, <1>6 DEF OneTransfer

LEMMA TransfersOne == TypeOK /\ TypeOK' /\ OneTransfer /\ Transfers => OneTransfer'
<1> SUFFICES ASSUME TypeOK, TypeOK', OneTransfer, Transfers PROVE OneTransfer'
  OBVIOUS
<1>1. ASSUME NEW w \in Windows, NEW p \in Panels, NEW v \in Windows,
             MoveStart(w, p, v)
      PROVE  OneTransfer'
  <2>1. CallsFollow
    BY <1>1, CallsSame DEF MoveStart
  <2>2. PICK x : moving' = [moving EXCEPT ![w][p] = x]
    BY <1>1 DEF MoveStart
  <2>3. \A u \in Windows, o \in Panels : u # w \/ o # p =>
          moving'[u][o] = moving[u][o]
    BY <2>2 DEF TypeOK
  <2>4. moving[w][p].stage # "sent" /\ UNCHANGED <<up, mail>>
    BY <1>1 DEF MoveStart
  <2>5. \A u \in up', o \in Panels :
          moving[u][o].stage = "sent" => moving'[u][o].stage = "sent"
    BY <2>3, <2>4 DEF TypeOK
  <2> QED BY <2>1, <2>4, <2>5, QuietOne
<1>2. ASSUME NEW w \in Windows, NEW p \in Panels, MoveAborted(w, p)
      PROVE  OneTransfer'
  <2>1. CallsFollow
    BY <1>2, CallsSame DEF MoveAborted
  <2>2. moving' = [moving EXCEPT ![w][p] = NotMoving]
    BY <1>2 DEF MoveAborted, Settle
  <2>3. \A u \in Windows, o \in Panels : u # w \/ o # p =>
          moving'[u][o] = moving[u][o]
    BY <2>2 DEF TypeOK
  <2>4. moving[w][p].stage # "sent" /\ UNCHANGED <<up, mail>>
    BY <1>2 DEF MoveAborted
  <2>5. \A u \in up', o \in Panels :
          moving[u][o].stage = "sent" => moving'[u][o].stage = "sent"
    BY <2>3, <2>4 DEF TypeOK
  <2> QED BY <2>1, <2>4, <2>5, QuietOne
<1>3. ASSUME NEW m \in mail, Take(m) PROVE OneTransfer'
  <2>1. m.to \in Windows /\ m.panel \in Panels
    BY DEF TypeOK, Mail
  <2>2. CallsFollow
    BY <1>3, <2>1, AddPanelFollow DEF Take
  <2> QED BY <1>3, <2>2, ReplyOne DEF Take
<1>4. ASSUME NEW m \in mail, Refuse(m) PROVE OneTransfer'
  <2>1. CallsFollow
    BY <1>4, CallsSame DEF Refuse
  <2> QED BY <1>4, <2>1, ReplyOne DEF Refuse
<1>5. ASSUME NEW m \in mail, Undelivered(m) PROVE OneTransfer'
  <2>1. CallsFollow
    BY <1>5, CallsSame DEF Undelivered
  <2> QED BY <1>5, <2>1, QuietOne DEF Undelivered
<1> QED BY <1>1, <1>2, <1>3, <1>4, <1>5, HandOffOne, AckTimeoutOne, ResultOne
        DEF Transfers

LEMMA InitOne == Init => OneTransfer
BY DEF Init, OneTransfer, OneAt, Emits, EmitsIn, Letters

LEMMA NextOne == TypeOK /\ TypeOK' /\ OneTransfer /\ [Next]_vars => OneTransfer'
BY UsersOne, CommandsOne, EmitOne, WebviewsOne, TransfersOne DEF Next, MainThread

-----------------------------------------------------------------------------
(* A panel is held where it is, and by its source until it was taken.        *)

Holds(w, p) ==
  \/ panel[w][p].here
  \/ moving[w][p].stage = "sent" /\ \A m \in Letters(w, p) : m.kind # "taken"
HeldAt(p) == \E w \in up : Holds(w, p)
Held == \A p \in kept : HeldAt(p)

LEMMA StillHeld ==
  ASSUME Held,
         \A p \in kept' :
           \/ HeldAt(p)'
           \/ p \in kept /\ \A w \in up : Holds(w, p) => w \in up' /\ Holds(w, p)'
  PROVE  Held'
BY DEF Held, HeldAt

(* A step that takes no panel away, settles nothing and takes nothing.       *)
LEMMA HoldsOn ==
  ASSUME NEW w, NEW p, Holds(w, p), panel[w][p].here => panel'[w][p].here,
         moving[w][p].stage = "sent" => moving'[w][p].stage = "sent",
         \A m \in Letters(w, p)' : m \in Letters(w, p) \/ m.kind # "taken"
  PROVE  Holds(w, p)'
BY DEF Holds

LEMMA QuietHeld ==
  ASSUME Held, up \subseteq up', kept' \subseteq kept,
         mail' \subseteq mail, UNCHANGED moving,
         \A w \in up, p \in kept' : panel[w][p].here => panel'[w][p].here
  PROVE  Held'
<1>1. ASSUME NEW w \in up, NEW p \in kept', Holds(w, p) PROVE Holds(w, p)'
  <2>1. Letters(w, p)' \subseteq Letters(w, p)
    BY DEF Letters
  <2> QED BY <1>1, <2>1, HoldsOn
<1> QED BY <1>1, StillHeld

(* What becomes of the panels.                                               *)
LEMMA PanelHere ==
  ASSUME TypeOK, NEW w \in Windows, NEW p \in Panels
  PROVE  /\ \A sid : panel' = [panel EXCEPT ![w][p] = Added(sid)]
              => panel'[w][p].here
                 /\ \A v \in Windows, o \in Panels :
                      panel[v][o].here => panel'[v][o].here
         /\ panel' = [panel EXCEPT ![w][p] = NoPanel]
              => \A v \in Windows, o \in Panels :
                   v # w \/ o # p => panel'[v][o] = panel[v][o]
         /\ \A view : panel' = [panel EXCEPT ![w][p] = ViewIs(@, view)]
              => \A v \in Windows, o \in Panels :
                   panel[v][o].here => panel'[v][o].here
<1>1. ASSUME NEW sid, panel' = [panel EXCEPT ![w][p] = Added(sid)]
      PROVE  /\ panel'[w][p].here
             /\ \A v \in Windows, o \in Panels :
                  panel[v][o].here => panel'[v][o].here
  <2>1. PICK q : q = Added(sid)
    OBVIOUS
  <2>2. q.here = TRUE
    BY <2>1 DEF Added, NoPanel
  <2>3. \A v \in Windows, o \in Panels :
          panel'[v][o] = IF v = w /\ o = p THEN q ELSE panel[v][o]
    BY <1>1, <2>1 DEF TypeOK
  <2> QED BY <2>2, <2>3
<1>2. ASSUME panel' = [panel EXCEPT ![w][p] = NoPanel]
      PROVE  \A v \in Windows, o \in Panels :
               v # w \/ o # p => panel'[v][o] = panel[v][o]
  BY <1>2 DEF TypeOK
<1>3. ASSUME NEW view, panel' = [panel EXCEPT ![w][p] = ViewIs(@, view)]
      PROVE  \A v \in Windows, o \in Panels :
               panel[v][o].here => panel'[v][o].here
  <2>1. PICK q : q = ViewIs(panel[w][p], view)
    OBVIOUS
  <2>2. panel[w][p] \in Panel
    BY DEF TypeOK
  <2>3. q.here = panel[w][p].here
    BY <2>1, <2>2 DEF ViewIs, Panel
  <2>4. \A v \in Windows, o \in Panels :
          panel'[v][o] = IF v = w /\ o = p THEN q ELSE panel[v][o]
    BY <1>3, <2>1 DEF TypeOK
  <2> QED BY <2>3, <2>4
<1> QED BY <1>1, <1>2, <1>3

LEMMA UsersHeld == TypeOK /\ Held /\ Users => Held'
<1> SUFFICES ASSUME TypeOK, Held, Users PROVE Held'
  OBVIOUS
<1>1. up \subseteq Windows /\ kept \subseteq Panels
  BY DEF TypeOK
<1>2. ASSUME NEW p \in Panels, OpenPanel(p) PROVE Held'
  <2>1. panel' = [panel EXCEPT ![Main][p] = Added(NoPty)] /\ Main \in up'
        /\ kept' = kept \cup {p} /\ UNCHANGED <<up, moving, mail>>
    BY <1>2 DEF OpenPanel, AddPanel, User, transfers
  <2>2. /\ panel'[Main][p].here
        /\ \A v \in Windows, o \in Panels : panel[v][o].here => panel'[v][o].here
    BY <2>1, MainAssumption, PanelHere
  <2>3. HeldAt(p)'
    BY <2>1, <2>2 DEF HeldAt, Holds
  <2>4. ASSUME NEW w \in up, NEW o \in kept, Holds(w, o) PROVE Holds(w, o)'
    <3>1. Letters(w, o)' \subseteq Letters(w, o)
      BY <2>1 DEF Letters
    <3> QED BY <1>1, <2>1, <2>2, <2>4, <3>1, HoldsOn
  <2> QED BY <2>1, <2>3, <2>4, StillHeld
<1>3. ASSUME NEW w \in Windows, NEW p \in Panels, Hide(w, p) \/ Show(w, p)
      PROVE  Held'
  <2> PICK view : panel' = [panel EXCEPT ![w][p] = ViewIs(@, view)]
    BY <1>3 DEF Hide, Show
  <2>1. \A v \in Windows, o \in Panels : panel[v][o].here => panel'[v][o].here
    BY PanelHere
  <2>2. UNCHANGED <<up, mail, moving, kept>>
    BY <1>3 DEF Hide, Show, transfers
  <2> QED BY <1>1, <2>1, <2>2, QuietHeld
<1>4. ASSUME NEW w \in Windows, NEW p \in Panels, ClosePanel(w, p) PROVE Held'
  <2>1. panel' = [panel EXCEPT ![w][p] = NoPanel] /\ kept' = kept \ {p}
        /\ UNCHANGED <<up, mail, moving>>
    BY <1>4 DEF ClosePanel, RemovePanel, transfers
  <2>2. \A v \in Windows, o \in Panels : o # p => panel'[v][o] = panel[v][o]
    BY <2>1, PanelHere
  <2> QED BY <1>1, <2>1, <2>2, QuietHeld
<1>5. ASSUME NEW w \in Windows,
             CloseWindow(w) \/ \E p \in Panels : TakeOver(w, p) \/ Delete(w, p)
      PROVE  Held'
  BY <1>5, QuietHeld DEF CloseWindow, TakeOver, Delete, transfers
<1>6. ASSUME NEW w \in Windows, Destroy(w) PROVE Held'
  <2>1. /\ up' = up \ {w} /\ UNCHANGED mail
        /\ kept' = {p \in kept : ~panel[w][p].here /\ moving[w][p].stage # "sent"}
    BY <1>6 DEF Destroy
  <2>2. \A v \in Windows \ {w} : panel'[v] = panel[v] /\ moving'[v] = moving[v]
    BY <1>6 DEF Destroy, TypeOK
  <2>3. ASSUME NEW v \in up, NEW p \in kept', Holds(v, p)
        PROVE  v \in up' /\ Holds(v, p)'
    <3>1. v # w
      BY <2>1, <2>3 DEF Holds
    <3>2. Letters(v, p)' \subseteq Letters(v, p)
      BY <2>1 DEF Letters
    <3>3. panel'[v] = panel[v] /\ moving'[v] = moving[v]
      BY <1>1, <2>2, <3>1
    <3> QED BY <2>1, <2>3, <3>1, <3>2, <3>3, HoldsOn
  <2> QED BY <2>1, <2>3, StillHeld
<1> QED BY <1>2, <1>3, <1>4, <1>5, <1>6 DEF Users

LEMMA BackendHeld ==
  ASSUME TypeOK, Held,
         \/ \E w \in Windows :
              \/ Attach(w) \/ Spawn(w) \/ SpawnFails(w) \/ Detach(w)
              \/ SetDriver(w) \/ Close(w)
         \/ Threads \/ UNCHANGED vars
  PROVE  Held'
<1>1. UNCHANGED <<up, panel, moving, mail, kept>>
  BY DEF Attach, Spawn, SpawnFails, Detach, SetDriver, Close, Threads, Exit,
         PollEnds, vars, transfers
<1> QED BY <1>1, QuietHeld

(* An emit and a refusal are no taking.                                      *)
LEMMA EmitHeld ==
  ASSUME TypeOK, Held, NEW w \in Windows, Emit(w)
  PROVE  Held'
<1>1. PICK m : mail' = mail \cup {m} /\ m.kind = "panel"
  <2>1. PICK c : c = Head(calls[w])
    OBVIOUS
  <2>2. PICK m : m = [kind |-> "panel", from |-> w, to |-> c.to, panel |-> c.panel,
                      sid |-> c.id, awaited |-> c.by = "view"]
    OBVIOUS
  <2>3. mail' = mail \cup {m}
    BY <2>1, <2>2 DEF Emit
  <2> QED BY <2>2, <2>3
<1>2. UNCHANGED <<up, panel, moving, kept>>
  BY DEF Emit
<1>3. ASSUME NEW v \in up, NEW p \in kept, Holds(v, p) PROVE Holds(v, p)'
  <2>1. \A l \in Letters(v, p)' : l \in Letters(v, p) \/ l.kind # "taken"
    BY <1>1 DEF Letters
  <2> QED BY <1>2, <1>3, <2>1, HoldsOn
<1> QED BY <1>2, <1>3, StillHeld

LEMMA WebviewsHeld == TypeOK /\ Held /\ Webviews => Held'
<1> SUFFICES ASSUME TypeOK, Held, Webviews PROVE Held'
  OBVIOUS
<1>1. up \subseteq Windows /\ kept \subseteq Panels
  BY DEF TypeOK
<1>2. ASSUME NEW a \in answers, OpenAnswered(a) PROVE Held'
  <2>1. a \in Answer /\ a.to \in Windows /\ a.panel \in Panels
    BY DEF TypeOK, Answer
  <2>2. PICK q : q = panel[a.to][a.panel]
    OBVIOUS
  <2>3. PICK r : r = IF a.id = NoPty THEN NotOpened(q, a) ELSE Opened(q, a)
    OBVIOUS
  <2>4. q \in Panel
    BY <2>1, <2>2 DEF TypeOK
  <2>5. r.here = q.here
    <3>1. CASE a.by = "view"
      BY <2>3, <2>4, <3>1 DEF NotOpened, Opened, ViewIs, Panel
    <3>2. CASE a.by # "view"
      BY <2>3, <2>4, <3>2 DEF NotOpened, Opened, Panel
    <3> QED BY <3>1, <3>2
  <2>6. panel' = [panel EXCEPT ![a.to][a.panel] = r]
    BY <1>2, <2>2, <2>3 DEF OpenAnswered
  <2>7. \A v \in Windows, o \in Panels :
          panel'[v][o] = IF v = a.to /\ o = a.panel THEN r ELSE panel[v][o]
    BY <2>1, <2>6 DEF TypeOK
  <2>8. \A v \in Windows, o \in Panels : panel[v][o].here => panel'[v][o].here
    BY <2>2, <2>5, <2>7
  <2>9. UNCHANGED <<up, moving, mail, kept>>
    BY <1>2 DEF OpenAnswered, transfers
  <2> QED BY <1>1, <2>8, <2>9, QuietHeld
<1>3. ASSUME NEW a \in answers, DeleteAnswered(a) PROVE Held'
  <2>1. a.to \in Windows /\ a.panel \in Panels
    BY DEF TypeOK, Answer
  <2>2. UNCHANGED <<up, moving, mail>>
    BY <1>3 DEF DeleteAnswered, transfers
  <2>3. \/ UNCHANGED <<panel, kept>>
        \/ panel' = [panel EXCEPT ![a.to][a.panel] = NoPanel]
           /\ kept' = kept \ {a.panel}
    BY <1>3 DEF DeleteAnswered, RemovePanel
  <2>4. CASE UNCHANGED <<panel, kept>>
    BY <2>2, <2>4, QuietHeld
  <2>5. CASE panel' = [panel EXCEPT ![a.to][a.panel] = NoPanel]
             /\ kept' = kept \ {a.panel}
    <3>1. \A v \in Windows, o \in Panels :
            o # a.panel => panel'[v][o] = panel[v][o]
      BY <2>1, <2>5, PanelHere
    <3> QED BY <1>1, <2>2, <2>5, <3>1, QuietHeld
  <2> QED BY <2>3, <2>4, <2>5
<1>4. ASSUME NEW w \in Windows, Hear(w) PROVE Held'
  <2>1. UNCHANGED <<up, moving, mail, kept>>
    BY <1>4 DEF Hear, transfers
  <2>2. ASSUME NEW q \in Panel, NEW e PROVE Heard(q, w, e).here = q.here
    <3>1. ViewIs(q, "ended").here = q.here
      BY DEF ViewIs, Panel
    <3>2. [q EXCEPT !.rev = e.rev, !.drives = e.driver = w].here = q.here
      BY DEF Panel
    <3> QED BY <3>1, <3>2 DEF Heard
  <2>3. PICK e : e = Head(inbox[w])
    OBVIOUS
  <2>4. \A v \in Windows, o \in Panels :
          panel'[v][o] = panel[v][o] \/ panel'[v][o] = Heard(panel[v][o], w, e)
    <3>1. \A v \in Windows \ {w} : panel'[v] = panel[v]
      BY <1>4 DEF Hear, TypeOK
    <3>2. \A o \in Panels : panel'[w][o] = Heard(panel[w][o], w, e)
      BY <1>4, <2>3 DEF Hear, TypeOK
    <3> QED BY <3>1, <3>2
  <2>5. ASSUME NEW v \in Windows, NEW o \in Panels, panel[v][o].here
        PROVE  panel'[v][o].here
    <3>1. PICK q \in Panel : q = panel[v][o]
      BY DEF TypeOK
    <3>2. Heard(q, w, e).here = q.here
      BY <2>2
    <3>3. panel'[v][o] = q \/ panel'[v][o] = Heard(q, w, e)
      BY <2>4, <3>1
    <3> QED BY <2>5, <3>1, <3>2, <3>3
  <2> QED BY <1>1, <2>1, <2>5, QuietHeld
<1> QED BY <1>2, <1>3, <1>4 DEF Webviews

LEMMA HandOffHeld ==
  ASSUME TypeOK, OneTransfer, Held, NEW w \in Windows, NEW p \in Panels,
         HandOff(w, p)
  PROVE  Held'
<1>1. /\ w \in up /\ kept' = kept \cup {p} /\ UNCHANGED <<up, mail>>
      /\ moving' = [moving EXCEPT ![w][p].stage = "sent"]
  BY DEF HandOff
<1>2. UNCHANGED panel \/ panel' = [panel EXCEPT ![w][p] = NoPanel]
  BY DEF HandOff, RemovePanel
<1>3. \A v \in Windows, o \in Panels : o # p =>
        panel'[v][o] = panel[v][o] /\ moving'[v][o] = moving[v][o]
  BY <1>1, <1>2, PanelHere DEF TypeOK
<1>4. HeldAt(p)'
  <2>1. Letters(w, p) = {}
    BY <1>1 DEF HandOff, OneTransfer, OneAt
  <2>2. Letters(w, p)' = {}
    BY <1>1, <2>1 DEF Letters
  <2>3. moving'[w][p].stage = "sent"
    BY <1>1 DEF TypeOK, Moving
  <2> QED BY <1>1, <2>2, <2>3 DEF HeldAt, Holds
<1>5. ASSUME NEW v \in up, NEW o \in kept, o # p, Holds(v, o) PROVE Holds(v, o)'
  <2>1. Letters(v, o)' \subseteq Letters(v, o)
    BY <1>1 DEF Letters
  <2>2. v \in Windows /\ o \in Panels
    BY DEF TypeOK
  <2> QED BY <1>3, <1>5, <2>1, <2>2, HoldsOn
<1> QED BY <1>1, <1>4, <1>5, StillHeld

LEMMA AckTimeoutHeld ==
  ASSUME TypeOK, Held, NEW w \in Windows, NEW p \in Panels, AckTimeout(w, p)
  PROVE  Held'
<1>1. /\ w \in up /\ UNCHANGED <<up, kept>> /\ mail' = Unawaited(w, p)
      /\ moving' = [moving EXCEPT ![w][p] = NotMoving]
  BY DEF AckTimeout, Settle
<1>2. /\ panel'[w][p].here
      /\ \A v \in Windows, o \in Panels : panel[v][o].here => panel'[v][o].here
  <2>1. CASE panel[w][p].here
    BY <2>1 DEF AckTimeout
  <2>2. CASE ~panel[w][p].here
    <3>1. PICK sid : panel' = [panel EXCEPT ![w][p] = Added(sid)]
      BY <2>2 DEF AckTimeout
    <3> QED BY <3>1, PanelHere
  <2> QED BY <2>1, <2>2
<1>3. HeldAt(p)'
  BY <1>1, <1>2 DEF HeldAt, Holds
<1>4. ASSUME NEW v \in up, NEW o \in kept, o # p, Holds(v, o) PROVE Holds(v, o)'
  <2>1. Letters(v, o)' \subseteq Letters(v, o)
    BY <1>1, UnawaitedLetters
  <2>2. v \in Windows /\ o \in Panels
    BY DEF TypeOK
  <2>3. moving'[v][o] = moving[v][o]
    BY <1>1, <1>4, <2>2 DEF TypeOK
  <2> QED BY <1>2, <1>4, <2>1, <2>2, <2>3, HoldsOn
<1> QED BY <1>1, <1>3, <1>4, StillHeld

(* The only letter an answer may be is the source's, about the panel.        *)
LEMMA ReplyLetters ==
  ASSUME TypeOK, NEW m \in mail, NEW kind \in {"taken", "refused"}, Reply(m, kind),
         NEW v, NEW o
  PROVE  \A l \in Letters(v, o)' :
           l \in Letters(v, o) \/ (l.kind = kind /\ o = m.panel)
<1>1. m \in Mail
  BY DEF TypeOK
<1>2. PICK r : r = [m EXCEPT !.kind = kind, !.from = m.to, !.to = m.from]
  OBVIOUS
<1>3. r.kind = kind /\ r.panel = m.panel
  BY <1>1, <1>2 DEF Mail
<1>4. mail' \subseteq mail \cup {r}
  BY <1>2 DEF Reply
<1> QED BY <1>3, <1>4 DEF Letters, IsLetter

LEMMA TakeHeld ==
  ASSUME TypeOK, Held, NEW m \in mail, Take(m) \/ Refuse(m)
  PROVE  Held'
<1>1. m.to \in Windows /\ m.panel \in Panels
  BY DEF TypeOK, Mail
<1>2. UNCHANGED <<up, moving, kept>> /\ m.to \in up
  BY DEF Take, Refuse
<1>3. \A v \in up, o \in kept : v \in Windows /\ o \in Panels
  BY DEF TypeOK
<1>4. CASE Take(m)
  <2>1. /\ panel'[m.to][m.panel].here
        /\ \A v \in Windows, o \in Panels : panel[v][o].here => panel'[v][o].here
    BY <1>1, <1>4, PanelHere DEF Take, AddPanel
  <2>2. HeldAt(m.panel)'
    BY <1>2, <2>1 DEF HeldAt, Holds
  <2>3. ASSUME NEW v \in up, NEW o \in kept, o # m.panel, Holds(v, o)
        PROVE  Holds(v, o)'
    <3>1. \A l \in Letters(v, o)' : l \in Letters(v, o)
      BY <1>4, <2>3, ReplyLetters DEF Take
    <3> QED BY <1>2, <1>3, <2>1, <2>3, <3>1, HoldsOn
  <2> QED BY <1>2, <2>2, <2>3, StillHeld
<1>5. CASE Refuse(m)
  <2>1. UNCHANGED panel
    BY <1>5 DEF Refuse
  <2>2. ASSUME NEW v \in up, NEW o \in kept, Holds(v, o) PROVE Holds(v, o)'
    <3>1. \A l \in Letters(v, o)' : l \in Letters(v, o) \/ l.kind # "taken"
      BY <1>5, ReplyLetters DEF Refuse
    <3> QED BY <1>2, <2>1, <2>2, <3>1, HoldsOn
  <2> QED BY <1>2, <2>2, StillHeld
<1> QED BY <1>4, <1>5

LEMMA ResultHeld ==
  ASSUME TypeOK, Held, NEW m \in mail, Result(m)
  PROVE  Held'
<1>1. m \in Mail /\ m.to \in Windows /\ m.panel \in Panels /\ m.kind # "panel"
      /\ m.to \in up
  BY DEF TypeOK, Mail, Result
<1>2. /\ UNCHANGED <<up, kept>> /\ mail' = mail \ {m}
      /\ moving' = [moving EXCEPT ![m.to][m.panel] = NotMoving]
  BY DEF Result, Settle
<1>3. /\ \A v \in Windows, o \in Panels : panel[v][o].here => panel'[v][o].here
      /\ m.kind = "refused" => panel'[m.to][m.panel].here
  <2>1. CASE UNCHANGED panel /\ (m.kind = "refused" => panel[m.to][m.panel].here)
    BY <2>1
  <2>2. CASE \E sid : panel' = [panel EXCEPT ![m.to][m.panel] = Added(sid)]
    <3>1. PICK sid : panel' = [panel EXCEPT ![m.to][m.panel] = Added(sid)]
      BY <2>2
    <3> QED BY <1>1, <3>1, PanelHere
  <2> QED BY <2>1, <2>2 DEF Result, Reinsert, AddPanel
<1>4. ASSUME NEW v \in up, NEW o \in kept, Holds(v, o) PROVE Holds(v, o)'
  <2>1. v \in Windows /\ o \in Panels
    BY DEF TypeOK
  <2>2. CASE v = m.to /\ o = m.panel
    <3>1. m \in Letters(v, o)
      BY <1>1, <2>2 DEF Letters, IsLetter
    <3>2. m.kind = "taken" => panel[v][o].here
      BY <1>4, <3>1 DEF Holds
    <3>3. m.kind \in {"taken", "refused"}
      BY <1>1 DEF Mail
    <3>4. panel'[v][o].here
      BY <1>3, <2>1, <2>2, <3>2, <3>3
    <3> QED BY <3>4 DEF Holds
  <2>3. CASE ~(v = m.to /\ o = m.panel)
    <3>1. moving'[v][o] = moving[v][o]
      BY <1>2, <2>1, <2>3 DEF TypeOK
    <3>2. Letters(v, o)' \subseteq Letters(v, o)
      BY <1>2 DEF Letters
    <3> QED BY <1>3, <1>4, <2>1, <3>1, <3>2, HoldsOn
  <2> QED BY <2>2, <2>3
<1> QED BY <1>2, <1>4, StillHeld

LEMMA TransfersHeld == TypeOK /\ OneTransfer /\ Held /\ Transfers => Held'
<1> SUFFICES ASSUME TypeOK, OneTransfer, Held, Transfers PROVE Held'
  OBVIOUS
<1>1. ASSUME NEW w \in Windows, NEW p \in Panels,
             MoveAborted(w, p) \/ \E v \in Windows : MoveStart(w, p, v)
      PROVE  Held'
  <2>1. UNCHANGED <<up, panel, mail, kept>> /\ moving[w][p].stage # "sent"
    BY <1>1 DEF MoveStart, MoveAborted
  <2>2. PICK x : moving' = [moving EXCEPT ![w][p] = x]
    BY <1>1 DEF MoveStart, MoveAborted, Settle
  <2>3. \A v \in Windows, o \in Panels :
          moving[v][o].stage = "sent" => moving'[v][o] = moving[v][o]
    BY <2>1, <2>2 DEF TypeOK
  <2>4. ASSUME NEW v \in up, NEW o \in kept, Holds(v, o) PROVE Holds(v, o)'
    <3>1. Letters(v, o)' \subseteq Letters(v, o)
      BY <2>1 DEF Letters
    <3>2. v \in Windows /\ o \in Panels
      BY DEF TypeOK
    <3> QED BY <2>1, <2>3, <2>4, <3>1, <3>2, HoldsOn
  <2> QED BY <2>1, <2>4, StillHeld
<1>2. ASSUME NEW m \in mail, Undelivered(m) PROVE Held'
  BY <1>2, QuietHeld DEF Undelivered
<1> QED BY <1>1, <1>2, HandOffHeld, AckTimeoutHeld, TakeHeld, ResultHeld
        DEF Transfers

LEMMA NextHeld == TypeOK /\ OneTransfer /\ Held /\ [Next]_vars => Held'
<1> SUFFICES ASSUME TypeOK, OneTransfer, Held, [Next]_vars PROVE Held'
  OBVIOUS
<1>1. CASE MainThread
  BY <1>1, BackendHeld, EmitHeld DEF MainThread
<1>2. CASE Threads \/ UNCHANGED vars
  BY <1>2, BackendHeld
<1> QED BY <1>1, <1>2, UsersHeld, WebviewsHeld, TransfersHeld DEF Next

(* A panel that is handed from window to window is lost by none of the ways  *)
(* this may go: taken, refused, not heard of, answered too late, or sent to  *)
(* a window that is gone (handOff, the watchdog of its acknowledgement,      *)
(* installTransferTarget).  Of one transfer there is one message or answer   *)
(* that its source still waits for, and until one says that the panel was    *)
(* taken the source brings it back.                                          *)
THEOREM NotLostTheorem == Spec => []PanelNotLost
<1>1. Init => Held
  BY DEF Init, Held
<1>2. Held => PanelNotLost
  BY DEF Held, HeldAt, Holds, PanelNotLost
<1> QED BY <1>1, <1>2, InitType, NextType, InitOne, NextOne, NextHeld, PTL DEF Spec

-----------------------------------------------------------------------------
(* A window whose view of a session is open, or about to be, is counted by   *)
(* the table and is not about to release it.                                 *)

IsOpen(c) == c.op = "open" /\ c.by = "view"
OpensIn(q, p) == \E j \in DOMAIN q : IsOpen(q[j]) /\ q[j].panel = p
DetachIn(q) == \E j \in DOMAIN q : q[j].op = "detach"
Settled(q) == \A i, j \in DOMAIN q : i < j /\ IsOpen(q[i]) => q[j].op # "detach"

Opening(w, p) ==
  \/ OpensIn(calls[w], p)
  \/ \E a \in answers : IsOpen(a) /\ a.to = w /\ a.panel = p
  \/ panel[w][p].view = "open"
Sees(w, i) ==
  \/ \E a \in answers : IsOpen(a) /\ a.to = w /\ a.id = i
  \/ \E p \in Panels : panel[w][p].view = "open" /\ panel[w][p].id = i
Counted(w, i) ==
  /\ pty[i] \notin {"closed", "none"}
  /\ rt.by_id[i].known => Views(rt.by_id[i], w)

ViewsAt(w) ==
  /\ Settled(calls[w])
  /\ \A p \in Panels : Opening(w, p) => panel[w][p].here
  /\ \A i \in Ptys : Sees(w, i) => ~DetachIn(calls[w]) /\ Counted(w, i)
ViewsInv == \A w \in up \ closing : ViewsAt(w)

(* The opens and the detaches of `r` are those of `q` that are left.         *)
Calm(q, r) ==
  \E k \in {0, 1} : \A j \in DOMAIN r :
    /\ IsOpen(r[j]) => /\ j + k \in DOMAIN q /\ IsOpen(q[j + k])
                       /\ q[j + k].panel = r[j].panel
    /\ r[j].op = "detach" => j + k \in DOMAIN q /\ q[j + k].op = "detach"

LEMMA CalmFact ==
  ASSUME NEW q \in Seq(Call), NEW r \in Seq(Call), Calm(q, r)
  PROVE  /\ Settled(q) => Settled(r)
         /\ DetachIn(r) => DetachIn(q)
         /\ \A p : OpensIn(r, p) => OpensIn(q, p)
<1>1. PICK k \in {0, 1} : \A j \in DOMAIN r :
        /\ IsOpen(r[j]) => /\ j + k \in DOMAIN q /\ IsOpen(q[j + k])
                           /\ q[j + k].panel = r[j].panel
        /\ r[j].op = "detach" => j + k \in DOMAIN q /\ q[j + k].op = "detach"
  BY DEF Calm
<1>2. ASSUME Settled(q), NEW i \in DOMAIN r, NEW j \in DOMAIN r,
             i < j, IsOpen(r[i]), r[j].op = "detach"
      PROVE  FALSE
  <2>1. i + k \in DOMAIN q /\ j + k \in DOMAIN q /\ IsOpen(q[i + k])
        /\ q[j + k].op = "detach"
    BY <1>1, <1>2
  <2>2. i + k < j + k
    BY <1>2
  <2> QED BY <1>2, <2>1, <2>2 DEF Settled
<1>3. DetachIn(r) => DetachIn(q)
  BY <1>1 DEF DetachIn
<1>4. \A p : OpensIn(r, p) => OpensIn(q, p)
  BY <1>1 DEF OpensIn
<1> QED BY <1>2, <1>3, <1>4 DEF Settled

LEMMA CalmMap ==
  ASSUME NEW q \in Seq(Call), NEW r \in Seq(Call), Len(r) = Len(q),
         \A i \in DOMAIN q :
           /\ IsOpen(r[i]) => IsOpen(q[i]) /\ q[i].panel = r[i].panel
           /\ r[i].op = "detach" => q[i].op = "detach"
  PROVE  Calm(q, r)
<1>1. DOMAIN r = DOMAIN q /\ \A j \in DOMAIN r : j + 0 = j
  OBVIOUS
<1>2. \A j \in DOMAIN r :
        /\ IsOpen(r[j]) => /\ j + 0 \in DOMAIN q /\ IsOpen(q[j + 0])
                           /\ q[j + 0].panel = r[j].panel
        /\ r[j].op = "detach" => j + 0 \in DOMAIN q /\ q[j + 0].op = "detach"
  BY <1>1
<1> QED BY <1>2 DEF Calm

LEMMA CalmSame ==
  ASSUME NEW q \in Seq(Call)
  PROVE  Calm(q, q)
BY CalmMap

LEMMA CalmAppend ==
  ASSUME NEW q \in Seq(Call), NEW c \in Call, ~IsOpen(c), c.op # "detach"
  PROVE  Calm(q, Append(q, c))
<1>1. DOMAIN Append(q, c) = 1..(Len(q) + 1) /\ Append(q, c)[Len(q) + 1] = c
      /\ \A i \in 1..Len(q) : Append(q, c)[i] = q[i]
  BY AppendProperties
<1>2. \A j \in DOMAIN Append(q, c) :
        /\ IsOpen(Append(q, c)[j]) =>
             /\ j + 0 \in DOMAIN q /\ IsOpen(q[j + 0])
             /\ q[j + 0].panel = Append(q, c)[j].panel
        /\ Append(q, c)[j].op = "detach" =>
             j + 0 \in DOMAIN q /\ q[j + 0].op = "detach"
  <2> TAKE j \in DOMAIN Append(q, c)
  <2>1. CASE j = Len(q) + 1
    BY <1>1, <2>1
  <2>2. CASE j # Len(q) + 1
    BY <1>1, <2>2
  <2> QED BY <2>1, <2>2
<1> QED BY <1>2 DEF Calm

LEMMA CalmTail ==
  ASSUME NEW q \in Seq(Call), q # <<>>
  PROVE  Calm(q, Tail(q))
<1>1. \A j \in DOMAIN Tail(q) : j + 1 \in DOMAIN q /\ Tail(q)[j] = q[j + 1]
  BY HeadTailProperties
<1> QED BY <1>1 DEF Calm

(* An open that comes last keeps the order.                                  *)
LEMMA OpenLast ==
  ASSUME NEW q \in Seq(Call), NEW c \in Call, Settled(q), c.op # "detach"
  PROVE  /\ Settled(Append(q, c))
         /\ DetachIn(Append(q, c)) => DetachIn(q)
         /\ \A p : OpensIn(Append(q, c), p) => OpensIn(q, p) \/ p = c.panel
<1>1. PICK r : r = Append(q, c)
  OBVIOUS
<1>2. DOMAIN r = 1..(Len(q) + 1) /\ r[Len(q) + 1] = c /\ DOMAIN q = 1..Len(q)
      /\ (\A i \in 1..Len(q) : r[i] = q[i]) /\ Len(q) \in Nat
  BY <1>1, AppendProperties
<1>3. Settled(r)
  <2> SUFFICES ASSUME NEW i \in DOMAIN r, NEW j \in DOMAIN r, i < j, IsOpen(r[i])
               PROVE  r[j].op # "detach"
    BY DEF Settled
  <2>1. i \in DOMAIN q /\ r[i] = q[i]
    BY <1>2
  <2>2. CASE j = Len(q) + 1
    BY <1>2, <2>2
  <2>3. CASE j # Len(q) + 1
    BY <1>2, <2>1, <2>3 DEF Settled
  <2> QED BY <2>2, <2>3
<1>4. DetachIn(r) => DetachIn(q)
  BY <1>2 DEF DetachIn
<1>5. \A p : OpensIn(r, p) => OpensIn(q, p) \/ p = c.panel
  <2> SUFFICES ASSUME NEW p, NEW j \in DOMAIN r, IsOpen(r[j]), r[j].panel = p
               PROVE  OpensIn(q, p) \/ p = c.panel
    BY DEF OpensIn
  <2>1. CASE j = Len(q) + 1
    BY <1>2, <2>1
  <2>2. CASE j # Len(q) + 1
    BY <1>2, <2>2 DEF OpensIn
  <2> QED BY <2>1, <2>2
<1> QED BY <1>1, <1>3, <1>4, <1>5

-----------------------------------------------------------------------------
(* The four ways a step touches what a window sees.                          *)

LEMMA QuietViews ==
  ASSUME TypeOK, TypeOK', NEW w \in Windows, ViewsAt(w),
         Calm(calls[w], calls'[w]),
         \A p \in Panels : Opening(w, p)' => Opening(w, p),
         \A p \in Panels : panel[w][p].here => panel'[w][p].here,
         \A i \in Ptys : Sees(w, i)' => Sees(w, i),
         \A i \in Ptys : Sees(w, i) => Counted(w, i)'
  PROVE  ViewsAt(w)'
<1>1. calls[w] \in Seq(Call) /\ calls'[w] \in Seq(Call)
  BY DEF TypeOK
<1>2. Settled(calls'[w]) /\ (DetachIn(calls'[w]) => DetachIn(calls[w]))
  BY <1>1, CalmFact DEF ViewsAt
<1> QED BY <1>2 DEF ViewsAt

(* Nothing more is opening, and nothing more is seen.                        *)
LEMMA NothingNew ==
  ASSUME TypeOK, TypeOK', NEW w \in Windows, Calm(calls[w], calls'[w]),
         \A a \in answers' : IsOpen(a) /\ a.to = w => a \in answers,
         \A p \in Panels : panel'[w][p].view = "open" =>
           panel[w][p].view = "open" /\ panel'[w][p].id = panel[w][p].id
  PROVE  /\ \A p \in Panels : Opening(w, p)' => Opening(w, p)
         /\ \A i \in Ptys : Sees(w, i)' => Sees(w, i)
<1>1. calls[w] \in Seq(Call) /\ calls'[w] \in Seq(Call)
  BY DEF TypeOK
<1>2. \A p : OpensIn(calls'[w], p) => OpensIn(calls[w], p)
  BY <1>1, CalmFact
<1>3. \A p \in Panels : Opening(w, p)' => Opening(w, p)
  BY <1>2 DEF Opening
<1>4. \A i \in Ptys : Sees(w, i)' => Sees(w, i)
  BY DEF Sees
<1> QED BY <1>3, <1>4

(* Whoever viewed still views, but for who left.                             *)
LEMMA ViewersStay ==
  ASSUME NEW s \in Sess, NEW v \in Windows, NEW w, Views(s, w)
  PROVE  /\ Views(AttachedBy(s, v), w)
         /\ Views(TakenOver(s, v), w)
         /\ v # w => Views(Left(s, v), w)
<1>1. Views(AttachedBy(s, v), w)
  <2>1. PICK j : j = Joined(s, v)
    OBVIOUS
  <2>2. j \in Sess
    BY <2>1, JoinedFact
  <2>3. Views(j, w)
    <3>1. CASE Views(s, v)
      BY <2>1, <3>1 DEF Joined
    <3>2. CASE ~Views(s, v)
      <4>1. s.attached \in Seq(Windows)
        BY DEF Sess
      <4>2. j.attached = Append(s.attached, v)
        BY <2>1, <3>2 DEF Joined, Sess
      <4>3. PICK k \in DOMAIN s.attached : s.attached[k] = w
        BY DEF Views, ToSet
      <4>4. k \in DOMAIN j.attached /\ j.attached[k] = w
        BY <4>1, <4>2, <4>3, AppendProperties
      <4> QED BY <4>4 DEF Views, ToSet
    <3> QED BY <3>1, <3>2
  <2>4. Promoted(j, v).attached = j.attached
    BY <2>2, DrivenFact DEF Promoted
  <2> QED BY <2>1, <2>3, <2>4 DEF AttachedBy, Views
<1>2. Views(TakenOver(s, v), w)
  <2>1. TakenOver(s, v).attached = s.attached
    BY DrivenFact DEF TakenOver
  <2> QED BY <2>1 DEF Views
<1>3. ASSUME v # w PROVE Views(Left(s, v), w)
  <2>1. PICK r : r = Without(s, v)
    OBVIOUS
  <2>2. r \in Sess /\ Views(r, w)
    BY <1>3, <2>1, WithoutFact
  <2>3. HandedOver(r, v).attached = r.attached
    <3>1. CASE r.attached # <<>> /\ r.driver = v
      <4>1. Head(r.attached) \in Windows
        BY <2>2, <3>1 DEF Sess
      <4> QED BY <2>2, <3>1, <4>1, DrivenFact DEF HandedOver
    <3>2. CASE ~(r.attached # <<>> /\ r.driver = v)
      BY <3>2 DEF HandedOver
    <3> QED BY <3>1, <3>2
  <2> QED BY <2>1, <2>2, <2>3 DEF Left, Views
<1> QED BY <1>1, <1>2, <1>3

LEMMA EntryCounted ==
  ASSUME TypeOK, NEW w \in Windows, NEW i \in Ptys, Counted(w, i),
         NEW j \in Ptys, NEW s \in Sess, s.known = rt.by_id[j].known,
         j = i /\ Views(rt.by_id[j], w) => Views(s, w),
         rt' = [rt EXCEPT !.by_id[j] = s], UNCHANGED pty
  PROVE  Counted(w, i)'
<1>1. rt'.by_id[i] = IF i = j THEN s ELSE rt.by_id[i]
  BY EntrySet DEF TypeOK, ClaudeRuntime
<1>2. CASE i = j
  <2>1. rt'.by_id[i] = s
    BY <1>1, <1>2
  <2> QED BY <1>2, <2>1 DEF Counted
<1>3. CASE i # j
  <2>1. rt'.by_id[i] = rt.by_id[i]
    BY <1>1, <1>3
  <2> QED BY <2>1 DEF Counted
<1> QED BY <1>2, <1>3

LEMMA RemovedCounted ==
  ASSUME TypeOK, NEW w \in Windows, NEW i \in Ptys, Counted(w, i),
         NEW j \in Ptys, rt' = Removed(rt, j),
         \/ UNCHANGED pty
         \/ pty' = [pty EXCEPT ![j] = "deleted"]
         \/ pty' = [pty EXCEPT ![j] = "closed"] /\ i # j
  PROVE  Counted(w, i)'
<1>1. ~rt'.by_id[j].known /\ (j # i => rt'.by_id[i] = rt.by_id[i])
  BY RemovedFact DEF TypeOK
<1>2. pty'[i] \notin {"closed", "none"}
  BY DEF TypeOK, Counted
<1>3. CASE i = j
  BY <1>1, <1>2, <1>3 DEF Counted
<1>4. CASE i # j
  BY <1>1, <1>2, <1>4 DEF Counted
<1> QED BY <1>3, <1>4

LEMMA CountedStays ==
  ASSUME TypeOK, TypeOK', TableInv, [Next]_vars, NEW w \in Windows,
         NEW i \in Ptys, Counted(w, i), ~DetachIn(calls[w])
  PROVE  Counted(w, i)'
<1>1. CASE UNCHANGED backend
  BY <1>1 DEF backend, Counted
<1>2. ASSUME NEW v \in Windows, Attach(v) PROVE Counted(w, i)'
  <2>1. PICK j, s : j = rt.live /\ s = AttachedBy(rt.by_id[j], v)
    OBVIOUS
  <2>2. j \in Ptys /\ rt.by_id[j] \in Sess
    BY <1>2, <2>1 DEF Attach, Alive, TypeOK, ClaudeRuntime
  <2>3. s \in Sess /\ s.known = rt.by_id[j].known
        /\ (Views(rt.by_id[j], w) => Views(s, w))
    BY <2>1, <2>2, AttachedFact, ViewersStay
  <2>4. rt' = [rt EXCEPT !.by_id[j] = s] /\ UNCHANGED pty
    BY <1>2, <2>1 DEF Attach
  <2> QED BY <2>2, <2>3, <2>4, EntryCounted
<1>3. ASSUME NEW v \in Windows, Spawn(v) PROVE Counted(w, i)'
  <2>1. PICK j \in Fresh :
          rt' = Registered(Cleaned(rt), j, v) /\ pty' = [pty EXCEPT ![j] = "running"]
    BY <1>3 DEF Spawn
  <2>2. j \in Ptys /\ j # i
    BY DEF Fresh, Counted
  <2>3. rt'.by_id[i] = Cleaned(rt).by_id[i]
    BY <2>1, <2>2, CleanedFact, RegisteredFact DEF TypeOK
  <2>4. ~Cleaned(rt).by_id[i].known
    BY <1>3, CleanedKnowsNone DEF Spawn
  <2>5. pty'[i] = pty[i]
    BY <2>1, <2>2 DEF TypeOK
  <2> QED BY <2>3, <2>4, <2>5 DEF Counted
<1>4. ASSUME NEW v \in Windows, SpawnFails(v) PROVE Counted(w, i)'
  <2>1. rt' = Cleaned(rt) /\ UNCHANGED pty
    BY <1>4 DEF SpawnFails
  <2>2. ~rt'.by_id[i].known
    BY <1>4, <2>1, CleanedKnowsNone DEF SpawnFails
  <2> QED BY <2>1, <2>2 DEF Counted
<1>5. ASSUME NEW v \in Windows, Detach(v) PROVE Counted(w, i)'
  <2>1. PICK c : c = Head(calls[v])
    OBVIOUS
  <2>2. c.id \in Ptys /\ c.op = "detach"
    <3>1. c \in Call /\ c.op = "detach"
      BY <1>5, <2>1, CallRan DEF Detach, TypeOK, Calls
    <3> QED BY <3>1 DEF Call
  <2>3. v # w
    <3>1. calls[v] \in Seq(Call) /\ calls[v] # <<>>
      BY <1>5 DEF Detach, Turn, TypeOK
    <3>2. 1 \in DOMAIN calls[v] /\ calls[v][1] = c
      BY <2>1, <3>1
    <3> QED BY <2>2, <3>2 DEF DetachIn
  <2>4. PICK j, s : j = c.id /\ s = Left(rt.by_id[j], v)
    OBVIOUS
  <2>5. rt.by_id[j] \in Sess
    BY <2>2, <2>4 DEF TypeOK, ClaudeRuntime
  <2>6. s \in Sess /\ s.known = rt.by_id[j].known
        /\ (Views(rt.by_id[j], w) => Views(s, w))
    BY <2>3, <2>4, <2>5, LeftFact, ViewersStay
  <2>7. \/ UNCHANGED <<rt, pty>>
        \/ /\ rt.by_id[j].known /\ s.attached = <<>>
           /\ rt' = Removed(rt, j) /\ pty' = [pty EXCEPT ![j] = "closed"]
        \/ rt' = [rt EXCEPT !.by_id[j] = s] /\ UNCHANGED pty
    BY <1>5, <2>1, <2>4 DEF Detach, LastCloses
  <2>8. CASE UNCHANGED <<rt, pty>>
    BY <2>8 DEF Counted
  <2>9. CASE /\ rt.by_id[j].known /\ s.attached = <<>>
             /\ rt' = Removed(rt, j) /\ pty' = [pty EXCEPT ![j] = "closed"]
    <3>1. ~Views(s, w)
      BY <2>9 DEF Views, ToSet
    <3>2. i # j
      BY <2>6, <2>9, <3>1 DEF Counted
    <3> QED BY <2>2, <2>4, <2>9, <3>2, RemovedCounted
  <2>10. CASE rt' = [rt EXCEPT !.by_id[j] = s] /\ UNCHANGED pty
    BY <2>2, <2>4, <2>6, <2>10, EntryCounted
  <2> QED BY <2>7, <2>8, <2>9, <2>10
<1>6. ASSUME NEW v \in Windows, SetDriver(v) PROVE Counted(w, i)'
  <2>1. PICK j, s : j = Head(calls[v]).id /\ s = TakenOver(rt.by_id[j], v)
    OBVIOUS
  <2>2. j \in Ptys
    <3>1. Head(calls[v]) \in Call /\ Head(calls[v]).op = "take"
      BY <1>6, CallRan DEF SetDriver, TypeOK, Calls
    <3> QED BY <2>1, <3>1 DEF Call
  <2>3. rt.by_id[j] \in Sess
    BY <2>2 DEF TypeOK, ClaudeRuntime
  <2>4. s \in Sess /\ s.known = rt.by_id[j].known
        /\ (Views(rt.by_id[j], w) => Views(s, w))
    BY <2>1, <2>3, TakenOverFact, ViewersStay
  <2>5. (rt' = rt \/ rt' = [rt EXCEPT !.by_id[j] = s]) /\ UNCHANGED pty
    BY <1>6, <2>1 DEF SetDriver
  <2>6. CASE rt' = rt
    BY <2>5, <2>6 DEF Counted
  <2> QED BY <2>2, <2>4, <2>5, <2>6, EntryCounted
<1>7. ASSUME NEW v \in Windows, Close(v) PROVE Counted(w, i)'
  <2>1. PICK j : j = Head(calls[v]).id
    OBVIOUS
  <2>2. j \in Ptys
    <3>1. Head(calls[v]) \in Call /\ Head(calls[v]).op = "close"
      BY <1>7, CallRan DEF Close, TypeOK, Calls
    <3> QED BY <2>1, <3>1 DEF Call
  <2>3. rt' = Removed(rt, j) /\ pty' = [pty EXCEPT ![j] = "deleted"]
    BY <1>7, <2>1 DEF Close
  <2> QED BY <2>2, <2>3, RemovedCounted
<1>8. ASSUME NEW j \in Ptys, Exit(j) \/ PollEnds(j) PROVE Counted(w, i)'
  <2>1. CASE Exit(j)
    BY <2>1 DEF Exit, Counted, TypeOK
  <2>2. CASE PollEnds(j)
    BY <2>2, RemovedCounted DEF PollEnds
  <2> QED BY <1>8, <2>1, <2>2
<1>9. CASE Users
  BY <1>1, <1>9, ZenonT(40)
     DEF Users, OpenPanel, Hide, Show, ClosePanel, TakeOver, Delete, CloseWindow,
         Destroy
<1>10. CASE Webviews
  BY <1>1, <1>10 DEF Webviews, OpenAnswered, DeleteAnswered, Hear
<1>11. CASE Transfers
  BY <1>1, <1>11, ZenonT(40)
     DEF Transfers, MoveStart, HandOff, MoveAborted, AckTimeout, Take, Refuse,
         Result, Undelivered
<1>12. CASE UNCHANGED vars
  BY <1>1, <1>12 DEF vars, backend
<1>13. ASSUME NEW v \in Windows, Emit(v) PROVE Counted(w, i)'
  BY <1>1, <1>13 DEF Emit
<1> QED BY <1>2, <1>3, <1>4, <1>5, <1>6, <1>7, <1>8, <1>9, <1>10, <1>11, <1>12,
           <1>13
        DEF Next, MainThread, Threads

(* A step that adds nothing to what a window sees.                           *)
LEMMA CalmViews ==
  ASSUME TypeOK, TypeOK', TableInv, [Next]_vars, NEW w \in Windows, ViewsAt(w),
         Calm(calls[w], calls'[w]),
         \A a \in answers' : IsOpen(a) /\ a.to = w => a \in answers,
         \A p \in Panels : panel'[w][p].view = "open" =>
           panel[w][p].view = "open" /\ panel'[w][p].id = panel[w][p].id,
         \A p \in Panels : panel[w][p].here => panel'[w][p].here
  PROVE  ViewsAt(w)'
<1>1. /\ \A p \in Panels : Opening(w, p)' => Opening(w, p)
      /\ \A i \in Ptys : Sees(w, i)' => Sees(w, i)
  BY NothingNew
<1>2. \A i \in Ptys : Sees(w, i) => Counted(w, i)'
  BY CountedStays DEF ViewsAt
<1> QED BY <1>1, <1>2, QuietViews

(* Nothing happens in this window.                                           *)
LEMMA Elsewhere ==
  ASSUME TypeOK, TypeOK', TableInv, [Next]_vars, NEW w \in Windows, ViewsAt(w),
         calls'[w] = calls[w], panel'[w] = panel[w],
         \A a \in answers' : IsOpen(a) /\ a.to = w => a \in answers
  PROVE  ViewsAt(w)'
<1>1. Calm(calls[w], calls'[w])
  BY CalmSame DEF TypeOK
<1> QED BY <1>1, CalmViews

(* A view is about to open: its open comes last.                             *)
LEMMA OpenSent ==
  ASSUME TypeOK, TypeOK', TableInv, [Next]_vars, NEW w \in Windows, ViewsAt(w),
         NEW p \in Panels, NEW x \in Panel, x.here, x.view # "open",
         panel' = [panel EXCEPT ![w][p] = x],
         NEW q \in Seq(Call), Calm(calls[w], q),
         calls'[w] = Append(q, OpenCall(p)), UNCHANGED answers
  PROVE  ViewsAt(w)'
<1>1. \A o \in Panels : panel'[w][o] = IF o = p THEN x ELSE panel[w][o]
  BY DEF TypeOK
<1>2. PICK c : c = OpenCall(p)
  OBVIOUS
<1>3. c \in Call /\ c.op = "open" /\ c.panel = p
  BY <1>2, CallTypes DEF OpenCall, ACall
<1>4. calls[w] \in Seq(Call)
  BY DEF TypeOK
<1>5. /\ Settled(q) /\ (DetachIn(q) => DetachIn(calls[w]))
      /\ \A o : OpensIn(q, o) => OpensIn(calls[w], o)
  BY <1>4, CalmFact DEF ViewsAt
<1>6. calls'[w] = Append(q, c)
  BY <1>2
<1>7. /\ Settled(calls'[w]) /\ (DetachIn(calls'[w]) => DetachIn(calls[w]))
      /\ \A o : OpensIn(calls'[w], o) => OpensIn(calls[w], o) \/ o = p
  BY <1>3, <1>5, <1>6, OpenLast
<1>8. ASSUME NEW o \in Panels, Opening(w, o)' PROVE panel'[w][o].here
  <2>1. CASE o = p
    BY <1>1, <2>1
  <2>2. CASE o # p
    <3>1. panel'[w][o] = panel[w][o]
      BY <1>1, <2>2
    <3>2. Opening(w, o)
      BY <1>7, <1>8, <2>2, <3>1 DEF Opening
    <3> QED BY <3>1, <3>2 DEF ViewsAt
  <2> QED BY <2>1, <2>2
<1>9. ASSUME NEW i \in Ptys, Sees(w, i)'
      PROVE  ~DetachIn(calls'[w]) /\ Counted(w, i)'
  <2>1. Sees(w, i)
    BY <1>1, <1>9 DEF Sees
  <2> QED BY <1>7, <2>1, CountedStays DEF ViewsAt
<1> QED BY <1>7, <1>8, <1>9 DEF ViewsAt

OpensNone(q) == \A j \in DOMAIN q : ~IsOpen(q[j])

LEMMA NoneConcat ==
  ASSUME NEW q \in Seq(Call), NEW s \in Seq(Call), OpensNone(q), OpensNone(s)
  PROVE  OpensNone(q \o s)
<1> SUFFICES ASSUME NEW j \in DOMAIN (q \o s) PROVE ~IsOpen((q \o s)[j])
  BY DEF OpensNone
<1>1. j \in 1..(Len(q) + Len(s))
      /\ (q \o s)[j] = IF j <= Len(q) THEN q[j] ELSE s[j - Len(q)]
  BY ConcatProperties
<1>2. CASE j <= Len(q)
  BY <1>1, <1>2 DEF OpensNone
<1>3. CASE ~(j <= Len(q))
  <2>1. j - Len(q) \in DOMAIN s /\ (q \o s)[j] = s[j - Len(q)]
    BY <1>1, <1>3
  <2> QED BY <2>1 DEF OpensNone
<1> QED BY <1>2, <1>3

(* The only panel of the session goes, and with it whatever is opening.      *)
LEMMA PanelGone ==
  ASSUME TypeOK, TypeOK', OnePerWindow, NEW w \in Windows, ViewsAt(w),
         NEW p \in Panels, panel[w][p].here, NEW last \in BOOLEAN,
         NEW told \in SUBSET answers, NEW then \in Seq(Call), OpensNone(then),
         RemovePanel(w, p, last, told, then)
  PROVE  ViewsAt(w)'
<1>1. \A o \in Panels : Opening(w, o) => o = p
  BY DEF ViewsAt, OnePerWindow
<1> DEFINE q == calls[w]
           r == [i \in DOMAIN q |-> AwaitedBy(p, "panel", "nobody",
                                      AwaitedBy(p, "view", "nobody", q[i]))]
           d == Detaches(p, panel[w][p].sid, last)
<1>2. q \in Seq(Call)
  BY DEF TypeOK
<1>3. r \in Seq(Call)
  <2>1. \A old : \A c \in Call : AwaitedBy(p, old, "nobody", c) \in Call
    BY AwaitedType
  <2>2. \A i \in DOMAIN q : q[i] \in Call
    BY <1>2
  <2>3. \A i \in DOMAIN q : r[i] \in Call
    BY <2>1, <2>2
  <2> QED BY <1>2, <2>3, Mapped
<1>4. OpensNone(r)
  <2>1. ASSUME NEW c \in Call, c.panel = p \/ ~IsOpen(c)
        PROVE  ~IsOpen(AwaitedBy(p, "panel", "nobody",
                         AwaitedBy(p, "view", "nobody", c)))
    <3>1. PICK b : b = AwaitedBy(p, "view", "nobody", c)
      OBVIOUS
    <3>2. ~IsOpen(b) /\ b \in Call
      <4>1. CASE c.op = "open" /\ c.panel = p /\ c.by = "view"
        BY <3>1, <4>1 DEF AwaitedBy, IsOpen, Call
      <4>2. CASE ~(c.op = "open" /\ c.panel = p /\ c.by = "view")
        BY <2>1, <3>1, <4>2 DEF AwaitedBy, IsOpen
      <4> QED BY <4>1, <4>2
    <3>3. ~IsOpen(AwaitedBy(p, "panel", "nobody", b))
      BY <3>2 DEF AwaitedBy, IsOpen, Call
    <3> QED BY <3>1, <3>3
  <2>2. \A i \in DOMAIN q : q[i] \in Call /\ (q[i].panel = p \/ ~IsOpen(q[i]))
    <3>1. \A i \in DOMAIN q : q[i] \in Call /\ q[i].panel \in Panels
      BY <1>2 DEF Call
    <3>2. \A i \in DOMAIN q : IsOpen(q[i]) => Opening(w, q[i].panel)
      BY DEF Opening, OpensIn
    <3> QED BY <1>1, <3>1, <3>2
  <2> QED BY <2>1, <2>2 DEF OpensNone
<1>5. d \in Seq(Call) /\ OpensNone(d)
  <2>1. panel[w][p].sid \in SidType
    BY DEF TypeOK, Panel, SidType
  <2>2. d \in Seq(Call)
    BY <2>1, DetachesType
  <2>3. \A i \in DOMAIN d : d[i].op = "detach"
    BY DEF Detaches, DetachCall, ACall
  <2> QED BY <2>2, <2>3 DEF OpensNone, IsOpen
<1>6. calls'[w] = r \o d \o then
  BY DEF RemovePanel, TypeOK
<1>7. OpensNone(calls'[w])
  <2> HIDE DEF q, r, d
  <2>1. r \o d \in Seq(Call) /\ OpensNone(r \o d)
    BY <1>3, <1>4, <1>5, NoneConcat, ConcatProperties
  <2> QED BY <1>6, <2>1, NoneConcat
<1>8. \A a \in answers' : ~(IsOpen(a) /\ a.to = w)
  <2> SUFFICES ASSUME NEW a \in answers', IsOpen(a), a.to = w PROVE FALSE
    OBVIOUS
  <2>1. a \in answers /\ a.panel \in Panels /\ a.panel # p
    BY DEF RemovePanel, TypeOK, Answer, IsOpen
  <2>2. Opening(w, a.panel)
    BY <2>1 DEF Opening
  <2> QED BY <1>1, <2>1, <2>2
<1>9. \A o \in Panels : panel'[w][o].view # "open"
  <2>1. \A o \in Panels : panel'[w][o] = IF o = p THEN NoPanel ELSE panel[w][o]
    BY DEF RemovePanel, TypeOK
  <2>2. \A o \in Panels : o # p => panel[w][o].view # "open"
    BY <1>1 DEF Opening
  <2>3. NoPanel.view # "open"
    BY DEF NoPanel
  <2> QED BY <2>1, <2>2, <2>3
<1>10. (\A o \in Panels : ~Opening(w, o)') /\ \A i \in Ptys : ~Sees(w, i)'
  BY <1>7, <1>8, <1>9 DEF Opening, OpensIn, OpensNone, Sees
<1>11. Settled(calls'[w])
  BY <1>7 DEF Settled, OpensNone
<1> QED BY <1>10, <1>11 DEF ViewsAt

(* An open is answered by the backend: its view will be counted.             *)
LEMMA OpenTold ==
  ASSUME TypeOK, TypeOK', TableInv, [Next]_vars, NEW w \in Windows, ViewsAt(w),
         Turn(w, "open"), Ran(w), UNCHANGED panel,
         NEW i \in SidType, NEW s, Tell(w, Head(calls[w]), i, s),
         i # NoPty => Counted(w, i)'
  PROVE  ViewsAt(w)'
<1>1. calls[w] \in Seq(Call) /\ calls[w] # <<>>
  BY DEF Turn, TypeOK
<1>2. calls'[w] = Tail(calls[w])
  BY DEF Ran, TypeOK
<1>3. Calm(calls[w], calls'[w])
  BY <1>1, <1>2, CalmTail
<1>4. PICK c : c = Head(calls[w])
  OBVIOUS
<1>5. c \in Call /\ c.op = "open" /\ c = calls[w][1] /\ 1 \in DOMAIN calls[w]
  BY <1>1, <1>4 DEF Turn
<1>6. PICK a : a = [to |-> w, panel |-> c.panel, by |-> c.by, op |-> c.op,
                    id |-> i, driver |-> s.driver, rev |-> s.rev]
  OBVIOUS
<1>7. a.to = w /\ a.panel = c.panel /\ a.by = c.by /\ a.op = c.op /\ a.id = i
  BY <1>6
<1>8. answers' \subseteq answers \cup {a}
  BY <1>4, <1>6 DEF Tell
<1>9. CASE c.by # "view"
  <2>1. \A b \in answers' : IsOpen(b) /\ b.to = w => b \in answers
    BY <1>7, <1>8, <1>9 DEF IsOpen
  <2> QED BY <1>3, <2>1, CalmViews
<1>10. CASE c.by = "view"
  <2>1. Settled(calls'[w]) /\ \A o : OpensIn(calls'[w], o) => OpensIn(calls[w], o)
    BY <1>1, <1>3, CalmFact DEF ViewsAt, TypeOK
  <2>2. OpensIn(calls[w], c.panel)
    BY <1>5, <1>10 DEF OpensIn, IsOpen
  <2>3. ~DetachIn(calls'[w])
    <3> SUFFICES ASSUME NEW j \in DOMAIN Tail(calls[w]),
                        Tail(calls[w])[j].op = "detach"
                 PROVE  FALSE
      BY <1>2 DEF DetachIn
    <3>1. j \in Nat /\ j >= 1 /\ j + 1 \in DOMAIN calls[w]
          /\ Tail(calls[w])[j] = calls[w][j + 1]
      BY <1>1, HeadTailProperties
    <3>2. 1 < j + 1 /\ IsOpen(calls[w][1])
      BY <1>5, <1>10, <3>1 DEF IsOpen
    <3> QED BY <1>5, <3>1, <3>2 DEF ViewsAt, Settled
  <2>4. ASSUME NEW o \in Panels, Opening(w, o)' PROVE panel'[w][o].here
    <3>1. Opening(w, o)
      BY <1>7, <1>8, <2>1, <2>2, <2>4 DEF Opening
    <3> QED BY <3>1 DEF ViewsAt
  <2>5. ASSUME NEW j \in Ptys, Sees(w, j)' PROVE Counted(w, j)'
    <3>1. Sees(w, j) \/ j = i
      BY <1>7, <1>8, <2>5 DEF Sees
    <3>2. CASE Sees(w, j)
      BY <3>2, CountedStays DEF ViewsAt
    <3>3. CASE j = i
      BY <3>3, PtysType
    <3> QED BY <3>1, <3>2, <3>3
  <2> QED BY <2>1, <2>3, <2>4, <2>5 DEF ViewsAt
<1> QED BY <1>9, <1>10

LEMMA AddPanelViews ==
  ASSUME TypeOK, TypeOK', TableInv, [Next]_vars, NEW w \in Windows, ViewsAt(w),
         NEW v \in Windows, NEW p \in Panels, NEW sid \in SidType,
         AddPanel(v, p, sid), UNCHANGED answers
  PROVE  ViewsAt(w)'
<1>1. PICK x : x = Added(sid)
  OBVIOUS
<1>2. x \in Panel /\ x.here /\ x.view # "open"
  BY <1>1, PanelTypes DEF Added, NoPanel
<1>3. panel' = [panel EXCEPT ![v][p] = x]
      /\ calls' = [calls EXCEPT ![v] = Append(@, OpenCall(p))]
  BY <1>1 DEF AddPanel
<1>4. CASE v = w
  <2>1. calls[w] \in Seq(Call) /\ calls'[w] = Append(calls[w], OpenCall(p))
    BY <1>3, <1>4 DEF TypeOK
  <2> QED BY <1>2, <1>3, <1>4, <2>1, CalmSame, OpenSent
<1>5. CASE v # w
  <2>1. calls'[w] = calls[w] /\ panel'[w] = panel[w]
    BY <1>3, <1>5 DEF TypeOK
  <2> QED BY <2>1, Elsewhere
<1> QED BY <1>4, <1>5

LEMMA RemovePanelViews ==
  ASSUME TypeOK, TypeOK', TableInv, [Next]_vars, OnePerWindow,
         NEW w \in Windows, ViewsAt(w), NEW v \in Windows, NEW p \in Panels,
         panel[v][p].here, NEW last \in BOOLEAN, NEW told \in SUBSET answers,
         NEW then \in Seq(Call), OpensNone(then),
         RemovePanel(v, p, last, told, then)
  PROVE  ViewsAt(w)'
<1>1. CASE v = w
  BY <1>1, PanelGone
<1>2. CASE v # w
  <2>1. calls'[w] = calls[w] /\ panel'[w] = panel[w] /\ answers' \subseteq answers
    BY <1>2 DEF RemovePanel, TypeOK
  <2> QED BY <2>1, Elsewhere
<1> QED BY <1>1, <1>2

LEMMA NoneOpens == <<>> \in Seq(Call) /\ OpensNone(<<>>)
BY EmptySeq DEF OpensNone

LEMMA HideViews ==
  ASSUME TypeOK, TypeOK', TableInv, [Next]_vars, NEW w \in Windows, ViewsAt(w),
         NEW v \in Windows, NEW p \in Panels, Hide(v, p)
  PROVE  ViewsAt(w)'
<1>1. \A a \in answers' : IsOpen(a) /\ a.to = w => a \in answers
  <2>1. \A a \in answers : LET b == AwaitedBy(p, "view", "panel", a) IN
          b = a \/ ~IsOpen(b)
    BY DEF AwaitedBy, IsOpen, TypeOK, Answer
  <2> QED BY <2>1 DEF Hide
<1>2. CASE v # w
  <2>1. calls'[w] = calls[w] /\ panel'[w] = panel[w]
    BY <1>2 DEF Hide, TypeOK
  <2> QED BY <1>1, <2>1, Elsewhere
<1>3. CASE v = w
  <2> DEFINE q == calls[w]
             r == [i \in DOMAIN q |-> AwaitedBy(p, "view", "panel", q[i])]
  <2>1. q \in Seq(Call)
    BY DEF TypeOK
  <2>2. r \in Seq(Call) /\ Len(r) = Len(q)
    <3>1. \A c \in Call : AwaitedBy(p, "view", "panel", c) \in Call
      BY AwaitedType
    <3>2. \A i \in DOMAIN q : r[i] \in Call
      BY <2>1, <3>1
    <3>3. r \in Seq(Call)
      BY <2>1, <3>2, Mapped
    <3>4. DOMAIN r = 1..Len(q) /\ Len(q) \in Nat
      BY <2>1
    <3> HIDE DEF r
    <3> QED BY <3>3, <3>4
  <2>3. \A c \in Call : LET b == AwaitedBy(p, "view", "panel", c) IN
          (IsOpen(b) => b = c) /\ (b.op = "detach" => c.op = "detach")
    BY DEF AwaitedBy, IsOpen, Call
  <2>4. \A i \in DOMAIN q :
          /\ IsOpen(r[i]) => IsOpen(q[i]) /\ q[i].panel = r[i].panel
          /\ r[i].op = "detach" => q[i].op = "detach"
    BY <2>1, <2>3
  <2>5. calls'[w] = r
    BY <1>3 DEF Hide, TypeOK
  <2> HIDE DEF q, r
  <2>6. Calm(calls[w], calls'[w])
    BY <2>1, <2>2, <2>4, <2>5, CalmMap DEF q
  <2>7. PICK x : x = ViewIs(panel[w][p], "hidden")
    OBVIOUS
  <2>8. x.view = "hidden" /\ x.here = panel[w][p].here
    BY <2>7 DEF ViewIs, TypeOK, Panel
  <2>9. panel' = [panel EXCEPT ![w][p] = x]
    BY <1>3, <2>7 DEF Hide
  <2>10. \A o \in Panels : panel'[w][o] = IF o = p THEN x ELSE panel[w][o]
    BY <2>9 DEF TypeOK
  <2>11. ASSUME NEW o \in Panels
         PROVE  /\ panel'[w][o].view = "open" =>
                     panel[w][o].view = "open" /\ panel'[w][o].id = panel[w][o].id
                /\ panel[w][o].here => panel'[w][o].here
    <3>1. CASE o = p
      BY <2>8, <2>10, <3>1
    <3>2. CASE o # p
      BY <2>10, <3>2
    <3> QED BY <3>1, <3>2
  <2> QED BY <1>1, <2>6, <2>11, CalmViews
<1> QED BY <1>2, <1>3

LEMMA ShowViews ==
  ASSUME TypeOK, TypeOK', TableInv, [Next]_vars, NEW w \in Windows, ViewsAt(w),
         NEW v \in Windows, NEW p \in Panels, Show(v, p)
  PROVE  ViewsAt(w)'
<1>1. CASE v # w
  <2>1. calls'[w] = calls[w] /\ panel'[w] = panel[w] /\ UNCHANGED answers
    BY <1>1 DEF Show, TypeOK
  <2> QED BY <2>1, Elsewhere
<1>2. CASE v = w
  <2>1. PICK x : x = ViewIs(panel[w][p], "opening")
    OBVIOUS
  <2>2. panel[w][p] \in Panel /\ panel[w][p].here
    BY <1>2 DEF Show, At, TypeOK
  <2>3. x \in Panel
    BY <2>1, <2>2, ViewIsType
  <2>4. x.view = "opening" /\ x.here = panel[w][p].here
    BY <2>1, <2>2 DEF ViewIs, Panel
  <2>5. panel' = [panel EXCEPT ![w][p] = x]
    BY <1>2, <2>1 DEF Show
  <2>6. calls[w] \in Seq(Call) /\ calls'[w] = Append(calls[w], OpenCall(p))
    BY <1>2 DEF Show, TypeOK
  <2> QED BY <2>2, <2>3, <2>4, <2>5, <2>6, CalmSame, OpenSent DEF Show
<1> QED BY <1>1, <1>2

(* A call that neither opens nor detaches is appended, or none is.           *)
LEMMA CallViews ==
  ASSUME TypeOK, TypeOK', TableInv, [Next]_vars, NEW w \in Windows, ViewsAt(w),
         NEW v \in Windows, NEW c \in Call, ~IsOpen(c), c.op # "detach",
         calls' = [calls EXCEPT ![v] = Append(@, c)], UNCHANGED <<panel, answers>>
  PROVE  ViewsAt(w)'
<1>1. calls[w] \in Seq(Call)
  BY DEF TypeOK
<1>2. calls'[w] = calls[w] \/ calls'[w] = Append(calls[w], c)
  BY DEF TypeOK
<1>3. Calm(calls[w], calls'[w])
  BY <1>1, <1>2, CalmSame, CalmAppend
<1> QED BY <1>3, CalmViews

LEMMA UsersViews ==
  ASSUME TypeOK, TypeOK', TableInv, [Next]_vars, OnePerWindow,
         NEW w \in up' \ closing', NEW u \in Windows, u = w, ViewsAt(w), Users
  PROVE  ViewsAt(w)'
<1>1. ASSUME NEW p \in Panels, OpenPanel(p) PROVE ViewsAt(w)'
  BY <1>1, MainAssumption, AddPanelViews DEF OpenPanel, SidType
<1>2. ASSUME NEW v \in Windows, NEW p \in Panels, ClosePanel(v, p)
      PROVE  ViewsAt(w)'
  BY <1>2, NoneOpens, RemovePanelViews DEF ClosePanel, At
<1>3. ASSUME NEW v \in Windows, NEW p \in Panels, TakeOver(v, p) \/ Delete(v, p)
      PROVE  ViewsAt(w)'
  <2>1. panel[v][p] \in Panel
    BY DEF TypeOK
  <2>2. CASE TakeOver(v, p)
    <3>1. PICK c : c = TakeCall(p, panel[v][p].id)
      OBVIOUS
    <3>2. panel[v][p].id \in Ptys
      BY <2>1, <2>2 DEF TakeOver, Panel
    <3>3. c \in Call /\ c.op = "take"
      BY <3>1, <3>2, CallTypes DEF TakeCall, ACall
    <3>4. calls' = [calls EXCEPT ![v] = Append(@, c)]
      BY <2>2, <3>1 DEF TakeOver
    <3> QED BY <2>2, <3>3, <3>4, CallViews DEF TakeOver, IsOpen
  <2>3. CASE Delete(v, p)
    <3>1. PICK c : c = CloseCall(p, panel[v][p].sid)
      OBVIOUS
    <3>2. panel[v][p].sid \in Ptys
      BY <2>1, <2>3 DEF Delete, Panel
    <3>3. c \in Call /\ c.op = "close"
      BY <3>1, <3>2, CallTypes DEF CloseCall, ACall
    <3>4. calls' = [calls EXCEPT ![v] = Append(@, c)]
      BY <2>3, <3>1 DEF Delete
    <3> QED BY <2>3, <3>3, <3>4, CallViews DEF Delete, IsOpen
  <2> QED BY <1>3, <2>2, <2>3
<1>4. ASSUME NEW v \in Windows, CloseWindow(v) PROVE ViewsAt(w)'
  <2>1. v # w
    BY <1>4 DEF CloseWindow
  <2>2. calls'[w] = calls[w] /\ UNCHANGED <<panel, answers>>
    BY <1>4, <2>1 DEF CloseWindow, TypeOK
  <2> QED BY <2>2, Elsewhere
<1>5. ASSUME NEW v \in Windows, Destroy(v) PROVE ViewsAt(w)'
  <2>1. v # w
    BY <1>5 DEF Destroy
  <2>2. calls'[w] = calls[w] /\ panel'[w] = panel[w] /\ answers' \subseteq answers
    BY <1>5, <2>1 DEF Destroy, TypeOK
  <2> QED BY <2>2, Elsewhere
<1> QED BY <1>1, <1>2, <1>3, <1>4, <1>5, HideViews, ShowViews DEF Users

LEMMA MainThreadViews ==
  ASSUME TypeOK, TypeOK', TableInv, [Next]_vars,
         NEW w \in Windows, ViewsAt(w), MainThread
  PROVE  ViewsAt(w)'
<1>1. ASSUME NEW v \in Windows, NEW op, Turn(v, op), Ran(v), UNCHANGED panel,
             \A a \in answers' : IsOpen(a) /\ a.to = w => a \in answers
      PROVE  ViewsAt(w)'
  <2>1. calls[v] \in Seq(Call) /\ calls[v] # <<>> /\ calls[w] \in Seq(Call)
    BY <1>1 DEF Turn, TypeOK
  <2>2. calls'[w] = IF w = v THEN Tail(calls[v]) ELSE calls[w]
    BY <1>1 DEF Ran, TypeOK
  <2>3. Calm(calls[w], calls'[w])
    BY <2>1, <2>2, CalmTail, CalmSame
  <2> QED BY <1>1, <2>3, CalmViews
<1>2. ASSUME NEW v \in Windows, NEW i \in SidType, NEW s, Turn(v, "open"), Ran(v),
             UNCHANGED panel, Tell(v, Head(calls[v]), i, s),
             i # NoPty => Counted(v, i)'
      PROVE  ViewsAt(w)'
  <2>1. CASE v = w
    BY <1>2, <2>1, OpenTold
  <2>2. CASE v # w
    <3>1. \A a \in answers' : IsOpen(a) /\ a.to = w => a \in answers
      BY <1>2, <2>2 DEF Tell
    <3> QED BY <1>1, <1>2, <3>1
  <2> QED BY <2>1, <2>2
<1>3. ASSUME NEW v \in Windows, Attach(v) PROVE ViewsAt(w)'
  <2>1. PICK i, s : i = rt.live /\ s = AttachedBy(rt.by_id[i], v)
    OBVIOUS
  <2>2. i \in Ptys /\ rt.by_id[i] \in Sess /\ pty[i] = "running"
    BY <1>3, <2>1 DEF Attach, Alive, TypeOK, ClaudeRuntime
  <2>3. s \in Sess /\ Views(s, v)
    <3>1. PICK j : j = Joined(rt.by_id[i], v)
      OBVIOUS
    <3>2. j \in Sess /\ Views(j, v)
      BY <2>2, <3>1, JoinedFact
    <3>3. Promoted(j, v).attached = j.attached
      BY <3>2, DrivenFact DEF Promoted
    <3> QED BY <2>1, <2>2, <3>1, <3>2, <3>3, AttachedFact DEF AttachedBy, Views
  <2>4. rt' = [rt EXCEPT !.by_id[i] = s] /\ UNCHANGED <<pty, panel>>
        /\ Tell(v, Head(calls[v]), i, s) /\ Turn(v, "open") /\ Ran(v)
    BY <1>3, <2>1 DEF Attach
  <2>5. rt'.by_id[i] = s
    BY <2>2, <2>3, <2>4, EntrySet DEF TypeOK, ClaudeRuntime
  <2>6. Counted(v, i)'
    BY <2>2, <2>3, <2>4, <2>5 DEF Counted
  <2> QED BY <1>2, <2>2, <2>4, <2>6 DEF SidType
<1>4. ASSUME NEW v \in Windows, Spawn(v) PROVE ViewsAt(w)'
  <2>1. PICK i \in Fresh :
          /\ rt' = Registered(Cleaned(rt), i, v)
          /\ pty' = [pty EXCEPT ![i] = "running"]
          /\ Tell(v, Head(calls[v]), i, rt'.by_id[i])
    BY <1>4 DEF Spawn
  <2>2. i \in Ptys
    BY DEF Fresh
  <2>3. PICK s : s = rt'.by_id[i]
    OBVIOUS
  <2>4. Views(s, v)
    <3>1. s.attached = <<v>>
      BY <2>1, <2>2, <2>3, CleanedFact DEF Registered, TypeOK, ClaudeRuntime
    <3> QED BY <3>1 DEF Views, ToSet
  <2>5. pty'[i] = "running"
    BY <2>1, <2>2 DEF TypeOK
  <2>6. Counted(v, i)'
    BY <2>3, <2>4, <2>5 DEF Counted
  <2>7. Tell(v, Head(calls[v]), i, s) /\ Turn(v, "open") /\ Ran(v)
        /\ UNCHANGED panel
    BY <1>4, <2>1, <2>3 DEF Spawn
  <2> QED BY <1>2, <2>2, <2>6, <2>7 DEF SidType
<1>5. ASSUME NEW v \in Windows, SpawnFails(v) PROVE ViewsAt(w)'
  <2>1. PICK i, s : i = NoPty /\ s = Unknown
    OBVIOUS
  <2>2. Tell(v, Head(calls[v]), i, s) /\ Turn(v, "open") /\ Ran(v)
        /\ UNCHANGED panel
    BY <1>5, <2>1 DEF SpawnFails
  <2> QED BY <1>2, <2>1, <2>2 DEF SidType
<1>6. ASSUME NEW v \in Windows, Close(v) PROVE ViewsAt(w)'
  <2>1. Turn(v, "close") /\ Ran(v) /\ UNCHANGED panel
    BY <1>6 DEF Close
  <2>2. \A a \in answers' : IsOpen(a) /\ a.to = w => a \in answers
    <3>1. PICK c, s : c = Head(calls[v]) /\ s = Unknown
      OBVIOUS
    <3>2. Tell(v, c, c.id, s) /\ c.op = "close"
      BY <1>6, <3>1 DEF Close, Turn
    <3> QED BY <3>2 DEF Tell, IsOpen
  <2> QED BY <1>1, <2>1, <2>2
<1>7. ASSUME NEW v \in Windows, Detach(v) \/ SetDriver(v) \/ Emit(v)
      PROVE  ViewsAt(w)'
  <2>1. \E op : Turn(v, op) /\ Ran(v)
    BY <1>7 DEF Detach, SetDriver, Emit
  <2>2. UNCHANGED <<panel, answers>>
    BY <1>7 DEF Detach, SetDriver, Emit
  <2> QED BY <1>1, <2>1, <2>2
<1> QED BY <1>3, <1>4, <1>5, <1>6, <1>7 DEF MainThread

LEMMA ThreadsViews ==
  ASSUME TypeOK, TypeOK', TableInv, [Next]_vars, NEW w \in Windows, ViewsAt(w),
         Threads \/ UNCHANGED vars
  PROVE  ViewsAt(w)'
<1>1. UNCHANGED <<panel, calls, answers>>
  BY DEF Threads, Exit, PollEnds, vars
<1> QED BY <1>1, Elsewhere

LEMMA OpenAnsweredViews ==
  ASSUME TypeOK, TypeOK', TableInv, [Next]_vars, NEW w \in Windows, ViewsAt(w),
         NEW a \in answers, OpenAnswered(a)
  PROVE  ViewsAt(w)'
<1>1. a \in Answer /\ a.to \in Windows /\ a.panel \in Panels
  BY DEF TypeOK, Answer
<1>2. UNCHANGED calls /\ answers' \subseteq answers /\ a.op = "open"
  BY DEF OpenAnswered
<1>3. PICK q, x : q = panel[a.to][a.panel]
                  /\ x = IF a.id = NoPty THEN NotOpened(q, a) ELSE Opened(q, a)
  OBVIOUS
<1>4. panel' = [panel EXCEPT ![a.to][a.panel] = x]
  BY <1>3 DEF OpenAnswered
<1>5. CASE a.to # w
  <2>1. calls'[w] = calls[w] /\ panel'[w] = panel[w]
    BY <1>2, <1>4, <1>5 DEF TypeOK
  <2> QED BY <1>2, <2>1, Elsewhere
<1>6. CASE a.to = w
  <2>1. \A p \in Panels : panel'[w][p] = IF p = a.panel THEN x ELSE panel[w][p]
    BY <1>1, <1>4, <1>6 DEF TypeOK
  <2>2. q \in Panel /\ q = panel[w][a.panel]
    BY <1>1, <1>3, <1>6 DEF TypeOK
  <2>3. x.here = q.here
    BY <1>3, <2>2 DEF NotOpened, Opened, ViewIs, Panel
  <2>4. \/ x.view # "open"
        \/ x.view = q.view /\ x.id = q.id
        \/ IsOpen(a) /\ x.id = a.id
    <3>1. CASE a.by = "view"
      BY <1>2, <1>3, <2>2, <3>1 DEF NotOpened, Opened, ViewIs, Panel, IsOpen
    <3>2. CASE a.by # "view"
      BY <1>3, <2>2, <3>2 DEF NotOpened, Opened, Panel
    <3> QED BY <3>1, <3>2
  <2>5. IsOpen(a) => Opening(w, a.panel) /\ \A i \in Ptys : i = a.id => Sees(w, i)
    BY <1>6 DEF Opening, Sees
  <2>6. ASSUME NEW p \in Panels, Opening(w, p)' PROVE Opening(w, p)
    <3>1. CASE panel'[w][p].view = "open"
      <4>1. CASE p = a.panel
        BY <2>1, <2>2, <2>4, <2>5, <3>1, <4>1 DEF Opening
      <4>2. CASE p # a.panel
        BY <2>1, <3>1, <4>2 DEF Opening
      <4> QED BY <4>1, <4>2
    <3>2. CASE panel'[w][p].view # "open"
      BY <1>2, <2>6, <3>2 DEF Opening
    <3> QED BY <3>1, <3>2
  <2>7. ASSUME NEW i \in Ptys, Sees(w, i)' PROVE Sees(w, i)
    <3>1. CASE \E b \in answers' : IsOpen(b) /\ b.to = w /\ b.id = i
      BY <1>2, <3>1 DEF Sees
    <3>2. CASE \E p \in Panels : panel'[w][p].view = "open" /\ panel'[w][p].id = i
      <4>1. PICK p \in Panels : panel'[w][p].view = "open" /\ panel'[w][p].id = i
        BY <3>2
      <4>2. CASE p = a.panel
        BY <2>1, <2>2, <2>4, <2>5, <4>1, <4>2 DEF Sees
      <4>3. CASE p # a.panel
        BY <2>1, <4>1, <4>3 DEF Sees
      <4> QED BY <4>2, <4>3
    <3> QED BY <2>7, <3>1, <3>2 DEF Sees
  <2>8. \A p \in Panels : panel[w][p].here => panel'[w][p].here
    BY <2>1, <2>2, <2>3
  <2>9. \A i \in Ptys : Sees(w, i) => Counted(w, i)'
    BY CountedStays DEF ViewsAt
  <2>10. Calm(calls[w], calls'[w])
    BY <1>2, CalmSame DEF TypeOK
  <2> QED BY <2>6, <2>7, <2>8, <2>9, <2>10, QuietViews
<1> QED BY <1>5, <1>6

LEMMA DeleteAnsweredViews ==
  ASSUME TypeOK, TypeOK', TableInv, [Next]_vars, OnePerWindow,
         NEW w \in Windows, ViewsAt(w), NEW a \in answers, DeleteAnswered(a)
  PROVE  ViewsAt(w)'
<1>1. a.to \in Windows /\ a.panel \in Panels
  BY DEF TypeOK, Answer
<1>2. CASE panel[a.to][a.panel].here
  <2>1. PICK told \in SUBSET answers : told = answers \ {a}
    OBVIOUS
  <2>2. RemovePanel(a.to, a.panel, TRUE, told, <<>>)
    BY <1>2, <2>1 DEF DeleteAnswered
  <2>3. PICK v, p : v = a.to /\ p = a.panel
    OBVIOUS
  <2> QED BY <1>1, <1>2, <2>2, <2>3, NoneOpens, RemovePanelViews
<1>3. CASE ~panel[a.to][a.panel].here
  <2>1. answers' \subseteq answers /\ UNCHANGED <<panel, calls>>
    BY <1>3 DEF DeleteAnswered
  <2> QED BY <2>1, Elsewhere
<1> QED BY <1>2, <1>3

LEMMA HearViews ==
  ASSUME TypeOK, TypeOK', TableInv, [Next]_vars, NEW w \in Windows, ViewsAt(w),
         NEW v \in Windows, Hear(v)
  PROVE  ViewsAt(w)'
<1>1. UNCHANGED <<calls, answers>>
  BY DEF Hear
<1>2. CASE v # w
  <2>1. panel'[w] = panel[w]
    BY <1>2 DEF Hear, TypeOK
  <2> QED BY <1>1, <2>1, Elsewhere
<1>3. CASE v = w
  <2>1. PICK e : e = Head(inbox[w])
    OBVIOUS
  <2>2. \A q \in Panel : Heard(q, w, e).here = q.here
          /\ (Heard(q, w, e).view = "open" =>
                q.view = "open" /\ Heard(q, w, e).id = q.id)
    BY DEF Heard, ViewIs, Panel
  <2>3. \A p \in Panels : panel'[w][p] = Heard(panel[w][p], w, e)
                          /\ panel[w][p] \in Panel
    BY <1>3, <2>1 DEF Hear, TypeOK
  <2>4. Calm(calls[w], calls'[w])
    BY <1>1, CalmSame DEF TypeOK
  <2>5. \A p \in Panels :
          /\ panel'[w][p].view = "open" =>
               panel[w][p].view = "open" /\ panel'[w][p].id = panel[w][p].id
          /\ panel[w][p].here => panel'[w][p].here
    BY <2>2, <2>3
  <2> QED BY <1>1, <2>4, <2>5, CalmViews
<1> QED BY <1>2, <1>3

LEMMA HandOffViews ==
  ASSUME TypeOK, TypeOK', TableInv, [Next]_vars, OnePerWindow,
         NEW w \in Windows, ViewsAt(w), NEW v \in Windows, NEW p \in Panels,
         HandOff(v, p)
  PROVE  ViewsAt(w)'
<1>1. moving[v][p] \in Moving
  BY DEF TypeOK
<1>2. PICK c : c = EmitCall(p, moving[v][p])
  OBVIOUS
<1>3. c \in Call /\ ~IsOpen(c) /\ c.op = "emit"
  <2>1. <<c>> \in Seq(Call)
    BY <1>1, <1>2, EmitCallType
  <2>2. c = <<c>>[1] /\ 1 \in DOMAIN <<c>>
    OBVIOUS
  <2>3. c \in Call
    BY <2>1, <2>2
  <2>4. c.op = "emit"
    BY <1>2 DEF EmitCall, ACall
  <2> QED BY <2>3, <2>4 DEF IsOpen
<1>4. CASE panel[v][p].here
  <2>1. RemovePanel(v, p, FALSE, answers, <<c>>)
    BY <1>2, <1>4 DEF HandOff
  <2>2. <<c>> \in Seq(Call) /\ OpensNone(<<c>>)
    BY <1>3 DEF OpensNone
  <2>3. answers \in SUBSET answers
    OBVIOUS
  <2> QED BY <1>4, <2>1, <2>2, <2>3, RemovePanelViews
<1>5. CASE ~panel[v][p].here
  <2>1. calls' = [calls EXCEPT ![v] = @ \o <<c>>] /\ UNCHANGED <<panel, answers>>
    BY <1>2, <1>5 DEF HandOff
  <2>2. calls' = [calls EXCEPT ![v] = Append(@, c)]
    <3>1. calls[v] \o <<c>> = Append(calls[v], c)
      BY <1>3 DEF TypeOK
    <3> QED BY <2>1, <3>1
  <2>3. c.op # "detach"
    BY <1>3
  <2> QED BY <1>3, <2>1, <2>2, <2>3, CallViews
<1> QED BY <1>4, <1>5

LEMMA AckTimeoutViews ==
  ASSUME TypeOK, TypeOK', TableInv, [Next]_vars, NEW w \in Windows, ViewsAt(w),
         NEW v \in Windows, NEW p \in Panels, AckTimeout(v, p)
  PROVE  ViewsAt(w)'
<1> DEFINE q == calls[v]
           r == [i \in DOMAIN q |-> NoOneWaits(p, q[i])]
<1>1. q \in Seq(Call)
  BY DEF TypeOK
<1>2. r \in Seq(Call) /\ Len(r) = Len(q)
  <2>1. \A i \in DOMAIN q : r[i] \in Call
    BY <1>1, NoOneWaitsType
  <2>2. r \in Seq(Call)
    BY <1>1, <2>1, Mapped
  <2>3. DOMAIN r = 1..Len(q) /\ Len(q) \in Nat
    BY <1>1
  <2> HIDE DEF r
  <2> QED BY <2>2, <2>3
<1>3. \A i \in DOMAIN q :
        /\ IsOpen(r[i]) => IsOpen(q[i]) /\ q[i].panel = r[i].panel
        /\ r[i].op = "detach" => q[i].op = "detach"
  <2>1. \A c \in Call : LET d == NoOneWaits(p, c) IN
          d.op = c.op /\ d.panel = c.panel /\ (IsOpen(d) => IsOpen(c))
    BY DEF NoOneWaits, IsOpen, Call
  <2> QED BY <1>1, <2>1
<1>4. UNCHANGED answers
  BY DEF AckTimeout
<1>5. \/ calls' = [calls EXCEPT ![v] = r] /\ UNCHANGED panel
      \/ /\ panel' = [panel EXCEPT ![v][p] = Added(moving[v][p].sid)]
         /\ calls' = [[calls EXCEPT ![v] = r] EXCEPT ![v] = Append(@, OpenCall(p))]
  BY DEF AckTimeout
<1> HIDE DEF q, r
<1>6. CASE v # w
  <2>1. calls'[w] = calls[w] /\ panel'[w] = panel[w]
    BY <1>5, <1>6 DEF TypeOK
  <2> QED BY <1>4, <2>1, Elsewhere
<1>7. CASE v = w
  <2>1. Calm(calls[w], r)
    BY <1>1, <1>2, <1>3, <1>7, CalmMap DEF q
  <2>2. CASE calls' = [calls EXCEPT ![v] = r] /\ UNCHANGED panel
    <3>1. calls'[w] = r
      BY <1>7, <2>2 DEF TypeOK
    <3>2. Calm(calls[w], calls'[w])
      BY <2>1, <3>1
    <3> QED BY <1>4, <2>2, <3>2, CalmViews
  <2>3. CASE /\ panel' = [panel EXCEPT ![v][p] = Added(moving[v][p].sid)]
             /\ calls' = [[calls EXCEPT ![v] = r] EXCEPT ![v] = Append(@, OpenCall(p))]
    <3>1. moving[v][p].sid \in SidType
      BY DEF TypeOK, Moving, SidType
    <3>2. PICK x : x = Added(moving[v][p].sid)
      OBVIOUS
    <3>3. x \in Panel /\ x.here /\ x.view # "open"
      BY <3>1, <3>2, PanelTypes DEF Added, NoPanel
    <3>4. panel' = [panel EXCEPT ![w][p] = x]
      BY <1>7, <2>3, <3>2
    <3>5. calls'[w] = Append(r, OpenCall(p))
      BY <1>7, <2>3 DEF TypeOK
    <3> QED BY <1>2, <1>4, <2>1, <3>3, <3>4, <3>5, OpenSent
  <2> QED BY <1>5, <2>2, <2>3
<1> QED BY <1>6, <1>7

LEMMA DeliveryViews ==
  ASSUME TypeOK, TypeOK', TableInv, [Next]_vars, NEW w \in Windows, ViewsAt(w),
         NEW m \in mail, Take(m) \/ Refuse(m) \/ Result(m) \/ Undelivered(m)
  PROVE  ViewsAt(w)'
<1>1. m.to \in Windows /\ m.panel \in Panels /\ m.sid \in SidType
  BY DEF TypeOK, Mail, SidType
<1>2. moving[m.to][m.panel].sid \in SidType
  <2>1. moving[m.to][m.panel] \in Moving
    BY <1>1 DEF TypeOK
  <2> QED BY <2>1 DEF Moving, SidType
<1>3. UNCHANGED answers
  BY DEF Take, Refuse, Result, Undelivered
<1>4. PICK v \in Windows, p \in Panels : v = m.to /\ p = m.panel
  BY <1>1
<1>5. UNCHANGED <<panel, calls>> \/ \E sid \in SidType : AddPanel(v, p, sid)
  BY <1>1, <1>2, <1>4 DEF Take, Refuse, Result, Reinsert, Undelivered
<1>6. CASE UNCHANGED <<panel, calls>>
  BY <1>3, <1>6, Elsewhere
<1>7. ASSUME NEW sid \in SidType, AddPanel(v, p, sid) PROVE ViewsAt(w)'
  BY <1>3, <1>7, AddPanelViews
<1> QED BY <1>5, <1>6, <1>7

LEMMA TransfersViews ==
  ASSUME TypeOK, TypeOK', TableInv, [Next]_vars, OnePerWindow,
         NEW w \in Windows, ViewsAt(w), Transfers
  PROVE  ViewsAt(w)'
<1>1. ASSUME NEW v \in Windows, NEW p \in Panels,
             MoveAborted(v, p) \/ \E u \in Windows : MoveStart(v, p, u)
      PROVE  ViewsAt(w)'
  <2>1. UNCHANGED <<panel, calls, answers>>
    BY <1>1 DEF MoveAborted, MoveStart
  <2> QED BY <2>1, Elsewhere
<1> QED BY <1>1, HandOffViews, AckTimeoutViews, DeliveryViews DEF Transfers

LEMMA InitViews == Init => ViewsInv
<1> SUFFICES ASSUME Init, NEW w \in Windows PROVE ViewsAt(w)
  BY DEF ViewsInv, Init
<1>1. calls[w] = <<>> /\ answers = {} /\ \A p \in Panels : panel[w][p] = NoPanel
  BY DEF Init
<1>2. (\A p \in Panels : ~Opening(w, p)) /\ \A i : ~Sees(w, i)
  BY <1>1 DEF Opening, OpensIn, Sees, NoPanel
<1>3. Settled(calls[w])
  BY <1>1 DEF Settled
<1> QED BY <1>2, <1>3 DEF ViewsAt

(* A window that stays was there, and was not closing.                       *)
LEMMA WindowsStay ==
  ASSUME TypeOK, [Next]_vars
  PROVE  up' \ closing' \subseteq up \ closing
<1>1. CASE Users
  <2>1. ASSUME NEW v \in Windows, CloseWindow(v) \/ Destroy(v)
        PROVE  up' \ closing' \subseteq up \ closing
    BY <2>1 DEF CloseWindow, Destroy, User
  <2>2. UNCHANGED <<up, closing>> \/ \E v \in Windows : CloseWindow(v) \/ Destroy(v)
    BY <1>1, ZenonT(40) DEF Users, OpenPanel, Hide, Show, ClosePanel, TakeOver, Delete
  <2> QED BY <2>1, <2>2
<1>2. CASE MainThread
  BY <1>2
     DEF MainThread, Attach, Spawn, SpawnFails, Detach, SetDriver, Close, Emit
<1>3. CASE Threads
  BY <1>3 DEF Threads, Exit, PollEnds
<1>4. CASE Webviews
  BY <1>4 DEF Webviews, OpenAnswered, DeleteAnswered, Hear
<1>5. CASE Transfers
  BY <1>5, ZenonT(40)
     DEF Transfers, MoveStart, HandOff, MoveAborted, AckTimeout, Take, Refuse,
         Result, Undelivered
<1>6. CASE UNCHANGED vars
  BY <1>6 DEF vars
<1> QED BY <1>1, <1>2, <1>3, <1>4, <1>5, <1>6 DEF Next

LEMMA NextViews ==
  TypeOK /\ TypeOK' /\ TableInv /\ OnePerWindow /\ ViewsInv /\ [Next]_vars
    => ViewsInv'
<1> SUFFICES ASSUME TypeOK, TypeOK', TableInv, OnePerWindow, ViewsInv,
                    [Next]_vars, NEW w \in up' \ closing'
             PROVE  ViewsAt(w)'
  BY DEF ViewsInv
<1>1. w \in Windows /\ ViewsAt(w)
  BY WindowsStay DEF ViewsInv, TypeOK
<1>2. CASE Users
  BY <1>1, <1>2, UsersViews
<1>3. CASE MainThread
  BY <1>1, <1>3, MainThreadViews
<1>4. CASE Threads \/ UNCHANGED vars
  BY <1>1, <1>4, ThreadsViews
<1>5. CASE Webviews
  BY <1>1, <1>5, OpenAnsweredViews, DeleteAnsweredViews, HearViews DEF Webviews
<1>6. CASE Transfers
  BY <1>1, <1>6, TransfersViews
<1> QED BY <1>2, <1>3, <1>4, <1>5, <1>6 DEF Next

LEMMA ViewsNeverClosed == TypeOK /\ ViewsInv => ViewsStayOpen
<1> SUFFICES ASSUME TypeOK, ViewsInv, NEW w \in up \ closing, NEW p \in Panels,
                    panel[w][p].view = "open"
             PROVE  pty[panel[w][p].id] # "closed"
  BY DEF ViewsStayOpen
<1>1. PICK i : i = panel[w][p].id
  OBVIOUS
<1>2. w \in Windows /\ i \in Ptys
  BY <1>1 DEF TypeOK, Panel
<1>3. ViewsAt(w) /\ Sees(w, i)
  BY <1>1 DEF ViewsInv, Sees
<1> QED BY <1>1, <1>2, <1>3 DEF ViewsAt, Counted

(* As long as no window holds two panels of the session, the last viewer's   *)
(* detach closes the PTY under nobody: a view that is open, or whose open    *)
(* was answered, is in the table's list of viewers, and no detach of its     *)
(* window is under way behind its open (attach_live, detach's reference      *)
(* count, panelSession.ts).  The list counts windows and not panels, which   *)
(* is why the condition is needed.                                           *)
THEOREM NeverClosedTheorem == Spec => NeverClosedUnderAView
<1>1. Spec /\ []OnePerWindow => []ViewsStayOpen
  BY InitType, NextType, InitTable, NextTable, InitViews, NextViews,
     ViewsNeverClosed, PTL DEF Spec
<1> QED BY <1>1, PTL DEF NeverClosedUnderAView

(* With one panel the condition is met, and no view is ever left open.       *)
COROLLARY OnePanelTheorem ==
  ASSUME \A p, q \in Panels : p = q
  PROVE  Spec => []ViewsStayOpen
<1>1. OnePerWindow
  BY DEF OnePerWindow
<1> QED BY <1>1, NeverClosedTheorem, PTL DEF NeverClosedUnderAView
=============================================================================
