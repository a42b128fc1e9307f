---------------------------- MODULE ClaudeRuntime ----------------------------
(* The live Claude sessions of the app, behind one lock: the transitions T1  *)
(* to T7 of src-tauri/src/commands/claude/runtime.rs as functions of the     *)
(* table.  Sessions of different uuids share nothing but the lock, so the    *)
(* table is that of one (project, uuid) and of the PTYs it has had.          *)
EXTENDS Naturals, SequencesExt

CONSTANTS
  Windows,   \* window labels
  MaxPty     \* bound: PTYs started for the session

ASSUME MaxPtyAssumption == MaxPty \in Nat \ {0}

Ptys == 1..MaxPty
NoPty == 0
NoWindow == "none"

(* An entry of by_id; `known` says that there is one.                        *)
Sess ==
  [known : BOOLEAN, attached : Seq(Windows), driver : Windows \cup {NoWindow},
   rev : Nat]
Unknown == [known |-> FALSE, attached |-> <<>>, driver |-> NoWindow, rev |-> 0]

ClaudeRuntime == [live : Ptys \cup {NoPty}, by_id : [Ptys -> Sess]]
NoSessions == [live |-> NoPty, by_id |-> [i \in Ptys |-> Unknown]]

Views(s, w) == w \in ToSet(s.attached)

(* Every change of the driver makes a new revision.                          *)
DrivenBy(s, w) == [s EXCEPT !.driver = w, !.rev = @ + 1]

(* attach_live on a live PTY: a new viewer comes last, and takes over from a *)
(* driver that is no longer there.                                           *)
Joined(s, w) ==
  IF Views(s, w) THEN s ELSE [s EXCEPT !.attached = Append(@, w)]
(* Variants named `...Wrong...` here and in ClaudeSessions are the mistakes  *)
(* the properties must catch; nothing in the model uses them.                *)
Promoted(s, w) ==
  IF Views(s, s.driver) THEN s ELSE DrivenBy(s, w)
AttachedBy(s, w) == Promoted(Joined(s, w), w)

(* attach_live cleans both maps of a session whose PTY is gone.              *)
Cleaned(rt) ==
  [live |-> NoPty,
   by_id |-> [i \in Ptys |-> IF i = rt.live THEN Unknown ELSE rt.by_id[i]]]

(* remove_session: an entry, and whatever is live under its uuid.  The       *)
(* variant leaves the entry in by_id.                                        *)
RemovedWrongTorn(rt, i) == [rt EXCEPT !.live = NoPty]
Removed(rt, i) ==
  IF rt.by_id[i].known
    THEN [live |-> NoPty, by_id |-> [rt.by_id EXCEPT ![i] = Unknown]]
    ELSE rt

(* register: both maps at once; the variant forgets `live`.                  *)
RegisteredWrongTorn(rt, i, w) ==
  [rt EXCEPT !.by_id[i] =
     [known |-> TRUE, attached |-> <<w>>, driver |-> w, rev |-> 0]]
Registered(rt, i, w) ==
  [live |-> i,
   by_id |-> [rt.by_id EXCEPT ![i] =
                [known |-> TRUE, attached |-> <<w>>, driver |-> w, rev |-> 0]]]

(* set_driver: only a viewer that does not drive yet takes over.             *)
TakenOverWrongRev(s, w) ==
  IF Views(s, w) /\ s.driver # w THEN [s EXCEPT !.driver = w] ELSE s
TakenOver(s, w) ==
  IF Views(s, w) /\ s.driver # w THEN DrivenBy(s, w) ELSE s

(* detach: `w` stops viewing (a window is in `attached` once).  The last     *)
(* viewer of a transfer leaves the entry as it is; a driver that leaves      *)
(* others behind hands over to the first of them.                            *)
Position(q, w) == CHOOSE i \in DOMAIN q : q[i] = w
Without(s, w) ==
  IF Views(s, w) THEN [s EXCEPT !.attached = RemoveAt(@, Position(@, w))] ELSE s
HandedOverWrongKept(s, w) == s
HandedOver(s, w) ==
  IF s.attached # <<>> /\ s.driver = w
    THEN DrivenBy(s, Head(s.attached)) ELSE s
Left(s, w) == HandedOver(Without(s, w), w)
=============================================================================
