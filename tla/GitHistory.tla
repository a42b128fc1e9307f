------------------------------ MODULE GitHistory ------------------------------
(***************************************************************************)
(* The Git panel's commands that rewrite history (core/src/git/rewrite.rs): *)
(* amending and undoing the last commit, resetting a branch, rewording a   *)
(* past commit. Each is a sequence of git processes, and between two of    *)
(* them others work in the same repository: an agent in a terminal, an     *)
(* editor, another window. A commit is its position in `commits`; a tree   *)
(* is a number, and so is what the index and the working tree hold.        *)
(***************************************************************************)
EXTENDS Naturals, Sequences, FiniteSets, Functions

CONSTANTS
  Branches,
  BackupKeep,  \* BACKUP_KEEP
  MaxOthers,   \* bound: what others do, failing steps and steps back of the clock
  MaxJobs      \* bound: commands that rewrite history

ASSUME GitAssumption == BackupKeep \in Nat \ {0} /\ Branches # {}

VARIABLES
  commits,  \* commit objects, each after its parents: [tree, msg, parents]
  refs,     \* branch -> commit; of Detached, what a detached HEAD is at
  head,     \* the branch of HEAD, or Detached
  index, work, stash,
  op,       \* REVERT_HEAD is there
  backups,  \* refs/backup: [n, at], the time in the name and the commit
  nanos,    \* nanoseconds since the epoch; the machine's clock may step back
  cmd,      \* the command that runs
  others, jobs
repoVars == <<commits, refs, head, index, work, stash, op, backups>>
gitVars == <<repoVars, nanos, cmd, others, jobs>>

Detached == "detached"
NoJob == [pc |-> "idle", kind |-> "none", target |-> 0, branch |-> Detached, orig |-> 0,
          new |-> 0, raced |-> {}]

Tip == refs[head]
Tree(c) == commits[c].tree
Commit(tree, msg, parents) == [tree |-> tree, msg |-> msg, parents |-> parents]
NewTree == 4 + others
Unmerged == 0   \* of the index: a conflict left it with entries to be resolved

GitTypeOK ==
  /\ \A c \in DOMAIN commits : \A n \in DOMAIN commits[c].parents : commits[c].parents[n] < c
  /\ refs \in [Branches \cup {Detached} -> DOMAIN commits] /\ head \in DOMAIN refs
  /\ Cardinality(backups) <= BackupKeep + others
  /\ cmd.pc \in {"idle", "check", "guards", "amend", "soft", "backup", "status", "stash",
                 "reset", "build", "cas"}

(* Three commits; the last one may be a merge of the first.                *)
GitInit ==
  /\ \E last \in {<<2>>, <<2, 1>>} :
       commits = <<Commit(1, 1, <<>>), Commit(2, 2, <<1>>), Commit(3, 3, last)>>
  /\ head = CHOOSE b \in Branches : TRUE
  /\ refs = [b \in Branches \cup {Detached} |-> IF b = head THEN 3 ELSE 2]
  /\ index = 3 /\ work = 3 /\ stash = <<>> /\ op = FALSE
  /\ backups = {} /\ nanos = 1 /\ cmd = NoJob /\ others = 0 /\ jobs = 0

-----------------------------------------------------------------------------
(* What others do at any time, and the panel between two of its commands.  *)

ByOthers(what) ==
  /\ others < MaxOthers /\ others' = others + 1
  /\ cmd' = IF cmd.pc = "idle" THEN cmd ELSE [cmd EXCEPT !.raced = @ \cup {what}]
  /\ UNCHANGED jobs

OpInProgress == op
Clean == index = Tree(Tip) /\ work = Tree(Tip) /\ ~OpInProgress

Edit == ByOthers("edit") /\ work' = NewTree
        /\ UNCHANGED <<commits, refs, head, index, stash, op, backups, nanos>>

StageAll == ByOthers("stage") /\ index # work /\ index' = work
            /\ UNCHANGED <<commits, refs, head, work, stash, op, backups, nanos>>

(* git commit; while a revert is in progress it is revert_continue.        *)
CommitAll ==
  /\ ByOthers("move") /\ index \notin {Tree(Tip), Unmerged}
  /\ commits' = Append(commits, Commit(index, Len(commits) + 1, <<Tip>>))
  /\ refs' = [refs EXCEPT ![head] = Len(commits')] /\ op' = FALSE
  /\ UNCHANGED <<head, index, work, stash, backups, nanos>>

Checkout(b) ==
  /\ ByOthers("switch") /\ Clean /\ b # head /\ head' = b
  /\ index' = Tree(refs[b]) /\ work' = Tree(refs[b])
  /\ UNCHANGED <<commits, refs, stash, op, backups, nanos>>

StashSave ==
  /\ ByOthers("edit") /\ ~Clean /\ ~op /\ stash' = Append(stash, [index |-> index, work |-> work])
  /\ index' = Tree(Tip) /\ work' = Tree(Tip)
  /\ UNCHANGED <<commits, refs, head, op, backups, nanos>>

StashPop ==
  /\ ByOthers("edit") /\ Clean /\ stash # <<>> /\ work' = stash[Len(stash)].work
  /\ stash' = SubSeq(stash, 1, Len(stash) - 1)
  /\ UNCHANGED <<commits, refs, head, index, op, backups, nanos>>

(* git revert: a commit that undoes one, or a conflict left in the tree    *)
(* and the index.                                                          *)
Revert ==
  /\ ByOthers("move") /\ Clean
  /\ \/ /\ commits' = Append(commits, Commit(NewTree, Len(commits) + 1, <<Tip>>))
        /\ refs' = [refs EXCEPT ![head] = Len(commits')]
        /\ index' = NewTree /\ work' = NewTree /\ UNCHANGED op
     \/ op' = TRUE /\ work' = NewTree /\ index' = Unmerged /\ UNCHANGED <<commits, refs>>
  /\ UNCHANGED <<head, stash, backups, nanos>>

RevertAbort ==
  /\ ByOthers("edit") /\ op /\ op' = FALSE /\ index' = Tree(Tip) /\ work' = Tree(Tip)
  /\ UNCHANGED <<commits, refs, head, stash, backups, nanos>>

ClockStepsBack == ByOthers("clock") /\ nanos' \in 0 .. nanos - 1 /\ UNCHANGED repoVars

-----------------------------------------------------------------------------
(* A command of the panel, one git process after the other. Its commit is  *)
(* one the panel's graph showed, now or earlier.                           *)

Begins ==
  /\ cmd.pc = "idle" /\ jobs < MaxJobs /\ jobs' = jobs + 1
  /\ \E kind \in {"reword", "uncommit", "soft", "mixed", "hard", "past"}, c \in DOMAIN commits :
       cmd' = [NoJob EXCEPT !.pc = "check", !.kind = kind, !.target = c]
  /\ UNCHANGED <<repoVars, nanos, others>>

Ends == cmd' = NoJob
Goes(pc) == cmd' = [cmd EXCEPT !.pc = pc]
If(ok, pc) == IF ok THEN Goes(pc) ELSE Ends

(* A git process fails: the command ends there (`?`).                      *)
GitFails ==
  /\ cmd.pc # "idle" /\ others < MaxOthers /\ others' = others + 1 /\ Ends
  /\ UNCHANGED <<repoVars, nanos, jobs>>

Reset == {"soft", "mixed", "hard"}

(* resolve_commit: the commit, and for a past one the branch and its tip.  *)
Check ==
  /\ cmd.pc = "check"
  /\ \/ cmd.kind \in {"reword", "uncommit"} /\ If(Tip = cmd.target, "guards")
     \/ cmd.kind \in Reset /\ If(~OpInProgress, "backup")
     \/ /\ cmd.kind = "past" /\ head # Detached
        /\ cmd' = [cmd EXCEPT !.pc = "guards", !.branch = head, !.orig = Tip]
     \/ cmd.kind = "past" /\ head = Detached /\ Ends
  /\ UNCHANGED <<repoVars, nanos, others, jobs>>

Ancestors(cs) == LET a[c \in DOMAIN cs] ==
                       {c} \cup UNION {a[p] : p \in Range(cs[c].parents)} IN a

(* rev-list target..orig, and whether a merge is among them.               *)
Between == Ancestors(commits)[cmd.orig] \ Ancestors(commits)[cmd.target]
MergeFree == \A c \in Between : Len(commits[c].parents) = 1
IsAncestor == cmd.target \in Ancestors(commits)[cmd.orig]

Guards ==
  /\ cmd.pc = "guards"
  /\ \/ cmd.kind = "reword" /\ If(index = Tree(Tip), "amend")
     \/ cmd.kind = "uncommit" /\ If(~OpInProgress /\ commits[Tip].parents # <<>>, "soft")
     \/ cmd.kind = "past" /\ If(~OpInProgress /\ IsAncestor /\ MergeFree, "backup")
  /\ UNCHANGED <<repoVars, nanos, others, jobs>>

(* commit --amend: of HEAD as it is now, with the index as it is now; git  *)
(* refuses an unmerged one, and a commit ends the revert in progress.      *)
Amend ==
  /\ cmd.pc = "amend" /\ Ends
  /\ IF index = Unmerged THEN UNCHANGED <<commits, refs, op>>
     ELSE /\ commits' = Append(commits, Commit(index, 0, commits[Tip].parents))
          /\ refs' = [refs EXCEPT ![head] = Len(commits')] /\ op' = FALSE
  /\ UNCHANGED <<head, index, work, stash, backups, nanos, others, jobs>>

(* reset --soft HEAD~1, of HEAD as it is now; git refuses an unmerged index. *)
Uncommit ==
  /\ cmd.pc = "soft" /\ Ends
  /\ IF commits[Tip].parents = <<>> \/ index = Unmerged THEN UNCHANGED refs
     ELSE refs' = [refs EXCEPT ![head] = commits[Tip].parents[1]]
  /\ UNCHANGED <<commits, head, index, work, stash, op, backups, nanos, others, jobs>>

(* A wrong variant: the ref just made competes with the older ones.        *)
PrunedWrongAny(bs, mine) ==
  {b \in bs : Cardinality({c \in bs : c.n > b.n \/ (c.n = b.n /\ c.at > b.at)}) < BackupKeep}

(* prune_backup_refs: the newest of the others, and the one just made.     *)
Pruned(bs, mine) ==
  LET rest == bs \ {mine} IN
  {b \in rest : Cardinality({c \in rest : c.n > b.n \/ (c.n = b.n /\ c.at > b.at)})
                  < BackupKeep - 1} \cup {mine}

(* backup_ref: at HEAD as it is now; a prune that fails changes nothing.   *)
BackupRef ==
  LET mine == [n |-> nanos, at |-> Tip]  all == backups \cup {mine} IN
  /\ cmd.pc = "backup"
  /\ IF head = Detached THEN Ends /\ UNCHANGED <<backups, nanos, others>>
     ELSE /\ Goes(IF cmd.kind = "past" THEN "build"
                  ELSE IF cmd.kind = "hard" THEN "status" ELSE "reset")
          /\ nanos' = nanos + 1
          /\ \/ backups' = Pruned(all, mine) /\ UNCHANGED others
             \/ backups' = all /\ others < MaxOthers /\ others' = others + 1
  /\ UNCHANGED <<commits, refs, head, index, work, stash, op, jobs>>

(* git status; a status that fails reads as a clean tree.                  *)
Status ==
  /\ cmd.pc = "status"
  /\ \/ Goes(IF Clean THEN "reset" ELSE "stash") /\ UNCHANGED others
     \/ /\ others < MaxOthers /\ others' = others + 1
        /\ cmd' = [cmd EXCEPT !.pc = "reset", !.raced = @ \cup {"blind"}]
  /\ UNCHANGED <<repoVars, nanos, jobs>>

StashPush ==
  /\ cmd.pc = "stash" /\ If(index # Unmerged, "reset")
  /\ IF Clean \/ index = Unmerged THEN UNCHANGED <<stash, index, work>>
     ELSE /\ stash' = Append(stash, [index |-> index, work |-> work])
          /\ index' = Tree(Tip) /\ work' = Tree(Tip)
  /\ UNCHANGED <<commits, refs, head, op, backups, nanos, others, jobs>>

(* git reset: a soft one is refused when the index is unmerged.            *)
ResetTo ==
  /\ cmd.pc = "reset" /\ Ends
  /\ \/ cmd.kind = "soft" /\ index = Unmerged /\ UNCHANGED <<refs, index, work, op>>
     \/ /\ ~(cmd.kind = "soft" /\ index = Unmerged)
        /\ refs' = [refs EXCEPT ![head] = cmd.target]
        /\ index' = IF cmd.kind = "soft" THEN index ELSE Tree(cmd.target)
        /\ work' = IF cmd.kind = "hard" THEN Tree(cmd.target) ELSE work
        /\ op' = (op /\ cmd.kind = "soft")
  /\ UNCHANGED <<commits, head, stash, backups, nanos, others, jobs>>

(* reword_past: the commits above the target again, oldest first, each on  *)
(* the one before; their objects wait for the branch to take them.         *)
Ascending(s, n) ==
  LET up[k \in 0 .. n] == IF k = 0 THEN <<>>
                          ELSE IF k \in s THEN Append(up[k - 1], k) ELSE up[k - 1]
  IN up[n]
Rebuilt ==
  LET above == Ascending(Between, Len(commits))
      base  == Append(commits, Commit(Tree(cmd.target), 0, commits[cmd.target].parents))
  IN  base \o [n \in DOMAIN above |->
                 Commit(Tree(above[n]), commits[above[n]].msg, <<Len(commits) + n>>)]

Build ==
  /\ cmd.pc = "build" /\ commits' = Rebuilt
  /\ cmd' = [cmd EXCEPT !.pc = "cas", !.new = Len(Rebuilt)]
  /\ UNCHANGED <<refs, head, index, work, stash, op, backups, nanos, others, jobs>>

(* update-ref with the old value: it moves only what has not moved.        *)
CompareAndSwap ==
  /\ cmd.pc = "cas" /\ Ends
  /\ refs' = IF refs[cmd.branch] = cmd.orig THEN [refs EXCEPT ![cmd.branch] = cmd.new]
             ELSE refs
  /\ UNCHANGED <<commits, head, index, work, stash, op, backups, nanos, others, jobs>>

GitNext ==
  \/ Edit \/ StageAll \/ CommitAll \/ StashSave \/ StashPop \/ Revert \/ RevertAbort
  \/ ClockStepsBack \/ \E b \in DOMAIN refs : Checkout(b)
  \/ Begins \/ GitFails \/ Check \/ Guards \/ Amend \/ Uncommit \/ BackupRef \/ Status
  \/ StashPush \/ ResetTo \/ Build \/ CompareAndSwap

GitSpec == GitInit /\ [][GitNext]_gitVars

-----------------------------------------------------------------------------
(* What a branch tells, from its root: trees, messages and merged commits. *)
Stories(cs) ==
  LET s[c \in 0 .. Len(cs)] ==
        IF c = 0 THEN <<>>
        ELSE Append(s[IF cs[c].parents = <<>> THEN 0 ELSE cs[c].parents[1]],
                    [tree |-> cs[c].tree, msg |-> cs[c].msg,
                     merged |-> SubSeq(cs[c].parents, 2, Len(cs[c].parents))])
  IN s

(* Rewording a past commit changes its message and nothing else that the   *)
(* branch tells, whoever committed to it in the meantime (reword_past).    *)
StoryIsKept ==
  cmd.pc = "cas" /\ cmd' = NoJob /\ refs' # refs =>
    LET old == Stories(commits)[refs[cmd.branch]]
        new == Stories(commits')[refs'[cmd.branch]]
        at  == Len(Stories(commits)[cmd.target])
    IN  new = [old EXCEPT ![at].msg = 0]

(* The commit that a reset or a reword takes a branch away from can still  *)
(* be reached from a branch or a backup, unless somebody moved HEAD after  *)
(* the command began; a reword bears commits, but not a switch of branch.  *)
Reachable(cs, rs, bs) ==
  UNION {Ancestors(cs)[c] : c \in Range(rs) \cup {b.at : b \in bs}}
TipIsBackedUp ==
  cmd.kind \in Reset \cup {"past"} /\ cmd' = NoJob /\ refs' # refs
    /\ "switch" \notin cmd.raced /\ (cmd.kind = "past" \/ "move" \notin cmd.raced)
  => Range(refs) \subseteq Reachable(commits', refs', backups')

(* What the working tree held and nothing else has is not lost by a reset: *)
(* it is stashed, unless git cannot say whether there is anything, or it   *)
(* was written while the command ran (reset_to).                           *)
WorkIsKept ==
  cmd.kind # "none" /\ cmd' = NoJob /\ work' # work /\ cmd.raced = {}
  => \/ \E c \in DOMAIN commits' : commits'[c].tree = work
     \/ \E n \in DOMAIN stash' : stash'[n].work = work

(* A rewrite loses no history and no work.                                 *)
HistoryIsKept == []GitTypeOK /\ [][StoryIsKept /\ TipIsBackedUp /\ WorkIsKept]_gitVars
=============================================================================
