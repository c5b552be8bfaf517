---------------------------- MODULE DocumentLog ----------------------------
(***************************************************************************)
(* What hubd promises its clients, whatever happens to it: a log of        *)
(* commits, the branch on GitHub, that only grows, and the writes it has   *)
(* acknowledged, each of which is in a commit of the log for good.         *)
(***************************************************************************)
CONSTANT FirstTrees   \* what the branch may hold at first

VARIABLES
  log,      \* the commits of the branch: the tree of each
  promises  \* acknowledged writes: path, file and the commit it is in

Init ==
  /\ \E t \in FirstTrees : log = [c \in {1} |-> t]
  /\ promises = {}

(* Commits are added, by hubd or by others; none goes or changes. *)
Extends(new) ==
  /\ DOMAIN log \subseteq DOMAIN new
  /\ \A c \in DOMAIN log : new[c] = log[c]

Grow ==
  /\ Extends(log')
  /\ promises' = promises

(* A write is acknowledged once a commit of the log has its file. *)
Kept(w) == w.at \in DOMAIN log /\ log[w.at][w.path] = w.file

Promise ==
  /\ \E w \in promises' : Kept(w) /\ promises' = promises \cup {w}
  /\ log' = log

Next == Grow \/ Promise

Spec == Init /\ [][Next]_<<log, promises>>

(* Every promise is kept for ever.                                         *)
PromisesKept == \A w \in promises : Kept(w)
=============================================================================
