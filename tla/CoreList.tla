------------------------------- MODULE CoreList -------------------------------
(***************************************************************************)
(* CoreProc/corelist.c: the doubly linked list that most tables of the     *)
(* library are kept in, link by link.  A list is the record of its fields  *)
(* and of the inodes the heap has for it; 0 is the null pointer.           *)
(***************************************************************************)
EXTENDS Integers, SequencesExt

CONSTANT MaxInodes  \* bound: how many inodes the heap has for one list

Inodes == 1..MaxInodes

corelist_init ==
  [first |-> 0, last |-> 0, size |-> 0,
   prev |-> [n \in Inodes |-> 0], next |-> [n \in Inodes |-> 0],
   self |-> [n \in Inodes |-> 0]]

\* The inodes met by following a link up to null; no more than there are, if
\* the links run in a circle.
Follow(link, from) ==
  LET met[k \in 0..MaxInodes] ==
        IF k = 0 THEN from ELSE IF met[k - 1] = 0 THEN 0 ELSE link[met[k - 1]]
      some == {k \in 0..MaxInodes : met[k] # 0}
  IN  [k \in 1..Cardinality(some) |-> met[k - 1]]

corelist_foreach(l) == Follow(l.next, l.first)
corelist_back_foreach(l) == Follow(l.prev, l.last)

\* n is the inode that malloc returns.
corelist_push_back(l, n, val) ==
  IF l.first # 0
  THEN [l EXCEPT !.self[n] = val, !.next[n] = 0, !.prev[n] = l.last,
                 !.next[l.last] = n, !.last = n, !.size = @ + 1]
  ELSE [l EXCEPT !.first = n, !.next[n] = 0, !.prev[n] = 0, !.self[n] = val,
                 !.last = n, !.size = 1]

corelist_check_inode(l, n) == Contains(corelist_foreach(l), n)

\* free(inode): what was in it is of no use any more.
Freed(l, n) == [l EXCEPT !.prev[n] = 0, !.next[n] = 0, !.self[n] = 0]

\* Variant with a fault: the inode after the one taken out keeps its prev.
corelist_del_inode_oneway(l, n) ==
  LET prev == l.prev[n]
      next == l.next[n]
  IN  IF n = 0 \/ ~corelist_check_inode(l, n) THEN l
      ELSE Freed([l EXCEPT !.first = IF prev = 0 THEN next ELSE @,
                           !.last = IF n = @ THEN prev ELSE @,
                           !.next = IF prev = 0 THEN @ ELSE [@ EXCEPT ![prev] = next],
                           !.size = @ - 1], n)

\* Taking out an inode that is null or not of this list does nothing.
corelist_del_inode(l, n) ==
  LET prev == l.prev[n]
      next == l.next[n]
  IN  IF n = 0 \/ ~corelist_check_inode(l, n) THEN l
      ELSE IF n = l.last
      THEN Freed([l EXCEPT !.next = IF prev # 0 THEN [@ EXCEPT ![prev] = 0] ELSE @,
                           !.first = IF prev # 0 THEN @ ELSE 0,
                           !.last = prev, !.size = @ - 1], n)
      ELSE Freed([l EXCEPT !.next = IF prev # 0 THEN [@ EXCEPT ![prev] = next] ELSE @,
                           !.first = IF prev # 0 THEN @ ELSE next,
                           !.prev[next] = prev, !.size = @ - 1], n)

\* The values of a copy, in the order in which a walk through it meets them
corelist_fork(l) == LET way == corelist_foreach(l) IN [i \in DOMAIN way |-> l.self[way[i]]]

\* Forwards and backwards the list has the same inodes, as many as it says,
\* and they are reached from both ends.
Linked(l) ==
  LET way == corelist_foreach(l)
  IN  /\ way = Reverse(corelist_back_foreach(l))
      /\ Len(way) = l.size
      /\ l.first = (IF way = << >> THEN 0 ELSE Head(way))
      /\ l.last = (IF way = << >> THEN 0 ELSE Last(way))
=============================================================================
