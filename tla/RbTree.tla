------------------------------- MODULE RbTree -------------------------------
(* util_rbtree.c of libconhash. A node is named by its key, as every key   *)
(* is in the tree once; Nil is the sentinel &rbtree->null, which is a node *)
(* with a parent and a colour too, and Null the null pointer. A tree is    *)
(* the record of its links. wild: a node that had been deleted was read,   *)
(* its chunk of memory freed, or that of another node by then.             *)
EXTENDS Integers, FiniteSets, Sequences

CONSTANTS Key, Nil, Null

Ref == Key \cup {Nil}

util_rbtree_init ==
  [root |-> Nil, size |-> 0, black |-> {Nil}, wild |-> FALSE,
   left |-> [n \in Ref |-> Null], right |-> [n \in Ref |-> Null], parent |-> [n \in Ref |-> Null]]

isblack(t, n) == n \in t.black
isred(t, n) == n \notin t.black
Black(t, n) == [t EXCEPT !.black = @ \cup {n}]
Red(t, n) == [t EXCEPT !.black = @ \ {n}]
\* Slip for Recoloured: the node keeps the colour it had in its old place.
RecolouredNot(t, n, black) == t
Recoloured(t, n, black) == IF black THEN Black(t, n) ELSE Red(t, n)

\* Makes n what m is to its parent.
Replace(t, m, n) ==
  IF m = t.root THEN [t EXCEPT !.root = n]
  ELSE LET p == t.parent[m] IN IF t.left[p] = m THEN [t EXCEPT !.left[p] = n]
                                                ELSE [t EXCEPT !.right[p] = n]

left_rotate(t, n) ==
  LET rc == t.right[n]
      rclc == t.left[rc]
      s == Replace([t EXCEPT !.parent[rc] = t.parent[n]], n, rc)
      u == [s EXCEPT !.parent[n] = rc, !.left[rc] = n, !.right[n] = rclc]
  IN IF rclc = Nil THEN u ELSE [u EXCEPT !.parent[rclc] = n]

right_rotate(t, n) ==
  LET lc == t.left[n]
      lcrc == t.right[lc]
      s == Replace([t EXCEPT !.parent[lc] = t.parent[n]], n, lc)
      u == [s EXCEPT !.parent[n] = lc, !.right[lc] = n, !.left[n] = lcrc]
  IN IF lcrc = Nil THEN u ELSE [u EXCEPT !.parent[lcrc] = n]

\* The two sides of a tree, so that a case and its mirror image are one.
Child(t, side, n) == IF side = "left" THEN t.left[n] ELSE t.right[n]
Mirror(side) == IF side = "left" THEN "right" ELSE "left"
Rotate(t, side, n) == IF side = "left" THEN left_rotate(t, n) ELSE right_rotate(t, n)
SideOf(t, n) == IF t.left[t.parent[n]] = n THEN "left" ELSE "right"

\* Where the root's parent is not the sentinel, it is a node that was deleted:
\* what is read there is not a matter of the tree.
Wild(t, n) == n = t.root /\ t.parent[n] # Nil

RECURSIVE insert_fixup(_, _)
insert_fixup(t, n) ==
  LET p == t.parent[n]
      side == SideOf(t, p)
      g == t.parent[p]
      u == Child(t, Mirror(side), g)
      inner == n = Child(t, Mirror(side), p)
      s == IF inner THEN Rotate(t, side, p) ELSE t
      q == IF inner THEN n ELSE p
  IN IF Wild(t, n) THEN [t EXCEPT !.wild = TRUE]
     ELSE IF isblack(t, p) THEN Black(t, t.root)
     ELSE IF isred(t, u) THEN insert_fixup(Red(Black(Black(t, u), p), g), g)
     ELSE insert_fixup(Rotate(Red(Black(s, q), g), Mirror(side), g), IF inner THEN p ELSE n)

RECURSIVE descend(_, _, _)
descend(t, x, key) ==
  LET next == IF key < x THEN t.left[x] ELSE t.right[x]
  IN IF next = Nil THEN x ELSE descend(t, next, key)

util_rbtree_insert(t, n) ==
  LET y == descend(t, t.root, n)
      linked == IF t.root = Nil THEN [t EXCEPT !.root = n, !.parent[n] = Nil]
                ELSE IF n < y THEN [t EXCEPT !.parent[n] = y, !.left[y] = n]
                ELSE [t EXCEPT !.parent[n] = y, !.right[y] = n]
      ready == Red([linked EXCEPT !.left[n] = Nil, !.right[n] = Nil], n)
  IN [insert_fixup(ready, n) EXCEPT !.size = @ + 1]

RECURSIVE delete_fixup(_, _)
delete_fixup(t, n) ==
  IF n = t.root \/ isred(t, n) THEN Black(t, n)
  ELSE
    LET p == t.parent[n]
        side == SideOf(t, n)
        far == Mirror(side)
        w0 == Child(t, far, p)
        t1 == IF isred(t, w0) THEN Rotate(Red(Black(t, w0), p), side, p) ELSE t
        w1 == Child(t1, far, p)
        near == Child(t1, side, w1)
        t2 == IF isblack(t1, Child(t1, far, w1))
              THEN Rotate(Red(Black(t1, near), w1), far, w1) ELSE t1
        w2 == Child(t2, far, p)
        t3 == Black(Black(Recoloured(t2, w2, isblack(t2, p)), p), Child(t2, far, w2))
        t4 == Rotate(t3, side, p)
    IN IF isblack(t1, near) /\ isblack(t1, Child(t1, far, w1))
       THEN delete_fixup(Red(t1, w1), p)
       ELSE delete_fixup(t4, t4.root)

RECURSIVE subtree_min(_, _)
subtree_min(t, n) == IF t.left[n] = Nil THEN n ELSE subtree_min(t, t.left[n])

Clear(t, n) == [t EXCEPT !.left[n] = Null, !.right[n] = Null, !.parent[n] = Null]

\* temp leaves its place and takes that of the node that is deleted.
util_rbtree_delete(t, n) ==
  LET temp == IF t.left[n] = Nil \/ t.right[n] = Nil THEN n ELSE subtree_min(t, t.right[n])
      subst == IF t.left[temp] # Nil THEN t.left[temp] ELSE t.right[temp]
      s0 == [t EXCEPT !.size = @ - 1]
      s1 == [s0 EXCEPT !.parent[subst] = IF t.parent[temp] = n THEN temp ELSE t.parent[temp]]
      s2 == IF t.left[t.parent[temp]] = temp
            THEN [s1 EXCEPT !.left[t.parent[temp]] = subst] ELSE [s1 EXCEPT !.right[t.parent[temp]] = subst]
      s3 == Replace([s2 EXCEPT !.parent[temp] = t.parent[n]], n, temp)
      s4 == [s3 EXCEPT !.left[temp] = s2.left[n], !.right[temp] = s2.right[n]]
      s5 == IF s4.left[temp] # Nil THEN [s4 EXCEPT !.parent[s4.left[temp]] = temp] ELSE s4
      s6 == IF s4.right[temp] # Nil THEN [s5 EXCEPT !.parent[s4.right[temp]] = temp] ELSE s5
      out == Clear(IF temp = n THEN s2 ELSE Recoloured(s6, temp, isblack(t, n)), n)
  IN IF temp = t.root THEN Clear(Black([s0 EXCEPT !.root = subst], subst), temp)
     ELSE IF isblack(t, temp) THEN delete_fixup(out, subst) ELSE out

RECURSIVE search(_, _, _)
search(t, x, key) ==
  IF x = Nil \/ x = key THEN x ELSE search(t, IF key < x THEN t.left[x] ELSE t.right[x], key)
util_rbtree_search(t, key) == search(t, t.root, key)

RECURSIVE lookup(_, _, _, _)
lookup(t, x, key, best) ==
  IF x = Nil THEN best
  ELSE IF key <= x THEN lookup(t, t.left[x], key, x) ELSE lookup(t, t.right[x], key, best)
\* The first node with key >= the given one; past the last, the first of all.
util_rbtree_lookup(t, key) ==
  IF t.root = Nil THEN Null
  ELSE LET best == lookup(t, t.root, key, Nil)
       IN IF best # Nil THEN best ELSE subtree_min(t, t.root)

RECURSIVE mid_travel(_, _)
mid_travel(t, n) == IF n = Nil THEN <<>> ELSE mid_travel(t, t.left[n]) \o <<n>> \o mid_travel(t, t.right[n])
=============================================================================
