------------------------------- MODULE Conhash -------------------------------
(* libconhash: conhash.c, conhash_inter.c, conhash_util.c and the binding   *)
(* lua_conhash.c. A ring of virtual nodes, each at the hash of its name,    *)
(* kept in the tree of RbTree; an object belongs to the node of the first   *)
(* virtual node at or after its own hash. The names and md5 are external:   *)
(* hash says where the replicas of a node fall.                             *)
EXTENDS RbTree

CONSTANTS
  Server,     \* what is added with set: a node_s each
  Replicas,   \* server -> number of its virtual nodes
  Hashes,     \* the ways in which they may fall
  Removes     \* FALSE: only what the binding offers, which has no del

VARIABLES
  hash,      \* <<server, replica>> -> position
  tree, ivnodes,
  owner,     \* position -> the server of the virtual node there
  flag,      \* server -> NODE_FLAG_INIT and NODE_FLAG_IN of it
  ring       \* the handle that Lua has: "live" until destory
vars == <<hash, tree, ivnodes, owner, flag, ring>>

Nobody == Nil
Taken == {k \in Key : owner[k] # Nobody}

\* conhash_init, for the binding's init.
Init ==
  /\ hash \in Hashes
  /\ tree = util_rbtree_init /\ ivnodes = 0
  /\ owner = [k \in Key |-> Nobody]
  /\ flag = [s \in Server |-> {}]
  /\ ring = "live"

State == [tree |-> tree, ivnodes |-> ivnodes, owner |-> owner]

(* One replica: where its place is taken, by whichever server, it gets     *)
(* none; nor where malloc gives nothing.                                   *)
AddReplica(r, s, i, failing) ==
  LET h == hash[<<s, i>>]
  IN IF util_rbtree_search(r.tree, h) # Nil \/ i \in failing \/ r.tree.wild THEN r
     ELSE [tree |-> util_rbtree_insert(r.tree, h), ivnodes |-> r.ivnodes + 1,
           owner |-> [r.owner EXCEPT ![h] = s]]

\* Slip for DelReplica: the place goes whoever has it.
DelAnyones(r, s, i) ==
  LET h == hash[<<s, i>>]
  IN IF util_rbtree_search(r.tree, h) = Nil THEN r
     ELSE [tree |-> util_rbtree_delete(r.tree, h), ivnodes |-> r.ivnodes - 1,
           owner |-> [r.owner EXCEPT ![h] = Nobody]]

DelReplica(r, s, i) ==
  LET h == hash[<<s, i>>]
  IN IF util_rbtree_search(r.tree, h) = Nil \/ r.owner[h] # s THEN r
     ELSE [tree |-> util_rbtree_delete(r.tree, h), ivnodes |-> r.ivnodes - 1,
           owner |-> [r.owner EXCEPT ![h] = Nobody]]

RECURSIVE add_replicas(_, _, _, _), del_replicas(_, _, _)
add_replicas(r, s, n, failing) ==
  IF n = 0 THEN r ELSE AddReplica(add_replicas(r, s, n - 1, failing), s, n - 1, failing)
del_replicas(r, s, n) ==
  IF n = 0 THEN r ELSE DelReplica(del_replicas(r, s, n - 1), s, n - 1)

Becomes(r) == tree' = r.tree /\ ivnodes' = r.ivnodes /\ owner' = r.owner

\* The binding's set: conhash_set_node on a new node_s, and conhash_add_node.
conhash_add_node(s) ==
  /\ ring = "live" /\ ~tree.wild /\ "in" \notin flag[s]
  /\ flag' = [flag EXCEPT ![s] = {"init", "in"}]
  /\ \E failing \in {{}} \cup {{i} : i \in 0 .. Replicas[s] - 1} :
       Becomes(add_replicas(State, s, Replicas[s], failing))
  /\ UNCHANGED <<hash, ring>>

conhash_del_node(s) ==
  /\ Removes /\ ring = "live" /\ ~tree.wild /\ {"init", "in"} \subseteq flag[s]
  /\ flag' = [flag EXCEPT ![s] = @ \ {"in"}]
  /\ Becomes(del_replicas(State, s, Replicas[s]))
  /\ UNCHANGED <<hash, ring>>

\* The root goes until there is none; then the nodes of the binding's list are freed.
RECURSIVE Emptied(_)
Emptied(t) == IF t.root = Nil THEN t ELSE Emptied(util_rbtree_delete(t, t.root))
conhash_fini ==
  /\ ring = "live" /\ ~tree.wild
  /\ ring' = "destroyed"
  /\ Becomes([tree |-> Emptied(tree), ivnodes |-> ivnodes, owner |-> [k \in Key |-> Nobody]])
  /\ flag' = [s \in Server |-> {}]
  /\ UNCHANGED hash

Next == (\E s \in Server : conhash_add_node(s) \/ conhash_del_node(s)) \/ conhash_fini

Spec == Init /\ [][Next]_vars

\* The server of an object whose name falls on position h.
conhash_lookup(h) == IF ivnodes = 0 THEN Nobody ELSE owner[util_rbtree_lookup(tree, h)]

\* Positions in order, for conhash_get_vnodes.
conhash_get_vnodes == mid_travel(tree, tree.root)

-----------------------------------------------------------------------------
Live == ring = "live" /\ ~tree.wild
TypeOK ==
  /\ tree.root \in Ref /\ tree.size \in 0 .. Cardinality(Key)
  /\ ivnodes \in 0 .. Cardinality(Key)
  /\ owner \in [Key -> Server \cup {Nobody}]
  /\ flag \in [Server -> SUBSET {"init", "in"}] /\ ring \in {"live", "destroyed"}

(* util_rbtree_check, by what its five codes mean: the black nodes of the  *)
(* ways from the root down, none red below a red one, the order.           *)
RECURSIVE Height(_)
Height(n) == \* 0 where the heights of the two sides differ
  IF n = Nil THEN 1
  ELSE LET l == Height(tree.left[n])
           r == Height(tree.right[n])
       IN IF l # r \/ l = 0 THEN 0 ELSE l + (IF isblack(tree, n) THEN 1 ELSE 0)
TreeIsSound ==
  LET keys == conhash_get_vnodes
  IN /\ isblack(tree, tree.root) /\ isblack(tree, Nil) /\ Height(tree.root) # 0
     /\ \A n \in Taken : isred(tree, n) => isblack(tree, tree.left[n]) /\ isblack(tree, tree.right[n])
     /\ {keys[i] : i \in DOMAIN keys} = Taken /\ \A i \in 1 .. Len(keys) - 1 : keys[i] < keys[i + 1]
     /\ tree.size = Cardinality(Taken)

(* Whatever was added and removed before, and in which order: the tree is  *)
(* a red-black tree that holds the virtual nodes which are taken, and its  *)
(* counters count them; unless a link to a deleted node was followed.      *)
RingIsSound == Live => TreeIsSound /\ ivnodes = Cardinality(Taken)

\* util_rbtree.h, of a tree after any of its operations: "return 0: yes", the tree is a rb tree.
TreeIsRedBlack == ~tree.wild

(* An object belongs to the first virtual node at or after its position,   *)
(* and to the very first where there is none.                              *)
LookupIsSuccessor ==
  Live => \A h \in Key :
    LET after == {k \in Taken : k >= h}
        from == IF after # {} THEN after ELSE Taken
    IN conhash_lookup(h) = IF Taken = {} THEN Nobody
                           ELSE owner[CHOOSE k \in from : \A j \in from : k <= j]

(* The point of consistent hashing: when a server comes or goes, no object *)
(* moves from one of the others to another of the others.                  *)
Changed == {s \in Server : flag'[s] # flag[s]}
OnlyItsObjects ==
  Live /\ Live' => \A h \in Key :
    LET before == conhash_lookup(h)
        now == conhash_lookup(h)'
    IN before # now => before \in Changed \cup {Nobody} \/ now \in Changed \cup {Nobody}
OnlyItsObjectsMove == [][OnlyItsObjects]_vars
=============================================================================
