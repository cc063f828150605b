---------------------------- MODULE FileTreeProofs ----------------------------
(***************************************************************************)
(* Proofs about FileTree, for any set of paths and any number of workers.  *)
(***************************************************************************)
EXTENDS FileTree, SequenceTheorems, TLAPS

-----------------------------------------------------------------------------
(* Paths.                                                                  *)

AnyPath == Seq(Name)

LEMMA PrefixByName ==
  ASSUME NEW s \in AnyPath, NEW t \in AnyPath
  PROVE  IsPrefix(s, t) <=> Len(s) <= Len(t) /\ \A i \in 1 .. Len(s) : s[i] = t[i]
  <1> DEFINE a == SubSeq(s, 1, Len(s))
             b == SubSeq(t, 1, Len(s))
  <1>1. Len(s) \in Nat /\ Len(t) \in Nat
    BY LenProperties DEF AnyPath
  <1>2. a = s
    BY SubSeqFull DEF AnyPath
  <1>3. ASSUME Len(s) <= Len(t)
        PROVE  /\ b \in AnyPath /\ Len(b) = Len(s)
               /\ \A i \in 1 .. Len(s) : b[i] = t[i]
    <2>1. \A i \in 1 .. Len(s) : t[i] \in Name
      BY <1>1, <1>3, ElementOfSeq DEF AnyPath
    <2>2. /\ b \in Seq(Name) /\ Len(b) = IF 1 <= Len(s) THEN Len(s) - 1 + 1 ELSE 0
          /\ \A i \in 1 .. Len(s) - 1 + 1 : b[i] = t[1 + i - 1]
      BY <1>1, <2>1, SubSeqProperties
    <2> QED BY <1>1, <2>2 DEF AnyPath
  <1>4. ASSUME Len(s) <= Len(t), \A i \in 1 .. Len(s) : s[i] = t[i]
        PROVE  s = b
    BY <1>3, <1>4, SeqEqual DEF AnyPath
  <1> QED BY <1>2, <1>3, <1>4 DEF IsPrefix

LEMMA PathsAreSequences ==
  ASSUME NEW p \in Path
  PROVE  p \in AnyPath /\ p # NoPath /\ Len(p) \in Nat \ {0}
  <1>1. p \in Seq(Name) /\ p # <<>>
    BY FileTreeAssumption
  <1> QED BY <1>1, EmptySeq DEF AnyPath, NoPath

LEMMA NothingAboveNone ==
  ASSUME NEW p \in Path
  PROVE  ~IsPrefix(p, NoPath)
  <1>1. NoPath \in AnyPath /\ Len(NoPath) = 0
    BY EmptySeq DEF NoPath, AnyPath
  <1> QED BY <1>1, PathsAreSequences, PrefixByName

LEMMA PrefixOrder ==
  ASSUME NEW p \in AnyPath, NEW q \in AnyPath, NEW r \in AnyPath
  PROVE  /\ IsPrefix(p, p)
         /\ IsPrefix(p, q) /\ IsPrefix(q, r) => IsPrefix(p, r)
         /\ IsPrefix(p, q) /\ IsPrefix(q, p) => p = q
         /\ IsPrefix(p, r) /\ IsPrefix(q, r) => IsPrefix(p, q) \/ IsPrefix(q, p)
  <1> USE PrefixByName
  <1>1. Len(p) \in Nat /\ Len(q) \in Nat /\ Len(r) \in Nat
    BY LenProperties DEF AnyPath
  <1>2. IsPrefix(p, p)
    BY <1>1
  <1>3. IsPrefix(p, q) /\ IsPrefix(q, r) => IsPrefix(p, r)
    BY <1>1
  <1>4. IsPrefix(p, q) /\ IsPrefix(q, p) => p = q
    BY <1>1, SeqEqual DEF AnyPath
  <1>5. IsPrefix(p, r) /\ IsPrefix(q, r) => IsPrefix(p, q) \/ IsPrefix(q, p)
    BY <1>1
  <1> QED BY <1>2, <1>3, <1>4, <1>5

\* The directory of a path, and the path that leads to it below a directory.
LEMMA PrefixCut ==
  ASSUME NEW p \in AnyPath, NEW n \in 1 .. Len(p)
  PROVE  /\ SubSeq(p, 1, n) \in AnyPath
         /\ Len(SubSeq(p, 1, n)) = n
         /\ \A i \in 1 .. n : SubSeq(p, 1, n)[i] = p[i]
         /\ IsPrefix(SubSeq(p, 1, n), p)
  <1> DEFINE c == SubSeq(p, 1, n)
  <1>1. Len(p) \in Nat
    BY LenProperties DEF AnyPath
  <1>2. \A i \in 1 .. n : p[i] \in Name
    BY <1>1, ElementOfSeq DEF AnyPath
  <1>3. /\ SubSeq(p, 1, n) \in Seq(Name)
        /\ Len(SubSeq(p, 1, n)) = IF 1 <= n THEN n - 1 + 1 ELSE 0
        /\ \A i \in 1 .. n - 1 + 1 : SubSeq(p, 1, n)[i] = p[1 + i - 1]
    BY <1>1, <1>2, SubSeqProperties
  <1>4. c \in AnyPath /\ Len(c) = n /\ \A i \in 1 .. n : c[i] = p[i]
    BY <1>1, <1>3 DEF AnyPath
  <1> HIDE DEF c
  <1>5. IsPrefix(c, p)
    BY <1>1, <1>4, PrefixByName
  <1> QED BY <1>4, <1>5 DEF c

LEMMA FrontOfPath ==
  ASSUME NEW p \in Path, Len(p) > 1
  PROVE  /\ Front(p) \in Path
         /\ IsStrictPrefix(Front(p), p)
         /\ \A q \in AnyPath : IsStrictPrefix(q, p) => IsPrefix(q, Front(p))
  <1> DEFINE n == Len(p) - 1
  <1>1. p \in AnyPath /\ Len(p) \in Nat /\ n \in 1 .. Len(p)
    BY PathsAreSequences
  <1>2. Front(p) = SubSeq(p, 1, n)
    BY DEF Front
  <1>3. Front(p) \in Path
    BY <1>1, <1>2, FileTreeAssumption
  <1>4. /\ Front(p) \in AnyPath /\ Len(Front(p)) = Len(p) - 1
        /\ \A i \in 1 .. Len(p) - 1 : Front(p)[i] = p[i]
        /\ IsPrefix(Front(p), p)
    BY <1>1, <1>2, PrefixCut
  <1>5. IsStrictPrefix(Front(p), p)
    BY <1>1, <1>4 DEF IsStrictPrefix
  <1>6. ASSUME NEW q \in AnyPath, IsStrictPrefix(q, p) PROVE IsPrefix(q, Front(p))
    <2>1. Len(q) \in Nat /\ Len(q) <= Len(p) /\ (\A i \in 1 .. Len(q) : q[i] = p[i]) /\ q # p
      BY <1>1, <1>6, LenProperties, PrefixByName DEF IsStrictPrefix, AnyPath
    <2>2. Len(q) # Len(p)
      BY <1>1, <2>1, SeqEqual DEF AnyPath
    <2> QED BY <1>1, <1>4, <2>1, <2>2, PrefixByName
  <1> QED BY <1>3, <1>5, <1>6

LEMMA ChildAbove ==
  ASSUME NEW p \in Path, NEW q \in Path, IsStrictPrefix(p, q)
  PROVE  \E r \in Children(p) : IsPrefix(r, q) /\ IsStrictPrefix(p, r)
  <1> DEFINE r == SubSeq(q, 1, Len(p) + 1)
  <1>1. /\ p \in AnyPath /\ q \in AnyPath /\ Len(p) \in Nat /\ Len(q) \in Nat
        /\ Len(p) <= Len(q) /\ (\A i \in 1 .. Len(p) : p[i] = q[i]) /\ p # q
    BY PathsAreSequences, PrefixByName DEF IsStrictPrefix
  <1>2. Len(p) # Len(q)
    BY <1>1, SeqEqual DEF AnyPath
  <1>3. Len(p) + 1 \in 1 .. Len(q)
    BY <1>1, <1>2
  <1>4. /\ r \in AnyPath /\ Len(r) = Len(p) + 1
        /\ (\A i \in 1 .. Len(p) + 1 : r[i] = q[i]) /\ IsPrefix(r, q)
    BY <1>1, <1>3, PrefixCut
  <1>5. r \in Path
    BY <1>3, FileTreeAssumption
  <1> HIDE DEF r
  <1>6. IsPrefix(p, r) /\ p # r
    BY <1>1, <1>4, PrefixByName
  <1> QED BY <1>4, <1>5, <1>6 DEF Children, IsStrictPrefix

LEMMA ChildIsBelow ==
  ASSUME NEW p \in Path, NEW q \in Children(p)
  PROVE  q \in Path /\ IsStrictPrefix(p, q) /\ Len(q) > 1 /\ Front(q) = p
  <1>1. /\ q \in Path /\ IsPrefix(p, q) /\ Len(q) = Len(p) + 1
        /\ Len(p) \in Nat \ {0} /\ p \in AnyPath /\ q \in AnyPath
    BY PathsAreSequences DEF Children
  <1>2. Len(q) > 1 /\ p # q
    BY <1>1
  <1>3. IsPrefix(p, Front(q)) /\ Front(q) \in AnyPath
    BY <1>1, <1>2, FrontOfPath, PathsAreSequences DEF IsStrictPrefix
  <1>4. Len(Front(q)) = Len(p)
    BY <1>1, <1>2, PrefixCut DEF Front
  <1>5. Front(q) = p
    BY <1>1, <1>3, <1>4, PrefixByName, SeqEqual DEF AnyPath
  <1> QED BY <1>1, <1>2, <1>5 DEF IsStrictPrefix

\* What a rename does to paths: it can be undone, and it keeps their order.
Joined(s, d, q, m) ==
  /\ m \in AnyPath /\ Len(m) = Len(d) + Len(q) - Len(s)
  /\ \A i \in 1 .. Len(d) : m[i] = d[i]
  /\ \A i \in Len(s) + 1 .. Len(q) : m[Len(d) + i - Len(s)] = q[i]

LEMMA MovedByName ==
  ASSUME NEW s \in AnyPath, NEW d \in AnyPath, NEW q \in AnyPath, IsPrefix(s, q)
  PROVE  Joined(s, d, q, Moved(s, d, q))
  <1> DEFINE rest == SubSeq(q, Len(s) + 1, Len(q))
             m == d \o rest
  <1>1. /\ Len(s) \in Nat /\ Len(d) \in Nat /\ Len(q) \in Nat /\ Len(s) <= Len(q)
    BY LenProperties, PrefixByName DEF AnyPath
  <1>2. \A i \in Len(s) + 1 .. Len(q) : q[i] \in Name
    BY <1>1, ElementOfSeq DEF AnyPath
  <1>3. /\ rest \in Seq(Name)
        /\ Len(rest) = IF Len(s) + 1 <= Len(q) THEN Len(q) - (Len(s) + 1) + 1 ELSE 0
        /\ \A i \in 1 .. Len(q) - (Len(s) + 1) + 1 : rest[i] = q[Len(s) + 1 + i - 1]
    BY <1>1, <1>2, SubSeqProperties
  <1> HIDE DEF rest
  <1>4. /\ rest \in AnyPath /\ Len(rest) = Len(q) - Len(s)
        /\ \A i \in 1 .. Len(q) - Len(s) : rest[i] = q[Len(s) + i]
    BY <1>1, <1>3 DEF AnyPath
  <1>5. /\ m \in AnyPath /\ Len(m) = Len(d) + Len(rest)
        /\ \A i \in 1 .. Len(d) + Len(rest) :
             m[i] = IF i <= Len(d) THEN d[i] ELSE rest[i - Len(d)]
    BY <1>4, ConcatProperties DEF AnyPath
  <1>6. Moved(s, d, q) = m
    BY DEF Moved, rest
  <1> HIDE DEF m
  <1>7. ASSUME NEW i \in 1 .. Len(d) PROVE m[i] = d[i]
    <2>1. i \in 1 .. Len(d) + Len(rest) /\ i <= Len(d)
      BY <1>1, <1>4
    <2> QED BY <1>5, <2>1
  <1>8. ASSUME NEW i \in Len(s) + 1 .. Len(q) PROVE m[Len(d) + i - Len(s)] = q[i]
    <2>1. /\ Len(d) + i - Len(s) \in 1 .. Len(d) + Len(rest) /\ i - Len(s) \in 1 .. Len(q) - Len(s)
          /\ ~(Len(d) + i - Len(s) <= Len(d)) /\ Len(d) + i - Len(s) - Len(d) = i - Len(s)
          /\ Len(s) + (i - Len(s)) = i
      BY <1>1, <1>4
    <2>2. m[Len(d) + i - Len(s)] = rest[i - Len(s)]
      BY <1>5, <2>1
    <2>3. rest[i - Len(s)] = q[Len(s) + (i - Len(s))]
      BY <1>4, <2>1
    <2> QED BY <2>1, <2>2, <2>3
  <1> QED BY <1>1, <1>4, <1>5, <1>6, <1>7, <1>8 DEF Joined

LEMMA MovedPath ==
  ASSUME NEW s \in AnyPath, NEW d \in AnyPath, NEW q \in AnyPath, IsPrefix(s, q)
  PROVE  /\ Moved(s, d, q) \in AnyPath
         /\ IsPrefix(d, Moved(s, d, q))
         /\ Moved(d, s, Moved(s, d, q)) = q
  <1> DEFINE m == Moved(s, d, q)
             b == Moved(d, s, m)
  <1>1. /\ Len(s) \in Nat /\ Len(d) \in Nat /\ Len(q) \in Nat /\ Len(s) <= Len(q)
        /\ \A i \in 1 .. Len(s) : s[i] = q[i]
    BY LenProperties, PrefixByName DEF AnyPath
  <1>2. Joined(s, d, q, m)
    BY MovedByName
  <1> HIDE DEF m
  <1>3. m \in AnyPath /\ IsPrefix(d, m)
    BY <1>1, <1>2, PrefixByName DEF Joined
  <1>4. Joined(d, s, m, b)
    BY <1>3, MovedByName
  <1> HIDE DEF b
  <1> USE DEF Joined
  <1>5. Len(b) = Len(q)
    BY <1>1, <1>2, <1>4
  <1>6. ASSUME NEW i \in 1 .. Len(b) PROVE b[i] = q[i]
    <2>1. CASE i <= Len(s)
      BY <1>1, <1>4, <1>5, <1>6, <2>1
    <2>2. CASE i > Len(s)
      <3> DEFINE k == Len(d) + i - Len(s)
      <3>1. /\ i \in Len(s) + 1 .. Len(q) /\ k \in Len(d) + 1 .. Len(m)
            /\ Len(s) + k - Len(d) = i
        BY <1>1, <1>2, <1>5, <1>6, <2>2
      <3> QED BY <1>2, <1>4, <3>1
    <2> QED BY <1>1, <1>5, <2>1, <2>2
  <1>7. b = q
    BY <1>4, <1>5, <1>6, SeqEqual DEF AnyPath
  <1> QED BY <1>2, <1>3, <1>7 DEF b, m

LEMMA MovedOrder ==
  ASSUME NEW s \in AnyPath, NEW d \in AnyPath, NEW p \in AnyPath, NEW q \in AnyPath,
         IsPrefix(s, p), IsStrictPrefix(p, q)
  PROVE  IsStrictPrefix(Moved(s, d, p), Moved(s, d, q))
  <1> DEFINE m == Moved(s, d, p)
             n == Moved(s, d, q)
  <1>0. IsPrefix(s, q) /\ IsPrefix(p, q)
    BY PrefixOrder DEF IsStrictPrefix
  <1>1. /\ Len(s) \in Nat /\ Len(d) \in Nat /\ Len(p) \in Nat /\ Len(q) \in Nat
        /\ Len(s) <= Len(p) /\ Len(p) <= Len(q) /\ \A i \in 1 .. Len(p) : p[i] = q[i]
    BY <1>0, LenProperties, PrefixByName DEF AnyPath
  <1>2. Joined(s, d, p, m)
    BY MovedByName
  <1>3. Joined(s, d, q, n)
    BY <1>0, MovedByName
  <1>4. m # n
    BY <1>0, MovedPath DEF IsStrictPrefix
  <1> HIDE DEF m, n
  <1> USE DEF Joined
  <1>5. ASSUME NEW i \in 1 .. Len(m) PROVE m[i] = n[i]
    <2>1. CASE i <= Len(d)
      BY <1>1, <1>2, <1>3, <1>5, <2>1
    <2>2. CASE i > Len(d)
      <3> DEFINE k == Len(s) + i - Len(d)
      <3>1. k \in Len(s) + 1 .. Len(p) /\ k \in 1 .. Len(p) /\ k \in Len(s) + 1 .. Len(q)
            /\ Len(d) + k - Len(s) = i
        BY <1>1, <1>2, <1>5, <2>2
      <3> HIDE DEF k
      <3>2. m[i] = p[k]
        BY <1>2, <3>1
      <3>3. n[i] = q[k]
        BY <1>3, <3>1
      <3> QED BY <1>1, <3>1, <3>2, <3>3
    <2> QED BY <1>1, <1>2, <2>1, <2>2
  <1>6. IsPrefix(m, n)
    BY <1>1, <1>2, <1>3, <1>5, PrefixByName
  <1> QED BY <1>4, <1>6 DEF IsStrictPrefix, m, n

LEMMA AppendPath ==
  ASSUME NEW p \in Path, NEW q \in Path
  PROVE  /\ Append(p, Last(q)) \in AnyPath
         /\ IsStrictPrefix(p, Append(p, Last(q)))
  <1>1. p \in Seq(Name) /\ q \in Seq(Name) /\ Len(p) \in Nat /\ Len(q) \in 1 .. Len(q)
    BY PathsAreSequences DEF AnyPath
  <1>2. Last(q) \in Name
    BY <1>1, ElementOfSeq DEF Last
  <1> DEFINE a == Append(p, Last(q))
  <1>3. /\ a \in AnyPath /\ Len(a) = Len(p) + 1 /\ \A i \in 1 .. Len(p) : a[i] = p[i]
    BY <1>1, <1>2, AppendProperties DEF AnyPath
  <1> HIDE DEF a
  <1>4. IsPrefix(p, a) /\ p # a
    BY <1>1, <1>3, PrefixByName DEF AnyPath
  <1> QED BY <1>3, <1>4 DEF IsStrictPrefix, a

-----------------------------------------------------------------------------
(* The stack of remove_path and clear_path.                                *)

LEMMA StackEnd ==
  ASSUME NEW st \in Seq(Path), st # <<>>
  PROVE  /\ Last(st) \in Path /\ Front(st) \in Seq(Path)
         /\ Range(st) = Range(Front(st)) \cup {Last(st)}
  <1> DEFINE n == Len(st)
             f == SubSeq(st, 1, n - 1)
  <1>1. n \in Nat /\ n >= 1 /\ Range(st) = {st[i] : i \in 1 .. n}
    BY EmptySeq, LenProperties, RangeEquality
  <1>2. \A i \in 1 .. n : st[i] \in Path
    BY ElementOfSeq
  <1>3. /\ f \in Seq(Path) /\ Len(f) = IF 1 <= n - 1 THEN n - 1 - 1 + 1 ELSE 0
        /\ \A i \in 1 .. n - 1 - 1 + 1 : f[i] = st[1 + i - 1]
    BY <1>1, <1>2, SubSeqProperties
  <1> HIDE DEF f
  <1> HIDE DEF n
  <1>4. f \in Seq(Path) /\ Len(f) = n - 1 /\ \A i \in 1 .. n - 1 : f[i] = st[i]
    <2>1. \A i \in 1 .. n - 1 : i \in 1 .. n - 1 - 1 + 1 /\ 1 + i - 1 = i
      BY <1>1
    <2> QED BY <1>1, <1>3, <2>1
  <1>5. Range(f) = {f[i] : i \in 1 .. n - 1}
    BY <1>4, RangeEquality
  <1>6. Range(st) = Range(f) \cup {st[n]}
    BY <1>1, <1>4, <1>5
  <1> QED BY <1>1, <1>2, <1>4, <1>6 DEF Front, Last, f, n

LEMMA StackGrown ==
  ASSUME NEW st \in Seq(Path), NEW p \in Path
  PROVE  Append(st, p) \in Seq(Path) /\ Range(Append(st, p)) = Range(st) \cup {p}
  <1> DEFINE a == Append(st, p)
             n == Len(st)
  <1>1. /\ n \in Nat /\ a \in Seq(Path) /\ Len(a) = n + 1 /\ a[n + 1] = p
        /\ \A i \in 1 .. n : a[i] = st[i]
    BY AppendProperties, LenProperties
  <1>2. Range(st) = {st[i] : i \in 1 .. n} /\ Range(a) = {a[i] : i \in 1 .. n + 1}
    BY <1>1, RangeEquality
  <1> HIDE DEF a
  <1>3. Range(a) = Range(st) \cup {p}
    BY <1>1, <1>2
  <1> QED BY <1>1, <1>3 DEF a

LEMMA StackStart ==
  ASSUME NEW p \in Path
  PROVE  <<p>> \in Seq(Path) /\ Range(<<p>>) = {p}
  BY DEF Range

-----------------------------------------------------------------------------
(* Where a handler can be, and with which locals.                          *)

Label == {"idle", "look", "change", "write", "lookdst", "send", "reply", "mv", "mvto", "copy",
          "drop", "remove", "erase", "open", "entry", "unlink", "rmdirs"}

Answers == {"0", "10001", "20008", "20009", "200", "206", "404", "416", "500", "cut"}

InDir == {"entry", "unlink"}
Walking == {"open", "rmdirs"} \cup InDir
Carrying == {"mvto", "copy", "drop"}

Control(w) ==
  /\ pc[w] = "idle" => op[w] = "none" /\ path[w] = NoPath /\ dst[w] = NoPath
                       /\ file[w] = NoPath /\ ~clean[w]
  /\ pc[w] # "idle" => path[w] \in Path /\ op[w] \in Op
  /\ dst[w] # NoPath <=> op[w] = "rename"
  /\ file[w] # NoPath => op[w] = "push" /\ pc[w] \in {"write", "reply"}
  /\ pc[w] = "look" => op[w] # "push"
  /\ pc[w] = "change" => op[w] \in {"create", "mkdir", "push", "rename"}
  /\ pc[w] = "write" => op[w] = "push"
  /\ pc[w] \in {"lookdst", "mv"} \cup Carrying => op[w] = "rename"
  /\ pc[w] \in Walking \cup {"remove", "erase"} => op[w] \in {"delete", "clear"}
  /\ pc[w] = "send" => op[w] \in {"pull", "range"}
  /\ pc[w] \in Carrying => aim[w] \in Path /\ IsPrefix(dst[w], aim[w])
  /\ pc[w] = "drop" => ~IsPrefix(path[w], aim[w]) /\ ~IsPrefix(aim[w], path[w])

\* remove_path and clear_path stay below the path they were called with.
Walk(w) ==
  /\ pc[w] \notin Walking \cup {"reply"} => todo[w] = {} /\ later[w] = {}
  /\ pc[w] \in Walking => Range(stack[w]) \cup todo[w] \cup later[w] \subseteq Under(path[w])
  /\ pc[w] \in InDir => cur[w] \in Under(path[w])
  /\ pc[w] = "unlink" => aim[w] \in Under(path[w])

TInv == Typing /\ \A w \in Worker : Control(w) /\ Walk(w)

LEMMA NoPathIsNone == NoPath \notin Path
  BY PathsAreSequences

LEMMA InitTInv == Init => TInv
  BY NoPathIsNone DEF Init, TInv, Typing, Control, Walk, Walking, InDir, Carrying, Under

LEMMA RequestTInv ==
  ASSUME TInv, NEW w \in Worker, Request(w)
  PROVE  TInv'
  <1> PICK o \in Op, p \in Path, d \in Path \cup {NoPath} :
        pc[w] = "idle" /\ Start(w, o, p, d) /\ (d # NoPath <=> o = "rename")
    BY NoPathIsNone DEF Request, Op
  <1>1. /\ pc[w] = "idle"
        /\ pc' = [pc EXCEPT ![w] = IF o = "push" THEN "change" ELSE "look"]
        /\ op' = [op EXCEPT ![w] = o] /\ path' = [path EXCEPT ![w] = p]
        /\ dst' = [dst EXCEPT ![w] = d] /\ clean' \in [Worker -> BOOLEAN]
        /\ kept' \subseteq kept
        /\ UNCHANGED <<node, file, seen, stack, cur, todo, hasSub, later, aim, code>>
    BY DEF Start, Goto, disk, locals, TInv, Typing
  <1>2. \A v \in Worker \ {w} : clean'[v] => clean[v]
    BY DEF Start
  <1>3. Typing'
    BY <1>1 DEF TInv, Typing
  <1>4. \A v \in Worker : Control(v)' /\ Walk(v)'
    BY <1>1, <1>2, NoPathIsNone DEF TInv, Typing, Control, Walk, Walking, InDir, Carrying, Op, Under
  <1> QED BY <1>3, <1>4 DEF TInv

LEMMA ForgetTInv ==
  ASSUME TInv, NEW w \in Worker, Forget(w), kept' \subseteq Path
  PROVE  TInv'
  BY NoPathIsNone DEF Forget, Goto, TInv, Typing, Control, Walk, Walking, InDir, Carrying, Under

-----------------------------------------------------------------------------
(* The file system.                                                        *)

\* Everything that exists is in directories all the way up.
Ancestors ==
  \A p, q \in Path : IsStrictPrefix(p, q) /\ Exists(q) => node[p] = "dir"

\* A file that is open is there.
OpenFiles == \A v \in Worker : file[v] # NoPath => node[file[v]] \in File

Tree == Ancestors /\ OpenFiles

LEMMA TreeIsTyped == TInv /\ Ancestors => TypeOK
  BY FrontOfPath DEF TInv, TypeOK, Ancestors, HasParent, Exists

LEMMA EmptyIsEmpty ==
  ASSUME Ancestors, NEW p \in Path, \A r \in Children(p) : ~Exists(r),
         NEW q \in Path, IsStrictPrefix(p, q)
  PROVE  ~Exists(q)
  <1>1. PICK r \in Children(p) : IsPrefix(r, q)
    BY ChildAbove
  <1>2. r \in Path /\ ~Exists(r)
    BY <1>1 DEF Children
  <1>3. CASE r = q
    BY <1>2, <1>3
  <1>4. CASE r # q
    BY <1>1, <1>2, <1>4 DEF Ancestors, Exists, IsStrictPrefix
  <1> QED BY <1>3, <1>4

LEMMA SetNode ==
  ASSUME TInv, Ancestors, NEW p \in Path, NEW what, node' = [node EXCEPT ![p] = what],
         what # "absent" => HasParent(p),
         node[p] = "dir" /\ what # "dir" => \A r \in Children(p) : ~Exists(r)
  PROVE  Ancestors'
  <1> SUFFICES ASSUME NEW a \in Path, NEW b \in Path, IsStrictPrefix(a, b),
                      node'[b] # "absent"
               PROVE  node'[a] = "dir"
    BY DEF Ancestors, Exists
  <1>1. /\ \A q \in Path : q # p => node'[q] = node[q]
        /\ node'[p] = what
    BY DEF TInv, Typing
  <1>2. a \in AnyPath /\ b \in AnyPath /\ a # b
    BY PathsAreSequences DEF IsStrictPrefix
  <1>3. CASE b = p
    <2>1. HasParent(p) /\ Len(p) > 1
      <3>1. Len(a) \in Nat \ {0} /\ Len(b) \in Nat /\ Len(a) <= Len(b)
        BY <1>2, PathsAreSequences, PrefixByName DEF IsStrictPrefix
      <3>2. Len(a) # Len(b)
        BY <1>2, <3>1, PrefixByName, SeqEqual DEF IsStrictPrefix, AnyPath
      <3> QED BY <1>1, <1>3, <3>1, <3>2
    <2>2. Front(p) \in Path /\ node[Front(p)] = "dir" /\ IsPrefix(a, Front(p))
      BY <1>2, <1>3, <2>1, FrontOfPath DEF HasParent
    <2>3. node[a] = "dir"
      BY <2>2 DEF Ancestors, Exists, IsStrictPrefix
    <2> QED BY <1>1, <1>2, <1>3, <2>3
  <1>4. CASE b # p
    <2>1. node[b] # "absent" /\ node[a] = "dir"
      BY <1>1, <1>4 DEF Ancestors, Exists
    <2>2. a = p => what = "dir"
      BY <2>1, EmptyIsEmpty DEF Exists
    <2> QED BY <1>1, <2>1, <2>2
  <1> QED BY <1>3, <1>4

\* Two paths of which neither is below the other have nothing below both.
LEMMA ApartBelow ==
  ASSUME NEW s \in AnyPath, NEW d \in AnyPath, ~IsPrefix(s, d), ~IsPrefix(d, s),
         NEW q \in AnyPath
  PROVE  ~(IsPrefix(s, q) /\ IsPrefix(d, q))
  BY PrefixOrder

LEMMA RenameApart ==
  ASSUME NEW s \in Path, NEW d \in AnyPath, CanRename(s, d)
  PROVE  ~IsPrefix(s, d) /\ ~IsPrefix(d, s)
  BY PathsAreSequences, PrefixOrder DEF CanRename, IsStrictPrefix

LEMMA ReplacedNodes ==
  ASSUME NEW s \in Path, NEW d \in Path, CanRename(s, d), Fits(s, d),
         NEW gone, gone \in {Under(s), {}}, node' = Replaced(s, d, gone)
  PROVE  /\ \A q \in Path : ~IsPrefix(d, q) /\ q \notin gone => node'[q] = node[q]
         /\ \A q \in gone : node'[q] = "absent"
         /\ \A q \in Path : IsPrefix(s, q) /\ Exists(q) =>
              Moved(s, d, q) \in Path /\ node'[Moved(s, d, q)] = node[q]
         /\ \A q \in Path : IsPrefix(d, q) /\ node'[q] # "absent" =>
              /\ Moved(d, s, q) \in Path /\ IsPrefix(s, Moved(d, s, q))
              /\ Moved(s, d, Moved(d, s, q)) = q /\ node'[q] = node[Moved(d, s, q)]
  <1>1. s \in AnyPath /\ d \in AnyPath /\ \A q \in Path : q \in AnyPath
    BY PathsAreSequences
  <1>2. \A q \in Path : ~(IsPrefix(s, q) /\ IsPrefix(d, q))
    BY <1>1, RenameApart, ApartBelow
  <1>3. \A q \in Path : node'[q] =
          IF IsPrefix(d, q) THEN (IF Moved(d, s, q) \in Path THEN node[Moved(d, s, q)] ELSE "absent")
          ELSE IF q \in gone THEN "absent" ELSE node[q]
    BY DEF Replaced
  <1>4. ASSUME NEW q \in Path, IsPrefix(s, q), Exists(q)
        PROVE  Moved(s, d, q) \in Path /\ node'[Moved(s, d, q)] = node[q]
    <2>1. Moved(s, d, q) \in Path
      BY <1>4 DEF Fits, Under
    <2>2. IsPrefix(d, Moved(s, d, q)) /\ Moved(d, s, Moved(s, d, q)) = q
      BY <1>1, <1>4, MovedPath
    <2> QED BY <1>3, <1>4, <2>1, <2>2
  <1>5. ASSUME NEW q \in Path, IsPrefix(d, q), node'[q] # "absent"
        PROVE  /\ Moved(d, s, q) \in Path /\ IsPrefix(s, Moved(d, s, q))
               /\ Moved(s, d, Moved(d, s, q)) = q /\ node'[q] = node[Moved(d, s, q)]
    <2>1. IsPrefix(s, Moved(d, s, q)) /\ Moved(s, d, Moved(d, s, q)) = q
      BY <1>1, <1>5, MovedPath
    <2> QED BY <1>3, <1>5, <2>1
  <1>6. \A q \in gone : q \in Path /\ node'[q] = "absent"
    BY <1>2, <1>3 DEF Under
  <1> QED BY <1>3, <1>4, <1>5, <1>6

LEMMA ReplacedAncestors ==
  ASSUME Ancestors, NEW s \in Path, NEW d \in Path, CanRename(s, d), Fits(s, d),
         NEW gone, gone \in {Under(s), {}}, node' = Replaced(s, d, gone)
  PROVE  Ancestors'
  <1> SUFFICES ASSUME NEW p \in Path, NEW q \in Path, IsStrictPrefix(p, q),
                      node'[q] # "absent"
               PROVE  node'[p] = "dir"
    BY DEF Ancestors, Exists
  <1>1. /\ s \in AnyPath /\ d \in AnyPath /\ p \in AnyPath /\ q \in AnyPath
        /\ IsPrefix(p, q)
    BY PathsAreSequences DEF IsStrictPrefix
  <1>2. p \notin gone /\ q \notin gone
    BY <1>1, ReplacedNodes, PrefixOrder DEF Under
  <1>4. CASE IsPrefix(d, p)
    <2> DEFINE q0 == Moved(d, s, q)
               p0 == Moved(d, s, p)
    <2>1. IsPrefix(d, q)
      BY <1>1, <1>4, PrefixOrder
    <2>2. q0 \in Path /\ node[q0] # "absent"
      BY <2>1, ReplacedNodes
    <2>3. IsStrictPrefix(p0, q0) /\ IsPrefix(s, p0) /\ Moved(s, d, p0) = p
      BY <1>1, <1>4, MovedOrder, MovedPath
    <2>4. p0 \in Path
      <3>1. /\ p0 \in AnyPath /\ IsPrefix(p0, q0) /\ q0 \in AnyPath
            /\ Len(p0) \in Nat /\ Len(s) \in Nat \ {0} /\ Len(s) <= Len(p0)
        BY <1>1, <1>4, <2>2, <2>3, MovedPath, PathsAreSequences, PrefixByName,
           LenProperties DEF IsStrictPrefix, AnyPath
      <3>2. p0 = SubSeq(q0, 1, Len(p0)) /\ Len(p0) \in 1 .. Len(q0)
        <4>1. Len(p0) <= Len(q0) /\ Len(q0) \in Nat
          BY <3>1, PrefixByName, LenProperties DEF AnyPath
        <4>2. SubSeq(p0, 1, Len(p0)) = p0
          BY <3>1, SubSeqFull DEF AnyPath
        <4> QED BY <3>1, <4>1, <4>2 DEF IsPrefix
      <3> QED BY <2>2, <3>2, FileTreeAssumption
    <2>5. node[p0] = "dir"
      BY <2>2, <2>3, <2>4 DEF Ancestors, Exists
    <2> QED BY <2>3, <2>4, <2>5, ReplacedNodes DEF Exists
  <1>5. CASE ~IsPrefix(d, p) /\ IsPrefix(d, q)
    <2>1. IsStrictPrefix(p, d)
      BY <1>1, <1>5, PrefixOrder DEF IsStrictPrefix
    <2>2. Len(d) > 1
      BY <1>1, <2>1, PrefixByName, PathsAreSequences, SeqEqual DEF IsStrictPrefix, AnyPath
    <2>3. /\ Front(d) \in Path /\ node[Front(d)] = "dir"
          /\ p = Front(d) \/ IsStrictPrefix(p, Front(d))
      BY <1>1, <2>1, <2>2, FrontOfPath DEF CanRename, HasParent, IsStrictPrefix
    <2>4. node[p] = "dir"
      BY <2>3 DEF Ancestors, Exists
    <2> QED BY <1>2, <1>5, <2>4, ReplacedNodes
  <1>6. CASE ~IsPrefix(d, p) /\ ~IsPrefix(d, q)
    <2>1. node[q] # "absent"
      BY <1>2, <1>6, ReplacedNodes
    <2>2. node[p] = "dir"
      BY <2>1 DEF Ancestors, Exists
    <2> QED BY <1>2, <1>6, <2>2, ReplacedNodes
  <1> QED BY <1>4, <1>5, <1>6

LEMMA MoveNodes ==
  ASSUME NEW w \in Worker, NEW s \in Path, NEW d \in Path, CanRename(s, d),
         Fits(s, d), Move(w, s, d)
  PROVE  /\ \A q \in Path : ~IsPrefix(s, q) /\ ~IsPrefix(d, q) => node'[q] = node[q]
         /\ \A q \in Path : IsPrefix(s, q) => node'[q] = "absent"
         /\ \A q \in Path : IsPrefix(s, q) /\ Exists(q) =>
              Moved(s, d, q) \in Path /\ node'[Moved(s, d, q)] = node[q]
         /\ Ancestors => Ancestors'
  <1>1. node' = Replaced(s, d, Under(s))
    BY DEF Move
  <1> QED BY <1>1, ReplacedNodes, ReplacedAncestors DEF Under

LEMMA MoveFiles ==
  ASSUME TInv, OpenFiles, NEW w \in Worker, NEW s \in Path, NEW d \in Path,
         CanRename(s, d), Fits(s, d), Move(w, s, d)
  PROVE  /\ file' \in [Worker -> Path \cup {NoPath}] /\ OpenFiles'
         /\ \A v \in Worker : file[v] = NoPath => file'[v] = NoPath
         /\ \A v \in Worker : file'[v] # file[v] =>
              /\ IsPrefix(s, file[v]) \/ IsPrefix(d, file[v])
              /\ file'[v] # NoPath => IsPrefix(d, file'[v])
  <1>1. s \in AnyPath /\ d \in AnyPath /\ \A q \in Path : q \in AnyPath /\ q # NoPath
    BY PathsAreSequences
  <1>2. \A v \in Worker : file'[v] =
          CASE file[v] = NoPath -> NoPath
            [] IsPrefix(s, file[v]) -> Moved(s, d, file[v])
            [] IsPrefix(d, file[v]) -> NoPath
            [] OTHER -> file[v]
    BY DEF Move
  <1>3. \A v \in Worker : IsPrefix(s, file[v]) /\ file[v] # NoPath => ~IsPrefix(d, file[v])
    BY <1>1, RenameApart, ApartBelow DEF TInv, Typing
  <1>4. ASSUME NEW v \in Worker
        PROVE  /\ file'[v] \in Path \cup {NoPath}
               /\ file'[v] # NoPath => node'[file'[v]] \in File
               /\ file[v] = NoPath => file'[v] = NoPath
               /\ file'[v] # file[v] =>
                    /\ IsPrefix(s, file[v]) \/ IsPrefix(d, file[v])
                    /\ file'[v] # NoPath => IsPrefix(d, file'[v])
    <2>1. CASE file[v] = NoPath
      BY <1>2, <2>1, NothingAboveNone
    <2>2. CASE file[v] \in Path /\ IsPrefix(s, file[v])
      <3>1. file'[v] = Moved(s, d, file[v])
        BY <1>1, <1>2, <1>3, <2>2
      <3>2. node[file[v]] \in File /\ Exists(file[v])
        BY <1>1, <2>2 DEF OpenFiles, File, Exists
      <3>3. file'[v] \in Path /\ node'[file'[v]] = node[file[v]]
        BY <2>2, <3>1, <3>2, MoveNodes
      <3>4. IsPrefix(d, file'[v])
        BY <1>1, <2>2, <3>1, MovedPath
      <3> QED BY <1>1, <2>2, <3>2, <3>3, <3>4
    <2>3. CASE file[v] \in Path /\ ~IsPrefix(s, file[v]) /\ IsPrefix(d, file[v])
      BY <1>1, <1>2, <2>3
    <2>4. CASE file[v] \in Path /\ ~IsPrefix(s, file[v]) /\ ~IsPrefix(d, file[v])
      <3>1. file'[v] = file[v] /\ node'[file[v]] = node[file[v]] /\ node[file[v]] \in File
        BY <1>1, <1>2, <2>4, MoveNodes DEF OpenFiles
      <3> QED BY <2>4, <3>1
    <2> QED BY <2>1, <2>2, <2>3, <2>4 DEF TInv, Typing
  <1>5. file' \in [Worker -> Path \cup {NoPath}]
    BY <1>4 DEF Move
  <1> QED BY <1>4, <1>5 DEF OpenFiles

LEMMA MoveKept ==
  ASSUME TInv, KeptStays, NEW w \in Worker, NEW s \in Path, NEW d \in Path,
         CanRename(s, d), Fits(s, d), Move(w, s, d), kept \cap Under(d) = {}
  PROVE  /\ kept' \subseteq Path /\ KeptStays'
         /\ \A q \in kept' \ kept : clean[w] /\ IsPrefix(d, q)
  <1>1. s \in AnyPath /\ d \in AnyPath /\ kept \subseteq Path /\ \A q \in Path : q \in AnyPath
    BY PathsAreSequences DEF TInv, Typing
  <1> SUFFICES ASSUME NEW q \in kept'
               PROVE  /\ q \in Path /\ node'[q] = "full"
                      /\ q \notin kept => clean[w] /\ IsPrefix(d, q)
    BY DEF KeptStays
  <1>2. CASE q \in kept \ Under(s)
    BY <1>1, <1>2, MoveNodes DEF KeptStays, Under
  <1>3. CASE clean[w] /\ \E r \in kept \cap Under(s) : q = Moved(s, d, r)
    <2>1. PICK r \in kept \cap Under(s) : q = Moved(s, d, r)
      BY <1>3
    <2>2. r \in Path /\ IsPrefix(s, r) /\ node[r] = "full" /\ Exists(r)
      BY <2>1 DEF Under, KeptStays, Exists
    <2>3. q \in Path /\ node'[q] = "full"
      BY <2>1, <2>2, MoveNodes
    <2>4. IsPrefix(d, q)
      BY <1>1, <2>1, <2>2, MovedPath
    <2> QED BY <1>3, <2>3, <2>4
  <1> QED BY <1>2, <1>3 DEF Move, KeptAlong

-----------------------------------------------------------------------------
(* What two handlers do to each other.                                     *)

\* A request that nobody collided with has its paths and its file to itself.
Apart ==
  \A v, w \in Worker : v # w /\ clean[v] => ~Overlap(Refers(v), Refers(w))

\* What a handler may still take content from.
Risks(w) ==
  CASE op[w] = "create" /\ pc[w] = "change" -> {path[w]}
    [] op[w] = "push" -> {path[w]}
    [] op[w] \in {"delete", "clear"} -> Under(path[w])
    [] op[w] = "rename" /\ pc[w] \in {"change", "mv", "mvto", "copy"} -> Under(dst[w])
    [] OTHER -> {}

\* How far an undisturbed optPush has come.
Pushed(w) ==
  op[w] = "push" /\ clean[w] =>
    /\ pc[w] = "write" => file[w] = path[w]
    /\ pc[w] = "reply" /\ code[w] = "0" => node[path[w]] = "full"

\* An undisturbed mv removes the source when all of it is at the target.
Copied(w) ==
  pc[w] = "drop" /\ clean[w] =>
    \A q \in Under(path[w]) : Exists(q) =>
      /\ Moved(path[w], aim[w], q) \in Path
      /\ node[Moved(path[w], aim[w], q)] = node[q]

Keeping ==
  Apart /\ \A w \in Worker : kept \cap Risks(w) = {} /\ Pushed(w) /\ Copied(w)

KInv == TInv /\ Tree /\ KeptStays /\ Keeping

\* The directories to which mv may move.
MvTo(w) == IF node[dst[w]] = "dir" THEN Append(dst[w], Last(path[w])) ELSE dst[w]

LEMMA MvStaysBelow ==
  ASSUME TInv, NEW w \in Worker, op[w] = "rename"
  PROVE  /\ path[w] \in Path /\ dst[w] \in Path
         /\ MvTo(w) \in AnyPath /\ IsPrefix(dst[w], MvTo(w))
  <1>1. path[w] \in Path /\ dst[w] \in Path
    BY DEF TInv, Typing, Control
  <1>2. dst[w] \in AnyPath
    BY <1>1, PathsAreSequences
  <1> QED BY <1>1, <1>2, AppendPath, PrefixOrder DEF MvTo, IsStrictPrefix

\* A rename, of the program or of mv, is a move to the destination or below it.
Renames(w) == Rename(w) \/ MvRename(w)

LEMMA RenameMoves ==
  ASSUME KInv, NEW w \in Worker, Renames(w)
  PROVE  /\ op[w] = "rename" /\ path[w] \in Path /\ dst[w] \in Path
         /\ pc[w] \in {"change", "mvto"} /\ UNCHANGED <<request, locals, clean>>
         /\ \/ /\ UNCHANGED <<disk, kept>>
               /\ \/ Answer(w, "10001") \/ (pc[w] = "change" /\ Continue(w, "mv"))
                  \/ (pc[w] = "mvto" /\ Continue(w, "copy"))
            \/ \E d \in Path :
                 /\ IsPrefix(dst[w], d) /\ CanRename(path[w], d) /\ Fits(path[w], d)
                 /\ Move(w, path[w], d) /\ Answer(w, "0") /\ kept \cap Under(d) = {}
  <1>1. /\ op[w] = "rename" /\ pc[w] \in {"change", "mvto"}
        /\ UNCHANGED <<request, locals, clean>>
    BY DEF Renames, Rename, MvRename, KInv, TInv, Control, Carrying
  <1>2. path[w] \in Path /\ dst[w] \in Path
    BY <1>1, MvStaysBelow DEF KInv
  <1>3. kept \cap Under(dst[w]) = {}
    BY <1>1 DEF KInv, Keeping, Risks
  <1>4. ASSUME NEW d \in Path, IsPrefix(dst[w], d) PROVE kept \cap Under(d) = {}
    BY <1>2, <1>3, <1>4, PathsAreSequences, PrefixOrder DEF Under
  <1>5. CASE Rename(w)
    BY <1>1, <1>2, <1>4, <1>5, PathsAreSequences, PrefixOrder DEF Rename
  <1>6. CASE MvRename(w)
    <2>1. pc[w] = "mvto" /\ aim[w] \in Path /\ IsPrefix(dst[w], aim[w])
      BY <1>6 DEF MvRename, KInv, TInv, Control, Carrying
    <2> QED BY <1>1, <1>2, <1>4, <1>6, <2>1 DEF MvRename, CanMv
  <1> QED BY <1>1, <1>2, <1>5, <1>6 DEF Renames

LEMMA RenameTInv ==
  ASSUME KInv, NEW w \in Worker, Renames(w)
  PROVE  TInv'
  <1>1. /\ op[w] = "rename" /\ pc[w] \in {"change", "mvto"}
        /\ UNCHANGED <<request, locals, clean>>
    BY RenameMoves
  <1>2. /\ \/ pc' \in {[pc EXCEPT ![w] = "reply"], [pc EXCEPT ![w] = "mv"]}
           \/ pc[w] = "mvto" /\ pc' = [pc EXCEPT ![w] = "copy"]
        /\ code' \in {code, [code EXCEPT ![w] = "0"], [code EXCEPT ![w] = "10001"]}
    BY RenameMoves DEF Answer, Continue, Goto
  <1> DEFINE Moves == /\ node' \in [Path -> {"absent", "dir"} \cup File]
                      /\ kept' \subseteq Path
                      /\ file' \in [Worker -> Path \cup {NoPath}]
                      /\ \A v \in Worker : file[v] = NoPath => file'[v] = NoPath
  <1>3. Moves
    <2>1. CASE UNCHANGED <<disk, kept>>
      BY <2>1 DEF disk, KInv, TInv, Typing
    <2>2. ASSUME NEW d \in Path, CanRename(path[w], d), Fits(path[w], d),
                 Move(w, path[w], d), kept \cap Under(d) = {}
          PROVE  Moves
      <3>1. path[w] \in Path
        BY RenameMoves
      <3>2. node' \in [Path -> {"absent", "dir"} \cup File]
        BY <2>2 DEF Move, Replaced, KInv, TInv, Typing
      <3> QED BY <2>2, <3>1, <3>2, MoveFiles, MoveKept DEF KInv, Tree
    <2> QED BY <2>1, <2>2, RenameMoves
  <1>4. Typing'
    BY <1>1, <1>2, <1>3 DEF KInv, TInv, Typing, request, locals
  <1> HIDE DEF Moves
  <1>5. \A v \in Worker : pc'[v] # pc[v] =>
          v = w /\ (pc'[v] \in {"reply", "mv"} \/ (pc[v] = "mvto" /\ pc'[v] = "copy"))
    BY <1>2 DEF KInv, TInv, Typing
  <1>6. \A v \in Worker : Control(v)'
    BY <1>1, <1>3, <1>5
       DEF Moves, KInv, TInv, Typing, Control, Walking, InDir, Carrying, request, locals
  <1>7. \A v \in Worker : Walk(v)'
    BY <1>1, <1>5 DEF KInv, TInv, Walk, Walking, InDir, request, locals, Under
  <1> QED BY <1>4, <1>6, <1>7 DEF TInv

\* Between branches mv copies and then removes.
Carries(w) == MvCopy(w) \/ MvDrop(w)

LEMMA CarryMoves ==
  ASSUME KInv, NEW w \in Worker, Carries(w)
  PROVE  /\ op[w] = "rename" /\ path[w] \in Path /\ dst[w] \in Path /\ aim[w] \in Path
         /\ IsPrefix(dst[w], aim[w]) /\ pc[w] \in {"copy", "drop"}
         /\ UNCHANGED <<request, locals, clean>>
         /\ pc[w] = "copy" => kept \cap Under(aim[w]) = {} /\ MvCopy(w)
         /\ pc[w] = "drop" => MvDrop(w) /\ ~IsPrefix(path[w], aim[w]) /\ ~IsPrefix(aim[w], path[w])
  <1>1. /\ op[w] = "rename" /\ pc[w] \in {"copy", "drop"}
        /\ UNCHANGED <<request, locals, clean>>
        /\ aim[w] \in Path /\ IsPrefix(dst[w], aim[w])
        /\ pc[w] = "copy" => MvCopy(w)
        /\ pc[w] = "drop" => MvDrop(w) /\ ~IsPrefix(path[w], aim[w]) /\ ~IsPrefix(aim[w], path[w])
    BY DEF Carries, MvCopy, MvDrop, KInv, TInv, Control, Carrying
  <1>2. path[w] \in Path /\ dst[w] \in Path
    BY <1>1, MvStaysBelow DEF KInv
  <1>3. pc[w] = "copy" => kept \cap Under(dst[w]) = {}
    BY <1>1 DEF KInv, Keeping, Risks
  <1>4. pc[w] = "copy" => kept \cap Under(aim[w]) = {}
    BY <1>1, <1>2, <1>3, PathsAreSequences, PrefixOrder DEF Under
  <1> QED BY <1>1, <1>2, <1>4

\* What a copy, whole or cut short by a full pool, does to the disk.
LEMMA CopyDisk ==
  ASSUME KInv, NEW w \in Worker, MvCopy(w), CanMv(w), path[w] \in Path, aim[w] \in Path
  PROVE  /\ node' \in [Path -> {"absent", "dir"} \cup File]
         /\ \A q \in Path : ~IsPrefix(aim[w], q) => node'[q] = node[q]
         /\ Ancestors' /\ file' = Displaced(aim[w])
         /\ UNCHANGED kept
         /\ Answer(w, "10001") \/ Continue(w, "drop")
         /\ Continue(w, "drop") => node' = Replaced(path[w], aim[w], {})
  <1>1. /\ node \in [Path -> {"absent", "dir"} \cup File] /\ Ancestors
        /\ path[w] \in AnyPath /\ aim[w] \in AnyPath
        /\ CanRename(path[w], aim[w]) /\ Fits(path[w], aim[w])
    BY PathsAreSequences DEF KInv, TInv, Typing, Tree, CanMv
  <1>2. CASE /\ Continue(w, "drop") /\ node' = Replaced(path[w], aim[w], {})
             /\ file' = Displaced(aim[w])
    <2>2. /\ Ancestors' /\ \A q \in Path : ~IsPrefix(aim[w], q) => node'[q] = node[q]
      BY <1>1, <1>2, ReplacedAncestors, ReplacedNodes
    <2>3. node' \in [Path -> {"absent", "dir"} \cup File]
      BY <1>1, <1>2 DEF Replaced
    <2> QED BY <1>2, <2>2, <2>3 DEF MvCopy
  <1>3. CASE /\ Answer(w, "10001") /\ file' = Displaced(aim[w])
             /\ node' = [node EXCEPT ![aim[w]] = IF node[path[w]] = "dir" THEN "dir" ELSE "empty"]
    <2> DEFINE what == IF node[path[w]] = "dir" THEN "dir" ELSE "empty"
    <2>1. /\ HasParent(aim[w])
          /\ node[aim[w]] = "dir" /\ what # "dir" => \A r \in Children(aim[w]) : ~Exists(r)
      BY <1>1 DEF CanRename, CanRmdir, File, Exists
    <2>2. Ancestors'
      BY <1>1, <1>3, <2>1, SetNode DEF KInv
    <2>3. \A q \in Path : ~IsPrefix(aim[w], q) => node'[q] = node[q]
      BY <1>1, <1>3, PrefixOrder
    <2>4. node' \in [Path -> {"absent", "dir"} \cup File]
      BY <1>1, <1>3 DEF File
    <2>5. ~Continue(w, "drop")
      BY <1>3 DEF Answer, Continue, Goto, KInv, TInv, Typing
    <2> QED BY <1>3, <2>2, <2>3, <2>4, <2>5 DEF MvCopy
  <1> QED BY <1>2, <1>3 DEF MvCopy

LEMMA CopyTInv ==
  ASSUME KInv, NEW w \in Worker, MvCopy(w)
  PROVE  TInv'
  <1>1. /\ path[w] \in Path /\ aim[w] \in Path /\ pc[w] = "copy" /\ UNCHANGED kept
        /\ UNCHANGED <<request, locals, clean>>
    BY CarryMoves DEF Carries, MvCopy
  <1>2. /\ node' \in [Path -> {"absent", "dir"} \cup File]
        /\ file' \in [Worker -> Path \cup {NoPath}]
        /\ \A v \in Worker : file'[v] \in {file[v], NoPath}
        /\ Answer(w, "10001") \/ (CanMv(w) /\ Continue(w, "drop"))
    <2>1. CASE CanMv(w)
      BY <1>1, <2>1, CopyDisk DEF Displaced, KInv, TInv, Typing
    <2>2. CASE ~CanMv(w)
      BY <2>2 DEF MvCopy, disk, KInv, TInv, Typing
    <2> QED BY <2>1, <2>2
  <1>3. CanMv(w) => ~IsPrefix(path[w], aim[w]) /\ ~IsPrefix(aim[w], path[w])
    BY <1>1, PathsAreSequences, RenameApart DEF CanMv
  <1>4. Typing'
    BY <1>1, <1>2 DEF KInv, TInv, Typing, Answer, Continue, Goto, request, locals
  <1>5. /\ \A v \in Worker \ {w} : pc'[v] = pc[v]
        /\ pc'[w] = "reply" \/ (CanMv(w) /\ pc'[w] = "drop")
    BY <1>2 DEF KInv, TInv, Typing, Answer, Continue, Goto
  <1>6. \A v \in Worker : Control(v)'
    BY <1>1, <1>2, <1>3, <1>5
       DEF KInv, TInv, Typing, Control, Walking, InDir, Carrying, request, locals
  <1>7. \A v \in Worker : Walk(v)'
    BY <1>1, <1>5 DEF KInv, TInv, Walk, Walking, InDir, request, locals, Under
  <1> QED BY <1>4, <1>6, <1>7 DEF TInv

\* What the removal of the source does: content that had to stay there is at
\* the target, if nobody was in the way.
LEMMA DropDisk ==
  ASSUME KInv, NEW w \in Worker, MvDrop(w), Exists(path[w])
  PROVE  /\ node' \in [Path -> {"absent", "dir"} \cup File]
         /\ \A q \in Path : ~IsPrefix(path[w], q) => node'[q] = node[q]
         /\ \A q \in Path : IsPrefix(path[w], q) => node'[q] = "absent"
         /\ Ancestors' /\ file' = Displaced(path[w])
         /\ clean[w] => /\ Moved(path[w], aim[w], path[w]) \in Path
                        /\ IsPrefix(aim[w], Moved(path[w], aim[w], path[w]))
                        /\ node'[Moved(path[w], aim[w], path[w])] # "absent"
         /\ kept' \subseteq Path /\ KeptStays'
         /\ \A q \in kept' \ kept : clean[w] /\ IsPrefix(aim[w], q)
  <1>1. /\ path[w] \in Path /\ aim[w] \in Path /\ pc[w] = "drop"
        /\ ~IsPrefix(path[w], aim[w]) /\ ~IsPrefix(aim[w], path[w])
        /\ path[w] \in AnyPath /\ aim[w] \in AnyPath /\ \A q \in Path : q \in AnyPath
    BY CarryMoves, PathsAreSequences DEF Carries, MvDrop
  <1>2. /\ node' = [q \in Path |-> IF IsPrefix(path[w], q) THEN "absent" ELSE node[q]]
        /\ file' = Displaced(path[w]) /\ KeptAlong(w, path[w], aim[w])
    BY DEF MvDrop
  <1>3. /\ node' \in [Path -> {"absent", "dir"} \cup File]
        /\ \A q \in Path : ~IsPrefix(path[w], q) => node'[q] = node[q]
        /\ \A q \in Path : IsPrefix(path[w], q) => node'[q] = "absent"
    BY <1>2 DEF KInv, TInv, Typing
  <1>4. Ancestors'
    <2> SUFFICES ASSUME NEW p \in Path, NEW q \in Path, IsStrictPrefix(p, q), node'[q] # "absent"
                 PROVE  node'[p] = "dir"
      BY DEF Ancestors, Exists
    <2>1. ~IsPrefix(path[w], q) /\ node[q] # "absent" /\ IsPrefix(p, q)
      BY <1>3 DEF IsStrictPrefix
    <2>2. ~IsPrefix(path[w], p) /\ node[p] = "dir"
      BY <1>1, <2>1, PrefixOrder DEF KInv, Tree, Ancestors, Exists
    <2> QED BY <1>3, <2>2
  <1>5. ASSUME clean[w], NEW q \in Under(path[w]), Exists(q)
        PROVE  /\ Moved(path[w], aim[w], q) \in Path
               /\ IsPrefix(aim[w], Moved(path[w], aim[w], q))
               /\ node'[Moved(path[w], aim[w], q)] = node[q]
    <2> DEFINE m == Moved(path[w], aim[w], q)
    <2>1. m \in Path /\ node[m] = node[q]
      BY <1>1, <1>5 DEF KInv, Keeping, Copied
    <2>2. IsPrefix(aim[w], m)
      BY <1>1, <1>5, MovedPath DEF Under
    <2>3. ~IsPrefix(path[w], m)
      BY <1>1, <2>1, <2>2, ApartBelow
    <2> QED BY <1>3, <2>1, <2>2, <2>3
  <1>6. path[w] \in Under(path[w])
    BY <1>1, PrefixOrder DEF Under
  <1>7. ASSUME NEW q \in kept'
        PROVE  /\ q \in Path /\ node'[q] = "full"
               /\ q \notin kept => clean[w] /\ IsPrefix(aim[w], q)
    <2>1. CASE q \in kept \ Under(path[w])
      BY <1>3, <2>1 DEF KInv, KeptStays, Under, TInv, Typing
    <2>2. CASE clean[w] /\ \E r \in kept \cap Under(path[w]) : q = Moved(path[w], aim[w], r)
      <3>1. PICK r \in kept \cap Under(path[w]) : q = Moved(path[w], aim[w], r)
        BY <2>2
      <3>2. node[r] = "full" /\ Exists(r)
        BY DEF KInv, KeptStays, Exists
      <3> QED BY <1>5, <2>2, <3>1, <3>2
    <2> QED BY <1>2, <2>1, <2>2 DEF KeptAlong
  <1> QED BY <1>2, <1>3, <1>4, <1>5, <1>6, <1>7 DEF KeptStays, Exists

LEMMA DropTInv ==
  ASSUME KInv, NEW w \in Worker, MvDrop(w)
  PROVE  TInv'
  <1>1. /\ pc[w] = "drop" /\ UNCHANGED <<request, locals, clean>>
        /\ Answer(w, "0") \/ Answer(w, "10001")
    BY DEF MvDrop
  <1>2. /\ node' \in [Path -> {"absent", "dir"} \cup File] /\ kept' \subseteq Path
        /\ file' \in [Worker -> Path \cup {NoPath}]
        /\ \A v \in Worker : file'[v] \in {file[v], NoPath}
    <2>1. CASE Exists(path[w])
      BY <2>1, DropDisk DEF Displaced, KInv, TInv, Typing
    <2>2. CASE ~Exists(path[w])
      BY <2>2 DEF MvDrop, disk, KInv, TInv, Typing
    <2> QED BY <2>1, <2>2
  <1>3. Typing'
    BY <1>1, <1>2 DEF KInv, TInv, Typing, Answer, Goto, request, locals
  <1>4. (\A v \in Worker \ {w} : pc'[v] = pc[v]) /\ pc'[w] = "reply"
    BY <1>1 DEF KInv, TInv, Typing, Answer, Goto
  <1>5. \A v \in Worker : Control(v)'
    BY <1>1, <1>2, <1>4 DEF KInv, TInv, Typing, Control, Walking, InDir, Carrying, request, locals
  <1>6. \A v \in Worker : Walk(v)'
    BY <1>1, <1>4 DEF KInv, TInv, Walk, Walking, InDir, request, locals, Under
  <1> QED BY <1>3, <1>5, <1>6 DEF TInv

\* What a handler other than optRename does to the disk, in one step.
DiskStep(w) ==
  \/ UNCHANGED disk
  \/ /\ op[w] = "mkdir" /\ ~Exists(path[w]) /\ HasParent(path[w])
     /\ Put(path[w], "dir")
  \/ /\ op[w] \in {"create", "push"} /\ pc[w] = "change"
     /\ CanOpen(path[w])
     /\ node' = [node EXCEPT ![path[w]] = "empty"]
     /\ file' = IF op[w] = "push" THEN [file EXCEPT ![w] = path[w]] ELSE file
  \/ file[w] # NoPath /\ Put(file[w], "full")
  \/ op[w] = "clear" /\ CanOpen(path[w]) /\ Put(path[w], "empty")
  \/ /\ op[w] \in {"delete", "clear"}
     /\ \E q \in Under(path[w]) : node[q] \in File /\ Unlink(q)
  \/ /\ op[w] \in {"delete", "clear"}
     /\ \E q \in Under(path[w]) : CanRmdir(q) /\ Put(q, "absent")

Small(w) == Handler(w) /\ ~Renames(w) /\ ~Carries(w) /\ ~Reply(w)

\* Each of these steps is one of the following.
SmallStep(w) ==
  \/ LookCreate(w) \/ Mkdir(w) \/ OpenFile(w) \/ Write(w)
  \/ PullSize(w) \/ PullSend(w) \/ LookSrc(w) \/ LookDst(w) \/ Mv(w)
  \/ LookRemoval(w) \/ RemovePath(w) \/ EraseFile(w) \/ OpenDir(w) \/ Entry(w)
  \/ RemoveEntry(w) \/ CloseDir(w) \/ KeepDir(w) \/ Rmdirs(w)

LEMMA SmallCases ==
  ASSUME NEW w \in Worker, Small(w)
  PROVE  SmallStep(w)
  BY DEF Small, SmallStep, Handler, Renames, Carries

LEMMA SmallFrame ==
  ASSUME TInv, NEW w \in Worker, Small(w)
  PROVE  /\ UNCHANGED <<op, path, dst, kept>> /\ pc[w] # "idle"
         /\ clean' \in {clean, [clean EXCEPT ![w] = FALSE]}
  BY SmallCases DEF SmallStep, LookCreate, Mkdir, OpenFile, Write, PullSize, PullSend, LookSrc,
     LookDst, Mv, LookRemoval, RemovePath, EraseFile, OpenDir, Entry, RemoveEntry, CloseDir,
     KeepDir, Rmdirs, request

LEMMA PathUnderItself ==
  ASSUME TInv, NEW w \in Worker, pc[w] # "idle"
  PROVE  path[w] \in Path /\ path[w] \in Under(path[w]) /\ Under(path[w]) \subseteq Path
  <1>1. path[w] \in Path
    BY DEF TInv, Control
  <1> QED BY <1>1, PathsAreSequences, PrefixOrder DEF Under

LEMMA SmallDisk ==
  ASSUME TInv, NEW w \in Worker, Small(w)
  PROVE  DiskStep(w)
  <1>1. pc[w] # "idle"
    BY SmallFrame
  <1>2. path[w] \in Path /\ path[w] \in Under(path[w]) /\ Control(w) /\ Walk(w)
    BY <1>1, PathUnderItself DEF TInv
  <1>3. CASE LookCreate(w) \/ PullSize(w) \/ PullSend(w) \/ LookSrc(w) \/ LookDst(w) \/ Mv(w)
             \/ LookRemoval(w) \/ RemovePath(w) \/ OpenDir(w) \/ Entry(w) \/ KeepDir(w)
    BY <1>3 DEF LookCreate, PullSize, PullSend, LookSrc, LookDst, Mv, LookRemoval, RemovePath,
                OpenDir, Entry, KeepDir, DiskStep, disk
  <1>4. CASE Mkdir(w)
    BY <1>4 DEF Mkdir, DiskStep
  <1>5. CASE OpenFile(w)
    BY <1>5 DEF OpenFile, DiskStep
  <1>6. CASE Write(w)
    BY <1>6 DEF Write, DiskStep
  <1>7. CASE EraseFile(w)
    BY <1>2, <1>7 DEF EraseFile, CanOsRemove, OsRemove, DiskStep, disk
  <1>8. CASE RemoveEntry(w)
    <2>1. aim[w] \in Under(path[w]) /\ op[w] \in {"delete", "clear"}
      BY <1>2, <1>8 DEF RemoveEntry, Walk, Walking, InDir, Control
    <2> QED BY <1>8, <2>1 DEF RemoveEntry, CanOsRemove, OsRemove, DiskStep, disk
  <1>9. CASE CloseDir(w)
    <2>1. cur[w] \in Under(path[w]) /\ op[w] \in {"delete", "clear"}
      BY <1>2, <1>9 DEF CloseDir, Walk, Walking, InDir, Control
    <2> QED BY <1>9, <2>1 DEF CloseDir, DiskStep, disk
  <1>10. CASE Rmdirs(w)
    <2>1. later[w] \subseteq Under(path[w]) /\ op[w] \in {"delete", "clear"}
      BY <1>2, <1>10 DEF Rmdirs, Walk, Walking, InDir, Control
    <2> QED BY <1>10, <2>1 DEF Rmdirs, DiskStep, disk
  <1> QED BY <1>3, <1>4, <1>5, <1>6, <1>7, <1>8, <1>9, <1>10, SmallCases DEF SmallStep

LEMMA DiskTyped ==
  ASSUME TInv, NEW w \in Worker, pc[w] # "idle", DiskStep(w)
  PROVE  /\ node' \in [Path -> {"absent", "dir"} \cup File]
         /\ file' \in [Worker -> Path \cup {NoPath}]
  <1>1. /\ node \in [Path -> {"absent", "dir"} \cup File]
        /\ file \in [Worker -> Path \cup {NoPath}]
    BY DEF TInv, Typing
  <1>2. path[w] \in Path /\ Under(path[w]) \subseteq Path
    BY PathUnderItself
  <1> QED BY <1>1, <1>2 DEF DiskStep, CanOpen, disk, Put, Unlink, File

LEMMA SmallAnswers ==
  ASSUME TInv, NEW w \in Worker, Small(w)
  PROVE  /\ \E l \in Label : pc' = [pc EXCEPT ![w] = l]
         /\ UNCHANGED code \/ \E c \in Answers : code' = [code EXCEPT ![w] = c]
  <1> USE DEF Answer, Continue, Goto, Label, Answers
  <1>1. CASE LookCreate(w) \/ Mkdir(w) \/ Write(w) \/ LookSrc(w) \/ LookDst(w) \/ LookRemoval(w)
    BY <1>1 DEF LookCreate, Mkdir, Write, LookSrc, LookDst, LookRemoval
  <1>10. CASE Mv(w)
    BY <1>10 DEF Mv
  <1>11. CASE EraseFile(w) \/ RemoveEntry(w)
    BY <1>11 DEF EraseFile, RemoveEntry
  <1>2. CASE OpenFile(w)
    BY <1>2 DEF OpenFile
  <1>3. CASE PullSize(w)
    BY <1>3 DEF PullSize
  <1>4. CASE PullSend(w)
    <2>1. \A p, size : /\ SendFilePart(p) \in {"404", "206", "500"}
                       /\ SendWhole(p, size) \in {"404", "200", "cut"}
      BY DEF SendFilePart, SendWhole
    <2> QED BY <1>4, <2>1 DEF PullSend
  <1>5. CASE RemovePath(w)
    BY <1>5 DEF RemovePath
  <1>6. CASE OpenDir(w)
    BY <1>6 DEF OpenDir
  <1>7. CASE Entry(w)
    BY <1>7 DEF Entry
  <1>8. CASE CloseDir(w) \/ KeepDir(w)
    BY <1>8 DEF CloseDir, KeepDir, AfterDir
  <1>9. CASE Rmdirs(w)
    BY <1>9 DEF Rmdirs
  <1> QED
    BY <1>1, <1>2, <1>3, <1>4, <1>5, <1>6, <1>7, <1>8, <1>9, <1>10, <1>11, SmallCases DEF SmallStep

\* The locals of a handler change one by one, and those of the others do not.
LEMMA SmallLocals ==
  ASSUME TInv, NEW w \in Worker, Small(w)
  PROVE  /\ \E s \in Seq(Path) : stack' = [stack EXCEPT ![w] = s]
         /\ \E p \in Path \cup {NoPath} : cur' = [cur EXCEPT ![w] = p]
         /\ \E P \in SUBSET Path : todo' = [todo EXCEPT ![w] = P]
         /\ \E h \in BOOLEAN : hasSub' = [hasSub EXCEPT ![w] = h]
         /\ \E P \in SUBSET Path : later' = [later EXCEPT ![w] = P]
         /\ \E p \in Path \cup {NoPath} : aim' = [aim EXCEPT ![w] = p]
         /\ \E s \in {"none", "dir"} \cup File : seen' = [seen EXCEPT ![w] = s]
  <1>1. /\ stack \in [Worker -> Seq(Path)] /\ cur \in [Worker -> Path \cup {NoPath}]
        /\ todo \in [Worker -> SUBSET Path] /\ hasSub \in [Worker -> BOOLEAN]
        /\ later \in [Worker -> SUBSET Path] /\ seen \in [Worker -> {"none", "dir"} \cup File]
        /\ aim \in [Worker -> Path \cup {NoPath}]
    BY DEF TInv, Typing
  <1>2. /\ stack = [stack EXCEPT ![w] = stack[w]] /\ cur = [cur EXCEPT ![w] = cur[w]]
        /\ todo = [todo EXCEPT ![w] = todo[w]] /\ hasSub = [hasSub EXCEPT ![w] = hasSub[w]]
        /\ later = [later EXCEPT ![w] = later[w]] /\ seen = [seen EXCEPT ![w] = seen[w]]
        /\ aim = [aim EXCEPT ![w] = aim[w]]
    BY <1>1
  <1>3. /\ stack[w] \in Seq(Path) /\ cur[w] \in Path \cup {NoPath} /\ todo[w] \in SUBSET Path
        /\ hasSub[w] \in BOOLEAN /\ later[w] \in SUBSET Path /\ aim[w] \in Path \cup {NoPath}
        /\ seen[w] \in {"none", "dir"} \cup File
    BY <1>1
  <1>4. CASE UNCHANGED locals /\ UNCHANGED seen
    BY <1>2, <1>3, <1>4 DEF locals
  <1>5. CASE PullSize(w)
    <2>1. node \in [Path -> {"absent", "dir"} \cup File] /\ path[w] \in Path
      BY <1>5 DEF TInv, Typing, Control, PullSize
    <2>2. UNCHANGED locals
      BY <1>5 DEF PullSize
    <2>3. \E s \in {"none", "dir"} \cup File : seen' = [seen EXCEPT ![w] = s]
      BY <1>5, <2>1 DEF PullSize, Exists
    <2> QED BY <1>2, <1>3, <2>2, <2>3 DEF locals
  <1>6. CASE RemovePath(w)
    <2>1. path[w] \in Path /\ <<path[w]>> \in Seq(Path)
      BY <1>6, StackStart DEF TInv, Control, RemovePath
    <2>2. \E s \in Seq(Path) : stack' = [stack EXCEPT ![w] = s]
      BY <1>2, <1>3, <1>6, <2>1 DEF RemovePath
    <2>3. UNCHANGED <<cur, todo, hasSub, later, aim, seen>>
      BY <1>6 DEF RemovePath, request
    <2> QED BY <1>2, <1>3, <2>2, <2>3
  <1>7. CASE OpenDir(w)
    <2>1. Last(stack[w]) \in Path /\ Front(stack[w]) \in Seq(Path)
      BY <1>3, <1>7, StackEnd DEF OpenDir
    <2>2. {q \in Children(Last(stack[w])) : Exists(q)} \in SUBSET Path
      BY DEF Children
    <2>3. \E P \in SUBSET Path : todo' = [todo EXCEPT ![w] = P]
      BY <1>2, <1>3, <1>7, <2>2 DEF OpenDir
    <2>4. /\ stack' = [stack EXCEPT ![w] = Front(stack[w])]
          /\ cur' = [cur EXCEPT ![w] = Last(stack[w])] /\ hasSub' = [hasSub EXCEPT ![w] = FALSE]
          /\ UNCHANGED <<later, aim, seen>>
      BY <1>7 DEF OpenDir, request
    <2> QED BY <1>2, <1>3, <2>1, <2>3, <2>4
  <1>8. CASE Entry(w)
    <2>1. PICK q \in todo[w] : todo' = [todo EXCEPT ![w] = todo[w] \ {q}]
      BY <1>8 DEF Entry
    <2>2. \E s \in Seq(Path) : stack' = [stack EXCEPT ![w] = s]
      <3>1. \A r \in todo[w] : Append(stack[w], r) \in Seq(Path)
        BY <1>3, StackGrown
      <3> QED BY <1>2, <1>3, <1>8, <3>1 DEF Entry
    <2>3. \E h \in BOOLEAN : hasSub' = [hasSub EXCEPT ![w] = h]
      BY <1>2, <1>3, <1>8 DEF Entry
    <2>4. UNCHANGED <<cur, later, seen>>
      BY <1>8 DEF Entry, request
    <2>5. todo[w] \ {q} \in SUBSET Path
      BY <1>3
    <2>6. \E p \in Path \cup {NoPath} : aim' = [aim EXCEPT ![w] = p]
      BY <1>2, <1>3, <1>8 DEF Entry
    <2> QED BY <1>2, <1>3, <2>1, <2>2, <2>3, <2>4, <2>5, <2>6
  <1>9. CASE CloseDir(w)
    <2>1. pc[w] = "entry" /\ cur[w] \in Path
      BY <1>9 DEF CloseDir, TInv, Walk, InDir, Under
    <2>2. \E P \in SUBSET Path : later' = [later EXCEPT ![w] = P]
      BY <1>2, <1>3, <1>9, <2>1 DEF CloseDir
    <2>3. UNCHANGED <<stack, cur, todo, hasSub, aim, seen>>
      BY <1>9 DEF CloseDir, request
    <2> QED BY <1>2, <1>3, <2>2, <2>3
  <1>10. CASE Rmdirs(w)
    <2>1. \E P \in SUBSET Path : later' = [later EXCEPT ![w] = P]
      BY <1>2, <1>3, <1>10 DEF Rmdirs
    <2>2. UNCHANGED <<stack, cur, todo, hasSub, aim, seen>>
      BY <1>10 DEF Rmdirs, request
    <2> QED BY <1>2, <1>3, <2>1, <2>2
  <1>11. CASE Mv(w)
    <2>2. \E p \in Path \cup {NoPath} : aim' = [aim EXCEPT ![w] = p]
      BY <1>2, <1>3, <1>11 DEF Mv
    <2>3. UNCHANGED <<stack, cur, todo, hasSub, later, seen>>
      BY <1>11 DEF Mv, request
    <2> QED BY <1>2, <1>3, <2>2, <2>3
  <1>12. CASE RemoveEntry(w)
    <2>1. aim' = [aim EXCEPT ![w] = NoPath] /\ UNCHANGED <<stack, cur, todo, hasSub, later, seen>>
      BY <1>12 DEF RemoveEntry, request
    <2> QED BY <1>2, <1>3, <2>1
  <1> QED
    BY <1>4, <1>5, <1>6, <1>7, <1>8, <1>9, <1>10, <1>11, <1>12, SmallCases DEF SmallStep,
       LookCreate, Mkdir, OpenFile, Write, PullSend, LookSrc, LookDst, LookRemoval, EraseFile,
       KeepDir, request

LEMMA SmallTyping ==
  ASSUME TInv, NEW w \in Worker, Small(w)
  PROVE  Typing'
  <1>1. /\ node' \in [Path -> {"absent", "dir"} \cup File]
        /\ file' \in [Worker -> Path \cup {NoPath}]
    BY SmallFrame, SmallDisk, DiskTyped
  <1>2. /\ UNCHANGED <<op, path, dst, kept>>
        /\ clean' \in {clean, [clean EXCEPT ![w] = FALSE]}
    BY SmallFrame
  <1>3. /\ \E l \in Label : pc' = [pc EXCEPT ![w] = l]
        /\ UNCHANGED code \/ \E c \in Answers : code' = [code EXCEPT ![w] = c]
    BY SmallAnswers
  <1>4. /\ \E s \in Seq(Path) : stack' = [stack EXCEPT ![w] = s]
        /\ \E p \in Path \cup {NoPath} : cur' = [cur EXCEPT ![w] = p]
        /\ \E P \in SUBSET Path : todo' = [todo EXCEPT ![w] = P]
        /\ \E h \in BOOLEAN : hasSub' = [hasSub EXCEPT ![w] = h]
        /\ \E P \in SUBSET Path : later' = [later EXCEPT ![w] = P]
        /\ \E p \in Path \cup {NoPath} : aim' = [aim EXCEPT ![w] = p]
        /\ \E s \in {"none", "dir"} \cup File : seen' = [seen EXCEPT ![w] = s]
    BY SmallLocals
  <1>5. /\ stack' \in [Worker -> Seq(Path)] /\ cur' \in [Worker -> Path \cup {NoPath}]
        /\ aim' \in [Worker -> Path \cup {NoPath}]
        /\ todo' \in [Worker -> SUBSET Path] /\ hasSub' \in [Worker -> BOOLEAN]
        /\ later' \in [Worker -> SUBSET Path] /\ seen' \in [Worker -> {"none", "dir"} \cup File]
    BY <1>4 DEF TInv, Typing
  <1>6. /\ op' \in [Worker -> Op \cup {"none"}] /\ path' \in [Worker -> Path \cup {NoPath}]
        /\ dst' \in [Worker -> Path \cup {NoPath}] /\ kept' \subseteq Path
        /\ clean' \in [Worker -> BOOLEAN]
    BY <1>2 DEF TInv, Typing
  <1>7. pc' \in [Worker -> Label] /\ code' \in [Worker -> {"none"} \cup Answers]
    <2>1. pc \in [Worker -> Label] /\ code \in [Worker -> {"none"} \cup Answers]
      BY DEF TInv, Typing, Label, Answers
    <2>2. pc' \in [Worker -> Label]
      BY <1>3, <2>1
    <2>3. code' \in [Worker -> {"none"} \cup Answers]
      BY <1>3, <2>1
    <2> QED BY <2>2, <2>3
  <1> QED BY <1>1, <1>5, <1>6, <1>7 DEF Typing, Label, Answers

LEMMA SmallControl ==
  ASSUME TInv, NEW w \in Worker, Small(w)
  PROVE  \A v \in Worker : Control(v)'
  <1>0. NoPath \notin Path /\ \A p \in Path : Under(p) \subseteq Path
    BY NoPathIsNone DEF Under
  <1> USE <1>0 DEF TInv, Typing, Control, Walking, InDir, Carrying, Answer, Continue, Goto, disk,
          request, locals
  <1>1. CASE LookCreate(w)
    BY <1>1 DEF LookCreate
  <1>2. CASE Mkdir(w)
    BY <1>2 DEF Mkdir, Put
  <1>3. CASE OpenFile(w)
    BY <1>3 DEF OpenFile, File
  <1>4. CASE Write(w)
    BY <1>4 DEF Write, Put, File
  <1>5. CASE PullSize(w)
    BY <1>5 DEF PullSize
  <1>6. CASE PullSend(w)
    BY <1>6 DEF PullSend, SendFilePart, SendWhole
  <1>7. CASE LookSrc(w)
    BY <1>7 DEF LookSrc
  <1>8. CASE LookDst(w)
    BY <1>8 DEF LookDst
  <1>9. CASE LookRemoval(w)
    BY <1>9 DEF LookRemoval
  <1>10. CASE RemovePath(w)
    BY <1>10, StackStart DEF RemovePath
  <1>11. CASE OpenDir(w)
    BY <1>11, StackEnd DEF OpenDir
  <1>12. CASE Entry(w)
    BY <1>12, StackGrown DEF Entry
  <1>13. CASE CloseDir(w)
    BY <1>13 DEF CloseDir, AfterDir, Put
  <1>14. CASE KeepDir(w)
    BY <1>14 DEF KeepDir, AfterDir
  <1>15. CASE Rmdirs(w)
    BY <1>15 DEF Rmdirs, Put
  <1>16. CASE Mv(w)
    <2>1. pc[w] = "mv" /\ op[w] = "rename"
      BY <1>16 DEF Mv
    <2>2. IsPrefix(dst[w], MvTo(w))
      BY <2>1, MvStaysBelow
    <2>3. pc'[w] \in {"mvto", "reply"} /\ (pc'[w] = "mvto" => MvTo(w) \in Path /\ aim'[w] = MvTo(w))
      <3>1. pc = [v \in Worker |-> pc[v]] /\ aim = [v \in Worker |-> aim[v]]
        OBVIOUS
      <3> QED BY ONLY <1>16, <3>1 DEF Mv, MvTo, Answer, Continue, Goto
    <2>4. \A v \in Worker \ {w} : pc'[v] = pc[v] /\ aim'[v] = aim[v]
      BY <1>16 DEF Mv
    <2>5. UNCHANGED <<disk, request, clean>>
      BY <1>16 DEF Mv
    <2> QED BY <2>1, <2>2, <2>3, <2>4, <2>5
  <1>17. CASE EraseFile(w)
    BY <1>17 DEF EraseFile, OsRemove, Unlink, Put
  <1>18. CASE RemoveEntry(w)
    BY <1>18 DEF RemoveEntry, OsRemove, Unlink, Put
  <1> QED
    BY <1>1, <1>2, <1>3, <1>4, <1>5, <1>6, <1>7, <1>8, <1>9, <1>10, <1>11, <1>12,
       <1>13, <1>14, <1>15, <1>16, <1>17, <1>18, SmallCases DEF SmallStep

LEMMA SmallWalk ==
  ASSUME TInv, NEW w \in Worker, Small(w)
  PROVE  \A v \in Worker : Walk(v)'
  <1>1. /\ pc \in [Worker -> Label] /\ aim \in [Worker -> Path \cup {NoPath}]
        /\ stack \in [Worker -> Seq(Path)] /\ cur \in [Worker -> Path \cup {NoPath}]
        /\ todo \in [Worker -> SUBSET Path] /\ later \in [Worker -> SUBSET Path]
    BY DEF TInv, Typing, Label
  <1>2. UNCHANGED path
    BY SmallFrame
  <1>3. ASSUME NEW v \in Worker \ {w} PROVE Walk(v)'
    <2>1. /\ pc'[v] = pc[v] /\ stack'[v] = stack[v] /\ cur'[v] = cur[v]
          /\ todo'[v] = todo[v] /\ later'[v] = later[v] /\ aim'[v] = aim[v]
      BY <1>1, SmallAnswers, SmallLocals
    <2> QED BY <1>2, <2>1 DEF TInv, Walk, Walking, InDir, Under
  <1>4. Walk(w)'
    <2> DEFINE W == Under(path[w])
    <2>1. /\ pc[w] \notin Walking \cup {"reply"} => todo[w] = {} /\ later[w] = {}
          /\ pc[w] \in Walking => /\ Range(stack[w]) \subseteq W
                                  /\ todo[w] \subseteq W /\ later[w] \subseteq W
          /\ pc[w] \in InDir => cur[w] \in W
          /\ pc[w] = "unlink" => aim[w] \in W
      BY DEF TInv, Walk
    <2>2. SUFFICES /\ pc'[w] \notin Walking \cup {"reply"} => todo'[w] = {} /\ later'[w] = {}
                   /\ pc'[w] \in Walking => /\ Range(stack'[w]) \subseteq W
                                            /\ todo'[w] \subseteq W /\ later'[w] \subseteq W
                   /\ pc'[w] \in InDir => cur'[w] \in W
                   /\ pc'[w] = "unlink" => aim'[w] \in W
      BY <1>2 DEF Walk, Under
    <2> HIDE DEF W
    <2> USE <1>1, <2>1 DEF Walking, InDir, Answer, Continue, Goto
    <2>3. CASE LookCreate(w) \/ Mkdir(w) \/ Write(w) \/ LookSrc(w) \/ LookDst(w)
               \/ LookRemoval(w)
      BY <2>3 DEF LookCreate, Mkdir, Write, LookSrc, LookDst, LookRemoval, locals
    <2>4. CASE OpenFile(w)
      BY <2>4 DEF OpenFile, locals
    <2>5. CASE PullSize(w)
      BY <2>5 DEF PullSize, locals
    <2>6. CASE PullSend(w)
      BY <2>6 DEF PullSend, locals
    <2>7. CASE RemovePath(w)
      <3>1. pc[w] = "remove" /\ todo'[w] = {} /\ later'[w] = {}
        BY <2>7 DEF RemovePath
      <3>2. path[w] \in Path /\ path[w] \in W
        BY <3>1, PathUnderItself DEF W
      <3>3. pc'[w] \in {"reply", "erase", "open"} /\ (pc'[w] = "open" => stack'[w] = <<path[w]>>)
        BY <2>7 DEF RemovePath
      <3>4. Range(<<path[w]>>) \subseteq W
        BY <3>2, StackStart
      <3> QED BY <3>1, <3>3, <3>4
    <2>8. CASE OpenDir(w)
      <3> DEFINE top == Last(stack[w])
      <3>1. pc[w] = "open" /\ stack[w] # <<>> /\ stack[w] \in Seq(Path)
        BY <2>8 DEF OpenDir
      <3>2. top \in Path /\ top \in W /\ Range(Front(stack[w])) \subseteq W
        BY <2>1, <3>1, StackEnd
      <3>3. Children(top) \subseteq W
        <4>1. path[w] \in Path /\ IsPrefix(path[w], top)
          BY <3>1, <3>2, PathUnderItself DEF W, Under
        <4> QED BY <3>2, <4>1, ChildIsBelow, PathsAreSequences, PrefixOrder
                DEF W, Under, IsStrictPrefix
      <3> HIDE DEF top
      <3>4. stack'[w] = Front(stack[w]) /\ cur'[w] = top /\ later'[w] = later[w]
        BY <2>8 DEF OpenDir, top
      <3>5. /\ pc'[w] \in {"reply", "entry"}
            /\ todo'[w] \in {todo[w], {q \in Children(top) : Exists(q)}}
        BY <2>8 DEF OpenDir, top
      <3> QED BY <2>1, <3>1, <3>2, <3>3, <3>4, <3>5
    <2>9. CASE Entry(w)
      <3>1. PICK q \in todo[w] :
              /\ todo' = [todo EXCEPT ![w] = @ \ {q}]
              /\ stack'[w] \in {stack[w], Append(stack[w], q)}
              /\ pc'[w] \in {"reply", "entry"} \/ (pc'[w] = "unlink" /\ aim'[w] = q)
        BY <2>9 DEF Entry
      <3>2. pc[w] = "entry" /\ cur'[w] = cur[w] /\ later'[w] = later[w]
        BY <2>9 DEF Entry
      <3>3. q \in W /\ q \in Path /\ Range(Append(stack[w], q)) = Range(stack[w]) \cup {q}
        BY <3>1, <3>2, StackGrown
      <3>4. todo'[w] \subseteq W /\ Range(stack'[w]) \subseteq W
        BY <3>1, <3>2, <3>3
      <3> QED BY <3>1, <3>2, <3>4
    <2>10. CASE CloseDir(w)
      <3>1. /\ pc[w] = "entry" /\ todo[w] = {}
            /\ later'[w] \in {later[w], later[w] \cup {cur[w]}}
            /\ pc'[w] \in {"reply", "rmdirs", "open"}
        BY <2>10 DEF CloseDir, AfterDir
      <3>2. stack'[w] = stack[w] /\ todo'[w] = todo[w]
        BY <2>10 DEF CloseDir
      <3> QED BY <3>1, <3>2
    <2>11. CASE KeepDir(w)
      BY <2>11 DEF KeepDir, AfterDir, locals
    <2>12. CASE Rmdirs(w)
      <3>1. pc[w] = "rmdirs" /\ pc'[w] \in {"reply", "rmdirs"}
        BY <2>12 DEF Rmdirs
      <3>2. later'[w] \subseteq later[w]
        BY <2>12 DEF Rmdirs
      <3>3. stack'[w] = stack[w] /\ todo'[w] = todo[w]
        BY <2>12 DEF Rmdirs
      <3> QED BY <3>1, <3>2, <3>3
    <2>13. CASE Mv(w)
      <3>1. pc[w] = "mv" /\ pc'[w] \in {"reply", "mvto"}
        BY <2>13 DEF Mv
      <3>2. todo'[w] = todo[w] /\ later'[w] = later[w]
        BY <2>13 DEF Mv
      <3> QED BY <3>1, <3>2
    <2>14. CASE EraseFile(w)
      BY <2>14 DEF EraseFile, locals
    <2>15. CASE RemoveEntry(w)
      <3>1. pc[w] = "unlink" /\ pc'[w] \in {"reply", "entry"}
        BY <2>15 DEF RemoveEntry
      <3>2. /\ stack'[w] = stack[w] /\ todo'[w] = todo[w] /\ later'[w] = later[w]
            /\ cur'[w] = cur[w]
        BY <2>15 DEF RemoveEntry
      <3> QED BY <3>1, <3>2
    <2> QED
      BY <2>3, <2>4, <2>5, <2>6, <2>7, <2>8, <2>9, <2>10, <2>11, <2>12,
         <2>13, <2>14, <2>15, SmallCases DEF SmallStep
  <1> QED BY <1>3, <1>4

LEMMA ReplyTInv ==
  ASSUME TInv, NEW w \in Worker, Reply(w)
  PROVE  TInv'
  <1>1. path[w] \in Path /\ kept \subseteq Path
    BY DEF Reply, TInv, Control, Typing
  <1>2. kept' \subseteq Path
    BY <1>1 DEF Reply
  <1> QED BY <1>2, ForgetTInv DEF Reply

LEMMA HandlerTInv ==
  ASSUME KInv, NEW w \in Worker, Handler(w)
  PROVE  TInv'
  <1>1. CASE Renames(w)
    BY <1>1, RenameTInv
  <1>2. CASE Carries(w)
    BY <1>2, CopyTInv, DropTInv DEF Carries
  <1>3. CASE Reply(w)
    BY <1>3, ReplyTInv DEF KInv
  <1>4. CASE Small(w)
    BY <1>4, SmallTyping, SmallControl, SmallWalk DEF KInv, TInv
  <1> QED BY <1>1, <1>2, <1>3, <1>4 DEF Small

-----------------------------------------------------------------------------
(* Directories stay above what is in them, and open files where they are.  *)

LEMMA DiskTree ==
  ASSUME TInv, Tree, NEW w \in Worker, pc[w] # "idle", DiskStep(w)
  PROVE  Tree'
  <1>1. /\ node \in [Path -> {"absent", "dir"} \cup File]
        /\ file \in [Worker -> Path \cup {NoPath}]
        /\ path[w] \in Path /\ Under(path[w]) \subseteq Path
    BY PathUnderItself DEF TInv, Typing
  <1>2. ASSUME NEW v \in Worker, file[v] # NoPath
        PROVE  file[v] \in Path /\ node[file[v]] \in File
    BY <1>1, <1>2 DEF Tree, OpenFiles
  <1>3. CASE UNCHANGED disk
    BY <1>3 DEF Tree, Ancestors, OpenFiles, Exists, disk
  <1>4. CASE ~Exists(path[w]) /\ HasParent(path[w]) /\ Put(path[w], "dir")
    <2>1. Ancestors'
      BY <1>1, <1>4, SetNode DEF Put, Tree, Exists
    <2>2. OpenFiles'
      BY <1>1, <1>2, <1>4 DEF Put, OpenFiles, Exists, File
    <2> QED BY <2>1, <2>2 DEF Tree
  <1>5. CASE /\ CanOpen(path[w])
             /\ node' = [node EXCEPT ![path[w]] = "empty"]
             /\ file' = IF op[w] = "push" THEN [file EXCEPT ![w] = path[w]] ELSE file
    <2>1. Ancestors'
      BY <1>1, <1>5, SetNode DEF CanOpen, Tree
    <2>2. OpenFiles'
      BY <1>1, <1>2, <1>5 DEF OpenFiles, File
    <2> QED BY <2>1, <2>2 DEF Tree
  <1>6. CASE file[w] # NoPath /\ Put(file[w], "full")
    <2>1. file[w] \in Path /\ node[file[w]] \in File
      BY <1>2, <1>6
    <2>2. HasParent(file[w])
      BY <2>1, FrontOfPath DEF HasParent, Tree, Ancestors, Exists, File
    <2>3. Ancestors'
      BY <1>6, <2>1, <2>2, SetNode DEF Put, Tree, File
    <2>4. OpenFiles'
      BY <1>1, <1>2, <1>6 DEF Put, OpenFiles, File
    <2> QED BY <2>3, <2>4 DEF Tree
  <1>7. ASSUME NEW q \in Under(path[w]), node[q] \in File, Unlink(q)
        PROVE  Tree'
    <2>1. q \in Path /\ node[q] # "dir"
      BY <1>1, <1>7 DEF File
    <2>2. Ancestors'
      BY <1>7, <2>1, SetNode DEF Unlink, Tree
    <2>3. OpenFiles'
      BY <1>1, <1>2, <1>7 DEF Unlink, OpenFiles
    <2> QED BY <2>2, <2>3 DEF Tree
  <1>8. CASE CanOpen(path[w]) /\ Put(path[w], "empty")
    <2>1. Ancestors'
      BY <1>1, <1>8, SetNode DEF Put, CanOpen, Tree
    <2>2. OpenFiles'
      BY <1>1, <1>2, <1>8 DEF Put, OpenFiles, File
    <2> QED BY <2>1, <2>2 DEF Tree
  <1>9. ASSUME NEW q \in Under(path[w]), CanRmdir(q), Put(q, "absent")
        PROVE  Tree'
    <2>1. q \in Path
      BY <1>1
    <2>2. Ancestors'
      BY <1>9, <2>1, SetNode DEF Put, Tree, CanRmdir
    <2>3. OpenFiles'
      BY <1>1, <1>2, <1>9 DEF Put, OpenFiles, CanRmdir, File
    <2> QED BY <2>2, <2>3 DEF Tree
  <1> QED BY <1>3, <1>4, <1>5, <1>6, <1>7, <1>8, <1>9 DEF DiskStep

\* Nothing that may take content away comes near what has to stay.
LEMMA DiskKept ==
  ASSUME KInv, NEW w \in Worker, pc[w] # "idle", DiskStep(w), UNCHANGED kept
  PROVE  KeptStays'
  <1>1. /\ node \in [Path -> {"absent", "dir"} \cup File]
        /\ file \in [Worker -> Path \cup {NoPath}]
        /\ path[w] \in Path /\ Under(path[w]) \subseteq Path /\ kept \subseteq Path
    BY PathUnderItself DEF KInv, TInv, Typing
  <1> SUFFICES ASSUME NEW p \in kept PROVE node'[p] = "full"
    BY DEF KeptStays
  <1>2. p \in Path /\ node[p] = "full" /\ p \notin Risks(w)
    BY <1>1 DEF KInv, KeptStays, Keeping
  <1>3. CASE UNCHANGED disk
    BY <1>2, <1>3 DEF disk
  <1>4. CASE ~Exists(path[w]) /\ Put(path[w], "dir")
    BY <1>1, <1>2, <1>4 DEF Exists, Put
  <1>5. CASE /\ op[w] \in {"create", "push"} /\ pc[w] = "change"
             /\ node' = [node EXCEPT ![path[w]] = "empty"]
    <2>1. p # path[w]
      BY <1>2, <1>5 DEF Risks
    <2> QED BY <1>1, <1>2, <1>5, <2>1
  <1>6. CASE file[w] # NoPath /\ Put(file[w], "full")
    BY <1>1, <1>2, <1>6 DEF Put
  <1>7. ASSUME NEW q \in Under(path[w]), op[w] \in {"delete", "clear"},
               Unlink(q) \/ Put(q, "absent")
        PROVE  node'[p] = "full"
    <2>1. p # q
      BY <1>2, <1>7 DEF Risks
    <2> QED BY <1>1, <1>2, <1>7, <2>1 DEF Unlink, Put
  <1>8. CASE op[w] = "clear" /\ Put(path[w], "empty")
    <2>1. p # path[w]
      BY <1>2, <1>8, PathUnderItself DEF Risks, KInv
    <2> QED BY <1>1, <1>2, <1>8, <2>1 DEF Put
  <1> QED BY <1>3, <1>4, <1>5, <1>6, <1>7, <1>8 DEF DiskStep

-----------------------------------------------------------------------------
(* What a step of one handler leaves alone: all that does not lie below a  *)
(* path that its request refers to.                                        *)

Touches(w, q) == \E r \in Refers(w) : IsPrefix(r, q)

Framed(w) ==
  /\ \A v \in Worker \ {w} :
       UNCHANGED <<pc[v], op[v], path[v], dst[v], aim[v], code[v], clean[v]>>
  /\ Refers(w)' \subseteq Refers(w) /\ (clean'[w] => clean[w])
  /\ \A q \in Path : node'[q] # node[q] => Touches(w, q)
  /\ \A v \in Worker \ {w} : file'[v] # file[v] =>
       /\ file[v] # NoPath /\ Touches(w, file[v])
       /\ file'[v] # NoPath => Touches(w, file'[v])
  /\ \A q \in kept' \ kept : clean[w] /\ Touches(w, q)

LEMMA RefersToPaths == ASSUME TInv, NEW w \in Worker PROVE Refers(w) \subseteq Path
  BY DEF TInv, Typing, Refers

\* What an undisturbed request refers to does not change under its hands.
LEMMA CleanUntouched ==
  ASSUME TInv, Apart, NEW v \in Worker, NEW w \in Worker, v # w, clean[v] \/ clean[w]
  PROVE  /\ \A r \in Refers(v) : ~Touches(w, r)
         /\ \A q \in Path, r \in Refers(v) :
              Touches(w, q) => ~IsPrefix(r, q) /\ ~IsPrefix(q, r)
  <1>1. \A r \in Refers(v), s \in Refers(w) : ~IsPrefix(r, s) /\ ~IsPrefix(s, r)
    BY DEF Apart, Overlap
  <1>2. Refers(v) \subseteq AnyPath /\ Refers(w) \subseteq AnyPath
    BY RefersToPaths, PathsAreSequences
  <1>3. ASSUME NEW q \in Path, NEW r \in Refers(v), NEW s \in Refers(w), IsPrefix(s, q)
        PROVE  ~IsPrefix(r, q) /\ ~IsPrefix(q, r)
    BY <1>1, <1>2, <1>3, PathsAreSequences, PrefixOrder
  <1> QED BY <1>1, <1>3 DEF Touches

LEMMA FramedApart ==
  ASSUME TInv, TInv', Apart, NEW w \in Worker, Framed(w)
  PROVE  Apart'
  <1> SUFFICES ASSUME NEW v \in Worker, NEW u \in Worker, v # u, clean'[v],
                      NEW r \in Refers(v)', NEW s \in Refers(u)'
               PROVE  ~IsPrefix(r, s) /\ ~IsPrefix(s, r)
    BY DEF Apart, Overlap
  <1>1. clean[v]
    BY DEF Framed
  <1>2. r \in Refers(v)
    <2>1. CASE v = w
      BY <2>1 DEF Framed
    <2>2. CASE v # w /\ file'[v] = file[v]
      BY <2>2 DEF Framed, Refers
    <2>3. CASE v # w /\ file'[v] # file[v]
      <3>1. file[v] \in Refers(v) /\ Touches(w, file[v])
        BY <2>3 DEF Framed, Refers
      <3> QED BY <1>1, <2>3, <3>1, CleanUntouched
    <2> QED BY <2>1, <2>2, <2>3
  <1>3. CASE s \in Refers(u)
    BY <1>1, <1>2, <1>3 DEF Apart, Overlap
  <1>4. CASE s \notin Refers(u)
    <2>1. u # w /\ file'[u] # file[u] /\ s = file'[u] /\ s # NoPath
      BY <1>4 DEF Framed, Refers
    <2>2. Touches(w, file[u]) /\ file[u] \in Refers(u) /\ Touches(w, s) /\ s \in Path
      BY <2>1, RefersToPaths DEF Framed, Refers, TInv, Typing
    <2>3. v # w
      BY <1>1, <2>1, <2>2, CleanUntouched
    <2> QED BY <1>1, <1>2, <2>2, <2>3, CleanUntouched
  <1> QED BY <1>3, <1>4

LEMMA FramedOthers ==
  ASSUME TInv, Keeping, NEW w \in Worker, Framed(w), NEW v \in Worker \ {w}
  PROVE  kept' \cap Risks(v)' = {} /\ Pushed(v)' /\ Copied(v)'
  <1>1. UNCHANGED <<pc[v], op[v], path[v], dst[v], aim[v], code[v], clean[v]>>
    BY DEF Framed
  <1>2. Risks(v)' = Risks(v)
    BY <1>1 DEF Risks, Under
  <1>3. ASSUME NEW q \in kept', q \in Risks(v)
        PROVE  FALSE
    <2>1. q \notin kept
      BY <1>3 DEF Keeping
    <2>2. clean[w] /\ Touches(w, q)
      BY <1>3, <2>1 DEF Framed
    <2>3. PICK s \in Refers(w) : IsPrefix(s, q) /\ s \in Path
      BY <2>2, RefersToPaths DEF Touches
    <2>4. path[v] \in Path /\ dst[v] \in Path \cup {NoPath}
      BY <1>3 DEF TInv, Typing, Control, Risks
    <2>5. q = path[v] \/ (q \in Path /\ IsPrefix(path[v], q))
          \/ (q \in Path /\ dst[v] \in Path /\ IsPrefix(dst[v], q))
      BY <1>3, <2>4 DEF Risks, Under, TInv, Control
    <2>6. q \in Path /\ \E r \in Refers(v) : IsPrefix(r, q)
      BY <2>4, <2>5, PathsAreSequences, PrefixOrder DEF Refers
    <2> QED BY <2>2, <2>6, CleanUntouched DEF Keeping
  <1>4. ASSUME op[v] = "push", clean[v]
        PROVE  /\ path[v] \in Path
               /\ file[v] # NoPath => file'[v] = file[v]
               /\ node'[path[v]] = node[path[v]]
    <2>1. path[v] \in Path /\ path[v] \in Refers(v)
      BY <1>4, PathsAreSequences DEF TInv, Control, Refers
    <2>2. ~Touches(w, path[v]) /\ (file[v] # NoPath => ~Touches(w, file[v]))
      BY <1>4, <2>1, CleanUntouched DEF Keeping, Refers
    <2> QED BY <2>1, <2>2 DEF Framed
  <1>5. Pushed(v)'
    <2> SUFFICES ASSUME op'[v] = "push", clean'[v]
                 PROVE  /\ pc'[v] = "write" => file'[v] = path'[v]
                        /\ pc'[v] = "reply" /\ code'[v] = "0" => node'[path'[v]] = "full"
      BY DEF Pushed
    <2>1. op[v] = "push" /\ clean[v] /\ path[v] # NoPath
      BY <1>1, <1>4, PathsAreSequences
    <2>2. /\ pc[v] = "write" => file[v] = path[v]
          /\ pc[v] = "reply" /\ code[v] = "0" => node[path[v]] = "full"
      BY <2>1 DEF Keeping, Pushed
    <2> QED BY <1>1, <1>4, <2>1, <2>2
  <1>6. Copied(v)'
    <2> SUFFICES ASSUME pc[v] = "drop", clean[v], NEW q \in Under(path[v]), node'[q] # "absent"
                 PROVE  /\ Moved(path[v], aim[v], q) \in Path
                        /\ node'[Moved(path[v], aim[v], q)] = node'[q]
      BY <1>1 DEF Copied, Under, Exists
    <2>1. /\ path[v] \in Path /\ dst[v] \in Path /\ aim[v] \in Path /\ IsPrefix(dst[v], aim[v])
          /\ path[v] \in Refers(v) /\ dst[v] \in Refers(v)
          /\ q \in Path /\ IsPrefix(path[v], q)
      BY NoPathIsNone DEF TInv, Typing, Control, Carrying, Refers, Under
    <2>2. \A r \in Path : IsPrefix(path[v], r) \/ IsPrefix(dst[v], r) => node'[r] = node[r]
      BY <2>1, CleanUntouched DEF Keeping, Framed
    <2>3. /\ Moved(path[v], aim[v], q) \in Path
          /\ node[Moved(path[v], aim[v], q)] = node[q]
      BY <2>1, <2>2 DEF Keeping, Copied, Under, Exists
    <2>4. IsPrefix(dst[v], Moved(path[v], aim[v], q))
      <3>1. /\ path[v] \in AnyPath /\ aim[v] \in AnyPath /\ dst[v] \in AnyPath /\ q \in AnyPath
        BY <2>1, PathsAreSequences
      <3>2. /\ IsPrefix(aim[v], Moved(path[v], aim[v], q))
            /\ Moved(path[v], aim[v], q) \in AnyPath
        BY <2>1, <3>1, MovedPath
      <3> QED BY <2>1, <3>1, <3>2, PrefixOrder
    <2> QED BY <2>1, <2>2, <2>3, <2>4
  <1> QED BY <1>2, <1>3, <1>5, <1>6

LEMMA SmallFramed ==
  ASSUME KInv, NEW w \in Worker, Small(w)
  PROVE  Framed(w) /\ UNCHANGED <<op, path, dst, kept>> /\ pc[w] # "idle"
  <1>1. /\ UNCHANGED <<op, path, dst, kept>> /\ pc[w] # "idle"
        /\ clean' \in {clean, [clean EXCEPT ![w] = FALSE]}
    BY SmallFrame DEF KInv
  <1>2. /\ node \in [Path -> {"absent", "dir"} \cup File]
        /\ file \in [Worker -> Path \cup {NoPath}]
        /\ pc = [v \in Worker |-> pc[v]] /\ code = [v \in Worker |-> code[v]]
        /\ clean \in [Worker -> BOOLEAN] /\ aim = [v \in Worker |-> aim[v]]
    BY DEF KInv, TInv, Typing
  <1>3. /\ path[w] \in Path /\ Under(path[w]) \subseteq Path /\ path[w] \in Refers(w)
        /\ Touches(w, path[w])
    BY <1>1, PathUnderItself, NoPathIsNone DEF KInv, Refers, Touches, Under
  <1>4. \A v \in Worker \ {w} :
          UNCHANGED <<pc[v], op[v], path[v], dst[v], aim[v], code[v], clean[v]>>
    <2>1. \A v \in Worker \ {w} : pc'[v] = pc[v]
      BY <1>2, SmallAnswers DEF KInv
    <2>2. \A v \in Worker \ {w} : code'[v] = code[v]
      BY <1>2, SmallAnswers DEF KInv
    <2>3. \A v \in Worker \ {w} : aim'[v] = aim[v]
      BY <1>2, SmallLocals DEF KInv
    <2> QED BY <1>1, <1>2, <2>1, <2>2, <2>3
  <1>5. clean'[w] => clean[w]
    BY <1>1, <1>2
  <1>6. /\ file'[w] \in {file[w], path[w], NoPath}
        /\ \A v \in Worker \ {w} : file'[v] # file[v] =>
             file[v] \in Under(path[w]) /\ file'[v] = NoPath
        /\ \A q \in Path : node'[q] # node[q] => q = file[w] \/ q \in Under(path[w])
    <2>1. path[w] \in Under(path[w])
      BY <1>1, PathUnderItself DEF KInv
    <2> QED BY <1>1, <1>2, <1>3, <2>1, SmallDisk DEF KInv, DiskStep, disk, Put, Unlink
  <1>7. Refers(w)' \subseteq Refers(w)
    BY <1>1, <1>6 DEF Refers
  <1>8. \A q \in Path : node'[q] # node[q] => Touches(w, q)
    <2>1. \A q \in Under(path[w]) : Touches(w, q)
      BY <1>3 DEF Touches, Under
    <2>2. file[w] \in Path => Touches(w, file[w])
      BY NoPathIsNone, PathsAreSequences, PrefixOrder DEF Touches, Refers
    <2> QED BY <1>6, <2>1, <2>2
  <1>9. \A v \in Worker \ {w} : file'[v] # file[v] =>
          file[v] # NoPath /\ Touches(w, file[v]) /\ file'[v] = NoPath
    BY <1>3, <1>6, NoPathIsNone DEF Touches, Under
  <1> QED BY <1>1, <1>4, <1>5, <1>7, <1>8, <1>9 DEF Framed

LEMMA RenameFramed ==
  ASSUME KInv, NEW w \in Worker, Renames(w)
  PROVE  Framed(w) /\ KeptStays' /\ Tree'
  <1>1. /\ op[w] = "rename" /\ path[w] \in Path /\ dst[w] \in Path
        /\ UNCHANGED <<op, path, dst, aim, clean>>
    BY RenameMoves DEF request, locals
  <1>2. \A v \in Worker \ {w} : pc'[v] = pc[v] /\ code'[v] = code[v]
    <2>1. pc = [v \in Worker |-> pc[v]] /\ code = [v \in Worker |-> code[v]]
      BY DEF KInv, TInv, Typing
    <2> QED BY <2>1, RenameMoves DEF Answer, Continue, Goto
  <1>3. file[w] = NoPath /\ path[w] \in Refers(w) /\ dst[w] \in Refers(w)
    BY <1>1, NoPathIsNone DEF KInv, TInv, Control, Refers
  <1>4. CASE UNCHANGED <<disk, kept>>
    BY <1>1, <1>2, <1>4 DEF Framed, Refers, disk, KInv, KeptStays, Tree, Ancestors, OpenFiles,
                            Exists
  <1>5. ASSUME NEW d \in Path, IsPrefix(dst[w], d), CanRename(path[w], d), Fits(path[w], d),
               Move(w, path[w], d), kept \cap Under(d) = {}
        PROVE  Framed(w) /\ KeptStays' /\ Tree'
    <2>1. \A q \in Path : IsPrefix(path[w], q) \/ IsPrefix(d, q) => Touches(w, q)
      BY <1>1, <1>3, <1>5, PathsAreSequences, PrefixOrder DEF Touches
    <2>2. \A q \in Path : node'[q] # node[q] => Touches(w, q)
      BY <1>1, <1>5, <2>1, MoveNodes
    <2>3. /\ file' \in [Worker -> Path \cup {NoPath}] /\ OpenFiles'
          /\ \A v \in Worker : file[v] = NoPath => file'[v] = NoPath
          /\ \A v \in Worker : file'[v] # file[v] =>
               /\ IsPrefix(path[w], file[v]) \/ IsPrefix(d, file[v])
               /\ file'[v] # NoPath => IsPrefix(d, file'[v])
      BY <1>1, <1>5, MoveFiles DEF KInv, Tree
    <2>4. \A v \in Worker \ {w} : file'[v] # file[v] =>
            /\ file[v] # NoPath /\ Touches(w, file[v])
            /\ file'[v] # NoPath => Touches(w, file'[v])
      BY <2>1, <2>3 DEF KInv, TInv, Typing
    <2>5. /\ kept' \subseteq Path /\ KeptStays'
          /\ \A q \in kept' \ kept : clean[w] /\ IsPrefix(d, q)
      BY <1>1, <1>5, MoveKept DEF KInv
    <2>6. \A q \in kept' \ kept : clean[w] /\ Touches(w, q)
      BY <2>1, <2>5
    <2>7. Refers(w)' \subseteq Refers(w)
      BY <1>1, <1>3, <2>3 DEF Refers
    <2>8. Ancestors'
      BY <1>1, <1>5, MoveNodes DEF KInv, Tree
    <2>9. Framed(w)
      BY <1>1, <1>2, <2>2, <2>4, <2>6, <2>7 DEF Framed
    <2> QED BY <2>3, <2>5, <2>8, <2>9 DEF Tree
  <1> QED BY <1>4, <1>5, RenameMoves

LEMMA CarryFramed ==
  ASSUME KInv, NEW w \in Worker, Carries(w)
  PROVE  Framed(w) /\ KeptStays' /\ Tree'
  <1>1. /\ op[w] = "rename" /\ path[w] \in Path /\ dst[w] \in Path /\ aim[w] \in Path
        /\ IsPrefix(dst[w], aim[w]) /\ UNCHANGED <<op, path, dst, aim, clean>>
        /\ MvCopy(w) => kept \cap Under(aim[w]) = {}
    BY CarryMoves DEF request, locals, MvCopy
  <1>2. \A v \in Worker \ {w} : pc'[v] = pc[v] /\ code'[v] = code[v]
    <2>1. pc = [v \in Worker |-> pc[v]] /\ code = [v \in Worker |-> code[v]]
      BY DEF KInv, TInv, Typing
    <2> QED BY <2>1 DEF Carries, MvCopy, MvDrop, Answer, Continue, Goto
  <1>3. file[w] = NoPath /\ path[w] \in Refers(w) /\ dst[w] \in Refers(w)
    BY <1>1, NoPathIsNone DEF KInv, TInv, Control, Refers
  <1>4. CASE UNCHANGED <<disk, kept>>
    BY <1>1, <1>2, <1>4 DEF Framed, Refers, disk, KInv, KeptStays, Tree, Ancestors, OpenFiles,
                            Exists
  <1>5. \A q \in Path : IsPrefix(path[w], q) \/ IsPrefix(aim[w], q) => Touches(w, q)
    BY <1>1, <1>3, PathsAreSequences, PrefixOrder DEF Touches
  <1>6. ASSUME NEW d \in {path[w], aim[w]}, file' = Displaced(d), Ancestors', KeptStays',
               \A q \in Path : ~IsPrefix(d, q) => node'[q] = node[q],
               \A q \in kept' \ kept : clean[w] /\ IsPrefix(aim[w], q), kept' \subseteq Path
        PROVE  Framed(w) /\ KeptStays' /\ Tree'
    <2>1. \A q \in Path : node'[q] # node[q] => Touches(w, q)
      BY <1>5, <1>6
    <2>2. \A v \in Worker : /\ file'[v] \in {file[v], NoPath}
                            /\ file'[v] # file[v] => IsPrefix(d, file[v])
                            /\ file'[v] # NoPath => ~IsPrefix(d, file'[v])
      BY <1>6 DEF Displaced
    <2>3. \A v \in Worker : file[v] \in Path \cup {NoPath}
      BY DEF KInv, TInv, Typing
    <2>4. \A v \in Worker \ {w} : file'[v] # file[v] =>
            /\ file[v] # NoPath /\ Touches(w, file[v])
            /\ file'[v] # NoPath => Touches(w, file'[v])
      BY <1>5, <1>6, <2>2, <2>3
    <2>5. OpenFiles'
      BY <1>6, <2>2, <2>3 DEF KInv, Tree, OpenFiles
    <2>6. Refers(w)' \subseteq Refers(w)
      BY <1>1, <1>3, <2>2 DEF Refers
    <2>7. \A q \in kept' \ kept : clean[w] /\ Touches(w, q)
      BY <1>5, <1>6
    <2> QED BY <1>1, <1>2, <1>6, <2>1, <2>4, <2>5, <2>6, <2>7 DEF Framed, Tree
  <1>7. CASE MvCopy(w) /\ CanMv(w)
    <2>1. /\ \A q \in Path : ~IsPrefix(aim[w], q) => node'[q] = node[q]
          /\ Ancestors' /\ file' = Displaced(aim[w]) /\ UNCHANGED kept
      BY <1>1, <1>7, CopyDisk
    <2>2. KeptStays' /\ kept' \subseteq Path
      BY <1>1, <1>7, <2>1 DEF KInv, TInv, Typing, KeptStays, Under
    <2> QED BY <1>6, <2>1, <2>2
  <1>8. CASE MvDrop(w) /\ Exists(path[w])
    BY <1>6, <1>8, DropDisk
  <1> QED BY <1>4, <1>7, <1>8 DEF Carries, MvCopy, MvDrop

-----------------------------------------------------------------------------
(* What a step does for the handler itself.                                *)

\* Steps of optPush put the content where it is to be.
LEMMA PushOn ==
  ASSUME KInv, NEW w \in Worker, Small(w)
  PROVE  Pushed(w)'
  <1> SUFFICES ASSUME op'[w] = "push", clean'[w]
               PROVE  /\ pc'[w] = "write" => file'[w] = path'[w]
                      /\ pc'[w] = "reply" /\ code'[w] = "0" => node'[path'[w]] = "full"
    BY DEF Pushed
  <1>1. UNCHANGED <<op, path>> /\ op[w] = "push" /\ path[w] \in Path /\ pc[w] # "idle"
    BY SmallFramed DEF KInv, TInv, Control
  <1>2. /\ node \in [Path -> {"absent", "dir"} \cup File]
        /\ pc = [v \in Worker |-> pc[v]] /\ code = [v \in Worker |-> code[v]]
        /\ clean = [v \in Worker |-> clean[v]] /\ file = [v \in Worker |-> file[v]]
    BY DEF KInv, TInv, Typing
  <1>3. OpenFile(w) \/ Write(w)
    <2>1. pc[w] \notin {"look", "remove", "erase", "send", "lookdst", "mv"} \cup Walking
      BY <1>1 DEF KInv, TInv, Control, Walking
    <2> QED
      BY <1>1, <2>1, SmallCases DEF SmallStep, LookCreate, Mkdir, PullSize, PullSend, LookSrc,
         LookDst, Mv, LookRemoval, RemovePath, EraseFile, OpenDir, Entry, RemoveEntry, CloseDir,
         KeepDir, Rmdirs, Walking, InDir
  <1>4. CASE OpenFile(w)
    BY <1>1, <1>2, <1>4 DEF OpenFile, Answer, Continue, Goto
  <1>5. CASE Write(w)
    <2>1. clean[w] /\ pc[w] = "write"
      BY <1>5, SmallFramed DEF Framed, Write
    <2>2. file[w] = path[w] /\ file[w] # NoPath
      BY <1>1, <2>1, NoPathIsNone DEF KInv, Keeping, Pushed
    <2>3. node'[path[w]] = "full"
      BY <1>1, <1>2, <1>5, <2>1, <2>2 DEF Write, Put
    <2>4. pc'[w] = "reply"
      BY <1>2, <1>5 DEF Write, Answer, Goto
    <2> QED BY <1>1, <2>3, <2>4
  <1> QED BY <1>3, <1>4, <1>5

\* A handler looks before it takes the risk of taking content away.
LEMMA LooksFirst ==
  ASSUME KInv, NEW w \in Worker, Small(w)
  PROVE  kept' \cap Risks(w)' = {}
  <1>1. UNCHANGED <<op, path, dst, kept>> /\ pc[w] # "idle" /\ path[w] \in Path
    BY SmallFramed DEF KInv, TInv, Control
  <1>2. pc = [v \in Worker |-> pc[v]] /\ kept \subseteq Path
    BY DEF KInv, TInv, Typing
  <1>3. kept \cap Risks(w) = {}
    BY DEF KInv, Keeping
  <1>4. CASE op[w] \in {"push", "delete", "clear"}
    BY <1>1, <1>3, <1>4 DEF Risks, Under
  <1>5. CASE op[w] = "create"
    <2>1. CASE pc'[w] # "change"
      BY <1>1, <1>5, <2>1 DEF Risks
    <2>2. CASE pc'[w] = "change"
      <3>1. LookCreate(w) \/ OpenFile(w)
        <4>1. pc[w] \notin {"write", "remove", "erase", "send", "lookdst", "mv"} \cup Walking
          BY <1>5 DEF KInv, TInv, Control, Walking
        <4> QED
          BY <1>5, <4>1, SmallCases DEF SmallStep, Mkdir, Write, PullSize, PullSend, LookSrc,
             LookDst, Mv, LookRemoval, RemovePath, EraseFile, OpenDir, Entry, RemoveEntry,
             CloseDir, KeepDir, Rmdirs, Walking, InDir
      <3>2. LookCreate(w)
        BY <1>2, <1>5, <2>2, <3>1 DEF OpenFile, Answer, Continue, Goto
      <3>3. ~Exists(path[w])
        BY <1>2, <2>2, <3>2 DEF LookCreate, Answer, Goto
      <3>4. path[w] \notin kept
        BY <3>3 DEF KInv, KeptStays, Exists
      <3> QED BY <1>1, <1>5, <3>4 DEF Risks
    <2> QED BY <2>1, <2>2
  <1>6. CASE op[w] = "rename"
    <2>1. CASE pc'[w] \notin {"change", "mv", "mvto", "copy"}
      BY <1>1, <1>6, <2>1 DEF Risks
    <2>2. CASE Mv(w)
      <3>1. Risks(w) = Under(dst[w]) /\ Risks(w)' \subseteq Under(dst[w])
        BY <1>1, <1>6, <2>2 DEF Mv, Risks, Under
      <3> QED BY <1>1, <1>3, <3>1
    <2>3. CASE pc'[w] \in {"change", "mv", "mvto", "copy"} /\ ~Mv(w)
      <3>1. LookDst(w)
        <4>1. pc[w] \notin {"write", "remove", "erase", "send"} \cup Walking
          BY <1>6 DEF KInv, TInv, Control, Walking
        <4> QED
          BY <1>1, <1>2, <1>6, <2>3, <4>1, SmallCases DEF SmallStep, LookCreate, Mkdir, OpenFile,
             Write, PullSize, PullSend, LookSrc, LookRemoval, RemovePath, EraseFile, OpenDir,
             Entry, RemoveEntry, CloseDir, KeepDir, Rmdirs, Answer, Continue, Goto, Walking, InDir
      <3>2. ~Exists(dst[w]) /\ dst[w] \in Path
        BY <1>2, <1>6, <2>3, <3>1 DEF LookDst, Answer, Goto, KInv, TInv, Control, Typing
      <3>3. \A q \in Under(dst[w]) : ~Exists(q)
        BY <3>2 DEF KInv, Tree, Ancestors, Exists, Under, IsStrictPrefix
      <3>4. kept \cap Under(dst[w]) = {}
        BY <1>2, <3>3 DEF KInv, KeptStays, Exists
      <3> QED BY <1>1, <1>6, <3>4 DEF Risks, Under
    <2> QED BY <2>1, <2>2, <2>3
  <1>7. CASE op[w] \in {"mkdir", "pull", "range"}
    BY <1>1, <1>7 DEF Risks
  <1> QED BY <1>1, <1>4, <1>5, <1>6, <1>7 DEF KInv, TInv, Control, Op

LEMMA SmallKInv ==
  ASSUME KInv, NEW w \in Worker, Small(w)
  PROVE  KInv'
  <1>1. TInv'
    BY HandlerTInv DEF Small
  <1>2. Framed(w) /\ UNCHANGED kept /\ DiskStep(w) /\ pc[w] # "idle"
    BY SmallFramed, SmallDisk DEF KInv
  <1>3. Tree' /\ KeptStays'
    BY <1>2, DiskTree, DiskKept DEF KInv
  <1>4. pc'[w] # "drop"
    <2>1. pc = [v \in Worker |-> pc[v]]
      BY DEF KInv, TInv, Typing
    <2> QED
      BY <2>1, SmallCases DEF SmallStep, LookCreate, Mkdir, OpenFile, Write, PullSize, PullSend,
         LookSrc, LookDst, Mv, LookRemoval, RemovePath, EraseFile, OpenDir, Entry, RemoveEntry,
         CloseDir, KeepDir, AfterDir, Rmdirs, Answer, Continue, Goto
  <1>5. Keeping'
    BY <1>1, <1>2, <1>4, FramedApart, FramedOthers, PushOn, LooksFirst DEF KInv, Keeping, Copied
  <1> QED BY <1>1, <1>3, <1>5 DEF KInv

LEMMA RenameKInv ==
  ASSUME KInv, NEW w \in Worker, Renames(w)
  PROVE  KInv'
  <1>1. TInv' /\ Framed(w) /\ KeptStays' /\ Tree'
    BY RenameTInv, RenameFramed
  <1>2. op[w] = "rename" /\ UNCHANGED <<op, path, dst>>
    BY RenameMoves DEF request
  <1>3. Pushed(w)'
    BY <1>2 DEF Pushed
  <1>4. kept' \cap Risks(w)' = {}
    <2>1. CASE UNCHANGED kept
      <3>1. Risks(w)' \subseteq Risks(w)
        BY <1>2, RenameMoves DEF Risks, Under
      <3> QED BY <2>1, <3>1 DEF KInv, Keeping
    <2>2. CASE pc'[w] = "reply"
      BY <1>2, <2>2 DEF Risks
    <2>3. UNCHANGED kept \/ pc'[w] = "reply"
      <3>1. pc = [v \in Worker |-> pc[v]]
        BY DEF KInv, TInv, Typing
      <3> QED BY <3>1, RenameMoves DEF Answer, Goto
    <2> QED BY <2>1, <2>2, <2>3
  <1>5. Copied(w)'
    <2>1. pc = [v \in Worker |-> pc[v]]
      BY DEF KInv, TInv, Typing
    <2>2. pc'[w] # "drop"
      BY <2>1, RenameMoves DEF Answer, Continue, Goto
    <2> QED BY <2>2 DEF Copied
  <1> QED BY <1>1, <1>3, <1>4, <1>5, FramedApart, FramedOthers DEF KInv, Keeping

LEMMA CarryKInv ==
  ASSUME KInv, NEW w \in Worker, Carries(w)
  PROVE  KInv'
  <1>1. TInv' /\ Framed(w) /\ KeptStays' /\ Tree'
    BY CopyTInv, DropTInv, CarryFramed DEF Carries
  <1>2. op[w] = "rename" /\ UNCHANGED <<op, path, dst, aim>> /\ path[w] \in Path /\ aim[w] \in Path
    BY CarryMoves DEF request, locals
  <1>3. Pushed(w)'
    BY <1>2 DEF Pushed
  <1>4. pc'[w] \in {"reply", "drop"} /\ (pc'[w] = "drop" => MvCopy(w) /\ CanMv(w) /\ Continue(w, "drop"))
    BY DEF Carries, MvCopy, MvDrop, Answer, Continue, Goto, KInv, TInv, Typing
  <1>5. kept' \cap Risks(w)' = {}
    BY <1>2, <1>4 DEF Risks
  <1>6. Copied(w)'
    <2> SUFFICES ASSUME pc'[w] = "drop", NEW q \in Under(path[w]), node'[q] # "absent"
                 PROVE  /\ Moved(path[w], aim[w], q) \in Path
                        /\ node'[Moved(path[w], aim[w], q)] = node'[q]
      BY <1>2 DEF Copied, Under, Exists
    <2>1. /\ CanRename(path[w], aim[w]) /\ Fits(path[w], aim[w])
          /\ node' = Replaced(path[w], aim[w], {})
      BY <1>2, <1>4, CopyDisk DEF CanMv
    <2>2. q \in Path /\ IsPrefix(path[w], q) /\ ~IsPrefix(aim[w], q)
      BY <1>2, <2>1, PathsAreSequences, RenameApart, ApartBelow DEF Under
    <2>3. node'[q] = node[q]
      BY <1>2, <2>1, <2>2, ReplacedNodes
    <2>4. Exists(q)
      BY <2>3 DEF Exists
    <2> QED BY <1>2, <2>1, <2>2, <2>3, <2>4, ReplacedNodes
  <1> QED BY <1>1, <1>3, <1>5, <1>6, FramedApart, FramedOthers DEF KInv, Keeping

\* A handler that is over, or cut short by a crash, leaves no trace in memory.
LEMMA ForgetKInv ==
  ASSUME KInv, NEW w \in Worker, pc[w] # "idle", Forget(w),
         \/ kept' = kept
         \/ kept' = kept \cup {path[w]} /\ Reply(w) /\ clean[w] /\ op[w] = "push"
                                         /\ code[w] = "0"
  PROVE  KInv'
  <1>1. path[w] \in Path /\ path[w] \in Refers(w) /\ kept \subseteq Path
    BY NoPathIsNone DEF KInv, TInv, Control, Typing, Refers
  <1>2. TInv'
    BY <1>1, ForgetTInv DEF KInv
  <1>3. KeptStays'
    <2>1. UNCHANGED node
      BY DEF Forget
    <2>2. Reply(w) /\ clean[w] /\ op[w] = "push" /\ code[w] = "0" => node[path[w]] = "full"
      BY DEF Reply, KInv, Keeping, Pushed
    <2> QED BY <2>1, <2>2 DEF KInv, KeptStays
  <1>4. Tree'
    BY DEF Forget, KInv, TInv, Typing, Tree, Ancestors, OpenFiles, Exists
  <1>5. /\ op'[w] = "none" /\ clean'[w] = FALSE
        /\ path'[w] = NoPath /\ dst'[w] = NoPath /\ file'[w] = NoPath
        /\ \A v \in Worker \ {w} :
             UNCHANGED <<pc[v], op[v], path[v], dst[v], aim[v], code[v], clean[v], file[v]>>
    BY DEF Forget, Goto, KInv, TInv, Typing
  <1>6. Touches(w, path[w])
    BY <1>1, PathsAreSequences, PrefixOrder DEF Touches
  <1>7. Framed(w)
    BY <1>5, <1>6 DEF Framed, Refers, Forget
  <1>8. Risks(w)' = {} /\ Pushed(w)' /\ Copied(w)'
    BY <1>5 DEF Risks, Pushed, Copied
  <1> QED BY <1>2, <1>3, <1>4, <1>7, <1>8, FramedApart, FramedOthers DEF KInv, Keeping

LEMMA RequestKInv ==
  ASSUME KInv, NEW w \in Worker, Request(w)
  PROVE  KInv'
  <1>0. PICK o \in Op, p \in Path, d \in Path \cup {NoPath} :
          pc[w] = "idle" /\ Start(w, o, p, d) /\ (d # NoPath <=> o = "rename")
    BY NoPathIsNone DEF Request, Op
  <1> DEFINE refers == {p, d} \ {NoPath}
             others == {v \in Worker : pc[v] # "idle" /\ Overlap(Refers(v), refers)}
  <1>1. TInv'
    BY RequestTInv DEF KInv
  <1>2. /\ pc[w] = "idle"
        /\ pc' = [pc EXCEPT ![w] = IF o = "push" THEN "change" ELSE "look"]
        /\ op' = [op EXCEPT ![w] = o] /\ path' = [path EXCEPT ![w] = p]
        /\ dst' = [dst EXCEPT ![w] = d] /\ kept' = kept \ Gives(o, p)
        /\ clean' = [v \in Worker |-> IF v = w THEN others = {} ELSE clean[v] /\ v \notin others]
        /\ UNCHANGED <<node, file, code, aim>>
    BY <1>0 DEF Start, Goto, disk, locals
  <1>3. /\ pc'[w] = (IF o = "push" THEN "change" ELSE "look")
        /\ op'[w] = o /\ path'[w] = p /\ dst'[w] = d
        /\ \A v \in Worker \ {w} : /\ UNCHANGED <<pc[v], op[v], path[v], dst[v]>>
                                   /\ clean'[v] => clean[v] /\ v \notin others
        /\ clean'[w] => others = {}
    BY <1>2 DEF KInv, TInv, Typing
  <1>4. Tree' /\ KeptStays'
    BY <1>2 DEF KInv, Tree, Ancestors, OpenFiles, Exists, KeptStays
  <1>5. /\ Refers(w)' = refers
        /\ \A v \in Worker \ {w} : Refers(v)' = Refers(v)
    BY <1>2, <1>3 DEF Refers, KInv, TInv, Control
  <1>6. \A v \in Worker : v \notin others => ~Overlap(Refers(v), refers)
    BY DEF KInv, TInv, Control, Refers, Overlap
  <1> HIDE DEF refers, others
  <1>7. Apart'
    <2> SUFFICES ASSUME NEW v \in Worker, NEW u \in Worker, v # u, clean'[v]
                 PROVE  ~Overlap(Refers(v)', Refers(u)')
      BY DEF Apart, Overlap
    <2>1. CASE v # w /\ u # w
      BY <1>3, <1>5, <2>1 DEF KInv, Keeping, Apart
    <2>2. CASE v = w
      <3>1. ~Overlap(Refers(u), refers)
        BY <1>3, <1>6, <2>2
      <3> QED BY <1>5, <2>2, <3>1 DEF Overlap
    <2>3. CASE u = w
      BY <1>3, <1>5, <1>6, <2>3
    <2> QED BY <2>1, <2>2, <2>3
  <1>8. ASSUME NEW v \in Worker \ {w} PROVE kept' \cap Risks(v)' = {} /\ Pushed(v)' /\ Copied(v)'
    <2>1. Risks(v)' = Risks(v)
      BY <1>3 DEF Risks, Under
    <2>2. kept \cap Risks(v) = {} /\ Pushed(v) /\ Copied(v)
      BY DEF KInv, Keeping
    <2>3. Pushed(v)'
      BY <1>2, <1>3, <2>2 DEF Pushed
    <2>4. Copied(v)'
      BY <1>2, <1>3, <2>2 DEF Copied, Under, Exists
    <2> QED BY <1>2, <2>1, <2>2, <2>3, <2>4
  <1>9. kept' \cap Risks(w)' = {}
    BY <1>2, <1>3 DEF Risks, Gives, Under
  <1>10. Pushed(w)' /\ Copied(w)'
    BY <1>3 DEF Pushed, Copied
  <1> QED BY <1>1, <1>4, <1>7, <1>8, <1>9, <1>10 DEF KInv, Keeping

LEMMA InitKInv == Init => KInv
  BY InitTInv, NoPathIsNone DEF Init, KInv, Tree, Ancestors, OpenFiles, Exists, KeptStays,
     Keeping, Apart, Pushed, Copied

LEMMA NextKInv ==
  ASSUME KInv, [Next]_vars
  PROVE  KInv'
  <1>1. ASSUME NEW w \in Worker, Request(w) PROVE KInv'
    BY <1>1, RequestKInv
  <1>2. ASSUME NEW w \in Worker, Handler(w) PROVE KInv'
    <2>1. CASE Renames(w)
      BY <2>1, RenameKInv
    <2>4. CASE Carries(w)
      BY <2>4, CarryKInv
    <2>2. CASE Reply(w)
      <3>1. pc[w] # "idle" /\ Forget(w)
        BY <2>2 DEF Reply
      <3>2. CASE kept' = kept
        BY <3>1, <3>2, ForgetKInv
      <3>3. CASE /\ kept' = kept \cup {path[w]} /\ clean[w]
                 /\ op[w] = "push" /\ code[w] = "0"
        BY <2>2, <3>1, <3>3, ForgetKInv
      <3> QED BY <2>2, <3>2, <3>3 DEF Reply
    <2>3. CASE Small(w)
      BY <2>3, SmallKInv
    <2> QED BY <1>2, <2>1, <2>2, <2>3, <2>4 DEF Small
  <1>3. ASSUME NEW w \in Worker, Crash(w) PROVE KInv'
    <2>1. pc[w] # "idle" /\ Forget(w) /\ kept' = kept
      BY <1>3 DEF Crash
    <2>2. pc[w] # "idle"
      BY <2>1
    <2> QED BY <1>3, <2>1, ForgetKInv
  <1>4. CASE UNCHANGED vars
    <2> USE <1>4 DEF vars, disk, request, locals
    <2>1. Typing'
      BY DEF KInv, TInv, Typing
    <2>2. ASSUME NEW w \in Worker
          PROVE  /\ Control(w)' /\ Walk(w)' /\ Pushed(w)' /\ Copied(w)'
                 /\ Refers(w)' = Refers(w) /\ Risks(w)' = Risks(w)
      BY DEF KInv, TInv, Control, Walk, Keeping, Pushed, Copied, Refers, Risks, Under, Exists
    <2>3. Tree' /\ KeptStays'
      BY DEF KInv, Tree, Ancestors, OpenFiles, Exists, KeptStays
    <2>4. Keeping'
      BY <2>2 DEF KInv, Keeping, Apart, Overlap
    <2> QED BY <2>1, <2>2, <2>3, <2>4 DEF KInv, TInv
  <1> QED BY <1>1, <1>2, <1>3, <1>4 DEF Next

LEMMA AlwaysKInv == Spec => []KInv
  BY InitKInv, NextKInv, PTL DEF Spec

\* Whatever the handlers of any number of workers do to any tree of paths, in
\* whatever order and wherever they crash: what exists is in a directory, and the
\* locals have their types.
THEOREM TypesAndParents == Spec => []TypeOK
  <1>1. KInv => TypeOK
    BY TreeIsTyped DEF KInv, Tree
  <1> QED BY <1>1, AlwaysKInv, PTL

\* Content stays whose push was acknowledged and undisturbed, as was every rename
\* of it since: until its path is pushed to, deleted or cleared, no request that
\* comes later, and none on other paths, takes it away, in whatever steps
\* optRename, mv and the walks of remove_path and clear_path overlap and wherever
\* they die. (Of a push that another request collides with it says nothing.)
THEOREM UndisturbedPushStays == Spec => []KeptStays
  <1>1. KInv => KeptStays
    BY DEF KInv
  <1> QED BY <1>1, AlwaysKInv, PTL

-----------------------------------------------------------------------------
(* What a request that nobody collided with can rely on.                   *)

Near(p, q) == IsPrefix(p, q) \/ IsPrefix(q, p)

\* No directory on the stack is above another one.
Pile(st) == \A i, j \in DOMAIN st : i # j => ~IsPrefix(st[i], st[j])

LEMMA PileStart == ASSUME NEW p \in Path PROVE Pile(<<p>>)
  BY DEF Pile

LEMMA PileEnd ==
  ASSUME NEW st \in Seq(Path), st # <<>>, Pile(st)
  PROVE  Pile(Front(st)) /\ \A s \in Range(Front(st)) : ~Near(s, Last(st))
  <1> DEFINE n == Len(st)
             f == Front(st)
  <1>1. n \in Nat /\ n >= 1 /\ \A i \in 1 .. n : st[i] \in Path
    BY EmptySeq, LenProperties, ElementOfSeq
  <1>2. f \in Seq(Path)
    BY StackEnd
  <1>3. Len(f) = n - 1 /\ \A i \in 1 .. n - 1 : f[i] = st[i]
    <2>1. f = SubSeq(st, 1, n - 1)
      BY DEF Front
    <2>2. /\ Len(SubSeq(st, 1, n - 1)) = IF 1 <= n - 1 THEN n - 1 - 1 + 1 ELSE 0
          /\ \A i \in 1 .. n - 1 - 1 + 1 : SubSeq(st, 1, n - 1)[i] = st[1 + i - 1]
      <3>1. \A i \in 1 .. n - 1 : st[i] \in Path
        BY <1>1
      <3> HIDE DEF n
      <3> QED BY <1>1, <3>1, SubSeqProperties
    <2> HIDE DEF f, n
    <2>3. \A i \in 1 .. n - 1 : i \in 1 .. n - 1 - 1 + 1 /\ 1 + i - 1 = i
      BY <1>1
    <2> QED BY <1>1, <2>1, <2>2, <2>3
  <1>4. DOMAIN st = 1 .. n /\ DOMAIN f = 1 .. n - 1 /\ Range(f) = {f[i] : i \in 1 .. n - 1}
    BY <1>2, <1>3, LenProperties, RangeEquality
  <1>5. Last(st) = st[n]
    BY DEF Last
  <1> HIDE DEF f, n
  <1>6. Pile(f)
    BY <1>1, <1>3, <1>4 DEF Pile
  <1>7. ASSUME NEW s \in Range(f) PROVE ~Near(s, st[n])
    <2>1. PICK i \in 1 .. n - 1 : s = st[i]
      BY <1>3, <1>4
    <2>2. i \in DOMAIN st /\ n \in DOMAIN st /\ i # n
      BY <1>1, <1>4
    <2> QED BY <2>1, <2>2 DEF Pile, Near
  <1> QED BY <1>5, <1>6, <1>7 DEF f

LEMMA PileGrown ==
  ASSUME NEW st \in Seq(Path), NEW p \in Path, Pile(st), \A s \in Range(st) : ~Near(s, p)
  PROVE  Pile(Append(st, p))
  <1> DEFINE a == Append(st, p)
             n == Len(st)
  <1>1. /\ n \in Nat /\ a \in Seq(Path) /\ Len(a) = n + 1 /\ a[n + 1] = p
        /\ \A i \in 1 .. n : a[i] = st[i]
    BY AppendProperties, LenProperties
  <1>2. DOMAIN st = 1 .. n /\ DOMAIN a = 1 .. n + 1 /\ Range(st) = {st[i] : i \in 1 .. n}
    BY <1>1, LenProperties, RangeEquality
  <1> HIDE DEF a, n
  <1>3. Pile(a)
    <2> SUFFICES ASSUME NEW i \in 1 .. n + 1, NEW j \in 1 .. n + 1, i # j
                 PROVE  ~IsPrefix(a[i], a[j])
      BY <1>2 DEF Pile
    <2>1. CASE i \in 1 .. n /\ j \in 1 .. n
      BY <1>1, <1>2, <2>1 DEF Pile
    <2>2. CASE i \in 1 .. n /\ j = n + 1
      BY <1>1, <1>2, <2>2 DEF Near
    <2>3. CASE i = n + 1 /\ j \in 1 .. n
      BY <1>1, <1>2, <2>3 DEF Near
    <2> QED BY <1>1, <2>1, <2>2, <2>3
  <1> QED BY <1>3 DEF a

\* The directories that clear_path and remove_path still have to go through,
\* and the entries of the one they are in.
Ahead(w) == Range(stack[w]) \cup todo[w]

\* Everything that is left below the path is ahead, at hand or put aside.
Covered(w, q) ==
  \/ op[w] = "clear" /\ q = path[w]
  \/ pc[w] \in InDir /\ q = cur[w]
  \/ pc[w] = "unlink" /\ q = aim[w]
  \/ q \in later[w]
  \/ \E r \in Ahead(w) : IsPrefix(r, q)

Covers(w) ==
  /\ \A q \in Under(path[w]) : Exists(q) => Covered(w, q)
  /\ op[w] = "clear" => node[path[w]] = "dir" /\ path[w] \notin later[w]
  /\ \A q \in Range(stack[w]) \cup later[w] : node[q] = "dir"
  /\ \A q \in todo[w] : Exists(q)
  /\ pc[w] = "unlink" => node[aim[w]] \in File

\* No part of the work is inside of another one, or above what is put aside.
Disjoint(w) ==
  /\ Pile(stack[w])
  /\ \A s \in Range(stack[w]), t \in todo[w] : ~Near(s, t)
  /\ \A r \in Ahead(w), l \in later[w] : ~IsPrefix(r, l)
  /\ pc[w] \notin InDir => todo[w] = {}
  /\ pc[w] = "rmdirs" => stack[w] = <<>>
  /\ pc[w] \in InDir =>
       /\ node[cur[w]] = "dir" /\ todo[w] \subseteq Children(cur[w])
       /\ \A s \in Range(stack[w]) : /\ ~IsPrefix(s, cur[w])
                                     /\ IsPrefix(cur[w], s) => hasSub[w]
       /\ \A l \in later[w] : ~IsPrefix(cur[w], l)
  /\ pc[w] = "unlink" => aim[w] \notin todo[w]

\* How far an undisturbed handler has come.
Walked(w) ==
  clean[w] =>
    /\ pc[w] = "remove" => Exists(path[w])
    /\ pc[w] = "erase" => node[path[w]] \in File
    /\ pc[w] \in Walking => Covers(w) /\ Disjoint(w)
    /\ pc[w] = "send" => /\ Exists(path[w])
                         /\ IF op[w] = "range" THEN Satisfiable(path[w])
                            ELSE seen[w] = node[path[w]]

\* What its answer means.
Says(w) ==
  pc[w] = "reply" /\ clean[w] =>
    /\ op[w] \in {"delete", "clear"} =>
         code[w] # "10001" /\ \A q \in Under(path[w]) \ {path[w]} : node[q] = "absent"
    /\ op[w] = "delete" => node[path[w]] = "absent"
    /\ op[w] = "clear" => node[path[w]] # "full"
    /\ op[w] = "create" /\ code[w] = "0" => node[path[w]] = "empty"
    /\ op[w] = "mkdir" /\ code[w] = "0" => node[path[w]] = "dir"
    /\ op[w] = "push" /\ code[w] = "0" => node[path[w]] = "full"
    /\ op[w] = "rename" /\ code[w] = "0" => node[path[w]] = "absent" /\ node[dst[w]] # "absent"
    /\ op[w] \in {"pull", "range"} => code[w] # "0"
    /\ op[w] \in {"pull", "range"} /\ node[path[w]] # "dir" =>
         /\ code[w] \notin {"cut", "500"}
         /\ node[path[w]] = "full" => code[w] \in {"200", "206"}

UInv == KInv /\ \A w \in Worker : Walked(w) /\ Says(w)

LEMMA SaysIt == KInv /\ (\A w \in Worker : Says(w)) => UndisturbedDoWhatTheySay
  <1> SUFFICES ASSUME KInv, \A w \in Worker : Says(w), NEW w \in Worker,
                      pc[w] = "reply", clean[w]
               PROVE
    /\ op[w] \in {"delete", "clear"} =>
         code[w] # "10001" /\ \A q \in Under(path[w]) \ {path[w]} : ~Exists(q)
    /\ code[w] = "0" =>
         CASE op[w] = "delete" -> ~Exists(path[w])
           [] op[w] = "clear" -> node[path[w]] # "full"
           [] op[w] = "create" -> node[path[w]] = "empty"
           [] op[w] = "mkdir" -> node[path[w]] = "dir"
           [] op[w] = "push" -> node[path[w]] = "full"
           [] op[w] = "rename" -> ~Exists(path[w]) /\ Exists(dst[w])
    /\ op[w] \in {"pull", "range"} /\ node[path[w]] # "dir" =>
         /\ code[w] \notin {"cut", "500"}
         /\ path[w] \in kept => code[w] \in {"200", "206"}
    BY DEF UndisturbedDoWhatTheySay
  <1>1. path[w] \in kept => node[path[w]] = "full"
    BY DEF KInv, KeptStays
  <1>2. Says(w)
    OBVIOUS
  <1>3. op[w] \in Op
    BY DEF KInv, TInv, Control
  <1>4. CASE op[w] \in {"delete", "clear"}
    BY <1>2, <1>4 DEF Says, Exists
  <1>5. CASE op[w] \in {"create", "mkdir", "push"}
    BY <1>2, <1>5 DEF Says
  <1>6. CASE op[w] = "rename"
    BY <1>2, <1>6 DEF Says, Exists
  <1>7. CASE op[w] \in {"pull", "range"}
    BY <1>1, <1>2, <1>7 DEF Says
  <1> QED BY <1>3, <1>4, <1>5, <1>6, <1>7 DEF Op

\* A step of another handler that does not come near the paths of an undisturbed
\* one leaves all of this as it is.
LEMMA StaysTrue ==
  ASSUME TInv, NEW v \in Worker, Walked(v), Says(v),
         UNCHANGED <<pc[v], op[v], path[v], dst[v], code[v], seen[v]>>,
         UNCHANGED <<stack[v], cur[v], todo[v], hasSub[v], later[v], aim[v]>>,
         clean'[v] => clean[v],
         clean'[v] => \A r \in {path[v], dst[v]} \ {NoPath} : \A q \in Path :
                        IsPrefix(r, q) => node'[q] = node[q]
  PROVE  Walked(v)' /\ Says(v)'
  <1> SUFFICES ASSUME clean'[v], pc[v] # "idle" PROVE Walked(v)' /\ Says(v)'
    BY DEF Walked, Says, Walking, InDir
  <1>1. /\ path[v] \in Path /\ path[v] \in Under(path[v]) /\ Under(path[v]) \subseteq Path
        /\ path[v] # NoPath
    BY PathUnderItself, NoPathIsNone
  <1>2. clean[v] /\ \A q \in Under(path[v]) : node'[q] = node[q]
    BY <1>1 DEF Under
  <1>3. ASSUME dst[v] # NoPath PROVE node'[dst[v]] = node[dst[v]]
    BY <1>3, PathsAreSequences, PrefixOrder DEF TInv, Typing
  <1>4. Says(v)'
    <2>1. op[v] = "rename" => dst[v] # NoPath
      BY DEF TInv, Control
    <2>2. (Under(path[v]))' = Under(path[v])
      BY DEF Under
    <2>3. /\ node'[path[v]] = node[path[v]]
          /\ op[v] = "rename" => node'[dst[v]] = node[dst[v]]
      BY <1>1, <1>2, <1>3, <2>1
    <2>4. Says(v)
      OBVIOUS
    <2> QED BY <1>2, <2>2, <2>3, <2>4 DEF Says
  <1>5. Walked(v)'
    <2>1. CASE pc[v] \in Walking
      <3>1. /\ Range(stack[v]) \subseteq Under(path[v]) /\ todo[v] \subseteq Under(path[v])
            /\ later[v] \subseteq Under(path[v])
            /\ pc[v] \in InDir => cur[v] \in Under(path[v])
            /\ pc[v] = "unlink" => aim[v] \in Under(path[v])
        BY <2>1 DEF TInv, Walk
      <3>2. Covers(v) /\ Disjoint(v)
        BY <1>2, <2>1 DEF Walked
      <3>3. Covers(v)'
        <4>1. \A q \in Under(path[v]) : Covered(v, q)' <=> Covered(v, q)
          BY DEF Covered, Ahead
        <4>2. (Under(path[v]))' = Under(path[v])
          BY DEF Under
        <4> QED BY <1>1, <1>2, <3>1, <3>2, <4>1, <4>2 DEF Covers, Exists
      <3>4. Disjoint(v)'
        BY <1>2, <3>1, <3>2 DEF Disjoint, Ahead, Children
      <3> QED BY <2>1, <3>3, <3>4 DEF Walked, Walking, InDir
    <2>2. CASE pc[v] \notin Walking
      BY <1>1, <1>2, <2>2 DEF Walked, Walking, InDir, Exists, Satisfiable
    <2> QED BY <2>1, <2>2
  <1> QED BY <1>4, <1>5

LEMMA FrameStays ==
  ASSUME KInv, NEW w \in Worker, Framed(w), NEW v \in Worker \ {w}, Walked(v), Says(v),
         UNCHANGED <<seen[v], stack[v], cur[v], todo[v], hasSub[v], later[v], aim[v]>>
  PROVE  Walked(v)' /\ Says(v)'
  <1>1. UNCHANGED <<pc[v], op[v], path[v], dst[v], code[v], clean[v]>>
    BY DEF Framed
  <1>2. ASSUME clean[v], NEW r \in {path[v], dst[v]} \ {NoPath}, NEW q \in Path, IsPrefix(r, q)
        PROVE  node'[q] = node[q]
    <2>1. r \in Refers(v)
      BY DEF Refers
    <2>2. ~Touches(w, q)
      BY <1>2, <2>1, CleanUntouched DEF KInv, Keeping
    <2> QED BY <2>2 DEF Framed
  <1> QED BY <1>1, <1>2, StaysTrue DEF KInv

\* A handler that is over, and one that begins, change nothing in the tree.
LEMMA QuietStays ==
  ASSUME KInv, NEW w \in Worker, Forget(w) \/ Request(w),
         NEW v \in Worker \ {w}, Walked(v), Says(v)
  PROVE  Walked(v)' /\ Says(v)'
  <1>1. CASE Forget(w)
    <2>1. /\ UNCHANGED <<pc[v], op[v], path[v], dst[v], code[v], clean[v], node>>
          /\ UNCHANGED <<seen[v], stack[v], cur[v], todo[v], hasSub[v], later[v], aim[v]>>
      BY <1>1 DEF Forget, Goto, KInv, TInv, Typing
    <2> QED BY <2>1, StaysTrue DEF KInv
  <1>2. CASE Request(w)
    <2>1. PICK o \in Op, p \in Path, d \in Path \cup {NoPath} : Start(w, o, p, d)
      BY <1>2 DEF Request, Op
    <2>2. /\ UNCHANGED <<pc[v], op[v], path[v], dst[v], code[v], node>>
          /\ UNCHANGED <<seen[v], stack[v], cur[v], todo[v], hasSub[v], later[v], aim[v]>>
          /\ clean'[v] => clean[v]
      BY <2>1 DEF Start, Goto, disk, locals, KInv, TInv, Typing
    <2> QED BY <2>2, StaysTrue DEF KInv
  <1> QED BY <1>1, <1>2

LEMMA QuietSelf ==
  ASSUME KInv, NEW w \in Worker, Forget(w) \/ Request(w)
  PROVE  Walked(w)' /\ Says(w)'
  <1>1. pc'[w] \in {"idle", "look", "change"}
    <2>1. pc = [v \in Worker |-> pc[v]]
      BY DEF KInv, TInv, Typing
    <2>2. CASE Forget(w)
      BY <2>1, <2>2 DEF Forget, Goto
    <2>3. CASE Request(w)
      BY <2>1, <2>3 DEF Request, Start, Goto
    <2> QED BY <2>2, <2>3
  <1> QED BY <1>1 DEF Walked, Says, Walking, InDir

LEMMA SmallStays ==
  ASSUME KInv, NEW w \in Worker, Small(w), NEW v \in Worker \ {w}, Walked(v), Says(v)
  PROVE  Walked(v)' /\ Says(v)'
  <1>1. UNCHANGED <<seen[v], stack[v], cur[v], todo[v], hasSub[v], later[v], aim[v]>>
    <2>1. /\ stack \in [Worker -> Seq(Path)] /\ cur \in [Worker -> Path \cup {NoPath}]
          /\ todo \in [Worker -> SUBSET Path] /\ hasSub \in [Worker -> BOOLEAN]
          /\ later \in [Worker -> SUBSET Path] /\ seen \in [Worker -> {"none", "dir"} \cup File]
          /\ aim \in [Worker -> Path \cup {NoPath}]
      BY DEF KInv, TInv, Typing
    <2> QED BY <2>1, SmallLocals DEF KInv
  <1>2. Framed(w)
    BY SmallFramed
  <1> QED BY <1>1, <1>2, FrameStays

-----------------------------------------------------------------------------
(* The steps of the undisturbed handler itself.                            *)

LEMMA RenameDoes ==
  ASSUME KInv, NEW w \in Worker, Renames(w)
  PROVE  Walked(w)' /\ Says(w)'
  <1>1. /\ op[w] = "rename" /\ path[w] \in Path /\ dst[w] \in Path
        /\ UNCHANGED <<op, path, dst>>
    BY RenameMoves DEF request
  <1>2. pc = [v \in Worker |-> pc[v]] /\ code = [v \in Worker |-> code[v]]
    BY DEF KInv, TInv, Typing
  <1>3. CASE Answer(w, "10001") \/ Continue(w, "mv") \/ Continue(w, "copy")
    BY <1>1, <1>2, <1>3 DEF Answer, Continue, Goto, Walked, Says, Walking, InDir
  <1>4. ASSUME NEW d \in Path, IsPrefix(dst[w], d), CanRename(path[w], d),
               Fits(path[w], d), Move(w, path[w], d), Answer(w, "0")
        PROVE  Walked(w)' /\ Says(w)'
    <2> DEFINE m == Moved(path[w], d, path[w])
    <2>1. /\ path[w] \in AnyPath /\ d \in AnyPath /\ dst[w] \in AnyPath
          /\ IsPrefix(path[w], path[w]) /\ Exists(path[w])
      BY <1>1, <1>4, PathsAreSequences, PrefixOrder DEF CanRename
    <2>2. m \in Path /\ node'[m] = node[path[w]] /\ node'[path[w]] = "absent"
      BY <1>1, <1>4, <2>1, MoveNodes
    <2>3. IsPrefix(d, m)
      BY <2>1, MovedPath
    <2> HIDE DEF m
    <2>4. IsPrefix(dst[w], m)
      BY <1>4, <2>1, <2>2, <2>3, PathsAreSequences, PrefixOrder
    <2>5. Ancestors' /\ node'[m] # "absent"
      BY <2>1, <2>2, RenameFramed DEF Tree, Exists
    <2>6. node'[dst[w]] # "absent"
      BY <1>1, <2>2, <2>4, <2>5 DEF Ancestors, IsStrictPrefix, Exists
    <2>7. pc'[w] = "reply"
      BY <1>2, <1>4 DEF Answer, Goto
    <2> QED BY <1>1, <2>2, <2>6, <2>7 DEF Walked, Says, Walking, InDir
  <1> QED BY <1>3, <1>4, RenameMoves

LEMMA CarryDoes ==
  ASSUME KInv, NEW w \in Worker, Carries(w)
  PROVE  Walked(w)' /\ Says(w)'
  <1>1. /\ op[w] = "rename" /\ path[w] \in Path /\ dst[w] \in Path /\ aim[w] \in Path
        /\ IsPrefix(dst[w], aim[w]) /\ UNCHANGED <<op, path, dst, clean>>
    BY CarryMoves DEF request
  <1>2. pc = [v \in Worker |-> pc[v]] /\ code = [v \in Worker |-> code[v]]
    BY DEF KInv, TInv, Typing
  <1>3. CASE Answer(w, "10001") \/ Continue(w, "drop")
    BY <1>1, <1>2, <1>3 DEF Answer, Continue, Goto, Walked, Says, Walking, InDir
  <1>4. CASE MvDrop(w) /\ Exists(path[w]) /\ Answer(w, "0")
    <2>1. node'[path[w]] = "absent" /\ Ancestors'
      BY <1>1, <1>4, DropDisk, PathsAreSequences, PrefixOrder
    <2>2. ASSUME clean[w] PROVE node'[dst[w]] # "absent"
      <3> DEFINE m == Moved(path[w], aim[w], path[w])
      <3>1. m \in Path /\ IsPrefix(aim[w], m) /\ node'[m] # "absent"
        BY <1>4, <2>2, DropDisk
      <3> HIDE DEF m
      <3>2. IsPrefix(dst[w], m)
        BY <1>1, <3>1, PathsAreSequences, PrefixOrder
      <3> QED BY <1>1, <2>1, <3>1, <3>2 DEF Ancestors, IsStrictPrefix, Exists
    <2>3. pc'[w] = "reply"
      BY <1>2, <1>4 DEF Answer, Goto
    <2> QED BY <1>1, <2>1, <2>2, <2>3 DEF Walked, Says, Walking, InDir
  <1> QED BY <1>3, <1>4 DEF Carries, MvCopy, MvDrop

LEMMA RenameStays ==
  ASSUME KInv, NEW w \in Worker, Renames(w) \/ Carries(w), NEW v \in Worker \ {w},
         Walked(v), Says(v)
  PROVE  Walked(v)' /\ Says(v)'
  <1>1. UNCHANGED <<seen[v], stack[v], cur[v], todo[v], hasSub[v], later[v], aim[v]>>
    BY RenameMoves, CarryMoves DEF request, locals
  <1>2. Framed(w)
    BY RenameFramed, CarryFramed
  <1> QED BY <1>1, <1>2, FrameStays

\* Below what does not exist, or is a file, there is nothing.
LEMMA NothingBelow ==
  ASSUME Ancestors, NEW p \in Path, node[p] # "dir"
  PROVE  \A q \in Under(p) \ {p} : node[q] = "absent"
  BY DEF Ancestors, Under, IsStrictPrefix, Exists

LEMMA StoreDoes ==
  ASSUME KInv, NEW w \in Worker,
         \/ LookCreate(w) \/ Mkdir(w) \/ OpenFile(w) \/ Write(w) \/ LookSrc(w) \/ LookDst(w)
         \/ Mv(w)
  PROVE  Walked(w)' /\ Says(w)'
  <1>1. /\ pc = [v \in Worker |-> pc[v]] /\ code = [v \in Worker |-> code[v]]
        /\ node \in [Path -> {"absent", "dir"} \cup File]
    BY DEF KInv, TInv, Typing
  <1>0. Small(w)
    <2>1. ~Renames(w) /\ ~Carries(w) /\ ~Reply(w)
      <3>1. Control(w)
        BY DEF KInv, TInv
      <3> QED
        BY <3>1 DEF LookCreate, Mkdir, OpenFile, Write, LookSrc, LookDst, Mv, Renames, Rename,
                    MvRename, Carries, MvCopy, MvDrop, Reply, Control
    <2> QED BY <2>1 DEF Small, Handler
  <1>2. UNCHANGED <<op, path, dst>> /\ path[w] \in Path
    BY <1>0, SmallFramed DEF KInv, TInv, Control
  <1>3. op[w] \notin {"delete", "clear", "pull", "range"}
    <2>1. Control(w)
      BY DEF KInv, TInv
    <2> QED BY <2>1 DEF LookCreate, Mkdir, OpenFile, Write, LookSrc, LookDst, Mv, Control
  <1>4. pc'[w] \in {"lookdst", "change", "write", "mvto", "reply"}
    BY <1>1 DEF LookCreate, Mkdir, OpenFile, Write, LookSrc, LookDst, Mv, Answer, Continue, Goto
  <1>5. Walked(w)'
    BY <1>4 DEF Walked, Walking, InDir
  <1>6. SUFFICES ASSUME pc'[w] = "reply", clean'[w], code'[w] = "0"
                 PROVE  /\ op[w] = "create" => node'[path[w]] = "empty"
                        /\ op[w] = "mkdir" => node'[path[w]] = "dir"
                        /\ op[w] = "push" => node'[path[w]] = "full"
                        /\ op[w] # "rename"
    BY <1>2, <1>3, <1>5 DEF Says
  <1>7. op[w] = "push" => node'[path[w]] = "full"
    <2>1. Small(w)
      BY <1>0
    <2>2. Pushed(w)'
      BY <2>1, PushOn
    <2> QED BY <1>2, <1>6, <2>2 DEF Pushed
  <1>8. CASE LookCreate(w) \/ LookSrc(w) \/ LookDst(w) \/ Mv(w)
    BY <1>1, <1>6, <1>8 DEF LookCreate, LookSrc, LookDst, Mv, Answer, Continue, Goto
  <1>9. CASE Mkdir(w)
    BY <1>1, <1>2, <1>6, <1>9 DEF Mkdir, Put, Answer, Goto
  <1>10. CASE OpenFile(w)
    BY <1>1, <1>2, <1>6, <1>7, <1>10 DEF OpenFile, Answer, Continue, Goto
  <1>11. CASE Write(w)
    BY <1>7, <1>11 DEF Write, KInv, TInv, Control
  <1> QED BY <1>8, <1>9, <1>10, <1>11

LEMMA PullDoes ==
  ASSUME KInv, NEW w \in Worker, Walked(w), PullSize(w) \/ PullSend(w)
  PROVE  Walked(w)' /\ Says(w)'
  <1>1. /\ pc = [v \in Worker |-> pc[v]] /\ code = [v \in Worker |-> code[v]]
        /\ seen = [v \in Worker |-> seen[v]]
        /\ node \in [Path -> {"absent", "dir"} \cup File]
    BY DEF KInv, TInv, Typing
  <1>2. /\ UNCHANGED <<op, path, node, clean>> /\ path[w] \in Path
        /\ op[w] \in {"pull", "range"} /\ node[path[w]] \in {"absent", "dir", "empty", "full"}
    BY <1>1 DEF PullSize, PullSend, request, disk, KInv, TInv, Control, File
  <1>3. CASE PullSize(w)
    <2>1. CASE ~Exists(path[w])
      BY <1>1, <1>2, <1>3, <2>1 DEF PullSize, Exists, Answer, Goto, Walked, Says, Walking, InDir
    <2>2. CASE Exists(path[w]) /\ op[w] = "range" /\ ~Satisfiable(path[w])
      <3>1. pc'[w] = "reply" /\ code'[w] = "416"
        BY <1>1, <1>3, <2>2 DEF PullSize, Answer, Goto
      <3>2. node[path[w]] = "empty"
        BY <2>2 DEF Satisfiable
      <3> QED BY <1>2, <3>1, <3>2 DEF Walked, Says, Walking, InDir
    <2>3. CASE Exists(path[w]) /\ ~(op[w] = "range" /\ ~Satisfiable(path[w]))
      <3>1. pc'[w] = "send" /\ seen'[w] = node[path[w]]
        BY <1>1, <1>3, <2>3 DEF PullSize, Continue, Goto
      <3>2. Exists(path[w])' /\ (op[w] = "range" => Satisfiable(path[w])')
        BY <1>2, <2>3 DEF Exists, Satisfiable
      <3> QED BY <1>2, <3>1, <3>2 DEF Walked, Says, Walking, InDir
    <2> QED BY <2>1, <2>2, <2>3
  <1>4. CASE PullSend(w)
    <2>1. /\ pc[w] = "send" /\ pc'[w] = "reply"
          /\ code'[w] = IF op[w] = "range" THEN SendFilePart(path[w])
                        ELSE SendWhole(path[w], seen[w])
      BY <1>1, <1>4 DEF PullSend, Answer, Goto
    <2>2. clean[w] => /\ Exists(path[w])
                      /\ IF op[w] = "range" THEN Satisfiable(path[w])
                         ELSE seen[w] = node[path[w]]
      BY <2>1 DEF Walked
    <2>3. code'[w] \in {"404", "206", "500", "200", "cut"}
      BY <2>1 DEF SendFilePart, SendWhole
    <2>4. ASSUME clean[w], node[path[w]] # "dir" PROVE code'[w] \in {"200", "206"}
      <3>1. node[path[w]] \in File
        BY <1>2, <2>2, <2>4 DEF Exists, File
      <3>2. CASE op[w] = "range"
        <4>1. node[path[w]] = "full"
          BY <2>2, <2>4, <3>1, <3>2 DEF Satisfiable, File
        <4> QED BY <2>1, <3>2, <4>1 DEF SendFilePart, Exists
      <3>3. CASE op[w] # "range"
        BY <2>1, <2>2, <2>4, <3>1, <3>3 DEF SendWhole
      <3> QED BY <3>2, <3>3
    <2> QED BY <1>2, <2>1, <2>3, <2>4 DEF Walked, Says, Walking, InDir
  <1> QED BY <1>3, <1>4

LEMMA RemovalBegins ==
  ASSUME KInv, NEW w \in Worker, Walked(w), LookRemoval(w) \/ RemovePath(w) \/ EraseFile(w)
  PROVE  Walked(w)' /\ Says(w)'
  <1>1. /\ pc = [v \in Worker |-> pc[v]] /\ code = [v \in Worker |-> code[v]]
        /\ stack = [v \in Worker |-> stack[v]]
        /\ node \in [Path -> {"absent", "dir"} \cup File]
    BY DEF KInv, TInv, Typing
  <1>2. /\ UNCHANGED <<op, path, clean>> /\ path[w] \in Path
        /\ op[w] \in {"delete", "clear"} /\ path[w] \in Under(path[w])
        /\ Under(path[w]) \subseteq Path /\ (Under(path[w]))' = Under(path[w])
    BY PathUnderItself DEF LookRemoval, RemovePath, EraseFile, request, KInv, TInv, Control, Under
  <1>3. node[path[w]] # "dir" => \A q \in Under(path[w]) \ {path[w]} : node[q] = "absent"
    BY <1>2, NothingBelow DEF KInv, Tree
  <1>4. CASE LookRemoval(w)
    <2>1. CASE Exists(path[w])
      <3>1. pc'[w] = "remove" /\ UNCHANGED node
        BY <1>1, <1>4, <2>1 DEF LookRemoval, Continue, Goto, disk
      <3> QED BY <1>2, <2>1, <3>1 DEF Walked, Says, Walking, InDir, Exists
    <2>2. CASE ~Exists(path[w])
      <3>1. pc'[w] = "reply" /\ code'[w] = "0" /\ UNCHANGED node
        BY <1>1, <1>4, <2>2 DEF LookRemoval, Answer, Goto, disk
      <3>2. node[path[w]] = "absent"
        BY <2>2 DEF Exists
      <3> QED BY <1>2, <1>3, <3>1, <3>2 DEF Walked, Says, Walking, InDir
    <2> QED BY <2>1, <2>2
  <1>5. CASE (RemovePath(w) \/ EraseFile(w)) /\ ~clean[w]
    BY <1>2, <1>5 DEF Walked, Says
  <1>6. CASE RemovePath(w) /\ clean[w] /\ node[path[w]] \in File
    <2>1. pc'[w] = "erase" /\ UNCHANGED node
      BY <1>1, <1>6 DEF RemovePath, Continue, Goto, Exists, File, disk
    <2> QED BY <1>2, <1>6, <2>1 DEF Walked, Says, Walking, InDir
  <1>8. CASE EraseFile(w) /\ clean[w]
    <2>1. pc[w] = "erase" /\ node[path[w]] \in File
      BY <1>8 DEF EraseFile, Walked
    <2>2. HasParent(path[w]) /\ node[path[w]] # "dir" /\ Exists(path[w])
      BY <1>2, <2>1, FrontOfPath DEF HasParent, KInv, Tree, Ancestors, Exists, File
    <2>3. /\ op[w] = "delete" => Unlink(path[w])
          /\ op[w] = "clear" => Put(path[w], "empty")
          /\ Answer(w, "0")
      BY <1>2, <1>8, <2>1, <2>2 DEF EraseFile, CanOsRemove, OsRemove, CanOpen
    <2>4. pc'[w] = "reply" /\ code'[w] = "0"
      BY <1>1, <2>3 DEF Answer, Goto
    <2>5. /\ op[w] = "delete" => node' = [node EXCEPT ![path[w]] = "absent"]
          /\ op[w] = "clear" => node' = [node EXCEPT ![path[w]] = "empty"]
      BY <2>3 DEF Unlink, Put
    <2>6. \A q \in Under(path[w]) \ {path[w]} : node'[q] = "absent"
      BY <1>1, <1>2, <1>3, <2>1, <2>5 DEF File
    <2> QED BY <1>1, <1>2, <2>4, <2>5, <2>6 DEF Walked, Says, Walking, InDir
  <1>7. CASE RemovePath(w) /\ clean[w] /\ node[path[w]] \notin File
    <2>1. pc[w] = "remove" /\ Exists(path[w])
      BY <1>7 DEF RemovePath, Walked
    <2>2. node[path[w]] = "dir"
      BY <1>1, <1>2, <1>7, <2>1 DEF Exists
    <2>3. /\ pc'[w] = "open" /\ stack'[w] = <<path[w]>> /\ UNCHANGED node
          /\ todo'[w] = {} /\ later'[w] = {}
      <3>1. todo[w] = {} /\ later[w] = {}
        BY <2>1 DEF KInv, TInv, Walk, Walking, InDir
      <3>2. UNCHANGED <<todo, later>>
        BY <1>7 DEF RemovePath
      <3>3. RemovePath(w) /\ Exists(path[w]) /\ node[path[w]] \notin File
        BY <1>7, <2>1
      <3>4. stack' = [stack EXCEPT ![w] = <<path[w]>>] /\ Continue(w, "open") /\ UNCHANGED disk
        BY <3>3 DEF RemovePath
      <3> QED BY <1>1, <3>1, <3>2, <3>4 DEF Continue, Goto, disk
    <2>4. Range(stack'[w]) = {path[w]} /\ Pile(stack'[w])
      BY <1>2, <2>3, PileStart, StackStart
    <2>5. Covers(w)'
      <3>1. \A q \in Under(path[w]) : Covered(w, q)'
        BY <1>2, <2>3, <2>4 DEF Covered, Ahead, Under
      <3> QED BY <1>2, <2>2, <2>3, <2>4, <3>1 DEF Covers, Exists
    <2>6. Disjoint(w)'
      BY <2>3, <2>4 DEF Disjoint, Ahead, InDir
    <2> QED BY <2>3, <2>5, <2>6 DEF Walked, Says, Walking, InDir
  <1> QED BY <1>4, <1>5, <1>6, <1>7, <1>8

LEMMA WalkFacts ==
  ASSUME KInv, NEW w \in Worker, clean[w], Walked(w), pc[w] \in Walking
  PROVE  /\ path[w] \in Path /\ Under(path[w]) \subseteq Path /\ path[w] \in Under(path[w])
         /\ op[w] \in {"delete", "clear"} /\ stack[w] \in Seq(Path)
         /\ Range(stack[w]) \subseteq Under(path[w]) /\ todo[w] \subseteq Under(path[w])
         /\ later[w] \subseteq Under(path[w])
         /\ pc[w] \in InDir => cur[w] \in Under(path[w])
         /\ pc[w] = "unlink" => aim[w] \in Under(path[w])
         /\ Covers(w) /\ Disjoint(w)
  <1>1. Control(w) /\ Walk(w) /\ pc[w] # "idle" /\ stack[w] \in Seq(Path)
    BY DEF KInv, TInv, Typing, Walking, InDir
  <1>2. path[w] \in Path /\ Under(path[w]) \subseteq Path /\ path[w] \in Under(path[w])
    BY <1>1, PathUnderItself DEF KInv
  <1>3. Covers(w) /\ Disjoint(w)
    BY DEF Walked
  <1> QED BY <1>1, <1>2, <1>3 DEF Control, Walk

\* Two entries of a directory are not inside of each other.
LEMMA EntriesApart ==
  ASSUME NEW p \in Path, NEW q \in Children(p), NEW r \in Children(p), q # r
  PROVE  ~Near(q, r)
  <1>1. /\ q \in AnyPath /\ r \in AnyPath /\ Len(q) \in Nat /\ Len(q) = Len(r)
    BY PathsAreSequences DEF Children
  <1> QED BY <1>1, PrefixByName, SeqEqual DEF Near, AnyPath

\* What is below a directory and not near it in the tree is not near its entries.
LEMMA ApartFromEntries ==
  ASSUME NEW p \in Path, NEW q \in Children(p), NEW s \in Path, ~Near(s, p)
  PROVE  ~Near(s, q)
  <1>1. IsPrefix(p, q) /\ q \in AnyPath /\ p \in AnyPath /\ s \in AnyPath
    BY PathsAreSequences DEF Children
  <1> QED BY <1>1, PrefixOrder DEF Near

LEMMA OpenDirDoes ==
  ASSUME KInv, NEW w \in Worker, clean[w], Walked(w), OpenDir(w)
  PROVE  Walked(w)' /\ Says(w)'
  <1> DEFINE top == Last(stack[w])
             W == Under(path[w])
  <1>1. pc[w] = "open" /\ stack[w] # <<>> /\ UNCHANGED <<op, path, clean, node, later>>
    BY DEF OpenDir, request, disk
  <1>2. /\ path[w] \in Path /\ W \subseteq Path /\ stack[w] \in Seq(Path)
        /\ Range(stack[w]) \subseteq W /\ later[w] \subseteq W /\ Covers(w) /\ Disjoint(w)
    BY <1>1, WalkFacts DEF Walking, InDir
  <1>3. /\ top \in Path /\ Front(stack[w]) \in Seq(Path)
        /\ Range(stack[w]) = Range(Front(stack[w])) \cup {top}
    BY <1>1, <1>2, StackEnd
  <1>4. Pile(Front(stack[w])) /\ \A s \in Range(Front(stack[w])) : ~Near(s, top)
    BY <1>1, <1>2, PileEnd DEF Disjoint, InDir
  <1>5. node[top] = "dir" /\ todo[w] = {}
    BY <1>1, <1>2, <1>3 DEF Covers, Disjoint, InDir
  <1>6. W' = W
    BY <1>1 DEF Under
  <1>7. /\ stack'[w] = Front(stack[w]) /\ cur'[w] = top /\ pc'[w] = "entry"
        /\ todo'[w] = {q \in Children(top) : Exists(q)}
    BY <1>5 DEF OpenDir, Continue, Goto, KInv, TInv, Typing
  <1> DEFINE T == {q \in Children(top) : Exists(q)}
             F == Range(Front(stack[w]))
  <1>8. T \subseteq Path /\ \A t \in T : t \in Children(top) /\ IsStrictPrefix(top, t)
    BY <1>3, ChildIsBelow
  <1>9. F \subseteq Path
    BY <1>2, <1>3
  <1> HIDE DEF W
  <1> HIDE DEF top
  <1>10. Covers(w)'
    <2>1. ASSUME NEW q \in W, Exists(q)
          PROVE  Covered(w, q)'
      <3>1. Covered(w, q)
        BY <1>2, <2>1 DEF Covers, W
      <3>2. ASSUME IsPrefix(top, q), q # top
            PROVE  \E r \in T : IsPrefix(r, q)
        <4>1. q \in Path /\ IsStrictPrefix(top, q)
          BY <1>2, <3>2 DEF IsStrictPrefix
        <4>2. PICK r \in Children(top) : IsPrefix(r, q)
          BY <1>3, <4>1, ChildAbove
        <4>3. r \in Path
          BY DEF Children
        <4>4. Exists(r)
          BY <2>1, <4>1, <4>2, <4>3 DEF KInv, Tree, Ancestors, IsStrictPrefix, Exists
        <4> QED BY <4>2, <4>4
      <3>3. \/ op[w] = "clear" /\ q = path[w]
            \/ q = top
            \/ q \in later[w]
            \/ \E r \in F \cup T : IsPrefix(r, q)
        BY <1>1, <1>3, <1>5, <3>1, <3>2 DEF Covered, Ahead, InDir
      <3> QED BY <1>1, <1>7, <3>3 DEF Covered, Ahead, InDir
    <2>2. op[w] = "clear" => node[path[w]] = "dir" /\ path[w] \notin later[w]
      BY <1>2 DEF Covers
    <2>3. \A q \in F \cup later[w] : node[q] = "dir"
      BY <1>2, <1>3 DEF Covers
    <2> QED BY <1>1, <1>6, <1>7, <2>1, <2>2, <2>3 DEF Covers, Exists, W, InDir
  <1>11. Disjoint(w)'
    <2>1. \A s \in F, t \in T : ~Near(s, t)
      BY <1>3, <1>4, <1>8, <1>9, ApartFromEntries
    <2>2. \A r \in F \cup {top}, l \in later[w] : ~IsPrefix(r, l)
      BY <1>2, <1>3 DEF Disjoint, Ahead, InDir
    <2>3. ASSUME NEW t \in T, NEW l \in later[w], IsPrefix(t, l)
          PROVE  FALSE
      <3>1. /\ l \in AnyPath /\ t \in AnyPath /\ top \in AnyPath /\ IsPrefix(top, t)
        BY <1>2, <1>3, <1>8, PathsAreSequences DEF IsStrictPrefix
      <3>2. IsPrefix(top, l)
        BY <2>3, <3>1, PrefixOrder
      <3> QED BY <2>2, <3>2
    <2>4. \A s \in F : ~IsPrefix(s, top) /\ ~IsPrefix(top, s)
      BY <1>4 DEF Near
    <2>5. T \subseteq Children(top)
      BY <1>8
    <2>6. (Children(cur[w]))' = Children(top)
      BY <1>7 DEF Children
    <2>7. Range(stack'[w]) = F /\ todo'[w] = T /\ Pile(stack'[w])
      BY <1>4, <1>7
    <2> HIDE DEF F, T
    <2>8. Pile(stack[w])' /\ (Ahead(w))' = F \cup T
      BY <2>7 DEF Ahead, Pile
    <2> QED BY <1>1, <1>5, <1>7, <2>1, <2>2, <2>3, <2>4, <2>5, <2>6, <2>7, <2>8 DEF Disjoint, InDir
  <1> QED BY <1>7, <1>10, <1>11 DEF Walked, Says, Walking, InDir

LEMMA EntryDoes ==
  ASSUME KInv, NEW w \in Worker, clean[w], Walked(w), Entry(w)
  PROVE  Walked(w)' /\ Says(w)'
  <1> DEFINE W == Under(path[w])
             S == Range(stack[w])
             top == cur[w]
  <1>1. pc[w] = "entry" /\ UNCHANGED <<op, path, clean, cur, later, node>>
    BY DEF Entry, request, disk
  <1>2. /\ path[w] \in Path /\ W \subseteq Path /\ stack[w] \in Seq(Path)
        /\ S \subseteq W /\ todo[w] \subseteq W /\ later[w] \subseteq W
        /\ top \in Path /\ Covers(w) /\ Disjoint(w)
    BY <1>1, WalkFacts DEF Walking, InDir
  <1>3. PICK q \in todo[w] :
          /\ todo' = [todo EXCEPT ![w] = @ \ {q}]
          /\ \/ ~Exists(q) /\ Answer(w, "10001") /\ UNCHANGED <<stack, hasSub, aim>>
             \/ /\ node[q] = "dir"
                /\ stack' = [stack EXCEPT ![w] = Append(@, q)]
                /\ hasSub' = [hasSub EXCEPT ![w] = TRUE]
                /\ Continue(w, "entry") /\ UNCHANGED aim
             \/ /\ node[q] \in File
                /\ aim' = [aim EXCEPT ![w] = q]
                /\ Continue(w, "unlink") /\ UNCHANGED <<stack, hasSub>>
    BY DEF Entry
  <1>4. /\ pc = [v \in Worker |-> pc[v]] /\ stack = [v \in Worker |-> stack[v]]
        /\ todo = [v \in Worker |-> todo[v]] /\ hasSub = [v \in Worker |-> hasSub[v]]
        /\ node \in [Path -> {"absent", "dir"} \cup File] /\ aim = [v \in Worker |-> aim[v]]
    BY DEF KInv, TInv, Typing
  <1>5. Exists(q) /\ q \in Path /\ q \in Children(top)
    BY <1>1, <1>2 DEF Covers, Disjoint, InDir
  <1>6. pc'[w] \in InDir /\ todo'[w] = todo[w] \ {q}
    BY <1>3, <1>4, <1>5 DEF Continue, Goto, InDir
  <1>7. W' = W /\ (Children(cur[w]))' = Children(top)
    BY <1>1 DEF Under, Children
  <1>8. SUFFICES Covers(w)' /\ Disjoint(w)'
    BY <1>6 DEF InDir, Walked, Says, Walking, InDir
  <1>9. node[top] = "dir" /\ top # q /\ ~IsPrefix(q, top)
    <2>1. IsPrefix(top, q) /\ top # q
      BY <1>2, <1>5, ChildIsBelow DEF IsStrictPrefix
    <2> QED BY <1>1, <1>2, <1>5, <2>1, PathsAreSequences, PrefixOrder DEF Disjoint, InDir
  <1> HIDE DEF W
  <1>10. CASE node[q] = "dir"
    <2>1. stack'[w] = Append(stack[w], q) /\ hasSub'[w] = TRUE /\ pc'[w] = "entry"
      BY <1>3, <1>4, <1>5, <1>10 DEF File, Continue, Goto
    <2>2. Range(stack'[w]) = S \cup {q}
      BY <1>2, <1>5, <2>1, StackGrown
    <2>3. (Ahead(w))' = Ahead(w)
      BY <1>6, <2>2 DEF Ahead
    <2>4. Covers(w)'
      <3>1. \A p \in W : Covered(w, p)' <=> Covered(w, p)
        BY <1>1, <1>6, <2>1, <2>3 DEF Covered, InDir
      <3> QED BY <1>1, <1>2, <1>6, <1>7, <1>10, <2>1, <2>2, <3>1 DEF Covers, Exists, W, InDir
    <2>5. Disjoint(w)'
      <3>1. Pile(stack'[w])
        BY <1>2, <1>5, <2>1, PileGrown DEF Disjoint, InDir
      <3>2. \A t \in todo[w] \ {q} : ~Near(q, t)
        BY <1>1, <1>2, <1>5, EntriesApart DEF Disjoint, InDir
      <3>3. \A s \in S \cup {q}, t \in todo[w] \ {q} : ~Near(s, t)
        BY <1>2, <3>2 DEF Disjoint, InDir
      <3>4. \A s \in S \cup {q} : ~IsPrefix(s, top)
        BY <1>1, <1>2, <1>9 DEF Disjoint, InDir
      <3>5. todo[w] \ {q} \subseteq Children(top) /\ \A l \in later[w] : ~IsPrefix(top, l)
        BY <1>1, <1>2 DEF Disjoint, InDir
      <3>6. \A r \in Ahead(w), l \in later[w] : ~IsPrefix(r, l)
        BY <1>2 DEF Disjoint, InDir
      <3>7. Pile(stack[w])'
        BY <3>1 DEF Pile
      <3> QED BY <1>1, <1>6, <1>7, <1>9, <2>1, <2>2, <2>3, <3>3, <3>4, <3>5, <3>6, <3>7
              DEF Disjoint, InDir
    <2> QED BY <2>4, <2>5
  <1>11. CASE node[q] # "dir"
    <2>1. /\ node[q] \in File /\ UNCHANGED <<stack, hasSub>>
          /\ pc'[w] = "unlink" /\ aim'[w] = q
      BY <1>3, <1>4, <1>5, <1>11 DEF Continue, Goto
    <2>2. Ahead(w) = (Ahead(w))' \cup {q}
      BY <1>6, <2>1 DEF Ahead
    <2>3. Covers(w)'
      <3>1. ASSUME NEW p \in W, Exists(p)
            PROVE  Covered(w, p)'
        <4>1. Covered(w, p) /\ p \in Path
          BY <1>2, <3>1 DEF Covers, W
        <4>2. p # q => ~IsPrefix(q, p)
          BY <1>5, <1>11, <3>1, <4>1 DEF KInv, Tree, Ancestors, IsStrictPrefix, Exists
        <4> QED BY <1>1, <1>6, <2>1, <2>2, <4>1, <4>2 DEF Covered, InDir
      <3>2. \A p \in S \cup later[w] : node[p] = "dir"
        BY <1>2 DEF Covers
      <3>3. op[w] = "clear" => node[path[w]] = "dir" /\ path[w] \notin later[w]
        BY <1>2 DEF Covers
      <3>4. \A p \in todo[w] \ {q} : Exists(p)
        BY <1>2 DEF Covers
      <3> QED BY <1>1, <1>6, <1>7, <2>1, <3>1, <3>2, <3>3, <3>4 DEF Covers, Exists, W
    <2>4. Disjoint(w)'
      <3>1. Pile(stack[w])'
        BY <1>2, <2>1 DEF Pile, Disjoint
      <3> QED BY <1>1, <1>2, <1>6, <1>7, <1>9, <2>1, <2>2, <3>1 DEF Disjoint, InDir
    <2> QED BY <2>3, <2>4
  <1> QED BY <1>10, <1>11

LEMMA RemoveEntryDoes ==
  ASSUME KInv, NEW w \in Worker, clean[w], Walked(w), RemoveEntry(w)
  PROVE  Walked(w)' /\ Says(w)'
  <1> DEFINE W == Under(path[w])
             S == Range(stack[w])
             q == aim[w]
             top == cur[w]
  <1>1. pc[w] = "unlink" /\ UNCHANGED <<op, path, clean, stack, cur, todo, hasSub, later>>
    BY DEF RemoveEntry, request
  <1>2. /\ path[w] \in Path /\ W \subseteq Path /\ S \subseteq W /\ todo[w] \subseteq W
        /\ later[w] \subseteq W /\ q \in W /\ top \in W /\ Covers(w) /\ Disjoint(w)
    BY <1>1, WalkFacts DEF Walking, InDir
  <1>3. /\ pc = [v \in Worker |-> pc[v]] /\ node \in [Path -> {"absent", "dir"} \cup File]
    BY DEF KInv, TInv, Typing
  <1>4. q \in Path /\ node[q] \in File
    BY <1>1, <1>2 DEF Covers
  <1>5. pc'[w] = "entry" /\ node' = [node EXCEPT ![q] = "absent"]
    BY <1>3, <1>4 DEF RemoveEntry, CanOsRemove, OsRemove, Unlink, Continue, Goto
  <1>6. node'[q] = "absent" /\ \A p \in Path : p # q => node'[p] = node[p]
    BY <1>3, <1>4, <1>5
  <1>7. /\ W' = W /\ (Children(cur[w]))' = Children(top) /\ (Ahead(w))' = Ahead(w)
        /\ (Pile(stack[w]))' = Pile(stack[w])
    BY <1>1 DEF Under, Children, Ahead, Pile
  <1>8. \A p \in Path : node[p] = "dir" => node'[p] = "dir"
    BY <1>4, <1>6 DEF File
  <1> HIDE DEF W
  <1>9. Covers(w)'
    <2>1. ASSUME NEW p \in W, node'[p] # "absent"
          PROVE  Covered(w, p)'
      <3>1. p \in Path /\ p # q /\ node[p] # "absent"
        BY <1>2, <1>6, <2>1
      <3>2. Covered(w, p)
        BY <1>2, <3>1 DEF Covers, Exists, W
      <3> QED BY <1>1, <1>5, <1>7, <3>1, <3>2 DEF Covered, InDir
    <2>2. \A p \in S \cup later[w] : node'[p] = "dir"
      BY <1>2, <1>8 DEF Covers
    <2>3. op[w] = "clear" => node'[path[w]] = "dir" /\ path[w] \notin later[w]
      BY <1>2, <1>8 DEF Covers
    <2>4. \A p \in todo[w] : node'[p] # "absent"
      <3>1. \A p \in todo[w] : p # q
        BY <1>1, <1>2 DEF Disjoint
      <3> QED BY <1>2, <1>6, <3>1 DEF Covers, Exists
    <2> QED BY <1>1, <1>5, <1>7, <2>1, <2>2, <2>3, <2>4 DEF Covers, Exists, W
  <1>10. Disjoint(w)'
    BY <1>1, <1>2, <1>5, <1>7, <1>8 DEF Disjoint, InDir
  <1> QED BY <1>5, <1>9, <1>10 DEF Walked, Says, Walking, InDir

LEMMA CloseDirDoes ==
  ASSUME KInv, NEW w \in Worker, clean[w], Walked(w), CloseDir(w) \/ KeepDir(w)
  PROVE  Walked(w)' /\ Says(w)'
  <1> DEFINE W == Under(path[w])
             S == Range(stack[w])
             dir == cur[w]
  <1>1. /\ pc[w] = "entry" /\ todo[w] = {}
        /\ UNCHANGED <<op, path, clean, stack, cur, todo, hasSub>>
    BY DEF CloseDir, KeepDir, request, locals
  <1>2. /\ path[w] \in Path /\ W \subseteq Path /\ S \subseteq W /\ later[w] \subseteq W
        /\ dir \in W /\ dir \in Path /\ Covers(w) /\ Disjoint(w)
    BY <1>1, WalkFacts DEF Walking, InDir
  <1>3. /\ pc = [v \in Worker |-> pc[v]] /\ later = [v \in Worker |-> later[v]]
        /\ code = [v \in Worker |-> code[v]]
        /\ node \in [Path -> {"absent", "dir"} \cup File]
    BY DEF KInv, TInv, Typing
  <1>4. W' = W /\ Ahead(w) = S /\ (Ahead(w))' = S /\ (Pile(stack[w]))' = Pile(stack[w])
    BY <1>1 DEF Under, Ahead, Pile
  <1>5. /\ node[dir] = "dir" /\ \A s \in S : ~IsPrefix(s, dir)
        /\ ~hasSub[w] => \A s \in S : ~IsPrefix(dir, s)
        /\ \A l \in later[w] : ~IsPrefix(dir, l)
    BY <1>1, <1>2 DEF Disjoint, InDir
  <1>6. IsPrefix(dir, dir)
    BY <1>2, PathsAreSequences, PrefixOrder
  <1> DEFINE Onward == pc'[w] \in {"rmdirs", "open"} /\ (pc'[w] = "rmdirs" => stack[w] = <<>>)
  <1>7. Continue(w, AfterDir(w)) => Onward
    BY <1>3 DEF Continue, Goto, AfterDir
  <1>8. SUFFICES Onward /\ Covers(w)' /\ Disjoint(w)'
    BY DEF Walked, Says, Walking, InDir
  <1>9. ASSUME Onward, later'[w] \subseteq later[w] \cup {dir}
        PROVE  Disjoint(w)'
    <2>1. \A r \in S, l \in later'[w] : ~IsPrefix(r, l)
      BY <1>2, <1>4, <1>5, <1>9 DEF Disjoint, InDir
    <2>2. Pile(stack[w])'
      BY <1>2, <1>4 DEF Disjoint, InDir
    <2> QED BY <1>1, <1>4, <1>9, <2>1, <2>2 DEF Disjoint, InDir
  <1> HIDE DEF W
  <1>10. CASE KeepDir(w)
    <2>1. UNCHANGED <<node, later>> /\ Onward /\ op[w] = "clear" /\ dir = path[w]
      BY <1>7, <1>10 DEF KeepDir, LeftByClear, disk, locals
    <2>2. \A q \in W : Covered(w, q) => Covered(w, q)'
      BY <1>1, <1>4, <2>1 DEF Covered, InDir
    <2>3. Covers(w)'
      BY <1>1, <1>2, <1>4, <2>1, <2>2 DEF Covers, Exists, W, InDir
    <2> QED BY <1>9, <2>1, <2>3
  <1>11. CASE CloseDir(w) /\ hasSub[w]
    <2>1. /\ UNCHANGED node /\ Onward /\ later'[w] = later[w] \cup {dir}
          /\ ~(op[w] = "clear" /\ dir = path[w])
      BY <1>3, <1>7, <1>11 DEF CloseDir, LeftByClear, disk
    <2>2. \A q \in W : Covered(w, q) => Covered(w, q)'
      BY <1>1, <1>4, <2>1 DEF Covered, InDir
    <2>3. op[w] = "clear" => node[path[w]] = "dir" /\ path[w] \notin later'[w]
      BY <1>2, <2>1 DEF Covers
    <2>4. \A q \in S \cup later'[w] : node[q] = "dir"
      BY <1>2, <1>5, <2>1 DEF Covers
    <2>5. Covers(w)'
      BY <1>1, <1>2, <1>4, <2>1, <2>2, <2>3, <2>4 DEF Covers, Exists, W, InDir
    <2> QED BY <1>9, <2>1, <2>5
  <1>12. CASE CloseDir(w) /\ ~hasSub[w]
    <2>1. ~(op[w] = "clear" /\ dir = path[w])
      BY <1>12 DEF CloseDir, LeftByClear
    <2>2. ASSUME NEW c \in Children(dir), Exists(c)
          PROVE  FALSE
      <3>1. /\ c \in Path /\ IsPrefix(dir, c) /\ dir # c /\ path[w] \in AnyPath
            /\ c \in AnyPath /\ dir \in AnyPath /\ IsPrefix(path[w], dir)
        BY <1>2, ChildIsBelow, PathsAreSequences DEF IsStrictPrefix, W, Under
      <3>2. c \in W /\ c # path[w] /\ ~IsPrefix(c, dir)
        BY <3>1, PrefixOrder DEF W, Under
      <3>3. Covered(w, c)
        BY <1>2, <2>2, <3>2 DEF Covers, W
      <3>4. c \notin later[w]
        BY <1>5, <3>1
      <3>5. PICK r \in S : IsPrefix(r, c)
        BY <1>1, <1>4, <3>1, <3>2, <3>3, <3>4 DEF Covered, InDir
      <3>6. r \in AnyPath
        BY <1>2, PathsAreSequences
      <3>7. IsPrefix(r, dir) \/ IsPrefix(dir, r)
        BY <3>1, <3>5, <3>6, PrefixOrder
      <3> QED BY <1>5, <1>12, <3>7
    <2>3. CanRmdir(dir)
      BY <1>5, <2>2 DEF CanRmdir
    <2>4. Onward /\ UNCHANGED later /\ node' = [node EXCEPT ![dir] = "absent"]
      BY <1>7, <1>12, <2>3 DEF CloseDir, Put
    <2>5. node'[dir] = "absent" /\ \A q \in Path : q # dir => node'[q] = node[q]
      BY <1>2, <1>3, <2>4
    <2>6. dir \notin S /\ dir \notin later[w]
      BY <1>5, <1>6
    <2>7. \A q \in W : node'[q] # "absent" => Covered(w, q)'
      <3> SUFFICES ASSUME NEW q \in W, node'[q] # "absent" PROVE Covered(w, q)'
        OBVIOUS
      <3>1. q # dir /\ Exists(q)
        BY <1>2, <2>5 DEF Exists
      <3>2. Covered(w, q)
        BY <1>2, <3>1 DEF Covers, W
      <3> QED BY <1>1, <1>4, <2>4, <3>1, <3>2 DEF Covered, InDir
    <2>8. op[w] = "clear" => node'[path[w]] = "dir" /\ path[w] \notin later[w]
      BY <1>2, <2>1, <2>5 DEF Covers
    <2>9. \A q \in S \cup later[w] : node'[q] = "dir"
      BY <1>2, <2>5, <2>6 DEF Covers
    <2>10. Covers(w)'
      BY <1>1, <1>2, <1>4, <2>4, <2>7, <2>8, <2>9 DEF Covers, Exists, W, InDir
    <2> QED BY <1>9, <2>4, <2>10
  <1> QED BY <1>10, <1>11, <1>12

LEMMA RmdirsDoes ==
  ASSUME KInv, NEW w \in Worker, clean[w], Walked(w), Rmdirs(w)
  PROVE  Walked(w)' /\ Says(w)'
  <1> DEFINE W == Under(path[w])
  <1>1. /\ pc[w] = "rmdirs"
        /\ UNCHANGED <<op, path, clean, stack, cur, todo, hasSub>>
    BY DEF Rmdirs, request
  <1>2. /\ path[w] \in Path /\ W \subseteq Path /\ later[w] \subseteq W /\ path[w] \in W
        /\ op[w] \in {"delete", "clear"} /\ Covers(w) /\ Disjoint(w)
    BY <1>1, WalkFacts DEF Walking, InDir
  <1>3. /\ pc = [v \in Worker |-> pc[v]] /\ later = [v \in Worker |-> later[v]]
        /\ code = [v \in Worker |-> code[v]]
        /\ node \in [Path -> {"absent", "dir"} \cup File]
    BY DEF KInv, TInv, Typing
  <1>4. stack[w] = <<>> /\ todo[w] = {} /\ Ahead(w) = {} /\ (Ahead(w))' = {} /\ W' = W
    <2>1. stack[w] = <<>> /\ todo[w] = {}
      BY <1>1, <1>2 DEF Disjoint, InDir
    <2>2. Range(<<>>) = {}
      BY DEF Range
    <2> QED BY <1>1, <2>1, <2>2 DEF Ahead, Under
  <1>5. \A q \in W : Exists(q) => (op[w] = "clear" /\ q = path[w]) \/ q \in later[w]
    BY <1>1, <1>2, <1>4 DEF Covers, Covered, InDir
  <1> HIDE DEF W
  <1>6. CASE later[w] = {}
    <2>1. pc'[w] = "reply" /\ code'[w] = "0" /\ UNCHANGED node
      BY <1>3, <1>6 DEF Rmdirs, Answer, Goto, disk
    <2>2. \A q \in W \ {path[w]} : node[q] = "absent"
      BY <1>5, <1>6 DEF Exists
    <2>3. op[w] = "delete" => node[path[w]] = "absent"
      BY <1>2, <1>5, <1>6 DEF Exists
    <2>4. op[w] = "clear" => node[path[w]] = "dir"
      BY <1>2 DEF Covers
    <2> QED BY <1>1, <1>2, <1>4, <2>1, <2>2, <2>3, <2>4 DEF Walked, Says, Walking, InDir, W
  <1>7. CASE later[w] # {}
    <2>1. PICK q \in later[w] :
            /\ \A r \in later[w] : ~IsStrictPrefix(q, r)
            /\ later' = [later EXCEPT ![w] = @ \ {q}]
            /\ IF CanRmdir(q) THEN Put(q, "absent") /\ Continue(w, "rmdirs")
                              ELSE Answer(w, "10001") /\ UNCHANGED disk
      BY <1>7 DEF Rmdirs
    <2>2. q \in Path /\ IsPrefix(path[w], q) /\ node[q] = "dir"
      BY <1>2 DEF Covers, W, Under
    <2>3. ASSUME NEW c \in Children(q), Exists(c)
          PROVE  FALSE
      <3>1. /\ c \in Path /\ IsPrefix(q, c) /\ q # c /\ path[w] \in AnyPath
            /\ c \in AnyPath /\ q \in AnyPath /\ Len(q) \in Nat /\ Len(c) = Len(q) + 1
        BY <1>2, <2>2, ChildIsBelow, PathsAreSequences DEF IsStrictPrefix, Children
      <3>2. c \in W /\ c # path[w]
        BY <2>2, <3>1, PrefixOrder DEF W, Under
      <3>3. c \in later[w]
        BY <1>5, <2>3, <3>2
      <3> QED BY <2>1, <3>1, <3>3 DEF IsStrictPrefix
    <2>4. CanRmdir(q)
      BY <2>2, <2>3 DEF CanRmdir
    <2>5. /\ pc'[w] = "rmdirs" /\ later'[w] = later[w] \ {q}
          /\ node'[q] = "absent" /\ \A p \in Path : p # q => node'[p] = node[p]
      BY <1>3, <2>1, <2>2, <2>4 DEF Put, Continue, Goto
    <2>6. ASSUME NEW p \in W, node'[p] # "absent"
          PROVE  Covered(w, p)'
      <3>1. p # q /\ Exists(p)
        BY <1>2, <2>5, <2>6 DEF Exists
      <3> QED BY <1>1, <1>5, <2>5, <3>1 DEF Covered, InDir
    <2>7. op[w] = "clear" => node'[path[w]] = "dir" /\ path[w] \notin later'[w]
      BY <1>2, <2>5 DEF Covers
    <2>8. \A p \in later'[w] : node'[p] = "dir"
      BY <1>2, <2>5 DEF Covers
    <2>9. Range(stack[w])' = {}
      BY <1>4 DEF Ahead
    <2>10. Covers(w)'
      BY <1>1, <1>2, <1>4, <2>5, <2>6, <2>7, <2>8, <2>9 DEF Covers, Exists, W, InDir
    <2>11. Pile(stack[w])'
      BY <1>1, <1>2 DEF Disjoint, Pile
    <2>12. Disjoint(w)'
      BY <1>1, <1>4, <2>5, <2>9, <2>11 DEF Disjoint, InDir
    <2> QED BY <2>5, <2>10, <2>12 DEF Walked, Says, Walking, InDir
  <1> QED BY <1>6, <1>7

\* A request that was disturbed has no more to say.
LEMMA DisturbedStays ==
  ASSUME NEW w \in Worker, ~clean'[w]
  PROVE  Walked(w)' /\ Says(w)'
  BY DEF Walked, Says

LEMMA SmallDoes ==
  ASSUME KInv, NEW w \in Worker, Small(w), Walked(w)
  PROVE  Walked(w)' /\ Says(w)'
  <1>1. clean'[w] => clean[w]
    BY SmallFramed DEF Framed
  <1>2. CASE \/ LookCreate(w) \/ Mkdir(w) \/ OpenFile(w) \/ Write(w) \/ LookSrc(w) \/ LookDst(w)
             \/ Mv(w)
    BY <1>2, StoreDoes
  <1>3. CASE PullSize(w) \/ PullSend(w)
    BY <1>3, PullDoes
  <1>4. CASE LookRemoval(w) \/ RemovePath(w) \/ EraseFile(w)
    BY <1>4, RemovalBegins
  <1>5. CASE OpenDir(w)
    BY <1>1, <1>5, OpenDirDoes, DisturbedStays
  <1>6. CASE Entry(w)
    BY <1>1, <1>6, EntryDoes, DisturbedStays
  <1>7. CASE CloseDir(w) \/ KeepDir(w)
    BY <1>1, <1>7, CloseDirDoes, DisturbedStays
  <1>8. CASE Rmdirs(w)
    BY <1>1, <1>8, RmdirsDoes, DisturbedStays
  <1>9. CASE RemoveEntry(w)
    BY <1>1, <1>9, RemoveEntryDoes, DisturbedStays
  <1> QED BY <1>2, <1>3, <1>4, <1>5, <1>6, <1>7, <1>8, <1>9, SmallCases DEF SmallStep

LEMMA InitUInv == Init => UInv
  BY InitKInv DEF Init, UInv, Walked, Says

LEMMA NextUInv ==
  ASSUME UInv, [Next]_vars
  PROVE  UInv'
  <1>1. KInv /\ \A w \in Worker : Walked(w) /\ Says(w)
    BY DEF UInv
  <1>2. KInv'
    BY <1>1, NextKInv
  <1>3. ASSUME NEW w \in Worker, Request(w) \/ Handler(w) \/ Crash(w), NEW v \in Worker
        PROVE  Walked(v)' /\ Says(v)'
    <2>1. CASE Request(w) \/ Crash(w) \/ Reply(w)
      <3>1. Forget(w) \/ Request(w)
        BY <2>1 DEF Crash, Reply
      <3> QED BY <1>1, <3>1, QuietStays, QuietSelf
    <2>2. CASE Renames(w) \/ Carries(w)
      BY <1>1, <2>2, RenameStays, RenameDoes, CarryDoes
    <2>3. CASE Small(w)
      BY <1>1, <2>3, SmallStays, SmallDoes
    <2> QED BY <1>3, <2>1, <2>2, <2>3 DEF Small
  <1>4. ASSUME UNCHANGED vars, NEW v \in Worker PROVE Walked(v)' /\ Says(v)'
    <2>1. UNCHANGED <<pc, op, path, dst, code, seen, stack, cur, todo, hasSub, later, aim, clean, node>>
      BY <1>4 DEF vars, disk, request, locals
    <2>2. Walked(v) /\ Says(v)
      BY <1>1
    <2> QED BY <1>1, <2>1, <2>2, StaysTrue DEF KInv
  <1>5. \A v \in Worker : Walked(v)' /\ Says(v)'
    BY <1>3, <1>4 DEF Next
  <1> QED BY <1>2, <1>5 DEF UInv

\* A request whose paths no other request was at while it ran does what its
\* answer says, on any tree of paths that other requests and crashes left behind:
\* delete and clear succeed and leave nothing, however remove_path and clear_path
\* come by the directories, and a pull has the length that it announced.
THEOREM UndisturbedKeepTheirWord == Spec => []UndisturbedDoWhatTheySay
  <1>1. Init => UInv
    BY InitUInv
  <1>2. UInv /\ [Next]_vars => UInv'
    BY NextUInv
  <1>3. UInv => UndisturbedDoWhatTheySay
    BY SaysIt DEF UInv
  <1> QED BY <1>1, <1>2, <1>3, PTL DEF Spec
=============================================================================
