---------------------------- MODULE FsTreeProofs -----------------------------
(***************************************************************************)
(* Proofs about FsTree for every manifest, every set of names, paths,      *)
(* callbacks and initializers, every limit of inode numbers and any number *)
(* of failures and deaths.                                                 *)
(*                                                                         *)
(* The parts: what Resolve returns for a path of any length; the inductive *)
(* invariant; the few effects a step has on the tree (TreeStep) and that   *)
(* they keep its shape; the callbacks; the initializers; the theorems.     *)
(***************************************************************************)
EXTENDS FsTree, FoldFacts, SequenceTheorems, FiniteSetTheorems, TLAPS

\* One ZSCORE of _resolve_path.
Lookup(e, i, n) == IF i = None \/ n \notin Name THEN None ELSE e[i][n]
\* The function FoldLeft is defined by, for the lookups of a path p of length n in the
\* entries e: what every set of indices leads to.
Walk(e, p, n, it) ==
  it = [s \in SUBSET (1..n) |->
          IF s = {} THEN Root ELSE Lookup(e, it[s \ {Max(s)}], p[Max(s)])]

\* There is such a function.
LEMMA WalkExists ==
  ASSUME NEW e, NEW p, NEW n \in Nat
  PROVE  \E it : Walk(e, p, n, it)
<1> DEFINE T == {k \in Nat : ~ \E it : Walk(e, p, k, it)}
<1>1. SUFFICES ASSUME T # {} PROVE FALSE
  OBVIOUS
<1>2. PICK m \in T : \A k \in T : m <= k
  BY <1>1, Least
<1>3. CASE m = 0
  <2> DEFINE g == [s \in SUBSET (1..0) |-> Root]
  <2>1. SUBSET (1..0) = {{}}
    OBVIOUS
  <2>2. Walk(e, p, 0, g)
    BY <2>1 DEF Walk
  <2> QED BY <2>2, <1>3
<1>4. CASE m # 0
  <2>1. m \in Nat /\ m - 1 \in Nat /\ m - 1 \notin T
    BY <1>2, <1>4
  <2>2. PICK it : Walk(e, p, m - 1, it)
    BY <2>1
  <2> DEFINE g == [s \in SUBSET (1..m) |->
                     IF m \in s THEN Lookup(e, it[s \ {m}], p[m]) ELSE it[s]]
  <2>3. ASSUME NEW s \in SUBSET (1..m)
        PROVE  g[s] = IF s = {} THEN Root ELSE Lookup(e, g[s \ {Max(s)}], p[Max(s)])
    <3>1. CASE m \in s
      <4>1. Max(s) = m
        BY <2>1, <3>1, MaxIs
      <4>2. s \ {m} \in SUBSET (1..m) /\ m \notin s \ {m}
        OBVIOUS
      <4>3. g[s \ {m}] = it[s \ {m}]
        BY <4>2
      <4>4. g[s] = Lookup(e, it[s \ {m}], p[m])
        BY <3>1
      <4> HIDE DEF g
      <4> QED BY <3>1, <4>1, <4>3, <4>4
    <3>2. CASE m \notin s
      <4>1. s \in SUBSET (1..(m - 1))
        BY <2>1, <3>2
      <4>2. it[s] = IF s = {} THEN Root ELSE Lookup(e, it[s \ {Max(s)}], p[Max(s)])
        BY <4>1, <2>2 DEF Walk
      <4>3. g[s] = it[s]
        BY <3>2
      <4>4. g[s \ {Max(s)}] = it[s \ {Max(s)}]
        BY <3>2
      <4> HIDE DEF g
      <4> QED BY <4>2, <4>3, <4>4
    <3> QED BY <3>1, <3>2
  <2>4. Walk(e, p, m, g)
    BY <2>3 DEF Walk
  <2> QED BY <2>4
<1> QED
  BY <1>3, <1>4

\* It takes one lookup for each name of the path.
LEMMA WalkStep ==
  ASSUME NEW e, NEW p, NEW n \in Nat, NEW it, Walk(e, p, n, it)
  PROVE  /\ it[1..0] = Root
         /\ \A k \in 1..n : it[1..k] = Lookup(e, it[1..(k - 1)], p[k])
<1>1. it[1..0] = Root
  <2>1. 1..0 = {} /\ 1..0 \in SUBSET (1..n)
    OBVIOUS
  <2> QED BY <2>1 DEF Walk
<1>2. ASSUME NEW k \in 1..n PROVE it[1..k] = Lookup(e, it[1..(k - 1)], p[k])
  <2>1. 1..k \in SUBSET (1..n) /\ 1..k # {} /\ k \in 1..k /\ k \in Nat /\ 1..k \in SUBSET (1..k)
    OBVIOUS
  <2>2. Max(1..k) = k
    BY <2>1, MaxIs
  <2>3. (1..k) \ {k} = 1..(k - 1)
    OBVIOUS
  <2>4. it[1..k] = Lookup(e, it[(1..k) \ {Max(1..k)}], p[Max(1..k)])
    BY <2>1 DEF Walk
  <2> QED BY <2>2, <2>3, <2>4
<1> QED
  BY <1>1, <1>2

\* Paths that begin alike lead to the same inodes.
LEMMA WalksAgree ==
  ASSUME NEW e, NEW p, NEW q, NEW n \in Nat, NEW m \in Nat, NEW f, NEW g,
         Walk(e, p, n, f), Walk(e, q, m, g), m <= n, \A i \in 1..m : p[i] = q[i]
  PROVE  f[1..m] = g[1..m]
<1> DEFINE T == {k \in 0..m : f[1..k] # g[1..k]}
<1>1. SUFFICES ASSUME T # {} PROVE FALSE
  OBVIOUS
<1>2. PICK k \in T : \A j \in T : k <= j
  <2>1. T \in SUBSET Nat
    OBVIOUS
  <2> HIDE DEF T
  <2> QED BY <2>1, <1>1, Least
<1>3. k # 0
  BY <1>2, WalkStep
<1>4. k - 1 \in 0..m /\ k - 1 \notin T /\ k \in 1..m /\ k \in 1..n
  BY <1>2, <1>3
<1>5. f[1..(k - 1)] = g[1..(k - 1)]
  BY <1>4
<1>6. f[1..k] = Lookup(e, f[1..(k - 1)], p[k])
  BY <1>4, WalkStep
<1>7. g[1..k] = Lookup(e, g[1..(k - 1)], q[k])
  BY <1>4, WalkStep
<1>8. f[1..k] = g[1..k]
  BY <1>4, <1>5, <1>6, <1>7
<1> QED
  BY <1>8, <1>2

\* Resolve with the directory entries as a parameter.
ResolveIn(e, path) ==
  LET Down(i, n) == IF i = None \/ n \notin Name THEN None ELSE e[i][n]
  IN FoldLeft(Down, Root, path)

\* Resolve is such a walk.
LEMMA ResolveUnfolds ==
  ASSUME NEW e, NEW path, NEW n \in Nat, DOMAIN path = 1..n
  PROVE  ResolveIn(e, path) = (CHOOSE it : Walk(e, path, n, it))[1..n]
<1>1. ResolveIn(e, path) =
        (CHOOSE it : it = [s \in SUBSET DOMAIN path |->
          IF s = {} THEN Root ELSE Lookup(e, it[s \ {Max(s)}], path[Max(s)])])[DOMAIN path]
  BY DEF ResolveIn, FoldLeft, MapThenFoldSet, Lookup
<1> QED
  BY <1>1 DEF Walk

\* The empty path is the root.
LEMMA ResolveEmpty ==
  ASSUME NEW e
  PROVE  ResolveIn(e, <<>>) = Root
<1>1. DOMAIN <<>> = 1..0 
  OBVIOUS
<1> DEFINE f == CHOOSE it : Walk(e, <<>>, 0, it)
<1>2. Walk(e, <<>>, 0, f)
  BY WalkExists
<1>3. ResolveIn(e, <<>>) = f[1..0]
  BY <1>1, ResolveUnfolds
<1> HIDE DEF f
<1>4. f[1..0] = Root
  BY <1>2, WalkStep
<1> QED
  BY <1>3, <1>4

\* A path leads where its last name leads in the directory of its front.
LEMMA ResolveStep ==
  ASSUME NEW e, NEW S, NEW path \in Seq(S), path # <<>>
  PROVE  /\ ResolveIn(e, path) = Lookup(e, ResolveIn(e, Front(path)), Last(path))
         /\ Front(path) \in Seq(S) /\ Last(path) \in S
         /\ Len(Front(path)) = Len(path) - 1 /\ Len(path) \in Nat \ {0}
<1> DEFINE n == Len(path)
           q == Front(path)
           f == CHOOSE it : Walk(e, path, n, it)
           g == CHOOSE it : Walk(e, q, n - 1, it)
<1>1. n \in Nat \ {0} /\ DOMAIN path = 1..n /\ n - 1 \in Nat /\ n - 1 <= n
  BY EmptySeq
<1>2. /\ q \in Seq(S) /\ Len(q) = n - 1
      /\ \A i \in 1..(n - 1) : q[i] = path[i]
  BY <1>1, SubSeqProperties, ElementOfSeq DEF Front
<1>3. DOMAIN q = 1..(n - 1)
  BY <1>2
<1>4. Last(path) = path[n] /\ path[n] \in S
  BY <1>1 DEF Last
<1>5. Walk(e, path, n, f) /\ Walk(e, q, n - 1, g)
  BY <1>1, WalkExists
<1>6. ResolveIn(e, path) = f[1..n] /\ ResolveIn(e, q) = g[1..(n - 1)]
  BY <1>1, <1>3, ResolveUnfolds
<1> HIDE DEF n, q, f, g
<1>7. f[1..(n - 1)] = g[1..(n - 1)]
  BY <1>1, <1>2, <1>5, WalksAgree
<1>8. f[1..n] = Lookup(e, f[1..(n - 1)], path[n])
  BY <1>1, <1>5, WalkStep
<1>9. ResolveIn(e, path) = Lookup(e, ResolveIn(e, q), Last(path))
  BY <1>4, <1>6, <1>7, <1>8
<1> QED
  BY <1>1, <1>2, <1>4, <1>9 DEF n, q

\* A path is its front and its last name.
LEMMA FrontLast ==
  ASSUME NEW S, NEW p \in Seq(S), NEW q \in Seq(S), p # <<>>, q # <<>>,
         Front(p) = Front(q), Last(p) = Last(q)
  PROVE  p = q
<1>1. /\ Len(p) \in Nat \ {0} /\ Len(q) \in Nat \ {0}
      /\ Len(Front(p)) = Len(p) - 1 /\ Len(Front(q)) = Len(q) - 1
  BY ResolveStep
<1>2. Len(p) = Len(q)
  BY <1>1
<1>3. ASSUME NEW i \in 1..Len(p) PROVE p[i] = q[i]
  <2>1. CASE i = Len(p)
    BY <2>1, <1>2 DEF Last
  <2>2. CASE i # Len(p)
    <3>1. i \in 1..(Len(p) - 1) /\ i \in 1..(Len(q) - 1)
      BY <1>1, <1>2, <2>2
    <3>2. Front(p)[i] = p[i] /\ Front(q)[i] = q[i]
      BY <3>1, <1>1, SubSeqProperties, ElementOfSeq DEF Front
    <3> QED BY <3>2
  <2> QED BY <2>1, <2>2
<1> QED
  BY <1>2, <1>3, SeqEqual

\* What the lemmas about paths need of the entries: their type, and that no two lead to
\* one inode or to the root.
Tree(e) == e \in [Inode -> [Name -> Inode \union {None}]]
NamesOnce(e) ==
  /\ \A d \in Inode, n \in Name : e[d][n] # Root
  /\ \A c, d \in Inode, m, n \in Name : e[c][m] = e[d][n] /\ e[c][m] # None => c = d /\ m = n

\* The root is an inode and None is not.
LEMMA RootIsInode == Root \in Inode /\ None \notin Inode /\ MaxInode \in Nat
  BY ConstantsOK DEF Root, Inode, None

\* A path leads to an inode or nowhere.
LEMMA ResolveType ==
  ASSUME NEW e, Tree(e), NEW S, NEW path \in Seq(S)
  PROVE  ResolveIn(e, path) \in Inode \union {None}
<1> DEFINE Bad(p) == ResolveIn(e, p) \notin Inode \union {None}
           T == {k \in Nat : \E p \in Seq(S) : Len(p) = k /\ Bad(p)}
<1>1. SUFFICES ASSUME Bad(path) PROVE FALSE
  OBVIOUS
<1>2. Len(path) \in T
  BY <1>1
<1>3. PICK k \in T : \A j \in T : k <= j
  <2>1. T \in SUBSET Nat /\ T # {}
    BY <1>2
  <2> HIDE DEF T
  <2> QED BY <2>1, Least
<1>4. PICK p \in Seq(S) : Len(p) = k /\ Bad(p)
  BY <1>3
<1>5. CASE p = <<>>
  BY <1>4, <1>5, ResolveEmpty, RootIsInode
<1>6. CASE p # <<>>
  <2>1. /\ ResolveIn(e, p) = Lookup(e, ResolveIn(e, Front(p)), Last(p))
        /\ Front(p) \in Seq(S) /\ Len(Front(p)) = k - 1 /\ k \in Nat \ {0}
    BY <1>4, <1>6, ResolveStep
  <2>2. k - 1 \notin T
    BY <1>3, <2>1
  <2>3. ~Bad(Front(p))
    BY <2>1, <2>2
  <2> QED BY <1>4, <2>1, <2>3 DEF Lookup, Tree
<1> QED
  BY <1>5, <1>6

\* The last step of a path that leads somewhere.
LEMMA ResolveLast ==
  ASSUME NEW e, Tree(e), NEW S, NEW path \in Seq(S), path # <<>>,
         ResolveIn(e, path) # None
  PROVE  /\ ResolveIn(e, Front(path)) \in Inode /\ Last(path) \in Name
         /\ ResolveIn(e, path) = e[ResolveIn(e, Front(path))][Last(path)]
         /\ ResolveIn(e, path) \in Inode
<1>1. /\ ResolveIn(e, path) = Lookup(e, ResolveIn(e, Front(path)), Last(path))
      /\ Front(path) \in Seq(S)
  BY ResolveStep
<1>2. ResolveIn(e, Front(path)) \in Inode \union {None}
  BY <1>1, ResolveType
<1>3. ResolveIn(e, path) \in Inode \union {None}
  BY ResolveType
<1> QED
  BY <1>1, <1>2, <1>3 DEF Lookup

\* A name in a directory that a path leads to.
LEMMA ResolveVia ==
  ASSUME NEW e, Tree(e), NEW S, NEW path \in Seq(S), path # <<>>,
         ResolveIn(e, Front(path)) # None, Last(path) \in Name
  PROVE  ResolveIn(e, path) = e[ResolveIn(e, Front(path))][Last(path)]
<1>1. ResolveIn(e, path) = Lookup(e, ResolveIn(e, Front(path)), Last(path))
  BY ResolveStep
<1> QED
  BY <1>1 DEF Lookup

\* Different paths lead to different inodes.
LEMMA ResolveInjective ==
  ASSUME NEW e, Tree(e), NamesOnce(e), NEW S, NEW path \in Seq(S), NEW other \in Seq(S),
         ResolveIn(e, path) # None, ResolveIn(e, path) = ResolveIn(e, other)
  PROVE  path = other
<1> DEFINE Bad(p, q) == /\ ResolveIn(e, p) # None /\ ResolveIn(e, p) = ResolveIn(e, q)
                        /\ p # q
           T == {k \in Nat : \E p, q \in Seq(S) : Len(p) = k /\ Bad(p, q)}
<1>1. SUFFICES ASSUME Bad(path, other) PROVE FALSE
  OBVIOUS
<1>2. Len(path) \in T
  BY <1>1
<1>3. PICK k \in T : \A j \in T : k <= j
  <2>1. T \in SUBSET Nat /\ T # {}
    BY <1>2
  <2> HIDE DEF T
  <2> QED BY <2>1, Least
<1>4. PICK p \in Seq(S), q \in Seq(S) : Len(p) = k /\ Bad(p, q)
  BY <1>3
<1>5. \A s \in Seq(S) : s # <<>> /\ ResolveIn(e, s) # None =>
        /\ ResolveIn(e, Front(s)) \in Inode /\ Last(s) \in Name
        /\ ResolveIn(e, s) = e[ResolveIn(e, Front(s))][Last(s)]
        /\ ResolveIn(e, s) # Root
  BY ResolveLast DEF NamesOnce
<1>6. p # <<>> /\ q # <<>>
  BY <1>4, <1>5, ResolveEmpty
<1>7. /\ ResolveIn(e, Front(p)) = ResolveIn(e, Front(q)) /\ Last(p) = Last(q)
      /\ ResolveIn(e, Front(p)) # None
  <2> DEFINE c == ResolveIn(e, Front(p))
             d == ResolveIn(e, Front(q))
             m == Last(p)
             n == Last(q)
  <2>1. c \in Inode /\ d \in Inode /\ m \in Name /\ n \in Name
    BY <1>4, <1>5, <1>6
  <2>2. e[c][m] = e[d][n] /\ e[c][m] # None
    BY <1>4, <1>5, <1>6
  <2> HIDE DEF c, d, m, n
  <2>3. c = d /\ m = n /\ c # None
    BY <2>1, <2>2, RootIsInode DEF NamesOnce
  <2> QED BY <2>3 DEF c, d, m, n
<1>8. /\ Front(p) \in Seq(S) /\ Len(Front(p)) = k - 1 /\ k \in Nat \ {0}
      /\ Front(q) \in Seq(S)
  BY <1>4, <1>6, ResolveStep
<1>9. Front(p) = Front(q)
  <2>1. k - 1 \notin T
    BY <1>3, <1>8
  <2> QED BY <2>1, <1>7, <1>8
<1>10. p = q
  BY <1>4, <1>6, <1>7, <1>9, FrontLast
<1> QED
  BY <1>4, <1>10

\* New entries do not change where a path leads.
LEMMA ResolveGrows ==
  ASSUME NEW e, Tree(e), NEW f, Tree(f), NEW S, NEW path \in Seq(S),
         \A d \in Inode, n \in Name : e[d][n] # None => f[d][n] = e[d][n],
         ResolveIn(e, path) # None
  PROVE  ResolveIn(f, path) = ResolveIn(e, path)
<1> DEFINE Bad(p) == ResolveIn(e, p) # None /\ ResolveIn(f, p) # ResolveIn(e, p)
           T == {k \in Nat : \E p \in Seq(S) : Len(p) = k /\ Bad(p)}
<1>1. SUFFICES ASSUME Bad(path) PROVE FALSE
  OBVIOUS
<1>2. Len(path) \in T
  BY <1>1
<1>3. PICK k \in T : \A j \in T : k <= j
  <2>1. T \in SUBSET Nat /\ T # {}
    BY <1>2
  <2> HIDE DEF T
  <2> QED BY <2>1, Least
<1>4. PICK p \in Seq(S) : Len(p) = k /\ Bad(p)
  BY <1>3
<1>5. p # <<>>
  BY <1>4, ResolveEmpty
<1>6. /\ ResolveIn(e, Front(p)) \in Inode /\ Last(p) \in Name
      /\ ResolveIn(e, p) = e[ResolveIn(e, Front(p))][Last(p)]
  BY <1>4, <1>5, ResolveLast
<1>7. /\ Front(p) \in Seq(S) /\ Len(Front(p)) = k - 1 /\ k \in Nat \ {0}
  BY <1>4, <1>5, ResolveStep
<1>8. ResolveIn(f, Front(p)) = ResolveIn(e, Front(p))
  <2>1. k - 1 \notin T
    BY <1>3, <1>7
  <2> QED BY <2>1, <1>6, <1>7, RootIsInode
<1>9. ResolveIn(f, p) = f[ResolveIn(f, Front(p))][Last(p)]
  BY <1>4, <1>5, <1>6, <1>8, RootIsInode, ResolveVia
<1> QED
  BY <1>4, <1>6, <1>8, <1>9

\* A path that leads somewhere only with the new entries leads to the new inode.
LEMMA ResolveNew ==
  ASSUME NEW e, Tree(e), NEW f, Tree(f), NEW S, NEW path \in Seq(S), NEW new \in Inode,
         \A d \in Inode, n \in Name : f[d][n] \in {e[d][n], new},
         \A n \in Name : f[new][n] = None,
         ResolveIn(e, path) = None
  PROVE  ResolveIn(f, path) \in {None, new}
<1> DEFINE Bad(p) == ResolveIn(f, p) \notin {ResolveIn(e, p), None, new}
           T == {k \in Nat : \E p \in Seq(S) : Len(p) = k /\ Bad(p)}
<1>1. SUFFICES ASSUME Bad(path) PROVE FALSE
  OBVIOUS
<1>2. Len(path) \in T
  BY <1>1
<1>3. PICK k \in T : \A j \in T : k <= j
  <2>1. T \in SUBSET Nat /\ T # {}
    BY <1>2
  <2> HIDE DEF T
  <2> QED BY <2>1, Least
<1>4. PICK p \in Seq(S) : Len(p) = k /\ Bad(p)
  BY <1>3
<1>5. p # <<>>
  BY <1>4, ResolveEmpty
<1>6. /\ ResolveIn(f, Front(p)) \in Inode /\ Last(p) \in Name
      /\ ResolveIn(f, p) = f[ResolveIn(f, Front(p))][Last(p)]
  BY <1>4, <1>5, ResolveLast
<1>7. /\ Front(p) \in Seq(S) /\ Len(Front(p)) = k - 1 /\ k \in Nat \ {0}
  BY <1>4, <1>5, ResolveStep
<1>8. ResolveIn(f, Front(p)) = ResolveIn(e, Front(p))
  <2>1. k - 1 \notin T
    BY <1>3, <1>7
  <2>2. ResolveIn(f, Front(p)) \in {ResolveIn(e, Front(p)), None, new}
    BY <2>1, <1>7
  <2>3. ResolveIn(f, Front(p)) # new
    BY <1>4, <1>6
  <2> QED BY <2>2, <2>3, <1>6, RootIsInode
<1>9. ResolveIn(e, p) = e[ResolveIn(e, Front(p))][Last(p)]
  BY <1>4, <1>5, <1>6, <1>8, RootIsInode, ResolveVia
<1> QED
  BY <1>4, <1>6, <1>8, <1>9

------------------------------------------------------------------------------
(* The inductive invariant                                                  *)

\* A callback has begun.  Loop: an initializer is at an entry of the manifest.
Serving == \E c \in Call : call[c].pc # "idle"
Loop == {"entry", "make", "find", "state", "class", "own"}

\* Live and IsDir of any tree.
LiveAt(nodes, gone, i) == nodes[i] # Gone /\ nodes[i].kind # "none" /\ i \notin gone
DirAt(nodes, i) == nodes[i] # Gone /\ nodes[i].kind = "dir"

\* Callbacks are served only once the namespace is initialized, and removals are theirs.
Phases ==
  /\ Serving => /\ initialized
                /\ \A b \in Boot : boot[b].pc \in {"idle", "check", "unlock", "done"}
  /\ removed # {} => Serving
  /\ \A b \in Boot : boot[b].pc \in {"unlock", "done"} => initialized

\* Numbers beyond the counter are unused.
Fresh ==
  /\ \A i \in Inode : i > next => node[i] = Gone /\ entry[i] = NoEntries
  /\ \A i \in removed : i <= next

\* No number that anyone holds is beyond the counter, which exists once it is needed.
Numbered ==
  /\ \A c \in Call : call[c].ino <= next
  /\ \A b \in Boot : boot[b].ino <= next /\ boot[b].dir <= next
  /\ initialized => next >= 1
  /\ \A b \in Boot : boot[b].pc \notin {"idle", "check", "counter"} => next >= 1

\* EntriesLead without sets.
Lead ==
  /\ \A d \in Inode, n \in Name :
       entry[d][n] # None =>
         /\ Live(entry[d][n]) /\ entry[d][n] <= next /\ entry[d][n] # Root
         /\ IsDir(d)
  /\ \A d, e \in Inode, m, n \in Name :
       entry[d][m] = entry[e][n] /\ entry[d][m] # None => d = e /\ m = n

\* The root is a directory and stays; a hash without a type, or with one given back, is
\* that of a removed inode.
Kinds ==
  /\ Root \notin removed
  /\ node[Root] # Gone => node[Root].kind = "dir"
  /\ \A i \in Inode : node[i] # Gone =>
       IF node[i].kind = "none" THEN i \in removed ELSE i \in removed => i \in revived

\* What callbacks hold between two of their steps; two chmods of one inode agree.
Chmods(c) == call[c].pc = "hset" /\ call[c].op = "chmod"
CallsHeld ==
  /\ \A c \in Call :
       /\ call[c].pc \in {"script", "owner", "hset"} => call[c].ino # None
       /\ call[c].pc \in {"owner", "hset"} =>
            call[c].ino # Root /\ (Live(call[c].ino) \/ call[c].ino \in removed)
       /\ Chmods(c) =>
            /\ call[c].kind # "none"
            /\ node[call[c].ino] # Gone => node[call[c].ino].kind \in {"none", call[c].kind}
  /\ \A c, d \in Call :
       Chmods(c) /\ Chmods(d) /\ call[c].ino = call[d].ino => call[c].kind = call[d].kind

\* Link counts; only the root may be wrong, after an initializer outlived its lock.
Subdirs(i) == {n \in Name : entry[i][n] # None /\ IsDir(entry[i][n])}
Counted ==
  \A i \in Inode : Live(i) /\ (i = Root => outlived = {}) =>
    /\ node[i].kind = "dir" => node[i].nlink = 2 + Cardinality(Subdirs(i))
    /\ node[i].kind = "file" => node[i].nlink = 1

\* Unless one outlived its lock, the initializer that runs has it.
Locked ==
  outlived = {} =>
    \A b \in Boot :
      /\ boot[b].pc \notin {"idle", "done"} => lock = b
      /\ boot[b].pc = "hset" => node[Root] = Gone

\* What an initializer holds between two of its steps is what the paths lead to.
Booting ==
  \A b \in Boot :
    /\ boot[b].pc \in Loop \ {"entry"} => boot[b].k <= Len(Manifest)
    /\ boot[b].pc = "make" => boot[b].dir # None /\ boot[b].dir = Resolve(Parent(At(b).path))
    /\ boot[b].pc = "find" => Resolve(At(b).path) # None
    /\ boot[b].pc \in {"state", "class", "own"} =>
         boot[b].ino # None /\ boot[b].ino = Resolve(At(b).path)

\* While no callback is served, what the manifest's paths lead to is as it says.
Profiled ==
  ~Serving => \A k \in DOMAIN Manifest :
    LET i == Resolve(Manifest[k].path) IN
    i # None => /\ node[i].kind = Manifest[k].kind
                /\ node[i].class \in {"unset", Manifest[k].class}

\* What an initializer has done so far: the entries before its own are complete.
Progress ==
  \A b \in Boot :
    /\ boot[b].pc = "hset" => boot[b].k = 1
    /\ boot[b].pc \in {"state", "class"} => At(b).kind = "file"
    /\ boot[b].pc \in {"class", "own"} /\ At(b).kind = "file" => node[boot[b].ino].state # "unset"
    /\ boot[b].pc = "own" /\ At(b).kind = "file" => node[boot[b].ino].class = At(b).class
    /\ boot[b].pc \in Loop => \A j \in 1..(boot[b].k - 1) : Complete(Manifest[j])

\* The part of the invariant that the tree alone keeps.
TreeInv == TypeOK /\ Fresh /\ Lead /\ Kinds /\ NothingLost /\ Counted

\* The inductive invariant.
IInv ==
  /\ TypeOK /\ Phases /\ Fresh /\ Numbered /\ Lead /\ Kinds /\ CallsHeld /\ NothingLost /\ Counted
  /\ Locked /\ Booting /\ Profiled /\ Progress

------------------------------------------------------------------------------
(* The tree                                                                 *)

\* Resolve with the entries of this state ...
LEMMA ResolveNow == \A path : Resolve(path) = ResolveIn(entry, path)
  BY DEF Resolve, ResolveIn

\* ... and of the next.
LEMMA ResolveNext == \A path : Resolve(path)' = ResolveIn(entry', path)
  BY DEF Resolve, ResolveIn, FoldLeft, MapThenFoldSet

\* A path leads to a number in use.
LEMMA ResolveTyped ==
  ASSUME TypeOK, Lead, NEW S, NEW path \in Seq(S)
  PROVE  /\ Resolve(path) \in Inode \union {None}
         /\ next >= 1 => Resolve(path) <= next
<1>1. Tree(entry)
  BY DEF TypeOK, Tree
<1>2. Resolve(path) \in Inode \union {None}
  BY <1>1, ResolveType, ResolveNow
<1>3. ASSUME next >= 1 PROVE Resolve(path) <= next
  <2>1. CASE path = <<>>
    BY <1>3, <2>1, ResolveEmpty, ResolveNow DEF Root
  <2>2. CASE path # <<>> /\ Resolve(path) # None
    <3>1. /\ ResolveIn(entry, Front(path)) \in Inode /\ Last(path) \in Name
          /\ ResolveIn(entry, path) = entry[ResolveIn(entry, Front(path))][Last(path)]
      BY <1>1, <2>2, ResolveNow, ResolveLast
    <3> QED BY <3>1, <2>2, ResolveNow DEF Lead
  <2>3. CASE Resolve(path) = None
    BY <1>3, <2>3 DEF None, TypeOK, Inode
  <2> QED BY <2>1, <2>2, <2>3
<1> QED
  BY <1>2, <1>3

\* A path below the root leads to a live inode.
LEMMA ResolveLive ==
  ASSUME TypeOK, Lead, NEW S, NEW path \in Seq(S), path # <<>>, Resolve(path) # None
  PROVE  /\ Resolve(path) \in Inode \ {Root} /\ Live(Resolve(path))
         /\ Resolve(path) <= next
<1>1. Tree(entry)
  BY DEF TypeOK, Tree
<1>2. /\ ResolveIn(entry, Front(path)) \in Inode /\ Last(path) \in Name
      /\ ResolveIn(entry, path) = entry[ResolveIn(entry, Front(path))][Last(path)]
      /\ ResolveIn(entry, path) \in Inode
  BY <1>1, ResolveNow, ResolveLast
<1> QED
  BY <1>2, ResolveNow DEF Lead

\* The path an initializer is at, and the paths of callbacks.
LEMMA AtPath ==
  ASSUME TypeOK, NEW b \in Boot, boot[b].k <= Len(Manifest)
  PROVE  /\ boot[b].k \in DOMAIN Manifest /\ At(b) \in Entry
         /\ At(b).path \in Seq(Name) /\ At(b).path # <<>>
         /\ Parent(At(b).path) \in Seq(Name)
<1>1. boot[b].k \in 1..(Len(Manifest) + 1)
  BY DEF TypeOK, BootState
<1>2. boot[b].k \in DOMAIN Manifest
  BY <1>1, ConstantsOK
<1>3. At(b) \in Entry
  BY <1>2, ConstantsOK DEF At
<1>4. At(b).path \in Seq(Name) /\ At(b).path # <<>>
  BY <1>3 DEF Entry
<1>5. Parent(At(b).path) \in Seq(Name)
  BY <1>4, ResolveStep DEF Parent
<1> QED
  BY <1>2, <1>3, <1>4, <1>5

\* The path of a callback.
LEMMA TargetPath ==
  ASSUME NEW path \in Target
  PROVE  /\ path \in Seq(Name \union {Dot}) /\ path # <<>>
         /\ Parent(path) \in Seq(Name \union {Dot})
<1>1. path \in Seq(Name \union {Dot}) /\ path # <<>>
  BY ConstantsOK
<1> QED
  BY <1>1, ResolveStep DEF Parent

\* The hash an HSET writes to.
LEMMA StubTyped ==
  ASSUME TypeOK, NEW i \in Inode
  PROVE  Stub(i) \in Hash /\ (node[i] # Gone => Stub(i) = node[i])
<1>1. NewNode("none", 0) \in Hash
  BY DEF NewNode, Hash
<1> QED
  BY <1>1, GoneOK DEF Stub, TypeOK

------------------------------------------------------------------------------
(* What a step does to the tree.                                            *)

\* Some fields of inode i are written: never the type of one that has a type.
Touched(i, h) ==
  /\ i \in Inode \ {Root} /\ h \in Hash
  /\ node' = [node EXCEPT ![i] = h] /\ UNCHANGED <<entry, next, removed, outlived>>
  /\ revived \subseteq revived' /\ revived' \subseteq revived \union ({i} \intersect removed)
  /\ Live(i) \/ i \in removed
  /\ node[i] # Gone /\ node[i].kind # "none" =>
       h.kind = node[i].kind /\ h.nlink = node[i].nlink
  /\ h.kind # "none" /\ i \in removed => i \in revived'
  /\ h.kind # "none" => \/ node[i] # Gone /\ h.kind = node[i].kind
                        \/ \E c \in Call : Chmods(c) /\ call[c].ino = i /\ h.kind = call[c].kind

\* Nothing is written.
Untouched ==
  UNCHANGED <<node, entry, next, removed, revived>> /\ outlived \subseteq outlived'

\* A new entry n in directory d.
Made(d, n) ==
  /\ d \in Inode /\ n \in Name /\ IsDir(d) /\ entry[d][n] = None
  /\ next >= 1 /\ next < MaxInode
  /\ MakeDir(d, n) \/ MakeFile(d, n)
  /\ UNCHANGED <<removed, revived, outlived>>

\* The empty directory n of d goes.
DirRemoved(d, n) ==
  /\ d \in Inode /\ n \in Name /\ IsDir(d) /\ entry[d][n] # None
  /\ IsDir(entry[d][n]) /\ Empty(entry[d][n])
  /\ RemoveDir(d, n) /\ UNCHANGED <<revived, outlived>>

\* The file n of d goes.
FileRemoved(d, n) ==
  /\ d \in Inode /\ n \in Name /\ IsDir(d) /\ entry[d][n] # None
  /\ ~IsDir(entry[d][n])
  /\ RemoveFile(d, n) /\ UNCHANGED <<revived, outlived>>

\* The root gets its type.
RootMade ==
  /\ next >= 1 /\ (outlived = {} => node[Root] = Gone)
  /\ node' = [node EXCEPT ![Root] = [Stub(Root) EXCEPT !.kind = "dir", !.nlink = 2]]
  /\ UNCHANGED <<entry, next, removed, revived, outlived>>

\* The counter begins.
Counting ==
  next = 0 /\ next' = 1 /\ UNCHANGED <<node, entry, removed, revived, outlived>>

\* Every step of the specification is one of these.
TreeStep ==
  \/ Untouched \/ RootMade \/ Counting
  \/ \E i, h : Touched(i, h)
  \/ \E d, n : Made(d, n) \/ DirRemoved(d, n) \/ FileRemoved(d, n)

\* A field of a live inode is written.
LEMMA LiveTouched ==
  ASSUME TypeOK, NEW i \in Inode \ {Root}, Live(i), NEW h \in Hash, SetNode(i, h),
         h.kind = node[i].kind, h.nlink = node[i].nlink,
         UNCHANGED <<entry, next, removed, revived, outlived>>
  PROVE  Touched(i, h)
  BY DEF Touched, SetNode, Live

\* What the scripts that create do when they answer "ok".
LEMMA MakeDone ==
  ASSUME TypeOK, NEW d \in Inode, NEW n, NEW kind, MakeError(d, n) = "ok", next >= 1,
         Make(kind, d, n), UNCHANGED <<removed, revived, outlived>>
  PROVE  Made(d, n)
<1>1. n \in Name /\ IsDir(d) /\ entry[d][n] = None /\ ~(next >= MaxInode)
  BY DEF MakeError
<1>2. next < MaxInode
  BY <1>1, ConstantsOK DEF TypeOK, Inode
<1> QED
  BY <1>1, <1>2 DEF Made, Make

\* A step of a callback is a step of the tree.
LEMMA CallTreeStep ==
  ASSUME IInv, NEW c \in Call, CallStep(c)
  PROVE  TreeStep
<1> DEFINE i == call[c].ino
           n == Base(call[c].path)
<1>t. TypeOK /\ call[c].ino \in Inode \union {None} /\ revived \subseteq removed
  BY DEF IInv, TypeOK, CallState
<1>1. ASSUME CallMake(c) PROVE TreeStep
  <2>1. call[c].pc = "script" /\ UNCHANGED <<removed, revived, outlived>>
    BY <1>1 DEF CallMake, CallVars
  <2>2. i \in Inode
    BY <2>1, <1>t DEF IInv, CallsHeld
  <2>3. next >= 1
    BY <2>1 DEF IInv, Phases, Serving, Numbered
  <2>4. CASE UNCHANGED tree
    BY <2>1, <2>4 DEF tree, TreeStep, Untouched
  <2>5. CASE \E kind : MakeError(i, n) = "ok" /\ Make(kind, i, n)
    <3>1. Made(i, n)
      BY <1>t, <2>1, <2>2, <2>3, <2>5, MakeDone
    <3> QED BY <3>1 DEF TreeStep
  <2> QED BY <1>1, <2>4, <2>5 DEF CallMake
<1>2. ASSUME CallOwner(c) PROVE TreeStep
  <2> DEFINE h == [Stub(i) EXCEPT !.owned = "set"]
  <2>1. /\ call[c].pc = "owner" /\ node' = [node EXCEPT ![i] = h]
        /\ UNCHANGED <<entry, next, removed, revived, outlived>>
    BY <1>2 DEF CallOwner, CallVars
  <2>2. i \in Inode \ {Root} /\ (Live(i) \/ i \in removed)
    BY <2>1, <1>t DEF IInv, CallsHeld
  <2>3. Stub(i) \in Hash /\ (node[i] # Gone => Stub(i) = node[i])
    BY <1>t, <2>2, StubTyped
  <2>4. h \in Hash /\ h.kind = Stub(i).kind /\ h.nlink = Stub(i).nlink
    BY <2>3 DEF Hash
  <2>5. node[i] = Gone => Stub(i).kind = "none"
    BY DEF Stub, NewNode
  <2>6. h.kind # "none" /\ i \in removed => i \in revived
    BY <2>2, <2>3, <2>4, <2>5 DEF IInv, Kinds
  <2> HIDE DEF h, i
  <2>7. Touched(i, h)
    BY <2>1, <2>2, <2>3, <2>4, <2>5, <2>6 DEF Touched
  <2> QED BY <2>7 DEF TreeStep
<1>3. ASSUME CallOpen(c) PROVE TreeStep
  BY <1>3 DEF CallOpen, CallVars, tree, TreeStep, Untouched
<1>4. ASSUME CallRmdir(c) PROVE TreeStep
  <2>1. call[c].pc = "script" /\ UNCHANGED <<revived, outlived>>
    BY <1>4 DEF CallRmdir, CallVars
  <2>2. i \in Inode
    BY <2>1, <1>t DEF IInv, CallsHeld
  <2>3. CASE UNCHANGED tree /\ UNCHANGED removed
    BY <2>1, <2>3 DEF tree, TreeStep, Untouched
  <2>4. CASE RmdirError(i, n) = "ok" /\ RemoveDir(i, n)
    <3>1. n \in Name /\ IsDir(i) /\ entry[i][n] # None /\ IsDir(entry[i][n]) /\ Empty(entry[i][n])
      BY <2>4 DEF RmdirError
    <3>2. DirRemoved(i, n)
      BY <2>1, <2>2, <2>4, <3>1 DEF DirRemoved
    <3> QED BY <3>2 DEF TreeStep
  <2> QED BY <1>4, <2>3, <2>4 DEF CallRmdir
<1>5. ASSUME CallUnlink(c) PROVE TreeStep
  <2>1. call[c].pc = "script" /\ UNCHANGED <<revived, outlived>>
    BY <1>5 DEF CallUnlink, CallVars
  <2>2. i \in Inode
    BY <2>1, <1>t DEF IInv, CallsHeld
  <2>3. CASE UNCHANGED tree /\ UNCHANGED removed
    BY <2>1, <2>3 DEF tree, TreeStep, Untouched
  <2>4. CASE UnlinkError(i, n) = "ok" /\ RemoveFile(i, n)
    <3>1. n \in Name /\ IsDir(i) /\ entry[i][n] # None /\ ~IsDir(entry[i][n])
      BY <2>4 DEF UnlinkError
    <3>2. FileRemoved(i, n)
      BY <2>1, <2>2, <2>4, <3>1 DEF FileRemoved
    <3> QED BY <3>2 DEF TreeStep
  <2> QED BY <1>5, <2>3, <2>4 DEF CallUnlink
<1>6. ASSUME CallSet(c) PROVE TreeStep
  <2>1. call[c].pc = "hset" /\ UNCHANGED <<entry, next, removed, outlived>>
    BY <1>6 DEF CallSet, CallVars
  <2>2. i \in Inode \ {Root} /\ (Live(i) \/ i \in removed)
    BY <2>1, <1>t DEF IInv, CallsHeld
  <2>3. Stub(i) \in Hash /\ (node[i] # Gone => Stub(i) = node[i])
    BY <1>t, <2>2, StubTyped
  <2>4. CASE call[c].op = "chmod" 
    <3> DEFINE h == [Stub(i) EXCEPT !.kind = call[c].kind]
    <3>1. /\ node' = [node EXCEPT ![i] = h]
          /\ revived' = IF i \in removed THEN revived \union {i} ELSE revived
      BY <1>6, <2>4 DEF CallSet
    <3>2. call[c].kind \in {"dir", "file", "none"}
      BY <1>t DEF TypeOK, CallState
    <3>3. h \in Hash /\ h.kind = call[c].kind /\ h.nlink = Stub(i).nlink
      BY <2>3, <3>2 DEF Hash
    <3>4. node[i] # Gone => node[i].kind \in {"none", call[c].kind}
      BY <2>1, <2>4 DEF IInv, CallsHeld, Chmods
    <3>6. Chmods(c) /\ call[c].ino = i
      BY <2>1, <2>4 DEF Chmods
    <3> HIDE DEF h, i
    <3>5. Touched(i, h)
      BY <2>1, <2>2, <2>3, <3>1, <3>3, <3>4, <3>6 DEF Touched
    <3> QED BY <3>5 DEF TreeStep
  <2>5. CASE call[c].op = "chown"
    <3> DEFINE h == [Stub(i) EXCEPT !.owned = "set"]
    <3>1. node' = [node EXCEPT ![i] = h] /\ revived' = revived
      BY <1>6, <2>5 DEF CallSet
    <3>3. h \in Hash /\ h.kind = Stub(i).kind /\ h.nlink = Stub(i).nlink
      BY <2>3 DEF Hash
    <3>4. node[i] = Gone => Stub(i).kind = "none"
      BY DEF Stub, NewNode
    <3>5. h.kind # "none" /\ i \in removed => i \in revived
      BY <2>2, <2>3, <3>3, <3>4 DEF IInv, Kinds
    <3> HIDE DEF h, i
    <3>6. Touched(i, h)
      BY <2>1, <2>2, <2>3, <3>1, <3>3, <3>4, <3>5 DEF Touched
    <3> QED BY <3>6 DEF TreeStep
  <2> QED BY <1>6, <2>4, <2>5 DEF CallSet
<1> QED
  BY <1>1, <1>2, <1>3, <1>4, <1>5, <1>6 DEF CallStep

\* The inode an initializer writes to.
LEMMA BootInode ==
  ASSUME TypeOK, Lead, Booting, NEW b \in Boot, boot[b].pc \in {"state", "class", "own"}
  PROVE  /\ boot[b].ino \in Inode \ {Root} /\ Live(boot[b].ino) /\ boot[b].ino <= next
         /\ boot[b].ino = Resolve(At(b).path) /\ boot[b].k <= Len(Manifest)
<1>1. /\ boot[b].ino # None /\ boot[b].ino = Resolve(At(b).path)
      /\ boot[b].k <= Len(Manifest)
  BY DEF Booting, Loop
<1>2. At(b).path \in Seq(Name) /\ At(b).path # <<>>
  BY <1>1, AtPath
<1> QED
  BY <1>1, <1>2, ResolveLive

\* Its type is the one the manifest says.
LEMMA BootKind ==
  ASSUME IInv, NEW b \in Boot, boot[b].pc \in {"state", "class", "own"}
  PROVE  /\ node[boot[b].ino].kind = At(b).kind
         /\ node[boot[b].ino].class \in {"unset", At(b).class}
<1>1. boot[b].ino # None /\ boot[b].ino = Resolve(At(b).path) /\ boot[b].k <= Len(Manifest)
  BY RootIsInode, BootInode DEF IInv
<1>2. boot[b].k \in DOMAIN Manifest
  BY <1>1, AtPath DEF IInv
<1>3. ~Serving
  BY DEF IInv, Phases
<1> QED
  BY <1>1, <1>2, <1>3 DEF IInv, Profiled, At

\* A step of an initializer is a step of the tree.
LEMMA BootTreeStep ==
  ASSUME IInv, NEW b \in Boot, BootStep(b)
  PROVE  TreeStep
<1> DEFINE i == boot[b].ino
           Else == UNCHANGED <<entry, next, removed, revived, outlived>>
<1>t. TypeOK /\ Lead /\ Booting /\ Numbered
  BY DEF IInv
<1>1. ASSUME BootLock(b) \/ BootCheck(b) \/ BootRoot(b) \/ BootFind(b) \/ BootFlag(b)
             \/ BootUnlock(b)
      PROVE  TreeStep
  BY <1>1 DEF BootLock, BootCheck, BootRoot, BootFind, BootFlag, BootUnlock, BootVars, tree,
     TreeStep, Untouched
<1>2. ASSUME BootCounter(b) PROVE TreeStep
  BY <1>2 DEF BootCounter, BootVars, TreeStep, Untouched, Counting
<1>3. ASSUME BootRootSet(b) PROVE TreeStep
  <2>1. next >= 1 /\ (outlived = {} => node[Root] = Gone)
    BY <1>3 DEF BootRootSet, IInv, Numbered, Locked
  <2>2. RootMade
    BY <1>3, <2>1 DEF BootRootSet, BootVars, RootMade
  <2> QED BY <2>2 DEF TreeStep
<1>4. ASSUME BootEntry(b) PROVE TreeStep
  BY <1>4 DEF BootEntry, BootVars, tree, TreeStep, Untouched
<1>5. ASSUME BootMake(b) PROVE TreeStep
  <2> DEFINE d == boot[b].dir
             n == Base(At(b).path)
  <2>1. boot[b].pc = "make" /\ UNCHANGED <<removed, revived, outlived>>
    BY <1>5 DEF BootMake, BootVars
  <2>2. d \in Inode
    BY <2>1, <1>t DEF Booting, TypeOK, BootState
  <2>3. next >= 1
    BY <2>1, <1>t DEF Numbered
  <2>4. CASE UNCHANGED tree
    BY <2>1, <2>4 DEF tree, TreeStep, Untouched
  <2>5. CASE MakeError(d, n) = "ok" /\ Make(At(b).kind, d, n)
    <3>1. Made(d, n)
      BY <1>t, <2>1, <2>2, <2>3, <2>5, MakeDone
    <3> QED BY <3>1 DEF TreeStep
  <2>6. (MakeError(d, n) = "ok" /\ Make(At(b).kind, d, n)) \/ UNCHANGED tree
    BY <1>5 DEF BootMake
  <2> QED BY <2>4, <2>5, <2>6
<1>6. ASSUME NEW h \in Hash, boot[b].pc \in {"state", "class", "own"}, SetNode(i, h), Else,
             h.kind = node[i].kind, h.nlink = node[i].nlink
      PROVE  TreeStep
  <2>1. i \in Inode \ {Root} /\ Live(i)
    BY <1>t, <1>6, BootInode
  <2>2. Touched(i, h)
    BY <1>t, <1>6, <2>1, LiveTouched
  <2> QED BY <2>2 DEF TreeStep
<1>7. ASSUME boot[b].pc \in {"state", "class", "own"}
      PROVE  Stub(i) = node[i] /\ Stub(i) \in Hash /\ At(b) \in Entry
  <2>1. i \in Inode /\ Live(i) /\ At(b) \in Entry
    BY <1>t, <1>7, BootInode, AtPath
  <2> QED BY <2>1, <1>t, StubTyped DEF Live
<1>8. ASSUME BootClassify(b) PROVE TreeStep
  <2> DEFINE s == IF At(b).class \in {"ai_backed", "deterministic"} THEN "missing" ELSE "static"
             h == [Stub(i) EXCEPT !.state = IF @ = "unset" THEN s ELSE @]
  <2>1. boot[b].pc = "state" /\ SetNode(i, h) /\ Else
    BY <1>8 DEF BootClassify, BootVars
  <2>2. h \in Hash /\ h.kind = node[i].kind /\ h.nlink = node[i].nlink
    BY <2>1, <1>7 DEF Hash
  <2> QED BY <2>1, <2>2, <1>6
<1>9. ASSUME BootClass(b) PROVE TreeStep
  <2> DEFINE h == [Stub(i) EXCEPT !.class = IF @ = "unset" THEN At(b).class ELSE @]
  <2>1. boot[b].pc = "class" /\ SetNode(i, h) /\ Else
    BY <1>9 DEF BootClass, BootVars
  <2>2. At(b).class \in {"ai_backed", "deterministic", "static"}
    <3>1. At(b).kind = "file"
      BY <2>1 DEF IInv, Progress
    <3>2. boot[b].k \in DOMAIN Manifest
      BY <2>1, <1>t, BootInode, AtPath
    <3>3. At(b).class # "none"
      BY <3>1, <3>2, ManifestOK DEF At
    <3> QED BY <2>1, <1>7, <3>3 DEF Entry
  <2>3. h \in Hash /\ h.kind = node[i].kind /\ h.nlink = node[i].nlink
    BY <2>1, <2>2, <1>7 DEF Hash
  <2> QED BY <2>1, <2>3, <1>6
<1>10. ASSUME BootOwn(b) PROVE TreeStep
  <2> DEFINE h == [Stub(i) EXCEPT !.owned = "set", !.kind = At(b).kind]
  <2>1. boot[b].pc = "own" /\ SetNode(i, h) /\ Else
    BY <1>10 DEF BootOwn, BootVars
  <2>2. At(b).kind = node[i].kind
    BY <2>1, BootKind
  <2>3. h \in Hash /\ h.kind = node[i].kind /\ h.nlink = node[i].nlink
    BY <2>1, <2>2, <1>7 DEF Hash, Entry
  <2> QED BY <2>1, <2>3, <1>6
<1> QED
  BY <1>1, <1>2, <1>3, <1>4, <1>5, <1>8, <1>9, <1>10 DEF BootStep

\* The inode that a step did not create is untouched; initialization and callbacks are
\* the only ones to write.
LEMMA TreeSteps == IInv /\ [Next]_vars => TreeStep
<1> SUFFICES ASSUME IInv, [Next]_vars PROVE TreeStep
  OBVIOUS
<1>1. ASSUME NEW c \in Call, NEW op, NEW path, CallStart(c, op, path)
      PROVE  TreeStep
  BY <1>1 DEF CallStart, CallVars, tree, TreeStep, Untouched
<1>2. ASSUME NEW b \in Boot, BootFail(b) \/ BootCrash(b)
      PROVE  TreeStep
  BY <1>2 DEF BootFail, BootCrash, BootVars, tree, TreeStep, Untouched
<1>3. ASSUME LockExpire
      PROVE  TreeStep
  BY <1>3 DEF LockExpire, BootVars, tree, TreeStep, Untouched
<1>4. CASE UNCHANGED vars
  BY <1>4 DEF vars, TreeStep, Untouched
<1> QED
  BY <1>1, <1>2, <1>3, <1>4, CallTreeStep, BootTreeStep DEF Next, Quiescent

\* What a new entry changes.
LEMMA MadeEffect ==
  ASSUME TreeInv, NEW d, NEW n, Made(d, n)
  PROVE  LET new == next + 1 IN
         /\ new \in Inode \ {Root, d} /\ next' = new /\ new \notin removed
         /\ node[new] = Gone /\ entry[new] = NoEntries
         /\ \A j \in Inode \ {new, d} : node'[j] = node[j]
         /\ node'[new] \in Hash /\ node'[d] \in Hash
         /\ node'[d].kind = "dir" /\ node'[d].kind = node[d].kind
         /\ node'[d].owned = node[d].owned /\ node'[d].state = node[d].state
         /\ node'[d].class = node[d].class /\ node'[new].class = "unset"
         /\ \/ /\ node'[new].kind = "dir" /\ node'[new].nlink = 2
               /\ node'[d].nlink = node[d].nlink + 1
            \/ /\ node'[new].kind = "file" /\ node'[new].nlink = 1
               /\ node'[d].nlink = node[d].nlink
         /\ entry' \in [Inode -> [Name -> Inode \union {None}]]
         /\ node' \in [Inode -> Hash \union {Gone}]
         /\ entry'[d][n] = new
         /\ \A j \in Inode, m \in Name : j # d \/ m # n => entry'[j][m] = entry[j][m]
<1> DEFINE new == next + 1
<1>1. /\ node \in [Inode -> Hash \union {Gone}]
      /\ entry \in [Inode -> [Name -> Inode \union {None}]] /\ next \in Inode
  BY DEF TreeInv, TypeOK, Made, Inode
<1>2. /\ d \in Inode /\ n \in Name /\ IsDir(d) /\ entry[d][n] = None
      /\ next >= 1 /\ next < MaxInode
  BY DEF Made
<1>3. new \in Inode \ {Root} /\ new > next
  BY <1>1, <1>2, RootIsInode DEF Inode, Root
<1>4. node[new] = Gone /\ entry[new] = NoEntries /\ new \notin removed
  <2>1. node[new] = Gone /\ entry[new] = NoEntries
    BY <1>3 DEF TreeInv, Fresh
  <2>2. next \in Int
    BY <1>1 DEF Inode
  <2>3. ASSUME new \in removed PROVE FALSE
    <3>1. new <= next
      BY <2>3 DEF TreeInv, Fresh
    <3> QED BY <3>1, <2>2
  <2> QED BY <2>1, <2>3
<1>5. node[d] # Gone /\ node[d] \in Hash /\ node[d].kind = "dir" /\ d # new
  BY <1>1, <1>2, <1>4 DEF IsDir
<1>6. /\ NewNode("dir", 2) \in Hash /\ NewNode("file", 1) \in Hash
      /\ NewNode("dir", 2).kind = "dir" /\ NewNode("dir", 2).nlink = 2
      /\ NewNode("file", 1).kind = "file" /\ NewNode("file", 1).nlink = 1
      /\ NewNode("dir", 2).class = "unset" /\ NewNode("file", 1).class = "unset"
  BY DEF NewNode, Hash
<1>7. NoEntries \in [Name -> Inode \union {None}] /\ \A m \in Name : NoEntries[m] = None
  BY DEF NoEntries
<1> HIDE DEF new
<1>8. CASE MakeDir(d, n)
  <2> DEFINE h == [node[d] EXCEPT !.nlink = @ + 1]
  <2>1. /\ next' = new
        /\ node' = [node EXCEPT ![new] = NewNode("dir", 2), ![d].nlink = @ + 1]
        /\ entry' = [entry EXCEPT ![d][n] = new, ![new] = NoEntries]
    BY <1>8 DEF MakeDir, new
  <2>2. /\ h \in Hash /\ h.kind = node[d].kind /\ h.nlink = node[d].nlink + 1
        /\ h.owned = node[d].owned /\ h.state = node[d].state /\ h.class = node[d].class
    BY <1>5 DEF Hash
  <2>3. node'[d] = h /\ node'[new] = NewNode("dir", 2)
    BY <2>1, <1>1, <1>2, <1>3, <1>5
  <2>4. \A j \in Inode \ {new, d} : node'[j] = node[j]
    BY <2>1, <1>1
  <2>5. node' \in [Inode -> Hash \union {Gone}]
    BY <2>1, <2>2, <1>1, <1>3, <1>5, <1>6
  <2>6. entry'[new] = NoEntries /\ entry'[d] = [entry[d] EXCEPT ![n] = new]
    BY <2>1, <1>1, <1>2, <1>3, <1>5
  <2>7. \A j \in Inode \ {new, d} : entry'[j] = entry[j]
    BY <2>1, <1>1
  <2>8. entry' \in [Inode -> [Name -> Inode \union {None}]]
    BY <2>1, <1>1, <1>2, <1>3, <1>7
  <2>9. entry'[d][n] = new /\ \A m \in Name : m # n => entry'[d][m] = entry[d][m]
    BY <2>6, <1>1, <1>2
  <2>10. \A j \in Inode, m \in Name : j # d \/ m # n => entry'[j][m] = entry[j][m]
    BY <2>6, <2>7, <2>9, <1>4
  <2> HIDE DEF h
  <2> QED BY <1>3, <1>4, <1>5, <1>6, <2>1, <2>2, <2>3, <2>4, <2>5, <2>8, <2>9, <2>10 DEF new
<1>9. CASE MakeFile(d, n)
  <2>1. /\ next' = new
        /\ node' = [node EXCEPT ![new] = NewNode("file", 1)]
        /\ entry' = [entry EXCEPT ![d][n] = new]
    BY <1>9 DEF MakeFile, new
  <2>2. node'[d] = node[d] /\ node'[new] = NewNode("file", 1)
    BY <2>1, <1>1, <1>2, <1>3, <1>5
  <2>3. \A j \in Inode \ {new, d} : node'[j] = node[j]
    BY <2>1, <1>1
  <2>4. node' \in [Inode -> Hash \union {Gone}]
    BY <2>1, <1>1, <1>3, <1>6
  <2>5. entry'[d] = [entry[d] EXCEPT ![n] = new]
    BY <2>1, <1>1, <1>2
  <2>6. \A j \in Inode \ {d} : entry'[j] = entry[j]
    BY <2>1, <1>1
  <2>7. entry' \in [Inode -> [Name -> Inode \union {None}]]
    BY <2>1, <1>1, <1>2, <1>3
  <2>8. entry'[d][n] = new /\ \A m \in Name : m # n => entry'[d][m] = entry[d][m]
    BY <2>5, <1>1, <1>2
  <2>9. \A j \in Inode, m \in Name : j # d \/ m # n => entry'[j][m] = entry[j][m]
    BY <2>6, <2>8
  <2> QED BY <1>3, <1>4, <1>5, <1>6, <2>1, <2>2, <2>3, <2>4, <2>7, <2>8, <2>9 DEF new
<1> QED
  BY <1>8, <1>9 DEF Made

\* What a removal changes; an inode that is removed leaves no hash.
Unnamed(d, n, i) ==
  /\ i \in Inode \ {Root, d} /\ Live(i) /\ i <= next
  /\ \A m \in Name : entry[i][m] = None
  /\ d \in Inode /\ n \in Name /\ IsDir(d) /\ entry[d][n] = i
  /\ UNCHANGED <<next, revived, outlived>> /\ removed' = removed \union {i}
  /\ node' \in [Inode -> Hash \union {Gone}]
  /\ entry' \in [Inode -> [Name -> Inode \union {None}]]
  /\ node'[i] = Gone
  /\ \A j \in Inode \ {i, d} : node'[j] = node[j]
  /\ node'[d] \in Hash /\ node'[d].kind = "dir" /\ node[d] # Gone /\ node[d].kind = "dir"
  /\ entry'[d][n] = None
  /\ \A j \in Inode, m \in Name : j # d \/ m # n => entry'[j][m] = entry[j][m]
  /\ node'[d].nlink = node[d].nlink - IF IsDir(i) THEN 1 ELSE 0

\* rmdir removes so.
LEMMA DirRemovedEffect ==
  ASSUME TreeInv, NEW d, NEW n, DirRemoved(d, n)
  PROVE  Unnamed(d, n, entry[d][n])
<1> DEFINE i == entry[d][n]
<1>1. /\ node \in [Inode -> Hash \union {Gone}]
      /\ entry \in [Inode -> [Name -> Inode \union {None}]]
  BY DEF TreeInv, TypeOK
<1>2. /\ d \in Inode /\ n \in Name /\ IsDir(d) /\ i # None /\ IsDir(i) /\ Empty(i)
      /\ UNCHANGED <<revived, outlived>>
  BY DEF DirRemoved
<1>3. i \in Inode \ {Root} /\ Live(i) /\ i <= next
  BY <1>1, <1>2 DEF TreeInv, Lead
<1>4. entry[i] = NoEntries /\ \A m \in Name : entry[i][m] = None
  BY <1>2 DEF Empty, NoEntries
<1>5. i # d
  BY <1>2, <1>4
<1>6. node[d] \in Hash /\ node[d] # Gone /\ node[d].kind = "dir"
  BY <1>1, <1>2 DEF IsDir
<1>7. NoEntries \in [Name -> Inode \union {None}]
  BY DEF NoEntries
<1>8. /\ entry' = [entry EXCEPT ![d][n] = None, ![i] = NoEntries]
      /\ node' = [node EXCEPT ![i] = Gone, ![d].nlink = @ - 1]
      /\ removed' = removed \union {i} /\ next' = next
  BY DEF DirRemoved, RemoveDir
<1> HIDE DEF i
<1> DEFINE h == [node[d] EXCEPT !.nlink = @ - 1]
<1>9. h \in Hash /\ h.kind = "dir" /\ h.nlink = node[d].nlink - 1
  BY <1>6 DEF Hash
<1>10. node'[d] = h /\ node'[i] = Gone /\ \A j \in Inode \ {i, d} : node'[j] = node[j]
  BY <1>8, <1>1, <1>2, <1>3, <1>5
<1>11. node' \in [Inode -> Hash \union {Gone}]
  BY <1>8, <1>9, <1>1, <1>2, <1>3, <1>5
<1>12. entry'[i] = NoEntries /\ entry'[d] = [entry[d] EXCEPT ![n] = None]
  BY <1>8, <1>1, <1>2, <1>3, <1>5
<1>13. \A j \in Inode \ {i, d} : entry'[j] = entry[j]
  BY <1>8, <1>1
<1>14. entry' \in [Inode -> [Name -> Inode \union {None}]]
  BY <1>8, <1>1, <1>2, <1>3, <1>7
<1>15. entry'[d][n] = None /\ \A m \in Name : m # n => entry'[d][m] = entry[d][m]
  BY <1>12, <1>1, <1>2
<1>16. \A j \in Inode, m \in Name : j # d \/ m # n => entry'[j][m] = entry[j][m]
  BY <1>12, <1>13, <1>15, <1>4
<1> HIDE DEF h
<1>17. Unnamed(d, n, i)
  BY <1>2, <1>3, <1>4, <1>5, <1>6, <1>8, <1>9, <1>10, <1>11, <1>14, <1>15, <1>16
  DEF Unnamed, i
<1> QED
  BY <1>17 DEF i

\* unlink removes so.
LEMMA FileRemovedEffect ==
  ASSUME TreeInv, NEW d, NEW n, FileRemoved(d, n)
  PROVE  Unnamed(d, n, entry[d][n])
<1> DEFINE i == entry[d][n]
<1>1. /\ node \in [Inode -> Hash \union {Gone}]
      /\ entry \in [Inode -> [Name -> Inode \union {None}]]
  BY DEF TreeInv, TypeOK
<1>2. /\ d \in Inode /\ n \in Name /\ IsDir(d) /\ i # None /\ ~IsDir(i)
      /\ UNCHANGED <<revived, outlived>>
  BY DEF FileRemoved
<1>3. i \in Inode \ {Root} /\ Live(i) /\ i <= next
  BY <1>1, <1>2 DEF TreeInv, Lead
<1>4. i # d /\ \A m \in Name : entry[i][m] = None
  BY <1>2, <1>3 DEF TreeInv, Lead
<1>5. node[i] # Gone /\ node[i].kind = "file" /\ node[i].nlink = 1
  <2>1. node[i] # Gone /\ node[i].kind = "file"
    BY <1>1, <1>2, <1>3 DEF Live, IsDir, Hash
  <2> QED BY <2>1, <1>3 DEF TreeInv, Counted
<1>6. node[d] \in Hash /\ node[d] # Gone /\ node[d].kind = "dir"
  BY <1>1, <1>2 DEF IsDir
<1>8. /\ entry' = [entry EXCEPT ![d][n] = None]
      /\ node' = [node EXCEPT ![i] = IF node[i].nlink > 1
                                     THEN [node[i] EXCEPT !.nlink = node[i].nlink - 1]
                                     ELSE Gone]
      /\ removed' = removed \union {i} /\ next' = next
  BY DEF FileRemoved, RemoveFile
<1> HIDE DEF i
<1>9. node' = [node EXCEPT ![i] = Gone]
  BY <1>5, <1>8
<1>10. node'[d] = node[d] /\ node'[i] = Gone /\ \A j \in Inode \ {i, d} : node'[j] = node[j]
  BY <1>9, <1>1, <1>2, <1>3, <1>4
<1>11. node' \in [Inode -> Hash \union {Gone}]
  BY <1>9, <1>1, <1>3
<1>12. entry'[d] = [entry[d] EXCEPT ![n] = None] /\ \A j \in Inode \ {d} : entry'[j] = entry[j]
  BY <1>8, <1>1, <1>2
<1>13. entry' \in [Inode -> [Name -> Inode \union {None}]]
  BY <1>8, <1>1, <1>2
<1>14. entry'[d][n] = None /\ \A m \in Name : m # n => entry'[d][m] = entry[d][m]
  BY <1>12, <1>1, <1>2
<1>15. \A j \in Inode, m \in Name : j # d \/ m # n => entry'[j][m] = entry[j][m]
  BY <1>12, <1>14
<1>16. node[d].nlink \in Int
  BY <1>6 DEF Hash
<1>17. Unnamed(d, n, i)
  BY <1>2, <1>3, <1>4, <1>6, <1>8, <1>10, <1>11, <1>13, <1>14, <1>15, <1>16 DEF Unnamed, i
<1> QED
  BY <1>17 DEF i

\* The hash of a directory with l links.
LEMMA DirHash ==
  ASSUME NEW h \in Hash, NEW l \in Int
  PROVE  /\ [h EXCEPT !.kind = "dir", !.nlink = l] \in Hash
         /\ [h EXCEPT !.kind = "dir", !.nlink = l].kind = "dir"
         /\ [h EXCEPT !.kind = "dir", !.nlink = l].nlink = l
         /\ [h EXCEPT !.kind = "dir", !.nlink = l].owned = h.owned
         /\ [h EXCEPT !.kind = "dir", !.nlink = l].state = h.state
         /\ [h EXCEPT !.kind = "dir", !.nlink = l].class = h.class
  BY DEF Hash

\* What the write of the root changes.
LEMMA RootMadeEffect ==
  ASSUME TreeInv, RootMade
  PROVE  /\ node' \in [Inode -> Hash \union {Gone}]
         /\ node'[Root] \in Hash /\ node'[Root].kind = "dir" /\ node'[Root].nlink = 2
         /\ \A j \in Inode \ {Root} : node'[j] = node[j]
<1> DEFINE h == [Stub(Root) EXCEPT !.kind = "dir", !.nlink = 2]
<1>1. node \in [Inode -> Hash \union {Gone}] /\ Root \in Inode
  BY RootIsInode DEF TreeInv, TypeOK
<1>2. Stub(Root) \in Hash
  BY RootIsInode, StubTyped DEF TreeInv
<1>3. h \in Hash /\ h.kind = "dir" /\ h.nlink = 2
  <2>1. PICK two \in Int : two = 2
    OBVIOUS
  <2>2. h = [Stub(Root) EXCEPT !.kind = "dir", !.nlink = two]
    BY <2>1
  <2> HIDE DEF h
  <2> QED BY <1>2, <2>1, <2>2, DirHash
<1>4. node' = [node EXCEPT ![Root] = h]
  BY DEF RootMade
<1> HIDE DEF h
<1> QED
  BY <1>1, <1>3, <1>4

\* What writing a field changes.
LEMMA TouchedEffect ==
  ASSUME TreeInv, NEW i, NEW h, Touched(i, h)
  PROVE  /\ node' \in [Inode -> Hash \union {Gone}] /\ node'[i] = h /\ h # Gone
         /\ \A j \in Inode \ {i} : node'[j] = node[j]
         /\ \A j \in Inode : Live(j)' <=> Live(j)
         /\ \A j \in Inode : j \notin removed => (IsDir(j)' <=> IsDir(j))
         /\ \A j \in Inode : IsDir(j) => IsDir(j)'
<1>1. /\ node \in [Inode -> Hash \union {Gone}] /\ i \in Inode /\ h \in Hash
      /\ node' = [node EXCEPT ![i] = h] /\ removed' = removed
  BY DEF TreeInv, TypeOK, Touched
<1>2. node' \in [Inode -> Hash \union {Gone}] /\ node'[i] = h /\ h # Gone
  BY <1>1, GoneOK
<1>3. \A j \in Inode \ {i} : node'[j] = node[j]
  BY <1>1
<1>4. Live(i)' <=> Live(i)
  BY <1>1, <1>2 DEF Touched, Live
<1>5. i \notin removed => (IsDir(i)' <=> IsDir(i))
  BY <1>2 DEF Touched, Live, IsDir
<1>6. IsDir(i) => IsDir(i)'
  BY <1>2 DEF Touched, IsDir
<1> QED
  BY <1>1, <1>2, <1>3, <1>4, <1>5, <1>6 DEF Live, IsDir

------------------------------------------------------------------------------
(* The tree: types, numbers, names and kinds.                               *)

\* The types of the tree.
Trees ==
  /\ node \in [Inode -> Hash \union {Gone}]
  /\ entry \in [Inode -> [Name -> Inode \union {None}]]
  /\ next \in Inode \union {0}
  /\ removed \subseteq Inode /\ revived \subseteq removed

\* Every step leaves the tree well-typed.
LEMMA TreesStep == TreeInv /\ TreeStep => Trees'
<1> SUFFICES ASSUME TreeInv, TreeStep PROVE Trees'
  OBVIOUS
<1>t. Trees
  BY DEF TreeInv, TypeOK, Trees
<1>1. CASE Untouched
  BY <1>t, <1>1 DEF Untouched, Trees
<1>2. CASE RootMade
  BY <1>t, <1>2, RootMadeEffect DEF RootMade, Trees
<1>3. CASE Counting
  BY <1>t, <1>3, RootIsInode DEF Counting, Trees, Root
<1>4. ASSUME NEW i, NEW h, Touched(i, h) PROVE Trees'
  BY <1>t, <1>4, TouchedEffect DEF Touched, Trees
<1>5. ASSUME NEW d, NEW n, Made(d, n) PROVE Trees'
  <2>1. next + 1 \in Inode /\ next' = next + 1 /\ UNCHANGED <<removed, revived>>
    BY <1>5, MadeEffect DEF Made
  <2> QED BY <1>t, <1>5, <2>1, MadeEffect DEF Trees
<1>6. ASSUME NEW d, NEW n, NEW i, Unnamed(d, n, i) PROVE Trees'
  BY <1>t, <1>6 DEF Unnamed, Trees
<1> QED
  BY <1>1, <1>2, <1>3, <1>4, <1>5, <1>6, DirRemovedEffect, FileRemovedEffect DEF TreeStep

\* Numbers beyond the counter are unused.
LEMMA FreshStep == TreeInv /\ TreeStep => Fresh'
<1> SUFFICES ASSUME TreeInv, TreeStep PROVE Fresh'
  OBVIOUS
<1>t. Trees /\ Fresh /\ Inode \subseteq Int /\ next \in Int
  BY RootIsInode DEF TreeInv, TypeOK, Trees, Inode
<1>1. CASE Untouched
  BY <1>t, <1>1 DEF Untouched, Fresh
<1>2. CASE RootMade
  <2>1. \A i \in Inode : i > next => i # Root
    BY <1>2, <1>t DEF RootMade, Root
  <2> QED BY <1>t, <1>2, <2>1 DEF RootMade, Fresh, Trees
<1>3. CASE Counting
  BY <1>t, <1>3 DEF Counting, Fresh, Trees
<1>4. ASSUME NEW i, NEW h, Touched(i, h) PROVE Fresh'
  <2>1. /\ i \in Inode /\ (node[i] # Gone \/ i \in removed)
        /\ entry' = entry /\ next' = next /\ removed' = removed
    BY <1>4 DEF Touched, Live
  <2>2. \A j \in Inode \ {i} : node'[j] = node[j]
    BY <1>4, TouchedEffect
  <2>3. i \in Int /\ i <= next
    BY <2>1, <1>t DEF Fresh
  <2>4. \A j \in Inode : j > next => j # i
    BY <2>3, <1>t
  <2>5. \A j \in Inode : j > next => node'[j] = Gone /\ entry'[j] = NoEntries
    BY <2>1, <2>2, <2>4, <1>t DEF Fresh
  <2> QED BY <1>t, <2>1, <2>5 DEF Fresh
<1>5. ASSUME NEW d, NEW n, Made(d, n) PROVE Fresh'
  <2>1. /\ next' = next + 1 /\ next + 1 \in Inode /\ removed' = removed /\ d \in Inode /\ n \in Name
        /\ \A j \in Inode \ {next + 1, d} : node'[j] = node[j]
        /\ entry' \in [Inode -> [Name -> Inode \union {None}]]
        /\ \A j \in Inode, m \in Name : j # d \/ m # n => entry'[j][m] = entry[j][m]
    BY <1>5, MadeEffect DEF Made
  <2>2. d <= next
    BY <1>5, <1>t DEF Made, IsDir, Fresh
  <2>3. ASSUME NEW j \in Inode, j > next'
        PROVE  node'[j] = Gone /\ entry'[j] = NoEntries
    <3>1. j > next /\ j # next + 1 /\ j # d
      BY <2>1, <2>2, <2>3, <1>t
    <3>2. node[j] = Gone /\ entry[j] = NoEntries
      BY <3>1, <1>t DEF Fresh
    <3>3. entry'[j] = entry[j]
      BY <3>1, <2>1, <1>t DEF Trees
    <3> QED BY <3>1, <3>2, <3>3, <2>1
  <2>4. \A j \in removed' : j <= next'
    BY <2>1, <1>t DEF Fresh, Trees
  <2> QED BY <2>3, <2>4 DEF Fresh
<1>6. ASSUME NEW d, NEW n, NEW i, Unnamed(d, n, i) PROVE Fresh'
  <2>1. d <= next
    BY <1>6, <1>t DEF Unnamed, IsDir, Fresh
  <2>2. ASSUME NEW j \in Inode, j > next PROVE node'[j] = Gone /\ entry'[j] = NoEntries
    <3>1. j # i /\ j # d
      BY <2>1, <2>2, <1>6, <1>t DEF Unnamed
    <3>2. node[j] = Gone /\ entry[j] = NoEntries
      BY <2>2, <1>t DEF Fresh
    <3>3. entry'[j] = entry[j]
      BY <3>1, <1>6, <1>t DEF Trees, Unnamed
    <3> QED BY <3>1, <3>2, <3>3, <1>6 DEF Unnamed
  <2> QED BY <2>2, <1>6, <1>t DEF Unnamed, Fresh, Trees
<1> QED
  BY <1>1, <1>2, <1>3, <1>4, <1>5, <1>6, DirRemovedEffect, FileRemovedEffect DEF TreeStep

\* The entries stay, and what they lead to.
LEMMA LeadKept ==
  ASSUME Lead, Trees, next' >= next, next' \in Int, entry' = entry,
         \A j \in Inode : LiveAt(node, removed, j) => LiveAt(node', removed', j),
         \A j \in Inode : DirAt(node, j) => DirAt(node', j)
  PROVE  Lead'
<1>1. ASSUME NEW d \in Inode, NEW n \in Name, NEW i, i = entry[d][n], i # None
      PROVE  /\ i \in Inode /\ LiveAt(node', removed', i) /\ i <= next' /\ i # Root
             /\ DirAt(node', d)
  <2>1. i \in Inode /\ i \in Int /\ next \in Int
    BY <1>1, RootIsInode DEF Trees, Inode
  <2>2. LiveAt(node, removed, i) /\ i <= next /\ i # Root /\ DirAt(node, d)
    BY <1>1 DEF Lead, Live, IsDir, LiveAt, DirAt
  <2> QED BY <2>1, <2>2
<1> QED
  BY <1>1 DEF Lead, Live, IsDir, LiveAt, DirAt

\* An entry leads to a live inode, and two entries to two.
LEMMA LeadStep == TreeInv /\ TreeStep => Lead'
<1> SUFFICES ASSUME TreeInv, TreeStep PROVE Lead'
  OBVIOUS
<1>t. Trees /\ Lead /\ Inode \subseteq Int /\ next \in Int /\ None \notin Inode
  BY RootIsInode DEF TreeInv, TypeOK, Trees, Inode
<1>1. CASE Untouched
  BY <1>t, <1>1 DEF Untouched, Lead, Live, IsDir
<1>2. CASE RootMade
  <2>1. \A j \in Inode : LiveAt(node, removed, j) => LiveAt(node', removed', j)
    BY <1>2, <1>t, RootMadeEffect, GoneOK DEF RootMade, LiveAt, TreeInv, Kinds
  <2>2. \A j \in Inode : DirAt(node, j) => DirAt(node', j)
    BY <1>2, RootMadeEffect, GoneOK DEF DirAt
  <2>3. entry' = entry /\ next' >= next /\ next' \in Int
    BY <1>2, <1>t DEF RootMade
  <2> QED BY <1>t, <2>1, <2>2, <2>3, LeadKept
<1>3. CASE Counting
  BY <1>3, <1>t, LeadKept DEF Counting
<1>4. ASSUME NEW i, NEW h, Touched(i, h) PROVE Lead'
  <2>1. \A j \in Inode : LiveAt(node, removed, j) => LiveAt(node', removed', j)
    BY <1>4, TouchedEffect DEF LiveAt, Live
  <2>2. \A j \in Inode : DirAt(node, j) => DirAt(node', j)
    BY <1>4, TouchedEffect DEF DirAt, IsDir
  <2>3. entry' = entry /\ next' >= next /\ next' \in Int
    BY <1>4, <1>t DEF Touched
  <2> QED BY <1>t, <2>1, <2>2, <2>3, LeadKept
<1>5. ASSUME NEW d, NEW n, Made(d, n) PROVE Lead'
  <2> DEFINE new == next + 1
  <2>1. /\ new \in Inode \ {Root, d} /\ next' = new /\ new \notin removed
        /\ entry[new] = NoEntries
        /\ \A j \in Inode \ {new, d} : node'[j] = node[j]
        /\ node'[new] \in Hash /\ node'[d] \in Hash
        /\ node'[d].kind = "dir" /\ node'[d].kind = node[d].kind
        /\ node'[new].kind \in {"dir", "file"}
        /\ entry'[d][n] = new
        /\ \A j \in Inode, m \in Name : j # d \/ m # n => entry'[j][m] = entry[j][m]
    BY <1>5, MadeEffect
  <2>2. /\ d \in Inode /\ n \in Name /\ entry[d][n] = None /\ IsDir(d)
        /\ UNCHANGED removed
    BY <1>5 DEF Made
  <2>3. \A j \in Inode, m \in Name : entry[j][m] # new /\ entry[new][m] = None
    <3>1. \A j \in Inode, m \in Name : entry[j][m] # None => entry[j][m] <= next
      BY <1>t DEF Lead
    <3>2. \A m \in Name : entry[new][m] = None
      BY <2>1 DEF NoEntries
    <3> QED BY <3>1, <3>2, <2>1, <1>t DEF Trees
  <2>4. DirAt(node', d) /\ LiveAt(node', removed', new)
    BY <2>1, <2>2, GoneOK DEF DirAt, LiveAt
  <2>5. \A j \in Inode : LiveAt(node, removed, j) => LiveAt(node', removed', j)
    BY <2>1, <2>2, <2>4 DEF LiveAt, DirAt
  <2>6. \A j \in Inode : j # new /\ DirAt(node, j) => DirAt(node', j)
    BY <2>1, <2>4 DEF DirAt
  <2>0. next' = next + 1 /\ new = next + 1 /\ new \in Int /\ next' = new
    BY <2>1, <1>t
  <2> HIDE DEF new
  <2>7. ASSUME NEW j \in Inode, NEW m \in Name, NEW i, i = entry'[j][m], i # None
        PROVE  LiveAt(node', removed', i) /\ i <= next' /\ i # Root /\ DirAt(node', j)
    <3>1. CASE j = d /\ m = n
      <4>1. i = new /\ new <= next' /\ new # Root
        BY <3>1, <2>0, <2>1, <2>7
      <4> QED BY <4>1, <3>1, <2>4
    <3>2. CASE ~(j = d /\ m = n)
      <4>1. entry[j][m] = i
        BY <3>2, <2>7, <2>1
      <4>2. i \in Inode /\ i \in Int
        BY <4>1, <2>7, <1>t DEF Trees
      <4>3. LiveAt(node, removed, i) /\ i <= next /\ i # Root /\ DirAt(node, j)
        BY <4>1, <2>7, <1>t DEF Lead, Live, IsDir, LiveAt, DirAt
      <4>4. j # new
        BY <4>1, <2>3, <2>7
      <4>5. i <= next'
        BY <4>2, <4>3, <2>0, <1>t
      <4> QED BY <4>2, <4>3, <4>4, <4>5, <2>5, <2>6
    <3> QED BY <3>1, <3>2
  <2>8. ASSUME NEW i \in Inode, NEW j \in Inode, NEW l \in Name, NEW m \in Name,
               entry'[i][l] = entry'[j][m], entry'[i][l] # None
        PROVE  i = j /\ l = m
    <3>1. CASE i = d /\ l = n
      BY <3>1, <2>8, <2>1, <2>3
    <3>2. CASE j = d /\ m = n
      BY <3>2, <2>8, <2>1, <2>3
    <3>3. CASE ~(i = d /\ l = n) /\ ~(j = d /\ m = n)
      <4>1. entry'[i][l] = entry[i][l] /\ entry'[j][m] = entry[j][m]
        BY <3>3, <2>1
      <4>2. entry[i][l] = entry[j][m] /\ entry[i][l] # None
        BY <4>1, <2>8
      <4> QED BY <4>2, <1>t DEF Lead
    <3> QED BY <3>1, <3>2, <3>3
  <2> QED BY <2>7, <2>8 DEF Lead, Live, IsDir, LiveAt, DirAt
<1>6. ASSUME NEW d, NEW n, NEW i, Unnamed(d, n, i) PROVE Lead'
  <2>1. /\ i \in Inode \ {Root, d} /\ d \in Inode /\ n \in Name /\ entry[d][n] = i
        /\ removed' = removed \union {i} /\ next' = next
        /\ \A m \in Name : entry[i][m] = None
        /\ \A j \in Inode \ {i, d} : node'[j] = node[j]
        /\ node'[d] \in Hash /\ node'[d].kind = "dir" /\ node[d].kind = "dir"
        /\ entry'[d][n] = None
        /\ \A j \in Inode, m \in Name : j # d \/ m # n => entry'[j][m] = entry[j][m]
    BY <1>6 DEF Unnamed
  <2>2. \A j \in Inode : j # i /\ LiveAt(node, removed, j) => LiveAt(node', removed', j)
    BY <2>1, GoneOK DEF LiveAt
  <2>3. \A j \in Inode : j # i /\ DirAt(node, j) => DirAt(node', j)
    BY <2>1, GoneOK DEF DirAt
  <2>4. ASSUME NEW j \in Inode, NEW m \in Name, entry'[j][m] # None
        PROVE  entry'[j][m] = entry[j][m] /\ entry[j][m] # i
    <3>1. entry'[j][m] = entry[j][m] /\ ~(j = d /\ m = n)
      BY <2>1, <2>4
    <3> QED BY <3>1, <2>1, <2>4, <1>t DEF Lead
  <2>5. ASSUME NEW j \in Inode, NEW m \in Name, NEW k, k = entry'[j][m], k # None
        PROVE  LiveAt(node', removed', k) /\ k <= next' /\ k # Root /\ DirAt(node', j)
    <3>1. entry[j][m] = k /\ k \in Inode /\ k # i
      BY <2>4, <2>5, <1>t DEF Trees
    <3>2. LiveAt(node, removed, k) /\ k <= next /\ k # Root /\ DirAt(node, j)
      BY <3>1, <2>5, <1>t DEF Lead, Live, IsDir, LiveAt, DirAt
    <3>3. j # i
      BY <3>1, <2>1, <2>5
    <3> QED BY <3>1, <3>2, <3>3, <2>1, <2>2, <2>3
  <2>6. ASSUME NEW j \in Inode, NEW k \in Inode, NEW l \in Name, NEW m \in Name,
               entry'[j][l] = entry'[k][m], entry'[j][l] # None
        PROVE  j = k /\ l = m
    <3>1. entry[j][l] = entry[k][m] /\ entry[j][l] # None
      BY <2>4, <2>6
    <3> QED BY <3>1, <1>t DEF Lead
  <2> QED BY <2>5, <2>6 DEF Lead, Live, IsDir, LiveAt, DirAt
<1> QED
  BY <1>1, <1>2, <1>3, <1>4, <1>5, <1>6, DirRemovedEffect, FileRemovedEffect DEF TreeStep

\* The root is a directory; an inode without a type or with a type given back is a
\* removed one.
LEMMA KindsStep == TreeInv /\ TreeStep => Kinds'
<1> SUFFICES ASSUME TreeInv, TreeStep PROVE Kinds'
  OBVIOUS
<1>t. Trees /\ Kinds
  BY DEF TreeInv, TypeOK, Trees
<1>1. CASE Untouched
  BY <1>t, <1>1 DEF Untouched, Kinds
<1>2. CASE RootMade
  <2>1. node'[Root].kind = "dir" /\ \A j \in Inode \ {Root} : node'[j] = node[j]
    BY <1>2, RootMadeEffect
  <2>2. UNCHANGED <<removed, revived>>
    BY <1>2 DEF RootMade
  <2>3. ASSUME NEW j \in Inode, node'[j] # Gone
        PROVE  IF node'[j].kind = "none" THEN j \in removed ELSE j \in removed => j \in revived
    BY <1>t, <2>1, <2>3 DEF Kinds
  <2>4. Root \notin removed
    BY <1>t DEF Kinds
  <2> QED BY <2>1, <2>2, <2>3, <2>4 DEF Kinds
<1>3. CASE Counting
  BY <1>t, <1>3 DEF Counting, Kinds
<1>4. ASSUME NEW i, NEW h, Touched(i, h) PROVE Kinds'
  <2>1. i \in Inode \ {Root} /\ removed' = removed /\ revived \subseteq revived'
        /\ (Live(i) \/ i \in removed) /\ h \in Hash
        /\ (node[i] # Gone /\ node[i].kind # "none" => h.kind = node[i].kind)
        /\ (h.kind # "none" /\ i \in removed => i \in revived')
    BY <1>4 DEF Touched
  <2>2. node'[i] = h /\ \A j \in Inode \ {i} : node'[j] = node[j]
    BY <1>4, TouchedEffect
  <2>3. h.kind = "none" => i \in removed
    BY <2>1 DEF Live
  <2>4. ASSUME NEW j \in Inode, node'[j] # Gone
        PROVE  IF node'[j].kind = "none" THEN j \in removed
               ELSE j \in removed => j \in revived'
    <3>1. CASE j = i
      BY <3>1, <2>1, <2>2, <2>3
    <3>2. CASE j # i
      BY <3>2, <2>1, <2>2, <2>4, <1>t DEF Kinds
    <3> QED BY <3>1, <3>2
  <2>5. node'[Root] = node[Root] /\ Root \notin removed
    BY <2>1, <2>2, <1>t, RootIsInode DEF Kinds
  <2> QED BY <1>t, <2>1, <2>4, <2>5 DEF Kinds
<1>5. ASSUME NEW d, NEW n, Made(d, n) PROVE Kinds'
  <2> DEFINE new == next + 1
  <2>1. /\ new \in Inode \ {Root, d} /\ new \notin removed
        /\ \A j \in Inode \ {new, d} : node'[j] = node[j]
        /\ node'[d].kind = "dir" /\ node'[d].kind = node[d].kind
        /\ node'[new].kind \in {"dir", "file"}
    BY <1>5, MadeEffect
  <2>2. UNCHANGED <<removed, revived>> /\ node[d] # Gone
    BY <1>5 DEF Made, IsDir
  <2> HIDE DEF new
  <2>3. ASSUME NEW j \in Inode, node'[j] # Gone
        PROVE  IF node'[j].kind = "none" THEN j \in removed ELSE j \in removed => j \in revived
    <3>1. CASE j = new
      BY <3>1, <2>1
    <3>2. CASE j = d
      BY <3>2, <2>1, <2>2, <1>t DEF Kinds
    <3>3. CASE j # new /\ j # d
      BY <3>3, <2>1, <2>3, <1>t DEF Kinds
    <3> QED BY <3>1, <3>2, <3>3
  <2>4. node'[Root] # Gone => node'[Root].kind = "dir"
    BY <2>1, <1>t, RootIsInode DEF Kinds
  <2> QED BY <1>t, <2>2, <2>3, <2>4 DEF Kinds
<1>6. ASSUME NEW d, NEW n, NEW i, Unnamed(d, n, i) PROVE Kinds'
  <2>1. /\ i \in Inode \ {Root, d} /\ removed' = removed \union {i} /\ revived' = revived
        /\ node'[i] = Gone /\ node'[d].kind = "dir" /\ node[d] # Gone /\ node[d].kind = "dir"
        /\ d \in Inode /\ \A j \in Inode \ {i, d} : node'[j] = node[j]
    BY <1>6 DEF Unnamed
  <2>2. ASSUME NEW j \in Inode, node'[j] # Gone
        PROVE  IF node'[j].kind = "none" THEN j \in removed'
               ELSE j \in removed' => j \in revived
    <3>1. j # i
      BY <2>1, <2>2
    <3>2. CASE j = d
      BY <3>1, <3>2, <2>1, <1>t DEF Kinds
    <3>3. CASE j # d
      BY <3>1, <3>3, <2>1, <2>2, <1>t DEF Kinds
    <3> QED BY <3>2, <3>3
  <2>3. node'[Root] # Gone => node'[Root].kind = "dir"
    BY <2>1, <1>t, RootIsInode DEF Kinds
  <2> QED BY <1>t, <2>1, <2>2, <2>3 DEF Kinds
<1> QED
  BY <1>1, <1>2, <1>3, <1>4, <1>5, <1>6, DirRemovedEffect, FileRemovedEffect DEF TreeStep

\* What was not removed has a name in a directory that was not removed, or that a chmod
\* brought back.
LEMMA NothingLostStep == TreeInv /\ TreeStep => NothingLost'
<1> SUFFICES ASSUME TreeInv, TreeStep PROVE NothingLost'
  OBVIOUS
<1>t. Trees /\ Lead /\ NothingLost /\ Kinds /\ Fresh /\ None \notin Inode /\ Root \in Inode
  BY RootIsInode DEF TreeInv, TypeOK, Trees
<1>1. SUFFICES ASSUME NEW i \in Inode \ {Root}, LiveAt(node', removed', i)
               PROVE  \E d \in Inode, n \in Name :
                        entry'[d][n] = i /\ (LiveAt(node', removed', d) \/ d \in revived')
  BY DEF NothingLost, Live, LiveAt
<1>2. LiveAt(node, removed, i) =>
        \E d \in Inode, n \in Name :
          entry[d][n] = i /\ (LiveAt(node, removed, d) \/ d \in revived)
  BY <1>t DEF NothingLost, Live, LiveAt
<1>3. ASSUME entry' = entry, LiveAt(node, removed, i), revived \subseteq revived',
             \A j \in Inode : LiveAt(node, removed, j) => LiveAt(node', removed', j)
      PROVE  \E d \in Inode, n \in Name :
               entry'[d][n] = i /\ (LiveAt(node', removed', d) \/ d \in revived')
  BY <1>2, <1>3
<1>4. CASE Untouched
  BY <1>1, <1>3, <1>4 DEF Untouched, LiveAt
<1>5. CASE RootMade
  <2>1. \A j \in Inode : LiveAt(node, removed, j) => LiveAt(node', removed', j)
    BY <1>5, <1>t, RootMadeEffect, GoneOK DEF RootMade, LiveAt, Kinds
  <2>2. LiveAt(node, removed, i)
    BY <1>1, <1>5, RootMadeEffect DEF RootMade, LiveAt
  <2> QED BY <1>3, <1>5, <2>1, <2>2 DEF RootMade
<1>6. CASE Counting
  BY <1>1, <1>3, <1>6 DEF Counting, LiveAt
<1>7. ASSUME NEW j, NEW h, Touched(j, h)
      PROVE  \E d \in Inode, n \in Name :
               entry'[d][n] = i /\ (LiveAt(node', removed', d) \/ d \in revived')
  <2>1. \A k \in Inode : LiveAt(node', removed', k) <=> LiveAt(node, removed, k)
    BY <1>7, TouchedEffect DEF LiveAt, Live
  <2> QED BY <1>1, <1>3, <1>7, <2>1 DEF Touched
<1>8. ASSUME NEW d, NEW n, Made(d, n)
      PROVE  \E c \in Inode, m \in Name :
               entry'[c][m] = i /\ (LiveAt(node', removed', c) \/ c \in revived')
  <2> DEFINE new == next + 1
  <2>1. /\ new \in Inode \ {Root, d} /\ new \notin removed
        /\ \A j \in Inode \ {new, d} : node'[j] = node[j]
        /\ node'[d] \in Hash /\ node'[d].kind = "dir" /\ node[new] = Gone
        /\ entry'[d][n] = new
        /\ \A j \in Inode, m \in Name : j # d \/ m # n => entry'[j][m] = entry[j][m]
    BY <1>8, MadeEffect
  <2>2. /\ d \in Inode /\ n \in Name /\ entry[d][n] = None /\ DirAt(node, d)
        /\ UNCHANGED <<removed, revived>>
    BY <1>8 DEF Made, IsDir, DirAt
  <2> HIDE DEF new
  <2>3. \A j \in Inode : LiveAt(node, removed, j) => LiveAt(node', removed', j)
    BY <2>1, <2>2, GoneOK DEF LiveAt
  <2>4. LiveAt(node', removed', d) \/ d \in revived'
    BY <2>1, <2>2, <1>t, GoneOK DEF LiveAt, DirAt, Kinds
  <2>5. CASE i = new
    BY <2>1, <2>2, <2>4, <2>5
  <2>6. CASE i # new
    <3>1. LiveAt(node, removed, i)
      BY <1>1, <2>1, <2>2, <2>6 DEF LiveAt, DirAt
    <3>2. PICK c \in Inode, m \in Name :
            entry[c][m] = i /\ (LiveAt(node, removed, c) \/ c \in revived)
      BY <1>2, <3>1
    <3>3. entry'[c][m] = i
      BY <3>2, <2>1, <2>2, <1>t
    <3> QED BY <3>2, <3>3, <2>2, <2>3
  <2> QED BY <2>5, <2>6
<1>9. ASSUME NEW d, NEW n, NEW r, Unnamed(d, n, r)
      PROVE  \E c \in Inode, m \in Name :
               entry'[c][m] = i /\ (LiveAt(node', removed', c) \/ c \in revived')
  <2>1. /\ r \in Inode \ {Root, d} /\ d \in Inode /\ n \in Name /\ entry[d][n] = r
        /\ removed' = removed \union {r} /\ UNCHANGED revived /\ node'[r] = Gone
        /\ \A m \in Name : entry[r][m] = None
        /\ \A j \in Inode \ {r, d} : node'[j] = node[j]
        /\ node'[d] \in Hash /\ node'[d].kind = "dir" /\ node[d].kind = "dir" /\ node[d] # Gone
        /\ \A j \in Inode, m \in Name : j # d \/ m # n => entry'[j][m] = entry[j][m]
    BY <1>9 DEF Unnamed
  <2>2. \A j \in Inode : j # r /\ LiveAt(node, removed, j) => LiveAt(node', removed', j)
    BY <2>1, GoneOK DEF LiveAt
  <2>3. i # r /\ LiveAt(node, removed, i)
    BY <1>1, <2>1 DEF LiveAt
  <2>4. PICK c \in Inode, m \in Name :
          entry[c][m] = i /\ (LiveAt(node, removed, c) \/ c \in revived)
    BY <1>2, <2>3
  <2>5. c # r /\ ~(c = d /\ m = n)
    BY <2>1, <2>3, <2>4, <1>t
  <2>6. entry'[c][m] = i
    BY <2>1, <2>4, <2>5
  <2> QED BY <2>1, <2>2, <2>4, <2>5, <2>6
<1> QED
  BY <1>4, <1>5, <1>6, <1>7, <1>8, <1>9, DirRemovedEffect, FileRemovedEffect DEF TreeStep

------------------------------------------------------------------------------
(* Link counts.                                                             *)

\* The names of subdirectories, of any tree.
SubdirsAt(nodes, entries, i) ==
  {n \in Name : entries[i][n] # None /\ DirAt(nodes, entries[i][n])}

\* Subdirs in this state ...
LEMMA SubdirsNow == \A i : Subdirs(i) = SubdirsAt(node, entry, i)
  BY DEF Subdirs, SubdirsAt, IsDir, DirAt

\* ... and of the next.
LEMMA SubdirsNext == \A i \in Inode : Subdirs(i)' = SubdirsAt(node', entry', i)
  BY DEF Subdirs, SubdirsAt, IsDir, DirAt

\* No more names in a directory than inodes.
LEMMA SubdirsFinite ==
  ASSUME Trees, Lead, NEW i \in Inode
  PROVE  /\ IsFiniteSet(SubdirsAt(node, entry, i))
         /\ Cardinality(SubdirsAt(node, entry, i)) \in Nat
<1> DEFINE S == SubdirsAt(node, entry, i)
           f == [n \in S |-> entry[i][n]]
<1>1. f \in [S -> Inode]
  BY DEF Trees, SubdirsAt
<1>2. \A m, n \in S : f[m] = f[n] => m = n
  BY DEF SubdirsAt, Lead
<1>3. f \in Injection(S, Inode)
  BY <1>1, <1>2 DEF Injection, IsInjective
<1>4. IsFiniteSet(Inode)
  BY RootIsInode, FS_Interval DEF Inode
<1>5. IsFiniteSet(S)
  BY <1>3, <1>4, FS_Injection
<1> QED
  BY <1>5, FS_CardinalityType

\* The count of inode i is right.
CountAt(nodes, entries, i) ==
  /\ nodes[i].kind = "dir" => nodes[i].nlink = 2 + Cardinality(SubdirsAt(nodes, entries, i))
  /\ nodes[i].kind = "file" => nodes[i].nlink = 1

\* Link counts follow the tree.
LEMMA CountedStep == TreeInv /\ TreeStep => Counted'
<1> SUFFICES ASSUME TreeInv, TreeStep PROVE Counted'
  OBVIOUS
<1>t. Trees /\ Lead /\ Kinds /\ Fresh /\ None \notin Inode /\ Root \in Inode
  BY RootIsInode DEF TreeInv, TypeOK, Trees
<1>1. \A i \in Inode : LiveAt(node, removed, i) /\ (i = Root => outlived = {}) =>
        CountAt(node, entry, i)
  BY SubdirsNow DEF TreeInv, Counted, Live, LiveAt, CountAt
<1>2. SUFFICES ASSUME NEW i \in Inode, LiveAt(node', removed', i), i = Root => outlived' = {}
               PROVE  CountAt(node', entry', i)
  BY SubdirsNext DEF Counted, Live, LiveAt, CountAt
<1>3. CASE Untouched
  <2>1. outlived' = {} => outlived = {}
    BY <1>3 DEF Untouched
  <2> QED BY <1>1, <1>2, <1>3, <2>1 DEF Untouched
<1>4. CASE RootMade
  <2>0. UNCHANGED <<entry, removed, outlived>>
    BY <1>4 DEF RootMade
  <2>1. \A j \in Inode \ {Root} : DirAt(node', j) <=> DirAt(node, j)
    BY <1>4, RootMadeEffect DEF DirAt
  <2>2. \A n \in Name : entry[i][n] # Root /\ entry[i][n] \in Inode \union {None}
    BY <1>t, RootIsInode DEF Lead, Trees, None, Root
  <2>3. SubdirsAt(node', entry', i) = SubdirsAt(node, entry, i)
    BY <2>0, <2>1, <2>2 DEF SubdirsAt
  <2>4. CASE i # Root
    <3>1. node'[i] = node[i]
      BY <1>4, <2>4, RootMadeEffect
    <3>2. CountAt(node, entry, i)
      BY <1>1, <1>2, <2>0, <2>4, <3>1 DEF LiveAt
    <3> QED BY <3>1, <3>2, <2>3 DEF CountAt
  <2>5. CASE i = Root
    <3>1. node[Root] = Gone
      BY <1>2, <1>4, <2>0, <2>5 DEF RootMade
    <3>2. \A n \in Name : entry[Root][n] = None
      BY <1>t, <3>1 DEF Lead, IsDir
    <3>3. SubdirsAt(node, entry, i) = {}
      BY <2>5, <3>2 DEF SubdirsAt
    <3>4. Cardinality(SubdirsAt(node', entry', i)) = 0
      BY <2>3, <3>3, FS_EmptySet
    <3> QED BY <1>4, <2>5, <3>4, RootMadeEffect DEF CountAt
  <2> QED BY <2>4, <2>5
<1>5. CASE Counting
  BY <1>1, <1>2, <1>5 DEF Counting
<1>6. ASSUME NEW j, NEW h, Touched(j, h) PROVE CountAt(node', entry', i)
  <2>1. \A k \in Inode : k \notin removed => (DirAt(node', k) <=> DirAt(node, k))
    BY <1>6, TouchedEffect DEF DirAt, IsDir
  <2>2. UNCHANGED <<entry, removed, outlived>>
    BY <1>6 DEF Touched
  <2>3. \A n \in Name : entry[i][n] # None => entry[i][n] \in Inode /\ entry[i][n] \notin removed
    BY <1>t DEF Lead, Live, Trees
  <2>4. SubdirsAt(node', entry', i) = SubdirsAt(node, entry, i)
    BY <2>1, <2>2, <2>3 DEF SubdirsAt
  <2>5. LiveAt(node, removed, i)
    BY <1>2, <1>6, TouchedEffect DEF LiveAt, Live
  <2>6. CountAt(node, entry, i)
    BY <1>1, <1>2, <2>2, <2>5
  <2>7. node'[i].kind = node[i].kind /\ node'[i].nlink = node[i].nlink
    BY <1>6, <2>5, TouchedEffect DEF Touched, LiveAt
  <2> QED BY <2>4, <2>6, <2>7 DEF CountAt
<1>7. ASSUME NEW d, NEW n, Made(d, n) PROVE CountAt(node', entry', i)
  <2> DEFINE new == next + 1
             S == SubdirsAt(node, entry, d)
  <2>1. /\ new \in Inode \ {Root, d} /\ new \notin removed /\ node[new] = Gone
        /\ entry[new] = NoEntries
        /\ \A j \in Inode \ {new, d} : node'[j] = node[j]
        /\ node'[new] \in Hash /\ node'[d] \in Hash
        /\ node'[d].kind = "dir" /\ node'[d].kind = node[d].kind
        /\ \/ /\ node'[new].kind = "dir" /\ node'[new].nlink = 2
              /\ node'[d].nlink = node[d].nlink + 1
           \/ /\ node'[new].kind = "file" /\ node'[new].nlink = 1
              /\ node'[d].nlink = node[d].nlink
        /\ entry'[d][n] = new
        /\ \A j \in Inode, m \in Name : j # d \/ m # n => entry'[j][m] = entry[j][m]
    BY <1>7, MadeEffect
  <2>2. /\ d \in Inode /\ n \in Name /\ entry[d][n] = None /\ DirAt(node, d)
        /\ UNCHANGED <<removed, outlived>>
    BY <1>7 DEF Made, IsDir, DirAt
  <2> HIDE DEF new
  <2>3. \A j \in Inode \ {new} : DirAt(node', j) <=> DirAt(node, j)
    BY <2>1, <2>2, GoneOK DEF DirAt
  <2>4. \A j \in Inode, m \in Name : entry[j][m] # None =>
          entry[j][m] \in Inode /\ entry[j][m] # new
    BY <2>1, <1>t DEF Lead, Live, Trees
  <2>5. CASE i = new
    <3>1. \A m \in Name : entry'[new][m] = None
      BY <2>1, <2>2 DEF NoEntries
    <3>2. SubdirsAt(node', entry', new) = {}
      BY <3>1 DEF SubdirsAt
    <3> QED BY <2>1, <2>5, <3>2, FS_EmptySet DEF CountAt
  <2>6. CASE i = d
    <3>1. LiveAt(node, removed, d)
      BY <1>2, <2>1, <2>2, <2>6 DEF LiveAt, DirAt
    <3>2. node[d].nlink = 2 + Cardinality(S)
      BY <1>1, <1>2, <2>1, <2>2, <2>6, <3>1 DEF CountAt
    <3>3. IsFiniteSet(S) /\ Cardinality(S) \in Nat
      BY <1>t, <2>2, SubdirsFinite
    <3>4. n \notin S
      BY <2>2 DEF SubdirsAt
    <3>5. \A m \in Name : m # n =>
            entry'[d][m] = entry[d][m] /\ (m \in SubdirsAt(node', entry', d) <=> m \in S)
      BY <2>1, <2>2, <2>3, <2>4 DEF SubdirsAt
    <3>6. n \in SubdirsAt(node', entry', d) <=> DirAt(node', new)
      BY <2>1, <2>2, <1>t DEF SubdirsAt
    <3>7. SubdirsAt(node', entry', d) \subseteq Name /\ S \subseteq Name
      BY DEF SubdirsAt
    <3> HIDE DEF S
    <3>8. CASE node'[new].kind = "dir"
      <4>1. SubdirsAt(node', entry', d) = S \union {n}
        BY <2>1, <2>2, <3>4, <3>5, <3>6, <3>7, <3>8, GoneOK DEF DirAt
      <4>2. Cardinality(SubdirsAt(node', entry', d)) = Cardinality(S) + 1
        BY <4>1, <3>3, <3>4, FS_AddElement
      <4> QED BY <2>1, <2>6, <3>2, <3>3, <3>8, <4>2 DEF CountAt
    <3>9. CASE node'[new].kind = "file"
      <4>1. SubdirsAt(node', entry', d) = S
        BY <2>2, <3>4, <3>5, <3>6, <3>7, <3>9 DEF DirAt
      <4> QED BY <2>1, <2>6, <3>2, <3>3, <3>9, <4>1 DEF CountAt
    <3> QED BY <2>1, <3>8, <3>9
  <2>7. CASE i # new /\ i # d
    <3>1. node'[i] = node[i] /\ \A m \in Name : entry'[i][m] = entry[i][m]
      BY <2>1, <2>7
    <3>2. SubdirsAt(node', entry', i) = SubdirsAt(node, entry, i)
      BY <3>1, <2>3, <2>4 DEF SubdirsAt
    <3>3. CountAt(node, entry, i)
      BY <1>1, <1>2, <2>2, <3>1 DEF LiveAt
    <3> QED BY <3>1, <3>2, <3>3 DEF CountAt
  <2> QED BY <2>5, <2>6, <2>7
<1>8. ASSUME NEW d, NEW n, NEW r, Unnamed(d, n, r) PROVE CountAt(node', entry', i)
  <2> DEFINE S == SubdirsAt(node, entry, d)
  <2>1. /\ r \in Inode \ {Root, d} /\ d \in Inode /\ n \in Name /\ entry[d][n] = r
        /\ removed' = removed \union {r} /\ UNCHANGED outlived /\ node'[r] = Gone
        /\ \A j \in Inode \ {r, d} : node'[j] = node[j]
        /\ node'[d] \in Hash /\ node'[d].kind = "dir" /\ node[d].kind = "dir" /\ node[d] # Gone
        /\ \A j \in Inode, m \in Name : j # d \/ m # n => entry'[j][m] = entry[j][m]
        /\ entry'[d][n] = None
        /\ node'[d].nlink = node[d].nlink - IF DirAt(node, r) THEN 1 ELSE 0
    BY <1>8 DEF Unnamed, IsDir, DirAt
  <2>2. i # r
    BY <1>2, <2>1 DEF LiveAt
  <2>3. \A j \in Inode \ {r} : DirAt(node', j) <=> DirAt(node, j)
    BY <2>1, GoneOK DEF DirAt
  <2>4. \A j \in Inode, m \in Name : (j # d \/ m # n) /\ entry[j][m] # None =>
          entry[j][m] \in Inode \ {r}
    BY <2>1, <1>t DEF Lead, Trees
  <2>5. CASE i = d
    <3>1. LiveAt(node, removed, d)
      BY <1>2, <2>1, <2>5 DEF LiveAt
    <3>2. node[d].nlink = 2 + Cardinality(S)
      BY <1>1, <1>2, <2>1, <2>5, <3>1 DEF CountAt
    <3>3. IsFiniteSet(S) /\ Cardinality(S) \in Nat
      BY <1>t, <2>1, SubdirsFinite
    <3>4. n \in S <=> DirAt(node, r)
      BY <2>1, <1>t DEF SubdirsAt
    <3>5. \A m \in Name : m # n => (m \in SubdirsAt(node', entry', d) <=> m \in S)
      BY <2>1, <2>3, <2>4 DEF SubdirsAt
    <3>6. n \notin SubdirsAt(node', entry', d)
      BY <2>1 DEF SubdirsAt
    <3>7. SubdirsAt(node', entry', d) \subseteq Name /\ S \subseteq Name
      BY DEF SubdirsAt
    <3> HIDE DEF S
    <3>8. SubdirsAt(node', entry', d) = S \ {n}
      BY <3>5, <3>6, <3>7
    <3>9. Cardinality(SubdirsAt(node', entry', d)) =
            IF DirAt(node, r) THEN Cardinality(S) - 1 ELSE Cardinality(S)
      BY <3>3, <3>4, <3>8, FS_RemoveElement
    <3> QED BY <2>1, <2>5, <3>2, <3>3, <3>9 DEF CountAt
  <2>6. CASE i # d
    <3>1. node'[i] = node[i] /\ \A m \in Name : entry'[i][m] = entry[i][m]
      BY <2>1, <2>2, <2>6
    <3>2. SubdirsAt(node', entry', i) = SubdirsAt(node, entry, i)
      BY <3>1, <2>3, <2>4, <2>6 DEF SubdirsAt
    <3>3. CountAt(node, entry, i)
      BY <1>1, <1>2, <2>1, <3>1 DEF LiveAt
    <3> QED BY <3>1, <3>2, <3>3 DEF CountAt
  <2> QED BY <2>5, <2>6
<1> QED
  BY <1>3, <1>4, <1>5, <1>6, <1>7, <1>8, DirRemovedEffect, FileRemovedEffect DEF TreeStep

------------------------------------------------------------------------------
(* Types                                                                    *)

\* Every step keeps the tree's part of the invariant.
LEMMA TreeInvStep ==
  IInv /\ [Next]_vars => Trees' /\ Fresh' /\ Lead' /\ Kinds' /\ NothingLost' /\ Counted'
<1>1. IInv => TreeInv
  BY DEF IInv, TreeInv
<1> QED
  BY <1>1, TreeSteps, TreesStep, FreshStep, LeadStep, KindsStep, NothingLostStep, CountedStep

------------------------------------------------------------------------------
(* Callbacks and initializers.                                              *)

\* An answer is one of the codes.
LEMMA Answered ==
  ASSUME TypeOK, NEW c \in Call,
         NEW out \in {"none", "ok", "ENOENT", "EEXIST", "ENOTDIR", "EISDIR", "ENOTEMPTY",
                      "ENOSPC", "EINVAL"},
         Answer(c, out)
  PROVE  call' \in [Call -> CallState]
<1> DEFINE r == [call[c] EXCEPT !.pc = "done", !.out = out]
<1>1. call \in [Call -> CallState] /\ call[c] \in CallState
  BY DEF TypeOK
<1>2. r \in CallState
  BY <1>1 DEF CallState
<1>3. call' = [call EXCEPT ![c] = r]
  BY <1>1 DEF Answer
<1> HIDE DEF r
<1> QED
  BY <1>1, <1>2, <1>3

\* The record of a callback stays one.
LEMMA CallsTyped == IInv /\ [Next]_vars => call' \in [Call -> CallState]
<1> SUFFICES ASSUME IInv, [Next]_vars PROVE call' \in [Call -> CallState]
  OBVIOUS
<1>t. TypeOK /\ Lead /\ call \in [Call -> CallState]
  BY DEF IInv, TypeOK
<1>1. ASSUME NEW c \in Call, NEW op \in Op, NEW path \in Target, CallStart(c, op, path)
      PROVE  call' \in [Call -> CallState]
  <2> DEFINE d == Resolve(Parent(path))
             i == Resolve(path)
  <2>1. d \in Inode \union {None} /\ i \in Inode \union {None}
    BY <1>t, TargetPath, ResolveTyped
  <2>2. i # None => Stub(i).kind \in {"dir", "file", "none"}
    BY <1>t, <2>1, StubTyped DEF Hash
  <2>3. CASE Answer(c, "ENOENT")
    BY <1>t, <2>3, Answered
  <2>4. CASE call' = [call EXCEPT ![c].pc = "script", ![c].op = op, ![c].path = path,
                                  ![c].ino = d]
    <3> DEFINE r == [call[c] EXCEPT !.pc = "script", !.op = op, !.path = path, !.ino = d]
    <3> HIDE DEF d
    <3>1. r \in CallState
      BY <1>t, <2>1 DEF CallState
    <3>2. call' = [call EXCEPT ![c] = r]
      BY <1>t, <2>4
    <3> HIDE DEF r
    <3> QED BY <1>t, <3>1, <3>2
  <2>5. CASE /\ call' = [call EXCEPT ![c].pc = "hset", ![c].op = op, ![c].path = path,
                                     ![c].ino = i, ![c].kind = Stub(i).kind]
             /\ i # None
    <3> DEFINE k == Stub(i).kind
    <3>1. k \in {"dir", "file", "none"} /\ i \in Inode \union {None}
      BY <2>1, <2>2, <2>5
    <3>2. call' = [call EXCEPT ![c].pc = "hset", ![c].op = op, ![c].path = path,
                               ![c].ino = i, ![c].kind = k]
      BY <2>5
    <3> DEFINE r == [call[c] EXCEPT !.pc = "hset", !.op = op, !.path = path, !.ino = i,
                                    !.kind = k]
    <3> HIDE DEF k, i
    <3>3. r \in CallState
      BY <1>t, <3>1 DEF CallState
    <3>4. call' = [call EXCEPT ![c] = r]
      BY <1>t, <3>2
    <3> HIDE DEF r
    <3> QED BY <1>t, <3>3, <3>4
  <2> QED BY <1>1, <2>3, <2>4, <2>5 DEF CallStart
<1>2. ASSUME NEW c \in Call, CallMake(c) PROVE call' \in [Call -> CallState]
  <2> DEFINE error == MakeError(call[c].ino, Base(call[c].path))
  <2>1. error \in {"ok", "EINVAL", "ENOTDIR", "EEXIST", "ENOSPC"}
    BY DEF MakeError
  <2>2. CASE Answer(c, error)
    BY <1>t, <2>1, <2>2, Answered
  <2>3. CASE call' = [call EXCEPT ![c].pc = "open"]
    BY <1>t, <2>3 DEF CallState
  <2>4. CASE error = "ok" /\ call' = [call EXCEPT ![c].pc = "owner", ![c].ino = next + 1]
    <3>1. next < MaxInode /\ next \in Nat
      BY <2>4, <1>t, RootIsInode DEF MakeError, TypeOK, Inode
    <3>2. next + 1 \in Inode
      BY <3>1, RootIsInode DEF Inode
    <3> DEFINE r == [call[c] EXCEPT !.pc = "owner", !.ino = next + 1]
    <3>3. r \in CallState
      BY <1>t, <3>2 DEF CallState
    <3>4. call' = [call EXCEPT ![c] = r]
      BY <1>t, <2>4
    <3> HIDE DEF error, r
    <3> QED BY <1>t, <3>3, <3>4
  <2> QED BY <1>2, <2>2, <2>3, <2>4 DEF CallMake
<1>3. ASSUME NEW c \in Call, CallOwner(c) \/ CallOpen(c) \/ CallSet(c)
      PROVE  call' \in [Call -> CallState]
  <2>1. \/ Answer(c, "ok") \/ Answer(c, "ENOENT")
        \/ call' = [call EXCEPT ![c].pc = "open"]
    BY <1>3 DEF CallOwner, CallOpen, CallSet
  <2>2. CASE call' = [call EXCEPT ![c].pc = "open"]
    BY <1>t, <2>2 DEF CallState
  <2> QED BY <1>t, <2>1, <2>2, Answered
<1>4. ASSUME NEW c \in Call, CallRmdir(c) PROVE call' \in [Call -> CallState]
  <2>1. PICK out \in {"ok", "ENOENT", "ENOTEMPTY"} : Answer(c, out)
    BY <1>4 DEF CallRmdir
  <2> QED BY <1>t, <2>1, Answered
<1>5. ASSUME NEW c \in Call, CallUnlink(c) PROVE call' \in [Call -> CallState]
  <2>1. PICK out \in {"ok", "EINVAL", "ENOTDIR", "ENOENT", "EISDIR"} : Answer(c, out)
    BY <1>5 DEF CallUnlink, UnlinkError
  <2> QED BY <1>t, <2>1, Answered
<1>6. CASE call' = call
  BY <1>t, <1>6
<1>7. ASSUME NEW b \in Boot, BootStep(b) \/ BootFail(b) \/ BootCrash(b) PROVE call' = call
  BY <1>7 DEF BootStep, BootLock, BootCheck, BootCounter, BootRoot, BootRootSet, BootEntry,
     BootMake, BootFind, BootClassify, BootClass, BootOwn, BootFlag, BootUnlock, BootFail,
     BootCrash, BootVars
<1>8. ASSUME LockExpire \/ UNCHANGED vars PROVE call' = call
  BY <1>8 DEF LockExpire, BootVars, vars
<1> QED
  BY <1>1, <1>2, <1>3, <1>4, <1>5, <1>6, <1>7, <1>8 DEF Next, CallStep, Quiescent

\* What callbacks do not change.
LEMMA CallOnly ==
  ASSUME NEW c \in Call, NEW op, NEW path, CallStart(c, op, path) \/ CallStep(c)
  PROVE  /\ UNCHANGED <<initialized, lock, boot, failures, outlived>>
         /\ call[c].pc # "idle" \/ CallStart(c, op, path)
  BY DEF CallStart, CallStep, CallMake, CallOwner, CallOpen, CallRmdir, CallUnlink, CallSet,
     CallVars

\* Every step of initialization is one of these, seen from the initializers alone.
LEMMA BootOnly ==
  ASSUME NEW b \in Boot, BootStep(b) \/ BootFail(b) \/ BootCrash(b)
  PROVE  UNCHANGED <<call, removed, revived, outlived>>
  BY DEF BootStep, BootLock, BootCheck, BootCounter, BootRoot, BootRootSet, BootEntry,
     BootMake, BootFind, BootClassify, BootClass, BootOwn, BootFlag, BootUnlock, BootFail,
     BootCrash, BootVars

\* The type of initializers.
Boots == boot \in [Boot -> BootState]

\* What Goto leaves as it was.
LEMMA Went ==
  ASSUME Boots, NEW b \in Boot, NEW pc \in BootPC, Goto(b, pc)
  PROVE  /\ boot'[b].pc = pc /\ boot'[b].k = boot[b].k
         /\ boot'[b].dir = boot[b].dir /\ boot'[b].ino = boot[b].ino
         /\ \A a \in Boot : a # b => boot'[a] = boot[a]
         /\ boot' \in [Boot -> BootState]
  BY DEF Boots, Goto, BootState

\* The record of an initializer stays one.
LEMMA BootsTyped == IInv /\ [Next]_vars => boot' \in [Boot -> BootState]
<1> SUFFICES ASSUME IInv, [Next]_vars PROVE boot' \in [Boot -> BootState]
  OBVIOUS
<1>t. TypeOK /\ Lead /\ Boots /\ Booting /\ Len(Manifest) \in Nat
  BY ConstantsOK DEF IInv, TypeOK, Boots
<1>1. ASSUME NEW b \in Boot, BootStep(b) \/ BootFail(b) \/ BootCrash(b)
      PROVE  boot' \in [Boot -> BootState]
  <2>1. CASE \E pc \in BootPC : Goto(b, pc)
    BY <1>t, <2>1, Went
  <2>2. CASE BootRoot(b)
    <3>1. PICK pc \in BootPC : boot' = [boot EXCEPT ![b].pc = pc, ![b].k = 1]
      BY <2>2 DEF BootRoot, BootPC
    <3> DEFINE r == [boot[b] EXCEPT !.pc = pc, !.k = 1]
    <3>2. boot[b] \in BootState /\ 1 \in 1..(Len(Manifest) + 1)
      BY <1>t DEF Boots
    <3>3. r \in BootState
      BY <3>1, <3>2 DEF BootState
    <3>4. boot' = [boot EXCEPT ![b] = r]
      BY <1>t, <3>1 DEF Boots
    <3> HIDE DEF r
    <3> QED BY <1>t, <3>3, <3>4 DEF Boots
  <2>3. CASE BootEntry(b)
    <3> DEFINE d == Resolve(Parent(At(b).path))
    <3>1. CASE Raise(b)
      BY <2>1, <3>1 DEF Raise, BootPC
    <3>2. CASE boot' = [boot EXCEPT ![b].pc = "make", ![b].dir = d]
      <4>1. boot[b].k <= Len(Manifest)
        BY <2>3 DEF BootEntry
      <4>2. d \in Inode \union {None}
        BY <1>t, <4>1, AtPath, ResolveTyped
      <4> DEFINE r == [boot[b] EXCEPT !.pc = "make", !.dir = d]
      <4> HIDE DEF d
      <4>3. r \in BootState
        BY <1>t, <4>2 DEF Boots, BootState, BootPC
      <4>4. boot' = [boot EXCEPT ![b] = r]
        BY <1>t, <3>2 DEF Boots
      <4> HIDE DEF r
      <4> QED BY <1>t, <4>3, <4>4 DEF Boots
    <3> QED BY <2>3, <3>1, <3>2 DEF BootEntry
  <2>4. CASE BootMake(b)
    <3> DEFINE error == MakeError(boot[b].dir, Base(At(b).path))
    <3>1. CASE Raise(b) \/ Goto(b, "find")
      BY <2>1, <3>1 DEF Raise, BootPC
    <3>2. CASE /\ error = "ok"
               /\ boot' = [boot EXCEPT ![b].pc = AfterMake(At(b), TRUE), ![b].ino = next + 1]
      <4>1. next < MaxInode /\ next \in Nat
        BY <3>2, <1>t, RootIsInode DEF MakeError, TypeOK, Inode
      <4>2. next + 1 \in Inode
        BY <4>1, RootIsInode DEF Inode
      <4>3. AfterMake(At(b), TRUE) \in BootPC
        BY DEF AfterMake, BootPC
      <4> HIDE DEF error
      <4> QED BY <1>t, <3>2, <4>2, <4>3 DEF Boots, BootState
    <3>3. \/ Raise(b) \/ Goto(b, "find")
          \/ /\ error = "ok"
             /\ boot' = [boot EXCEPT ![b].pc = AfterMake(At(b), TRUE), ![b].ino = next + 1]
      BY <2>4 DEF BootMake
    <3> QED BY <3>1, <3>2, <3>3
  <2>5. CASE BootFind(b)
    <3> DEFINE i == Resolve(At(b).path)
               pc == AfterMake(At(b), FALSE)
    <3>1. boot[b].pc = "find" /\ boot' = [boot EXCEPT ![b].pc = pc, ![b].ino = i]
      BY <2>5 DEF BootFind
    <3>2. boot[b].k <= Len(Manifest)
      BY <1>t, <3>1 DEF Booting, Loop
    <3>3. i \in Inode \union {None}
      BY <1>t, <3>2, AtPath, ResolveTyped
    <3>4. pc \in BootPC
      BY DEF AfterMake, BootPC
    <3> HIDE DEF i, pc
    <3> QED BY <1>t, <3>1, <3>3, <3>4 DEF Boots, BootState
  <2>6. CASE BootOwn(b)
    <3>1. /\ boot[b].pc = "own"
          /\ boot' = [boot EXCEPT ![b].pc = "entry", ![b].k = @ + 1, ![b].dir = None,
                                  ![b].ino = None]
      BY <2>6 DEF BootOwn
    <3>2. boot[b].k <= Len(Manifest) /\ boot[b].k \in 1..(Len(Manifest) + 1)
      BY <1>t, <3>1 DEF Booting, Loop, Boots, BootState
    <3>3. boot[b].k + 1 \in 1..(Len(Manifest) + 1)
      BY <1>t, <3>2
    <3> QED BY <1>t, <3>1, <3>3 DEF Boots, BootState, BootPC
  <2>7. ASSUME BootLock(b) \/ BootCheck(b) \/ BootCounter(b) \/ BootRootSet(b)
               \/ BootClassify(b) \/ BootClass(b) \/ BootFlag(b) \/ BootUnlock(b)
               \/ BootFail(b) \/ BootCrash(b)
        PROVE  \E pc \in BootPC : Goto(b, pc)
    BY <2>7 DEF BootLock, BootCheck, BootCounter, BootRootSet, BootClassify, BootClass,
       BootFlag, BootUnlock, BootFail, BootCrash, Raise, BootPC
  <2> QED BY <1>1, <2>1, <2>2, <2>3, <2>4, <2>5, <2>6, <2>7 DEF BootStep
<1>2. ASSUME NEW c \in Call, NEW op, NEW path, CallStart(c, op, path) \/ CallStep(c)
      PROVE  boot' \in [Boot -> BootState]
  BY <1>2, <1>t, CallOnly DEF Boots
<1>3. ASSUME LockExpire \/ UNCHANGED vars PROVE boot' \in [Boot -> BootState]
  BY <1>3, <1>t DEF LockExpire, vars, Boots
<1> QED
  BY <1>1, <1>2, <1>3 DEF Next, Quiescent

\* All types.
LEMMA TypeOKStep == IInv /\ [Next]_vars => TypeOK'
<1> SUFFICES ASSUME IInv, [Next]_vars PROVE TypeOK'
  OBVIOUS
<1>t. TypeOK /\ MaxFailures \in Nat
  BY ConstantsOK DEF IInv
<1>1. Trees' /\ boot' \in [Boot -> BootState] /\ call' \in [Call -> CallState]
  BY TreeInvStep, BootsTyped, CallsTyped
<1>2. ASSUME NEW b \in Boot, BootStep(b) \/ BootFail(b) \/ BootCrash(b)
      PROVE  /\ initialized' \in BOOLEAN /\ lock' \in Boot \union {NoBoot}
             /\ failures' \in 0..MaxFailures /\ outlived' \subseteq Boot
  <2>1. initialized' = initialized \/ initialized' = TRUE
    BY <1>2 DEF BootStep, BootLock, BootCheck, BootCounter, BootRoot, BootRootSet, BootEntry,
       BootMake, BootFind, BootClassify, BootClass, BootOwn, BootFlag, BootUnlock, BootFail,
       BootCrash, BootVars
  <2>2. lock' \in {lock, NoBoot, b}
    BY <1>2 DEF BootStep, BootLock, BootCheck, BootCounter, BootRoot, BootRootSet, BootEntry,
       BootMake, BootFind, BootClassify, BootClass, BootOwn, BootFlag, BootUnlock, BootFail,
       BootCrash, BootVars, Raise
  <2>3. failures' = failures \/ (failures < MaxFailures /\ failures' = failures + 1)
    BY <1>2 DEF BootStep, BootLock, BootCheck, BootCounter, BootRoot, BootRootSet, BootEntry,
       BootMake, BootFind, BootClassify, BootClass, BootOwn, BootFlag, BootUnlock, BootFail,
       BootCrash, BootVars
  <2>4. outlived' = outlived
    BY <1>2, BootOnly
  <2>5. failures' \in 0..MaxFailures
    BY <1>t, <2>3 DEF TypeOK
  <2> QED BY <1>t, <2>1, <2>2, <2>4, <2>5 DEF TypeOK
<1>3. ASSUME NEW c \in Call, NEW op, NEW path, CallStart(c, op, path) \/ CallStep(c)
      PROVE  /\ initialized' \in BOOLEAN /\ lock' \in Boot \union {NoBoot}
             /\ failures' \in 0..MaxFailures /\ outlived' \subseteq Boot
  BY <1>3, <1>t, CallOnly DEF TypeOK
<1>4. ASSUME LockExpire \/ UNCHANGED vars
      PROVE  /\ initialized' \in BOOLEAN /\ lock' \in Boot \union {NoBoot}
             /\ failures' \in 0..MaxFailures /\ outlived' \subseteq Boot
  BY <1>4, <1>t DEF LockExpire, vars, TypeOK
<1>5. /\ initialized' \in BOOLEAN /\ lock' \in Boot \union {NoBoot}
      /\ failures' \in 0..MaxFailures /\ outlived' \subseteq Boot
  BY <1>2, <1>3, <1>4 DEF Next, Quiescent
<1> QED
  BY <1>1, <1>5 DEF TypeOK, Trees

------------------------------------------------------------------------------
(* Phases and numbers                                                       *)

\* A step that only sends initializer b to the next of its program counters.
LEMMA BootMoves ==
  ASSUME Boots, NEW b \in Boot, BootStep(b) \/ BootFail(b) \/ BootCrash(b)
  PROVE  /\ \A a \in Boot : a # b => boot'[a] = boot[a]
         /\ \/ boot[b].pc = "idle" /\ boot'[b].pc = "check"
            \/ boot[b].pc = "check" /\ boot'[b].pc = IF initialized THEN "unlock" ELSE "counter"
            \/ boot[b].pc = "unlock" /\ boot'[b].pc \in {"done", "idle"}
            \/ BootFlag(b) /\ boot'[b].pc = "unlock"
            \/ boot[b].pc \notin {"idle", "done"} /\ boot'[b].pc = "idle"
            \/ /\ boot[b].pc \notin {"idle", "check", "unlock", "done"}
               /\ boot'[b].pc \notin {"idle", "check", "unlock", "done"}
         /\ initialized' = initialized \/ BootFlag(b)
<1> USE DEF Boots
<1>1. CASE BootLock(b)
  BY <1>1, Went DEF BootLock, BootPC
<1>2. CASE BootCheck(b)
  BY <1>2, Went DEF BootCheck, BootPC
<1>3. CASE BootCounter(b)
  BY <1>3, Went DEF BootCounter, BootPC
<1>4. CASE BootRoot(b)
  <2>1. /\ boot[b].pc = "root" /\ initialized' = initialized
        /\ \E pc \in {"hset", "entry"} : boot' = [boot EXCEPT ![b].pc = pc, ![b].k = 1]
    BY <1>4 DEF BootRoot
  <2> QED BY <2>1 DEF BootState
<1>5. CASE BootRootSet(b)
  BY <1>5, Went DEF BootRootSet, BootPC
<1>6. CASE BootEntry(b)
  <2>1. boot[b].pc = "entry" /\ initialized' = initialized
    BY <1>6 DEF BootEntry
  <2>2. CASE Raise(b)
    BY <2>1, <2>2, Went DEF Raise, BootPC
  <2>3. CASE \E d : boot' = [boot EXCEPT ![b].pc = "make", ![b].dir = d]
    BY <2>1, <2>3 DEF BootState
  <2> QED BY <1>6, <2>2, <2>3 DEF BootEntry
<1>7. CASE BootMake(b)
  <2>1. boot[b].pc = "make" /\ initialized' = initialized
    BY <1>7 DEF BootMake
  <2>2. CASE Raise(b) \/ Goto(b, "find")
    BY <2>1, <2>2, Went DEF Raise, BootPC
  <2>3. CASE \E i : boot' = [boot EXCEPT ![b].pc = AfterMake(At(b), TRUE), ![b].ino = i]
    BY <2>1, <2>3 DEF AfterMake, BootState
  <2>4. \/ Raise(b) \/ Goto(b, "find")
        \/ \E i : boot' = [boot EXCEPT ![b].pc = AfterMake(At(b), TRUE), ![b].ino = i]
    BY <1>7 DEF BootMake
  <2> QED BY <2>2, <2>3, <2>4
<1>8. CASE BootFind(b)
  <2>1. /\ boot[b].pc = "find" /\ initialized' = initialized
        /\ \E i : boot' = [boot EXCEPT ![b].pc = AfterMake(At(b), FALSE), ![b].ino = i]
    BY <1>8 DEF BootFind
  <2> QED BY <2>1 DEF AfterMake, BootState
<1>9. CASE BootClassify(b)
  BY <1>9, Went DEF BootClassify, BootPC
<1>10. CASE BootClass(b)
  BY <1>10, Went DEF BootClass, BootPC
<1>11. CASE BootOwn(b)
  <2>1. /\ boot[b].pc = "own" /\ initialized' = initialized
        /\ boot' = [boot EXCEPT ![b].pc = "entry", ![b].k = @ + 1, ![b].dir = None,
                                ![b].ino = None]
    BY <1>11 DEF BootOwn
  <2>2. boot'[b].pc = "entry" /\ \A a \in Boot : a # b => boot'[a] = boot[a]
    BY <2>1 DEF BootState
  <2> QED BY <2>1, <2>2
<1>12. CASE BootFlag(b)
  BY <1>12, Went DEF BootFlag, BootPC
<1>13. CASE BootUnlock(b)
  BY <1>13, Went DEF BootUnlock, BootPC
<1>14. CASE BootFail(b) \/ BootCrash(b)
  BY <1>14, Went DEF BootFail, BootCrash, Raise, BootPC
<1> QED
  BY <1>1, <1>2, <1>3, <1>4, <1>5, <1>6, <1>7, <1>8, <1>9, <1>10, <1>11, <1>12, <1>13, <1>14
  DEF BootStep

\* A callback moves on; the others stay.
LEMMA CallMoves ==
  ASSUME TypeOK, NEW c \in Call, NEW op, NEW path, CallStart(c, op, path) \/ CallStep(c)
  PROVE  /\ call'[c].pc # "idle"
         /\ \A d \in Call : d # c => call'[d] = call[d]
         /\ CallStep(c) => call[c].pc # "idle" /\ call'[c].pc \in {"owner", "open", "done"}
<1> USE DEF TypeOK, CallState
<1>1. CASE CallStart(c, op, path)
  <2>1. call[c].pc = "idle"
    BY <1>1 DEF CallStart
  <2>2. ~CallStep(c)
    BY <2>1 DEF CallStep, CallMake, CallOwner, CallOpen, CallRmdir, CallUnlink, CallSet
  <2> DEFINE d == Resolve(Parent(path))
             i == Resolve(path)
             k == Stub(i).kind
  <2>3. \/ Answer(c, "ENOENT")
        \/ call' = [call EXCEPT ![c].pc = "script", ![c].op = op, ![c].path = path,
                                ![c].ino = d]
        \/ call' = [call EXCEPT ![c].pc = "hset", ![c].op = op, ![c].path = path,
                                ![c].ino = i, ![c].kind = k]
    BY <1>1 DEF CallStart
  <2> HIDE DEF d, i, k
  <2> QED BY <2>2, <2>3 DEF Answer
<1>2. CASE CallMake(c)
  <2>1. call[c].pc = "script"
    BY <1>2 DEF CallMake
  <2>2. \/ \E out : Answer(c, out)
        \/ call' = [call EXCEPT ![c].pc = "open"]
        \/ \E i : call' = [call EXCEPT ![c].pc = "owner", ![c].ino = i]
    BY <1>2 DEF CallMake
  <2> QED BY <2>1, <2>2 DEF Answer
<1>3. CASE CallOwner(c) \/ CallOpen(c) \/ CallRmdir(c) \/ CallUnlink(c) \/ CallSet(c)
  <2>1. call[c].pc # "idle"
    BY <1>3 DEF CallOwner, CallOpen, CallRmdir, CallUnlink, CallSet
  <2>2. \/ \E out : Answer(c, out)
        \/ call' = [call EXCEPT ![c].pc = "open"]
    BY <1>3 DEF CallOwner, CallOpen, CallRmdir, CallUnlink, CallSet
  <2> QED BY <2>1, <2>2 DEF Answer
<1> QED
  BY <1>1, <1>2, <1>3 DEF CallStep

\* Callbacks are served only between initializations.
LEMMA PhasesStep == IInv /\ [Next]_vars => Phases'
<1> SUFFICES ASSUME IInv, [Next]_vars PROVE Phases'
  OBVIOUS
<1>t. TypeOK /\ Boots /\ Phases
  BY DEF IInv, TypeOK, Boots
<1>1. ASSUME NEW c \in Call, NEW op, NEW path, CallStart(c, op, path) \/ CallStep(c)
      PROVE  Phases'
  <2>1. initialized' = initialized /\ boot' = boot
    BY <1>1, CallOnly
  <2>2. initialized /\ \A b \in Boot : boot[b].pc \in {"idle", "check", "unlock", "done"}
    <3>1. CASE call[c].pc # "idle"
      BY <1>t, <3>1 DEF Phases, Serving
    <3>2. CASE CallStart(c, op, path)
      BY <1>t, <3>2 DEF CallStart, Phases
    <3> QED BY <1>1, <3>1, <3>2, CallOnly
  <2>3. Serving'
    BY <1>1, <1>t, CallMoves DEF Serving
  <2> QED BY <1>t, <2>1, <2>2, <2>3 DEF Phases
<1>2. ASSUME NEW b \in Boot, BootStep(b) \/ BootFail(b) \/ BootCrash(b)
      PROVE  Phases'
  <2>1. UNCHANGED <<call, removed>>
    BY <1>2, BootOnly
  <2>2. Serving' <=> Serving
    BY <2>1 DEF Serving
  <2>3. BootFlag(b) => boot[b].pc = "entry" /\ initialized' = TRUE
    BY DEF BootFlag
  <2>4. /\ \A a \in Boot : a # b => boot'[a] = boot[a]
        /\ \/ boot[b].pc = "idle" /\ boot'[b].pc = "check"
           \/ boot[b].pc = "check" /\ boot'[b].pc = IF initialized THEN "unlock" ELSE "counter"
           \/ boot[b].pc = "unlock" /\ boot'[b].pc \in {"done", "idle"}
           \/ BootFlag(b) /\ boot'[b].pc = "unlock"
           \/ boot[b].pc \notin {"idle", "done"} /\ boot'[b].pc = "idle"
           \/ /\ boot[b].pc \notin {"idle", "check", "unlock", "done"}
              /\ boot'[b].pc \notin {"idle", "check", "unlock", "done"}
        /\ initialized' = initialized \/ BootFlag(b)
    BY <1>2, <1>t, BootMoves
  <2> HIDE DEF BootFlag
  <2>5. Serving => initialized' = initialized /\ boot'[b].pc \in {"idle", "check", "unlock", "done"}
    BY <1>t, <2>3, <2>4 DEF Phases
  <2>6. boot'[b].pc \in {"unlock", "done"} => initialized'
    BY <1>t, <2>3, <2>4 DEF Phases, TypeOK
  <2>7. initialized => initialized'
    BY <2>3, <2>4
  <2> QED BY <1>t, <2>1, <2>2, <2>4, <2>5, <2>6, <2>7 DEF Phases
<1>3. ASSUME LockExpire \/ UNCHANGED vars PROVE Phases'
  BY <1>3, <1>t DEF LockExpire, BootVars, vars, Phases, Serving
<1> QED
  BY <1>1, <1>2, <1>3 DEF Next, Quiescent

\* The counter only grows.
LEMMA NextGrows == IInv /\ [Next]_vars => next' >= next /\ next \in Nat /\ next' \in Nat
<1> SUFFICES ASSUME IInv, [Next]_vars PROVE next' >= next /\ next \in Nat /\ next' \in Nat
  OBVIOUS
<1>1. TreeInv /\ TreeStep
  BY TreeSteps DEF IInv, TreeInv
<1>2. next \in Nat /\ next' \in Nat
  BY <1>1, TreesStep, RootIsInode DEF TreeInv, TypeOK, Trees, Inode
<1>3. next' = next \/ next' = next + 1 \/ (next = 0 /\ next' = 1)
  <2>1. ASSUME NEW i, NEW h, Touched(i, h) PROVE next' = next
    BY <2>1 DEF Touched
  <2>2. ASSUME NEW d, NEW n, Made(d, n) PROVE next' = next + 1
    BY <2>2, <1>1, MadeEffect
  <2>3. ASSUME NEW d, NEW n, DirRemoved(d, n) \/ FileRemoved(d, n) PROVE next' = next
    BY <2>3 DEF DirRemoved, FileRemoved, RemoveDir, RemoveFile
  <2> QED BY <1>1, <2>1, <2>2, <2>3 DEF TreeStep, Untouched, RootMade, Counting
<1> QED
  BY <1>2, <1>3

\* Inode numbers in use are below the counter.
LEMMA NumberedStep == IInv /\ [Next]_vars => Numbered'
<1> SUFFICES ASSUME IInv, [Next]_vars PROVE Numbered'
  OBVIOUS
<1>t. TypeOK /\ Boots /\ Lead /\ Phases /\ Numbered /\ Booting
  BY DEF IInv, TypeOK, Boots
<1>l. \A i : (i \in Inode \union {None} \/ i \in Nat) /\ i <= next => i \in Nat /\ i <= next'
  <2>1. next' >= next /\ next \in Nat /\ next' \in Nat
    BY NextGrows
  <2>2. \A i : i \in Inode \union {None} => i \in Nat
    BY RootIsInode DEF Inode, None
  <2>3. \A i \in Nat : i <= next => i <= next'
    BY <2>1
  <2> QED BY <2>2, <2>3
<1>n. next' >= next /\ next \in Nat /\ next' \in Nat /\ Inode \subseteq Nat
  BY NextGrows, RootIsInode DEF Inode
<1>c. call \in [Call -> CallState] /\ \A c \in Call : call[c].ino \in Nat /\ call[c].ino <= next'
  <2>1. \A c \in Call : call[c].ino \in Inode \union {None} /\ call[c].ino <= next
    BY <1>t DEF TypeOK, CallState, Numbered
  <2> QED BY <2>1, <1>t, <1>l DEF TypeOK
<1>b. \A b \in Boot : boot[b].ino <= next' /\ boot[b].dir <= next'
  <2>1. \A b \in Boot : /\ boot[b].ino \in Inode \union {None}
                        /\ boot[b].dir \in Inode \union {None}
                        /\ boot[b].ino <= next /\ boot[b].dir <= next
    BY <1>t DEF Boots, BootState, Numbered
  <2> QED BY <2>1, <1>l
<1>1. ASSUME NEW c \in Call, NEW op \in Op, NEW path \in Target,
             CallStart(c, op, path) \/ CallStep(c)
      PROVE  Numbered'
  <2>1. initialized' = initialized /\ boot' = boot
    BY <1>1, CallOnly
  <2>2. call'[c].ino <= next'
    <3>1. CASE CallStart(c, op, path)
      <4> DEFINE d == Resolve(Parent(path))
                 i == Resolve(path)
      <4>1. next >= 1
        BY <3>1, <1>t DEF CallStart, Phases, Numbered
      <4>2. /\ d \in Inode \union {None} /\ d <= next
            /\ i \in Inode \union {None} /\ i <= next
        BY <1>t, <4>1, TargetPath, ResolveTyped
      <4>3. d <= next' /\ i <= next'
        BY <4>2, <1>l
      <4>4. \/ Answer(c, "ENOENT")
            \/ call' = [call EXCEPT ![c].pc = "script", ![c].op = op, ![c].path = path,
                                    ![c].ino = d]
            \/ \E k : call' = [call EXCEPT ![c].pc = "hset", ![c].op = op, ![c].path = path,
                                           ![c].ino = i, ![c].kind = k]
        BY <3>1 DEF CallStart
      <4> HIDE DEF d, i
      <4> QED BY <1>c, <4>3, <4>4 DEF Answer, CallState
    <3>2. CASE CallMake(c)
      <4>1. \/ \E out : Answer(c, out)
            \/ call' = [call EXCEPT ![c].pc = "open"]
            \/ /\ MakeError(call[c].ino, Base(call[c].path)) = "ok"
               /\ \E k : Make(k, call[c].ino, Base(call[c].path))
               /\ call' = [call EXCEPT ![c].pc = "owner", ![c].ino = next + 1]
        BY <3>2 DEF CallMake
      <4>2. (\E k : Make(k, call[c].ino, Base(call[c].path))) => next' = next + 1
        BY DEF Make, MakeDir, MakeFile
      <4> QED BY <1>c, <1>n, <4>1, <4>2 DEF Answer, CallState
    <3>3. CASE CallOwner(c) \/ CallOpen(c) \/ CallRmdir(c) \/ CallUnlink(c) \/ CallSet(c)
      <4>1. \/ \E out : Answer(c, out)
            \/ call' = [call EXCEPT ![c].pc = "open"]
        BY <3>3 DEF CallOwner, CallOpen, CallRmdir, CallUnlink, CallSet
      <4> QED BY <1>c, <4>1 DEF Answer, CallState
    <3> QED BY <1>1, <3>1, <3>2, <3>3 DEF CallStep
  <2>3. \A d \in Call : d # c => call'[d] = call[d]
    BY <1>1, <1>t, CallMoves
  <2>4. \A d \in Call : call'[d].ino <= next'
    BY <1>c, <2>2, <2>3
  <2>5. next >= 1 => next' >= 1
    BY <1>n
  <2> QED BY <1>t, <1>b, <2>1, <2>4, <2>5 DEF Numbered
<1>2. ASSUME NEW b \in Boot, BootStep(b) \/ BootFail(b) \/ BootCrash(b)
      PROVE  Numbered'
  <2>1. call' = call
    BY <1>2, BootOnly
  <2>2. /\ \A a \in Boot : a # b => boot'[a] = boot[a]
        /\ initialized' = initialized \/ BootFlag(b)
        /\ boot'[b].pc \notin {"idle", "check", "counter"} /\ ~BootCounter(b) =>
             \/ boot[b].pc = "check" /\ initialized
             \/ boot[b].pc \notin {"idle", "check", "counter"}
    <3>1. boot[b].pc = "counter" /\ BootStep(b) => BootCounter(b)
      BY DEF BootStep, BootLock, BootCheck, BootRoot, BootRootSet, BootEntry, BootMake,
         BootFind, BootClassify, BootClass, BootOwn, BootFlag, BootUnlock
    <3>2. BootFail(b) \/ BootCrash(b) => boot'[b].pc = "idle"
      BY <1>t, Went DEF BootFail, BootCrash, Raise, BootPC
    <3>3. boot[b].pc = "check" \/ boot[b].pc = "idle" => ~BootFlag(b)
      BY DEF BootFlag
    <3>4. /\ \A a \in Boot : a # b => boot'[a] = boot[a]
          /\ initialized' = initialized \/ BootFlag(b)
          /\ boot[b].pc = "check" /\ boot'[b].pc \notin {"idle", "check", "counter"} =>
               initialized
          /\ boot[b].pc = "idle" => boot'[b].pc \in {"check"}
      <4> HIDE DEF BootFlag
      <4> QED BY <1>2, <1>t, <3>3, BootMoves
    <3> QED BY <1>2, <3>1, <3>2, <3>4
  <2>3. BootCounter(b) => next' >= 1
    BY <1>n DEF BootCounter
  <2>4. BootFlag(b) => boot[b].pc = "entry"
    BY DEF BootFlag
  <2>5. initialized => next >= 1
    BY <1>t DEF Numbered
  <2>6. boot[b].pc \notin {"idle", "check", "counter"} => next >= 1
    BY <1>t DEF Numbered
  <2>7. next >= 1 => next' >= 1
    BY <1>n
  <2>8. boot'[b].ino <= next' /\ boot'[b].dir <= next'
    <3>1. CASE \E pc \in BootPC : Goto(b, pc)
      BY <3>1, <1>t, <1>b, Went
    <3>2. CASE BootRoot(b)
      <4>1. PICK pc : boot' = [boot EXCEPT ![b].pc = pc, ![b].k = 1]
        BY <3>2 DEF BootRoot
      <4> QED BY <4>1, <1>t, <1>b DEF Boots, BootState
    <3>3. CASE BootEntry(b)
      <4> DEFINE d == Resolve(Parent(At(b).path))
      <4>1. boot[b].k <= Len(Manifest) /\ boot[b].pc = "entry"
        BY <3>3 DEF BootEntry
      <4>2. d \in Inode \union {None} /\ d <= next
        BY <1>t, <4>1, <2>6, AtPath, ResolveTyped
      <4>3. d <= next'
        BY <4>2, <1>l
      <4>4. CASE Raise(b)
        BY <3>1, <4>4 DEF Raise, BootPC
      <4>5. CASE boot' = [boot EXCEPT ![b].pc = "make", ![b].dir = d]
        <5> HIDE DEF d
        <5> QED BY <1>t, <1>b, <4>3, <4>5 DEF Boots, BootState
      <4> QED BY <3>3, <4>4, <4>5 DEF BootEntry
    <3>4. CASE BootMake(b)
      <4>1. CASE Raise(b) \/ Goto(b, "find")
        BY <3>1, <4>1 DEF Raise, BootPC
      <4>2. CASE /\ next' = next + 1
                 /\ boot' = [boot EXCEPT ![b].pc = AfterMake(At(b), TRUE), ![b].ino = next + 1]
        BY <1>t, <1>b, <1>n, <4>2 DEF Boots, BootState
      <4>3. \/ Raise(b) \/ Goto(b, "find")
            \/ /\ next' = next + 1
               /\ boot' = [boot EXCEPT ![b].pc = AfterMake(At(b), TRUE), ![b].ino = next + 1]
        BY <3>4 DEF BootMake, Make, MakeDir, MakeFile
      <4> QED BY <4>1, <4>2, <4>3
    <3>5. CASE BootFind(b)
      <4> DEFINE i == Resolve(At(b).path)
                 pc == AfterMake(At(b), FALSE)
      <4>1. boot[b].pc = "find" /\ boot' = [boot EXCEPT ![b].pc = pc, ![b].ino = i]
        BY <3>5 DEF BootFind
      <4>2. boot[b].k <= Len(Manifest)
        BY <1>t, <4>1 DEF Booting, Loop
      <4>3. i \in Inode \union {None} /\ i <= next
        BY <1>t, <2>6, <4>1, <4>2, AtPath, ResolveTyped
      <4>4. i <= next'
        BY <4>3, <1>l
      <4> HIDE DEF i, pc
      <4> QED BY <1>t, <1>b, <4>1, <4>4 DEF Boots, BootState
    <3>6. CASE BootOwn(b)
      <4>1. boot' = [boot EXCEPT ![b].pc = "entry", ![b].k = @ + 1, ![b].dir = None,
                                 ![b].ino = None]
        BY <3>6 DEF BootOwn
      <4>2. boot'[b].ino = None /\ boot'[b].dir = None
        BY <4>1, <1>t DEF Boots, BootState
      <4> QED BY <4>2, <1>n DEF None
    <3>7. ASSUME BootLock(b) \/ BootCheck(b) \/ BootCounter(b) \/ BootRootSet(b)
                 \/ BootClassify(b) \/ BootClass(b) \/ BootFlag(b) \/ BootUnlock(b)
                 \/ BootFail(b) \/ BootCrash(b)
          PROVE  \E pc \in BootPC : Goto(b, pc)
      BY <3>7 DEF BootLock, BootCheck, BootCounter, BootRootSet, BootClassify, BootClass,
         BootFlag, BootUnlock, BootFail, BootCrash, Raise, BootPC
    <3> QED BY <1>2, <3>1, <3>2, <3>3, <3>4, <3>5, <3>6, <3>7 DEF BootStep
  <2>9. initialized' => next' >= 1
    BY <2>2, <2>4, <2>5, <2>6, <2>7
  <2>10. boot'[b].pc \notin {"idle", "check", "counter"} => next' >= 1
    BY <2>2, <2>3, <2>5, <2>6, <2>7
  <2>11. \A a \in Boot : (a # b /\ boot'[a].pc \notin {"idle", "check", "counter"}) => next' >= 1
    BY <1>t, <2>2, <2>7 DEF Numbered
  <2> QED BY <1>b, <1>c, <2>1, <2>2, <2>8, <2>9, <2>10, <2>11 DEF Numbered
<1>3. ASSUME LockExpire \/ UNCHANGED vars PROVE Numbered'
  BY <1>3, <1>t DEF LockExpire, BootVars, tree, vars, Numbered
<1>4. "mkdir" \in Op /\ \E path \in Target : TRUE
  BY ConstantsOK DEF Op
<1>5. ASSUME NEW c \in Call, CallStep(c) PROVE Numbered'
  BY <1>1, <1>4, <1>5
<1> QED
  BY <1>1, <1>2, <1>3, <1>5 DEF Next, Quiescent

------------------------------------------------------------------------------
(* Callbacks                                                                *)

\* An inode that lives or was removed stays so; it has the type it had, or one that a
\* chmod gives back.
LEMMA HeldStep ==
  ASSUME IInv, [Next]_vars, NEW i \in Inode \ {Root}, Live(i) \/ i \in removed
  PROVE  /\ LiveAt(node', removed', i) \/ i \in removed'
         /\ node'[i] # Gone /\ node'[i].kind # "none" =>
              \/ node[i] # Gone /\ node'[i].kind = node[i].kind
              \/ \E c \in Call : Chmods(c) /\ call[c].ino = i /\ node'[i].kind = call[c].kind
<1>t. TreeInv /\ TreeStep
  BY TreeSteps DEF IInv, TreeInv
<1>1. CASE UNCHANGED <<node, removed>>
  BY <1>1 DEF Live, LiveAt
<1>2. CASE RootMade
  BY <1>2, <1>t, RootMadeEffect DEF Live, LiveAt, RootMade
<1>3. ASSUME NEW j, NEW h, Touched(j, h)
      PROVE  /\ LiveAt(node', removed', i) \/ i \in removed'
             /\ node'[i] # Gone /\ node'[i].kind # "none" =>
                  \/ node[i] # Gone /\ node'[i].kind = node[i].kind
                  \/ \E c \in Call : Chmods(c) /\ call[c].ino = i /\ node'[i].kind = call[c].kind
  <2>1. removed' = removed /\ j \in Inode
    BY <1>3 DEF Touched
  <2>2. node'[j] = h /\ \A k \in Inode \ {j} : node'[k] = node[k]
    BY <1>3, <1>t, TouchedEffect
  <2>3. CASE i = j
    <3>1. h.kind # "none" => \/ node[i] # Gone /\ h.kind = node[i].kind
                             \/ \E c \in Call :
                                  Chmods(c) /\ call[c].ino = i /\ h.kind = call[c].kind
      BY <1>3, <2>3 DEF Touched
    <3>2. Live(i) => LiveAt(node', removed', i)
      BY <1>3, <2>1, <2>2, <2>3, <1>t, TouchedEffect DEF Live, LiveAt, Touched
    <3> QED BY <2>1, <2>2, <2>3, <3>1, <3>2
  <2>4. CASE i # j
    BY <2>1, <2>2, <2>4 DEF Live, LiveAt
  <2> QED BY <2>3, <2>4
<1>4. ASSUME NEW d, NEW n, Made(d, n)
      PROVE  /\ LiveAt(node', removed', i) \/ i \in removed'
             /\ node'[i] # Gone /\ node'[i].kind # "none" =>
                  node[i] # Gone /\ node'[i].kind = node[i].kind
  <2>1. removed' = removed /\ d \in Inode /\ node[d] # Gone
    BY <1>4 DEF Made, IsDir
  <2>2. /\ node[next + 1] = Gone /\ next + 1 \notin removed
        /\ \A j \in Inode \ {next + 1, d} : node'[j] = node[j]
        /\ node'[d] \in Hash /\ node'[d].kind = "dir" /\ node'[d].kind = node[d].kind
    BY <1>4, <1>t, MadeEffect
  <2>3. i # next + 1
    BY <2>2 DEF Live
  <2> QED BY <2>1, <2>2, <2>3, GoneOK DEF Live, LiveAt
<1>5. ASSUME NEW d, NEW n, NEW k, Unnamed(d, n, k)
      PROVE  /\ LiveAt(node', removed', i) \/ i \in removed'
             /\ node'[i] # Gone /\ node'[i].kind # "none" =>
                  node[i] # Gone /\ node'[i].kind = node[i].kind
  BY <1>5, GoneOK DEF Unnamed, Live, LiveAt
<1>6. ASSUME NEW d, NEW n, DirRemoved(d, n) \/ FileRemoved(d, n)
      PROVE  /\ LiveAt(node', removed', i) \/ i \in removed'
             /\ node'[i] # Gone /\ node'[i].kind # "none" =>
                  node[i] # Gone /\ node'[i].kind = node[i].kind
  BY <1>6, <1>5, <1>t, DirRemovedEffect, FileRemovedEffect
<1> QED
  BY <1>1, <1>2, <1>3, <1>4, <1>6, <1>t DEF TreeStep, Untouched, Counting

\* What a callback knows of its inode.
Held(c) ==
  /\ call[c].pc \in {"script", "owner", "hset"} => call[c].ino # None
  /\ call[c].pc \in {"owner", "hset"} =>
       call[c].ino # Root /\ (Live(call[c].ino) \/ call[c].ino \in removed)
  /\ Chmods(c) =>
       /\ call[c].kind # "none"
       /\ node[call[c].ino] # Gone => node[call[c].ino].kind \in {"none", call[c].kind}

\* It stays true while other callbacks move.
LEMMA HeldKept ==
  ASSUME IInv, [Next]_vars, NEW c \in Call, call'[c] = call[c]
  PROVE  Held(c)'
<1> DEFINE i == call[c].ino
<1>1. Held(c)
  BY DEF IInv, CallsHeld, Held
<1>2. CASE call[c].pc \in {"owner", "hset"}
  <2>1. i \in Inode \ {Root} /\ (Live(i) \/ i \in removed)
    BY <1>1, <1>2 DEF IInv, TypeOK, CallState, Held
  <2>2. \A d \in Call : Chmods(c) /\ Chmods(d) /\ call[d].ino = i => call[d].kind = call[c].kind
    BY DEF IInv, CallsHeld
  <2>3. /\ LiveAt(node', removed', i) \/ i \in removed'
        /\ node'[i] # Gone /\ node'[i].kind # "none" =>
              \/ node[i] # Gone /\ node'[i].kind = node[i].kind
              \/ \E d \in Call : Chmods(d) /\ call[d].ino = i /\ node'[i].kind = call[d].kind
    BY <2>1, HeldStep
  <2>4. Chmods(c) /\ node'[i] # Gone => node'[i].kind \in {"none", call[c].kind}
    BY <1>1, <2>2, <2>3 DEF Held
  <2> QED BY <1>1, <2>1, <2>3, <2>4 DEF Held, Chmods, LiveAt, Live
<1>3. CASE call[c].pc \notin {"owner", "hset"}
  BY <1>1, <1>3 DEF Held, Chmods
<1> QED BY <1>2, <1>3

\* A callback that begins has an inode in the tree.
LEMMA HeldAtStart ==
  ASSUME IInv, NEW c \in Call, NEW op \in Op, NEW path \in Target, CallStart(c, op, path)
  PROVE  /\ Held(c)'
         /\ Chmods(c)' => /\ call'[c].ino \in Inode /\ Live(call'[c].ino)
                          /\ call'[c].kind = node[call'[c].ino].kind
<1> DEFINE d == Resolve(Parent(path))
           i == Resolve(path)
           k == Stub(i).kind
<1>t. TypeOK /\ Lead /\ call \in [Call -> CallState]
  BY DEF IInv, TypeOK
<1>1. \/ Answer(c, "ENOENT")
      \/ /\ d # None
         /\ call' = [call EXCEPT ![c].pc = "script", ![c].op = op, ![c].path = path, ![c].ino = d]
      \/ /\ i # None
         /\ call' = [call EXCEPT ![c].pc = "hset", ![c].op = op, ![c].path = path,
                                 ![c].ino = i, ![c].kind = k]
  BY DEF CallStart
<1>2. UNCHANGED <<node, removed>>
  BY DEF CallStart, tree
<1>3. i # None => i \in Inode \ {Root} /\ Live(i)
  BY <1>t, TargetPath, ResolveLive
<1>4. i # None => node[i] # Gone /\ k = node[i].kind /\ k # "none"
  BY <1>3 DEF Live, Stub
<1>5. LiveAt(node', removed', i) <=> Live(i)
  BY <1>2 DEF LiveAt, Live
<1> HIDE DEF d, i, k
<1>6. CASE Answer(c, "ENOENT")
  <2>1. call'[c].pc = "done"
    BY <1>6, <1>t DEF Answer, CallState
  <2> QED BY <2>1 DEF Held, Chmods
<1>7. CASE /\ d # None
           /\ call' = [call EXCEPT ![c].pc = "script", ![c].op = op, ![c].path = path, ![c].ino = d]
  <2>1. call'[c].pc = "script" /\ call'[c].ino = d
    BY <1>7, <1>t DEF CallState
  <2> QED BY <1>7, <2>1 DEF Held, Chmods
<1>8. CASE /\ i # None
           /\ call' = [call EXCEPT ![c].pc = "hset", ![c].op = op, ![c].path = path,
                                   ![c].ino = i, ![c].kind = k]
  <2>1. call'[c].pc = "hset" /\ call'[c].ino = i /\ call'[c].kind = k
    BY <1>8, <1>t DEF CallState
  <2> QED BY <1>2, <1>3, <1>4, <1>5, <1>8, <2>1 DEF Held, Chmods, LiveAt, Live
<1> QED BY <1>1, <1>6, <1>7, <1>8

\* A callback that goes on has its new inode, or needs none.
LEMMA HeldAtStep ==
  ASSUME IInv, NEW c \in Call, CallStep(c)
  PROVE  Held(c)' /\ ~Chmods(c)'
<1> DEFINE d == call[c].ino
           n == Base(call[c].path)
           new == next + 1
<1>t. TypeOK /\ TreeInv /\ call \in [Call -> CallState]
  BY DEF IInv, TreeInv, TypeOK
<1>1. call'[c].pc \in {"owner", "open", "done"}
  BY <1>t, CallMoves
<1>2. ~Chmods(c)'
  BY <1>1 DEF Chmods
<1>3. CASE call'[c].pc = "owner"
  <2>1. CallMake(c)
    <3>1. ASSUME CallOwner(c) \/ CallOpen(c) \/ CallRmdir(c) \/ CallUnlink(c) \/ CallSet(c)
          PROVE  FALSE
      <4>1. \/ \E out : Answer(c, out)
            \/ call' = [call EXCEPT ![c].pc = "open"]
        BY <3>1 DEF CallOwner, CallOpen, CallRmdir, CallUnlink, CallSet
      <4> QED BY <1>3, <1>t, <4>1 DEF Answer, CallState
    <3> QED BY <3>1 DEF CallStep
  <2>2. /\ MakeError(d, n) = "ok" /\ \E kind : Make(kind, d, n)
        /\ call' = [call EXCEPT ![c].pc = "owner", ![c].ino = new]
        /\ UNCHANGED <<removed, revived, outlived>> /\ call[c].pc = "script"
    <3>1. \/ \E out : Answer(c, out)
          \/ call' = [call EXCEPT ![c].pc = "open"]
          \/ /\ MakeError(d, n) = "ok" /\ \E kind : Make(kind, d, n)
             /\ call' = [call EXCEPT ![c].pc = "owner", ![c].ino = new]
      BY <2>1 DEF CallMake
    <3>2. UNCHANGED <<removed, revived, outlived>> /\ call[c].pc = "script"
      BY <2>1 DEF CallMake, CallVars
    <3> QED BY <3>1, <3>2, <1>3, <1>t DEF Answer, CallState
  <2>3. d \in Inode
    BY <2>2, <1>t DEF IInv, CallsHeld, CallState
  <2>4. next >= 1
    BY <2>2 DEF IInv, Phases, Serving, Numbered
  <2>5. Made(d, n)
    BY <2>2, <2>3, <2>4, <1>t, MakeDone
  <2>6. /\ new \in Inode \ {Root} /\ new \notin removed
        /\ node'[new] \in Hash /\ node'[new].kind # "none"
    BY <2>5, <1>t, MadeEffect
  <2>7. call'[c].ino = new
    BY <2>2, <1>t DEF CallState
  <2>8. LiveAt(node', removed', new)
    BY <2>2, <2>6, GoneOK DEF LiveAt
  <2> HIDE DEF new
  <2> QED BY <1>2, <1>3, <2>6, <2>7, <2>8, RootIsInode DEF Held, Chmods, LiveAt, Live
<1>4. CASE call'[c].pc # "owner"
  BY <1>1, <1>2, <1>4 DEF Held
<1> QED BY <1>2, <1>3, <1>4

\* Callbacks know their inodes.
LEMMA CallsHeldStep == IInv /\ [Next]_vars => CallsHeld'
<1> SUFFICES ASSUME IInv, [Next]_vars PROVE CallsHeld'
  OBVIOUS
<1>t. TypeOK /\ CallsHeld
  BY DEF IInv
<1>1. CASE call' = call
  <2>1. \A c \in Call : Held(c)'
    BY <1>1, HeldKept
  <2>2. \A c \in Call : Chmods(c)' <=> Chmods(c)
    BY <1>1 DEF Chmods
  <2>3. \A c, d \in Call : Chmods(c)' /\ Chmods(d)' /\ call'[c].ino = call'[d].ino =>
                             call'[c].kind = call'[d].kind
    BY <1>1, <1>t, <2>2 DEF CallsHeld
  <2> QED BY <2>1, <2>3 DEF CallsHeld, Held
<1>2. ASSUME NEW c \in Call, Held(c)',
             Chmods(c)' => /\ call'[c].ino \in Inode /\ Live(call'[c].ino)
                           /\ call'[c].kind = node[call'[c].ino].kind,
             \A d \in Call : d # c => call'[d] = call[d]
      PROVE  CallsHeld'
  <2>1. \A d \in Call : Held(d)'
    BY <1>2, HeldKept
  <2>2. ASSUME NEW d \in Call, d # c PROVE Chmods(d)' <=> Chmods(d)
    BY <1>2, <2>2 DEF Chmods
  <2>3. ASSUME NEW d \in Call, d # c, Chmods(c)', Chmods(d)', call'[c].ino = call'[d].ino
        PROVE  call'[c].kind = call'[d].kind
    <3>1. Chmods(d) /\ call'[d] = call[d]
      BY <1>2, <2>2, <2>3
    <3>2. node[call[d].ino] # Gone => node[call[d].ino].kind \in {"none", call[d].kind}
      BY <3>1, <1>t DEF CallsHeld
    <3> QED BY <1>2, <2>3, <3>1, <3>2 DEF Live
  <2>4. ASSUME NEW d \in Call, NEW e \in Call, d # c, e # c, Chmods(d)', Chmods(e)',
               call'[d].ino = call'[e].ino
        PROVE  call'[d].kind = call'[e].kind
    <3>1. Chmods(d) /\ Chmods(e) /\ call'[d] = call[d] /\ call'[e] = call[e]
      BY <1>2, <2>2, <2>4
    <3> QED BY <2>4, <3>1, <1>t DEF CallsHeld
  <2>5. \A d, e \in Call : Chmods(d)' /\ Chmods(e)' /\ call'[d].ino = call'[e].ino =>
                             call'[d].kind = call'[e].kind
    BY <2>3, <2>4
  <2> QED BY <2>1, <2>5 DEF CallsHeld, Held
<1>3. ASSUME NEW c \in Call, NEW op \in Op, NEW path \in Target, CallStart(c, op, path)
      PROVE  CallsHeld'
  <2>1. \A d \in Call : d # c => call'[d] = call[d]
    BY <1>3, <1>t, CallMoves
  <2> QED BY <1>2, <1>3, <2>1, HeldAtStart
<1>4. ASSUME NEW c \in Call, CallStep(c) PROVE CallsHeld'
  <2>1. \A d \in Call : d # c => call'[d] = call[d]
    BY <1>4, <1>t, CallMoves
  <2> QED BY <1>2, <1>4, <2>1, HeldAtStep
<1>5. ASSUME NEW b \in Boot, BootStep(b) \/ BootFail(b) \/ BootCrash(b) PROVE call' = call
  BY <1>5, BootOnly
<1>6. ASSUME LockExpire \/ UNCHANGED vars PROVE call' = call
  BY <1>6 DEF LockExpire, BootVars, vars
<1> QED
  BY <1>1, <1>3, <1>4, <1>5, <1>6 DEF Next, Quiescent

------------------------------------------------------------------------------
(* Initializers                                                             *)

\* The lock, and the way to the root, in a step of initializer b.
LEMMA BootLocks ==
  ASSUME Boots, NEW b \in Boot, BootStep(b) \/ BootFail(b) \/ BootCrash(b)
  PROVE  /\ \/ boot[b].pc = "idle" /\ lock = NoBoot /\ lock' = b
            \/ /\ boot[b].pc \notin {"idle", "done"}
               /\ lock' = lock \/ boot'[b].pc \in {"idle", "done"}
         /\ boot'[b].pc = "hset" => node[Root] = Gone /\ node' = node
<1> USE DEF Boots
<1>1. CASE BootLock(b)
  BY <1>1, Went DEF BootLock, BootPC
<1>2. CASE BootCheck(b) \/ BootCounter(b) \/ BootRootSet(b) \/ BootClassify(b) \/ BootClass(b)
           \/ BootFlag(b)
  <2>1. lock' = lock /\ boot[b].pc \notin {"idle", "done"}
    BY <1>2 DEF BootCheck, BootCounter, BootRootSet, BootClassify, BootClass, BootFlag
  <2>2. \E pc \in BootPC \ {"hset"} : Goto(b, pc)
    BY <1>2 DEF BootCheck, BootCounter, BootRootSet, BootClassify, BootClass, BootFlag, BootPC
  <2> QED BY <2>1, <2>2, Went
<1>3. CASE BootRoot(b)
  <2>1. /\ boot[b].pc = "root" /\ lock' = lock /\ node' = node
        /\ boot' = [boot EXCEPT ![b].pc = IF node[Root] = Gone THEN "hset" ELSE "entry",
                                ![b].k = 1]
    BY <1>3 DEF BootRoot, tree
  <2> QED BY <2>1 DEF BootState
<1>4. CASE BootEntry(b)
  <2>1. boot[b].pc = "entry"
    BY <1>4 DEF BootEntry
  <2>2. CASE Raise(b)
    BY <2>1, <2>2, Went DEF Raise, BootPC
  <2>3. CASE lock' = lock /\ \E d : boot' = [boot EXCEPT ![b].pc = "make", ![b].dir = d]
    BY <2>1, <2>3 DEF BootState
  <2> QED BY <1>4, <2>2, <2>3 DEF BootEntry
<1>5. CASE BootMake(b)
  <2>1. boot[b].pc = "make"
    BY <1>5 DEF BootMake
  <2>2. CASE Raise(b)
    BY <2>1, <2>2, Went DEF Raise, BootPC
  <2>3. CASE Goto(b, "find") /\ lock' = lock
    BY <2>1, <2>3, Went DEF BootPC
  <2>4. CASE /\ lock' = lock
             /\ \E i : boot' = [boot EXCEPT ![b].pc = AfterMake(At(b), TRUE), ![b].ino = i]
    BY <2>1, <2>4 DEF AfterMake, BootState
  <2>5. \/ Raise(b)
        \/ Goto(b, "find") /\ lock' = lock
        \/ /\ lock' = lock
           /\ \E i : boot' = [boot EXCEPT ![b].pc = AfterMake(At(b), TRUE), ![b].ino = i]
    BY <1>5 DEF BootMake
  <2> QED BY <2>2, <2>3, <2>4, <2>5
<1>6. CASE BootFind(b)
  <2>1. /\ boot[b].pc = "find" /\ lock' = lock
        /\ \E i : boot' = [boot EXCEPT ![b].pc = AfterMake(At(b), FALSE), ![b].ino = i]
    BY <1>6 DEF BootFind
  <2> QED BY <2>1 DEF AfterMake, BootState
<1>7. CASE BootOwn(b)
  <2>1. /\ boot[b].pc = "own" /\ lock' = lock
        /\ boot' = [boot EXCEPT ![b].pc = "entry", ![b].k = @ + 1, ![b].dir = None,
                                ![b].ino = None]
    BY <1>7 DEF BootOwn
  <2>2. boot'[b].pc = "entry"
    BY <2>1 DEF BootState
  <2> QED BY <2>1, <2>2
<1>8. CASE BootUnlock(b)
  BY <1>8, Went DEF BootUnlock, BootPC
<1>9. CASE BootFail(b) \/ BootCrash(b)
  BY <1>9, Went DEF BootFail, BootCrash, Raise, BootPC
<1> QED
  BY <1>1, <1>2, <1>3, <1>4, <1>5, <1>6, <1>7, <1>8, <1>9 DEF BootStep

\* Unless one outlived its lock, an initializer that runs has it.
LEMMA LockedStep == IInv /\ [Next]_vars => Locked'
<1> SUFFICES ASSUME IInv, [Next]_vars, outlived' = {}
             PROVE  \A b \in Boot :
                      /\ boot'[b].pc \notin {"idle", "done"} => lock' = b
                      /\ boot'[b].pc = "hset" => node'[Root] = Gone
  BY DEF Locked
<1>t. TypeOK /\ Boots /\ Locked
  BY DEF IInv, TypeOK, Boots
<1>1. ASSUME NEW c \in Call, NEW op, NEW path, CallStart(c, op, path) \/ CallStep(c)
      PROVE  \A b \in Boot :
               /\ boot'[b].pc \notin {"idle", "done"} => lock' = b
               /\ boot'[b].pc = "hset" => node'[Root] = Gone
  <2>1. UNCHANGED <<lock, boot, outlived>>
    BY <1>1, CallOnly
  <2>2. Serving'
    BY <1>1, <1>t, CallMoves DEF Serving
  <2>3. \A b \in Boot : boot'[b].pc \in {"idle", "check", "unlock", "done"}
    BY <2>2, PhasesStep DEF Phases
  <2> QED BY <1>t, <2>1, <2>3 DEF Locked
<1>2. ASSUME NEW b \in Boot, BootStep(b) \/ BootFail(b) \/ BootCrash(b)
      PROVE  \A a \in Boot :
               /\ boot'[a].pc \notin {"idle", "done"} => lock' = a
               /\ boot'[a].pc = "hset" => node'[Root] = Gone
  <2>1. outlived' = outlived
    BY <1>2, BootOnly
  <2>2. \A a \in Boot : a # b => boot'[a] = boot[a]
    BY <1>2, <1>t, BootMoves
  <2>3. /\ \/ boot[b].pc = "idle" /\ lock = NoBoot /\ lock' = b
           \/ /\ boot[b].pc \notin {"idle", "done"}
              /\ lock' = lock \/ boot'[b].pc \in {"idle", "done"}
        /\ boot'[b].pc = "hset" => node[Root] = Gone /\ node' = node
    BY <1>2, <1>t, BootLocks
  <2>4. \A a \in Boot : boot[a].pc \notin {"idle", "done"} => lock = a
    BY <1>t, <2>1 DEF Locked
  <2>5. NoBoot \notin Boot
    BY ConstantsOK
  <2>6. ASSUME NEW a \in Boot, a # b PROVE boot'[a].pc \in {"idle", "done"}
    BY <2>2, <2>3, <2>4, <2>5, <2>6
  <2> QED BY <2>3, <2>4, <2>6
<1>3. ASSUME LockExpire
      PROVE  \A b \in Boot :
               /\ boot'[b].pc \notin {"idle", "done"} => lock' = b
               /\ boot'[b].pc = "hset" => node'[Root] = Gone
  <2>1. /\ lock # NoBoot /\ boot' = boot
        /\ outlived' = IF boot[lock].pc # "idle" THEN outlived \union {lock} ELSE outlived
    BY <1>3 DEF LockExpire
  <2>2. boot[lock].pc = "idle" /\ outlived = {}
    BY <2>1
  <2>3. \A b \in Boot : boot[b].pc \notin {"idle", "done"} => lock = b
    BY <1>t, <2>2 DEF Locked
  <2> QED BY <2>1, <2>2, <2>3
<1>4. ASSUME UNCHANGED vars
      PROVE  \A b \in Boot :
               /\ boot'[b].pc \notin {"idle", "done"} => lock' = b
               /\ boot'[b].pc = "hset" => node'[Root] = Gone
  BY <1>4, <1>t DEF vars, Locked
<1> QED
  BY <1>1, <1>2, <1>3, <1>4 DEF Next, Quiescent

\* Initialization takes nothing back: entries stay, and types, owners and classes.
BootKeep ==
  /\ \A d \in Inode, n \in Name : entry[d][n] # None => entry'[d][n] = entry[d][n]
  /\ \A i \in Inode : node[i] # Gone =>
       /\ node'[i] # Gone /\ node'[i].kind = node[i].kind
       /\ node[i].owned = "set" => node'[i].owned = "set"
       /\ node[i].state # "unset" => node'[i].state # "unset"
       /\ node[i].class # "unset" => node'[i].class = node[i].class

\* One inode is written, its type stays and no class is changed.
LEMMA KeepSet ==
  ASSUME TypeOK, NEW i \in Inode, NEW h \in Hash, SetNode(i, h), UNCHANGED entry,
         node[i] # Gone =>
           /\ h.kind = node[i].kind
           /\ node[i].owned = "set" => h.owned = "set"
           /\ node[i].state # "unset" => h.state # "unset"
           /\ node[i].class # "unset" => h.class = node[i].class
  PROVE  BootKeep
  BY GoneOK DEF BootKeep, SetNode, TypeOK

\* BootMake makes its entry, or leaves the tree alone.
LEMMA BootMakes ==
  ASSUME IInv, NEW b \in Boot, BootMake(b)
  PROVE  \/ /\ Made(boot[b].dir, Base(At(b).path)) /\ node'[next + 1].kind = At(b).kind
            /\ boot' = [boot EXCEPT ![b].pc = AfterMake(At(b), TRUE), ![b].ino = next + 1]
         \/ /\ UNCHANGED tree /\ Raise(b)
         \/ /\ UNCHANGED tree /\ Goto(b, "find") /\ IsDir(boot[b].dir)
            /\ Base(At(b).path) \in Name /\ entry[boot[b].dir][Base(At(b).path)] # None
<1> DEFINE d == boot[b].dir
           n == Base(At(b).path)
<1>t. TypeOK /\ TreeInv /\ node \in [Inode -> Hash \union {Gone}] /\ next \in Nat
  BY RootIsInode DEF IInv, TreeInv, TypeOK, Inode
<1>1. boot[b].pc = "make" /\ UNCHANGED <<removed, revived, outlived>>
  BY DEF BootMake, BootVars
<1>2. d \in Inode /\ next >= 1 /\ boot[b].k <= Len(Manifest)
  BY <1>1, <1>t DEF IInv, Booting, TypeOK, BootState, Numbered, Loop
<1>3. At(b).kind \in {"dir", "file"}
  BY <1>2, <1>t, AtPath DEF Entry
<1>4. CASE /\ MakeError(d, n) = "ok" /\ Make(At(b).kind, d, n)
           /\ boot' = [boot EXCEPT ![b].pc = AfterMake(At(b), TRUE), ![b].ino = next + 1]
  <2>1. Made(d, n)
    BY <1>t, <1>1, <1>2, <1>4, MakeDone
  <2>2. next + 1 \in Inode \ {d} /\ node[d] \in Hash
    BY <2>1, <1>t, MadeEffect DEF Made, IsDir
  <2>3. NewNode("dir", 2).kind = "dir" /\ NewNode("file", 1).kind = "file"
    BY DEF NewNode
  <2>4. node'[next + 1] = IF At(b).kind = "dir" THEN NewNode("dir", 2) ELSE NewNode("file", 1)
    BY <1>2, <1>3, <1>4, <1>t, <2>2 DEF Make, MakeDir, MakeFile
  <2>5. node'[next + 1].kind = At(b).kind
    BY <1>3, <2>3, <2>4
  <2> QED BY <1>4, <2>1, <2>5
<1>5. CASE MakeError(d, n) = "EEXIST" /\ Goto(b, "find") /\ UNCHANGED tree
  BY <1>5 DEF MakeError
<1>6. CASE Raise(b) /\ UNCHANGED tree
  BY <1>6
<1> QED
  BY <1>4, <1>5, <1>6 DEF BootMake

\* The steps that change the tree.
LEMMA BootTreeOnly ==
  ASSUME NEW b \in Boot, BootStep(b) \/ BootFail(b) \/ BootCrash(b)
  PROVE  \/ BootRootSet(b) \/ BootMake(b) \/ BootClassify(b) \/ BootClass(b) \/ BootOwn(b)
         \/ UNCHANGED <<node, entry>>
  BY DEF BootStep, BootLock, BootCheck, BootCounter, BootRoot, BootEntry, BootFind, BootFlag,
     BootUnlock, BootFail, BootCrash, tree

\* Every step of an initializer does so.
LEMMA BootKeeps ==
  ASSUME IInv, NEW b \in Boot, BootStep(b) \/ BootFail(b) \/ BootCrash(b)
  PROVE  BootKeep
<1> DEFINE i == boot[b].ino
<1>t. TypeOK /\ Lead /\ Booting /\ TreeInv
  BY DEF IInv, TreeInv
<1>1. CASE UNCHANGED <<node, entry>>
  BY <1>1 DEF BootKeep
<1>2. CASE BootRootSet(b)
  <2> DEFINE h == [Stub(Root) EXCEPT !.kind = "dir", !.nlink = 2]
  <2>1. SetNode(Root, h) /\ UNCHANGED entry
    BY <1>2 DEF BootRootSet, SetNode
  <2>2. Stub(Root) \in Hash /\ (node[Root] # Gone => Stub(Root) = node[Root])
    BY <1>t, RootIsInode, StubTyped
  <2>3. node[Root] # Gone => node[Root].kind = "dir"
    BY DEF IInv, Kinds
  <2>4. /\ h \in Hash /\ h.kind = "dir" /\ h.owned = Stub(Root).owned
        /\ h.state = Stub(Root).state /\ h.class = Stub(Root).class
    <3>1. 2 \in Int
      OBVIOUS
    <3> QED BY <2>2, <3>1, DirHash
  <2> HIDE DEF h
  <2> QED BY <1>t, <2>1, <2>2, <2>3, <2>4, RootIsInode, KeepSet
<1>3. CASE BootMake(b)
  <2>1. CASE UNCHANGED tree
    BY <2>1 DEF BootKeep, tree
  <2>2. CASE Made(boot[b].dir, Base(At(b).path))
    <3> DEFINE d == boot[b].dir
               n == Base(At(b).path)
    <3>1. /\ next + 1 \in Inode \ {Root, d} /\ node[next + 1] = Gone
          /\ \A j \in Inode \ {next + 1, d} : node'[j] = node[j]
          /\ node'[d] \in Hash /\ node'[d].kind = node[d].kind
          /\ node'[d].owned = node[d].owned /\ node'[d].state = node[d].state
          /\ node'[d].class = node[d].class
          /\ \A j \in Inode, m \in Name : j # d \/ m # n => entry'[j][m] = entry[j][m]
      BY <2>2, <1>t, MadeEffect
    <3>2. entry[d][n] = None
      BY <2>2 DEF Made
    <3> HIDE DEF d, n
    <3> QED BY <3>1, <3>2, GoneOK DEF BootKeep
  <2> QED BY <1>3, <2>1, <2>2, BootMakes
<1>4. ASSUME boot[b].pc \in {"state", "class", "own"}
      PROVE  /\ i \in Inode /\ node[i] # Gone /\ Stub(i) = node[i] /\ Stub(i) \in Hash
             /\ At(b) \in Entry /\ node[i].kind = At(b).kind
             /\ node[i].class \in {"unset", At(b).class}
  <2>1. i \in Inode /\ Live(i) /\ At(b) \in Entry
    BY <1>t, <1>4, BootInode, AtPath
  <2> QED BY <2>1, <1>t, <1>4, StubTyped, BootKind DEF Live
<1>5. CASE BootClassify(b)
  <2> DEFINE s == IF At(b).class \in {"ai_backed", "deterministic"} THEN "missing" ELSE "static"
             h == [Stub(i) EXCEPT !.state = IF @ = "unset" THEN s ELSE @]
  <2>1. boot[b].pc = "state" /\ SetNode(i, h) /\ UNCHANGED entry
    BY <1>5 DEF BootClassify
  <2>2. /\ h \in Hash /\ h.kind = node[i].kind /\ h.owned = node[i].owned
        /\ h.class = node[i].class /\ (node[i].state # "unset" => h.state # "unset")
    BY <2>1, <1>4 DEF Hash
  <2> HIDE DEF h
  <2> QED BY <1>t, <1>4, <2>1, <2>2, KeepSet
<1>6. CASE BootClass(b)
  <2> DEFINE h == [Stub(i) EXCEPT !.class = IF @ = "unset" THEN At(b).class ELSE @]
  <2>1. boot[b].pc = "class" /\ SetNode(i, h) /\ UNCHANGED entry
    BY <1>6 DEF BootClass
  <2>2. At(b).class \in {"ai_backed", "deterministic", "static"}
    <3>1. At(b).kind = "file"
      BY <2>1 DEF IInv, Progress
    <3>2. boot[b].k \in DOMAIN Manifest
      BY <2>1, <1>t, BootInode, AtPath
    <3>3. At(b).class # "none"
      BY <3>1, <3>2, ManifestOK DEF At
    <3> QED BY <2>1, <1>4, <3>3 DEF Entry
  <2>3. /\ h \in Hash /\ h.kind = node[i].kind /\ h.owned = node[i].owned
        /\ h.state = node[i].state /\ (node[i].class # "unset" => h.class = node[i].class)
    BY <2>1, <2>2, <1>4 DEF Hash
  <2> HIDE DEF h
  <2> QED BY <1>t, <1>4, <2>1, <2>3, KeepSet
<1>7. CASE BootOwn(b)
  <2> DEFINE h == [Stub(i) EXCEPT !.owned = "set", !.kind = At(b).kind]
  <2>1. boot[b].pc = "own" /\ SetNode(i, h) /\ UNCHANGED entry
    BY <1>7 DEF BootOwn
  <2>2. At(b).kind \in {"dir", "file"}
    BY <1>4, <2>1 DEF Entry
  <2>3. /\ h \in Hash /\ h.kind = node[i].kind /\ h.owned = "set"
        /\ h.state = node[i].state /\ h.class = node[i].class
    BY <2>1, <2>2, <1>4 DEF Hash
  <2> HIDE DEF h
  <2> QED BY <1>t, <1>4, <2>1, <2>3, KeepSet
<1> QED
  BY <1>1, <1>2, <1>3, <1>5, <1>6, <1>7, BootTreeOnly

\* Where an initializer is after the step.
LEMMA AtNext ==
  \A b : /\ Resolve(At(b).path)' = ResolveIn(entry', Manifest[boot'[b].k].path)
         /\ Resolve(Parent(At(b).path))' = ResolveIn(entry', Parent(Manifest[boot'[b].k].path))
         /\ At(b)' = Manifest[boot'[b].k]
  BY DEF Resolve, ResolveIn, FoldLeft, MapThenFoldSet, At, Parent, Front

\* What a path leads to, it leads to after the step.
LEMMA PathKept ==
  ASSUME IInv, Trees', BootKeep, NEW S, NEW path \in Seq(S), Resolve(path) # None
  PROVE  ResolveIn(entry', path) = Resolve(path)
<1>1. Tree(entry) /\ Tree(entry')
  BY DEF IInv, TypeOK, Trees, Tree
<1>2. \A d \in Inode, n \in Name : entry[d][n] # None => entry'[d][n] = entry[d][n]
  BY DEF BootKeep
<1> QED
  BY <1>1, <1>2, ResolveNow, ResolveGrows

\* What is complete stays complete.
LEMMA CompleteKept ==
  ASSUME IInv, Trees', BootKeep, NEW e \in Entry, Complete(e)
  PROVE  Complete(e)'
<1> DEFINE i == Resolve(e.path)
<1>1. /\ i # None /\ node[i].kind = e.kind /\ node[i].owned = "set"
      /\ e.kind = "file" => node[i].state # "unset" /\ node[i].class = e.class
  BY DEF Complete
<1>2. e.path \in Seq(Name) /\ e.path # <<>> /\ e.class # "unset"
  BY DEF Entry
<1>3. i \in Inode /\ node[i] # Gone
  BY <1>1, <1>2, ResolveLive DEF IInv, Live
<1>4. Resolve(e.path)' = i
  BY <1>1, <1>2, PathKept, ResolveNext
<1>5. /\ node'[i].kind = node[i].kind /\ node'[i].owned = "set"
      /\ e.kind = "file" => node'[i].state # "unset" /\ node'[i].class = e.class
  BY <1>1, <1>2, <1>3 DEF BootKeep
<1> HIDE DEF i
<1> QED
  BY <1>1, <1>4, <1>5 DEF Complete

\* The new inode is found under the path of its entry, and under no other.
LEMMA MadePath ==
  ASSUME IInv, Trees', Lead', BootKeep, NEW b \in Boot, boot[b].pc = "make",
         Made(boot[b].dir, Base(At(b).path))
  PROVE  /\ ResolveIn(entry', At(b).path) = next + 1
         /\ \A path \in Seq(Name) :
              Resolve(path) = None /\ ResolveIn(entry', path) # None =>
                path = At(b).path /\ ResolveIn(entry', path) = next + 1
<1> DEFINE d == boot[b].dir
           p == At(b).path
           new == next + 1
<1>t. TypeOK /\ TreeInv /\ Tree(entry) /\ Tree(entry')
  BY DEF IInv, TreeInv, TypeOK, Trees, Tree
<1>1. boot[b].k <= Len(Manifest) /\ d # None /\ d = Resolve(Parent(p))
  BY DEF IInv, Booting, Loop
<1>2. p \in Seq(Name) /\ p # <<>> /\ Front(p) \in Seq(Name) /\ Parent(p) = Front(p)
  BY <1>1, <1>t, AtPath DEF Parent
<1>3. /\ new \in Inode \ {d} /\ entry[new] = NoEntries /\ entry'[d][Base(p)] = new
      /\ \A j \in Inode, m \in Name : j # d \/ m # Base(p) => entry'[j][m] = entry[j][m]
  BY <1>t, MadeEffect
<1>4. Base(p) \in Name /\ Base(p) = Last(p)
  BY DEF Made, Base
<1> HIDE DEF p, new, d
<1>5. ResolveIn(entry', Front(p)) = d
  BY <1>1, <1>2, PathKept
<1>6. ResolveIn(entry', p) = new
  BY <1>1, <1>2, <1>3, <1>4, <1>5, <1>t, ResolveVia
<1>7. NamesOnce(entry')
  BY DEF Lead, NamesOnce, None, Root
<1>8. /\ \A j \in Inode, m \in Name : entry'[j][m] \in {entry[j][m], new}
      /\ \A m \in Name : entry'[new][m] = None
  BY <1>3 DEF NoEntries
<1>9. ASSUME NEW path \in Seq(Name), Resolve(path) = None, ResolveIn(entry', path) # None
      PROVE  path = p /\ ResolveIn(entry', path) = new
  <2>1. ResolveIn(entry', path) \in {None, new}
    BY <1>3, <1>8, <1>9, <1>t, ResolveNew, ResolveNow
  <2>2. path = p
    BY <1>2, <1>6, <1>7, <1>9, <1>t, <2>1, ResolveInjective
  <2> QED BY <1>9, <2>1, <2>2
<1> QED
  BY <1>6, <1>9 DEF p, new

\* The conjuncts of Booting and of Progress for one initializer.
Placed(b) ==
  /\ boot[b].pc \in Loop \ {"entry"} => boot[b].k <= Len(Manifest)
  /\ boot[b].pc = "make" => boot[b].dir # None /\ boot[b].dir = Resolve(Parent(At(b).path))
  /\ boot[b].pc = "find" => Resolve(At(b).path) # None
  /\ boot[b].pc \in {"state", "class", "own"} =>
       boot[b].ino # None /\ boot[b].ino = Resolve(At(b).path)
Advanced(b) ==
  /\ boot[b].pc = "hset" => boot[b].k = 1
  /\ boot[b].pc \in {"state", "class"} => At(b).kind = "file"
  /\ boot[b].pc \in {"class", "own"} /\ At(b).kind = "file" => node[boot[b].ino].state # "unset"
  /\ boot[b].pc = "own" /\ At(b).kind = "file" => node[boot[b].ino].class = At(b).class
  /\ boot[b].pc \in Loop => \A j \in 1..(boot[b].k - 1) : Complete(Manifest[j])

\* The invariant says it of every initializer.
LEMMA PlacedNow == IInv => \A b \in Boot : Placed(b) /\ Advanced(b)
  BY DEF IInv, Booting, Progress, Placed, Advanced

\* What comes before the entry an initializer is at stays complete.
LEMMA BeforeKept ==
  ASSUME IInv, Trees', BootKeep, NEW b \in Boot, boot[b].pc \in Loop
  PROVE  \A j \in 1..(boot[b].k - 1) : Complete(Manifest[j])'
<1>1. \A j \in 1..(boot[b].k - 1) : Complete(Manifest[j])
  BY DEF IInv, Progress
<1>2. \A j \in 1..(boot[b].k - 1) : Manifest[j] \in Entry
  <2>1. boot[b].k \in 1..(Len(Manifest) + 1) /\ Manifest \in Seq(Entry)
    BY ConstantsOK DEF IInv, TypeOK, BootState
  <2> QED BY <2>1
<1> QED
  BY <1>1, <1>2, CompleteKept

\* An initializer that does not move stays where it is, and so does what it has done.
LEMMA OtherStays ==
  ASSUME IInv, Trees', BootKeep, NEW a \in Boot,
         boot'[a].pc = boot[a].pc, boot'[a].k = boot[a].k,
         boot'[a].ino = boot[a].ino, boot'[a].dir = boot[a].dir
  PROVE  Placed(a)' /\ Advanced(a)'
<1> DEFINE p == At(a).path
           i == boot[a].ino
<1>t. TypeOK /\ Lead /\ Booting /\ Placed(a) /\ Advanced(a)
  BY PlacedNow DEF IInv
<1>1. /\ Resolve(At(a).path)' = ResolveIn(entry', p) /\ At(a)' = At(a)
      /\ Resolve(Parent(At(a).path))' = ResolveIn(entry', Parent(p))
  BY AtNext DEF At
<1>2. Placed(a)'
  <2>1. CASE boot[a].pc \in Loop \ {"entry"}
    <3>1. p \in Seq(Name) /\ Parent(p) \in Seq(Name)
      BY <1>t, <2>1, AtPath DEF Placed
    <3>2. Resolve(p) # None => ResolveIn(entry', p) = Resolve(p)
      BY <3>1, PathKept
    <3>3. Resolve(Parent(p)) # None => ResolveIn(entry', Parent(p)) = Resolve(Parent(p))
      BY <3>1, PathKept
    <3> HIDE DEF p
    <3>4. p = At(a).path
      BY DEF p
    <3> QED BY <1>t, <1>1, <3>2, <3>3, <3>4 DEF Placed
  <2>2. CASE boot[a].pc \notin Loop \ {"entry"}
    BY <2>2 DEF Placed, Loop
  <2> QED BY <2>1, <2>2
<1>3. boot[a].pc \in {"class", "own"} /\ At(a).kind = "file" =>
        /\ node'[i].state # "unset"
        /\ boot[a].pc = "own" => node'[i].class = At(a).class
  <2>1. CASE boot[a].pc \in {"class", "own"} /\ At(a).kind = "file"
    <3>1. i \in Inode /\ node[i] # Gone
      BY <2>1, <1>t, BootInode DEF Live
    <3>2. At(a).class # "unset"
      BY <2>1, <1>t, BootInode, AtPath DEF Entry
    <3> QED BY <2>1, <3>1, <3>2, <1>t DEF Advanced, BootKeep
  <2> QED BY <2>1
<1>4. boot[a].pc \in Loop => \A j \in 1..(boot[a].k - 1) : Complete(Manifest[j])'
  BY BeforeKept
<1>5. Advanced(a)'
  BY <1>t, <1>1, <1>3, <1>4 DEF Advanced
<1> QED BY <1>2, <1>5

\* The initializer that moves: it goes on only with what it has found or made, and
\* leaves an entry only when it is complete.
LEMMA MoverPlaced ==
  ASSUME IInv, Trees', Lead', NEW b \in Boot, BootStep(b) \/ BootFail(b) \/ BootCrash(b)
  PROVE  Placed(b)' /\ Advanced(b)'
<1> DEFINE p == At(b).path
           i == boot[b].ino
           k == boot[b].k
<1>t. TypeOK /\ Boots /\ Lead /\ Booting /\ Placed(b) /\ Advanced(b) /\ TreeInv
  BY PlacedNow DEF IInv, TypeOK, Boots, TreeInv
<1>k. BootKeep
  BY BootKeeps
<1>0. ASSUME boot'[b].pc \notin Loop \union {"hset"} PROVE Placed(b)' /\ Advanced(b)'
  BY <1>0 DEF Placed, Advanced, Loop
<1>1. ASSUME NEW pc \in BootPC \ (Loop \union {"hset"}), Goto(b, pc)
      PROVE  Placed(b)' /\ Advanced(b)'
  BY <1>t, <1>0, <1>1, Went
<1>2. ASSUME Raise(b) PROVE Placed(b)' /\ Advanced(b)'
  BY <1>1, <1>2 DEF Raise, BootPC, Loop
<1>3. CASE BootLock(b) \/ BootCheck(b) \/ BootCounter(b) \/ BootFlag(b) \/ BootUnlock(b)
           \/ BootFail(b) \/ BootCrash(b)
  <2>1. \E pc \in BootPC \ (Loop \union {"hset"}) : Goto(b, pc)
    BY <1>3 DEF BootLock, BootCheck, BootCounter, BootFlag, BootUnlock, BootFail, BootCrash,
       Raise, BootPC, Loop
  <2> QED BY <1>1, <2>1
<1>4. ASSUME boot'[b].k = 1, boot'[b].pc \in {"hset", "entry"}
      PROVE  Placed(b)' /\ Advanced(b)'
  BY <1>4 DEF Placed, Advanced, Loop
<1>5. CASE BootRoot(b)
  <2>1. boot' = [boot EXCEPT ![b].pc = IF node[Root] = Gone THEN "hset" ELSE "entry",
                             ![b].k = 1]
    BY <1>5 DEF BootRoot
  <2> QED BY <1>4, <2>1, <1>t DEF Boots, BootState
<1>6. CASE BootRootSet(b)
  <2>1. boot[b].pc = "hset" /\ Goto(b, "entry") /\ "entry" \in BootPC
    BY <1>6 DEF BootRootSet, BootPC
  <2> QED BY <1>4, <1>t, <2>1, Went DEF Advanced
<1>l. /\ At(b)' = Manifest[boot'[b].k]
      /\ Resolve(At(b).path)' = ResolveIn(entry', Manifest[boot'[b].k].path)
      /\ Resolve(Parent(At(b).path))' = ResolveIn(entry', Parent(Manifest[boot'[b].k].path))
      /\ At(b) = Manifest[k]
  BY AtNext DEF At
<1>7. ASSUME boot[b].pc \in Loop, boot'[b].k = k
      PROVE  /\ At(b)' = At(b) /\ Resolve(At(b).path)' = ResolveIn(entry', p)
             /\ Resolve(Parent(At(b).path))' = ResolveIn(entry', Parent(p))
             /\ \A j \in 1..(boot'[b].k - 1) : Complete(Manifest[j])'
             /\ Resolve(p) = ResolveIn(entry, p)
             /\ Resolve(Parent(p)) = ResolveIn(entry, Parent(p))
  BY <1>7, <1>l, <1>k, BeforeKept, ResolveNow
<1>8. CASE BootEntry(b)
  <2> DEFINE d == Resolve(Parent(At(b).path))
  <2>1. boot[b].pc = "entry" /\ k <= Len(Manifest) /\ entry' = entry
    BY <1>8 DEF BootEntry, tree
  <2>2. CASE d # None /\ boot' = [boot EXCEPT ![b].pc = "make", ![b].dir = d]
    <3>1. boot'[b].pc = "make" /\ boot'[b].dir = d /\ boot'[b].k = k
      <4> HIDE DEF d
      <4> QED BY <2>2, <1>t DEF Boots, BootState
    <3>2. boot[b].pc \in Loop
      BY <2>1 DEF Loop
    <3>3. /\ At(b)' = At(b) /\ Resolve(At(b).path)' = ResolveIn(entry', p)
          /\ Resolve(Parent(At(b).path))' = ResolveIn(entry', Parent(p))
          /\ \A j \in 1..(boot'[b].k - 1) : Complete(Manifest[j])'
          /\ Resolve(Parent(p)) = ResolveIn(entry, Parent(p))
      BY <1>7, <3>1, <3>2
    <3>4. Resolve(Parent(At(b).path))' = d
      BY <2>1, <3>3
    <3> HIDE DEF d
    <3> QED BY <2>1, <2>2, <3>1, <3>3, <3>4 DEF Placed, Advanced
  <2> QED BY <1>8, <1>2, <2>2 DEF BootEntry
<1>9. ASSUME boot[b].pc \in Loop, boot'[b].k = k, k <= Len(Manifest),
             boot'[b].pc = AfterMake(At(b), TRUE) \/ boot'[b].pc = AfterMake(At(b), FALSE),
             boot'[b].ino # None, boot'[b].ino = ResolveIn(entry', p)
      PROVE  Placed(b)' /\ Advanced(b)'
  <2>1. boot'[b].pc \in {"state", "own"} /\ (boot'[b].pc = "state" <=> At(b).kind = "file")
    BY <1>9 DEF AfterMake
  <2>2. /\ At(b)' = At(b) /\ Resolve(At(b).path)' = ResolveIn(entry', p)
        /\ \A j \in 1..(boot'[b].k - 1) : Complete(Manifest[j])'
    BY <1>7, <1>9
  <2> HIDE DEF p
  <2> QED BY <1>9, <2>1, <2>2 DEF Placed, Advanced
<1>10. CASE BootMake(b)
  <2>1. boot[b].pc = "make" /\ boot[b].pc \in Loop
    BY <1>10 DEF BootMake, Loop
  <2>2. k <= Len(Manifest) /\ p \in Seq(Name) /\ p # <<>> /\ Parent(p) \in Seq(Name)
    BY <2>1, <1>t, AtPath DEF Placed, Loop
  <2>3. CASE /\ Made(boot[b].dir, Base(At(b).path))
             /\ boot' = [boot EXCEPT ![b].pc = AfterMake(At(b), TRUE), ![b].ino = next + 1]
    <3>1. /\ boot'[b].pc = AfterMake(At(b), TRUE) /\ boot'[b].ino = next + 1
          /\ boot'[b].k = k
      BY <2>3, <1>t DEF Boots, BootState
    <3>2. next + 1 # None
      BY <2>3, <1>t, RootIsInode, MadeEffect
    <3>3. ResolveIn(entry', p) = next + 1
      BY <1>k, <2>1, <2>3, MadePath
    <3> QED BY <1>9, <2>1, <2>2, <3>1, <3>2, <3>3
  <2>4. CASE /\ UNCHANGED tree /\ Goto(b, "find") /\ IsDir(boot[b].dir)
             /\ Base(At(b).path) \in Name /\ entry[boot[b].dir][Base(At(b).path)] # None
    <3>1. /\ boot'[b].pc = "find" /\ boot'[b].k = k /\ entry' = entry
      BY <2>4, <1>t, Went DEF BootPC, tree
    <3>2. boot[b].dir # None /\ boot[b].dir = Resolve(Parent(p))
      BY <2>1, <1>t DEF Placed
    <3>3. Tree(entry)
      BY <1>t DEF TypeOK, Tree
    <3>4. ResolveIn(entry, p) = entry[boot[b].dir][Base(p)]
      BY <2>2, <2>4, <3>2, <3>3, ResolveNow, ResolveVia DEF Parent, Base
    <3>5. /\ At(b)' = At(b) /\ Resolve(At(b).path)' = ResolveIn(entry', p)
          /\ \A j \in 1..(boot'[b].k - 1) : Complete(Manifest[j])'
      BY <1>7, <2>1, <3>1
    <3>6. ResolveIn(entry', p) # None
      BY <2>4, <3>1, <3>4
    <3> HIDE DEF p
    <3> QED BY <2>2, <3>1, <3>5, <3>6 DEF Placed, Advanced
  <2> QED BY <1>2, <1>10, <2>3, <2>4, BootMakes
<1>11. CASE BootFind(b)
  <2> DEFINE j == Resolve(At(b).path)
             pc == AfterMake(At(b), FALSE)
  <2>1. /\ boot[b].pc = "find" /\ boot[b].pc \in Loop /\ entry' = entry
        /\ boot' = [boot EXCEPT ![b].pc = pc, ![b].ino = j]
    BY <1>11 DEF BootFind, Loop, tree
  <2>2. k <= Len(Manifest) /\ j # None
    BY <2>1, <1>t DEF Placed, Loop
  <2>3. j = ResolveIn(entry', p)
    BY <2>1, ResolveNow
  <2>4. boot'[b].pc = pc /\ boot'[b].ino = j /\ boot'[b].k = k
    <3> HIDE DEF pc, j
    <3> QED BY <2>1, <1>t DEF Boots, BootState
  <2> QED BY <1>9, <2>1, <2>2, <2>3, <2>4
<1>12. ASSUME boot[b].pc \in {"state", "class", "own"}
       PROVE  /\ i \in Inode /\ i # None /\ node[i] # Gone /\ Stub(i) = node[i]
              /\ Stub(i) \in Hash /\ At(b) \in Entry /\ node[i].kind = At(b).kind
              /\ node[i].class \in {"unset", At(b).class}
              /\ k <= Len(Manifest) /\ p \in Seq(Name) /\ i = Resolve(p)
              /\ ResolveIn(entry', p) = i /\ boot[b].pc \in Loop
  <2>1. /\ i \in Inode /\ i # None /\ Live(i) /\ At(b) \in Entry /\ k <= Len(Manifest)
        /\ p \in Seq(Name) /\ i = Resolve(p)
    BY <1>t, <1>12, RootIsInode, BootInode, AtPath
  <2>2. ResolveIn(entry', p) = i
    BY <1>k, <2>1, PathKept
  <2> HIDE DEF i, p
  <2>3. /\ node[i].kind = At(b).kind /\ node[i].class \in {"unset", At(b).class}
    BY <1>12, BootKind DEF i
  <2>4. Stub(i) = node[i] /\ Stub(i) \in Hash /\ node[i] # Gone
    BY <2>1, <1>t, StubTyped DEF Live
  <2> QED BY <2>1, <2>2, <2>3, <2>4, <1>12 DEF Loop
<1>13. CASE BootClassify(b)
  <2> DEFINE s == IF At(b).class \in {"ai_backed", "deterministic"} THEN "missing" ELSE "static"
             h == [Stub(i) EXCEPT !.state = IF @ = "unset" THEN s ELSE @]
  <2>1. boot[b].pc = "state" /\ SetNode(i, h) /\ Goto(b, "class")
    BY <1>13 DEF BootClassify
  <2>2. boot'[b].pc = "class" /\ boot'[b].k = k /\ boot'[b].ino = i
    BY <2>1, <1>t, Went DEF BootPC
  <2>3. h.state # "unset"
    BY <2>1, <1>12 DEF Hash
  <2>4. node'[i] = h
    BY <2>1, <1>t, <1>12 DEF SetNode, TypeOK
  <2>5. /\ At(b)' = At(b) /\ Resolve(At(b).path)' = ResolveIn(entry', p)
        /\ \A j \in 1..(boot'[b].k - 1) : Complete(Manifest[j])'
    BY <1>7, <1>12, <2>1, <2>2
  <2>6. i # None /\ k <= Len(Manifest) /\ ResolveIn(entry', p) = i /\ At(b).kind = "file"
    BY <1>12, <1>t, <2>1 DEF Advanced
  <2> HIDE DEF p, h
  <2> QED BY <2>2, <2>3, <2>4, <2>5, <2>6 DEF Placed, Advanced
<1>14. CASE BootClass(b)
  <2> DEFINE h == [Stub(i) EXCEPT !.class = IF @ = "unset" THEN At(b).class ELSE @]
  <2>1. boot[b].pc = "class" /\ SetNode(i, h) /\ Goto(b, "own")
    BY <1>14 DEF BootClass
  <2>2. boot'[b].pc = "own" /\ boot'[b].k = k /\ boot'[b].ino = i
    BY <2>1, <1>t, Went DEF BootPC
  <2>3. h.class = At(b).class /\ h.state = node[i].state
    BY <2>1, <1>12 DEF Hash
  <2>4. node'[i] = h
    BY <2>1, <1>t, <1>12 DEF SetNode, TypeOK
  <2>5. /\ At(b)' = At(b) /\ Resolve(At(b).path)' = ResolveIn(entry', p)
        /\ \A j \in 1..(boot'[b].k - 1) : Complete(Manifest[j])'
    BY <1>7, <1>12, <2>1, <2>2
  <2>6. /\ i # None /\ k <= Len(Manifest) /\ ResolveIn(entry', p) = i /\ At(b).kind = "file"
        /\ node[i].state # "unset"
    BY <1>12, <1>t, <2>1 DEF Advanced
  <2> HIDE DEF p, h
  <2> QED BY <2>2, <2>3, <2>4, <2>5, <2>6 DEF Placed, Advanced
<1>15. CASE BootOwn(b)
  <2> DEFINE h == [Stub(i) EXCEPT !.owned = "set", !.kind = At(b).kind]
  <2>1. /\ boot[b].pc = "own" /\ SetNode(i, h)
        /\ boot' = [boot EXCEPT ![b].pc = "entry", ![b].k = @ + 1, ![b].dir = None,
                                ![b].ino = None]
    BY <1>15 DEF BootOwn
  <2>2. k \in Int /\ boot'[b].pc = "entry" /\ boot'[b].k = k + 1
    BY <2>1, <1>t DEF Boots, BootState
  <2>3. h.owned = "set" /\ h.kind = At(b).kind /\ h.state = node[i].state /\ h.class = node[i].class
    BY <2>1, <1>12 DEF Hash
  <2>4. node'[i] = h
    BY <2>1, <1>t, <1>12 DEF SetNode, TypeOK
  <2>5. At(b).kind = "file" => node[i].state # "unset" /\ node[i].class = At(b).class
    BY <1>t, <2>1 DEF Advanced
  <2>6. Resolve(At(b).path) = i /\ ResolveIn(entry', p) = i /\ i # None /\ At(b) = Manifest[k]
    BY <1>12, <1>l, <2>1
  <2>8. ASSUME NEW e, e = At(b) PROVE Complete(e)'
    <3>1. Resolve(e.path)' = i
      BY <2>6, <2>8, ResolveNext
    <3> HIDE DEF h, i
    <3> QED BY <2>3, <2>4, <2>5, <2>6, <2>8, <3>1 DEF Complete
  <2>9. \A j \in 1..(k - 1) : Complete(Manifest[j])'
    BY <1>12, <1>k, <2>1, BeforeKept
  <2>10. \A j \in 1..(boot'[b].k - 1) : j \in 1..(k - 1) \/ j = k
    BY <2>2
  <2>11. ASSUME NEW j \in 1..(boot'[b].k - 1) PROVE Complete(Manifest[j])'
    <3>1. CASE j \in 1..(k - 1)
      BY <2>9, <3>1
    <3>2. CASE j = k
      <4>1. Manifest[j] = At(b)
        BY <2>6, <3>2
      <4> QED BY <2>8, <4>1
    <3> QED BY <2>10, <3>1, <3>2
  <2> QED BY <2>2, <2>11 DEF Placed, Advanced
<1> QED
  BY <1>3, <1>5, <1>6, <1>8, <1>10, <1>11, <1>13, <1>14, <1>15 DEF BootStep

\* What a path of the manifest leads to is of the kind and class the manifest says.
ProfiledAt(k) ==
  LET i == Resolve(Manifest[k].path) IN
  i # None => node[i].kind = Manifest[k].kind /\ node[i].class \in {"unset", Manifest[k].class}

\* Class and kind are written only from the entry that has the path.
LEMMA ProfiledKept ==
  ASSUME IInv, Trees', Lead', ~Serving,
         NEW b \in Boot, BootStep(b) \/ BootFail(b) \/ BootCrash(b), NEW k \in DOMAIN Manifest
  PROVE  ProfiledAt(k)'
<1> DEFINE p == Manifest[k].path
           i == Resolve(Manifest[k].path)
<1>t. TypeOK /\ Lead /\ Booting /\ TreeInv /\ Tree(entry) /\ ProfiledAt(k)
  BY DEF IInv, TreeInv, TypeOK, Tree, Profiled, ProfiledAt
<1>k. BootKeep
  BY BootKeeps
<1>e. Manifest[k] \in Entry /\ p \in Seq(Name) /\ p # <<>> /\ Manifest[k].class # "unset"
  <2>1. Manifest[k] \in Entry
    BY ConstantsOK
  <2> QED BY <2>1 DEF Entry
<1>1. Resolve(Manifest[k].path)' = ResolveIn(entry', p) /\ i = ResolveIn(entry, p)
  BY ResolveNext, ResolveNow
<1>2. CASE i # None
  <2>1. i \in Inode /\ node[i] # Gone
    BY <1>2, <1>e, <1>t, ResolveLive DEF Live
  <2>2. ResolveIn(entry', p) = i
    BY <1>2, <1>k, <1>e, PathKept
  <2>3. node'[i].kind = Manifest[k].kind
    BY <1>2, <1>t, <1>k, <2>1 DEF ProfiledAt, BootKeep
  <2>4. node[i].class # "unset" => node'[i].class = Manifest[k].class
    BY <1>2, <1>t, <1>k, <1>e, <2>1 DEF ProfiledAt, BootKeep
  <2>5. node[i].class = "unset" => node'[i].class \in {"unset", Manifest[k].class}
    <3> SUFFICES ASSUME node[i].class = "unset"
                 PROVE  node'[i].class \in {"unset", Manifest[k].class}
      OBVIOUS
    <3>1. CASE BootClass(b)
      <4> DEFINE j == boot[b].ino
                 h == [Stub(j) EXCEPT !.class = IF @ = "unset" THEN At(b).class ELSE @]
      <4>1. boot[b].pc = "class" /\ SetNode(j, h)
        BY <3>1 DEF BootClass
      <4>2. /\ j \in Inode /\ Live(j) /\ j = Resolve(At(b).path) /\ At(b).path \in Seq(Name)
            /\ boot[b].k \in DOMAIN Manifest /\ Stub(j) = node[j] /\ Stub(j) \in Hash
        BY <4>1, <1>t, BootInode, AtPath, StubTyped DEF Live
      <4>3. CASE i = j
        <5>1. NamesOnce(entry)
          BY <1>t DEF Lead, NamesOnce, None, Root
        <5>2. At(b).path = p
          BY <1>1, <1>2, <1>e, <1>t, <4>2, <4>3, <5>1, ResolveNow, ResolveInjective
        <5>3. boot[b].k = k
          BY <4>2, <5>2, ManifestOK DEF At
        <5>4. h.class = Manifest[k].class
          BY <4>2, <4>3, <5>3 DEF At, Hash
        <5> HIDE DEF h, i
        <5> QED BY <4>1, <4>2, <4>3, <5>4, <1>t DEF SetNode, TypeOK
      <4>4. CASE i # j
        BY <4>1, <4>4, <1>t, <2>1 DEF SetNode, TypeOK
      <4> QED BY <4>3, <4>4
    <3>2. CASE UNCHANGED <<node, entry>>
      BY <3>2
    <3>3. CASE BootRootSet(b)
      <4>1. i # Root
        BY <1>2, <1>e, <1>t, ResolveLive
      <4> HIDE DEF i
      <4> QED BY <3>3, <2>1, <4>1, <1>t DEF BootRootSet, TypeOK
    <3>4. CASE BootMake(b)
      <4>1. CASE Made(boot[b].dir, Base(At(b).path))
        <5> DEFINE d == boot[b].dir
                   n == Base(At(b).path)
        <5>1. /\ node[next + 1] = Gone
              /\ \A j \in Inode \ {next + 1, d} : node'[j] = node[j]
              /\ node'[d].class = node[d].class
          BY <4>1, <1>t, MadeEffect
        <5> HIDE DEF d, n
        <5> QED BY <2>1, <5>1
      <4> QED BY <3>4, <4>1, BootMakes DEF tree
    <3>5. CASE BootClassify(b)
      <4> DEFINE j == boot[b].ino
                 s == IF At(b).class \in {"ai_backed", "deterministic"} THEN "missing" ELSE "static"
                 h == [Stub(j) EXCEPT !.state = IF @ = "unset" THEN s ELSE @]
      <4>1. boot[b].pc = "state" /\ SetNode(j, h)
        BY <3>5 DEF BootClassify
      <4>2. j \in Inode /\ Stub(j) = node[j] /\ Stub(j) \in Hash
        BY <4>1, <1>t, BootInode, StubTyped DEF Live
      <4>3. h.class = node[j].class
        BY <4>2 DEF Hash
      <4> HIDE DEF h
      <4> QED BY <2>1, <4>1, <4>2, <4>3, <1>t DEF SetNode, TypeOK
    <3>6. CASE BootOwn(b)
      <4> DEFINE j == boot[b].ino
                 h == [Stub(j) EXCEPT !.owned = "set", !.kind = At(b).kind]
      <4>1. boot[b].pc = "own" /\ SetNode(j, h)
        BY <3>6 DEF BootOwn
      <4>2. j \in Inode /\ Stub(j) = node[j] /\ Stub(j) \in Hash
        BY <4>1, <1>t, BootInode, StubTyped DEF Live
      <4>3. h.class = node[j].class
        BY <4>2 DEF Hash
      <4> HIDE DEF h
      <4> QED BY <2>1, <4>1, <4>2, <4>3, <1>t DEF SetNode, TypeOK
    <3> QED BY <3>1, <3>2, <3>3, <3>4, <3>5, <3>6, BootTreeOnly
  <2> HIDE DEF i, p
  <2> QED BY <1>1, <2>2, <2>3, <2>4, <2>5 DEF ProfiledAt, i, p
<1>3. CASE i = None /\ ResolveIn(entry', p) # None
  <2>1. entry' # entry
    BY <1>1, <1>3
  <2>2. BootMake(b)
    BY <2>1, BootTreeOnly DEF BootRootSet, BootClassify, BootClass, BootOwn
  <2>3. boot[b].pc = "make"
    BY <2>2 DEF BootMake
  <2>4. Made(boot[b].dir, Base(At(b).path)) /\ node'[next + 1].kind = At(b).kind
    BY <2>1, <2>2, BootMakes DEF tree
  <2>5. p = At(b).path /\ ResolveIn(entry', p) = next + 1
    BY <1>3, <1>e, <1>k, <2>3, <2>4, MadePath
  <2>6. boot[b].k \in DOMAIN Manifest
    BY <2>3, <1>t, AtPath DEF Booting, Loop
  <2>7. k = boot[b].k
    BY <2>5, <2>6, ManifestOK DEF At
  <2>8. node'[next + 1].class = "unset"
    BY <2>4, <1>t, MadeEffect
  <2> QED BY <1>1, <2>4, <2>5, <2>7, <2>8 DEF ProfiledAt, At
<1>4. CASE ResolveIn(entry', p) = None
  BY <1>1, <1>4 DEF ProfiledAt
<1> QED BY <1>2, <1>3, <1>4

\* While callbacks are served no initializer is at work on the tree.
LEMMA InitializersStep == IInv /\ [Next]_vars => Booting' /\ Profiled' /\ Progress'
<1> SUFFICES ASSUME IInv, [Next]_vars PROVE Booting' /\ Profiled' /\ Progress'
  OBVIOUS
<1>t. TypeOK /\ Boots /\ Booting /\ Profiled /\ Progress /\ Phases' /\ Trees' /\ Lead'
  BY PhasesStep, TreeInvStep DEF IInv, TypeOK, Boots
<1>1. CASE Serving'
  <2>1. \A b \in Boot : boot'[b].pc \in {"idle", "check", "unlock", "done"}
    BY <1>1, <1>t DEF Phases
  <2>2. \A b \in Boot : Placed(b)' /\ Advanced(b)'
    BY <2>1 DEF Placed, Advanced, Loop
  <2> QED BY <1>1, <2>2 DEF Booting, Profiled, Progress, Placed, Advanced
<1>2. CASE ~Serving'
  <2>1. ASSUME NEW c \in Call, NEW op, NEW path, CallStart(c, op, path) \/ CallStep(c)
        PROVE  FALSE
    BY <1>2, <1>t, <2>1, CallMoves DEF Serving
  <2>2. ASSUME NEW b \in Boot, BootStep(b) \/ BootFail(b) \/ BootCrash(b)
        PROVE  Booting' /\ Profiled' /\ Progress'
    <3>1. ~Serving
      BY <1>2, <2>2, BootOnly DEF Serving
    <3>2. BootKeep /\ \A a \in Boot : a # b => boot'[a] = boot[a]
      BY <1>t, <2>2, BootKeeps, BootMoves
    <3>3. ASSUME NEW a \in Boot PROVE Placed(a)' /\ Advanced(a)'
      <4>1. CASE a = b
        BY <1>t, <2>2, <4>1, MoverPlaced
      <4>2. CASE a # b
        BY <1>t, <3>2, <4>2, OtherStays
      <4> QED BY <4>1, <4>2
    <3>4. \A k \in DOMAIN Manifest : ProfiledAt(k)'
      BY <1>t, <2>2, <3>1, ProfiledKept
    <3> QED BY <3>3, <3>4 DEF Booting, Progress, Profiled, Placed, Advanced, ProfiledAt
  <2>3. ASSUME LockExpire \/ UNCHANGED vars PROVE Booting' /\ Profiled' /\ Progress'
    <3>1. UNCHANGED <<node, entry, boot, call>>
      BY <2>3 DEF LockExpire, tree, BootVars, vars
    <3>2. BootKeep
      BY <3>1 DEF BootKeep
    <3>3. \A a \in Boot : Placed(a)' /\ Advanced(a)'
      BY <1>t, <3>1, <3>2, OtherStays
    <3>4. \A path : Resolve(path)' = Resolve(path)
      BY <3>1, ResolveNow, ResolveNext
    <3>5. ~Serving
      BY <1>2, <3>1 DEF Serving
    <3>6. Profiled'
      <4>1. SUFFICES ASSUME NEW k \in DOMAIN Manifest PROVE ProfiledAt(k)'
        BY DEF Profiled, ProfiledAt
      <4>2. ProfiledAt(k)
        BY <1>t, <3>5 DEF Profiled, ProfiledAt
      <4> QED BY <3>1, <3>4, <4>2 DEF ProfiledAt
    <3> QED BY <3>3, <3>6 DEF Booting, Progress, Placed, Advanced
  <2> QED BY <2>1, <2>2, <2>3 DEF Next, Quiescent
<1> QED BY <1>1, <1>2

------------------------------------------------------------------------------
(* The theorems                                                             *)

\* The invariant holds before anything is there ...
LEMMA InitIInv == Init => IInv
<1> SUFFICES ASSUME Init PROVE IInv
  OBVIOUS
<1>1. /\ \A i \in Inode : node[i] = Gone /\ entry[i] = NoEntries
      /\ \A i \in Inode, n \in Name : entry[i][n] = None
      /\ \A b \in Boot : boot[b] = [pc |-> "idle", k |-> 1, dir |-> None, ino |-> None]
      /\ \A c \in Call : call[c].pc = "idle" /\ call[c].ino = None
      /\ next = 0 /\ removed = {} /\ revived = {} /\ initialized = FALSE
  BY DEF Init, NoEntries
<1>2. TypeOK
  <2>1. node \in [Inode -> Hash \union {Gone}] /\ entry \in [Inode -> [Name -> Inode \union {None}]]
    BY DEF Init, NoEntries
  <2>2. boot \in [Boot -> BootState]
    <3>1. 1 \in 1..(Len(Manifest) + 1)
      BY ConstantsOK
    <3> QED BY <3>1 DEF Init, BootState, BootPC
  <2>3. call \in [Call -> CallState]
    <3>1. (CHOOSE p \in Target : TRUE) \in Target
      BY ConstantsOK
    <3> QED BY <3>1 DEF Init, CallState, Op
  <2>4. failures \in 0..MaxFailures
    BY ConstantsOK DEF Init
  <2> QED BY <2>1, <2>2, <2>3, <2>4 DEF Init, TypeOK
<1>3. ~Serving
  BY <1>1 DEF Serving
<1>4. Phases /\ Fresh
  BY <1>1, <1>3 DEF Phases, Fresh
<1>5. Numbered
  BY <1>1 DEF Numbered, None
<1>6. Lead /\ Kinds /\ NothingLost /\ Counted
  BY <1>1, RootIsInode DEF Lead, Kinds, NothingLost, Counted, Live
<1>7. CallsHeld
  BY <1>1 DEF CallsHeld, Chmods
<1>8. Locked /\ Booting /\ Progress
  BY <1>1 DEF Locked, Booting, Progress, Loop
<1>9. Profiled
  <2>1. SUFFICES ASSUME NEW k \in DOMAIN Manifest PROVE Resolve(Manifest[k].path) = None
    BY DEF Profiled
  <2>2. Manifest[k] \in Entry
    BY ConstantsOK
  <2>3. Manifest[k].path \in Seq(Name) /\ Manifest[k].path # <<>>
    BY <2>2 DEF Entry
  <2>4. Tree(entry)
    BY <1>2 DEF TypeOK, Tree
  <2> QED BY <1>1, <2>3, <2>4, ResolveLast, ResolveNow
<1> QED
  BY <1>2, <1>4, <1>5, <1>6, <1>7, <1>8, <1>9 DEF IInv

\* ... and every step keeps it.
LEMMA NextIInv == IInv /\ [Next]_vars => IInv'
<1> SUFFICES ASSUME IInv, [Next]_vars PROVE IInv'
  OBVIOUS
<1> QED
  BY TypeOKStep, PhasesStep, TreeInvStep, NumberedStep, CallsHeldStep, LockedStep,
     InitializersStep DEF IInv

\* The inductive invariant of the tree, its callbacks and its initializers.
THEOREM SpecIInv == Spec => []IInv
<1> QED
  BY InitIInv, NextIInv, PTL DEF Spec

\* Every variable keeps its type: no inode number beyond the limit of the scripts is used,
\* whatever callbacks and initializers do.
THEOREM SpecTypeOK == Spec => []TypeOK
<1>1. IInv => TypeOK
  BY DEF IInv
<1> QED
  BY <1>1, SpecIInv, PTL

\* EntriesLead: an entry leads to a live inode that only this entry names.
THEOREM SpecEntriesLead == Spec => []EntriesLead
<1>1. ASSUME IInv PROVE EntriesLead
  <2>1. ASSUME NEW d \in Inode, NEW n \in Name, entry[d][n] # None
        PROVE  /\ Live(entry[d][n]) /\ entry[d][n] <= next /\ entry[d][n] # Root
               /\ Names(entry[d][n]) = {<<d, n>>}
    <3>1. Live(entry[d][n]) /\ entry[d][n] <= next /\ entry[d][n] # Root
      BY <1>1, <2>1 DEF IInv, Lead
    <3>2. \A e \in Inode, m \in Name : entry[e][m] = entry[d][n] => e = d /\ m = n
      BY <1>1, <2>1 DEF IInv, Lead
    <3>3. \A p \in Inode \X Name : entry[p[1]][p[2]] = entry[d][n] <=> p = <<d, n>>
      BY <3>2
    <3>4. Names(entry[d][n]) = {<<d, n>>}
      BY <3>3 DEF Names
    <3> QED BY <3>1, <3>4
  <2> QED BY <2>1 DEF EntriesLead
<1> QED
  BY <1>1, SpecIInv, PTL

\* LinkCounts: a directory counts its entry, itself and its subdirectories, a file its one
\* entry.
THEOREM SpecLinkCounts == Spec => []LinkCounts
<1>1. ASSUME IInv PROVE LinkCounts
  <2>1. ASSUME NEW i \in Inode, Live(i), i = Root => outlived = {}
        PROVE  node[i].nlink =
                 IF node[i].kind = "dir"
                 THEN 2 + Cardinality({n \in Name : entry[i][n] # None /\ IsDir(entry[i][n])})
                 ELSE 1
    <3>1. node[i].kind \in {"dir", "file"}
      BY <1>1, <2>1 DEF IInv, TypeOK, Live, Hash
    <3>2. /\ node[i].kind = "dir" => node[i].nlink = 2 + Cardinality(Subdirs(i))
          /\ node[i].kind = "file" => node[i].nlink = 1
      BY <1>1, <2>1 DEF IInv, Counted
    <3> QED BY <3>1, <3>2 DEF Subdirs
  <2> QED BY <2>1 DEF LinkCounts
<1> QED
  BY <1>1, SpecIInv, PTL

\* NothingLost: what was not removed has a name in a directory that was not removed, or that
\* a chmod brought back.
THEOREM SpecNothingLost == Spec => []NothingLost
<1>1. IInv => NothingLost
  BY DEF IInv
<1> QED
  BY <1>1, SpecIInv, PTL

\* NumbersFresh: a new entry gets a number above every number that is or was in use.
THEOREM SpecNumbersFresh == Spec => NumbersFresh
<1> DEFINE A == \A d \in Inode, n \in Name :
                  entry'[d][n] \notin {None, entry[d][n]} => \A i \in Used : i < entry'[d][n]
<1>1. ASSUME IInv, [Next]_vars, NEW d \in Inode, NEW n \in Name,
             entry'[d][n] \notin {None, entry[d][n]}, NEW i \in Used
      PROVE  i < entry'[d][n]
  <2>t. TreeInv /\ TreeStep /\ next \in Nat
    BY <1>1, TreeSteps, NextGrows DEF IInv, TreeInv
  <2>1. \E e, m : Made(e, m)
    <3>1. ASSUME NEW e, NEW m, DirRemoved(e, m) \/ FileRemoved(e, m) PROVE FALSE
      <4>1. Unnamed(e, m, entry[e][m])
        BY <2>t, <3>1, DirRemovedEffect, FileRemovedEffect
      <4> QED BY <1>1, <4>1 DEF Unnamed
    <3>2. ASSUME entry' = entry PROVE FALSE
      BY <1>1, <3>2
    <3> QED BY <2>t, <3>1, <3>2 DEF TreeStep, Untouched, RootMade, Counting, Touched
  <2>2. entry'[d][n] = next + 1 /\ next >= 1
    BY <1>1, <2>1, <2>t, MadeEffect DEF Made
  <2>3. CASE i = Root
    BY <2>2, <2>3, <2>t DEF Root
  <2>4. CASE i \in removed
    <3>1. i <= next
      BY <1>1, <2>4 DEF IInv, Fresh
    <3>2. i \in Inode
      BY <1>1, <2>4 DEF IInv, TypeOK
    <3>3. i \in Nat
      BY <3>2, RootIsInode DEF Inode
    <3> QED BY <2>2, <2>t, <3>1, <3>3
  <2>5. CASE \E e \in Inode, m \in Name : i = entry[e][m]
    <3>1. PICK e \in Inode, m \in Name : i = entry[e][m]
      BY <2>5
    <3>2. i \in Nat
      BY <1>1, <3>1 DEF IInv, TypeOK, Inode, None
    <3>3. i <= next
      BY <1>1, <2>2, <2>t, <3>1, <3>2 DEF IInv, Lead, None
    <3> QED BY <2>2, <2>t, <3>2, <3>3
  <2> QED BY <1>1, <2>3, <2>4, <2>5 DEF Used
<1>2. IInv /\ [Next]_vars => [A]_vars
  BY <1>1
<1> QED
  BY <1>2, SpecIInv, PTL DEF Spec, NumbersFresh

\* InitializedIsComplete: when fs:initialized is set the whole manifest is in the tree.
THEOREM SpecInitializedIsComplete == Spec => InitializedIsComplete
<1> DEFINE A == ~initialized /\ initialized' => \A k \in 1..Len(Manifest) : Complete(Manifest[k])
<1>1. ASSUME IInv, [Next]_vars, ~initialized, initialized', NEW k \in 1..Len(Manifest)
      PROVE  Complete(Manifest[k])
  <2>1. PICK b \in Boot : BootFlag(b)
    <3>1. ASSUME NEW c \in Call, NEW op, NEW path, CallStart(c, op, path) \/ CallStep(c)
          PROVE  FALSE
      BY <1>1, <3>1, CallOnly
    <3>2. ASSUME LockExpire \/ UNCHANGED vars PROVE FALSE
      BY <1>1, <3>2 DEF LockExpire, vars
    <3>3. PICK b \in Boot : BootStep(b) \/ BootFail(b) \/ BootCrash(b)
      BY <1>1, <3>1, <3>2 DEF Next, Quiescent
    <3>4. Boots
      BY <1>1 DEF IInv, TypeOK, Boots
    <3>5. initialized' = initialized \/ BootFlag(b)
      BY <3>3, <3>4, BootMoves
    <3> QED BY <1>1, <3>5
  <2>2. boot[b].pc = "entry" /\ boot[b].k > Len(Manifest)
    BY <2>1 DEF BootFlag
  <2>3. \A j \in 1..(boot[b].k - 1) : Complete(Manifest[j])
    BY <1>1, <2>2 DEF IInv, Progress, Loop
  <2>4. boot[b].k \in 1..(Len(Manifest) + 1) /\ Len(Manifest) \in Nat
    BY <1>1, ConstantsOK DEF IInv, TypeOK, BootState
  <2>5. k \in 1..(boot[b].k - 1)
    BY <2>2, <2>4
  <2> QED BY <2>3, <2>5
<1>2. IInv /\ [Next]_vars => [A]_vars
  BY <1>1
<1> QED
  BY <1>2, SpecIInv, PTL DEF Spec, InitializedIsComplete
==============================================================================
