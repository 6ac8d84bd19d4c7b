------------------------- MODULE HiveRegistryProofs -------------------------
(***************************************************************************)
(* Proof that HiveTree implements Registry: on a hive of any size that is  *)
(* sound when it is opened, and whose nodes form a tree, every step of     *)
(* every call is a step of the registry that an application sees, or       *)
(* changes nothing of it.                                                  *)
(***************************************************************************)
EXTENDS HiveListsProofs

-----------------------------------------------------------------------------
(* The inductive invariant on the keys that an application sees *)

Text == STRING

(* No node is its own ancestor. *)
Grounded ==
  \E rank \in [DOMAIN nk -> 0 .. next] :
    \A n \in DOMAIN nk \ {root} :
      nk[n].parent \in DOMAIN nk => rank[nk[n].parent] < rank[n]

(* No frames are left when a call has returned, ... *)
NoFrames == pc \in {"idle", "set"} => frames = <<>>

(* ... and a node that a failed hivex_node_add_child has left is not       *)
(* linked.                                                                 *)
Unlinked ==
  ~partial /\ pc # "aborted" =>
    \A n \in Nodes \cap orphans : \A p \in Nodes : n \notin Kids(p)

ViewInv ==
  /\ RecordsInv /\ StackInv /\ SetInv /\ SoundValues /\ SoundKeys /\ LinksInv
  /\ Unset /\ NoFrames /\ Unlinked /\ Grounded

(* The nodes that an application reaches from their parents. *)
Tied == Nodes \ (orphans \cup Deleting)
ParentOf == [n \in DOMAIN nk |-> nk[n].parent]
NameOf == [n \in DOMAIN nk |-> nk[n].name]
Paths == [n \in Nodes |-> PathTo[n]]

(* What PathTo means, ... *)
PathsOk ==
  /\ ArePaths(Paths, Nodes, root, Tied, ParentOf, NameOf)
  /\ OnePath(Paths, Nodes, Text)
  /\ \A n \in Tied \ {root} : nk[n].parent \in Nodes /\ n \in Kids(nk[n].parent)

(* ... and what Keys means. *)
KeysOk ==
  /\ Keys = [p \in DOMAIN Keys |-> Keys[p]]
  /\ DOMAIN Keys = UNION {Paths[n] : n \in Nodes}
  /\ \A n \in Nodes : \A p \in Paths[n] : Keys[p] = SeenValues(n)

ViewOk == ~partial /\ pc # "aborted" => PathsOk /\ KeysOk

-----------------------------------------------------------------------------
(* What PathTo and Keys mean *)

LEMMA ListedIs ==
  ASSUME NEW p, NEW c, nk[p].nr_subkeys \in Nat
  PROVE  IsListed(c, p) <=> c \in Kids(p)
BY DEF IsListed, Kids

LEMMA KidsDiffer ==
  ASSUME NEW p \in Nodes, SoundRecords, SoundKeys, Open(p),
         NEW m \in Kids(p), NEW n \in Kids(p),
         Fold(nk[m].name) = Fold(nk[n].name)
  PROVE  m = n
<1>1. p \in DOMAIN nk /\ nk[p].nr_subkeys \in Nat /\ RecordTypes /\ KeyTypes
  BY DEF Nodes, SoundRecords, SoundKeys, RecordTypes, NodeType
<1>2. nk[p].nr_subkeys # 0
  BY DEF Kids
<1>3. Live(p) /\ Shaped(p) /\ Sorted(p)
  BY <1>1, <1>2 DEF Open, Live, SoundKeys
<1>4. PICK D : D = DOMAIN nk
  OBVIOUS
<1>5. PICK ss \in Seq(Seq(D)) : ss = Content(p)
  BY <1>1, <1>3, <1>4, ShapedLists
<1>6. PICK key : key = Key
  OBVIOUS
<1>7. Ascending(ss, key) /\ \A x \in D : key[x] = Fold(nk[x].name) /\ key[x] \in Int
  BY <1>1, <1>3, <1>4, <1>5, <1>6 DEF Sorted, Key, KeyTypes
<1>8. PICK s \in Seq(D) : s = FlattenSeq(ss)
  BY <1>5, FlattenType
<1>9. Children(p) = s
  BY <1>2, <1>5, <1>8 DEF Children, Content
<1>10. \A a, b \in 1 .. Len(s) : a < b => key[s[a]] < key[s[b]]
  BY <1>7, <1>8, FlattenAscends
<1>11. ToSet(s) = Kids(p)
  BY <1>9, KidsAre
<1>12. PICK a \in 1 .. Len(s) : s[a] = m
  BY <1>11, ToSetFacts
<1>13. PICK b \in 1 .. Len(s) : s[b] = n
  BY <1>11, ToSetFacts
<1>14. key[m] = key[n] /\ key[m] \in Int
  <2>1. m \in D /\ n \in D
    BY <1>11, ToSetFacts
  <2> QED BY <1>7, <2>1
<1>15. ~(a < b) /\ ~(b < a)
  BY <1>10, <1>12, <1>13, <1>14
<1>16. a = b
  BY <1>15
<1> QED BY <1>12, <1>13, <1>16

ArePathsTo(P) ==
  P = [n \in DOMAIN nk |->
         IF n = root THEN {<<>>}
         ELSE LET p == nk[n].parent
              IN  IF n \in Deleting \/ p \notin Nodes THEN {}
                  ELSE IF ~IsListed(n, p) THEN {}
                  ELSE {Append(q, nk[n].name) : q \in P[p]}]

Hooked ==
  {n \in DOMAIN nk : /\ n \notin Deleting /\ nk[n].parent \in Nodes
                     /\ IsListed(n, nk[n].parent)}

LEMMA PathToIs == PathTo = CHOOSE P : ArePathsTo(P)
BY DEF PathTo, ArePathsTo

LEMMA ArePathsIs ==
  ASSUME NEW P
  PROVE  ArePathsTo(P) <=> ArePaths(P, DOMAIN nk, root, Hooked, ParentOf, NameOf)
<1>1. \A n \in DOMAIN nk :
        (IF n = root THEN {<<>>}
         ELSE LET p == nk[n].parent
              IN  IF n \in Deleting \/ p \notin Nodes THEN {}
                  ELSE IF ~IsListed(n, p) THEN {}
                  ELSE {Append(q, nk[n].name) : q \in P[p]})
        = IF n = root THEN {<<>>}
          ELSE IF n \in Hooked THEN {Append(q, NameOf[n]) : q \in P[ParentOf[n]]}
          ELSE {}
  <2> TAKE n \in DOMAIN nk
  <2>1. NameOf[n] = nk[n].name /\ ParentOf[n] = nk[n].parent
    BY DEF NameOf, ParentOf
  <2>2. n \in Hooked <=> /\ n \notin Deleting /\ nk[n].parent \in Nodes
                         /\ IsListed(n, nk[n].parent)
    BY DEF Hooked
  <2> QED BY <2>1, <2>2
<1> QED BY <1>1 DEF ArePathsTo, ArePaths

(* The parent of a node that can be reached lists it. *)
LEMMA TiedAre ==
  ASSUME ViewInv, ~partial, pc # "aborted", NEW n \in Nodes, n # root
  PROVE  /\ n \in Tied <=> n \in Hooked
         /\ n \in Tied => /\ nk[n].parent \in Nodes /\ n \in Kids(nk[n].parent)
                          /\ Open(nk[n].parent)
<1>1. PICK p : p = nk[n].parent
  OBVIOUS
<1>2. n \in DOMAIN nk /\ Declared /\ Listed /\ RecordTypes
  BY LinksAre DEF Nodes, ViewInv, RecordsInv, SoundRecords
<1>3. p \in Nodes => (IsListed(n, p) <=> n \in Kids(p)) /\ Open(p)
  <2>1. p \in Nodes => nk[p].nr_subkeys \in Nat
    BY <1>2 DEF Nodes, RecordTypes, NodeType
  <2> QED BY <1>2, <2>1, ListedIs DEF Declared, Open
<1>4. n \in Hooked <=> n \notin Deleting /\ p \in Nodes /\ n \in Kids(p)
  BY <1>1, <1>2, <1>3 DEF Hooked
<1>5. n \notin orphans => p \in Nodes /\ n \in Kids(p)
  BY <1>1, <1>2 DEF Listed
<1>6. n \in orphans /\ p \in Nodes => n \notin Kids(p)
  BY DEF ViewInv, Unlinked
<1>7. n \in Tied <=> n \notin orphans /\ n \notin Deleting
  BY DEF Tied
<1> QED BY <1>1, <1>3, <1>4, <1>5, <1>6, <1>7

(* The paths of all the nodes there ever were. *)
LEMMA PathToAre ==
  ASSUME ViewInv
  PROVE  ArePaths(PathTo, DOMAIN nk, root, Hooked, ParentOf, NameOf)
<1>1. PICK rank \in [DOMAIN nk -> 0 .. next] :
        \A n \in DOMAIN nk \ {root} :
          nk[n].parent \in DOMAIN nk => rank[nk[n].parent] < rank[n]
  BY DEF ViewInv, Grounded
<1>2. PICK D : D = DOMAIN nk
  OBVIOUS
<1>3. PICK K \in Nat : K = next
  BY DEF ViewInv, RecordsInv, SoundRecords, RecordTypes
<1>4. PICK W : W = Hooked
  OBVIOUS
<1>5. PICK par : par = ParentOf
  OBVIOUS
<1>6. PICK nm : nm = NameOf
  OBVIOUS
<1>7. \A n \in W : n \in D /\ nk[n].parent \in D
  BY <1>2, <1>4 DEF Hooked, Nodes
<1>8. Rooted(D, rank, root, W, par)
  BY <1>1, <1>2, <1>5, <1>7 DEF ParentOf, Rooted
<1>9. PICK P : ArePaths(P, D, root, W, par, nm)
  BY <1>1, <1>2, <1>3, <1>8, PathsExist
<1>10. ArePathsTo(P)
  BY <1>2, <1>4, <1>5, <1>6, <1>9, ArePathsIs
<1>11. ArePathsTo(PathTo)
  BY <1>10, PathToIs
<1>12. PICK Q : Q = PathTo
  OBVIOUS
<1>13. ArePaths(Q, D, root, W, par, nm)
  BY <1>2, <1>4, <1>5, <1>6, <1>11, <1>12, ArePathsIs
<1> QED BY <1>2, <1>4, <1>5, <1>6, <1>12, <1>13

LEMMA RankOf ==
  ASSUME ViewInv
  PROVE  \E K \in Nat : \E rank \in [DOMAIN nk -> 0 .. K] :
           \A n \in DOMAIN nk \ {root} :
             nk[n].parent \in DOMAIN nk => rank[nk[n].parent] < rank[n]
BY DEF ViewInv, Grounded, RecordsInv, SoundRecords, RecordTypes

LEMMA PathsAre ==
  ASSUME ViewInv, ~partial, pc # "aborted"
  PROVE  PathsOk
<1>1. PICK K \in Nat : \E rank \in [DOMAIN nk -> 0 .. K] :
        \A n \in DOMAIN nk \ {root} :
          nk[n].parent \in DOMAIN nk => rank[nk[n].parent] < rank[n]
  BY RankOf
<1>2. PICK D : D = Nodes
  OBVIOUS
<1>3. PICK rank \in [D -> 0 .. K] : \A n \in D \ {root} :
        nk[n].parent \in D => rank[nk[n].parent] < rank[n]
  <2>1. PICK f \in [DOMAIN nk -> 0 .. K] : \A n \in DOMAIN nk \ {root} :
          nk[n].parent \in DOMAIN nk => f[nk[n].parent] < f[n]
    BY <1>1
  <2>2. PICK g : g = [n \in D |-> f[n]]
    OBVIOUS
  <2>3. \A n \in D : n \in DOMAIN nk
    BY <1>2 DEF Nodes
  <2>4. g \in [D -> 0 .. K] /\ \A n \in D : g[n] = f[n]
    BY <2>2, <2>3
  <2> QED BY <2>1, <2>3, <2>4
<1>4. PICK W : W = Tied
  OBVIOUS
<1>5. PICK par : par = ParentOf
  OBVIOUS
<1>6. PICK nm \in [D -> Text] : \A n \in D : nm[n] = nk[n].name
  <2>1. \A n \in D : nk[n].name \in Text
    BY <1>2 DEF ViewInv, RecordsInv, SoundRecords, RecordTypes, NodeType, Text, Nodes
  <2>2. [n \in D |-> nk[n].name] \in [D -> Text]
    BY <2>1
  <2> QED BY <2>2
<1>7. \A n \in W \ {root} : n \in D /\ nk[n].parent \in D /\ n \in Kids(nk[n].parent)
                            /\ Open(nk[n].parent)
  BY <1>2, <1>4, TiedAre DEF Tied
<1>8. Rooted(D, rank, root, W, par)
  BY <1>2, <1>3, <1>5, <1>7 DEF ParentOf, Rooted, Nodes
<1>9. PICK Q : Q = Paths
  OBVIOUS
<1>10. \A n \in D : PathTo[n] = IF n = root THEN {<<>>}
                                ELSE IF n \in Hooked
                                THEN {Append(q, NameOf[n]) : q \in PathTo[ParentOf[n]]}
                                ELSE {}
  <2>1. \A n \in DOMAIN nk : PathTo[n] = IF n = root THEN {<<>>}
                                ELSE IF n \in Hooked
                                THEN {Append(q, NameOf[n]) : q \in PathTo[ParentOf[n]]}
                                ELSE {}
    BY PathToAre DEF ArePaths
  <2> QED BY <1>2, <2>1 DEF Nodes
<1>11. ASSUME NEW n \in D
       PROVE  Q[n] = IF n = root THEN {<<>>}
                     ELSE IF n \in W THEN {Append(q, nm[n]) : q \in Q[par[n]]}
                     ELSE {}
  <2>1. \A m \in D : Q[m] = PathTo[m]
    BY <1>2, <1>9 DEF Paths
  <2>2. CASE n = root
    BY <1>10, <2>1, <2>2
  <2>3. CASE n # root /\ n \notin W
    <3>1. n \notin Hooked
      BY <1>2, <1>4, <2>3, TiedAre
    <3> QED BY <1>10, <2>1, <2>3, <3>1
  <2>4. CASE n # root /\ n \in W
    <3>1. n \in Hooked /\ nk[n].parent \in D
      BY <1>2, <1>4, <2>4, TiedAre
    <3>2. ParentOf[n] = nk[n].parent /\ par[n] = nk[n].parent /\ NameOf[n] = nm[n]
      BY <1>2, <1>5, <1>6 DEF ParentOf, NameOf, Nodes
    <3>3. PathTo[n] = {Append(q, NameOf[n]) : q \in PathTo[ParentOf[n]]}
      BY <1>10, <2>4, <3>1
    <3>4. Q[par[n]] = PathTo[ParentOf[n]] /\ Q[n] = PathTo[n]
      BY <2>1, <3>1, <3>2
    <3> QED BY <2>4, <3>2, <3>3, <3>4
  <2> QED BY <2>2, <2>3, <2>4
<1>12. ArePaths(Q, D, root, W, par, nm)
  BY <1>2, <1>9, <1>11 DEF ArePaths, Paths
<1>13. ArePaths(Q, D, root, W, par, NameOf)
  <2>1. \A n \in D : NameOf[n] = nm[n]
    BY <1>2, <1>6 DEF NameOf, Nodes
  <2>2. ASSUME NEW n \in D, n # root, n \in W
        PROVE  Q[n] = {Append(q, NameOf[n]) : q \in Q[par[n]]}
    <3>1. Q[n] = {Append(q, nm[n]) : q \in Q[par[n]]}
      BY <1>11, <2>2
    <3> QED BY <2>1, <3>1
  <2>3. \A n \in D : Q[n] = IF n = root THEN {<<>>}
                            ELSE IF n \in W THEN {Append(q, NameOf[n]) : q \in Q[par[n]]}
                            ELSE {}
    BY <1>11, <2>2
  <2> QED BY <1>2, <1>9, <2>3 DEF ArePaths, Paths
<1>14. \A m, n \in (D \cap W) \ {root} :
         par[m] = par[n] /\ nm[m] = nm[n] => m = n
  <2> SUFFICES ASSUME NEW m \in (D \cap W) \ {root}, NEW n \in (D \cap W) \ {root},
                      par[m] = par[n], nm[m] = nm[n]
               PROVE  m = n
    OBVIOUS
  <2>1. nk[m].parent = nk[n].parent /\ nk[m].name = nk[n].name
    BY <1>2, <1>5, <1>6 DEF ParentOf, Nodes
  <2>2. PICK p \in Nodes : p = nk[n].parent
    BY <1>2, <1>7
  <2>3. m \in Kids(p) /\ n \in Kids(p) /\ Open(p)
    BY <1>7, <2>1, <2>2
  <2> QED BY <2>1, <2>3, KidsDiffer DEF ViewInv, RecordsInv
<1>15. OnePath(Q, D, Text)
  BY <1>3, <1>6, <1>8, <1>12, <1>14, PathsUnique
<1> QED BY <1>2, <1>4, <1>5, <1>7, <1>9, <1>13, <1>15 DEF PathsOk

LEMMA KeysAre ==
  ASSUME PathsOk
  PROVE  KeysOk
<1>1. PICK P : P = Paths
  OBVIOUS
<1>2. PICK N : N = Nodes
  OBVIOUS
<1> DEFINE at0 == UNION {{[path |-> p, node |-> n] : p \in PathTo[n]} : n \in Nodes}
           Seen(at) == [p \in {a.path : a \in at} |->
                          SeenValues((CHOOSE a \in at : a.path = p).node)]
<1>3. Keys = Seen(at0)
  BY DEF Keys
<1>4. PICK at : at = at0
  OBVIOUS
<1>5. PICK Z : Z = {a.path : a \in at}
  OBVIOUS
<1>6. Keys = [p \in Z |-> SeenValues((CHOOSE a \in at : a.path = p).node)]
  <2> HIDE DEF at0, Seen
  <2>1. Keys = Seen(at)
    BY <1>3, <1>4
  <2> QED BY <1>5, <2>1 DEF Seen
<1>7. at = UNION {{[path |-> p, node |-> n] : p \in P[n]} : n \in N}
  <2>1. \A n \in N : P[n] = PathTo[n]
    BY <1>1, <1>2 DEF Paths
  <2> QED BY <1>2, <1>4, <2>1
<1> HIDE DEF at0, Seen
<1>8. \A m, n \in N : \A q \in P[n] : q \in P[m] => m = n
  BY <1>1, <1>2 DEF PathsOk, OnePath
<1>9. ASSUME NEW n \in N, NEW p \in P[n]
      PROVE  p \in Z /\ Keys[p] = SeenValues(n)
  <2>1. PICK b : b = [path |-> p, node |-> n]
    OBVIOUS
  <2>2. b \in at /\ b.path = p
    BY <1>7, <2>1
  <2>3. PICK c : c = CHOOSE a \in at : a.path = p
    OBVIOUS
  <2>4. c \in at /\ c.path = p
    BY <2>2, <2>3
  <2>5. PICK m \in N : \E q \in P[m] : c = [path |-> q, node |-> m]
    BY <1>7, <2>4
  <2>6. p \in P[m] /\ c.node = m
    BY <2>4, <2>5
  <2>7. c.node = n
    BY <1>8, <2>6
  <2>8. p \in Z
    BY <1>5, <2>2
  <2>9. Keys[p] = SeenValues(c.node)
    BY <1>6, <2>3, <2>8
  <2> QED BY <2>7, <2>8, <2>9
<1>10. Z \subseteq UNION {P[n] : n \in N}
  <2> SUFFICES ASSUME NEW a \in at PROVE a.path \in UNION {P[n] : n \in N}
    BY <1>5
  <2>1. PICK n \in N : \E q \in P[n] : a = [path |-> q, node |-> n]
    BY <1>7
  <2> QED BY <2>1
<1>11. Z = UNION {P[n] : n \in N}
  BY <1>9, <1>10
<1>12. DOMAIN Keys = Z /\ Keys = [p \in Z |-> Keys[p]]
  BY <1>6
<1> QED BY <1>1, <1>2, <1>9, <1>11, <1>12 DEF KeysOk

LEMMA ViewIs == ViewInv => ViewOk
BY PathsAre, KeysAre DEF ViewOk

-----------------------------------------------------------------------------
(* What a step may change of the keys *)

(* The records of the values of node m are not touched. *)
ValuesKept(m) ==
  /\ m \in Nodes' /\ SameFields(m) /\ VkGrows
  /\ \A d \in DOMAIN db : db'[d] = db[d]
  /\ Held(m) \cap (valid \ valid') = {}
  /\ \A b \in valid' : b \in valid \/ b >= next

LEMMA StoredSame ==
  ASSUME NEW n \in Nodes, SoundRecords, Lengths, ValuesKept(n)
  PROVE  /\ CanReadAll(n)' <=> CanReadAll(n)
         /\ CanReadAll(n) => Stored(n)' = Stored(n)
<1>1. /\ n \in Nodes' /\ SameFields(n) /\ VkGrows /\ next \in Nat \ {0}
      /\ \A d \in DOMAIN db : db'[d] = db[d]
      /\ Held(n) \cap (valid \ valid') = {}
      /\ \A b \in valid' : b \in valid \/ b >= next
      /\ n \in valid /\ n \in DOMAIN nk /\ n \in valid' /\ n \in DOMAIN nk'
      /\ nk[n].nr_values \in Nat /\ Zero \notin valid
  <2>1. /\ n \in Nodes' /\ SameFields(n) /\ VkGrows
        /\ \A d \in DOMAIN db : db'[d] = db[d]
        /\ Held(n) \cap (valid \ valid') = {}
        /\ \A b \in valid' : b \in valid \/ b >= next
    BY DEF ValuesKept
  <2>2. nk[n].nr_values \in Nat /\ next \in Nat \ {0} /\ valid \subseteq Allocated
    BY HeldKinds DEF SoundRecords, RecordTypes
  <2>3. n \in valid /\ n \in DOMAIN nk /\ n \in valid' /\ n \in DOMAIN nk'
    BY <2>1 DEF Nodes
  <2>4. Zero \notin valid
    BY <2>2 DEF Allocated, Zero
  <2> QED BY <2>1, <2>2, <2>3, <2>4
<1>2. PICK V : V = ValuesOf(n)
  OBVIOUS
<1>3. ValuesOf(n)' = V
  <2>1. CASE nk[n].nr_values = 0
    BY <1>1, <1>2, <2>1 DEF ValuesOf, SameFields
  <2>2. CASE nk[n].nr_values > 0
    BY <1>1, <1>2, <2>2 DEF ValuesOf, SameFields
  <2> QED BY <1>1, <2>1, <2>2
<1>4. ToSet(V) = Vals(n) /\ \A i \in DOMAIN V : V[i] \in Vals(n)
  <2>1. ToSet(V) = Vals(n)
    BY <1>2, ValuesOfAre
  <2> QED BY <2>1 DEF ToSet
<1>5. Zero \notin valid'
  BY <1>1 DEF Zero
<1>6. \A b : b \in Held(n) \cup {Zero} => (b \in valid' <=> b \in valid)
  <2> SUFFICES ASSUME NEW b, b \in Held(n)
               PROVE  b \in valid' <=> b \in valid
    BY <1>1, <1>5
  <2>1. b \in Nat /\ b < next
    BY HeldOld
  <2> QED BY <1>1, <2>1
<1>7. ASSUME NEW v \in Vals(n)
      PROVE  /\ v \in valid' <=> v \in valid
             /\ Readable(v)' <=> Readable(v)
             /\ Readable(v) => ReadValue(v)' = ReadValue(v)
  <2>1. v \in DOMAIN vk \cup {Zero} /\ v # next /\ DOMAIN vk \subseteq Allocated
    BY HeldKinds, HeldOld DEF SoundRecords, RecordTypes
  <2>2. v \in Held(n) \cup {Zero}
    BY <2>1 DEF Held, Allocated, None, Zero
  <2>3. v \in DOMAIN vk' <=> v \in DOMAIN vk
    BY <1>1, <2>1 DEF VkGrows
  <2>4. v \in DOMAIN vk => vk'[v] = vk[v]
    BY <1>1 DEF VkGrows
  <2>5. ASSUME v \in DOMAIN vk, ~vk[v].inline
        PROVE  /\ vk[v].data \in DOMAIN db \cup {Zero}
               /\ vk[v].data \in valid' <=> vk[v].data \in valid
    <3>1. vk[v].data \in Datas(n)
      BY <2>5 DEF Datas
    <3>2. vk[v].data \in DOMAIN db \cup {Zero}
      BY <3>1, HeldKinds
    <3>3. DOMAIN db \subseteq Allocated
      BY DEF SoundRecords, RecordTypes
    <3>4. vk[v].data \in Held(n) \cup {Zero}
      BY <3>1, <3>2, <3>3 DEF Held, Allocated, None, Zero
    <3> QED BY <1>6, <3>2, <3>4
  <2>6. Readable(v)' <=> Readable(v)
    BY <2>3, <2>4, <2>5 DEF Readable
  <2>7. ASSUME Readable(v)
        PROVE  ReadValue(v)' = ReadValue(v)
    <3>1. v \in DOMAIN vk /\ vk'[v] = vk[v]
      BY <2>4, <2>7 DEF Readable
    <3>2. ~vk[v].inline => db'[vk[v].data] = db[vk[v].data]
      BY <1>1, <2>5, <2>7, <3>1 DEF Readable
    <3> QED BY <3>1, <3>2 DEF ReadValue
  <2> QED BY <1>6, <2>2, <2>6, <2>7
<1>8. ValuesOK(n)' <=> ValuesOK(n)
  <2>1. CASE nk[n].nr_values = 0
    BY <1>1, <2>1 DEF ValuesOK, SameFields
  <2>2. CASE nk[n].nr_values > 0
    <3>1. /\ nk'[n].nr_values = nk[n].nr_values /\ nk'[n].vallist = nk[n].vallist
          /\ vl'[nk[n].vallist] = vl[nk[n].vallist]
      BY <1>1, <2>2 DEF SameFields
    <3>2. nk[n].vallist \in valid' <=> nk[n].vallist \in valid
      <4>1. nk[n].vallist \in ValList(n) /\ nk[n].vallist \in DOMAIN vl
        BY <2>2, HeldKinds DEF ValList
      <4>2. nk[n].vallist \in Held(n)
        BY <4>1 DEF Held, SoundRecords, RecordTypes, Allocated, None, Zero
      <4> QED BY <1>6, <4>2
    <3>3. ToSet(V) \subseteq valid' <=> ToSet(V) \subseteq valid
      BY <1>4, <1>7
    <3> QED BY <1>2, <1>3, <3>1, <3>2, <3>3 DEF ValuesOK
  <2> QED BY <1>1, <2>1, <2>2
<1>9. IsNode(n)' /\ IsNode(n)
  BY <1>1 DEF IsNode
<1>10. CanReadAll(n)' <=> CanReadAll(n)
  BY <1>2, <1>3, <1>4, <1>7, <1>8, <1>9 DEF CanReadAll
<1>11. ASSUME CanReadAll(n)
       PROVE  Stored(n)' = Stored(n)
  <2>1. \A i \in DOMAIN V : ReadValue(V[i])' = ReadValue(V[i])
    BY <1>2, <1>4, <1>7, <1>11 DEF CanReadAll
  <2>2. Stored(n)' = [i \in DOMAIN V |-> ReadValue(V[i])']
    BY <1>3 DEF Stored
  <2>3. Stored(n) = [i \in DOMAIN V |-> ReadValue(V[i])]
    BY <1>2 DEF Stored
  <2> QED BY <2>1, <2>2, <2>3
<1> QED BY <1>10, <1>11

LEMMA SeenSame ==
  ASSUME NEW n \in Nodes, SoundRecords, Lengths, ValuesKept(n),
         \/ ~(pc = "set" /\ n = target) /\ ~(pc' = "set" /\ n = target')
         \/ UNCHANGED <<pc, target, list>>
  PROVE  SeenValues(n)' = SeenValues(n)
<1>1. /\ CanReadAll(n)' <=> CanReadAll(n)
      /\ CanReadAll(n) => Stored(n)' = Stored(n)
  BY StoredSame
<1>2. CASE ~(pc = "set" /\ n = target) /\ ~(pc' = "set" /\ n = target')
  BY <1>1, <1>2 DEF SeenValues
<1>3. CASE UNCHANGED <<pc, target, list>>
  BY <1>1, <1>3 DEF SeenValues
<1> QED BY <1>2, <1>3

(* The nodes keep their names and parents. *)
PlacesKept ==
  /\ root' = root
  /\ \A n \in DOMAIN nk : /\ n \in DOMAIN nk' /\ nk'[n].name = nk[n].name
                          /\ nk'[n].parent = nk[n].parent

(* A rank that puts each of the nodes D above its parent. *)
Ranked(D) ==
  \E rank \in [D -> Nat] : \A n \in D \ {root} :
    nk[n].parent \in D => rank[nk[n].parent] < rank[n]

LEMMA RankOn ==
  ASSUME ViewInv, NEW D, D \subseteq Nodes
  PROVE  Ranked(D)
<1>1. PICK f \in [DOMAIN nk -> 0 .. next] : \A n \in DOMAIN nk \ {root} :
        nk[n].parent \in DOMAIN nk => f[nk[n].parent] < f[n]
  BY DEF ViewInv, Grounded
<1>2. PICK g : g = [n \in D |-> f[n]]
  OBVIOUS
<1>3. \A n \in D : n \in DOMAIN nk
  BY DEF Nodes
<1>4. \A n \in 0 .. next : n \in Nat
  BY DEF ViewInv, RecordsInv, SoundRecords, RecordTypes
<1>5. g \in [D -> Nat] /\ \A n \in D : g[n] = f[n]
  BY <1>2, <1>3, <1>4
<1> QED BY <1>1, <1>3, <1>5 DEF Ranked

(* No node goes, and the nodes that are tied stay so, unless they have no  *)
(* path.                                                                   *)
LEMMA PathsGrow ==
  ASSUME ViewInv, PathsOk, PathsOk', PlacesKept, Nodes \subseteq Nodes',
         \A n \in Nodes \ {root} : n \in Tied' => n \in Tied,
         \A n \in Nodes \ {root} : n \in Tied => n \in Tied' \/ Paths[n] = {}
  PROVE  \A n \in Nodes : Paths'[n] = Paths[n]
<1>1. PICK D : D = Nodes
  OBVIOUS
<1>2. PICK E : E = Nodes'
  OBVIOUS
<1>3. PICK rank \in [D -> Nat] : \A n \in D \ {root} :
        nk[n].parent \in D => rank[nk[n].parent] < rank[n]
  <2>1. D \subseteq Nodes
    BY <1>1
  <2>2. Ranked(D)
    BY <2>1, RankOn
  <2> QED BY <2>2 DEF Ranked
<1>4. PICK W : W = Tied
  OBVIOUS
<1>5. PICK V : V = Tied'
  OBVIOUS
<1>6. PICK par : par = ParentOf
  OBVIOUS
<1>7. PICK nm : nm = NameOf
  OBVIOUS
<1>8. PICK dad : dad = ParentOf'
  OBVIOUS
<1>9. PICK called : called = NameOf'
  OBVIOUS
<1>10. PICK P : P = Paths
  OBVIOUS
<1>11. PICK Q : Q = Paths'
  OBVIOUS
<1>12. PICK r : r = root /\ r = root'
  BY DEF PlacesKept
<1>13. ArePaths(P, D, r, W, par, nm)
  BY <1>1, <1>4, <1>6, <1>7, <1>10, <1>12 DEF PathsOk
<1>14. ArePaths(Q, E, r, V, dad, called)
  BY <1>2, <1>5, <1>8, <1>9, <1>11, <1>12 DEF PathsOk
<1>15. Rooted(D, rank, r, W, par)
  BY <1>1, <1>3, <1>4, <1>6, <1>12 DEF Rooted, ParentOf, PathsOk, Nodes
<1>16. D \subseteq E /\ Same(D, par, dad) /\ Same(D, nm, called)
  BY <1>1, <1>2, <1>6, <1>7, <1>8, <1>9 DEF PlacesKept, ParentOf, NameOf, Same, Nodes
<1>17. /\ \A n \in D \ {r} : n \in V => n \in W
       /\ \A n \in D \ {r} : n \in W => n \in V \/ P[n] = {}
  BY <1>1, <1>4, <1>5, <1>10, <1>12
<1>18. Same(D, P, Q)
  BY <1>13, <1>14, <1>15, <1>16, <1>17, PathsSame
<1> QED BY <1>1, <1>10, <1>11, <1>18 DEF Same

(* Nodes go, and no other node is untied. *)
LEMMA PathsShrink ==
  ASSUME ViewInv, PathsOk, PathsOk', PlacesKept, Nodes' \subseteq Nodes,
         \A n \in Nodes' \ {root} : n \in Tied' <=> n \in Tied
  PROVE  \A n \in Nodes' : Paths'[n] = Paths[n]
<1>1. PICK D : D = Nodes'
  OBVIOUS
<1>2. PICK E : E = Nodes
  OBVIOUS
<1>3. PICK rank \in [D -> Nat] : \A n \in D \ {root} :
        nk[n].parent \in D => rank[nk[n].parent] < rank[n]
  <2>1. D \subseteq Nodes
    BY <1>1
  <2>2. Ranked(D)
    BY <2>1, RankOn
  <2> QED BY <2>2 DEF Ranked
<1>4. PICK W : W = Tied'
  OBVIOUS
<1>5. PICK V : V = Tied
  OBVIOUS
<1>6. PICK par : par = ParentOf'
  OBVIOUS
<1>7. PICK nm : nm = NameOf'
  OBVIOUS
<1>8. PICK dad : dad = ParentOf
  OBVIOUS
<1>9. PICK called : called = NameOf
  OBVIOUS
<1>10. PICK P : P = Paths'
  OBVIOUS
<1>11. PICK Q : Q = Paths
  OBVIOUS
<1>12. PICK r : r = root /\ r = root'
  BY DEF PlacesKept
<1>13. ArePaths(P, D, r, W, par, nm)
  BY <1>1, <1>4, <1>6, <1>7, <1>10, <1>12 DEF PathsOk
<1>14. ArePaths(Q, E, r, V, dad, called)
  BY <1>2, <1>5, <1>8, <1>9, <1>11, <1>12 DEF PathsOk
<1>15. \A n \in D : n \in DOMAIN nk /\ n \in DOMAIN nk'
                   /\ nk'[n].parent = nk[n].parent /\ nk'[n].name = nk[n].name
  BY <1>1 DEF PlacesKept, Nodes
<1>16. Rooted(D, rank, r, W, par)
  BY <1>1, <1>3, <1>4, <1>6, <1>12, <1>15 DEF Rooted, ParentOf, PathsOk
<1>17. D \subseteq E /\ Same(D, par, dad) /\ Same(D, nm, called)
  BY <1>1, <1>2, <1>6, <1>7, <1>8, <1>9, <1>15 DEF ParentOf, NameOf, Same
<1>18. /\ \A n \in D \ {r} : n \in V => n \in W
       /\ \A n \in D \ {r} : n \in W => n \in V \/ P[n] = {}
  BY <1>1, <1>4, <1>5, <1>12
<1>19. Same(D, P, Q)
  BY <1>13, <1>14, <1>16, <1>17, <1>18, PathsSame
<1> QED BY <1>1, <1>10, <1>11, <1>19 DEF Same

(* The paths stay, but for nodes that have none. *)
SamePaths ==
  /\ \A n \in Nodes : n \in Nodes' \/ Paths[n] = {}
  /\ \A n \in Nodes' : n \in Nodes \/ Paths'[n] = {}
  /\ \A n \in Nodes \cap Nodes' : Paths'[n] = Paths[n]

(* At most the values of node x change. *)
LEMMA KeysChange ==
  ASSUME NEW x \in Nodes, x \in Nodes', PathsOk, KeysOk, KeysOk', SamePaths,
         \A n \in Nodes \cap Nodes' :
           n # x => SeenValues(n)' = SeenValues(n) \/ Paths[n] = {}
  PROVE  \/ Keys' = Keys /\ Paths[x] = {}
         \/ \E p \in DOMAIN Keys :
              /\ Keys[p] = SeenValues(x)
              /\ Keys' = [Keys EXCEPT ![p] = SeenValues(x)']
<1>1. PICK K : K = Keys
  OBVIOUS
<1>2. PICK L : L = Keys'
  OBVIOUS
<1>3. PICK P : P = Paths
  OBVIOUS
<1>4. PICK Q : Q = Paths'
  OBVIOUS
<1>5. PICK N : N = Nodes
  OBVIOUS
<1>6. PICK M : M = Nodes'
  OBVIOUS
<1>7. /\ K = [p \in DOMAIN K |-> K[p]] /\ DOMAIN K = UNION {P[n] : n \in N}
      /\ \A n \in N : \A p \in P[n] : K[p] = SeenValues(n)
  BY <1>1, <1>3, <1>5 DEF KeysOk
<1>8. /\ L = [p \in DOMAIN L |-> L[p]] /\ DOMAIN L = UNION {Q[n] : n \in M}
      /\ \A n \in M : \A p \in Q[n] : L[p] = SeenValues(n)'
  BY <1>2, <1>4, <1>6 DEF KeysOk
<1>9. /\ \A n \in N : n \in M \/ P[n] = {}
      /\ \A n \in M : n \in N \/ Q[n] = {}
      /\ \A n \in N \cap M : Q[n] = P[n]
  BY <1>3, <1>4, <1>5, <1>6 DEF SamePaths
<1>10. DOMAIN L = DOMAIN K
  <2>1. ASSUME NEW p, p \in DOMAIN L PROVE p \in DOMAIN K
    <3>1. PICK n \in M : p \in Q[n]
      BY <1>8, <2>1
    <3>2. n \in N /\ p \in P[n]
      BY <1>9, <3>1
    <3> QED BY <1>7, <3>2
  <2>2. ASSUME NEW p, p \in DOMAIN K PROVE p \in DOMAIN L
    <3>1. PICK n \in N : p \in P[n]
      BY <1>7, <2>2
    <3>2. n \in M /\ p \in Q[n]
      BY <1>9, <3>1
    <3> QED BY <1>8, <3>2
  <2> QED BY <2>1, <2>2
<1>11. ASSUME NEW p \in DOMAIN K, p \notin P[x]
       PROVE  L[p] = K[p]
  <2>1. PICK n \in N : p \in P[n]
    BY <1>7
  <2>2. n # x /\ n \in M /\ p \in Q[n]
    BY <1>9, <1>11, <2>1
  <2>3. SeenValues(n)' = SeenValues(n)
    BY <1>3, <1>5, <1>6, <2>1, <2>2
  <2> QED BY <1>7, <1>8, <2>1, <2>2, <2>3
<1>12. CASE P[x] = {}
  <2>1. \A p \in DOMAIN K : L[p] = K[p]
    BY <1>11, <1>12
  <2>2. L = K
    BY <1>7, <1>8, <1>10, <2>1
  <2> QED BY <1>1, <1>2, <1>3, <1>12, <2>2
<1>13. CASE P[x] # {}
  <2>1. PICK p \in P[x] : TRUE
    BY <1>13
  <2>2. p \in DOMAIN K /\ K[p] = SeenValues(x)
    BY <1>5, <1>7, <2>1
  <2>3. L[p] = SeenValues(x)'
    BY <1>5, <1>6, <1>8, <1>9, <2>1
  <2>4. \A q \in P[x] : q = p
    BY <1>3, <2>1 DEF PathsOk, OnePath
  <2>5. \A q \in DOMAIN K : q # p => L[q] = K[q]
    BY <1>11, <2>4
  <2>6. L = [K EXCEPT ![p] = SeenValues(x)']
    BY <1>7, <1>8, <1>10, <2>2, <2>3, <2>5
  <2> QED BY <1>1, <1>2, <2>2, <2>6
<1> QED BY <1>12, <1>13

LEMMA KeysSame ==
  ASSUME References, References', root' = root, PathsOk, KeysOk, KeysOk', SamePaths,
         \A n \in Nodes \cap Nodes' : SeenValues(n)' = SeenValues(n) \/ Paths[n] = {}
  PROVE  Keys' = Keys
<1>1. PICK x \in Nodes : x = root /\ x \in Nodes'
  BY DEF References
<1>2. Paths[x] # {}
  <2>1. Paths[x] = {<<>>}
    BY <1>1 DEF PathsOk, ArePaths
  <2> QED BY <2>1
<1>3. SeenValues(x)' = SeenValues(x)
  BY <1>1, <1>2
<1>4. \/ Keys' = Keys /\ Paths[x] = {}
      \/ \E p \in DOMAIN Keys : /\ Keys[p] = SeenValues(x)
                                /\ Keys' = [Keys EXCEPT ![p] = SeenValues(x)']
  BY <1>1, KeysChange
<1>5. Keys = [p \in DOMAIN Keys |-> Keys[p]]
  BY DEF KeysOk
<1> QED BY <1>2, <1>3, <1>4, <1>5

-----------------------------------------------------------------------------
(* The steps keep the invariant *)

(* Nodes keep their places; at most one is new, and its parent is not.     *)
Places ==
  /\ PlacesKept /\ next' \in Nat /\ next' >= next
  /\ \/ DOMAIN nk' = DOMAIN nk
     \/ /\ DOMAIN nk' = DOMAIN nk \cup {next} /\ next' > next
        /\ nk'[next].parent \in DOMAIN nk

LEMMA SamePlaces ==
  ASSUME nk' = nk, root' = root, next \in Nat, next' \in Nat, next' >= next
  PROVE  Places
BY DEF Places, PlacesKept

LEMMA AddPlaces ==
  ASSUME NEW p, NEW name \in Names, RecordsInv,
         \/ AddChildFails(p, name) \/ AddFirstChild(p, name)
         \/ InsertChild(p, name)
  PROVE  Places
<1>1. /\ RecordTypes /\ p \in DOMAIN nk /\ next \in Nat /\ next \notin DOMAIN nk
      /\ NewNode(p, name, nk[p].sk).parent = p
  <2>1. RecordTypes /\ p \in DOMAIN nk
    BY DEF AddChildFails, AddFirstChild, InsertChild, CanAdd, IsNode, RecordsInv,
           SoundRecords
  <2>2. next \in Nat /\ next \notin DOMAIN nk
    BY <2>1 DEF RecordTypes, Allocated
  <2> QED BY <2>1, <2>2, NewNodeFacts
<1>2. CASE AddChildFails(p, name)
  <2>1. PICK r : r = NewNode(p, name, nk[p].sk)
    OBVIOUS
  <2>2. nk' = NewRecord(nk, next, r) /\ root' = root /\ next' = next + 1
    BY <1>2, <2>1 DEF AddChildFails
  <2>3. /\ DOMAIN nk' = DOMAIN nk \cup {next} /\ nk'[next] = r
        /\ \A m \in DOMAIN nk : nk'[m] = nk[m]
    BY <1>1, <2>2 DEF NewRecord
  <2> QED BY <1>1, <2>1, <2>2, <2>3 DEF Places, PlacesKept
<1>3. ASSUME NEW d \in BOOLEAN, LinkNode(p, name, d)
      PROVE  Places
  <2>1. /\ DOMAIN nk' = DOMAIN nk \cup {next}
        /\ nk'[next] = NewNode(p, name, nk[p].sk)
        /\ \A m \in DOMAIN nk : m # p => nk'[m] = nk[m]
        /\ nk'[p].name = nk[p].name /\ nk'[p].parent = nk[p].parent
        /\ next' = next + 2 /\ root' = root
    BY <1>1, <1>3, LinkNodeFacts
  <2> QED BY <1>1, <2>1 DEF Places, PlacesKept
<1>4. CASE AddFirstChild(p, name)
  BY <1>3, <1>4 DEF AddFirstChild
<1>5. CASE InsertChild(p, name)
  <2>1. \E d \in BOOLEAN : LinkNode(p, name, d)
    BY <1>5 DEF InsertChild
  <2> QED BY <1>3, <2>1
<1> QED BY <1>2, <1>4, <1>5

LEMMA DeletePlaces ==
  ASSUME RecordsInv, DeleteNode \/ Unlink
  PROVE  Places
<1>1. RecordTypes /\ next \in Nat
  BY DEF RecordsInv, SoundRecords, RecordTypes
<1>2. CASE DeleteNode
  <2>1. PICK n \in DOMAIN nk : n = Top.node
    BY <1>2, Ending DEF DeleteNode
  <2>2. nk' = Emptied(n) /\ root' = root /\ next' = next
    BY <1>2, <2>1 DEF DeleteNode, Emptied
  <2>3. /\ DOMAIN nk' = DOMAIN nk /\ \A m \in DOMAIN nk : m # n => nk'[m] = nk[m]
        /\ nk'[n].name = nk[n].name /\ nk'[n].parent = nk[n].parent
    BY <1>1, <2>2, EmptiedFacts
  <2> QED BY <1>1, <2>2, <2>3 DEF Places, PlacesKept
<1>3. CASE Unlink
  <2>1. PICK p : p = Top.node
    OBVIOUS
  <2>2. /\ DOMAIN nk' = DOMAIN nk /\ \A m \in DOMAIN nk : m # p => nk'[m] = nk[m]
        /\ nk'[p].name = nk[p].name /\ nk'[p].parent = nk[p].parent
    BY <1>1, <1>3, <2>1, UnlinkFacts
  <2>3. root' = root /\ next' = next
    BY <1>3 DEF Unlink
  <2> QED BY <1>1, <2>2, <2>3 DEF Places, PlacesKept
<1> QED BY <1>2, <1>3

LEMMA ClearValuesFacts ==
  ASSUME NEW n, NEW vs, RecordsInv, ClearValues(n, vs)
  PROVE  /\ n \in Nodes /\ n \in DOMAIN nk /\ DOMAIN nk' = DOMAIN nk
         /\ \A m \in DOMAIN nk : m # n => nk'[m] = nk[m]
         /\ nk'[n].nr_values = 0 /\ nk'[n].vallist = None
         /\ nk'[n].name = nk[n].name /\ nk'[n].parent = nk[n].parent
         /\ nk'[n].nr_subkeys = nk[n].nr_subkeys
         /\ nk'[n].subkey_lf = nk[n].subkey_lf
<1>1. n \in Nodes /\ n \in DOMAIN nk /\ RecordTypes
  BY DEF ClearValues, CanClear, IsNode, Nodes, RecordsInv, SoundRecords
<1>2. PICK b \in Int : b = None
  BY DEF None
<1>3. PICK g : g = WithValues(n, 0, b)
  OBVIOUS
<1>4. /\ DOMAIN g = DOMAIN nk /\ \A m \in DOMAIN nk : m # n => g[m] = nk[m]
      /\ g[n].nr_values = 0 /\ g[n].vallist = b
      /\ g[n].name = nk[n].name /\ g[n].parent = nk[n].parent
      /\ g[n].nr_subkeys = nk[n].nr_subkeys
      /\ g[n].subkey_lf = nk[n].subkey_lf
  BY <1>1, <1>3, WithValuesFacts
<1>5. nk' = g
  BY <1>2, <1>3, NoValuesIs DEF ClearValues
<1> QED BY <1>1, <1>2, <1>4, <1>5

LEMMA SetValuesPlaces ==
  ASSUME NEW n, NEW vs \in Seq(ValueType), RecordsInv, SetValues(n, vs)
  PROVE  Places
<1>1. SoundRecords /\ RecordTypes /\ next \in Nat
  BY DEF RecordsInv, SoundRecords, RecordTypes
<1>2. CASE SetValuesRefused(n) \/ SetValuesAborts(n)
  BY <1>1, <1>2, SamePlaces DEF SetValuesRefused, SetValuesAborts, Refuse, Abort,
                                treeVars
<1>3. CASE ClearValues(n, vs)
  <2>1. root' = root /\ next' = next
    BY <1>3 DEF ClearValues
  <2>2. /\ DOMAIN nk' = DOMAIN nk /\ \A m \in DOMAIN nk : m # n => nk'[m] = nk[m]
        /\ nk'[n].name = nk[n].name /\ nk'[n].parent = nk[n].parent
    BY <1>3, ClearValuesFacts
  <2> QED BY <1>1, <2>1, <2>2 DEF Places, PlacesKept
<1>4. CASE SetValuesBegin(n, vs)
  <2>1. /\ DOMAIN nk' = DOMAIN nk /\ \A m \in DOMAIN nk : m # n => nk'[m] = nk[m]
        /\ nk'[n].name = nk[n].name /\ nk'[n].parent = nk[n].parent
        /\ next' = next + 1 /\ root' = root
    BY <1>1, <1>4, SetValuesBeginFacts
  <2> QED BY <1>1, <2>1 DEF Places, PlacesKept
<1> QED BY <1>2, <1>3, <1>4 DEF SetValues

LEMMA StorePlaces ==
  ASSUME RecordsInv, StoreValue \/ StoreDataFails \/ StoreRecordFails
  PROVE  Places
<1>1. next \in Nat
  BY DEF RecordsInv, SoundRecords, RecordTypes
<1>2. CASE StoreValue
  <2>1. nk' = nk /\ root' = root
    BY <1>2 DEF StoreValue, treeVars
  <2>2. next' = next + 1 \/ next' = next + 2
    BY <1>2 DEF StoreValue
  <2> QED BY <1>1, <2>1, <2>2, SamePlaces
<1>3. CASE StoreDataFails
  BY <1>1, <1>3, SamePlaces DEF StoreDataFails, treeVars
<1>4. CASE StoreRecordFails
  BY <1>1, <1>4, SamePlaces DEF StoreRecordFails, treeVars
<1> QED BY <1>2, <1>3, <1>4

LEMMA NextPlaces == RecordsInv /\ [Next]_vars => Places
<1> SUFFICES ASSUME RecordsInv, [Next]_vars
             PROVE  Places
  OBVIOUS
<1>1. next \in Nat
  BY DEF RecordsInv, SoundRecords, RecordTypes
<1>2. CASE UNCHANGED vars \/ Refuse \/ Abort
  BY <1>1, <1>2, SamePlaces DEF vars, Refuse, Abort, treeVars
<1>3. CASE OutOfMemory
  BY <1>2, <1>3 DEF OutOfMemory
<1>4. ASSUME NEW n \in handles, NEW name \in Names,
             \/ AddChildRefused(n, name) \/ AddChildNoSk(n, name)
             \/ AddChildFails(n, name) \/ AddFirstChild(n, name)
             \/ InsertChild(n, name)
      PROVE  Places
  <2>1. CASE AddChildRefused(n, name)
    BY <1>2, <2>1 DEF AddChildRefused
  <2> QED BY <1>4, <2>1, NoSkNever, AddPlaces
<1>5. ASSUME NEW n \in handles, DeleteRefused(n) \/ SetValueRefused(n)
      PROVE  Places
  BY <1>2, <1>5 DEF DeleteRefused, SetValueRefused
<1>6. ASSUME NEW n \in handles, DeleteBegin(n)
      PROVE  Places
  BY <1>1, <1>6, SamePlaces DEF DeleteBegin, treeVars
<1>7. ASSUME NEW n \in handles, NEW vs \in ValueLists, SetValues(n, vs)
      PROVE  Places
  <2>1. vs \in Seq(ValueType)
    BY HiveTreeAssumption
  <2> QED BY <1>7, <2>1, SetValuesPlaces
<1>8. ASSUME NEW n \in handles, NEW v \in Values, SetValue(n, v)
      PROVE  Places
  <2>1. Replaced(n, v) \in Seq(ValueType)
    BY <1>8, ReplacedType, HiveTreeAssumption DEF SetValue, RecordsInv
  <2> QED BY <1>8, <2>1, SetValuesPlaces DEF SetValue
<1>9. CASE VisitNode \/ DeleteNodeNoValues \/ DeleteFails
  BY <1>1, <1>9, SamePlaces DEF VisitNode, DeleteNodeNoValues, DeleteFails, treeVars
<1>10. CASE DeleteNode \/ Unlink
  BY <1>10, DeletePlaces
<1>11. CASE DeleteNodeNoSk
  BY <1>11, DeleteNoSkNever
<1>12. CASE DeleteNodeAborts
  BY <1>2, <1>12 DEF DeleteNodeAborts
<1>13. CASE StoreValue \/ StoreDataFails \/ StoreRecordFails
  BY <1>13, StorePlaces
<1> QED
  BY <1>2, <1>3, <1>4, <1>5, <1>6, <1>7, <1>8, <1>9, <1>10, <1>11, <1>12, <1>13
  DEF Next

LEMMA GroundedKept ==
  ASSUME RecordsInv, Grounded, Places
  PROVE  Grounded'
<1>1. PICK rank \in [DOMAIN nk -> 0 .. next] : \A n \in DOMAIN nk \ {root} :
        nk[n].parent \in DOMAIN nk => rank[nk[n].parent] < rank[n]
  BY DEF Grounded
<1>2. /\ next \in Nat /\ root \in DOMAIN nk /\ next \notin DOMAIN nk
      /\ \A n \in DOMAIN nk : nk[n].parent # next
  BY DEF RecordsInv, SoundRecords, RecordTypes, References, Allocated, Nodes
<1>3. PICK f : f = [n \in DOMAIN nk' |-> IF n \in DOMAIN nk THEN rank[n] ELSE next']
  OBVIOUS
<1>4. f \in [DOMAIN nk' -> 0 .. next']
  <2>1. \A n \in DOMAIN nk' : f[n] \in 0 .. next'
    BY <1>1, <1>2, <1>3 DEF Places
  <2> QED BY <1>3, <2>1
<1>5. ASSUME NEW n \in DOMAIN nk' \ {root'}, nk'[n].parent \in DOMAIN nk'
      PROVE  f[nk'[n].parent] < f[n]
  <2>1. CASE n \in DOMAIN nk
    <3>1. nk'[n].parent = nk[n].parent /\ n # root /\ nk[n].parent \in DOMAIN nk
      BY <1>2, <1>5, <2>1 DEF Places, PlacesKept
    <3> QED BY <1>1, <1>3, <1>5, <2>1, <3>1
  <2>2. CASE n \notin DOMAIN nk
    <3>1. n = next /\ next' > next /\ nk'[n].parent \in DOMAIN nk
      BY <1>5, <2>2 DEF Places
    <3>2. f[n] = next' /\ f[nk'[n].parent] \in 0 .. next
      BY <1>1, <1>3, <1>5, <2>2, <3>1
    <3> QED BY <1>2, <3>1, <3>2 DEF Places
  <2> QED BY <2>1, <2>2
<1> QED BY <1>4, <1>5 DEF Grounded

LEMMA NextNoFrames == NoFrames /\ CallInv /\ [Next]_vars => NoFrames'
<1> SUFFICES ASSUME NoFrames, CallInv, [Next]_vars
             PROVE  NoFrames'
  OBVIOUS
<1>1. CASE UNCHANGED vars
  BY <1>1 DEF vars, callVars, NoFrames
<1>2. \A r : Return(r) => NoFrames'
  BY DEF Return, NoFrames
<1>3. Refuse \/ Abort => NoFrames'
  BY <1>2 DEF Refuse, Abort, NoFrames
<1>4. CASE OutOfMemory
  BY <1>3, <1>4 DEF OutOfMemory
<1>5. ASSUME NEW n \in handles, NEW name \in Names,
             \/ AddChildRefused(n, name) \/ AddChildNoSk(n, name)
             \/ AddChildFails(n, name) \/ AddFirstChild(n, name)
             \/ InsertChild(n, name)
      PROVE  NoFrames'
  BY <1>2, <1>3, <1>5
  DEF AddChildRefused, AddChildNoSk, AddChildFails, AddFirstChild, InsertChild,
      LinkNode
<1>6. ASSUME NEW n \in handles, DeleteRefused(n) \/ SetValueRefused(n)
      PROVE  NoFrames'
  BY <1>3, <1>6 DEF DeleteRefused, SetValueRefused
<1>7. ASSUME NEW n \in handles, DeleteBegin(n)
      PROVE  NoFrames'
  BY <1>7 DEF DeleteBegin, NoFrames
<1>8. ASSUME NEW n, NEW vs, SetValues(n, vs)
      PROVE  NoFrames'
  <2>1. CASE SetValuesBegin(n, vs)
    BY <2>1 DEF SetValuesBegin, NoFrames
  <2> QED BY <1>2, <1>3, <1>8, <2>1
          DEF SetValues, SetValuesRefused, SetValuesAborts, ClearValues
<1>9. ASSUME NEW n, NEW v, SetValue(n, v)
      PROVE  NoFrames'
  BY <1>8, <1>9 DEF SetValue
<1>10. CASE VisitNode \/ DeleteNode
  BY <1>10 DEF VisitNode, DeleteNode, AtNodeEnd, NoFrames
<1>11. CASE \/ DeleteNodeNoValues \/ DeleteNodeNoSk \/ DeleteNodeAborts
           \/ Unlink \/ DeleteFails
  BY <1>2, <1>3, <1>11
  DEF DeleteNodeNoValues, DeleteNodeNoSk, DeleteNodeAborts, Unlink, DeleteFails
<1>12. CASE StoreValue \/ StoreDataFails \/ StoreRecordFails
  BY <1>2, <1>12 DEF StoreValue, StoreDataFails, StoreRecordFails, NoFrames
<1> QED
  BY <1>1, <1>4, <1>5, <1>6, <1>7, <1>8, <1>9, <1>10, <1>11, <1>12 DEF Next

LEMMA SetValuesBeginUnset ==
  ASSUME NEW n, NEW vs \in Seq(ValueType), RecordsInv, SetValuesBegin(n, vs)
  PROVE  Unset'
<1>1. vl' = NewRecord(vl, next, [i \in DOMAIN vs |-> Zero])
  BY DEF SetValuesBegin
<1>2. /\ nk'[n].vallist = next /\ target' = n /\ list' = vs /\ stored' = 0
      /\ Len(vs) \in Nat /\ DOMAIN vs = 1 .. Len(vs)
  BY SetValuesBeginFacts DEF RecordsInv
<1>3. vl'[next] = [i \in DOMAIN vs |-> Zero]
  BY <1>1 DEF NewRecord
<1> QED BY <1>2, <1>3 DEF Unset

LEMMA NextUnset == RecordsInv /\ Unset /\ [Next]_vars => Unset'
<1> SUFFICES ASSUME RecordsInv, Unset, [Next]_vars
             PROVE  Unset'
  OBVIOUS
<1>1. CASE UNCHANGED vars
  BY <1>1 DEF vars, callVars, treeVars, valueVars, Unset
<1>2. (\A r : Return(r) => Unset') /\ (Abort => Unset')
  BY DEF Return, Abort, Unset
<1>3. Refuse => Unset'
  BY <1>2 DEF Refuse
<1>4. CASE OutOfMemory
  BY <1>3, <1>4 DEF OutOfMemory
<1>5. ASSUME NEW n \in handles, NEW name \in Names,
             \/ AddChildRefused(n, name) \/ AddChildNoSk(n, name)
             \/ AddChildFails(n, name) \/ AddFirstChild(n, name)
             \/ InsertChild(n, name)
      PROVE  Unset'
  BY <1>2, <1>3, <1>5
  DEF AddChildRefused, AddChildNoSk, AddChildFails, AddFirstChild, InsertChild,
      LinkNode
<1>6. ASSUME NEW n \in handles, DeleteRefused(n) \/ SetValueRefused(n)
      PROVE  Unset'
  BY <1>3, <1>6 DEF DeleteRefused, SetValueRefused
<1>7. ASSUME NEW n \in handles, DeleteBegin(n)
      PROVE  Unset'
  BY <1>7 DEF DeleteBegin, Unset
<1>8. ASSUME NEW n, NEW vs \in Seq(ValueType), SetValues(n, vs)
      PROVE  Unset'
  BY <1>2, <1>3, <1>8, SetValuesBeginUnset
  DEF SetValues, SetValuesRefused, SetValuesAborts, ClearValues
<1>9. ASSUME NEW n \in handles, NEW vs \in ValueLists, SetValues(n, vs)
      PROVE  Unset'
  <2>1. vs \in Seq(ValueType)
    BY HiveTreeAssumption
  <2> QED BY <1>8, <1>9, <2>1
<1>10. ASSUME NEW n \in handles, NEW v \in Values, SetValue(n, v)
      PROVE  Unset'
  <2>1. Replaced(n, v) \in Seq(ValueType)
    BY <1>10, ReplacedType, HiveTreeAssumption DEF SetValue, RecordsInv
  <2> QED BY <1>8, <1>10, <2>1 DEF SetValue
<1>11. CASE VisitNode \/ DeleteNode
  BY <1>11 DEF VisitNode, DeleteNode, AtNodeEnd, Unset
<1>12. CASE \/ DeleteNodeNoValues \/ DeleteNodeNoSk \/ DeleteNodeAborts
           \/ Unlink \/ DeleteFails
  BY <1>2, <1>12
  DEF DeleteNodeNoValues, DeleteNodeNoSk, DeleteNodeAborts, Unlink, DeleteFails
<1>13. CASE StoreDataFails \/ StoreRecordFails
  BY <1>2, <1>13 DEF StoreDataFails, StoreRecordFails
<1>14. CASE StoreValue
  <2>1. \/ Return("ok")
        \/ stored' = stored + 1 /\ UNCHANGED <<pc, target, list>>
    BY <1>14 DEF StoreValue
  <2>2. CASE stored' = stored + 1 /\ UNCHANGED <<pc, target, list>>
    <3>1. stored \in Nat /\ Len(list) \in Nat /\ pc = "set"
      BY <1>14, Storing DEF StoreValue
    <3>2. /\ nk' = nk
          /\ \A i \in 1 .. Len(list) : i # stored + 1 =>
               vl'[nk[target].vallist][i] = vl[nk[target].vallist][i]
      BY <1>14, StoreFacts
    <3> QED BY <2>2, <3>1, <3>2 DEF Unset
  <2> QED BY <1>2, <2>1, <2>2
<1> QED
  BY <1>1, <1>4, <1>5, <1>6, <1>7, <1>9, <1>10, <1>11, <1>12, <1>13, <1>14
  DEF Next

LEMMA OpenNodes ==
  ASSUME LinksInv, ~partial, pc # "aborted", SoundRecords, SoundKeys, NEW m \in Nodes
  PROVE  /\ Open(m) /\ Kids(m) \subseteq DOMAIN nk
         /\ nk[m].nr_subkeys # 0 => Live(m) /\ Shaped(m)
<1>1. Declared
  BY LinksAre
<1>2. Open(m)
  BY <1>1 DEF Declared, Open
<1>3. Kids(m) \subseteq DOMAIN nk
  BY <1>2, KidsAre
<1>4. nk[m].nr_subkeys \in Nat
  BY DEF Nodes, SoundRecords, RecordTypes, NodeType
<1> QED BY <1>2, <1>3, <1>4 DEF Open, Live, SoundKeys

(* No list gets a node, and no node is new. *)
LEMMA UnlinkedKept ==
  ASSUME Unlinked, pc # "aborted", orphans' = orphans, partial => partial',
         Nodes' \subseteq Nodes,
         ~partial => \A m \in Nodes' : Kids(m)' \subseteq Kids(m)
  PROVE  Unlinked'
BY DEF Unlinked

LEMMA SameUnlinked ==
  ASSUME Unlinked, pc # "aborted", orphans' = orphans, partial => partial',
         Nodes' \subseteq Nodes, lf' = lf, ri' = ri,
         \A m \in DOMAIN nk : /\ nk'[m].nr_subkeys = nk[m].nr_subkeys
                              /\ nk'[m].subkey_lf = nk[m].subkey_lf
  PROVE  Unlinked'
<1>1. ASSUME NEW m \in Nodes'
      PROVE  Kids(m)' \subseteq Kids(m)
  <2>1. m \in DOMAIN nk
    BY DEF Nodes
  <2> QED BY <2>1, KidsKept
<1> QED BY <1>1, UnlinkedKept

LEMMA FailsUnlinked ==
  ASSUME NEW p, NEW name \in Names, RecordsInv, SoundKeys, LinksInv, Unlinked,
         AddChildFails(p, name)
  PROVE  Unlinked'
<1>1. SoundRecords /\ RecordTypes /\ next \in Nat /\ p \in DOMAIN nk
      /\ next \notin DOMAIN nk
  <2>1. SoundRecords /\ RecordTypes /\ p \in DOMAIN nk
    BY DEF RecordsInv, SoundRecords, AddChildFails, CanAdd, IsNode
  <2> QED BY <2>1 DEF RecordTypes, Allocated
<1>2. PICK r : r = NewNode(p, name, nk[p].sk)
  OBVIOUS
<1>3. r.nr_subkeys = 0
  BY <1>1, <1>2, NewNodeFacts
<1>4. /\ nk' = NewRecord(nk, next, r) /\ lf' = lf /\ ri' = ri
      /\ valid' = valid \cup {next} /\ orphans' = orphans \cup {next}
      /\ partial' = partial /\ pc = "idle"
  BY <1>2 DEF AddChildFails
<1>5. /\ DOMAIN nk' = DOMAIN nk \cup {next} /\ nk'[next] = r
      /\ \A m \in DOMAIN nk : nk'[m] = nk[m]
  BY <1>1, <1>4 DEF NewRecord
<1>6. Nodes' = Nodes \cup {next}
  <2>1. \A n : n \in Nodes' <=> n \in Nodes \/ n = next
    <3>1. next \notin valid
      BY <1>1 DEF RecordTypes, Allocated
    <3> QED BY <1>4, <1>5, <3>1 DEF Nodes
  <2> QED BY <2>1
<1> SUFFICES ASSUME ~partial, NEW n \in Nodes' \cap orphans', NEW m \in Nodes'
             PROVE  n \notin Kids(m)'
  BY <1>4 DEF Unlinked
<1>7. CASE m = next
  BY <1>3, <1>5, <1>7 DEF Kids
<1>8. CASE m # next
  <2>1. m \in Nodes /\ m \in DOMAIN nk
    BY <1>6, <1>8 DEF Nodes
  <2>2. Kids(m)' = Kids(m)
    BY <1>4, <1>5, <2>1, KidsKept
  <2>3. next \notin Kids(m)
    BY <1>1, <1>4, <2>1, OpenNodes
  <2>4. n # next => n \in Nodes \cap orphans
    BY <1>4, <1>6
  <2> QED BY <1>4, <2>1, <2>2, <2>3, <2>4 DEF Unlinked
<1> QED BY <1>7, <1>8

LEMMA AddsUnlinked ==
  ASSUME NEW p, NEW name \in Names, RecordsInv, SoundKeys, LinksInv, Unlinked,
         AddFirstChild(p, name) \/ InsertChild(p, name)
  PROVE  Unlinked'
<1>1. /\ p \in Nodes /\ pc = "idle"
      /\ \E d \in BOOLEAN : \E F : \E l \in Seq(Nat) : Adds(p, name, d, F, l)
  BY AddFirstChildAdds, InsertChildAdds
<1>2. PICK d \in BOOLEAN : \E F : \E l \in Seq(Nat) : Adds(p, name, d, F, l)
  BY <1>1
<1>3. PICK F, l : l \in Seq(Nat) /\ Adds(p, name, d, F, l)
  BY <1>2
<1>4. /\ p \in DOMAIN nk /\ next \notin DOMAIN nk /\ orphans \subseteq DOMAIN nk
      /\ RecordTypes
  BY <1>1 DEF Nodes, RecordsInv, SoundRecords, RecordTypes, HistoryInv, Allocated
<1>5. /\ LinkNode(p, name, d) /\ Kids(p)' = Kids(p) \cup {next}
  BY <1>3 DEF Adds
<1>6. /\ orphans' = orphans /\ partial' = partial
      /\ nk'[next] = NewNode(p, name, nk[p].sk)
  BY <1>4, <1>5, LinkNodeFacts
<1> SUFFICES ASSUME ~partial, NEW n \in Nodes' \cap orphans', NEW m \in Nodes'
             PROVE  n \notin Kids(m)'
  BY <1>6 DEF Unlinked
<1>7. /\ Nodes' = Nodes \cup {next}
      /\ \A k \in Nodes : k # p => Kids(k)' = Kids(k)
  BY <1>1, <1>3, LinkKids
<1>8. n \in Nodes \cap orphans /\ n # next
  BY <1>4, <1>6, <1>7
<1>9. CASE m = next
  <2>1. nk'[next].nr_subkeys = 0
    BY <1>4, <1>6, NewNodeFacts
  <2> QED BY <1>9, <2>1 DEF Kids
<1>10. CASE m # next
  <2>1. m \in Nodes /\ (Kids(m)' = Kids(m) \/ Kids(m)' = Kids(m) \cup {next})
    BY <1>5, <1>7, <1>10
  <2> QED BY <1>1, <1>8, <2>1 DEF Unlinked
<1> QED BY <1>9, <1>10

LEMMA UnlinkUnlinked ==
  ASSUME RecordsInv, SoundKeys, LinksInv, Unlinked, Unlink
  PROVE  Unlinked'
<1>1. PICK p : p = Top.node
  OBVIOUS
<1>2. SoundRecords /\ RecordTypes
  BY DEF RecordsInv, SoundRecords
<1>3. /\ p \in Nodes /\ DOMAIN nk' = DOMAIN nk /\ DOMAIN lf' = DOMAIN lf
      /\ \A m \in DOMAIN nk : m # p => nk'[m] = nk[m]
      /\ \A b \in DOMAIN lf : ToSet(lf'[b]) \subseteq ToSet(lf[b])
  BY <1>1, <1>2, UnlinkFacts
<1>4. /\ valid' = valid /\ ri' = ri /\ orphans' = orphans /\ partial' = partial
      /\ pc = "delete"
  BY DEF Unlink, historyVars
<1>5. Nodes' = Nodes
  BY <1>3, <1>4 DEF Nodes
<1>6. ASSUME ~partial, NEW m \in Nodes
      PROVE  Kids(m)' \subseteq Kids(m)
  <2>1. CASE m = p
    BY <1>1, <2>1, UnlinkKids
  <2>2. CASE m # p
    <3>1. nk'[m] = nk[m] /\ (nk[m].nr_subkeys # 0 => ToSet(Lists(m)) \subseteq DOMAIN lf)
      BY <1>2, <1>3, <1>4, <1>6, <2>2, OpenNodes DEF Shaped, Nodes
    <3>2. Lists(m)' = Lists(m)
      BY <1>4, <3>1 DEF Lists
    <3>3. CASE nk[m].nr_subkeys = 0
      BY <3>1, <3>3 DEF Kids
    <3>4. CASE nk[m].nr_subkeys # 0
      <4>1. Kids(m)' = UNION {ToSet(lf'[l]) : l \in ToSet(Lists(m))}
        BY <3>1, <3>2, <3>4 DEF Kids
      <4>2. Kids(m) = UNION {ToSet(lf[l]) : l \in ToSet(Lists(m))}
        BY <3>4 DEF Kids
      <4>3. \A l \in ToSet(Lists(m)) : ToSet(lf'[l]) \subseteq ToSet(lf[l])
        BY <1>3, <3>1, <3>4
      <4> QED BY <4>1, <4>2, <4>3
    <3> QED BY <3>3, <3>4
  <2> QED BY <2>1, <2>2
<1> QED BY <1>4, <1>5, <1>6, UnlinkedKept

LEMMA DeleteNodeUnlinked ==
  ASSUME RecordsInv, Unlinked, DeleteNode
  PROVE  Unlinked'
<1>1. PICK n \in DOMAIN nk : n = Top.node
  BY Ending DEF DeleteNode
<1>2. RecordTypes /\ SoundRecords
  BY DEF RecordsInv, SoundRecords
<1>3. /\ nk' = Emptied(n) /\ lf' = lf /\ ri' = ri /\ orphans' = orphans
      /\ partial' = partial /\ pc = "delete"
  BY <1>1 DEF DeleteNode, Emptied, AtNodeEnd, historyVars
<1>4. /\ \A m \in DOMAIN nk : m # n => nk'[m] = nk[m]
      /\ nk'[n].nr_subkeys = nk[n].nr_subkeys /\ nk'[n].subkey_lf = nk[n].subkey_lf
  BY <1>2, <1>3, EmptiedFacts
<1>5. Nodes' = Nodes \ {n}
  BY <1>1, <1>2, DeleteNodeFrees
<1> QED BY <1>3, <1>4, <1>5, SameUnlinked

LEMMA SetValuesUnlinked ==
  ASSUME NEW n, NEW vs \in Seq(ValueType), RecordsInv, Unlinked, SetValues(n, vs)
  PROVE  Unlinked'
<1>1. SoundRecords /\ RecordTypes
  BY DEF RecordsInv, SoundRecords
<1>2. CASE SetValuesRefused(n) \/ SetValuesAborts(n)
  BY <1>2, SameUnlinked
  DEF SetValuesRefused, SetValuesAborts, Refuse, Abort, treeVars, historyVars, Nodes
<1>3. CASE ClearValues(n, vs)
  <2>1. /\ valid' \subseteq valid /\ lf' = lf /\ ri' = ri /\ orphans' = orphans
        /\ partial' = partial /\ pc = "idle"
    BY <1>3 DEF ClearValues, historyVars
  <2>2. /\ DOMAIN nk' = DOMAIN nk
        /\ \A m \in DOMAIN nk : /\ nk'[m].nr_subkeys = nk[m].nr_subkeys
                                /\ nk'[m].subkey_lf = nk[m].subkey_lf
    BY <1>3, ClearValuesFacts
  <2>3. Nodes' \subseteq Nodes
    BY <2>1, <2>2 DEF Nodes
  <2> QED BY <2>1, <2>2, <2>3, SameUnlinked
<1>4. CASE SetValuesBegin(n, vs)
  <2>1. /\ DOMAIN nk' = DOMAIN nk /\ \A m \in DOMAIN nk : m # n => nk'[m] = nk[m]
        /\ nk'[n].nr_subkeys = nk[n].nr_subkeys
        /\ nk'[n].subkey_lf = nk[n].subkey_lf
        /\ valid' = (valid \ ToSet(ValueBlocks(n))) \cup {next}
        /\ lf' = lf /\ ri' = ri /\ orphans' = orphans /\ partial' = partial
    BY <1>1, <1>4, SetValuesBeginFacts
  <2>2. next \notin DOMAIN nk /\ pc = "idle"
    BY <1>1, <1>4 DEF RecordTypes, Allocated, SetValuesBegin
  <2>3. Nodes' \subseteq Nodes
    BY <2>1, <2>2 DEF Nodes
  <2> QED BY <2>1, <2>2, <2>3, SameUnlinked
<1> QED BY <1>2, <1>3, <1>4 DEF SetValues

LEMMA StoreUnlinked ==
  ASSUME RecordsInv, Unlinked, StoreValue \/ StoreDataFails \/ StoreRecordFails
  PROVE  Unlinked'
<1>1. RecordTypes /\ next \in Nat
  BY DEF RecordsInv, SoundRecords, RecordTypes
<1>2. /\ nk' = nk /\ lf' = lf /\ ri' = ri /\ orphans' = orphans
      /\ partial' = partial /\ pc = "set"
  BY DEF StoreValue, StoreDataFails, StoreRecordFails, treeVars, historyVars
<1>3. valid' \subseteq valid \cup {next, next + 1}
  <2>1. CASE StoreValue
    <3>1. \/ valid' = valid \cup next .. (next + 1 - 1)
          \/ valid' = valid \cup next .. (next + 2 - 1)
      BY <2>1 DEF StoreValue
    <3> QED BY <1>1, <3>1
  <2>2. CASE StoreDataFails \/ StoreRecordFails
    BY <2>2 DEF StoreDataFails, StoreRecordFails
  <2> QED BY <2>1, <2>2
<1>4. next \notin DOMAIN nk /\ next + 1 \notin DOMAIN nk
  BY <1>1 DEF RecordTypes, Allocated
<1>5. Nodes' \subseteq Nodes
  BY <1>2, <1>3, <1>4 DEF Nodes
<1> QED BY <1>2, <1>5, SameUnlinked

LEMMA NextUnlinked ==
  RecordsInv /\ SoundKeys /\ LinksInv /\ Unlinked /\ [Next]_vars => Unlinked'
<1> SUFFICES ASSUME RecordsInv, SoundKeys, LinksInv, Unlinked, [Next]_vars
             PROVE  Unlinked'
  OBVIOUS
<1>1. CASE UNCHANGED vars
  <2>1. /\ nk' = nk /\ lf' = lf /\ ri' = ri /\ valid' = valid
        /\ orphans' = orphans /\ partial' = partial /\ pc' = pc
    BY <1>1 DEF vars, treeVars, historyVars
  <2>2. Nodes' = Nodes /\ (\A m : Kids(m)' = Kids(m))
    BY <2>1, KidsKept DEF Nodes
  <2> QED BY <2>1, <2>2 DEF Unlinked
<1>2. Refuse \/ Abort => pc = "aborted" \/ Unlinked'
  BY SameUnlinked DEF Refuse, Abort, treeVars, historyVars, Nodes
<1>3. CASE OutOfMemory
  BY <1>2, <1>3 DEF OutOfMemory
<1>4. ASSUME NEW n \in handles, NEW name \in Names,
             \/ AddChildRefused(n, name) \/ AddChildNoSk(n, name)
             \/ AddChildFails(n, name) \/ AddFirstChild(n, name)
             \/ InsertChild(n, name)
      PROVE  Unlinked'
  <2>1. CASE AddChildRefused(n, name)
    BY <1>2, <2>1 DEF AddChildRefused
  <2> QED BY <1>4, <2>1, NoSkNever, FailsUnlinked, AddsUnlinked
<1>5. ASSUME NEW n \in handles, DeleteRefused(n) \/ SetValueRefused(n)
      PROVE  Unlinked'
  BY <1>2, <1>5 DEF DeleteRefused, SetValueRefused
<1>6. ASSUME NEW n \in handles, DeleteBegin(n)
      PROVE  Unlinked'
  BY <1>6, SameUnlinked DEF DeleteBegin, treeVars, historyVars, Nodes
<1>7. ASSUME NEW n \in handles, NEW vs \in ValueLists, SetValues(n, vs)
      PROVE  Unlinked'
  <2>1. vs \in Seq(ValueType)
    BY HiveTreeAssumption
  <2> QED BY <1>7, <2>1, SetValuesUnlinked
<1>8. ASSUME NEW n \in handles, NEW v \in Values, SetValue(n, v)
      PROVE  Unlinked'
  <2>1. Replaced(n, v) \in Seq(ValueType)
    BY <1>8, ReplacedType, HiveTreeAssumption DEF SetValue, RecordsInv
  <2> QED BY <1>8, <2>1, SetValuesUnlinked DEF SetValue
<1>9. CASE VisitNode \/ DeleteNodeNoValues \/ DeleteFails
  <2>1. /\ nk' = nk /\ lf' = lf /\ ri' = ri /\ valid' \subseteq valid
        /\ orphans' = orphans /\ pc = "delete"
    BY <1>9 DEF VisitNode, DeleteNodeNoValues, DeleteFails, AtNodeEnd, treeVars,
                historyVars
  <2>2. partial => partial'
    <3>1. CASE VisitNode
      BY <3>1 DEF VisitNode, historyVars
    <3>2. CASE DeleteNodeNoValues
      BY <3>2 DEF DeleteNodeNoValues
    <3>3. CASE DeleteFails
      <4>1. partial' = (partial \/ Len(frames) > 1 \/ Top.rest = <<>>)
        BY <3>3 DEF DeleteFails
      <4> QED BY <4>1, Zenon
    <3> QED BY <1>9, <3>1, <3>2, <3>3
  <2> QED BY <2>1, <2>2, SameUnlinked DEF Nodes
<1>10. CASE DeleteNode \/ Unlink
  BY <1>10, DeleteNodeUnlinked, UnlinkUnlinked
<1>11. CASE DeleteNodeNoSk
  BY <1>11, DeleteNoSkNever
<1>12. CASE DeleteNodeAborts
  BY <1>2, <1>12 DEF DeleteNodeAborts, AtNodeEnd
<1>13. CASE StoreValue \/ StoreDataFails \/ StoreRecordFails
  BY <1>13, StoreUnlinked
<1> QED
  BY <1>1, <1>3, <1>4, <1>5, <1>6, <1>7, <1>8, <1>9, <1>10, <1>11, <1>12, <1>13
  DEF Next

-----------------------------------------------------------------------------
(* The invariant holds *)

LEMMA InitView ==
  Init /\ SoundRecords /\ SoundValues /\ SoundKeys /\ LinksAgree /\ Grounded
    => ViewInv
<1> SUFFICES ASSUME Init, SoundRecords, SoundValues, SoundKeys, LinksAgree, Grounded
             PROVE  ViewInv
  OBVIOUS
<1>1. RecordsInv /\ StackInv /\ SetInv /\ LinksInv
  BY InitRecords, InitStack, InitSet, InitLinks
<1>2. Unset /\ NoFrames /\ Unlinked
  BY DEF Init, Unset, NoFrames, Unlinked
<1> QED BY <1>1, <1>2 DEF ViewInv

LEMMA NextView == ViewInv /\ [Next]_vars => ViewInv'
<1> SUFFICES ASSUME ViewInv, [Next]_vars
             PROVE  ViewInv'
  OBVIOUS
<1>1. /\ RecordsInv /\ StackInv /\ SetInv /\ SoundValues /\ SoundKeys /\ LinksInv
      /\ Unset /\ NoFrames /\ Unlinked /\ Grounded /\ CallInv
  BY DEF ViewInv, RecordsInv
<1>2. /\ RecordsInv' /\ StackInv' /\ SetInv' /\ SoundValues' /\ SoundKeys'
      /\ LinksInv'
  BY <1>1, NextRecords, NextStack, NextSet, NextValues, NextKeys, NextLinks
<1>3. Unset' /\ NoFrames' /\ Unlinked' /\ Grounded'
  BY <1>1, NextUnset, NextNoFrames, NextUnlinked, NextPlaces, GroundedKept
<1> QED BY <1>2, <1>3 DEF ViewInv

-----------------------------------------------------------------------------
(* Registry in the operators of this module *)

LEMMA SubkeysAre ==
  ASSUME NEW ks, NEW p
  PROVE  Reg!SubkeysOf(ks, p) = {q \in DOMAIN ks : q # <<>> /\ Front(q) = p}
BY DEF Reg!SubkeysOf, Reg!Front, Front

LEMMA FoundKeys ==
  ASSUME NEW ks, NEW p, NEW name
  PROVE  Reg!FindKey(ks, p, name) =
           {q \in DOMAIN ks : /\ q # <<>> /\ Front(q) = p
                              /\ Fold(Last(q)) = Fold(name)}
BY DEF Reg!FindKey, Reg!SubkeysOf, Reg!Front, Reg!Last, Front, Last

LEMMA RegistryIs ==
  ASSUME NEW ks
  PROVE  Reg!IsRegistry(ks) <=>
           /\ <<>> \in DOMAIN ks
           /\ \A q \in DOMAIN ks \ {<<>>} :
                Front(q) \in DOMAIN ks /\ Reg!FindKey(ks, Front(q), Last(q)) = {q}
BY DEF Reg!IsRegistry, Reg!Front, Reg!Last, Front, Last

LEMMA DeletedAre ==
  ASSUME NEW ks, NEW p
  PROVE  Reg!Deleted(ks, p) = [q \in {r \in DOMAIN ks : ~IsPrefix(p, r)} |-> ks[q]]
BY DEF Reg!Deleted, Reg!IsPrefix, IsPrefix

(* A step of the registry, from the keys before and after. *)
RegStep == [Reg!Next]_(Reg!vars)

LEMMA StepBreaks ==
  ASSUME partial'
  PROVE  RegStep
BY DEF RegStep, Reg!Next, Reg!Break

LEMMA StepSame ==
  ASSUME partial' = partial, Keys' = Keys
  PROVE  RegStep
BY DEF RegStep, Reg!vars

LEMMA StepAdds ==
  ASSUME ~partial, ~partial', partial \in BOOLEAN, partial' \in BOOLEAN,
         NEW p \in DOMAIN Keys, NEW name \in Names,
         Reg!CanAdd(Keys, p, name), Keys' = Reg!Added(Keys, p, name)
  PROVE  RegStep
<1>1. Keys' \in Reg!AddKey(Keys)
  BY DEF Reg!AddKey
<1> QED BY <1>1 DEF RegStep, Reg!Next, Reg!Call

LEMMA StepDeletes ==
  ASSUME ~partial, ~partial', partial \in BOOLEAN, partial' \in BOOLEAN,
         NEW p \in DOMAIN Keys, p # <<>>, Keys' = Reg!Deleted(Keys, p)
  PROVE  RegStep
<1>1. Keys' \in Reg!DeleteKey(Keys)
  BY DEF Reg!DeleteKey
<1> QED BY <1>1 DEF RegStep, Reg!Next, Reg!Call

LEMMA StepSets ==
  ASSUME ~partial, ~partial', partial \in BOOLEAN, partial' \in BOOLEAN,
         NEW p \in DOMAIN Keys, Keys[p].ok, NEW vs \in ValueLists,
         Keys' = Reg!WithValues(Keys, p, vs)
  PROVE  RegStep
<1>1. Keys' \in Reg!SetValues(Keys)
  BY DEF Reg!SetValues, Reg!Settable
<1> QED BY <1>1 DEF RegStep, Reg!Next, Reg!Call

LEMMA StepSetsOne ==
  ASSUME ~partial, ~partial', partial \in BOOLEAN, partial' \in BOOLEAN,
         NEW p \in DOMAIN Keys, Keys[p].ok, NEW v \in Values,
         Keys' = Reg!WithValues(Keys, p, Reg!Replaced(Keys[p].list, v))
  PROVE  RegStep
<1>1. Keys' \in Reg!SetValue(Keys)
  BY DEF Reg!SetValue, Reg!Settable
<1> QED BY <1>1 DEF RegStep, Reg!Next, Reg!Call

Lost(ks, p, left) == [ks EXCEPT ![p] = left]

LEMMA StepLoses ==
  ASSUME ~partial, ~partial', partial \in BOOLEAN, partial' \in BOOLEAN,
         NEW p \in DOMAIN Keys, Keys[p].ok,
         NEW left \in {[ok |-> TRUE, list |-> <<>>], [ok |-> FALSE, list |-> <<>>]},
         Keys' = [Keys EXCEPT ![p] = left]
  PROVE  RegStep
<1>1. PICK ks : ks = Keys
  OBVIOUS
<1>2. p \in Reg!Settable(ks)
  BY <1>1 DEF Reg!Settable
<1>3. left \in {Reg!Readable(<<>>), Reg!Unreadable}
  BY DEF Reg!Readable, Reg!Unreadable
<1>4. Reg!LoseValues(ks) =
        {Lost(ks, a, b) : a \in Reg!Settable(ks),
                          b \in {Reg!Readable(<<>>), Reg!Unreadable}}
  BY DEF Reg!LoseValues, Lost
<1>5. Lost(ks, p, left) \in Reg!LoseValues(ks)
  BY <1>2, <1>3, <1>4
<1>6. Keys' = Lost(ks, p, left)
  BY <1>1 DEF Lost
<1>7. Keys' \in Reg!LoseValues(Keys)
  BY <1>1, <1>5, <1>6
<1> QED BY <1>7 DEF RegStep, Reg!Next, Reg!Call

(* A key other than the root is the key of a child. *)
LEMMA KeyOf ==
  ASSUME RecordTypes, PathsOk, KeysOk, NEW q \in DOMAIN Keys, q # <<>>
  PROVE  \E n \in Nodes \ {root} :
           /\ n \in Tied /\ q \in Paths[n] /\ nk[n].parent \in Nodes
           /\ n \in Kids(nk[n].parent)
           /\ Front(q) \in Paths[nk[n].parent] /\ Last(q) = nk[n].name
           /\ q = Append(Front(q), nk[n].name)
<1>1. PICK P : P = Paths
  OBVIOUS
<1>2. PICK n \in Nodes : q \in P[n]
  BY <1>1 DEF KeysOk
<1>3. P[n] = IF n = root THEN {<<>>}
             ELSE IF n \in Tied THEN {Append(f, NameOf[n]) : f \in P[ParentOf[n]]}
             ELSE {}
  BY <1>1 DEF PathsOk, ArePaths
<1>4. n # root /\ n \in Tied
  BY <1>2, <1>3
<1>5. nk[n].parent \in Nodes /\ n \in Kids(nk[n].parent)
  BY <1>4 DEF PathsOk
<1>6. NameOf[n] = nk[n].name /\ ParentOf[n] = nk[n].parent
  BY DEF NameOf, ParentOf, Nodes
<1>7. PICK name : name = nk[n].name
  OBVIOUS
<1>8. PICK f \in P[nk[n].parent] : q = Append(f, name)
  BY <1>2, <1>3, <1>4, <1>6, <1>7
<1>9. f \in Seq(Text) /\ name \in Text
  BY <1>1, <1>5, <1>7, <1>8 DEF PathsOk, OnePath, Text, RecordTypes,
                                           NodeType, Nodes
<1>10. Front(q) = f /\ Last(q) = name
  BY <1>8, <1>9, PathAppend
<1> QED BY <1>1, <1>2, <1>4, <1>5, <1>7, <1>8, <1>10

(* The keys below the key of p are the keys of children of p. *)
LEMMA SubkeyOf ==
  ASSUME RecordTypes, PathsOk, KeysOk, NEW p \in Nodes, NEW f \in Paths[p],
         NEW q \in DOMAIN Keys, q # <<>>, Front(q) = f
  PROVE  \E n \in Nodes \ {root} :
           /\ n \in Kids(p) /\ q \in Paths[n] /\ Last(q) = nk[n].name
           /\ q = Append(f, nk[n].name)
<1>1. PICK n \in Nodes \ {root} :
        /\ q \in Paths[n] /\ nk[n].parent \in Nodes
        /\ n \in Kids(nk[n].parent)
        /\ Front(q) \in Paths[nk[n].parent] /\ Last(q) = nk[n].name
        /\ q = Append(Front(q), nk[n].name)
  BY KeyOf
<1>2. nk[n].parent = p
  BY <1>1 DEF PathsOk, OnePath
<1> QED BY <1>1, <1>2

LEMMA KeysRegistry ==
  ASSUME ViewInv, ~partial, pc # "aborted", PathsOk, KeysOk
  PROVE  Reg!IsRegistry(Keys)
<1>1. RecordTypes
  BY DEF ViewInv, RecordsInv, SoundRecords
<1>2. <<>> \in DOMAIN Keys
  <2>1. root \in Nodes
    BY DEF ViewInv, RecordsInv, SoundRecords, References
  <2>2. Paths[root] = {<<>>}
    BY <2>1 DEF PathsOk, ArePaths
  <2> QED BY <2>1, <2>2 DEF KeysOk
<1>3. ASSUME NEW q \in DOMAIN Keys \ {<<>>}
      PROVE  Front(q) \in DOMAIN Keys /\ Reg!FindKey(Keys, Front(q), Last(q)) = {q}
  <2>1. PICK n \in Nodes \ {root} :
          /\ n \in Tied /\ q \in Paths[n] /\ nk[n].parent \in Nodes
          /\ n \in Kids(nk[n].parent)
          /\ Front(q) \in Paths[nk[n].parent] /\ Last(q) = nk[n].name
          /\ q = Append(Front(q), nk[n].name)
    BY <1>1, KeyOf
  <2>2. PICK p \in Nodes : p = nk[n].parent
    BY <2>1
  <2>3. Front(q) \in DOMAIN Keys
    BY <2>1 DEF KeysOk
  <2>4. PICK f \in Paths[p] : f = Front(q)
    BY <2>1, <2>2
  <2>5. ASSUME NEW k \in DOMAIN Keys, k # <<>>, Front(k) = f,
               Fold(Last(k)) = Fold(Last(q))
        PROVE  k = q
    <3>1. PICK m \in Nodes \ {root} : /\ m \in Kids(p) /\ Last(k) = nk[m].name
                                      /\ k = Append(f, nk[m].name)
      BY <1>1, <2>5, SubkeyOf
    <3>2. Open(p)
      BY OpenNodes DEF ViewInv, RecordsInv
    <3>3. m = n
      BY <2>1, <2>2, <2>5, <3>1, <3>2, KidsDiffer DEF ViewInv, RecordsInv
    <3> QED BY <2>1, <2>4, <3>1, <3>3
  <2>6. Reg!FindKey(Keys, f, Last(q)) =
          {k \in DOMAIN Keys : k # <<>> /\ Front(k) = f /\ Fold(Last(k)) = Fold(Last(q))}
    BY FoundKeys
  <2>7. Reg!FindKey(Keys, f, Last(q)) = {q}
    BY <2>4, <2>5, <2>6
  <2> QED BY <2>3, <2>4, <2>7
<1> QED BY <1>2, <1>3, RegistryIs

LEMMA InitRegistry == Init /\ ViewInv => Reg!Init
<1> SUFFICES ASSUME Init, ViewInv PROVE Reg!Init
  OBVIOUS
<1>1. partial = FALSE /\ pc = "idle"
  BY DEF Init
<1>2. PathsOk /\ KeysOk
  BY <1>1, ViewIs DEF ViewOk
<1>3. Reg!IsRegistry(Keys)
  BY <1>1, <1>2, KeysRegistry
<1> QED BY <1>1, <1>3 DEF Reg!Init

-----------------------------------------------------------------------------
(* Steps that change no key *)

LEMMA ReadSame ==
  ASSUME valid' = valid, nk' = nk, vl' = vl, vk' = vk, db' = db,
         pc' = "set" <=> pc = "set",
         pc = "set" => target' = target /\ list' = list, NEW n
  PROVE  SeenValues(n)' = SeenValues(n)
<1>1. ValuesOf(n)' = ValuesOf(n) /\ (ValuesOK(n)' <=> ValuesOK(n))
  BY DEF ValuesOf, ValuesOK
<1>2. \A v : /\ Readable(v)' <=> Readable(v)
             /\ ReadValue(v)' = ReadValue(v)
  BY DEF Readable, ReadValue
<1>3. CanReadAll(n)' <=> CanReadAll(n)
  BY <1>1, <1>2 DEF CanReadAll, IsNode
<1>4. Stored(n)' = Stored(n)
  BY <1>1, <1>2 DEF Stored
<1> QED BY <1>3, <1>4 DEF SeenValues

At == UNION {{[path |-> p, node |-> n] : p \in PathTo[n]} : n \in Nodes}
SeenAt(at) ==
  [p \in {a.path : a \in at} |->
     SeenValues((CHOOSE a \in at : a.path = p).node)]

LEMMA KeysUnchanged ==
  ASSUME root' = root, valid' = valid, nk' = nk, lf' = lf, ri' = ri, vl' = vl,
         vk' = vk, db' = db, Deleting' = Deleting, pc' = "set" <=> pc = "set",
         pc = "set" => target' = target /\ list' = list
  PROVE  Keys' = Keys
<1>1. Nodes' = Nodes
  BY DEF Nodes
<1>2. \A n, p : IsListed(n, p)' <=> IsListed(n, p)
  BY DEF IsListed, Lists
<1>3. \A P : ArePathsTo(P)' <=> ArePathsTo(P)
  BY <1>1, <1>2 DEF ArePathsTo
<1>4. PathTo' = CHOOSE P : ArePathsTo(P)'
  BY DEF PathTo, ArePathsTo
<1>5. PathTo' = PathTo
  BY <1>3, <1>4, PathToIs
<1>6. \A n : SeenValues(n)' = SeenValues(n)
  BY ReadSame
<1>7. Keys = SeenAt(At) /\ Keys' = SeenAt(At)'
  BY DEF Keys, SeenAt, At
<1>8. PICK at : at = At
  OBVIOUS
<1>9. At' = at
  BY <1>1, <1>5, <1>8 DEF At
<1>10. SeenAt(At)' = SeenAt(at)'
  BY <1>9
<1>11. SeenAt(at)' = SeenAt(at)
  BY <1>6 DEF SeenAt
<1> QED BY <1>7, <1>8, <1>10, <1>11

LEMMA SameStep ==
  ASSUME UNCHANGED vars
  PROVE  RegStep
<1>1. /\ root' = root /\ valid' = valid /\ nk' = nk /\ lf' = lf /\ ri' = ri
      /\ vl' = vl /\ vk' = vk /\ db' = db /\ pc' = pc /\ frames' = frames
      /\ target' = target /\ list' = list /\ partial' = partial
  BY DEF vars, treeVars, valueVars, callVars, historyVars
<1>2. Deleting' = Deleting
  BY <1>1 DEF Deleting, Top
<1> QED BY <1>1, <1>2, KeysUnchanged, StepSame

LEMMA RefuseStep ==
  ASSUME NoFrames, pc = "idle", Refuse
  PROVE  RegStep
<1>1. /\ root' = root /\ valid' = valid /\ nk' = nk /\ lf' = lf /\ ri' = ri
      /\ vl' = vl /\ vk' = vk /\ db' = db /\ pc' = "idle" /\ frames' = <<>>
      /\ partial' = partial
  BY DEF Refuse, Return, treeVars, valueVars, historyVars
<1>2. Deleting' = {} /\ Deleting = {}
  BY <1>1 DEF Deleting, NoFrames
<1> QED BY <1>1, <1>2, KeysUnchanged, StepSame

LEMMA AbortStep ==
  ASSUME pc # "set", Abort
  PROVE  RegStep
<1>1. /\ root' = root /\ valid' = valid /\ nk' = nk /\ lf' = lf /\ ri' = ri
      /\ vl' = vl /\ vk' = vk /\ db' = db /\ pc' = "aborted" /\ frames' = frames
      /\ target' = target /\ partial' = partial
  BY DEF Abort, treeVars, valueVars, callVars, historyVars
<1>2. Deleting' = Deleting
  BY <1>1 DEF Deleting, Top
<1> QED BY <1>1, <1>2, KeysUnchanged, StepSame

LEMMA DeleteBeginStep ==
  ASSUME NEW n, NoFrames, DeleteBegin(n)
  PROVE  RegStep
<1>1. /\ root' = root /\ valid' = valid /\ nk' = nk /\ lf' = lf /\ ri' = ri
      /\ vl' = vl /\ vk' = vk /\ db' = db /\ pc = "idle" /\ pc' = "delete"
      /\ frames' = <<[node |-> nk[n].parent, rest |-> <<n>>]>>
      /\ partial' = partial
  BY DEF DeleteBegin, treeVars, valueVars, historyVars
<1>2. Deleting = {}
  BY <1>1 DEF Deleting, NoFrames
<1>3. Deleting' = {}
  BY <1>1 DEF Deleting, Top
<1> QED BY <1>1, <1>2, <1>3, KeysUnchanged, StepSame

(* hivex_node_delete_child gives up before it has visited the node. *)
LEMMA DeleteFailsStep ==
  ASSUME DeleteFails, RecordsInv, ~partial'
  PROVE  RegStep
<1>1. /\ root' = root /\ valid' = valid /\ nk' = nk /\ lf' = lf /\ ri' = ri
      /\ vl' = vl /\ vk' = vk /\ db' = db /\ pc = "delete" /\ pc' = "idle"
      /\ frames' = <<>>
  BY DEF DeleteFails, Return, treeVars, valueVars
<1>2. partial' = (partial \/ Len(frames) > 1 \/ Top.rest = <<>>)
  BY DEF DeleteFails
<1>3. ~partial /\ ~(Len(frames) > 1) /\ Top.rest # <<>>
  BY <1>2, Zenon
<1>4. Deleting = {} /\ Deleting' = {}
  BY <1>1, <1>3 DEF Deleting
<1>5. partial' = partial
  BY <1>3 DEF RecordsInv, HistoryInv, DeleteFails
<1> QED BY <1>1, <1>4, <1>5, KeysUnchanged, StepSame

-----------------------------------------------------------------------------
(* Steps that change the values of one node *)

Viewed == ViewInv /\ ~partial /\ pc # "aborted" /\ PathsOk /\ KeysOk

LEMMA ViewedIs == ViewInv => (~partial /\ pc # "aborted" => Viewed)
BY ViewIs DEF Viewed, ViewOk

NoDelete == pc = "idle" \/ pc = "set"

(* A step that touches the values of x only. *)
ValuesOnly(x) ==
  /\ NoDelete /\ NoDelete' /\ Nodes' = Nodes /\ orphans' = orphans
  /\ pc = "set" => target = x
  /\ pc' = "set" => target' = x
  /\ \A m \in Nodes : m # x => ValuesKept(m)

LEMMA ValuesStep ==
  ASSUME NEW x \in Nodes, Viewed, Viewed', Places, ValuesOnly(x)
  PROVE  \/ Keys' = Keys
         \/ \E p \in DOMAIN Keys :
              /\ Keys[p] = SeenValues(x)
              /\ Keys' = [Keys EXCEPT ![p] = SeenValues(x)']
<1>1. Deleting = {} /\ Deleting' = {}
  <2>1. frames = <<>> /\ frames' = <<>>
    BY DEF Viewed, ViewInv, NoFrames, ValuesOnly, NoDelete
  <2> QED BY <2>1 DEF Deleting
<1>2. Tied' = Tied /\ Nodes' = Nodes
  BY <1>1 DEF Tied, ValuesOnly
<1>3. \A n \in Nodes : Paths'[n] = Paths[n]
  <2>1. ViewInv /\ PathsOk /\ PathsOk' /\ PlacesKept
    BY DEF Viewed, Places
  <2> QED BY <1>2, <2>1, PathsGrow
<1>4. SamePaths
  BY <1>2, <1>3 DEF SamePaths
<1>5. ASSUME NEW n \in Nodes, n # x
      PROVE  SeenValues(n)' = SeenValues(n)
  <2>1. SoundRecords /\ Lengths /\ ValuesKept(n)
    BY <1>5 DEF Viewed, ViewInv, RecordsInv, SoundValues, ValuesOnly
  <2>2. ~(pc = "set" /\ n = target) /\ ~(pc' = "set" /\ n = target')
    BY <1>5 DEF ValuesOnly
  <2> QED BY <2>1, <2>2, SeenSame
<1>6. x \in Nodes' /\ PathsOk /\ KeysOk /\ KeysOk'
  BY <1>2 DEF Viewed
<1> QED BY <1>4, <1>5, <1>6, KeysChange

LEMMA ClearedKept ==
  ASSUME NEW n, NEW vs, RecordsInv, SoundValues, ClearValues(n, vs)
  PROVE  n \in Nodes /\ Nodes' = Nodes /\ \A m \in Nodes : m # n => ValuesKept(m)
<1>1. /\ n \in Nodes /\ SoundRecords /\ RecordTypes /\ Lengths /\ ValuesOK(n)
  BY DEF Nodes, RecordsInv, SoundRecords, SoundValues, ClearValues, CanClear, IsNode
<1>2. /\ valid' = valid \ ToSet(ValueBlocks(n))
      /\ lf' = lf /\ ri' = ri /\ vl' = vl /\ vk' = vk /\ db' = db
  BY DEF ClearValues, valueVars
<1>3. /\ DOMAIN nk' = DOMAIN nk /\ \A m \in DOMAIN nk : m # n => nk'[m] = nk[m]
  BY ClearValuesFacts
<1>4. Nodes' = Nodes
  <2>1. ToSet(ValueBlocks(n)) \cap DOMAIN nk = {}
    BY <1>1, ValueBlocksNoNodes DEF Nodes
  <2> QED BY <1>2, <1>3, <2>1 DEF Nodes
<1>5. \A m \in Nodes : m # n => Held(m) \cap (valid \ valid') = {}
  BY <1>1, <1>2, ValueBlocksHeld, FreedKept
<1>6. ASSUME NEW m \in Nodes, m # n
      PROVE  ValuesKept(m)
  <2>1. SameFields(m) /\ VkGrows
    BY <1>2, <1>3, <1>6 DEF SameFields, VkGrows, Nodes
  <2> QED BY <1>2, <1>4, <1>5, <1>6, <2>1 DEF ValuesKept
<1> QED BY <1>1, <1>4, <1>6

LEMMA BegunKept ==
  ASSUME NEW n, NEW vs \in Seq(ValueType), RecordsInv, SoundValues,
         SetValuesBegin(n, vs)
  PROVE  n \in Nodes /\ Nodes' = Nodes /\ \A m \in Nodes : m # n => ValuesKept(m)
<1>1. SoundRecords /\ RecordTypes /\ Lengths
  BY DEF RecordsInv, SoundRecords, SoundValues
<1>2. /\ n \in Nodes /\ n \in DOMAIN nk /\ ValuesOK(n) /\ next \in Nat \ {0}
      /\ DOMAIN nk' = DOMAIN nk /\ \A m \in DOMAIN nk : m # n => nk'[m] = nk[m]
      /\ \A b \in DOMAIN vl : vl'[b] = vl[b]
      /\ valid' = (valid \ ToSet(ValueBlocks(n))) \cup {next}
      /\ vk' = vk /\ db' = db
  BY <1>1, SetValuesBeginFacts
<1>3. Nodes' = Nodes
  <2>1. ToSet(ValueBlocks(n)) \cap DOMAIN nk = {}
    BY <1>1, <1>2, ValueBlocksNoNodes
  <2>2. next \notin DOMAIN nk
    BY <1>1 DEF RecordTypes, Allocated
  <2> QED BY <1>2, <2>1, <2>2 DEF Nodes
<1>4. \A m \in Nodes : m # n => Held(m) \cap (valid \ valid') = {}
  BY <1>1, <1>2, ValueBlocksHeld, FreedKept
<1>5. ASSUME NEW m \in Nodes, m # n
      PROVE  ValuesKept(m)
  <2>1. m \in DOMAIN nk /\ (nk[m].nr_values > 0 => nk[m].vallist \in DOMAIN vl)
    BY <1>1 DEF SoundRecords, References, Nodes
  <2>2. SameFields(m) /\ VkGrows
    BY <1>2, <1>5, <2>1 DEF SameFields, VkGrows
  <2>3. \A b \in valid' : b \in valid \/ b >= next
    BY <1>2
  <2> QED BY <1>2, <1>3, <1>4, <1>5, <2>2, <2>3 DEF ValuesKept
<1> QED BY <1>2, <1>3, <1>5

LEMMA PutKept ==
  ASSUME NEW v \in ValueType, NEW d \in Nat, RecordsInv, SoundValues, pc = "set",
         PutValue(v, d), db' = db \/ db' = NewRecord(db, next + 1, v.data),
         valid \subseteq valid', valid' \subseteq valid \cup {next, next + 1},
         nk' = nk
  PROVE  Nodes' = Nodes /\ \A m \in Nodes : m # target => ValuesKept(m)
<1>1. /\ SoundRecords /\ RecordTypes /\ References /\ Lengths
  BY DEF RecordsInv, SoundRecords, SoundValues
<1>2. PICK n \in Nodes : n = target
  BY Storing
<1>3. /\ n \in DOMAIN nk /\ nk[n].vallist \in DOMAIN vl /\ nk[n].nr_values = Len(list)
      /\ Len(list) \in Nat /\ nk[n].nr_values # 0
  BY <1>2, Storing
<1>4. next \in Nat \ {0} /\ next \notin DOMAIN nk /\ next + 1 \notin DOMAIN nk
      /\ next + 1 \notin DOMAIN db
  BY <1>1 DEF RecordTypes, Allocated
<1>5. /\ DOMAIN vk' = DOMAIN vk \cup {next} /\ \A b \in DOMAIN vk : vk'[b] = vk[b]
      /\ \A b \in DOMAIN vl : b # nk[n].vallist => vl'[b] = vl[b]
  BY <1>1, <1>2, <1>3, PutValueFacts
<1>6. VkGrows
  BY <1>5 DEF VkGrows
<1>7. Nodes' = Nodes
  BY <1>4 DEF Nodes
<1>8. \A b \in DOMAIN db : db'[b] = db[b]
  BY <1>4 DEF NewRecord
<1>9. ASSUME NEW m \in Nodes, m # n
      PROVE  ValuesKept(m)
  <2>1. nk[m].nr_values > 0 => nk[m].vallist \in DOMAIN vl
    BY <1>1 DEF References, Nodes
  <2>2. nk[m].nr_values > 0 => nk[m].vallist # nk[n].vallist
    <3> SUFFICES ASSUME nk[m].nr_values > 0, nk[m].vallist = nk[n].vallist
                 PROVE  FALSE
      OBVIOUS
    <3>1. nk[m].nr_values \in Nat /\ nk[m].nr_values # 0
      BY <1>1, HeldKinds
    <3>2. PICK b : b = nk[n].vallist
      OBVIOUS
    <3>3. b # None /\ b # Zero
      BY <1>1, <1>3, <3>2 DEF RecordTypes, Allocated, None, Zero
    <3>4. b \in Held(n) /\ b \in Held(m)
      BY <1>3, <3>1, <3>2, <3>3 DEF Held, ValList
    <3> QED BY <1>9, <3>4 DEF SoundValues, Exclusive
  <2>3. SameFields(m)
    BY <1>5, <2>1, <2>2 DEF SameFields
  <2>4. \A b \in valid' : b \in valid \/ b >= next
    BY <1>4
  <2> QED BY <1>6, <1>7, <1>8, <2>3, <2>4 DEF ValuesKept
<1> QED BY <1>2, <1>7, <1>9

LEMMA StoredKept ==
  ASSUME RecordsInv, SoundValues, StoreValue \/ StoreDataFails
  PROVE  Nodes' = Nodes /\ \A m \in Nodes : m # target => ValuesKept(m)
<1>1. pc = "set" /\ next \in Nat
  BY DEF StoreValue, StoreDataFails, RecordsInv, SoundRecords, RecordTypes
<1>2. PICK v \in ValueType : v = list[stored + 1]
  BY <1>1, Storing
<1>3. v.data \in Nat
  BY DEF ValueType
<1>4. CASE StoreDataFails
  <2>1. /\ PutValue(v, Zero) /\ db' = db /\ valid' = valid \cup {next} /\ nk' = nk
    BY <1>2, <1>4 DEF StoreDataFails, treeVars
  <2>2. PICK d \in Nat : d = Zero
    BY DEF Zero
  <2> QED BY <1>1, <2>1, <2>2, PutKept
<1>5. CASE StoreValue
  <2>1. nk' = nk /\ valid \subseteq valid'
    BY <1>5 DEF StoreValue, treeVars
  <2>2. CASE v.len = "inline"
    <3>1. /\ PutValue(v, v.data) /\ db' = db
          /\ valid' = valid \cup next .. (next + 1 - 1)
      BY <1>2, <1>5, <2>2 DEF StoreValue
    <3>2. valid' \subseteq valid \cup {next, next + 1}
      BY <1>1, <3>1
    <3> QED BY <1>1, <1>3, <2>1, <3>1, <3>2, PutKept
  <2>3. CASE v.len # "inline"
    <3>1. /\ PutValue(v, next + 1) /\ db' = NewRecord(db, next + 1, v.data)
          /\ valid' = valid \cup next .. (next + 2 - 1)
      BY <1>2, <1>5, <2>3 DEF StoreValue
    <3>2. valid' \subseteq valid \cup {next, next + 1}
      BY <1>1, <3>1
    <3>3. PICK d \in Nat : d = next + 1
      BY <1>1
    <3> QED BY <1>1, <2>1, <3>1, <3>2, <3>3, PutKept
  <2> QED BY <2>2, <2>3
<1> QED BY <1>4, <1>5

LEMMA WithValuesIs ==
  ASSUME NEW ks, NEW p, NEW vs
  PROVE  Reg!WithValues(ks, p, vs) =
           [ks EXCEPT ![p] = IF Len(vs) > MaxValues
                             THEN [ok |-> FALSE, list |-> <<>>]
                             ELSE [ok |-> TRUE, list |-> vs]]
BY DEF Reg!WithValues, Reg!Readable, Reg!Unreadable

LEMMA ReplacedIs ==
  ASSUME NEW n, NEW v
  PROVE  Replaced(n, v) = Reg!Replaced(Stored(n), v)
BY DEF Replaced, Reg!Replaced, ReplaceAt, Reg!ReplaceAt, Max, Reg!Max

(* Values that can be deleted can be read. *)
LEMMA ClearReads ==
  ASSUME NEW n, RecordsInv, SoundValues, CanClear(n)
  PROVE  CanReadAll(n)
<1>1. /\ n \in Nodes /\ n \in DOMAIN nk /\ SoundRecords /\ RecordTypes /\ References
      /\ Lengths /\ ValuesOK(n) /\ IsNode(n) /\ ToSet(ValueBlocks(n)) \subseteq valid
  BY DEF Nodes, RecordsInv, SoundRecords, SoundValues, CanClear, IsNode, CanFree
<1>2. ASSUME NEW w \in ToSet(ValuesOf(n))
      PROVE  Readable(w)
  <2>1. w \in DOMAIN vk
    BY <1>1, ValuesType
  <2>2. nk[n].nr_values # 0
    <3>1. nk[n].nr_values = 0 => ValuesOf(n) = <<>>
      BY DEF ValuesOf
    <3> QED BY <3>1 DEF ToSet
  <2>3. w \in Vals(n) /\ Datas(n) \subseteq valid
    BY <1>1, <2>2, ValueBlocksHeld
  <2>4. ~vk[w].inline => vk[w].data \in Datas(n)
    BY <2>1, <2>3 DEF Datas
  <2> QED BY <2>1, <2>3, <2>4 DEF Readable
<1> QED BY <1>1, <1>2 DEF CanReadAll

LEMMA NoneSeen ==
  ASSUME NEW n \in Nodes', nk'[n].nr_values = 0, pc' # "set"
  PROVE  SeenValues(n)' = [ok |-> TRUE, list |-> <<>>]
<1>1. ValuesOf(n)' = <<>>
  BY DEF ValuesOf
<1>2. ToSet(ValuesOf(n)') = {} /\ DOMAIN ValuesOf(n)' = {}
  BY <1>1 DEF ToSet
<1>3. IsNode(n)' /\ ValuesOK(n)'
  BY DEF IsNode, Nodes, ValuesOK
<1>4. CanReadAll(n)'
  BY <1>2, <1>3 DEF CanReadAll
<1>5. Stored(n)' = [i \in {} |-> ReadValue(ValuesOf(n)[i])']
  BY <1>2 DEF Stored
<1>6. Stored(n)' = <<>>
  BY <1>5
<1> QED BY <1>4, <1>6 DEF SeenValues

LEMMA SeenReads ==
  ASSUME NEW n, CanReadAll(n), pc # "set" \/ n # target
  PROVE  SeenValues(n) = [ok |-> TRUE, list |-> Stored(n)]
BY DEF SeenValues

(* The steps of a call need both states as they are seen. *)
Step == Viewed /\ Viewed' /\ Places

LEMMA Bools ==
  ASSUME Step
  PROVE  ~partial /\ ~partial' /\ partial \in BOOLEAN /\ partial' \in BOOLEAN
         /\ partial' = partial
BY DEF Step, Viewed, ViewInv, RecordsInv, HistoryInv

(* What a step makes of the values of x is what Registry allows. *)
LEMMA ValuesLost ==
  ASSUME NEW x \in Nodes, Step, ValuesOnly(x), SeenValues(x).ok,
         SeenValues(x)' \in {[ok |-> TRUE, list |-> <<>>],
                             [ok |-> FALSE, list |-> <<>>]}
  PROVE  RegStep
<1>1. Viewed /\ Viewed' /\ Places
  BY DEF Step
<1>2. CASE Keys' = Keys
  BY <1>2, Bools, StepSame
<1>3. CASE \E p \in DOMAIN Keys : /\ Keys[p] = SeenValues(x)
                                 /\ Keys' = [Keys EXCEPT ![p] = SeenValues(x)']
  <2>1. PICK p \in DOMAIN Keys : /\ Keys[p] = SeenValues(x)
                                 /\ Keys' = [Keys EXCEPT ![p] = SeenValues(x)']
    BY <1>3
  <2>2. PICK left \in {[ok |-> TRUE, list |-> <<>>], [ok |-> FALSE, list |-> <<>>]} :
          left = SeenValues(x)'
    OBVIOUS
  <2>3. Keys[p].ok /\ Keys' = [Keys EXCEPT ![p] = left]
    BY <2>1, <2>2
  <2> QED BY <2>3, Bools, StepLoses
<1> QED BY <1>1, <1>2, <1>3, ValuesStep

LEMMA ValuesSame ==
  ASSUME NEW x \in Nodes, Step, ValuesOnly(x), SeenValues(x)' = SeenValues(x)
  PROVE  RegStep
<1>1. Viewed /\ Viewed' /\ Places
  BY DEF Step
<1>2. ASSUME NEW p \in DOMAIN Keys, Keys[p] = SeenValues(x),
             Keys' = [Keys EXCEPT ![p] = SeenValues(x)']
      PROVE  Keys' = Keys
  <2>1. PICK ks : ks = Keys
    OBVIOUS
  <2>2. ks = [q \in DOMAIN ks |-> ks[q]]
    BY <1>1, <2>1 DEF Viewed, KeysOk
  <2>3. Keys' = [ks EXCEPT ![p] = ks[p]]
    BY <1>2, <2>1
  <2> QED BY <2>1, <2>2, <2>3
<1>3. Keys' = Keys
  BY <1>1, <1>2, ValuesStep
<1> QED BY <1>3, Bools, StepSame

LEMMA ClearValuesStep ==
  ASSUME NEW n, NEW vs, Step, ClearValues(n, vs)
  PROVE  RegStep
<1>1. RecordsInv /\ SoundValues /\ pc = "idle" /\ pc' = "idle"
      /\ orphans' = orphans /\ CanClear(n)
  BY DEF Step, Viewed, ViewInv, ClearValues, Return, historyVars
<1>2. n \in Nodes /\ Nodes' = Nodes /\ \A m \in Nodes : m # n => ValuesKept(m)
  BY <1>1, ClearedKept
<1>3. ValuesOnly(n)
  BY <1>1, <1>2 DEF ValuesOnly, NoDelete
<1>4. SeenValues(n).ok
  <2>1. SeenValues(n) = [ok |-> TRUE, list |-> Stored(n)]
    BY <1>1, ClearReads, SeenReads
  <2> QED BY <2>1
<1>5. SeenValues(n)' = [ok |-> TRUE, list |-> <<>>]
  <2>1. nk'[n].nr_values = 0
    BY <1>1, ClearValuesFacts
  <2> QED BY <1>1, <1>2, <2>1, NoneSeen
<1>6. SeenValues(n)' \in {[ok |-> TRUE, list |-> <<>>], [ok |-> FALSE, list |-> <<>>]}
  BY <1>5
<1> QED BY <1>2, <1>3, <1>4, <1>6, ValuesLost

LEMMA SetValuesBeginStep ==
  ASSUME NEW n, NEW vs \in Seq(ValueType), Step, SetValuesBegin(n, vs),
         vs \in ValueLists \/ \E v \in Values : vs = Replaced(n, v)
  PROVE  RegStep
<1>1. RecordsInv /\ SoundRecords /\ SoundValues /\ Viewed /\ Viewed' /\ Places
      /\ pc = "idle" /\ CanClear(n)
  BY DEF Step, Viewed, ViewInv, RecordsInv, SetValuesBegin
<1>2. n \in Nodes /\ Nodes' = Nodes /\ \A m \in Nodes : m # n => ValuesKept(m)
  BY <1>1, BegunKept
<1>3. pc' = "set" /\ target' = n /\ list' = vs /\ orphans' = orphans
  BY DEF SetValuesBegin, historyVars
<1>4. ValuesOnly(n)
  BY <1>1, <1>2, <1>3 DEF ValuesOnly, NoDelete
<1>5. SeenValues(n) = [ok |-> TRUE, list |-> Stored(n)]
  BY <1>1, ClearReads, SeenReads
<1>6. SeenValues(n)' = IF Len(vs) > MaxValues THEN [ok |-> FALSE, list |-> <<>>]
                       ELSE [ok |-> TRUE, list |-> vs]
  BY <1>3 DEF SeenValues
<1>7. CASE Keys' = Keys
  BY <1>7, Bools, StepSame
<1>8. ASSUME NEW p \in DOMAIN Keys, Keys[p] = SeenValues(n),
             Keys' = [Keys EXCEPT ![p] = SeenValues(n)']
      PROVE  RegStep
  <2>1. Keys[p].ok /\ Keys[p].list = Stored(n)
    BY <1>5, <1>8
  <2>2. Keys' = Reg!WithValues(Keys, p, vs)
    BY <1>6, <1>8, WithValuesIs
  <2>3. CASE vs \in ValueLists
    BY <2>1, <2>2, <2>3, Bools, StepSets
  <2>4. CASE \E v \in Values : vs = Replaced(n, v)
    <3>1. PICK v \in Values : vs = Replaced(n, v)
      BY <2>4
    <3>2. vs = Reg!Replaced(Keys[p].list, v)
      BY <2>1, <3>1, ReplacedIs
    <3>3. Keys' = Reg!WithValues(Keys, p, Reg!Replaced(Keys[p].list, v))
      BY <2>2, <3>2
    <3> QED BY <2>1, <3>3, Bools, StepSetsOne
  <2> QED BY <2>3, <2>4
<1> QED BY <1>1, <1>2, <1>4, <1>7, <1>8, ValuesStep

LEMMA SetValuesStep ==
  ASSUME NEW n, NEW vs \in Seq(ValueType), Step, SetValues(n, vs),
         vs \in ValueLists \/ \E v \in Values : vs = Replaced(n, v)
  PROVE  RegStep
<1>1. NoFrames /\ Viewed'
  BY DEF Step, Viewed, ViewInv
<1>2. CASE SetValuesRefused(n)
  BY <1>1, <1>2, RefuseStep DEF SetValuesRefused
<1>3. CASE SetValuesAborts(n)
  BY <1>1, <1>3 DEF SetValuesAborts, Abort, Viewed
<1>4. CASE ClearValues(n, vs)
  BY <1>4, ClearValuesStep
<1>5. CASE SetValuesBegin(n, vs)
  BY <1>5, SetValuesBeginStep
<1> QED BY <1>2, <1>3, <1>4, <1>5 DEF SetValues

Reads ==
  \A n \in Nodes : \A i \in 1 .. nk[n].nr_values :
    CanReadAll(n) => Readable(vl[nk[n].vallist][i])

LEMMA AllRead == SoundRecords /\ Lengths => Reads
<1> SUFFICES ASSUME SoundRecords, Lengths, NEW n \in Nodes,
                    NEW i \in 1 .. nk[n].nr_values, CanReadAll(n)
             PROVE  Readable(vl[nk[n].vallist][i])
  BY DEF Reads
<1>1. vl[nk[n].vallist][i] \in Vals(n)
  BY DEF Vals
<1> QED BY <1>1, ValuesOfAre DEF CanReadAll

LEMMA StoreValueStep ==
  ASSUME Step, StoreValue
  PROVE  RegStep
<1>1. RecordsInv /\ SetInv /\ SoundValues /\ pc = "set"
  BY DEF Step, Viewed, ViewInv, StoreValue
<1>2. PICK n \in Nodes : n = target
  BY <1>1, Storing
<1>3. /\ nk[n].nr_values = Len(list) /\ Len(list) \in Nat /\ stored \in Nat
      /\ stored < Len(list)
  BY <1>1, <1>2, Storing
<1>4. Nodes' = Nodes /\ \A m \in Nodes : m # n => ValuesKept(m)
  BY <1>1, <1>2, StoredKept
<1>5. nk' = nk /\ orphans' = orphans
  BY DEF StoreValue, treeVars, historyVars
<1>6. CASE stored + 1 < Len(list) /\ UNCHANGED <<pc, target, list>>
  <2>1. ValuesOnly(n)
    BY <1>1, <1>2, <1>4, <1>5, <1>6 DEF ValuesOnly, NoDelete
  <2>2. SeenValues(n)' = SeenValues(n)
    BY <1>1, <1>2, <1>6 DEF SeenValues
  <2> QED BY <2>1, <2>2, ValuesSame
<1>7. CASE stored + 1 = Len(list) /\ pc' = "idle"
  <2>1. ValuesOnly(n)
    BY <1>1, <1>2, <1>4, <1>5, <1>7 DEF ValuesOnly, NoDelete
  <2>2. CASE Len(list) <= MaxValues
    <3>1. CanReadAll(n)' /\ Stored(n)' = list
      BY <1>1, <1>2, <1>7, <2>2, ReadBackLast
    <3>2. SeenValues(n)' = [ok |-> TRUE, list |-> list]
      BY <1>7, <3>1 DEF SeenValues
    <3>3. ~(Len(list) > MaxValues)
      BY <1>3, <2>2, HiveTreeAssumption
    <3>4. SeenValues(n) = [ok |-> TRUE, list |-> list]
      BY <1>1, <1>2, <3>3 DEF SeenValues
    <3> QED BY <2>1, <3>2, <3>4, ValuesSame
  <2>3. CASE ~(Len(list) <= MaxValues)
    <3>1. MaxValues \in Nat /\ Len(list) > MaxValues
      BY <1>3, <2>3, HiveTreeAssumption
    <3>2. ~ValuesOK(n)'
      BY <1>3, <1>5, <3>1 DEF ValuesOK
    <3>3. SeenValues(n)' = [ok |-> FALSE, list |-> <<>>]
      BY <1>7, <3>2 DEF SeenValues, CanReadAll
    <3>4. SeenValues(n) = [ok |-> FALSE, list |-> <<>>]
      BY <1>1, <1>2, <3>1 DEF SeenValues
    <3> QED BY <2>1, <3>3, <3>4, ValuesSame
  <2> QED BY <2>2, <2>3
<1>8. \/ stored + 1 = Len(list) /\ Return("ok")
      \/ stored + 1 < Len(list) /\ UNCHANGED <<pc, target, list>>
  BY DEF StoreValue
<1> QED BY <1>6, <1>7, <1>8 DEF Return

(* The values that a failed call leaves cannot be read. *)
LEMMA TornStep ==
  ASSUME NEW b, Step, pc = "set", pc' = "idle", nk' = nk, orphans' = orphans,
         Nodes' = Nodes, \A m \in Nodes : m # target => ValuesKept(m),
         vl'[nk[target].vallist][stored + 1] = b, ~Readable(b)'
  PROVE  RegStep
<1>1. RecordsInv /\ SoundRecords' /\ Lengths'
  BY DEF Step, Viewed, ViewInv, RecordsInv, SoundValues
<1>2. PICK n \in Nodes : n = target
  BY <1>1, Storing
<1>3. /\ nk[n].nr_values = Len(list) /\ Len(list) \in Nat /\ stored \in Nat
      /\ stored < Len(list)
  BY <1>1, <1>2, Storing
<1>4. SoundRecords' /\ Lengths' => Reads'
  BY AllRead, PTL
<1>5. ~CanReadAll(n)'
  <2>1. stored + 1 \in 1 .. nk'[n].nr_values /\ n \in Nodes'
    BY <1>2, <1>3
  <2>2. vl'[nk'[n].vallist][stored + 1] = b
    BY <1>2
  <2>3. Reads'
    BY <1>1, <1>4
  <2> QED BY <2>1, <2>2, <2>3 DEF Reads
<1>6. SeenValues(n)' = [ok |-> FALSE, list |-> <<>>]
  BY <1>5 DEF SeenValues
<1>7. ValuesOnly(n)
  BY <1>2 DEF ValuesOnly, NoDelete
<1>8. CASE Len(list) > MaxValues
  <2>1. SeenValues(n) = [ok |-> FALSE, list |-> <<>>]
    BY <1>2, <1>8 DEF SeenValues
  <2> QED BY <1>6, <1>7, <2>1, ValuesSame
<1>9. CASE ~(Len(list) > MaxValues)
  <2>1. SeenValues(n).ok
    <3>1. SeenValues(n) = [ok |-> TRUE, list |-> list]
      BY <1>2, <1>9 DEF SeenValues
    <3> QED BY <3>1
  <2>2. SeenValues(n)' \in {[ok |-> TRUE, list |-> <<>>], [ok |-> FALSE, list |-> <<>>]}
    BY <1>6
  <2> QED BY <1>7, <2>1, <2>2, ValuesLost
<1> QED BY <1>8, <1>9

LEMMA StoreFailsStep ==
  ASSUME Step, StoreRecordFails \/ StoreDataFails
  PROVE  RegStep
<1>1. /\ RecordsInv /\ SoundRecords /\ RecordTypes /\ SoundValues /\ Unset
      /\ pc = "set" /\ pc' = "idle" /\ nk' = nk /\ orphans' = orphans
      /\ RecordTypes'
  BY DEF Step, Viewed, ViewInv, RecordsInv, SoundRecords, StoreRecordFails,
         StoreDataFails, Return, treeVars
<1>2. PICK n \in Nodes : n = target
  BY <1>1, Storing
<1>3. /\ stored \in Nat /\ Len(list) \in Nat /\ stored + 1 \in 1 .. Len(list)
      /\ nk[n].vallist \in DOMAIN vl /\ Len(vl[nk[n].vallist]) = Len(list)
  BY <1>1, <1>2, Storing
<1>4. Zero \notin valid' /\ Zero \notin DOMAIN vk'
  BY <1>1 DEF RecordTypes, Allocated, Zero
<1>5. CASE StoreRecordFails
  <2>1. valid' = valid /\ vl' = vl /\ vk' = vk /\ db' = db
    BY <1>5 DEF StoreRecordFails, valueVars
  <2>2. Nodes' = Nodes
    BY <1>1, <2>1 DEF Nodes
  <2>3. \A m \in Nodes : m # target => ValuesKept(m)
    BY <1>1, <2>1, <2>2 DEF ValuesKept, SameFields, VkGrows
  <2>4. vl[nk[target].vallist][stored + 1] = Zero
    BY <1>1, <1>3 DEF Unset
  <2>5. ~Readable(Zero)'
    BY <1>4 DEF Readable
  <2> QED BY <1>1, <2>1, <2>2, <2>3, <2>4, <2>5, TornStep
<1>6. CASE StoreDataFails
  <2>1. PICK v \in ValueType : v = list[stored + 1]
    BY <1>1, Storing
  <2>2. PICK d \in Nat : d = Zero
    BY DEF Zero
  <2>3. PutValue(v, d) /\ v.len # "inline"
    BY <1>6, <2>1, <2>2 DEF StoreDataFails
  <2>4. PICK b : b = next
    OBVIOUS
  <2>5. /\ vk'[b].data = d /\ vk'[b].inline = (v.len = "inline")
        /\ vl'[nk[n].vallist][stored + 1] = b
    BY <1>1, <1>2, <1>3, <2>3, <2>4, PutValueFacts
  <2>6. ~Readable(b)'
    BY <1>4, <2>2, <2>3, <2>5 DEF Readable
  <2>7. Nodes' = Nodes /\ \A m \in Nodes : m # target => ValuesKept(m)
    BY <1>1, <1>6, StoredKept
  <2> QED BY <1>1, <1>2, <2>5, <2>6, <2>7, TornStep
<1> QED BY <1>5, <1>6

-----------------------------------------------------------------------------
(* Steps that add a key *)

(* The nodes refer to the same values. *)
FieldsKept ==
  \A m \in DOMAIN nk : /\ m \in DOMAIN nk'
                       /\ nk'[m].nr_values = nk[m].nr_values
                       /\ nk'[m].vallist = nk[m].vallist
                       /\ nk'[m].classname = nk[m].classname

LEMMA OthersSeen ==
  ASSUME NEW F, SoundRecords, Lengths, pc # "set", pc' # "set",
         vl' = vl, vk' = vk, db' = db, FieldsKept, Nodes \subseteq Nodes',
         \A b \in valid' : b \in valid \/ b >= next,
         \A b \in valid : b \in valid' \/ b \in F,
         F \cap (DOMAIN vl \cup DOMAIN vk \cup DOMAIN db) = {}
  PROVE  \A m \in Nodes : SeenValues(m)' = SeenValues(m)
<1> SUFFICES ASSUME NEW m \in Nodes
             PROVE  SeenValues(m)' = SeenValues(m)
  OBVIOUS
<1>1. SameFields(m) /\ VkGrows
  BY DEF SameFields, VkGrows, FieldsKept, Nodes
<1>2. Held(m) \subseteq DOMAIN vl \cup DOMAIN vk \cup DOMAIN db
  BY HeldKinds
<1>3. Held(m) \cap (valid \ valid') = {}
  BY <1>2
<1>4. ValuesKept(m)
  BY <1>1, <1>3 DEF ValuesKept
<1> QED BY <1>4, SeenSame

(* A node that is not linked has no key. *)
LEMMA LooseKeys ==
  ASSUME Step, NoDelete, NoDelete', References, References', Nodes' = Nodes \cup {next},
         next \notin Nodes, orphans' = orphans \cup {next}, root' = root,
         \A m \in Nodes : SeenValues(m)' = SeenValues(m)
  PROVE  RegStep
<1>1. Deleting = {} /\ Deleting' = {}
  BY DEF Step, Viewed, ViewInv, NoFrames, NoDelete, Deleting
<1>2. Tied' = Tied
  BY <1>1 DEF Tied
<1>3. ViewInv /\ PathsOk /\ PathsOk' /\ PlacesKept /\ KeysOk /\ KeysOk'
  BY DEF Step, Viewed, Places
<1>4. \A n \in Nodes : Paths'[n] = Paths[n]
  BY <1>2, <1>3, PathsGrow
<1>5. root \in Nodes
  BY DEF References
<1>6. PICK P : P = Paths'
  OBVIOUS
<1>7. P[next] = {}
  <2>1. next \notin Tied' /\ next # root' /\ next \in Nodes'
    BY <1>5 DEF Tied
  <2> QED BY <1>3, <1>6, <2>1 DEF PathsOk, ArePaths
<1>8. SamePaths
  BY <1>4, <1>6, <1>7 DEF SamePaths
<1>9. Keys' = Keys
  BY <1>3, <1>8, KeysSame
<1> QED BY <1>9, Bools, StepSame

LEMMA AddChildFailsStep ==
  ASSUME NEW p, NEW name \in Names, Step, AddChildFails(p, name)
  PROVE  RegStep
<1>1. /\ SoundRecords /\ RecordTypes /\ Lengths /\ p \in DOMAIN nk /\ next \in Nat
      /\ References /\ References'
  <2>1. ViewInv /\ ViewInv'
    BY DEF Step, Viewed
  <2>2. /\ SoundRecords /\ RecordTypes /\ Lengths /\ References /\ References'
    BY <2>1 DEF ViewInv, RecordsInv, SoundRecords, SoundValues
  <2>3. p \in DOMAIN nk
    <3>1. CanAdd(p, name)
      BY DEF AddChildFails
    <3> QED BY <3>1, Zenon DEF CanAdd, IsNode
  <2>4. next \in Nat
    BY <2>2 DEF RecordTypes
  <2> QED BY <2>2, <2>3, <2>4
<1>2. next \notin DOMAIN nk /\ next \notin valid
  BY <1>1 DEF RecordTypes, Allocated
<1>3. PICK r : r = NewNode(p, name, nk[p].sk)
  OBVIOUS
<1>4. /\ nk' = NewRecord(nk, next, r) /\ vl' = vl /\ vk' = vk /\ db' = db
      /\ valid' = valid \cup {next} /\ orphans' = orphans \cup {next}
      /\ pc = "idle" /\ pc' = "idle" /\ root' = root
  BY <1>3 DEF AddChildFails, Return, valueVars
<1>5. DOMAIN nk' = DOMAIN nk \cup {next} /\ \A m \in DOMAIN nk : nk'[m] = nk[m]
  BY <1>2, <1>4 DEF NewRecord
<1>6. Nodes' = Nodes \cup {next} /\ next \notin Nodes
  <2>1. \A n : n \in Nodes' <=> n \in Nodes \/ n = next
    BY <1>2, <1>4, <1>5 DEF Nodes
  <2> QED BY <1>2, <2>1 DEF Nodes
<1>7. FieldsKept
  BY <1>5 DEF FieldsKept
<1>8. \A m \in Nodes : SeenValues(m)' = SeenValues(m)
  <2>1. \A b \in valid' : b \in valid \/ b >= next
    BY <1>1, <1>4
  <2>2. PICK F : F = {}
    OBVIOUS
  <2>3. \A b \in valid : b \in valid' \/ b \in F
    BY <1>4
  <2>4. F \cap (DOMAIN vl \cup DOMAIN vk \cup DOMAIN db) = {}
    BY <2>2
  <2> QED BY <1>1, <1>4, <1>6, <1>7, <2>1, <2>3, <2>4, OthersSeen
<1> QED BY <1>1, <1>4, <1>6, <1>8, LooseKeys DEF NoDelete

LEMMA AddedIs ==
  ASSUME NEW ks, NEW p, NEW name
  PROVE  Reg!Added(ks, p, name) =
           [q \in DOMAIN ks \cup {Append(p, name)} |->
              IF q \in DOMAIN ks THEN ks[q] ELSE [ok |-> TRUE, list |-> <<>>]]
BY DEF Reg!Added, Reg!Readable

Named(name) == name # ""

LEMMA CanAddIs ==
  ASSUME NEW ks, NEW p, NEW name, Named(name), Reg!FindKey(ks, p, name) = {},
         Cardinality(Reg!SubkeysOf(ks, p)) <= MaxSubkeys
  PROVE  Reg!CanAdd(ks, p, name)
<1>1. PICK c : c = Cardinality(Reg!SubkeysOf(ks, p))
  OBVIOUS
<1>2. c = Reg!Cardinality(Reg!SubkeysOf(ks, p)) /\ c <= MaxSubkeys
  BY <1>1 DEF Reg!Cardinality, Cardinality
<1> QED BY <1>2, Zenon DEF Reg!CanAdd, Named

LEMMA CountSubkeys ==
  ASSUME RecordTypes, PathsOk, KeysOk, NEW p \in Nodes, NEW f \in Paths[p],
         IsFiniteSet(Kids(p))
  PROVE  /\ Cardinality(Reg!SubkeysOf(Keys, f)) <= Cardinality(Kids(p))
         /\ Cardinality(Reg!SubkeysOf(Keys, f)) \in Nat
<1>1. PICK S : S = Reg!SubkeysOf(Keys, f)
  OBVIOUS
<1>2. PICK K : K = Kids(p)
  OBVIOUS
<1>3. ASSUME NEW q \in S
      PROVE  \E n \in K : q = Append(f, nk[n].name)
  <2>1. q \in DOMAIN Keys /\ q # <<>> /\ Front(q) = f
    BY <1>1, SubkeysAre
  <2> QED BY <1>2, <2>1, SubkeyOf
<1>4. PICK g : g = [q \in S |-> CHOOSE n \in K : q = Append(f, nk[n].name)]
  OBVIOUS
<1>5. \A q \in S : g[q] \in K /\ q = Append(f, nk[g[q]].name)
  BY <1>3, <1>4
<1>6. g \in [S -> K]
  BY <1>4, <1>5
<1>7. g \in Injection(S, K)
  <2>1. \A a, b \in S : g[a] = g[b] => a = b
    BY <1>5
  <2> QED BY <1>6, <2>1 DEF Injection, IsInjective
<1>8. IsFiniteSet(S) /\ Cardinality(S) <= Cardinality(K)
  BY <1>2, <1>7, FS_Injection
<1> QED BY <1>1, <1>2, <1>8, FS_CardinalityType

LEMMA FoundNone ==
  ASSUME ViewInv, ~partial, pc # "aborted", PathsOk, KeysOk, NEW p \in Nodes,
         NEW f \in Paths[p], NEW name, ~HasChild(p, name),
         nk[p].nr_subkeys = 0 \/ ChildrenOK(p)
  PROVE  Reg!FindKey(Keys, f, name) = {}
<1>1. RecordsInv /\ SoundRecords /\ RecordTypes /\ SoundKeys /\ LinksInv
  BY DEF ViewInv, RecordsInv, SoundRecords
<1> SUFFICES ASSUME NEW q \in DOMAIN Keys, q # <<>>, Front(q) = f,
                    Fold(Last(q)) = Fold(name)
             PROVE  FALSE
  BY FoundKeys
<1>2. PICK n \in Nodes \ {root} : n \in Kids(p) /\ Last(q) = nk[n].name
  BY <1>1, SubkeyOf
<1>3. ChildrenOK(p)
  BY <1>2 DEF Kids
<1>4. ToSet(Children(p)) = Kids(p)
  BY <1>1, OpenNodes, KidsAre
<1> QED BY <1>2, <1>3, <1>4 DEF HasChild

LEMMA AddChildStep ==
  ASSUME NEW p, NEW name \in Names, Step,
         AddFirstChild(p, name) \/ InsertChild(p, name)
  PROVE  RegStep
<1>1. /\ ViewInv /\ ViewInv' /\ PathsOk /\ PathsOk' /\ PlacesKept
      /\ KeysOk /\ KeysOk' /\ ~partial /\ pc # "aborted"
  BY DEF Step, Viewed, Places
<1>2. /\ RecordsInv /\ SoundRecords /\ RecordTypes /\ References /\ References'
      /\ ListsApart /\ Lengths /\ SoundKeys /\ LinksInv
      /\ orphans \subseteq DOMAIN nk
  BY <1>1 DEF ViewInv, RecordsInv, SoundRecords, SoundValues, HistoryInv
<1>3. /\ p \in Nodes /\ pc = "idle"
      /\ \E d \in BOOLEAN : \E F : \E l \in Seq(Nat) : Adds(p, name, d, F, l)
  BY <1>2, AddFirstChildAdds, InsertChildAdds
<1>4. PICK d \in BOOLEAN : \E F : \E l \in Seq(Nat) : Adds(p, name, d, F, l)
  BY <1>3
<1>5. PICK F, l : l \in Seq(Nat) /\ Adds(p, name, d, F, l)
  BY <1>4
<1>6. next \in Nat /\ next \notin DOMAIN nk /\ p \in DOMAIN nk
  <2>1. next \in Nat \ {0} /\ DOMAIN nk \subseteq Allocated
    BY <1>2 DEF RecordTypes
  <2> QED BY <1>3, <2>1 DEF Allocated, Nodes
<1>7. /\ LinkNode(p, name, d) /\ valid' = (valid \ F) \cup {next, next + 1}
      /\ F = {} \/ (Live(p) /\ F \subseteq Listing(p))
  BY <1>5 DEF Adds
<1>8. /\ DOMAIN nk' = DOMAIN nk \cup {next}
      /\ nk'[next] = NewNode(p, name, nk[p].sk)
      /\ \A m \in DOMAIN nk : m # p => nk'[m] = nk[m]
      /\ nk'[p].nr_values = nk[p].nr_values /\ nk'[p].vallist = nk[p].vallist
      /\ nk'[p].classname = nk[p].classname
      /\ root' = root /\ vl' = vl /\ vk' = vk /\ db' = db
      /\ orphans' = orphans /\ pc' = "idle"
  BY <1>2, <1>6, <1>7, LinkNodeFacts
<1>9. nk'[next].name = name /\ nk'[next].parent = p /\ nk'[next].nr_values = 0
  BY <1>2, <1>6, <1>8, NewNodeFacts
<1>10. Nodes' = Nodes \cup {next} /\ next \notin Nodes
  BY <1>1, <1>2, <1>3, <1>5, LinkKids
<1>11. \A m \in Nodes : SeenValues(m)' = SeenValues(m)
  <2>1. FieldsKept
    BY <1>8 DEF FieldsKept
  <2>2. \A b \in valid' : b \in valid \/ b >= next
    BY <1>6, <1>7
  <2>3. F \cap (DOMAIN vl \cup DOMAIN vk \cup DOMAIN db) = {}
    <3>1. Live(p) => Listing(p) \subseteq DOMAIN lf \cup DOMAIN ri
      BY <1>2 DEF SoundKeys, Shaped, Listing, Live
    <3> QED BY <1>2, <1>7, <3>1 DEF ListsApart
  <2>4. \A b \in valid : b \in valid' \/ b \in F
    BY <1>7
  <2> QED BY <1>2, <1>3, <1>8, <1>10, <2>1, <2>2, <2>3, <2>4, OthersSeen
<1>12. Tied' = Tied \cup {next}
  <2>1. Deleting = {} /\ Deleting' = {}
    BY <1>1, <1>3, <1>8 DEF ViewInv, NoFrames, Deleting
  <2> QED BY <1>2, <1>6, <1>8, <1>10, <2>1 DEF Tied
<1>13. \A n \in Nodes : Paths'[n] = Paths[n]
  BY <1>1, <1>10, <1>12, PathsGrow
<1>14. PICK P : P = Paths
  OBVIOUS
<1>15. PICK Q : Q = Paths'
  OBVIOUS
<1>16. Q[next] = {Append(q, name) : q \in P[p]}
  <2>1. next \in Tied' /\ next \in Nodes' /\ next # root'
    BY <1>2, <1>8, <1>10, <1>12 DEF References
  <2>2. ParentOf'[next] = p /\ NameOf'[next] = name
    BY <1>8, <1>9 DEF ParentOf, NameOf
  <2>3. Q[next] = {Append(q, NameOf'[next]) : q \in Q[ParentOf'[next]]}
    BY <1>1, <1>15, <2>1 DEF PathsOk, ArePaths
  <2>4. Q[p] = P[p]
    BY <1>3, <1>13, <1>14, <1>15
  <2> QED BY <2>2, <2>3, <2>4
<1>17. CASE P[p] = {}
  <2>1. SamePaths
    BY <1>10, <1>13, <1>14, <1>15, <1>16, <1>17 DEF SamePaths
  <2>2. Keys' = Keys
    BY <1>1, <1>2, <1>8, <1>11, <2>1, KeysSame
  <2> QED BY <2>2, Bools, StepSame
<1>18. CASE P[p] # {}
  <2>1. PICK f : f \in P[p]
    BY <1>18
  <2>2. P[p] = {f} /\ f \in DOMAIN Keys
    BY <1>1, <1>3, <1>14, <2>1 DEF PathsOk, OnePath, KeysOk
  <2>3. PICK e : e = Append(f, name)
    OBVIOUS
  <2>4. Q[next] = {e}
    BY <1>16, <2>2, <2>3
  <2>5. e \notin DOMAIN Keys
    <3> SUFFICES ASSUME NEW m \in Nodes, e \in P[m]
                 PROVE  FALSE
      BY <1>1, <1>14 DEF KeysOk
    <3>1. e \in Q[m] /\ m \in Nodes' /\ next \in Nodes'
      BY <1>10, <1>13, <1>14, <1>15
    <3>2. m = next
      BY <1>1, <1>15, <2>4, <3>1 DEF PathsOk, OnePath
    <3> QED BY <1>10, <3>2
  <2>6. DOMAIN Keys' = DOMAIN Keys \cup {e}
    <3>1. \A q : q \in DOMAIN Keys' <=> \E m \in Nodes' : q \in Q[m]
      BY <1>1, <1>15 DEF KeysOk
    <3>2. \A q : q \in DOMAIN Keys <=> \E m \in Nodes : q \in P[m]
      BY <1>1, <1>14 DEF KeysOk
    <3>3. \A m \in Nodes : Q[m] = P[m]
      BY <1>13, <1>14, <1>15
    <3> QED BY <1>10, <2>4, <3>1, <3>2, <3>3
  <2>7. ASSUME NEW q \in DOMAIN Keys
        PROVE  Keys'[q] = Keys[q]
    <3>1. PICK m \in Nodes : q \in P[m]
      BY <1>1, <1>14 DEF KeysOk
    <3>2. m \in Nodes' /\ q \in Q[m]
      BY <1>10, <1>13, <1>14, <1>15, <3>1
    <3>3. Keys[q] = SeenValues(m)
      BY <1>1, <1>14, <3>1 DEF KeysOk
    <3>4. Keys'[q] = SeenValues(m)'
      BY <1>1, <1>15, <3>2 DEF KeysOk
    <3> QED BY <1>11, <3>3, <3>4
  <2>8. Keys'[e] = [ok |-> TRUE, list |-> <<>>]
    <3>1. PICK c : c = next
      OBVIOUS
    <3>2. c \in Nodes' /\ nk'[c].nr_values = 0 /\ e \in Q[c]
      BY <1>9, <1>10, <2>4, <3>1
    <3>3. SeenValues(c)' = [ok |-> TRUE, list |-> <<>>]
      BY <1>8, <3>2, NoneSeen
    <3>4. Keys'[e] = SeenValues(c)'
      BY <1>1, <1>15, <3>2 DEF KeysOk
    <3> QED BY <3>3, <3>4
  <2>9. Keys' = Reg!Added(Keys, f, name)
    <3>1. PICK ks : ks = Keys'
      OBVIOUS
    <3>2. ks = [q \in DOMAIN ks |-> ks[q]]
      BY <1>1, <3>1 DEF KeysOk
    <3>3. ks = [q \in DOMAIN Keys \cup {e} |->
                  IF q \in DOMAIN Keys THEN Keys[q] ELSE [ok |-> TRUE, list |-> <<>>]]
      BY <2>6, <2>7, <2>8, <3>1, <3>2
    <3> QED BY <2>3, <3>1, <3>3, AddedIs
  <2>10. Reg!CanAdd(Keys, f, name)
    <3>1. Named(name)
      BY Zenon DEF AddFirstChild, InsertChild, CanAdd, Named
    <3>2. ~HasChild(p, name)
      BY Zenon DEF AddFirstChild, InsertChild, CanAdd
    <3>3. nk[p].nr_subkeys = 0 \/ ChildrenOK(p)
      BY Zenon DEF AddFirstChild, InsertChild
    <3>4. Reg!FindKey(Keys, f, name) = {}
      BY <1>1, <1>3, <1>14, <2>1, <3>2, <3>3, FoundNone
    <3>5. /\ Cardinality(Reg!SubkeysOf(Keys, f)) <= Cardinality(Kids(p))
          /\ Cardinality(Reg!SubkeysOf(Keys, f)) \in Nat
      BY <1>1, <1>2, <1>3, <1>5, <1>14, <2>1, LinkKids, CountSubkeys
    <3>6. PICK k \in Nat : k = nk[p].nr_subkeys
      BY <1>2, <1>6 DEF RecordTypes, NodeType
    <3>7. k = Cardinality(Kids(p)) /\ IsFiniteSet(Kids(p))
      BY <1>1, <1>2, <1>3, <1>5, <3>6, LinkKids
    <3>8. k <= MaxSubkeys
      BY <3>3, <3>6, HiveTreeAssumption DEF ChildrenOK, ListsOK
    <3>9. Cardinality(Reg!SubkeysOf(Keys, f)) <= MaxSubkeys
      <4>1. PICK c \in Nat : c = Cardinality(Reg!SubkeysOf(Keys, f))
        BY <3>5
      <4>2. c <= k
        BY <3>5, <3>7, <4>1
      <4>3. c <= MaxSubkeys
        BY <3>8, <4>2, HiveTreeAssumption
      <4> QED BY <4>1, <4>3
    <3> QED BY <3>1, <3>4, <3>9, CanAddIs
  <2> QED BY <2>2, <2>9, <2>10, Bools, StepAdds
<1> QED BY <1>17, <1>18

-----------------------------------------------------------------------------
(* Steps of hivex_node_delete_child *)

(* The paths below node c go. *)
LEMMA PathsBelow ==
  ASSUME Step, Nodes' = Nodes, nk' = nk, root' = root, NEW c \in Nodes \ {root},
         Tied' = Tied \ {c}, NEW t \in Paths[c]
  PROVE  \A n \in Nodes : Paths'[n] = {q \in Paths[n] : ~IsPrefix(t, q)}
<1>1. /\ ViewInv /\ PathsOk /\ PathsOk' /\ RecordTypes
  BY DEF Step, Viewed, ViewInv, RecordsInv, SoundRecords
<1>2. PICK D : D = Nodes
  OBVIOUS
<1>3. PICK rank \in [D -> Nat] : \A n \in D \ {root} :
        nk[n].parent \in D => rank[nk[n].parent] < rank[n]
  <2>1. D \subseteq Nodes
    BY <1>2
  <2>2. Ranked(D)
    BY <1>1, <2>1, RankOn
  <2> QED BY <2>2 DEF Ranked
<1>4. PICK W : W = Tied
  OBVIOUS
<1>5. PICK V : V = Tied'
  OBVIOUS
<1>6. PICK par : par = ParentOf
  OBVIOUS
<1>7. PICK names : names = NameOf
  OBVIOUS
<1>8. PICK nm : nm = [n \in D |-> names[n]]
  OBVIOUS
<1>9. PICK P : P = Paths
  OBVIOUS
<1>10. PICK Q : Q = Paths'
  OBVIOUS
<1>11. PICK r : r = root
  OBVIOUS
<1>12. ParentOf' = par /\ NameOf' = names
  BY <1>6, <1>7 DEF ParentOf, NameOf
<1>13. Same(D, names, nm)
  BY <1>8 DEF Same
<1>14. nm \in [D -> Text]
  <2>1. \A n \in D : names[n] \in Text
    BY <1>1, <1>2, <1>7 DEF NameOf, Nodes, RecordTypes, NodeType, Text
  <2> QED BY <1>8, <2>1
<1>15. ArePaths(P, D, r, W, par, names) /\ ArePaths(Q, D, r, V, par, names)
  BY <1>1, <1>2, <1>4, <1>5, <1>6, <1>7, <1>9, <1>10, <1>11, <1>12 DEF PathsOk
<1>16. ArePaths(P, D, r, W, par, nm) /\ ArePaths(Q, D, r, V, par, nm)
  BY <1>13, <1>15, ArePathsSame
<1>17. Rooted(D, rank, r, W, par)
  BY <1>1, <1>2, <1>3, <1>4, <1>6, <1>11 DEF Rooted, ParentOf, PathsOk, Nodes
<1>18. OnePath(P, D, Text)
  BY <1>1, <1>2, <1>9 DEF PathsOk
<1>19. c \in D \ {r} /\ t \in P[c] /\ Cut(D, r, W, V, c)
  BY <1>2, <1>4, <1>5, <1>9, <1>11 DEF Cut
<1>20. Pruned(D, P, Q, t)
  BY <1>3, <1>14, <1>16, <1>17, <1>18, <1>19, PathsWithout
<1> QED BY <1>2, <1>9, <1>10, <1>20 DEF Pruned

(* The node that is deleted is visited: its key goes with all below. *)
LEMMA VisitFirstStep ==
  ASSUME Step, VisitNode, Len(frames) = 1
  PROVE  RegStep
<1>1. /\ RecordsInv /\ StackInv /\ LinksInv /\ ~partial /\ pc = "delete"
      /\ CallInv /\ ViewInv /\ PathsOk /\ PathsOk' /\ PlacesKept /\ KeysOk /\ KeysOk'
      /\ References /\ References'
  <2>1. ViewInv /\ ViewInv' /\ ~partial /\ PathsOk /\ PathsOk' /\ PlacesKept
        /\ KeysOk /\ KeysOk' /\ pc = "delete"
    BY DEF Step, Viewed, Places, VisitNode
  <2> QED BY <2>1 DEF ViewInv, RecordsInv, SoundRecords
<1>2. /\ root' = root /\ valid' = valid /\ nk' = nk /\ vl' = vl /\ vk' = vk
      /\ db' = db /\ orphans' = orphans /\ pc' = "delete" /\ target' = target
      /\ Top.rest # <<>>
  BY DEF VisitNode, treeVars, valueVars, historyVars
<1>3. Nodes' = Nodes
  BY <1>2 DEF Nodes
<1>4. PICK t : t = Top
  OBVIOUS
<1>5. PICK c : c = Head(t.rest)
  OBVIOUS
<1>6. /\ t = frames[1] /\ t.rest \in Seq(Nat) /\ c \in Nodes
      /\ Len(frames') = 2
  BY <1>1, <1>4, <1>5, VisitPushes
<1>7. t.rest = <<target>>
  <2>1. Visiting
    BY <1>1, LinksAre
  <2> QED BY <1>1, <1>2, <1>4, <1>6, <2>1 DEF Visiting
<1>8. c = target /\ c # root
  <2>1. t \in FrameType
    BY <1>1, <1>6 DEF CallInv
  <2>2. t.rest \in Seq(Nat \ {root})
    BY <2>1 DEF FrameType
  <2> QED BY <1>5, <1>7, <2>2
<1>9. Deleting = {} /\ Deleting' = {c}
  <2>1. Deleting = {}
    BY <1>2 DEF Deleting
  <2>2. frames' # <<>> /\ Len(frames') > 1
    <3>1. PICK fs : fs = frames'
      OBVIOUS
    <3>2. Len(fs) = 2
      BY <1>6, <3>1
    <3>3. fs # <<>>
      BY <3>2
    <3> QED BY <3>1, <3>2, <3>3
  <2> QED BY <1>2, <1>8, <2>1, <2>2 DEF Deleting
<1>10. Tied' = Tied \ {c}
  BY <1>2, <1>3, <1>9 DEF Tied
<1>11. \A n : SeenValues(n)' = SeenValues(n)
  BY <1>1, <1>2, ReadSame
<1>12. CASE Paths[c] = {}
  <2>1. \A n \in Nodes : Paths'[n] = Paths[n]
    BY <1>1, <1>3, <1>10, <1>12, PathsGrow
  <2>2. SamePaths
    BY <1>3, <2>1 DEF SamePaths
  <2>3. Keys' = Keys
    BY <1>1, <1>2, <1>11, <2>2, KeysSame
  <2> QED BY <2>3, Bools, StepSame
<1>13. CASE Paths[c] # {}
  <2>1. PICK P : P = Paths
    OBVIOUS
  <2>2. PICK Q : Q = Paths'
    OBVIOUS
  <2>3. PICK f : f \in P[c]
    BY <1>13, <2>1
  <2>4. \A n \in Nodes : Q[n] = {q \in P[n] : ~IsPrefix(f, q)}
    BY <1>2, <1>3, <1>6, <1>8, <1>10, <2>1, <2>2, <2>3, PathsBelow
  <2>5. f \in DOMAIN Keys
    BY <1>1, <1>6, <2>1, <2>3 DEF KeysOk
  <2>6. f # <<>>
    <3>1. root \in Nodes /\ P[root] = {<<>>}
      BY <1>1, <2>1 DEF References, PathsOk, ArePaths
    <3> QED BY <1>1, <1>6, <1>8, <2>1, <2>3, <3>1 DEF PathsOk, OnePath
  <2>7. \A q : q \in DOMAIN Keys <=> \E n \in Nodes : q \in P[n]
    BY <1>1, <2>1 DEF KeysOk
  <2>8. \A q : q \in DOMAIN Keys' <=> \E n \in Nodes : q \in Q[n]
    BY <1>1, <1>3, <2>2 DEF KeysOk
  <2>9. DOMAIN Keys' = {q \in DOMAIN Keys : ~IsPrefix(f, q)}
    <3>1. \A n \in Nodes : \A q : q \in Q[n] <=> q \in P[n] /\ ~IsPrefix(f, q)
      BY <2>4
    <3>2. \A q : q \in DOMAIN Keys' <=> q \in DOMAIN Keys /\ ~IsPrefix(f, q)
      BY <2>7, <2>8, <3>1
    <3> QED BY <3>2
  <2>10. ASSUME NEW q \in DOMAIN Keys'
         PROVE  Keys'[q] = Keys[q]
    <3>1. PICK n \in Nodes : q \in Q[n]
      BY <2>8
    <3>2. q \in P[n]
      BY <2>4, <3>1
    <3>3. Keys'[q] = SeenValues(n)'
      BY <1>1, <1>3, <2>2, <3>1 DEF KeysOk
    <3>4. Keys[q] = SeenValues(n)
      BY <1>1, <2>1, <3>2 DEF KeysOk
    <3> QED BY <1>11, <3>3, <3>4
  <2>11. PICK ks : ks = Keys'
    OBVIOUS
  <2>12. ks = [q \in DOMAIN ks |-> ks[q]]
    BY <1>1, <2>11 DEF KeysOk
  <2>13. ks = [q \in {k \in DOMAIN Keys : ~IsPrefix(f, k)} |-> Keys[q]]
    BY <2>9, <2>10, <2>11, <2>12
  <2>14. Keys' = Reg!Deleted(Keys, f)
    BY <2>11, <2>13, DeletedAre
  <2> QED BY <2>5, <2>6, <2>14, Bools, StepDeletes
<1> QED BY <1>12, <1>13

LEMMA NotEmpty ==
  ASSUME NEW s, NEW k \in Nat, Len(s) = k, k > 0
  PROVE  s # <<>>
<1> SUFFICES ASSUME s = <<>> PROVE FALSE
  OBVIOUS
<1>1. Len(s) = 0
  OBVIOUS
<1> QED BY <1>1

(* Nodes below it are visited. *)
LEMMA VisitDeepStep ==
  ASSUME Step, VisitNode, Len(frames) > 1
  PROVE  RegStep
<1>1. /\ root' = root /\ valid' = valid /\ nk' = nk /\ lf' = lf /\ ri' = ri
      /\ vl' = vl /\ vk' = vk /\ db' = db /\ pc = "delete" /\ pc' = "delete"
      /\ target' = target
  BY DEF VisitNode, treeVars, valueVars
<1>2. RecordsInv /\ StackInv
  BY DEF Step, Viewed, ViewInv
<1>3. PICK t : t = Top
  OBVIOUS
<1>4. PICK c : c = Head(t.rest)
  OBVIOUS
<1>5. PICK k \in Nat : k = Len(frames)
  BY <1>1, <1>2 DEF StackInv, IsFrames
<1>6. Len(frames') = k + 1
  BY <1>2, <1>3, <1>4, <1>5, VisitPushes
<1>7. frames # <<>> /\ frames' # <<>>
  <2>1. k + 1 \in Nat /\ k + 1 > 0 /\ k > 0
    BY <1>5
  <2> QED BY <1>5, <1>6, <2>1, NotEmpty
<1>8. Len(frames') > 1
  BY <1>5, <1>6
<1>9. Deleting = {target} /\ Deleting' = {target}
  BY <1>1, <1>7, <1>8 DEF Deleting
<1>10. Keys' = Keys
  BY <1>1, <1>9, KeysUnchanged
<1> QED BY <1>10, Bools, StepSame

LEMMA NoPath ==
  ASSUME PathsOk, NEW n \in Nodes, n # root,
         n \notin Tied \/ Paths[nk[n].parent] = {}
  PROVE  Paths[n] = {}
<1>1. PICK P : P = Paths
  OBVIOUS
<1>2. P[n] = IF n = root THEN {<<>>}
             ELSE IF n \in Tied THEN {Append(f, NameOf[n]) : f \in P[ParentOf[n]]}
             ELSE {}
  BY <1>1 DEF PathsOk, ArePaths
<1>3. ParentOf[n] = nk[n].parent
  BY DEF ParentOf, Nodes
<1> QED BY <1>1, <1>2, <1>3

(* While a node is being deleted it has no path, and neither has what is   *)
(* visited below it.                                                       *)
LEMMA StackLoose ==
  ASSUME ViewInv, PathsOk, ~partial, pc = "delete", Len(frames) > 1,
         NEW i \in 1 .. (Len(frames) - 1)
  PROVE  Paths[frames[i].node] = {}
<1>1. /\ CallInv /\ StackInv /\ LinksInv
  BY DEF ViewInv, RecordsInv
<1>2. PICK k \in Nat : k = Len(frames) /\ k > 1
  BY <1>1 DEF StackInv, IsFrames
<1>3. frames # <<>>
  BY <1>2, NotEmpty
<1>4. Deleting = {target}
  BY <1>3 DEF Deleting
<1>5. PICK P : P = Paths
  OBVIOUS
<1>6. Visiting
  BY <1>1, LinksAre
<1>7. PICK D : D = 1 .. (k - 1)
  OBVIOUS
<1>8. \A j \in D : frames[j].node \in Nodes \ {root} /\ frames[j].node \in DOMAIN nk
  BY <1>1, <1>2, <1>7 DEF CallInv, Nodes
<1>9. PICK S : S = {j \in D : P[frames[j].node] = {}}
  OBVIOUS
<1>10. PICK rank \in [D -> Nat] : \A j \in D : rank[j] = k - j
  <2>1. PICK g : g = [j \in D |-> k - j]
    OBVIOUS
  <2>2. g \in [D -> Nat] /\ \A j \in D : g[j] = k - j
    BY <1>2, <1>7, <2>1
  <2> QED BY <2>2
<1>11. ASSUME NEW j \in D, \A m \in D : rank[m] < rank[j] => m \in S
       PROVE  j \in S
  <2>1. PICK n \in Nodes \ {root} : n = frames[j].node /\ n \in DOMAIN nk
    BY <1>8
  <2>2. CASE j = k - 1
    <3>1. n = target
      BY <1>2, <1>6, <2>1, <2>2 DEF Visiting
    <3>2. n \notin Tied
      BY <1>4, <3>1 DEF Tied
    <3>3. P[n] = {}
      BY <1>5, <2>1, <3>2, NoPath
    <3> QED BY <1>9, <2>1, <3>3
  <2>3. CASE j # k - 1
    <3>1. j \in 1 .. (k - 1) /\ j + 1 \in D /\ rank[j + 1] < rank[j]
      BY <1>2, <1>7, <1>10, <2>3
    <3>2. P[frames[j + 1].node] = {}
      BY <1>9, <1>11, <3>1
    <3>3. nk[n].parent = frames[j + 1].node
      BY <1>2, <1>6, <2>1, <3>1 DEF Visiting
    <3>4. P[n] = {}
      BY <1>5, <2>1, <3>2, <3>3, NoPath
    <3> QED BY <1>9, <2>1, <3>4
  <2> QED BY <2>2, <2>3
<1>12. D \subseteq S
  BY <1>10, <1>11, RankInduction
<1> QED BY <1>2, <1>5, <1>7, <1>9, <1>12

LEMMA DeleteNodeKept ==
  ASSUME NEW n \in Nodes, RecordsInv, SoundValues, n = Top.node, DeleteNode
  PROVE  Nodes' = Nodes \ {n} /\ \A m \in Nodes' : ValuesKept(m)
<1>1. /\ n \in DOMAIN nk /\ SoundRecords /\ RecordTypes /\ References
      /\ Lengths /\ ListsOK(n) /\ ValuesOK(n)
  BY DEF Nodes, RecordsInv, SoundRecords, SoundValues, DeleteNode
<1>2. Nodes' = Nodes \ {n}
  BY <1>1, DeleteNodeFrees
<1>3. /\ nk' = Emptied(n) /\ vl' = vl /\ vk' = vk /\ db' = db
  BY DEF DeleteNode, Emptied, valueVars
<1>4. DOMAIN nk' = DOMAIN nk /\ \A m \in DOMAIN nk : m # n => nk'[m] = nk[m]
  BY <1>1, <1>3, EmptiedFacts
<1>5. PICK F : F = valid \ valid'
  OBVIOUS
<1>6. F \subseteq ToSet(NodeBlocks(n)) \cup {nk[n].sk} /\ F \subseteq valid
      /\ valid' \subseteq valid
  BY <1>5 DEF DeleteNode
<1>7. nk[n].sk \in DOMAIN sk
  BY <1>1 DEF SoundRecords, SkInv, HasSk
<1>8. F \subseteq Held(n) \cup {Zero} \cup DOMAIN lf \cup DOMAIN ri \cup
                  DOMAIN nk \cup DOMAIN sk
  <2>1. ToSet(NodeBlocks(n)) \subseteq
           ToSet(Blocks(n)) \cup ToSet(ValueBlocks(n)) \cup {n} \cup {nk[n].classname}
    BY <1>1, NodeBlocksType
  <2>2. ToSet(Blocks(n)) \subseteq DOMAIN lf \cup DOMAIN ri
    BY <1>1, BlocksType
  <2>3. ToSet(ValueBlocks(n)) \subseteq Held(n) \cup {Zero}
    BY <1>1, ValueBlocksHeld
  <2>4. nk[n].classname \in Held(n) \cup {None, Zero}
    BY DEF Held
  <2>5. None \notin valid
    BY <1>1 DEF RecordTypes, Allocated, None
  <2> QED BY <1>1, <1>6, <1>7, <2>1, <2>2, <2>3, <2>4, <2>5
<1>9. \A m \in Nodes : m # n => Held(m) \cap (valid \ valid') = {}
  BY <1>1, <1>5, <1>8, FreedKept
<1>10. ASSUME NEW m \in Nodes'
       PROVE  ValuesKept(m)
  <2>1. m \in Nodes /\ m # n /\ SameFields(m) /\ VkGrows
    BY <1>2, <1>3, <1>4 DEF SameFields, VkGrows, Nodes
  <2> QED BY <1>3, <1>6, <1>9, <2>1 DEF ValuesKept
<1> QED BY <1>2, <1>10

(* A node is deleted that has no key any more. *)
LEMMA DeleteNodeStep ==
  ASSUME Step, DeleteNode
  PROVE  RegStep
<1>1. /\ ViewInv /\ ViewInv' /\ ~partial /\ PathsOk /\ PathsOk' /\ PlacesKept
      /\ KeysOk /\ KeysOk'
  BY DEF Step, Viewed, Places
<1>2. /\ RecordsInv /\ StackInv /\ LinksInv /\ SoundRecords /\ SoundValues /\ Lengths
      /\ References /\ References'
  BY <1>1 DEF ViewInv, RecordsInv, SoundRecords, SoundValues
<1>3. /\ root' = root /\ orphans' = orphans /\ pc = "delete" /\ pc' = "delete"
      /\ target' = target
  BY DEF DeleteNode, AtNodeEnd, historyVars
<1>4. PICK n \in Nodes : n = Top.node
  BY <1>2, Ending DEF DeleteNode
<1>5. Nodes' = Nodes \ {n} /\ \A m \in Nodes' : ValuesKept(m)
  BY <1>2, <1>4, DeleteNodeKept
<1>6. PICK k \in Nat : k = Len(frames) /\ k > 1
  BY <1>2, DeletePops
<1>7. /\ Len(frames') = k - 1 /\ \A i \in 1 .. (k - 1) : frames'[i] = frames[i + 1]
      /\ Top = frames[1]
  BY <1>2, <1>6, DeletePops
<1>8. Deleting = {target} /\ Deleting' = {target}
  <2>1. frames # <<>> /\ frames' # <<>>
    <3>1. k - 1 \in Nat /\ k - 1 > 0 /\ k > 0
      BY <1>6
    <3> QED BY <1>6, <1>7, <3>1, NotEmpty
  <2>2. Deleting = {target}
    BY <1>6, <2>1 DEF Deleting
  <2>3. Len(frames') > 1 \/ Top'.rest = <<>>
    <3>1. CASE k > 2
      BY <1>6, <1>7, <3>1
    <3>2. CASE ~(k > 2)
      <4>1. frames[2].rest = <<>> /\ frames'[1] = frames[2]
        <5>1. k = 2
          BY <1>6, <3>2
        <5>2. Visiting
          BY <1>1, <1>2, <1>3, LinksAre
        <5> QED BY <1>3, <1>6, <1>7, <5>1, <5>2 DEF Visiting
      <4>2. Top' = frames'[1]
        BY DEF Top
      <4> QED BY <4>1, <4>2
    <3> QED BY <3>1, <3>2
  <2> QED BY <1>3, <2>1, <2>2, <2>3 DEF Deleting
<1>9. Tied' = Tied \ {n}
  BY <1>3, <1>5, <1>8 DEF Tied
<1>10. \A m \in Nodes' : Paths'[m] = Paths[m]
  BY <1>1, <1>5, <1>9, PathsShrink
<1>11. Paths[n] = {}
  <2>1. 1 \in 1 .. (Len(frames) - 1) /\ frames[1].node = n /\ Len(frames) > 1
    BY <1>4, <1>6, <1>7
  <2> QED BY <1>1, <1>3, <2>1, StackLoose
<1>12. SamePaths
  BY <1>5, <1>10, <1>11 DEF SamePaths
<1>13. \A m \in Nodes \cap Nodes' : SeenValues(m)' = SeenValues(m)
  BY <1>2, <1>3, <1>5, SeenSame
<1>14. Keys' = Keys
  BY <1>1, <1>2, <1>3, <1>12, <1>13, KeysSame
<1> QED BY <1>14, Bools, StepSame

(* The link to a node that has been deleted goes. *)
LEMMA UnlinkStep ==
  ASSUME Step, Unlink
  PROVE  RegStep
<1>1. /\ ViewInv /\ ViewInv' /\ ~partial /\ PathsOk /\ PathsOk' /\ PlacesKept
      /\ KeysOk /\ KeysOk'
  BY DEF Step, Viewed, Places
<1>2. /\ RecordsInv /\ LinksInv /\ SoundRecords /\ RecordTypes /\ Lengths
      /\ References /\ References'
  BY <1>1 DEF ViewInv, RecordsInv, SoundRecords, SoundValues
<1>3. /\ root' = root /\ valid' = valid /\ orphans' = orphans /\ pc = "delete"
      /\ vl' = vl /\ vk' = vk /\ db' = db /\ pc' = "idle" /\ frames' = <<>>
      /\ Top.rest = <<>> /\ Len(frames) = 1
  BY DEF Unlink, Return, valueVars, historyVars
<1>4. PICK p : p = Top.node
  OBVIOUS
<1>5. /\ DOMAIN nk' = DOMAIN nk
      /\ \A m \in DOMAIN nk : m # p => nk'[m] = nk[m]
      /\ nk'[p].nr_values = nk[p].nr_values /\ nk'[p].vallist = nk[p].vallist
      /\ nk'[p].classname = nk[p].classname
  BY <1>2, <1>4, UnlinkFacts
<1>6. Nodes' = Nodes /\ FieldsKept
  BY <1>3, <1>5 DEF Nodes, FieldsKept
<1>7. \A m \in Nodes : SeenValues(m)' = SeenValues(m)
  <2>1. PICK F : F = valid \ valid'
    OBVIOUS
  <2>2. F \cap (DOMAIN vl \cup DOMAIN vk \cup DOMAIN db) = {}
    BY <1>3, <2>1
  <2> QED BY <1>2, <1>3, <1>6, <2>2, OthersSeen
<1>8. target \notin Nodes
  <2>1. Visiting
    BY <1>1, <1>2, <1>3, LinksAre
  <2>2. Top = frames[1] /\ <<target>> # <<>>
    BY DEF Top
  <2> QED BY <1>3, <2>1, <2>2 DEF Visiting, Nodes
<1>9. Deleting \subseteq {target} /\ Deleting' = {}
  BY <1>3 DEF Deleting
<1>10. Tied' = Tied
  BY <1>3, <1>6, <1>8, <1>9 DEF Tied
<1>11. \A n \in Nodes : Paths'[n] = Paths[n]
  BY <1>1, <1>6, <1>10, PathsGrow
<1>12. SamePaths
  BY <1>6, <1>11 DEF SamePaths
<1>13. Keys' = Keys
  BY <1>1, <1>2, <1>3, <1>7, <1>12, KeysSame
<1> QED BY <1>13, Bools, StepSame

-----------------------------------------------------------------------------
(* Every step *)

(* A delete_child that has failed stays so, and only a failed assertion    *)
(* ends the program.                                                       *)
Goes ==
  /\ pc # "aborted" /\ (partial => partial')
  /\ pc' = "aborted" => Abort /\ pc # "set"

LEMMA NextGoes == Next => Goes
<1> SUFFICES ASSUME Next PROVE Goes
  OBVIOUS
<1>1. pc = "idle" /\ Refuse => Goes
  BY DEF Refuse, Return, historyVars, Goes
<1>2. pc # "aborted" /\ pc # "set" /\ Abort => Goes
  BY DEF Abort, historyVars, Goes
<1>3. CASE OutOfMemory
  BY <1>1, <1>3 DEF OutOfMemory
<1>4. ASSUME NEW n \in handles, NEW name \in Names,
             \/ AddChildRefused(n, name) \/ AddChildNoSk(n, name)
             \/ AddChildFails(n, name) \/ AddFirstChild(n, name)
             \/ InsertChild(n, name)
      PROVE  Goes
  <2>1. CASE AddChildRefused(n, name)
    BY <1>1, <2>1 DEF AddChildRefused
  <2>2. CASE AddChildNoSk(n, name)
    BY <2>2 DEF AddChildNoSk, Return, Goes
  <2>3. CASE AddChildFails(n, name)
    BY <2>3 DEF AddChildFails, Return, Goes
  <2>4. CASE AddFirstChild(n, name)
    BY <2>4 DEF AddFirstChild, LinkNode, Return, Goes
  <2>5. CASE InsertChild(n, name)
    BY <2>5 DEF InsertChild, LinkNode, Return, Goes
  <2> QED BY <1>4, <2>1, <2>2, <2>3, <2>4, <2>5
<1>5. ASSUME NEW n \in handles, DeleteRefused(n) \/ SetValueRefused(n)
      PROVE  Goes
  BY <1>1, <1>5 DEF DeleteRefused, SetValueRefused
<1>6. ASSUME NEW n \in handles, DeleteBegin(n)
      PROVE  Goes
  BY <1>6 DEF DeleteBegin, historyVars, Goes
<1>7. ASSUME NEW n, NEW vs, SetValues(n, vs)
      PROVE  Goes
  <2>1. CASE SetValuesRefused(n)
    BY <1>1, <2>1 DEF SetValuesRefused
  <2>2. CASE SetValuesAborts(n)
    BY <1>2, <2>2 DEF SetValuesAborts
  <2>3. CASE ClearValues(n, vs)
    BY <2>3 DEF ClearValues, Return, historyVars, Goes
  <2>4. CASE SetValuesBegin(n, vs)
    BY <2>4 DEF SetValuesBegin, historyVars, Goes
  <2> QED BY <1>7, <2>1, <2>2, <2>3, <2>4 DEF SetValues
<1>8. ASSUME NEW n \in handles, NEW v \in Values, SetValue(n, v)
      PROVE  Goes
  BY <1>7, <1>8 DEF SetValue
<1>9. CASE VisitNode
  BY <1>9 DEF VisitNode, historyVars, Goes
<1>10. CASE DeleteNode
  BY <1>10 DEF DeleteNode, AtNodeEnd, historyVars, Goes
<1>11. CASE DeleteNodeNoValues \/ DeleteNodeNoSk
  BY <1>11 DEF DeleteNodeNoValues, DeleteNodeNoSk, AtNodeEnd, Return, Goes
<1>12. CASE DeleteNodeAborts
  BY <1>2, <1>12 DEF DeleteNodeAborts, AtNodeEnd
<1>13. CASE Unlink
  BY <1>13 DEF Unlink, Return, historyVars, Goes
<1>14. CASE DeleteFails
  <2>1. pc = "delete" /\ pc' = "idle"
    BY <1>14 DEF DeleteFails, Return
  <2>2. partial' = (partial \/ Len(frames) > 1 \/ Top.rest = <<>>)
    BY <1>14 DEF DeleteFails
  <2>3. partial => partial'
    BY <2>2, Zenon
  <2> QED BY <2>1, <2>3 DEF Goes
<1>15. CASE StoreValue
  BY <1>15 DEF StoreValue, Return, historyVars, Goes
<1>16. CASE StoreRecordFails \/ StoreDataFails
  BY <1>16 DEF StoreRecordFails, StoreDataFails, Return, Goes
<1> QED
  BY <1>3, <1>4, <1>5, <1>6, <1>7, <1>8, <1>9, <1>10, <1>11, <1>12, <1>13,
     <1>14, <1>15, <1>16
  DEF Next

LEMMA StepIs ==
  ViewInv /\ ViewInv' /\ [Next]_vars /\ ~partial /\ ~partial' /\ pc # "aborted"
    /\ pc' # "aborted" => Step
<1>1. ViewInv => (~partial /\ pc # "aborted" => Viewed)
  BY ViewedIs
<1>2. ViewInv' => ViewOk'
  BY ViewIs, PTL
<1>3. ViewInv => RecordsInv
  BY DEF ViewInv
<1> QED BY <1>1, <1>2, <1>3, NextPlaces DEF Step, Viewed, ViewOk

LEMMA NextStep == ViewInv /\ ViewInv' /\ [Next]_vars => RegStep
<1> SUFFICES ASSUME ViewInv, ViewInv', [Next]_vars, ~partial'
             PROVE  RegStep
  BY StepBreaks
<1>1. RecordsInv /\ NoFrames
  BY DEF ViewInv
<1>2. CASE UNCHANGED vars
  BY <1>2, SameStep
<1>3. CASE Next
  <2>1. pc # "aborted" /\ ~partial /\ (pc' = "aborted" => Abort /\ pc # "set")
    BY <1>3, NextGoes DEF Goes
  <2>2. CASE pc' = "aborted"
    BY <2>1, <2>2, AbortStep
  <2>3. CASE pc' # "aborted"
    <3>1. Step
      BY <2>1, <2>3, StepIs
    <3>2. pc = "idle" /\ Refuse => RegStep
      BY <1>1, RefuseStep
    <3>3. Abort => RegStep
      BY <2>3 DEF Abort
    <3>4. CASE OutOfMemory
      BY <3>2, <3>4 DEF OutOfMemory
    <3>5. ASSUME NEW n \in handles, NEW name \in Names,
                 \/ AddChildRefused(n, name) \/ AddChildNoSk(n, name)
                 \/ AddChildFails(n, name) \/ AddFirstChild(n, name)
                 \/ InsertChild(n, name)
          PROVE  RegStep
      <4>1. CASE AddChildRefused(n, name)
        BY <3>2, <4>1 DEF AddChildRefused
      <4> QED BY <1>1, <3>1, <3>5, <4>1, NoSkNever, AddChildFailsStep, AddChildStep
    <3>6. ASSUME NEW n \in handles, DeleteRefused(n) \/ SetValueRefused(n)
          PROVE  RegStep
      BY <3>2, <3>6 DEF DeleteRefused, SetValueRefused
    <3>7. ASSUME NEW n \in handles, DeleteBegin(n)
          PROVE  RegStep
      BY <1>1, <3>7, DeleteBeginStep
    <3>8. ASSUME NEW n \in handles, NEW vs \in ValueLists, SetValues(n, vs)
          PROVE  RegStep
      <4>1. vs \in Seq(ValueType)
        BY HiveTreeAssumption
      <4> QED BY <3>1, <3>8, <4>1, SetValuesStep
    <3>9. ASSUME NEW n \in handles, NEW v \in Values, SetValue(n, v)
          PROVE  RegStep
      <4>1. PICK vs : vs = Replaced(n, v)
        OBVIOUS
      <4>2. vs \in Seq(ValueType) /\ SetValues(n, vs)
        BY <1>1, <3>9, <4>1, ReplacedType, HiveTreeAssumption DEF SetValue, RecordsInv
      <4> QED BY <3>1, <4>1, <4>2, SetValuesStep
    <3>10. CASE VisitNode
      <4>1. PICK k \in Nat : k = Len(frames) /\ k > 0
        BY <3>10 DEF ViewInv, StackInv, IsFrames, VisitNode
      <4>2. k = 1 \/ k > 1
        BY <4>1
      <4> QED BY <3>1, <3>10, <4>1, <4>2, VisitFirstStep, VisitDeepStep
    <3>11. CASE DeleteNodeNoValues
      BY <3>11 DEF DeleteNodeNoValues
    <3>12. CASE DeleteNodeNoSk
      BY <1>1, <3>12, DeleteNoSkNever
    <3>13. CASE DeleteNode \/ Unlink
      BY <3>1, <3>13, DeleteNodeStep, UnlinkStep
    <3>14. CASE DeleteNodeAborts
      BY <3>3, <3>14 DEF DeleteNodeAborts
    <3>15. CASE DeleteFails
      BY <1>1, <3>15, DeleteFailsStep
    <3>16. CASE StoreValue \/ StoreRecordFails \/ StoreDataFails
      BY <3>1, <3>16, StoreValueStep, StoreFailsStep
    <3> QED
      BY <1>3, <3>4, <3>5, <3>6, <3>7, <3>8, <3>9, <3>10, <3>11, <3>12, <3>13,
         <3>14, <3>15, <3>16
      DEF Next
  <2> QED BY <2>2, <2>3
<1> QED BY <1>2, <1>3

(* Through lists that are split and replaced, values that are stored one   *)
(* by one and calls that fail half way, an application that follows the    *)
(* offsets from the root sees what Registry says: a key appears or goes    *)
(* with all that is below it in one step, no other key changes, and no two *)
(* siblings have names that differ only in case; for every hive that is    *)
(* sound when it is opened.                                                *)
THEOREM RegistryCorrect ==
  Spec /\ SoundRecords /\ SoundValues /\ SoundKeys /\ LinksAgree /\ Grounded
    => ImplementsRegistry
<1>1. Init /\ SoundRecords /\ SoundValues /\ SoundKeys /\ LinksAgree /\ Grounded
        => ViewInv
  BY InitView
<1>2. ViewInv /\ [Next]_vars => ViewInv'
  BY NextView
<1>3. Init /\ ViewInv => Reg!Init
  BY InitRegistry
<1>4. ViewInv /\ ViewInv' /\ [Next]_vars => [Reg!Next]_(Reg!vars)
  BY NextStep DEF RegStep
<1> QED BY <1>1, <1>2, <1>3, <1>4, PTL DEF Spec, ImplementsRegistry, Reg!Spec
=============================================================================
