-------------------------- MODULE HiveShellProofs --------------------------
(***************************************************************************)
(* Proofs about HiveShell, for any files, any paths and sessions of any    *)
(* length: the shell always has a current node, which the prompt shows;    *)
(* cd goes where the path says; setval is all or nothing; and a script     *)
(* that has failed writes no file.                                         *)
(***************************************************************************)
EXTENDS HiveShell, ListLemmas

-----------------------------------------------------------------------------
(* The inductive invariant *)

(* The files hold paths, and a registry where they are sound. *)
DisksOk ==
  /\ disk = [f \in Files |-> [valid |-> disk[f].valid, sound |-> disk[f].sound,
                              keys |-> disk[f].keys]]
  /\ \A f \in Files :
       /\ DOMAIN disk[f].keys \subseteq Seq(Text)
       /\ disk[f].sound => R!IsRegistry(disk[f].keys)

(* The program runs. *)
Runs == mode \in {"loop", "key", "value"}

(* What the prompt shows of a name. *)
NameShown == Text \cup {Missing}

(* The hive that is loaded has a current node, which is one of its keys    *)
(* unless the hive is damaged.                                             *)
HiveOk ==
  loaded # "" =>
    /\ DOMAIN keys \subseteq Seq(Text) /\ cwd \subseteq Seq(Text)
    /\ ~broken => R!IsRegistry(keys) /\ cwd \subseteq DOMAIN keys
    /\ Runs => (\E p \in cwd : cwd = {p}) /\ prompt.path \in Seq(NameShown)

ShellInv ==
  /\ DisksOk /\ HiveOk /\ PromptTrue
  /\ mode = "aborted" => broken
  /\ ~is_tty /\ failed => mode = "failure"

-----------------------------------------------------------------------------
(* Paths and registries *)

(* A path and the one it is below. *)
LEMMA FrontFacts ==
  ASSUME NEW q \in Seq(Text), q # <<>>
  PROVE  /\ Front(q) \in Seq(Text) /\ Len(q) \in Nat \ {0}
         /\ Len(Front(q)) = Len(q) - 1
         /\ \A i \in 1 .. (Len(q) - 1) : Front(q)[i] = q[i]
         /\ Last(q) = q[Len(q)]
<1>1. Len(q) \in Nat \ {0}
  OBVIOUS
<1>2. Front(q) = [i \in 1 .. (Len(q) - 1) |-> q[i]]
  BY <1>1 DEF Front
<1> QED BY <1>1, <1>2 DEF Last

LEMMA AppendFacts ==
  ASSUME NEW p \in Seq(Text), NEW e \in Text
  PROVE  /\ Append(p, e) \in Seq(Text) /\ Append(p, e) # <<>>
         /\ Front(Append(p, e)) = p /\ Last(Append(p, e)) = e
<1>0. Append(p, e) \in Seq(Text)
  OBVIOUS
<1>1. PICK q \in Seq(Text) : q = Append(p, e)
  BY <1>0
<1>2. Len(q) = Len(p) + 1 /\ q # <<>> /\ q[Len(q)] = e
  BY <1>1
<1>3. \A i \in 1 .. Len(p) : q[i] = p[i]
  BY <1>1
<1>4. Front(q) \in Seq(Text) /\ Len(Front(q)) = Len(p)
      /\ \A i \in 1 .. Len(p) : Front(q)[i] = p[i]
  BY <1>2, <1>3, FrontFacts
<1>5. Front(q) = p
  BY <1>4
<1> QED BY <1>1, <1>2, <1>5, FrontFacts

(* What Registry says of paths, in the operators of this module. *)
LEMMA FindKeyIs ==
  ASSUME NEW ks, NEW p, NEW name
  PROVE  R!FindKey(ks, p, name) =
           {q \in DOMAIN ks : /\ q # <<>> /\ Front(q) = p
                              /\ Fold(Last(q)) = Fold(name)}
BY DEF R!FindKey, R!SubkeysOf, R!Front, R!Last, Front, Last

LEMMA IsRegistryIs ==
  ASSUME NEW ks
  PROVE  R!IsRegistry(ks) <=>
           /\ <<>> \in DOMAIN ks
           /\ \A q \in DOMAIN ks \ {<<>>} :
                Front(q) \in DOMAIN ks /\ R!FindKey(ks, Front(q), Last(q)) = {q}
BY DEF R!IsRegistry, R!Front, R!Last, Front, Last

LEMMA DeletedIs ==
  ASSUME NEW ks, NEW p
  PROVE  DOMAIN R!Deleted(ks, p) = {q \in DOMAIN ks : ~IsPrefix(p, q)}
BY DEF R!Deleted, R!IsPrefix, IsPrefix

(* Being a registry is a matter of the paths alone. *)
LEMMA RegistryKeys ==
  ASSUME NEW ks, NEW js, DOMAIN js = DOMAIN ks, R!IsRegistry(ks)
  PROVE  R!IsRegistry(js)
<1>1. \A p, name : R!FindKey(js, p, name) = R!FindKey(ks, p, name)
  BY FindKeyIs
<1> QED BY <1>1, IsRegistryIs

(* Every key below p but p itself has a parent that is below p as well, so *)
(* deleting p with all that is below it leaves a registry.                 *)
LEMMA RegistryDeleted ==
  ASSUME NEW ks, DOMAIN ks \subseteq Seq(Text), R!IsRegistry(ks),
         NEW p \in DOMAIN ks, p # <<>>
  PROVE  /\ DOMAIN R!Deleted(ks, p) \subseteq DOMAIN ks
         /\ R!IsRegistry(R!Deleted(ks, p))
         /\ Front(p) \in DOMAIN R!Deleted(ks, p)
<1>1. PICK js : js = R!Deleted(ks, p)
  OBVIOUS
<1>2. DOMAIN js = {q \in DOMAIN ks : ~IsPrefix(p, q)}
  BY <1>1, DeletedIs
<1>3. ~IsPrefix(p, <<>>)
  BY DEF IsPrefix
<1>4. p \in Seq(Text) /\ Front(p) \in DOMAIN ks /\ Len(Front(p)) = Len(p) - 1
  BY FrontFacts, IsRegistryIs
<1>5. ~IsPrefix(p, Front(p))
  BY <1>4 DEF IsPrefix
<1>6. ASSUME NEW q \in DOMAIN js, q # <<>>
      PROVE  /\ Front(q) \in DOMAIN js
             /\ R!FindKey(js, Front(q), Last(q)) = {q}
  <2>1. q \in Seq(Text) /\ q \in DOMAIN ks /\ ~IsPrefix(p, q)
    BY <1>2
  <2>2. Front(q) \in DOMAIN ks /\ R!FindKey(ks, Front(q), Last(q)) = {q}
    BY <1>6, <2>1, IsRegistryIs
  <2>3. ~IsPrefix(p, Front(q))
    <3>1. SUFFICES ASSUME IsPrefix(p, Front(q)) PROVE IsPrefix(p, q)
      BY <2>1
    <3>2. /\ Len(Front(q)) = Len(q) - 1 /\ Len(p) \in Nat /\ Len(q) \in Nat
          /\ \A i \in 1 .. (Len(q) - 1) : Front(q)[i] = q[i]
      BY <1>4, <1>6, <2>1, FrontFacts
    <3>3. Len(p) <= Len(q) - 1 /\ SubSeq(p, 1, Len(p)) = SubSeq(Front(q), 1, Len(p))
      BY <3>1, <3>2 DEF IsPrefix
    <3>4. SubSeq(Front(q), 1, Len(p)) = SubSeq(q, 1, Len(p))
      BY <1>6, <2>1, <3>2, <3>3, FrontFacts
    <3> QED BY <3>2, <3>3, <3>4 DEF IsPrefix
  <2>4. Front(q) \in DOMAIN js
    BY <1>2, <2>2, <2>3
  <2>5. R!FindKey(js, Front(q), Last(q)) \subseteq R!FindKey(ks, Front(q), Last(q))
    BY <1>2, FindKeyIs
  <2>6. q \in R!FindKey(js, Front(q), Last(q))
    BY <1>6, FindKeyIs
  <2> QED BY <2>2, <2>4, <2>5, <2>6
<1>7. <<>> \in DOMAIN js
  BY <1>2, <1>3, IsRegistryIs
<1>8. R!IsRegistry(js)
  BY <1>6, <1>7, IsRegistryIs
<1> QED BY <1>1, <1>2, <1>4, <1>5, <1>8

(* A key is added under a name that no other subkey has. *)
LEMMA RegistryAdded ==
  ASSUME NEW ks, DOMAIN ks \subseteq Seq(Text),
         NEW p \in DOMAIN ks, NEW name \in Text, R!CanAdd(ks, p, name)
  PROVE  /\ DOMAIN R!Added(ks, p, name) \subseteq Seq(Text)
         /\ DOMAIN ks \subseteq DOMAIN R!Added(ks, p, name)
         /\ R!IsRegistry(ks) => R!IsRegistry(R!Added(ks, p, name))
<1>1. PICK js : js = R!Added(ks, p, name)
  OBVIOUS
<1>2. PICK new \in Seq(Text) : new = Append(p, name)
  <2>1. p \in Seq(Text)
    OBVIOUS
  <2> QED BY <2>1, AppendFacts
<1>3. DOMAIN js = DOMAIN ks \cup {new}
  BY <1>1, <1>2 DEF R!Added
<1>4. new # <<>> /\ Front(new) = p /\ Last(new) = name
  BY <1>2, AppendFacts
<1>5. \A q \in DOMAIN ks : q # <<>> /\ Front(q) = p => Fold(Last(q)) # Fold(name)
  BY FindKeyIs DEF R!CanAdd
<1>6. ASSUME R!IsRegistry(ks)
      PROVE  R!IsRegistry(js)
  <2>1. ASSUME NEW q \in DOMAIN js \ {<<>>}
        PROVE  Front(q) \in DOMAIN js /\ R!FindKey(js, Front(q), Last(q)) = {q}
    <3>1. \A k : k \in R!FindKey(js, Front(q), Last(q)) <=>
                   /\ k \in DOMAIN js /\ k # <<>> /\ Front(k) = Front(q)
                   /\ Fold(Last(k)) = Fold(Last(q))
      BY FindKeyIs
    <3>2. CASE q = new
      BY <1>3, <1>4, <1>5, <3>1, <3>2
    <3>3. CASE q # new
      <4>1. q \in DOMAIN ks /\ Front(q) \in DOMAIN ks
            /\ R!FindKey(ks, Front(q), Last(q)) = {q}
        BY <1>3, <1>6, <2>1, <3>3, IsRegistryIs
      <4>2. \A k \in DOMAIN ks : k # <<>> /\ Front(k) = Front(q)
              /\ Fold(Last(k)) = Fold(Last(q)) => k = q
        BY <4>1, FindKeyIs
      <4>3. ~(Front(new) = Front(q) /\ Fold(Last(new)) = Fold(Last(q)))
        BY <1>4, <1>5, <2>1, <4>1
      <4> QED BY <1>3, <2>1, <3>1, <4>1, <4>2, <4>3
    <3> QED BY <3>2, <3>3
  <2> QED BY <1>3, <1>6, <2>1, IsRegistryIs
<1> QED BY <1>1, <1>3, <1>6

-----------------------------------------------------------------------------
(* cmd_cd *)

(* Where the loop of cmd_cd can be: at an error, at a key of the hive, or, *)
(* in a damaged hive, at a node that is not there.                         *)
Places ==
  {to \in [node : SUBSET Seq(Text), error : BOOLEAN] :
     /\ to.error \/ (\E p : to.node = {p}) \/ (broken /\ to.node = {})
     /\ broken \/ to.node \subseteq DOMAIN keys}

LEMMA ParentsPlaces ==
  ASSUME NEW node \in SUBSET Seq(Text), node # {<<>>}, NEW n \in Parents(node),
         (\E p : node = {p}) \/ (broken /\ node = {}),
         DOMAIN keys \subseteq Seq(Text),
         ~broken => R!IsRegistry(keys) /\ node \subseteq DOMAIN keys
  PROVE  /\ n \in SUBSET Seq(Text)
         /\ (\E p : n = {p}) \/ (broken /\ n = {})
         /\ ~broken => n \subseteq DOMAIN keys
<1>1. \/ \E p \in node : p # <<>> /\ n = {Front(p)}
      \/ n = {} /\ (broken \/ node \subseteq {<<>>})
      \/ broken /\ \E q \in DOMAIN keys : n = {q}
  BY DEF Parents
<1>2. CASE \E p \in node : p # <<>> /\ n = {Front(p)}
  <2>1. PICK p \in node : p # <<>> /\ n = {Front(p)}
    BY <1>2
  <2>2. Front(p) \in Seq(Text)
    BY <2>1, FrontFacts
  <2>3. ~broken => Front(p) \in DOMAIN keys
    BY <2>1, IsRegistryIs
  <2> QED BY <2>1, <2>2, <2>3
<1>3. CASE n = {} /\ (broken \/ node \subseteq {<<>>})
  BY <1>3
<1>4. CASE broken /\ \E q \in DOMAIN keys : n = {q}
  BY <1>4
<1> QED BY <1>1, <1>2, <1>3, <1>4

(* A hive is loaded. *)
HasHive == HiveOk /\ loaded # "" /\ Runs

LEMMA CdElemPlaces ==
  ASSUME HasHive, NEW to \in Places, NEW e \in Text
  PROVE  CdElem(to, e) \subseteq Places
<1>1. /\ to \in [node : SUBSET Seq(Text), error : BOOLEAN]
      /\ to.error \/ (\E p : to.node = {p}) \/ (broken /\ to.node = {})
      /\ broken \/ to.node \subseteq DOMAIN keys
  BY DEF Places
<1>2. DOMAIN keys \subseteq Seq(Text) /\ (~broken => R!IsRegistry(keys))
  BY DEF HasHive, HiveOk
<1> SUFFICES ASSUME NEW x \in CdElem(to, e) PROVE x \in Places
  OBVIOUS
<1>3. CASE x = to
  BY <1>3
<1>4. CASE ~to.error /\ to.node # {<<>>}
           /\ \E n \in Parents(to.node) : x = [to EXCEPT !.node = n]
  <2>1. PICK n \in Parents(to.node) : x = [to EXCEPT !.node = n]
    BY <1>4
  <2>2. PICK node \in SUBSET Seq(Text) : node = to.node
    BY <1>1
  <2>3. /\ n \in SUBSET Seq(Text) /\ ((\E p : n = {p}) \/ (broken /\ n = {}))
        /\ ~broken => n \subseteq DOMAIN keys
    BY <1>1, <1>2, <1>4, <2>1, <2>2, ParentsPlaces
  <2>4. x = [node |-> n, error |-> to.error]
    BY <1>1, <2>1
  <2> QED BY <1>1, <2>3, <2>4 DEF Places
<1>5. CASE x \in ChildOf(to.node, e)
  <2>1. CASE \E q \in UNION {R!FindKey(keys, p, e) : p \in to.node} :
               x = [node |-> {q}, error |-> FALSE]
    <3>1. PICK q \in DOMAIN keys : x = [node |-> {q}, error |-> FALSE]
      BY <2>1, FindKeyIs
    <3> QED BY <1>2, <3>1 DEF Places
  <2>2. CASE x = [node |-> {}, error |-> TRUE]
    BY <2>2 DEF Places
  <2> QED BY <1>5, <2>1, <2>2 DEF ChildOf
<1> QED BY <1>3, <1>4, <1>5 DEF CdElem

(* The loop over the elements, as a function from how many have been read. *)
CdAt(f, path) ==
  f = [i \in 0 .. Len(path.elems) |->
         IF i = 0 THEN {[node |-> IF path.abs THEN {<<>>} ELSE cwd, error |-> FALSE]}
         ELSE UNION {CdElem(to, path.elems[i]) : to \in f[i - 1]}]

LEMMA CdPathIs ==
  ASSUME NEW path
  PROVE  CdPath(path) = (CHOOSE f : CdAt(f, path))[Len(path.elems)]
BY DEF CdPath, CdAt

LEMMA CdStart ==
  ASSUME HasHive, NEW path
  PROVE  {[node |-> IF path.abs THEN {<<>>} ELSE cwd, error |-> FALSE]}
           \in SUBSET Places
<1>1. /\ cwd \in SUBSET Seq(Text) /\ \E p : cwd = {p}
      /\ broken \/ (cwd \subseteq DOMAIN keys /\ <<>> \in DOMAIN keys)
  BY IsRegistryIs DEF HasHive, HiveOk
<1>2. {<<>>} \in SUBSET Seq(Text)
  <2>1. <<>> \in Seq(Text)
    OBVIOUS
  <2> QED BY <2>1
<1>3. PICK b : b = IF path.abs THEN {<<>>} ELSE cwd
  OBVIOUS
<1>4. /\ b \in SUBSET Seq(Text) /\ \E p : b = {p}
      /\ broken \/ b \subseteq DOMAIN keys
  BY <1>1, <1>2, <1>3
<1>5. [node |-> b, error |-> FALSE] \in Places
  BY <1>4 DEF Places
<1> QED BY <1>3, <1>5

LEMMA CdAtExists ==
  ASSUME HasHive, NEW path,
         NEW es \in Seq(Text), path.elems = es
  PROVE  \E f \in [0 .. Len(path.elems) -> SUBSET Places] : CdAt(f, path)
<1>1. PICK n \in Nat : n = Len(es)
  OBVIOUS
<1>2. PICK A : A = SUBSET Places
  OBVIOUS
<1>3. PICK B : B = {[node |-> IF path.abs THEN {<<>>} ELSE cwd, error |-> FALSE]}
  OBVIOUS
<1>4. B \in A
  BY <1>2, <1>3, CdStart
<1>5. PICK G : G = [i \in 1 .. n |-> [rs \in A |->
                      UNION {CdElem(to, path.elems[i]) : to \in rs}]]
  OBVIOUS
<1>6. G \in [1 .. n -> [A -> A]]
  <2>1. ASSUME NEW i \in 1 .. n, NEW rs \in A
        PROVE  UNION {CdElem(to, path.elems[i]) : to \in rs} \in A
    <3>1. path.elems[i] \in Text
      BY <1>1
    <3>2. PICK e \in Text : e = path.elems[i]
      BY <3>1
    <3>3. \A to \in rs : CdElem(to, e) \subseteq Places
      BY <1>2, CdElemPlaces
    <3> QED BY <1>2, <3>2, <3>3
  <2> QED BY <1>5, <2>1
<1>7. PICK f \in [0 .. n -> A] : Stages(f, B, G, n)
  BY <1>4, <1>6, StagesExist
<1>8. \A i \in 0 .. n :
        f[i] = IF i = 0 THEN B ELSE UNION {CdElem(to, path.elems[i]) : to \in f[i - 1]}
  <2>1. \A i \in 0 .. n : f[i] = IF i = 0 THEN B ELSE G[i][f[i - 1]]
    BY <1>7 DEF Stages
  <2>2. \A i \in 1 .. n : f[i - 1] \in A
    BY <1>1, <1>7
  <2>3. \A i \in 1 .. n :
          G[i][f[i - 1]] = UNION {CdElem(to, path.elems[i]) : to \in f[i - 1]}
    BY <1>5, <2>2
  <2>4. \A i \in 0 .. n : i # 0 => i \in 1 .. n
    BY <1>1
  <2> QED BY <2>1, <2>3, <2>4
<1>9. f = [i \in 0 .. n |-> f[i]]
  BY <1>7
<1>10. CdAt(f, path)
  BY <1>1, <1>3, <1>8, <1>9 DEF CdAt
<1> QED BY <1>1, <1>2, <1>7, <1>10

(* The keys that the path names, element by element. *)
LexStep(p, e) ==
  IF e \in {"", "."} \/ (e = ".." /\ p = <<>>) THEN p
  ELSE IF e = ".." THEN Front(p) ELSE Append(p, e)

LexAt(f, start, path) ==
  f = [i \in 0 .. Len(path.elems) |->
         IF i = 0 THEN (IF path.abs THEN <<>> ELSE start)
         ELSE LexStep(f[i - 1], path.elems[i])]

LEMMA LexicalIs ==
  ASSUME NEW start, NEW path
  PROVE  Lexical(start, path)
           = (CHOOSE f : LexAt(f, start, path))[Len(path.elems)]
BY DEF Lexical, LexAt, LexStep

LEMMA LexStepType ==
  ASSUME NEW p \in Seq(Text), NEW e \in Text
  PROVE  LexStep(p, e) \in Seq(Text)
<1>1. Append(p, e) \in Seq(Text)
  BY AppendFacts
<1>2. p # <<>> => Front(p) \in Seq(Text)
  BY FrontFacts
<1> QED BY <1>1, <1>2 DEF LexStep

LEMMA LexAtExists ==
  ASSUME NEW start \in Seq(Text), NEW path, NEW es \in Seq(Text), path.elems = es
  PROVE  \E f \in [0 .. Len(es) -> Seq(Text)] : LexAt(f, start, path)
<1>1. PICK n \in Nat : n = Len(es)
  OBVIOUS
<1>2. PICK A : A = Seq(Text)
  OBVIOUS
<1>3. PICK B : B = IF path.abs THEN <<>> ELSE start
  OBVIOUS
<1>4. B \in A
  <2>1. <<>> \in Seq(Text)
    OBVIOUS
  <2> QED BY <1>2, <1>3, <2>1
<1>5. PICK G : G = [i \in 1 .. n |-> [p \in A |-> LexStep(p, es[i])]]
  OBVIOUS
<1>6. G \in [1 .. n -> [A -> A]]
  <2>1. \A i \in 1 .. n : es[i] \in Text
    BY <1>1
  <2>2. \A i \in 1 .. n : \A p \in A : LexStep(p, es[i]) \in A
    BY <1>2, <2>1, LexStepType
  <2> QED BY <1>5, <2>2
<1>7. PICK f \in [0 .. n -> A] : Stages(f, B, G, n)
  BY <1>4, <1>6, StagesExist
<1>8. \A i \in 0 .. n : f[i] = IF i = 0 THEN B ELSE LexStep(f[i - 1], es[i])
  <2>1. \A i \in 0 .. n : f[i] = IF i = 0 THEN B ELSE G[i][f[i - 1]]
    BY <1>7 DEF Stages
  <2>2. \A i \in 1 .. n : f[i - 1] \in A
    BY <1>1, <1>7
  <2>3. \A i \in 1 .. n : G[i][f[i - 1]] = LexStep(f[i - 1], es[i])
    BY <1>5, <2>2
  <2>4. \A i \in 0 .. n : i # 0 => i \in 1 .. n
    BY <1>1
  <2> QED BY <2>1, <2>3, <2>4
<1>9. f = [i \in 0 .. n |-> f[i]]
  BY <1>7
<1>10. LexAt(f, start, path)
  BY <1>1, <1>3, <1>8, <1>9 DEF LexAt
<1> QED BY <1>1, <1>2, <1>7, <1>10

(* A key that differs from a path in case only. *)
LEMMA SameStep ==
  ASSUME NEW p \in Seq(Text), NEW q \in Seq(Text), SamePath(p, q), NEW e \in Text
  PROVE  /\ p = <<>> <=> q = <<>>
         /\ p # <<>> => SamePath(Front(p), Front(q))
         /\ \A k \in Seq(Text) :
              k # <<>> /\ Front(k) = p /\ Fold(Last(k)) = Fold(e)
                => SamePath(k, Append(q, e))
<1>1. Len(p) = Len(q) /\ \A i \in 1 .. Len(p) : Fold(p[i]) = Fold(q[i])
  BY DEF SamePath
<1>2. p = <<>> <=> q = <<>>
  BY <1>1
<1>3. ASSUME p # <<>>
      PROVE  SamePath(Front(p), Front(q))
  <2>1. /\ Front(p) \in Seq(Text) /\ Len(Front(p)) = Len(p) - 1
        /\ \A i \in 1 .. (Len(p) - 1) : Front(p)[i] = p[i]
    BY <1>3, FrontFacts
  <2>2. /\ Front(q) \in Seq(Text) /\ Len(Front(q)) = Len(q) - 1
        /\ \A i \in 1 .. (Len(q) - 1) : Front(q)[i] = q[i]
    BY <1>2, <1>3, FrontFacts
  <2>3. DOMAIN Front(p) = 1 .. (Len(p) - 1) /\ Len(p) \in Nat
    BY <2>1
  <2>4. \A i \in 1 .. (Len(p) - 1) : i \in 1 .. Len(p)
    BY <2>3
  <2>5. \A i \in 1 .. (Len(p) - 1) : Fold(Front(p)[i]) = Fold(Front(q)[i])
    BY <1>1, <2>1, <2>2, <2>4
  <2> QED BY <1>1, <2>1, <2>2, <2>3, <2>5 DEF SamePath
<1>4. ASSUME NEW k \in Seq(Text), k # <<>>, Front(k) = p, Fold(Last(k)) = Fold(e)
      PROVE  SamePath(k, Append(q, e))
  <2>1. /\ Len(k) \in Nat /\ Len(p) = Len(k) - 1 /\ Last(k) = k[Len(k)]
        /\ \A i \in 1 .. (Len(k) - 1) : p[i] = k[i]
    BY <1>4, FrontFacts
  <2>2. PICK a \in Seq(Text) : a = Append(q, e)
    BY AppendFacts
  <2>3. /\ Len(a) = Len(q) + 1 /\ a[Len(a)] = e
        /\ \A i \in 1 .. Len(q) : a[i] = q[i]
    BY <2>2
  <2>4. Len(a) = Len(k) /\ DOMAIN k = 1 .. Len(k)
    <3>1. DOMAIN k = 1 .. Len(k)
      BY <1>4
    <3>2. Len(p) = Len(q) /\ Len(q) \in Nat
      BY <1>1
    <3>3. PICK m \in Nat : m = Len(k)
      BY <2>1
    <3>4. PICK h \in Nat : h = Len(q)
      BY <3>2
    <3>5. h = m - 1 /\ Len(a) = h + 1
      BY <2>1, <2>3, <3>2, <3>3, <3>4
    <3>6. h + 1 = m
      BY <3>3, <3>4, <3>5
    <3> QED BY <3>1, <3>3, <3>5, <3>6
  <2>5. ASSUME NEW i \in 1 .. Len(k)
        PROVE  Fold(k[i]) = Fold(a[i])
    <3>1. CASE i = Len(k)
      BY <1>4, <2>1, <2>3, <2>4, <3>1
    <3>2. CASE i # Len(k)
      <4>1. i \in 1 .. (Len(k) - 1) /\ i \in 1 .. Len(p) /\ i \in 1 .. Len(q)
        BY <1>1, <2>1, <3>2
      <4>2. Fold(p[i]) = Fold(q[i]) /\ p[i] = k[i] /\ a[i] = q[i]
        BY <1>1, <2>1, <2>3, <4>1
      <4> QED BY <4>2
    <3> QED BY <3>1, <3>2
  <2> QED BY <2>2, <2>4, <2>5 DEF SamePath
<1> QED BY <1>2, <1>3, <1>4

(* What the loop is at is the key that the elements so far name. *)
Follows(to, q) ==
  ~broken /\ ~to.error => \E p : to.node = {p} /\ SamePath(p, q)

LEMMA CdElemFollows ==
  ASSUME HasHive, NEW to \in Places, NEW e \in Text, NEW q \in Seq(Text),
         Follows(to, q), NEW x \in CdElem(to, e)
  PROVE  Follows(x, LexStep(q, e))
<1> SUFFICES ASSUME ~broken, ~x.error
             PROVE  \E p : x.node = {p} /\ SamePath(p, LexStep(q, e))
  BY DEF Follows
<1>1. /\ to \in [node : SUBSET Seq(Text), error : BOOLEAN]
      /\ ~to.error => \E p : to.node = {p}
  BY DEF Places
<1>2. DOMAIN keys \subseteq Seq(Text)
  BY DEF HasHive, HiveOk
<1>3. CASE to.error
  <2>1. x = to
    BY <1>3 DEF CdElem
  <2> QED BY <1>3, <2>1
<1>4. CASE ~to.error
  <2>1. PICK p : to.node = {p} /\ SamePath(p, q)
    BY <1>4 DEF Follows
  <2>2. p \in Seq(Text)
    BY <1>1, <2>1
  <2>3. p = <<>> <=> q = <<>>
    BY <2>1, <2>2, SameStep
  <2>4. CASE e \in {"", "."} \/ (e = ".." /\ p = <<>>)
    <3>1. x = to
      BY <1>4, <2>1, <2>4 DEF CdElem
    <3>2. LexStep(q, e) = q
      BY <2>3, <2>4 DEF LexStep
    <3> QED BY <2>1, <3>1, <3>2
  <2>5. CASE e = ".." /\ p # <<>>
    <3>1. PICK n \in Parents(to.node) : x = [to EXCEPT !.node = n]
      BY <1>4, <2>1, <2>5 DEF CdElem
    <3>2. n = {Front(p)}
      BY <2>1, <2>5, <3>1 DEF Parents
    <3>3. x.node = n
      BY <1>1, <3>1
    <3>4. LexStep(q, e) = Front(q)
      BY <2>3, <2>5 DEF LexStep
    <3>5. SamePath(Front(p), Front(q))
      BY <2>1, <2>2, <2>5, SameStep
    <3> QED BY <3>2, <3>3, <3>4, <3>5
  <2>6. CASE e \notin {"", ".", ".."}
    <3>1. x \in ChildOf(to.node, e)
      BY <1>4, <2>6 DEF CdElem
    <3>2. PICK k \in R!FindKey(keys, p, e) : x = [node |-> {k}, error |-> FALSE]
      BY <2>1, <3>1 DEF ChildOf
    <3>3. /\ k \in Seq(Text) /\ k # <<>> /\ Front(k) = p
          /\ Fold(Last(k)) = Fold(e)
      BY <1>2, <3>2, FindKeyIs
    <3>4. SamePath(k, Append(q, e))
      BY <2>1, <2>2, <3>3, SameStep
    <3>5. LexStep(q, e) = Append(q, e)
      BY <2>6 DEF LexStep
    <3> QED BY <3>2, <3>4, <3>5
  <2> QED BY <2>4, <2>5, <2>6
<1> QED BY <1>3, <1>4

(* cmd_cd as a whole. *)
LEMMA CdPathGoes ==
  ASSUME HasHive, NEW path, NEW es \in Seq(Text), path.elems = es,
         NEW start, cwd = {start}
  PROVE  \A to \in CdPath(path) :
           to \in Places /\ Follows(to, Lexical(start, path))
<1>1. PICK n \in Nat : n = Len(es)
  OBVIOUS
<1>2. start \in Seq(Text)
  BY DEF HasHive, HiveOk
<1>3. PICK g : g = CHOOSE f : CdAt(f, path)
  OBVIOUS
<1>4. PICK l : l = CHOOSE f : LexAt(f, start, path)
  OBVIOUS
<1>5. CdAt(g, path)
  BY <1>3, CdAtExists
<1>6. LexAt(l, start, path)
  BY <1>2, <1>4, LexAtExists
<1>7. CdPath(path) = g[n] /\ Lexical(start, path) = l[n]
  BY <1>1, <1>3, <1>4, CdPathIs, LexicalIs
<1>8. \A i \in 0 .. n :
        g[i] = IF i = 0 THEN {[node |-> IF path.abs THEN {<<>>} ELSE cwd, error |-> FALSE]}
               ELSE UNION {CdElem(to, es[i]) : to \in g[i - 1]}
  BY <1>1, <1>5 DEF CdAt
<1>9. \A i \in 0 .. n : l[i] = IF i = 0 THEN (IF path.abs THEN <<>> ELSE start)
                               ELSE LexStep(l[i - 1], es[i])
  BY <1>1, <1>6 DEF LexAt
<1> DEFINE Q(i) == /\ l[i] \in Seq(Text) /\ g[i] \subseteq Places
                   /\ \A to \in g[i] : Follows(to, l[i])
           P == {i \in Nat : i <= n => Q(i)}
<1>10. Q(0)
  <2>1. 0 \in 0 .. n
    BY <1>1
  <2>2. PICK b : b = IF path.abs THEN <<>> ELSE start
    OBVIOUS
  <2>3. l[0] = b /\ b \in Seq(Text)
    <3>1. <<>> \in Seq(Text)
      OBVIOUS
    <3> QED BY <1>2, <1>9, <2>1, <2>2, <3>1
  <2>4. g[0] = {[node |-> {b}, error |-> FALSE]} /\ g[0] \subseteq Places
    <3>1. PICK c : c = IF path.abs THEN {<<>>} ELSE cwd
      OBVIOUS
    <3>2. {b} = c
      BY <2>2, <3>1
    <3>3. g[0] = {[node |-> c, error |-> FALSE]}
      BY <1>8, <2>1, <3>1
    <3>4. {[node |-> c, error |-> FALSE]} \subseteq Places
      BY <3>1, CdStart
    <3> QED BY <3>2, <3>3, <3>4
  <2>5. SamePath(b, b)
    BY <2>3 DEF SamePath
  <2> QED BY <2>3, <2>4, <2>5 DEF Follows
<1>11. ASSUME NEW i \in 0 .. (n - 1), Q(i)
       PROVE  Q(i + 1)
  <2>1. i + 1 \in 0 .. n /\ i + 1 # 0 /\ (i + 1) - 1 = i /\ i + 1 \in 1 .. Len(es)
    BY <1>1
  <2>2. PICK e \in Text : e = es[i + 1]
    BY <2>1
  <2>3. /\ g[i + 1] = UNION {CdElem(to, e) : to \in g[i]}
        /\ l[i + 1] = LexStep(l[i], e)
    BY <1>8, <1>9, <2>1, <2>2
  <2>4. PICK q \in Seq(Text) : q = l[i]
    BY <1>11
  <2>5. \A to \in g[i] : to \in Places /\ Follows(to, q)
    BY <1>11, <2>4
  <2>6. \A x \in g[i + 1] : x \in Places /\ Follows(x, LexStep(q, e))
    <3>1. SUFFICES ASSUME NEW x \in g[i + 1]
                   PROVE  x \in Places /\ Follows(x, LexStep(q, e))
      OBVIOUS
    <3>2. PICK to \in g[i] : x \in CdElem(to, e)
      BY <2>3, <3>1
    <3> QED BY <2>5, <3>2, CdElemPlaces, CdElemFollows
  <2>7. LexStep(q, e) \in Seq(Text)
    BY LexStepType
  <2> QED BY <2>3, <2>4, <2>6, <2>7
<1>12. Q(n)
  <2>1. 0 \in P
    BY <1>10
  <2>2. \A i \in 0 .. (n - 1) : i \in P => i + 1 \in P
    <3>1. SUFFICES ASSUME NEW i \in 0 .. (n - 1), i \in P PROVE i + 1 \in P
      OBVIOUS
    <3>2. i + 1 \in Nat /\ i <= n
      BY <1>1
    <3>3. Q(i)
      BY <3>1, <3>2
    <3>4. Q(i + 1)
      BY <1>11, <3>3
    <3> HIDE DEF Q
    <3> QED BY <3>2, <3>4
  <2> HIDE DEF P
  <2>3. \A i \in 0 .. n : i \in P
    BY <1>1, <2>1, <2>2, Induction
  <2>4. n \in P /\ n <= n
    BY <1>1, <2>3
  <2> QED BY <2>4 DEF P
<1> QED BY <1>7, <1>12

-----------------------------------------------------------------------------
(* The invariant is inductive *)

LEMMA InitShell == Init => ShellInv
<1> SUFFICES ASSUME Init PROVE ShellInv
  OBVIOUS
<1>1. /\ disk \in Disks /\ loaded = "" /\ prompt = NoPrompt /\ mode = "loop"
      /\ failed = FALSE
  BY DEF Init
<1>2. DisksOk
  BY <1>1, ShellAssumption DEF DisksOk
<1> QED BY <1>1, <1>2 DEF ShellInv, HiveOk, PromptTrue

(* What a prompt shows of a path, as PathShown of the one there is. *)
ShownAs(damaged, path, p) ==
  IF damaged
    THEN path = <<>> \/ (p # <<>> /\ Last(path) \in {Last(p), Missing})
    ELSE Len(path) = Len(p) /\ \A i \in DOMAIN p : path[i] \in {p[i], Missing}

LEMMA PathShownIs ==
  ASSUME NEW p
  PROVE  /\ PathShown(p) <=> ShownAs(broken, prompt.path, p)
         /\ PathShown(p)' <=> ShownAs(broken', prompt'.path, p)
BY DEF PathShown, ShownAs

LEMMA NamedFacts ==
  ASSUME NEW p \in Seq(Text), NEW s \in Named(p)
  PROVE  /\ s \in Seq(NameShown) /\ Len(s) = Len(p)
         /\ \A i \in DOMAIN p : s[i] \in {p[i], Missing}
<1>1. PICK n \in Nat : n = Len(p) /\ DOMAIN p = 1 .. n
  OBVIOUS
<1>2. DOMAIN s = 1 .. n /\ \A i \in 1 .. n : s[i] \in {p[i], Missing}
  BY <1>1 DEF Named
<1>3. s = [i \in 1 .. n |-> s[i]]
  BY <1>1 DEF Named
<1>4. \A i \in 1 .. n : s[i] \in NameShown
  BY <1>1, <1>2 DEF NameShown
<1> QED BY <1>1, <1>2, <1>3, <1>4

(* The walk to the root ends with the name of the node itself, if it gets  *)
(* that far.                                                               *)
LEMMA WalksFacts ==
  ASSUME NEW p \in Seq(Text), NEW walk \in Walks(p), DOMAIN keys \subseteq Seq(Text)
  PROVE  /\ walk \in Seq(Text)
         /\ ~broken \/ p = <<>> => walk = p
         /\ walk = <<>> \/ (p # <<>> /\ walk # <<>> /\ Last(walk) = Last(p))
<1>1. CASE ~broken \/ p = <<>>
  BY <1>1 DEF Walks
<1>2. CASE broken /\ p # <<>> /\ walk = <<>>
  BY <1>2
<1>3. CASE broken /\ p # <<>> /\ walk # <<>>
  <2>1. PICK q \in DOMAIN keys \cup {Front(p)} :
          \E up \in Suffixes(q) : walk = Append(up, Last(p))
    BY <1>3 DEF Walks
  <2>2. PICK up \in Suffixes(q) : walk = Append(up, Last(p))
    BY <2>1
  <2>3. q \in Seq(Text)
    BY <1>3, FrontFacts
  <2>4. up \in Seq(Text)
    <3>1. \/ up = <<>>
          \/ \E l \in 1 .. Len(q) : up = SubSeq(q, l, Len(q))
      BY <2>2 DEF Suffixes
    <3>2. \A l \in 1 .. Len(q) : SubSeq(q, l, Len(q)) \in Seq(Text)
      BY <2>3
    <3>3. <<>> \in Seq(Text)
      OBVIOUS
    <3> QED BY <3>1, <3>2, <3>3
  <2>5. Last(p) \in Text
    BY <1>3, FrontFacts
  <2> QED BY <1>3, <2>2, <2>4, <2>5, AppendFacts
<1> QED BY <1>1, <1>2, <1>3

(* What set_prompt_string does when there is a current node. *)
PromptMade(file, p) ==
  /\ Return(TRUE)
  /\ prompt'.file = file /\ prompt'.path \in Seq(NameShown)
  /\ ShownAs(broken, prompt'.path, p)

Ends ==
  /\ mode' \in {"failure", "overflow"} /\ is_tty' = is_tty
  /\ mode' = "failure" \/ failed' = failed

LEMMA PromptSet ==
  ASSUME NEW p \in Seq(Text), NEW file, set_prompt_string(file, {p}),
         p = <<>> \/ DOMAIN keys \subseteq Seq(Text)
  PROVE  Ends \/ PromptMade(file, p)
<1>1. CASE NoMemstream
  BY <1>1 DEF NoMemstream, NoPromptMade, startVars, Ends
<1>2. CASE mode' = "overflow" /\ UNCHANGED <<r, failed>> /\ NoPromptMade
  BY <1>2 DEF NoPromptMade, startVars, Ends
<1>3. CASE /\ Return(TRUE)
           /\ \E walk \in Walks(p) : \E path \in Named(walk) :
                prompt' = [file |-> file, path |-> path]
  <2>1. PICK walk \in Walks(p) : \E path \in Named(walk) :
                prompt' = [file |-> file, path |-> path]
    BY <1>3
  <2>2. PICK path \in Named(walk) : prompt' = [file |-> file, path |-> path]
    BY <2>1
  <2>3. /\ walk \in Seq(Text) /\ (~broken \/ p = <<>> => walk = p)
        /\ walk = <<>> \/ (p # <<>> /\ walk # <<>> /\ Last(walk) = Last(p))
    <3>1. CASE p = <<>>
      <4>1. walk = <<>>
        BY <3>1 DEF Walks
      <4> QED BY <3>1, <4>1
    <3>2. CASE DOMAIN keys \subseteq Seq(Text)
      BY <3>2, WalksFacts
    <3> QED BY <3>1, <3>2
  <2>4. /\ path \in Seq(NameShown) /\ Len(path) = Len(walk)
        /\ \A i \in DOMAIN walk : path[i] \in {walk[i], Missing}
    BY <2>3, NamedFacts
  <2>5. ShownAs(broken, path, p)
    <3>1. CASE ~broken
      BY <2>3, <2>4, <3>1 DEF ShownAs
    <3>2. CASE broken /\ walk = <<>>
      BY <2>4, <3>2 DEF ShownAs
    <3>3. CASE broken /\ walk # <<>>
      <4>1. p # <<>> /\ Last(walk) = Last(p)
        BY <2>3, <3>3
      <4>2. Len(walk) \in Nat \ {0} /\ Len(walk) \in DOMAIN walk
        BY <2>3, <3>3
      <4>3. Last(path) \in {Last(walk), Missing}
        BY <2>4, <4>2 DEF Last
      <4> QED BY <3>3, <4>1, <4>3 DEF ShownAs
    <3> QED BY <3>1, <3>2, <3>3
  <2>6. prompt'.file = file /\ prompt'.path = path
    BY <2>2
  <2> QED BY <1>3, <2>4, <2>5, <2>6 DEF PromptMade
<1>4. {p} # {}
  OBVIOUS
<1> QED BY <1>1, <1>2, <1>3, <1>4 DEF set_prompt_string

(* When a hive turns out to be damaged, its prompt shows enough. *)
LEMMA ShownDamaged ==
  ASSUME NEW p \in Seq(Text), NEW path \in Seq(NameShown), NEW damaged,
         ShownAs(damaged, path, p)
  PROVE  ShownAs(TRUE, path, p)
<1>1. CASE damaged
  BY <1>1 DEF ShownAs
<1>2. CASE ~damaged /\ p = <<>>
  BY <1>2 DEF ShownAs
<1>3. CASE ~damaged /\ p # <<>>
  <2>1. Len(path) = Len(p) /\ \A i \in DOMAIN p : path[i] \in {p[i], Missing}
    BY <1>3 DEF ShownAs
  <2>2. Len(p) \in DOMAIN p
    BY <1>3
  <2> QED BY <1>3, <2>1, <2>2 DEF ShownAs, Last
<1> QED BY <1>1, <1>2, <1>3

(* A step that leaves the files, the hive and the prompt alone. *)
LEMMA QuietStep ==
  ASSUME ShellInv, disk' = disk, hiveVars' = hiveVars, is_tty' = is_tty,
         Runs, mode' # "aborted",
         ~is_tty /\ failed' => mode' = "failure"
  PROVE  ShellInv'
<1>1. /\ loaded' = loaded /\ keys' = keys /\ broken' = broken /\ cwd' = cwd
      /\ prompt' = prompt /\ stale' = stale
  BY DEF hiveVars
<1>2. DisksOk'
  BY DEF ShellInv, DisksOk
<1>3. HiveOk'
  BY <1>1 DEF ShellInv, HiveOk, Runs
<1>4. PromptTrue'
  BY <1>1 DEF ShellInv, PromptTrue, PathShown, Runs
<1> QED BY <1>2, <1>3, <1>4 DEF ShellInv

(* What the return of a command does to a script. *)
LEMMA ReturnFacts ==
  ASSUME ShellInv, mode \in {"loop", "key", "value"}, NEW ok \in BOOLEAN, Return(ok)
  PROVE  /\ mode' # "aborted" /\ is_tty' = is_tty
         /\ ~is_tty /\ failed' => mode' = "failure"
BY DEF Return, startVars, ShellInv

LEMMA FailStep ==
  ASSUME ShellInv, mode = "loop", Fail
  PROVE  ShellInv'
<1>1. Return(FALSE) /\ disk' = disk /\ hiveVars' = hiveVars
  BY DEF Fail
<1> QED BY <1>1, ReturnFacts, QuietStep DEF Runs

(* Another key becomes the current one, in a hive that stays loaded. *)
LEMMA MoveStep ==
  ASSUME ShellInv, mode = "loop", loaded # "", disk' = disk, loaded' = loaded,
         broken' = broken, NEW node \in SUBSET Seq(Text), cwd' = node,
         set_prompt_string(loaded, node),
         (\E p : node = {p}) \/ (broken /\ node = {}),
         DOMAIN keys' \subseteq Seq(Text),
         ~broken => R!IsRegistry(keys') /\ node \subseteq DOMAIN keys'
  PROVE  ShellInv'
<1>1. DisksOk'
  BY DEF ShellInv, DisksOk
<1>2. CASE \E p : node = {p}
  <2>1. PICK p \in Seq(Text) : node = {p}
    BY <1>2
  <2>2. Ends \/ PromptMade(loaded, p)
    BY <2>1, PromptSet DEF ShellInv, HiveOk
  <2>3. DOMAIN keys' \subseteq Seq(Text) /\ cwd' \subseteq Seq(Text)
        /\ (~broken' => R!IsRegistry(keys') /\ cwd' \subseteq DOMAIN keys')
    OBVIOUS
  <2>4. CASE Ends
    <3>1. ~Runs' /\ mode' # "aborted" /\ is_tty' = is_tty
          /\ (mode' = "failure" \/ failed' = failed)
      BY <2>4 DEF Ends, Runs
    <3>2. HiveOk' /\ PromptTrue'
      BY <2>3, <3>1 DEF HiveOk, PromptTrue, Runs
    <3>3. ~is_tty => ~failed
      BY DEF ShellInv
    <3>4. ~is_tty' /\ failed' => mode' = "failure"
      BY Zenon, <3>1, <3>3
    <3> QED BY <1>1, <3>1, <3>2, <3>4 DEF ShellInv
  <2>5. CASE PromptMade(loaded, p)
    <3>1. /\ Return(TRUE) /\ prompt'.file = loaded /\ prompt'.path \in Seq(NameShown)
          /\ ShownAs(broken', prompt'.path, p)
      BY <2>5 DEF PromptMade
    <3>2. /\ mode' # "aborted" /\ is_tty' = is_tty
          /\ ~is_tty /\ failed' => mode' = "failure"
      BY <3>1, ReturnFacts DEF Runs
    <3>3. HiveOk'
      BY <2>1, <2>3, <3>1 DEF HiveOk
    <3>4. PathShown(p)'
      BY <3>1, PathShownIs
    <3>5. PromptTrue'
      BY <2>1, <3>1, <3>4 DEF PromptTrue
    <3> QED BY <1>1, <3>2, <3>3, <3>5 DEF ShellInv
  <2> QED BY <2>2, <2>4, <2>5
<1>3. CASE broken /\ node = {}
  <2>1. /\ mode' \in {"aborted", "failure"} /\ is_tty' = is_tty
        /\ mode' = "failure" \/ failed' = failed
    BY <1>3 DEF set_prompt_string, NoMemstream, NoPromptMade, startVars
  <2>2. HiveOk'
    BY <1>3, <2>1 DEF HiveOk, Runs
  <2>3. PromptTrue'
    BY <2>1 DEF PromptTrue
  <2>4. ~is_tty => ~failed
    BY DEF ShellInv
  <2>5. ~is_tty' /\ failed' => mode' = "failure"
    BY Zenon, <2>1, <2>4
  <2> QED BY <1>1, <1>3, <2>1, <2>2, <2>3, <2>5 DEF ShellInv
<1> QED BY <1>2, <1>3

LEMMA LoadStep ==
  ASSUME ShellInv, NEW f \in Files, cmd_load(f)
  PROVE  ShellInv'
<1>1. mode = "loop" /\ disk' = disk
  BY DEF cmd_load, Command, Counted
<1>2. DisksOk'
  BY <1>1 DEF ShellInv, DisksOk
<1>3. CASE /\ disk[f].valid /\ loaded' = f /\ keys' = disk[f].keys
           /\ broken' = ~disk[f].sound /\ cwd' = {<<>>}
           /\ set_prompt_string(f, {<<>>})
  <2>1. <<>> \in Seq(Text)
    OBVIOUS
  <2>2. PICK p \in Seq(Text) : p = <<>>
    BY <2>1
  <2>3. f # ""
    BY ShellAssumption
  <2>4. Ends \/ PromptMade(f, p)
    BY <1>3, <2>2, PromptSet
  <2>5. /\ DOMAIN disk[f].keys \subseteq Seq(Text)
        /\ disk[f].sound => R!IsRegistry(disk[f].keys)
    BY DEF ShellInv, DisksOk
  <2>6. ~broken' => R!IsRegistry(keys') /\ <<>> \in DOMAIN keys'
    BY <1>3, <2>5, IsRegistryIs
  <2>7. /\ DOMAIN keys' \subseteq Seq(Text) /\ cwd' = {p}
        /\ ~broken' => cwd' \subseteq DOMAIN keys'
    BY <1>3, <2>2, <2>5, <2>6
  <2>8. CASE Ends
    <3>1. ~Runs' /\ mode' # "aborted" /\ is_tty' = is_tty
          /\ (mode' = "failure" \/ failed' = failed)
      BY <2>8 DEF Ends, Runs
    <3>2. HiveOk' /\ PromptTrue'
      BY <2>6, <2>7, <3>1 DEF HiveOk, PromptTrue, Runs
    <3>3. ~is_tty => ~failed
      BY <1>1 DEF ShellInv
    <3>4. ~is_tty' /\ failed' => mode' = "failure"
      BY Zenon, <3>1, <3>3
    <3> QED BY <1>2, <3>1, <3>2, <3>4 DEF ShellInv
  <2>9. CASE PromptMade(f, p)
    <3>1. /\ Return(TRUE) /\ prompt'.file = f /\ prompt'.path \in Seq(NameShown)
          /\ ShownAs(broken, prompt'.path, p)
      BY <2>9 DEF PromptMade
    <3>2. /\ mode' # "aborted" /\ is_tty' = is_tty
          /\ ~is_tty /\ failed' => mode' = "failure"
      BY <1>1, <3>1, ReturnFacts
    <3>3. prompt'.path = <<>>
      BY <2>2, <3>1 DEF ShownAs
    <3>4. PathShown(p)'
      <4>1. ShownAs(broken', prompt'.path, p)
        BY <2>2, <3>3 DEF ShownAs
      <4> QED BY <4>1, PathShownIs
    <3>5. HiveOk'
      BY <2>6, <2>7, <3>1 DEF HiveOk
    <3>6. PromptTrue'
      BY <1>3, <2>3, <2>7, <3>1, <3>4 DEF PromptTrue
    <3> QED BY <1>2, <3>2, <3>5, <3>6 DEF ShellInv
  <2> QED BY <2>4, <2>8, <2>9
<1>4. CASE loaded' = "" /\ Return(FALSE) /\ stale' = TRUE
  <2>1. /\ mode' # "aborted" /\ is_tty' = is_tty
        /\ ~is_tty /\ failed' => mode' = "failure"
    BY <1>1, <1>4, ReturnFacts
  <2> QED BY <1>2, <1>4, <2>1 DEF ShellInv, HiveOk, PromptTrue
<1> QED BY <1>3, <1>4 DEF cmd_load

LEMMA CloseStep ==
  ASSUME ShellInv, cmd_close
  PROVE  ShellInv'
<1>1. /\ mode = "loop" /\ disk' = disk /\ loaded' = ""
      /\ (Return(TRUE) /\ prompt' = NoPrompt) \/ NoMemstream
  BY DEF cmd_close, Command, Counted
<1>2. DisksOk' /\ HiveOk'
  BY <1>1 DEF ShellInv, DisksOk, HiveOk
<1>3. CASE Return(TRUE) /\ prompt' = NoPrompt
  <2>1. /\ mode' # "aborted" /\ is_tty' = is_tty
        /\ ~is_tty /\ failed' => mode' = "failure"
    BY <1>1, <1>3, ReturnFacts
  <2>2. PromptTrue'
    BY <1>1, <1>3 DEF PromptTrue
  <2> QED BY <1>2, <2>1, <2>2 DEF ShellInv
<1>4. CASE NoMemstream
  BY <1>2, <1>4 DEF NoMemstream, ShellInv, PromptTrue
<1> QED BY <1>1, <1>3, <1>4

(* hivex_commit saves what is loaded; a hive that is not damaged is a      *)
(* registry.                                                               *)
LEMMA CommitStep ==
  ASSUME ShellInv, NEW f \in Files, cmd_commit(f)
  PROVE  ShellInv'
<1>1. /\ mode = "loop" /\ loaded # "" /\ hiveVars' = hiveVars
      /\ \E ok \in BOOLEAN : Return(ok)
  BY DEF cmd_commit, Command, Counted
<1>2. /\ mode' # "aborted" /\ is_tty' = is_tty
      /\ ~is_tty /\ failed' => mode' = "failure"
  BY <1>1, ReturnFacts
<1>3. /\ loaded' = loaded /\ keys' = keys /\ broken' = broken /\ cwd' = cwd
      /\ prompt' = prompt /\ stale' = stale
  BY <1>1 DEF hiveVars
<1>4. HiveOk'
  BY <1>1, <1>3 DEF ShellInv, HiveOk, Runs
<1>5. PromptTrue'
  BY <1>1, <1>3 DEF ShellInv, PromptTrue, PathShown
<1>6. DisksOk'
  <2>1. PICK v, s, k : /\ disk' = [disk EXCEPT ![f] = [valid |-> v, sound |-> s, keys |-> k]]
                       /\ DOMAIN k \subseteq Seq(Text)
                       /\ s => R!IsRegistry(k)
    <3>1. CASE disk' = [disk EXCEPT ![f] = [valid |-> TRUE, sound |-> ~broken,
                                            keys |-> keys]]
      BY <1>1, <3>1 DEF ShellInv, HiveOk
    <3>2. CASE disk' = [disk EXCEPT ![f].valid = FALSE]
      <4>1. PICK e : e = disk[f]
        OBVIOUS
      <4>2. e = [valid |-> e.valid, sound |-> e.sound, keys |-> e.keys]
        BY <4>1 DEF ShellInv, DisksOk
      <4>3. [e EXCEPT !.valid = FALSE]
              = [valid |-> FALSE, sound |-> e.sound, keys |-> e.keys]
        <5>1. PICK a, b, c : e = [valid |-> a, sound |-> b, keys |-> c]
          BY <4>2
        <5>2. PICK x : x = FALSE
          OBVIOUS
        <5>3. [e EXCEPT !.valid = x] = [valid |-> x, sound |-> b, keys |-> c]
          BY <5>1
        <5>4. e.sound = b /\ e.keys = c
          BY <5>1
        <5> QED BY <5>2, <5>3, <5>4
      <4>4. disk' = [disk EXCEPT ![f] = [e EXCEPT !.valid = FALSE]]
        BY <3>2, <4>1
      <4>5. DOMAIN e.keys \subseteq Seq(Text) /\ (e.sound => R!IsRegistry(e.keys))
        BY <4>1 DEF ShellInv, DisksOk
      <4> QED BY <4>3, <4>4, <4>5
    <3> QED BY <3>1, <3>2 DEF cmd_commit
  <2>2. PICK r1 : r1 = [valid |-> v, sound |-> s, keys |-> k]
    OBVIOUS
  <2>3. /\ disk = [g \in Files |-> [valid |-> disk[g].valid, sound |-> disk[g].sound,
                                    keys |-> disk[g].keys]]
        /\ \A g \in Files : /\ DOMAIN disk[g].keys \subseteq Seq(Text)
                            /\ disk[g].sound => R!IsRegistry(disk[g].keys)
    BY DEF ShellInv, DisksOk
  <2>4. disk' = [g \in Files |-> IF g = f THEN r1 ELSE disk[g]]
    BY <2>1, <2>2, <2>3
  <2>5. r1.valid = v /\ r1.sound = s /\ r1.keys = k
    BY <2>2
  <2>6. \A g \in Files :
          /\ disk'[g] = [valid |-> disk'[g].valid, sound |-> disk'[g].sound,
                         keys |-> disk'[g].keys]
          /\ DOMAIN disk'[g].keys \subseteq Seq(Text)
          /\ disk'[g].sound => R!IsRegistry(disk'[g].keys)
    <3> SUFFICES ASSUME NEW g \in Files
                 PROVE  /\ disk'[g] = [valid |-> disk'[g].valid,
                              sound |-> disk'[g].sound, keys |-> disk'[g].keys]
                        /\ DOMAIN disk'[g].keys \subseteq Seq(Text)
                        /\ disk'[g].sound => R!IsRegistry(disk'[g].keys)
      OBVIOUS
    <3>1. CASE g = f
      <4>1. disk'[g] = r1
        BY <2>4, <3>1
      <4> QED BY <2>1, <2>2, <2>5, <4>1
    <3>2. CASE g # f
      <4>1. disk'[g] = disk[g]
        BY <2>4, <3>2
      <4>2. disk[g] = [valid |-> disk[g].valid, sound |-> disk[g].sound,
                       keys |-> disk[g].keys]
        BY <2>3
      <4> QED BY <2>3, <4>1, <4>2
    <3> QED BY <3>1, <3>2
  <2>7. disk' = [g \in Files |-> disk'[g]]
    BY <2>4
  <2> QED BY <2>6, <2>7 DEF DisksOk
<1> QED BY <1>2, <1>4, <1>5, <1>6 DEF ShellInv

LEMMA CdStep ==
  ASSUME ShellInv, NEW path \in Paths, cmd_cd(path)
  PROVE  ShellInv'
<1>1. mode = "loop" /\ loaded # "" /\ HasHive
  BY DEF cmd_cd, Command, Counted, HasHive, ShellInv, Runs
<1>2. CASE Fail
  BY <1>1, <1>2, FailStep
<1>3. CASE Return(TRUE) /\ disk' = disk /\ hiveVars' = hiveVars
  BY <1>1, <1>3, ReturnFacts, QuietStep DEF Runs
<1>4. CASE \E to \in CdPath(path) :
             /\ ~to.error /\ cwd' = to.node /\ set_prompt_string(loaded, to.node)
             /\ UNCHANGED <<disk, loaded, keys, broken>>
  <2>1. PICK to \in CdPath(path) :
             /\ ~to.error /\ cwd' = to.node /\ set_prompt_string(loaded, to.node)
             /\ UNCHANGED <<disk, loaded, keys, broken>>
    BY <1>4
  <2>2. PICK es \in Seq(Text) : path.elems = es
    BY ShellAssumption
  <2>3. PICK start : cwd = {start}
    BY <1>1 DEF HasHive, HiveOk
  <2>4. to \in Places
    BY <1>1, <2>1, <2>2, <2>3, CdPathGoes
  <2>5. PICK node \in SUBSET Seq(Text) : node = to.node
    BY <2>4 DEF Places
  <2>6. /\ (\E p : node = {p}) \/ (broken /\ node = {})
        /\ ~broken => node \subseteq DOMAIN keys
    BY <2>1, <2>4, <2>5 DEF Places
  <2>7. DOMAIN keys \subseteq Seq(Text) /\ (~broken => R!IsRegistry(keys))
    BY <1>1 DEF HasHive, HiveOk
  <2>8. /\ disk' = disk /\ loaded' = loaded /\ keys' = keys /\ broken' = broken
        /\ cwd' = node /\ set_prompt_string(loaded, node)
    BY <2>1, <2>5
  <2> QED BY <1>1, <2>6, <2>7, <2>8, MoveStep
<1> QED BY <1>2, <1>3, <1>4 DEF cmd_cd

(* The keys change under a current node that stays. *)
LEMMA KeysStep ==
  ASSUME ShellInv, Runs, disk' = disk,
         loaded' = loaded, broken' = broken, cwd' = cwd, prompt' = prompt,
         stale' = stale, NEW ok \in BOOLEAN, Return(ok),
         loaded # "" => /\ DOMAIN keys' \subseteq Seq(Text)
                        /\ DOMAIN keys \subseteq DOMAIN keys'
                        /\ ~broken => R!IsRegistry(keys')
  PROVE  ShellInv'
<1>1. /\ mode' # "aborted" /\ is_tty' = is_tty
      /\ ~is_tty /\ failed' => mode' = "failure"
  BY ReturnFacts DEF Runs
<1>2. DisksOk'
  BY DEF ShellInv, DisksOk
<1>3. HiveOk'
  <2>1. HiveOk
    BY DEF ShellInv
  <2>2. CASE loaded # ""
    BY <2>1, <2>2 DEF HiveOk
  <2>3. CASE loaded = ""
    BY <2>3 DEF HiveOk
  <2> QED BY <2>2, <2>3
<1>4. PromptTrue'
  BY DEF ShellInv, PromptTrue, PathShown, Runs
<1> QED BY <1>1, <1>2, <1>3, <1>4 DEF ShellInv

LEMMA AddStep ==
  ASSUME ShellInv, NEW name \in Names, cmd_add(name)
  PROVE  ShellInv'
<1>1. mode = "loop" /\ loaded # ""
  BY DEF cmd_add, Command, Counted
<1>2. CASE Fail
  BY <1>1, <1>2, FailStep
<1>3. CASE /\ Here \in DOMAIN keys /\ R!CanAdd(keys, Here, name)
           /\ keys' = R!Added(keys, Here, name) /\ Return(TRUE)
           /\ UNCHANGED <<disk, loaded, broken, cwd, prompt, stale>>
  <2>1. PICK p : p = Here
    OBVIOUS
  <2>2. PICK ks : ks = keys
    OBVIOUS
  <2>3. DOMAIN ks \subseteq Seq(Text) /\ (~broken => R!IsRegistry(ks))
    BY <1>1, <2>2 DEF ShellInv, HiveOk
  <2>4. name \in Text
    BY ShellAssumption
  <2>5. p \in DOMAIN ks /\ R!CanAdd(ks, p, name) /\ keys' = R!Added(ks, p, name)
    BY <1>3, <2>1, <2>2
  <2>6. /\ DOMAIN keys' \subseteq Seq(Text) /\ DOMAIN ks \subseteq DOMAIN keys'
        /\ R!IsRegistry(ks) => R!IsRegistry(keys')
    BY <2>3, <2>4, <2>5, RegistryAdded
  <2> QED BY <1>1, <1>3, <2>2, <2>3, <2>6, KeysStep DEF Runs
<1> QED BY <1>2, <1>3 DEF cmd_add

LEMMA DelStep ==
  ASSUME ShellInv, cmd_del
  PROVE  ShellInv'
<1>1. mode = "loop" /\ loaded # "" /\ HasHive
  BY DEF cmd_del, Command, Counted, HasHive, ShellInv, Runs
<1>2. CASE Fail
  BY <1>1, <1>2, FailStep
<1>3. CASE /\ broken' = TRUE /\ Return(FALSE)
           /\ UNCHANGED <<disk, loaded, keys, cwd, prompt, stale>>
  <2>1. /\ mode' # "aborted" /\ is_tty' = is_tty
        /\ ~is_tty /\ failed' => mode' = "failure"
    BY <1>1, <1>3, ReturnFacts
  <2>2. DisksOk'
    BY <1>3 DEF ShellInv, DisksOk
  <2>3. HiveOk'
    BY <1>1, <1>3 DEF HasHive, HiveOk
  <2>4. PromptTrue'
    <3>1. PICK p \in Seq(Text) : cwd = {p} /\ prompt.path \in Seq(NameShown)
      BY <1>1 DEF HasHive, HiveOk
    <3>2. prompt.file = loaded /\ PathShown(p)
      BY <1>1, <3>1 DEF ShellInv, PromptTrue
    <3>3. ShownAs(TRUE, prompt.path, p)
      <4>1. PICK path \in Seq(NameShown) : path = prompt.path
        BY <3>1
      <4>2. ShownAs(broken, path, p)
        BY <3>2, <4>1, PathShownIs
      <4> QED BY <4>1, <4>2, ShownDamaged
    <3>4. broken' /\ prompt' = prompt /\ loaded' = loaded /\ cwd' = cwd
      BY <1>3
    <3>5. PathShown(p)'
      <4>1. ShownAs(broken', prompt'.path, p)
        BY <3>3, <3>4 DEF ShownAs
      <4> QED BY <4>1, PathShownIs
    <3> QED BY <1>1, <3>1, <3>2, <3>4, <3>5 DEF PromptTrue
  <2> QED BY <2>1, <2>2, <2>3, <2>4 DEF ShellInv
<1>4. CASE /\ cwd # {<<>>}
           /\ \E parent \in Parents(cwd) :
                /\ keys' = R!Deleted(keys, Here) /\ cwd' = parent
                /\ set_prompt_string(loaded, parent)
           /\ UNCHANGED <<disk, loaded, broken>>
  <2>1. PICK parent \in Parents(cwd) :
          /\ keys' = R!Deleted(keys, Here) /\ cwd' = parent
          /\ set_prompt_string(loaded, parent)
    BY <1>4
  <2>2. PICK p : cwd = {p} /\ Here = p
    BY <1>1 DEF HasHive, HiveOk, Here
  <2>3. PICK ks : ks = keys
    OBVIOUS
  <2>4. /\ p \in Seq(Text) /\ p # <<>> /\ DOMAIN ks \subseteq Seq(Text)
        /\ ~broken => R!IsRegistry(ks) /\ p \in DOMAIN ks
    BY <1>1, <1>4, <2>2, <2>3 DEF HasHive, HiveOk
  <2>5. /\ parent \in SUBSET Seq(Text)
        /\ (\E x : parent = {x}) \/ (broken /\ parent = {})
    <3>1. PICK node \in SUBSET Seq(Text) : node = cwd
      BY <2>2, <2>4
    <3>2. node # {<<>>} /\ parent \in Parents(node) /\ \E x : node = {x}
      BY <1>4, <2>1, <2>2, <3>1
    <3>3. /\ DOMAIN keys \subseteq Seq(Text)
          /\ ~broken => R!IsRegistry(keys) /\ node \subseteq DOMAIN keys
      BY <2>2, <2>3, <2>4, <3>1
    <3> QED BY <3>2, <3>3, ParentsPlaces
  <2>6. PICK js : js = R!Deleted(ks, p)
    OBVIOUS
  <2>7. keys' = js
    BY <2>1, <2>2, <2>3, <2>6
  <2>8. DOMAIN js \subseteq DOMAIN ks
    BY <2>6, DeletedIs
  <2>9. ~broken => R!IsRegistry(js) /\ Front(p) \in DOMAIN js
    BY <2>4, <2>6, RegistryDeleted
  <2>10. ~broken => parent \subseteq DOMAIN js
    <3>1. ~broken => parent = {Front(p)}
      BY <2>1, <2>2, <2>4 DEF Parents
    <3> QED BY <2>9, <3>1
  <2>11. disk' = disk /\ loaded' = loaded /\ broken' = broken
    BY <1>4
  <2>12. PICK node \in SUBSET Seq(Text) : node = parent
    BY <2>5
  <2>13. /\ cwd' = node /\ set_prompt_string(loaded, node)
         /\ (\E x : node = {x}) \/ (broken /\ node = {})
         /\ DOMAIN keys' \subseteq Seq(Text)
         /\ ~broken => R!IsRegistry(keys') /\ node \subseteq DOMAIN keys'
    BY <2>1, <2>4, <2>5, <2>7, <2>8, <2>9, <2>10, <2>12
  <2> QED BY <1>1, <2>11, <2>13, MoveStep
<1> QED BY <1>2, <1>3, <1>4 DEF cmd_del

(* hivex_node_set_values changes the values of the current node, and no    *)
(* path.                                                                   *)
LEMMA StoreStep ==
  ASSUME ShellInv, mode \in {"loop", "key", "value"}, NEW vs, StoreValues(vs)
  PROVE  ShellInv'
<1>1. CASE Return(FALSE) /\ UNCHANGED <<disk, hiveVars>>
  BY <1>1, ReturnFacts, QuietStep DEF Runs
<1>2. CASE /\ DOMAIN keys' = DOMAIN keys /\ \E ok \in BOOLEAN : Return(ok)
           /\ UNCHANGED <<disk, loaded, broken, cwd, prompt, stale>>
  <2>1. PICK ks : ks = keys
    OBVIOUS
  <2>2. loaded # "" => DOMAIN ks \subseteq Seq(Text) /\ (~broken => R!IsRegistry(ks))
    BY <2>1 DEF ShellInv, HiveOk
  <2>3. PICK js : js = keys'
    OBVIOUS
  <2>4. R!IsRegistry(ks) => R!IsRegistry(js)
    BY <1>2, <2>1, <2>3, RegistryKeys
  <2>5. loaded # "" => /\ DOMAIN keys' \subseteq Seq(Text)
                       /\ DOMAIN keys \subseteq DOMAIN keys'
                       /\ ~broken => R!IsRegistry(keys')
    BY <1>2, <2>1, <2>2, <2>3, <2>4
  <2> QED BY <1>2, <2>5, KeysStep DEF Runs
<1>3. \A p, v : DOMAIN [keys EXCEPT ![p] = v] = DOMAIN keys
  OBVIOUS
<1> QED BY <1>1, <1>2, <1>3 DEF StoreValues, R!WithValues

LEMMA SetvalStep ==
  ASSUME ShellInv, NEW text \in Counts, cmd_setval(text)
  PROVE  ShellInv'
<1>1. mode = "loop"
  BY DEF cmd_setval, Counted
<1>2. CASE Fail
  BY <1>1, <1>2, FailStep
<1>3. CASE StoreValues(<<>>)
  BY <1>1, <1>3, StoreStep
<1>4. CASE /\ mode' = "key"
           /\ UNCHANGED <<startVars, disk, hiveVars, key, values, r, failed>>
  BY <1>1, <1>4, QuietStep DEF Runs, startVars, ShellInv
<1> QED BY <1>2, <1>3, <1>4 DEF cmd_setval

LEMMA ReadValueStep ==
  ASSUME ShellInv, NEW line \in ValueLines, ReadValue(line)
  PROVE  ShellInv'
<1>1. mode = "value"
  BY DEF ReadValue
<1>2. CASE Return(FALSE) /\ UNCHANGED <<disk, hiveVars>>
  BY <1>1, <1>2, ReturnFacts, QuietStep DEF Runs
<1>3. CASE mode' = "key" /\ UNCHANGED <<startVars, disk, hiveVars, nrvals, key, r, failed>>
  BY <1>1, <1>3, QuietStep DEF Runs, startVars, ShellInv
<1>4. CASE \E vs : StoreValues(vs)
  BY <1>1, <1>4, StoreStep
<1> QED BY <1>2, <1>3, <1>4 DEF ReadValue

LEMMA ExitStep ==
  ASSUME ShellInv, disk' = disk, is_tty' = is_tty, cwd' = cwd, keys' = keys,
         broken' = broken, mode' \in {"exited", "failure"}, loaded' \in {"", loaded},
         ~is_tty /\ failed' => mode' = "failure"
  PROVE  ShellInv'
<1>1. DisksOk'
  BY DEF ShellInv, DisksOk
<1>2. HiveOk'
  BY DEF ShellInv, HiveOk, Runs
<1>3. PromptTrue'
  BY DEF PromptTrue
<1> QED BY <1>1, <1>2, <1>3 DEF ShellInv

LEMMA NextShell == ShellInv /\ [Next]_vars => ShellInv'
<1> SUFFICES ASSUME ShellInv, [Next]_vars PROVE ShellInv'
  OBVIOUS
<1>1. CASE UNCHANGED vars
  <2>1. /\ disk' = disk /\ loaded' = loaded /\ keys' = keys /\ broken' = broken
        /\ cwd' = cwd /\ prompt' = prompt /\ stale' = stale /\ mode' = mode
        /\ is_tty' = is_tty /\ failed' = failed
    BY <1>1 DEF vars, hiveVars, startVars
  <2> QED BY <2>1 DEF ShellInv, DisksOk, HiveOk, PromptTrue, PathShown, Runs
<1>2. CASE CannotStart
  <2>1. /\ mode = "loop" /\ mode' = "failure" /\ disk' = disk /\ loaded' = loaded
        /\ is_tty' = is_tty /\ cwd' = cwd /\ keys' = keys /\ broken' = broken
    BY <1>2 DEF CannotStart, startVars, hiveVars
  <2> QED BY <2>1, ExitStep
<1>3. CASE Shown
  <2>1. /\ mode = "loop" /\ Return(TRUE) /\ disk' = disk /\ hiveVars' = hiveVars
    BY <1>3 DEF Shown, Command, Counted
  <2> QED BY <2>1, ReturnFacts, QuietStep DEF Runs
<1>4. CASE Refused
  BY <1>4, FailStep DEF Refused, Command, Counted
<1>5. CASE Quit
  <2>1. /\ mode = "loop" /\ mode' = "exited" /\ disk' = disk /\ loaded' = ""
        /\ is_tty' = is_tty /\ cwd' = cwd /\ keys' = keys /\ broken' = broken
        /\ failed' = failed
    BY <1>5 DEF Quit, startVars
  <2>2. ~is_tty => ~failed'
    BY <2>1 DEF ShellInv
  <2> QED BY <2>1, <2>2, ExitStep
<1>6. CASE EndOfInput
  <2>1. /\ mode \in {"loop", "key", "value"} /\ mode' \in {"exited", "failure"}
        /\ disk' = disk /\ loaded' \in {"", loaded} /\ is_tty' = is_tty
        /\ cwd' = cwd /\ keys' = keys /\ broken' = broken
        /\ ~is_tty => mode' = "failure"
    BY <1>6 DEF EndOfInput, startVars
  <2> QED BY <2>1, ExitStep
<1>14. CASE NoMemory
  <2>1. /\ mode' = "failure" /\ disk' = disk /\ loaded' = loaded /\ is_tty' = is_tty
        /\ cwd' = cwd /\ keys' = keys /\ broken' = broken
    BY <1>14 DEF NoMemory, startVars, hiveVars
  <2> QED BY <2>1, ExitStep
<1>7. CASE \E f \in Files : cmd_load(f) \/ cmd_commit(f)
  BY <1>7, LoadStep, CommitStep
<1>8. CASE cmd_close \/ cmd_del
  BY <1>8, CloseStep, DelStep
<1>9. CASE \E p \in Paths : cmd_cd(p)
  BY <1>9, CdStep
<1>10. CASE \E n \in Names : cmd_add(n)
  BY <1>10, AddStep
<1>11. CASE \E t \in Counts : cmd_setval(t)
  BY <1>11, SetvalStep
<1>12. CASE \E k \in KeyLines : ReadKey(k)
  <2>1. /\ mode = "key" /\ mode' = "value" /\ disk' = disk /\ hiveVars' = hiveVars
        /\ is_tty' = is_tty /\ failed' = failed
    BY <1>12 DEF ReadKey, startVars
  <2>2. ~is_tty => ~failed'
    BY <2>1 DEF ShellInv
  <2> QED BY <2>1, <2>2, QuietStep DEF Runs
<1>13. CASE \E v \in ValueLines : ReadValue(v)
  BY <1>13, ReadValueStep
<1> QED BY <1>1, <1>2, <1>3, <1>4, <1>5, <1>6, <1>7, <1>8, <1>9, <1>10,
           <1>11, <1>12, <1>13, <1>14
        DEF Next

LEMMA ShellInvCorrect == Spec => []ShellInv
BY InitShell, NextShell, PTL DEF Spec

-----------------------------------------------------------------------------
(* Theorems *)

(* The prompt shows the hive that is loaded and the path of the current    *)
(* node, or what of it can be read when the hive is damaged.               *)
THEOREM PromptCorrect == Spec => []PromptTrue
<1>1. ShellInv => PromptTrue
  BY DEF ShellInv
<1> QED BY <1>1, ShellInvCorrect, PTL

(* set_prompt_string is never called without a current node, and the       *)
(* current node is a key of the hive, unless the hive is damaged.          *)
THEOREM AssertsCorrect == Spec => []AssertsHold
<1>1. ShellInv => AssertsHold
  BY DEF ShellInv, HiveOk, AssertsHold, Runs
<1> QED BY <1>1, ShellInvCorrect, PTL

(* A script that had a command fail never writes a file again. *)
THEOREM ScriptCorrect == Spec => ScriptStops
<1>1. ShellInv /\ [Next]_vars => [~is_tty /\ failed => UNCHANGED disk]_vars
  <2> SUFFICES ASSUME ShellInv, Next, ~is_tty, failed
               PROVE  disk' = disk
    OBVIOUS
  <2>1. mode = "failure"
    BY DEF ShellInv
  <2> QED
    BY <2>1
    DEF Next, CannotStart, Shown, Refused, Quit, EndOfInput, NoMemory, cmd_load,
        cmd_commit, cmd_close, cmd_del, cmd_cd, cmd_add, cmd_setval, ReadKey, ReadValue,
        Command, Counted
<1> QED BY <1>1, ShellInvCorrect, PTL DEF Spec, ScriptStops

(* cd in a sound hive goes to the key that the path names, for paths of    *)
(* any length.                                                             *)
THEOREM CdCorrect == Spec => CdMeansPath
<1>1. ASSUME ShellInv, Moves, NEW path \in Paths, cmd_cd(path)
      PROVE  MovesTo(path)
  <2>1. mode = "loop" /\ loaded # "" /\ HasHive /\ ~broken /\ cwd' # cwd
    BY <1>1 DEF cmd_cd, Command, Counted, HasHive, Runs, ShellInv, Moves
  <2>2. PICK to \in CdPath(path) : ~to.error /\ cwd' = to.node
    BY <1>1, <2>1 DEF cmd_cd, Fail, hiveVars
  <2>3. PICK es \in Seq(Text) : path.elems = es
    BY ShellAssumption
  <2>4. PICK start : cwd = {start} /\ Here = start
    BY <2>1 DEF HasHive, HiveOk, Here
  <2>5. Follows(to, Lexical(start, path))
    BY <2>1, <2>2, <2>3, <2>4, CdPathGoes
  <2> QED BY <2>1, <2>2, <2>4, <2>5 DEF Follows, MovesTo
<1>2. ShellInv => [Moves => \A path \in Paths : cmd_cd(path) => MovesTo(path)]_vars
  BY <1>1
<1> QED BY <1>2, ShellInvCorrect, PTL DEF CdMeansPath

-----------------------------------------------------------------------------
(* cmd_setval *)

(* A line of setval that could be parsed, and the value made of it. *)
Answers(typedLine, v) ==
  /\ v.key = KeyOf(typedLine)
  /\ Parsed(typedLine.value[1]) # {}
  /\ ParsedAs(typedLine.value[1], v)

IsList(s) == s = [i \in 1 .. Len(s) |-> s[i]] /\ Len(s) \in Nat

(* While setval reads, every value it has parsed is the one typed in its   *)
(* place, and outside of setval no value is left over.                     *)
TypedInv ==
  /\ IsList(values) /\ IsList(typed)
  /\ mode \notin {"key", "value"} => values = <<>>
  /\ mode \in {"key", "value"} =>
       /\ nrvals \in Nat /\ nrvals <= MaxValues /\ Len(values) < nrvals
       /\ Len(typed) = Len(values) + (IF mode = "value" THEN 1 ELSE 0)
       /\ \A i \in 1 .. Len(values) : Answers(typed[i], values[i])
  /\ mode = "value" =>
       /\ typed[Len(typed)] = [key |-> typed[Len(typed)].key, value |-> <<>>]
       /\ key = IF typed[Len(typed)].key = "@" THEN "" ELSE typed[Len(typed)].key

LEMMA InitTyped == Init => TypedInv
<1> SUFFICES ASSUME Init PROVE TypedInv
  OBVIOUS
<1>1. values = <<>> /\ typed = <<>> /\ mode = "loop"
  BY DEF Init
<1>2. IsList(<<>>)
  BY DEF IsList
<1> QED BY <1>1, <1>2 DEF TypedInv

(* Outside of setval, nothing is left of what it has read. *)
LEMMA IdleTyped ==
  ASSUME TypedInv, values' = <<>>, IsList(typed'),
         mode' \notin {"key", "value"}
  PROVE  TypedInv'
<1>1. IsList(<<>>)
  BY DEF IsList
<1> QED BY <1>1 DEF TypedInv

LEMMA CommandTyped ==
  ASSUME TypedInv, NEW cost, Counted(cost), values' = values,
         mode' \notin {"key", "value"}
  PROVE  TypedInv'
<1>1. values = <<>> /\ typed' = <<>>
  BY DEF TypedInv, Counted
<1>2. IsList(<<>>)
  BY DEF IsList
<1> QED BY <1>1, <1>2, IdleTyped

LEMMA ReturnsMode ==
  ASSUME NEW ok, Return(ok)
  PROVE  mode' \notin {"key", "value"}
BY DEF Return

(* A value line is read: it is the value of the key line before it. *)
LEMMA AnswerTyped ==
  ASSUME TypedInv, mode = "value", NEW line \in ValueLines,
         NEW v \in Parsed(line), NEW ts, NEW vs,
         ts = [typed EXCEPT ![Len(typed)].value = <<line>>],
         vs = Append(values, [key |-> key, t |-> v.t, data |-> v.data])
  PROVE  /\ IsList(ts) /\ IsList(vs)
         /\ Len(vs) = Len(values) + 1 /\ Len(ts) = Len(vs)
         /\ \A i \in 1 .. Len(vs) : Answers(ts[i], vs[i])
<1>1. PICK n \in Nat : n = Len(values)
  BY DEF TypedInv, IsList
<1>2. PICK w : w = [key |-> key, t |-> v.t, data |-> v.data]
  OBVIOUS
<1>3. /\ values = [i \in 1 .. n |-> values[i]]
      /\ typed = [i \in 1 .. Len(typed) |-> typed[i]] /\ Len(typed) = n + 1
      /\ \A i \in 1 .. n : Answers(typed[i], values[i])
  BY <1>1 DEF TypedInv, IsList
<1>4. /\ Len(vs) = n + 1 /\ vs[n + 1] = w /\ vs = [i \in 1 .. (n + 1) |-> vs[i]]
      /\ \A i \in 1 .. n : vs[i] = values[i]
  <2>1. PICK S : S = {values[i] : i \in 1 .. n} \cup {w}
    OBVIOUS
  <2>2. values \in Seq(S) /\ w \in S
    BY <1>1, <1>3, <2>1
  <2> QED BY <1>1, <1>2, <2>2
<1>5. PICK last : last = typed[n + 1]
  OBVIOUS
<1>6. PICK k : last = [key |-> k, value |-> <<>>] /\ key = IF k = "@" THEN "" ELSE k
  BY <1>3, <1>5 DEF TypedInv
<1>7. PICK c : c = <<line>>
  OBVIOUS
<1>8. PICK l : l = [last EXCEPT !.value = c]
  OBVIOUS
<1>9. l.key = k /\ l.value = c
  BY <1>6, <1>8
<1>10. /\ ts = [i \in 1 .. (n + 1) |-> ts[i]] /\ ts[n + 1] = l
       /\ \A i \in 1 .. n : ts[i] = typed[i]
  <2>1. ts = [typed EXCEPT ![n + 1] = l]
    BY <1>3, <1>5, <1>7, <1>8
  <2>2. DOMAIN typed = 1 .. (n + 1) /\ n + 1 \in 1 .. (n + 1)
    BY <1>1, <1>3
  <2>3. ts = [i \in 1 .. (n + 1) |-> IF i = n + 1 THEN l ELSE typed[i]]
    BY <2>1, <2>2
  <2>4. ts[n + 1] = l
    BY <2>2, <2>3
  <2>5. \A i \in 1 .. n : i \in 1 .. (n + 1) /\ i # n + 1
    BY <1>1
  <2>6. \A i \in 1 .. n : ts[i] = typed[i]
    BY <2>3, <2>5
  <2>7. DOMAIN ts = 1 .. (n + 1) /\ ts = [i \in DOMAIN ts |-> ts[i]]
    BY <2>3
  <2> QED BY <2>4, <2>6, <2>7
<1>11. Answers(l, w)
  <2>1. w.key = key /\ w.t = v.t /\ w.data = v.data
    BY <1>2
  <2>2. [t |-> w.t, data |-> w.data] \in Parsed(line)
    <3>1. \E a, b : v = [t |-> a, data |-> b]
      BY DEF Parsed
    <3> QED BY <2>1, <3>1
  <2>3. l.value[1] = line
    BY <1>7, <1>9
  <2>4. w.key = KeyOf(l)
    BY <1>6, <1>9, <2>1 DEF KeyOf
  <2> QED BY <2>2, <2>3, <2>4 DEF Answers, ParsedAs
<1>12. \A i \in 1 .. (n + 1) : Answers(ts[i], vs[i])
  <2>1. \A i \in 1 .. (n + 1) : i \in 1 .. n \/ i = n + 1
    BY <1>1
  <2> QED BY <1>3, <1>4, <1>10, <1>11, <2>1
<1>13. Len(ts) = n + 1 /\ n + 1 \in Nat
  BY <1>1, <1>10
<1>14. IsList(ts) /\ IsList(vs)
  <2>1. PICK m \in Nat : m = n + 1
    BY <1>13
  <2>2. Len(ts) = m /\ Len(vs) = m
    BY <1>4, <1>13, <2>1
  <2>3. ts = [i \in 1 .. m |-> ts[i]] /\ vs = [i \in 1 .. m |-> vs[i]]
    BY <1>4, <1>10, <2>1
  <2> QED BY <2>2, <2>3 DEF IsList
<1> QED BY <1>1, <1>4, <1>12, <1>13, <1>14

LEMMA ReadValueTyped ==
  ASSUME TypedInv, NEW line \in ValueLines, ReadValue(line)
  PROVE  TypedInv'
<1>1. mode = "value" /\ typed' = [typed EXCEPT ![Len(typed)].value = <<line>>]
  BY DEF ReadValue
<1>2. CASE Freed /\ mode' \notin {"key", "value"}
  <2>1. IsList(typed')
    <3>1. PICK n \in Nat : n = Len(typed) /\ typed = [i \in 1 .. n |-> typed[i]]
      BY <1>1 DEF TypedInv, IsList
    <3>2. DOMAIN typed' = 1 .. n /\ typed' = [i \in DOMAIN typed' |-> typed'[i]]
      BY <1>1, <3>1
    <3>3. Len(typed') = n
      BY <3>1, <3>2
    <3> QED BY <3>1, <3>2, <3>3 DEF IsList
  <2>2. values' = <<>>
    BY <1>2 DEF Freed
  <2> QED BY <1>2, <2>1, <2>2, IdleTyped
<1>3. CASE \E v \in Parsed(line) :
             /\ values' = Append(values, [key |-> key, t |-> v.t, data |-> v.data])
             /\ Len(values') < nrvals /\ mode' = "key" /\ nrvals' = nrvals
  <2>1. PICK v \in Parsed(line) :
             /\ values' = Append(values, [key |-> key, t |-> v.t, data |-> v.data])
             /\ Len(values') < nrvals /\ mode' = "key" /\ nrvals' = nrvals
    BY <1>3
  <2>2. PICK ts : ts = typed'
    OBVIOUS
  <2>3. PICK vs : vs = values'
    OBVIOUS
  <2>4. /\ ts = [typed EXCEPT ![Len(typed)].value = <<line>>]
        /\ vs = Append(values, [key |-> key, t |-> v.t, data |-> v.data])
    BY <1>1, <2>1, <2>2, <2>3
  <2>5. /\ IsList(ts) /\ IsList(vs)
        /\ Len(vs) = Len(values) + 1 /\ Len(ts) = Len(vs)
        /\ \A i \in 1 .. Len(vs) : Answers(ts[i], vs[i])
    BY <1>1, <2>4, AnswerTyped
  <2>6. nrvals \in Nat /\ nrvals <= MaxValues
    BY <1>1 DEF TypedInv
  <2>7. PICK n \in Nat : n = Len(values') /\ Len(typed') = n
    BY <2>2, <2>3, <2>5 DEF IsList
  <2>8. IsList(typed') /\ IsList(values')
    BY <2>2, <2>3, <2>5
  <2>9. \A i \in 1 .. Len(values') : Answers(typed'[i], values'[i])
    BY <2>2, <2>3, <2>5
  <2>10. mode' # "value" /\ nrvals' = nrvals /\ Len(values') < nrvals'
    BY <2>1
  <2>11. Len(typed') = Len(values') + 0
    BY <2>7
  <2> QED BY <2>1, <2>6, <2>8, <2>9, <2>10, <2>11 DEF TypedInv
<1> QED
  <2>1. CASE Return(FALSE) /\ Freed
    BY <1>2, <2>1, ReturnsMode
  <2>2. CASE (\E vs : StoreValues(vs)) /\ Freed
    BY <1>2, <2>2, ReturnsMode DEF StoreValues
  <2>3. CASE \E v \in Parsed(line) :
               LET vs == Append(values, [key |-> key, t |-> v.t, data |-> v.data])
               IN  /\ Len(vs) < nrvals
                   /\ mode' = "key" /\ values' = vs
                   /\ UNCHANGED <<startVars, disk, hiveVars, nrvals, key, r, failed>>
    BY <1>3, <2>3
  <2> QED BY <2>1, <2>2, <2>3 DEF ReadValue

LEMMA AppendList ==
  ASSUME NEW S, NEW s \in Seq(S), NEW w \in S, NEW n, n = Len(s)
  PROVE  /\ Len(Append(s, w)) = n + 1 /\ Append(s, w)[n + 1] = w
         /\ Append(s, w) = [i \in 1 .. (n + 1) |-> Append(s, w)[i]]
         /\ \A i \in 1 .. n : Append(s, w)[i] = s[i]
<1>1. PICK a : a = Append(s, w)
  OBVIOUS
<1>2. a \in Seq(S) /\ Len(a) = n + 1
  BY <1>1, AppendProperties
<1>3. a[n + 1] = w /\ \A i \in 1 .. n : a[i] = s[i]
  BY <1>1, AppendProperties
<1>4. a = [i \in 1 .. Len(a) |-> a[i]]
  BY <1>2
<1> QED BY <1>1, <1>2, <1>3, <1>4

LEMMA ReadKeyTyped ==
  ASSUME TypedInv, NEW line \in KeyLines, ReadKey(line)
  PROVE  TypedInv'
<1>1. /\ mode = "key" /\ mode' = "value" /\ values' = values /\ nrvals' = nrvals
      /\ key' = IF line = "@" THEN "" ELSE line
      /\ typed' = Append(typed, [key |-> line, value |-> <<>>])
  BY ZenonT(60) DEF ReadKey
<1>0. PICK n \in Nat : n = Len(values)
  BY DEF TypedInv, IsList
<1>2. n \in Nat /\ n = Len(values) /\ Len(typed) = n
  <2>1. Len(typed) = n + 0
    BY <1>0, <1>1 DEF TypedInv
  <2>2. Len(typed) = n
    BY <2>1
  <2> QED BY <1>0, <2>2
<1>3. /\ typed = [i \in 1 .. n |-> typed[i]]
      /\ \A i \in 1 .. n : Answers(typed[i], values[i])
  BY <1>1, <1>2 DEF TypedInv, IsList
<1>4. PICK w : w = [key |-> line, value |-> <<>>]
  OBVIOUS
<1>5. PICK ts : ts = typed'
  OBVIOUS
<1>6. /\ Len(ts) = n + 1 /\ ts[n + 1] = w /\ ts = [i \in 1 .. (n + 1) |-> ts[i]]
      /\ \A i \in 1 .. n : ts[i] = typed[i]
  <2>1. PICK S : S = {typed[i] : i \in 1 .. n} \cup {w}
    OBVIOUS
  <2>2. typed \in Seq(S) /\ w \in S
    BY <1>2, <1>3, <2>1
  <2>3. ts = Append(typed, w)
    BY <1>1, <1>4, <1>5
  <2>4. PICK s \in Seq(S) : s = typed /\ Len(s) = n
    BY <1>2, <2>2
  <2>5. PICK a : a = Append(s, w)
    OBVIOUS
  <2>6. /\ Len(a) = n + 1 /\ a[n + 1] = w /\ a = [i \in 1 .. (n + 1) |-> a[i]]
        /\ \A i \in 1 .. n : a[i] = s[i]
    BY <2>2, <2>4, <2>5, AppendList
  <2> QED BY <2>3, <2>4, <2>5, <2>6
<1>7. IsList(typed')
  <2>1. PICK m \in Nat : m = n + 1
    BY <1>2
  <2>2. Len(ts) = m /\ ts = [i \in 1 .. m |-> ts[i]]
    BY <1>6, <2>1
  <2> QED BY <1>5, <2>2 DEF IsList
<1>8. \A i \in 1 .. Len(values') : Answers(typed'[i], values'[i])
  BY <1>1, <1>2, <1>3, <1>5, <1>6
<1>9. Len(typed') = Len(values') + 1
  BY <1>1, <1>2, <1>5, <1>6
<1>10. /\ nrvals' \in Nat /\ nrvals' <= MaxValues /\ Len(values') < nrvals'
       /\ IsList(values')
  BY <1>1 DEF TypedInv
<1>11. typed'[Len(typed')] = w
  BY <1>5, <1>6
<1>12. w.key = line /\ w = [key |-> w.key, value |-> <<>>]
  BY <1>4
<1> QED BY <1>1, <1>7, <1>8, <1>9, <1>10, <1>11, <1>12 DEF TypedInv

LEMMA SetvalTyped ==
  ASSUME TypedInv, NEW text \in Counts, cmd_setval(text)
  PROVE  TypedInv'
<1>1. Counted(SetvalCost)
  BY DEF cmd_setval
<1>2. CASE mode' \notin {"key", "value"} /\ values' = values
  BY <1>1, <1>2, CommandTyped
<1>3. CASE /\ mode' = "key" /\ values' = values
           /\ nrvals' \in 0 .. MaxValues /\ nrvals' > 0
  <2>1. values' = <<>> /\ typed' = <<>>
    BY <1>1, <1>3 DEF Counted, TypedInv
  <2>2. IsList(<<>>) /\ Len(<<>>) = 0
    BY DEF IsList
  <2>3. nrvals' \in Nat /\ nrvals' <= MaxValues /\ 0 < nrvals'
    <3>1. PICK m \in Nat : m = MaxValues
      BY ShellAssumption
    <3>2. PICK k : k = nrvals'
      OBVIOUS
    <3>3. k \in 0 .. m /\ k > 0
      BY <1>3, <3>1, <3>2
    <3>4. k \in Nat /\ k <= m /\ 0 < k
      BY <3>1, <3>3
    <3> QED BY <3>1, <3>2, <3>4
  <2>4. \A i \in 1 .. Len(values') : Answers(typed'[i], values'[i])
    BY <2>1, <2>2
  <2>5. Len(typed') = Len(values') + 0 /\ Len(values') < nrvals'
    BY <2>1, <2>2, <2>3
  <2> QED BY <1>3, <2>1, <2>2, <2>3, <2>4, <2>5 DEF TypedInv
<1> QED
  <2>1. PICK n : n = xstrtol(text, {}, LongBits)
    OBVIOUS
  <2>2. CASE Fail
    BY <1>2, <2>2, ReturnsMode DEF Fail, setvalVars
  <2>3. CASE StoreValues(<<>>) /\ UNCHANGED setvalVars
    BY <1>2, <2>3, ReturnsMode DEF StoreValues, setvalVars
  <2>4. CASE /\ n.val \in 0 .. MaxValues /\ n.val > 0 /\ mode' = "key"
             /\ nrvals' = n.val /\ UNCHANGED values
    BY <1>3, <2>4
  <2> QED BY <2>1, <2>2, <2>3, <2>4 DEF cmd_setval

LEMMA NextTyped == TypedInv /\ [Next]_vars => TypedInv'
<1> SUFFICES ASSUME TypedInv, [Next]_vars PROVE TypedInv'
  OBVIOUS
<1>1. CASE UNCHANGED vars
  BY <1>1 DEF vars, setvalVars, TypedInv
<1>2. CASE CannotStart \/ Quit
  <2>1. mode = "loop" /\ mode' \in {"failure", "exited"} /\ values' = values
        /\ typed' = typed
    BY <1>2 DEF CannotStart, Quit, setvalVars
  <2>2. values' = <<>> /\ IsList(typed')
    BY <2>1 DEF TypedInv
  <2> QED BY <2>1, <2>2, IdleTyped
<1>3. CASE Shown \/ Refused
  <2>1. Command /\ values' = values /\ \E ok : Return(ok)
    BY <1>3 DEF Shown, Refused, Fail, setvalVars
  <2> QED BY <2>1, ReturnsMode, CommandTyped DEF Command
<1>4. CASE EndOfInput \/ NoMemory
  <2>1. mode' \in {"failure", "exited"} /\ values' = <<>> /\ typed' = typed
    BY <1>4 DEF EndOfInput, NoMemory, Freed
  <2>2. IsList(typed')
    BY <2>1 DEF TypedInv
  <2> QED BY <2>1, <2>2, IdleTyped
<1>5. ASSUME NEW file, NEW node, set_prompt_string(file, node)
      PROVE  mode' \notin {"key", "value"}
  <2>1. CASE NoMemstream \/ mode' \in {"aborted", "overflow"}
    BY <2>1 DEF NoMemstream
  <2>2. CASE Return(TRUE)
    BY <2>2, ReturnsMode
  <2> QED BY <1>5, <2>1, <2>2 DEF set_prompt_string
<1>6. CASE \E f \in Files : cmd_load(f) \/ cmd_commit(f)
  <2>1. PICK f \in Files : cmd_load(f) \/ cmd_commit(f)
    BY <1>6
  <2>2. Command /\ values' = values
    BY <2>1 DEF cmd_load, cmd_commit, setvalVars
  <2>3. mode' \notin {"key", "value"}
    BY <1>5, <2>1, ReturnsMode DEF cmd_load, cmd_commit
  <2> QED BY <2>2, <2>3, CommandTyped DEF Command
<1>7. CASE cmd_close
  <2>1. Command /\ values' = values /\ (Return(TRUE) \/ NoMemstream)
    BY <1>7 DEF cmd_close, setvalVars
  <2>2. mode' \notin {"key", "value"}
    BY <2>1, ReturnsMode DEF NoMemstream
  <2> QED BY <2>1, <2>2, CommandTyped DEF Command
<1>8. CASE cmd_del
  <2>1. Command /\ values' = values
    BY <1>8 DEF cmd_del, Fail, setvalVars
  <2>2. mode' \notin {"key", "value"}
    BY <1>5, <1>8, ReturnsMode DEF cmd_del, Fail
  <2> QED BY <2>1, <2>2, CommandTyped DEF Command
<1>9. CASE \E p \in Paths : cmd_cd(p)
  <2>1. PICK p \in Paths : cmd_cd(p)
    BY <1>9
  <2>2. Command /\ values' = values
    BY <2>1 DEF cmd_cd, Fail, setvalVars
  <2>3. mode' \notin {"key", "value"}
    BY <1>5, <2>1, ReturnsMode DEF cmd_cd, Fail
  <2> QED BY <2>2, <2>3, CommandTyped DEF Command
<1>10. CASE \E n \in Names : cmd_add(n)
  <2>1. PICK n \in Names : cmd_add(n)
    BY <1>10
  <2>2. Command /\ values' = values /\ \E ok : Return(ok)
    BY <2>1 DEF cmd_add, Fail, setvalVars
  <2> QED BY <2>2, ReturnsMode, CommandTyped DEF Command
<1>11. CASE \E t \in Counts : cmd_setval(t)
  BY <1>11, SetvalTyped
<1>12. CASE \E k \in KeyLines : ReadKey(k)
  BY <1>12, ReadKeyTyped
<1>13. CASE \E v \in ValueLines : ReadValue(v)
  BY <1>13, ReadValueTyped
<1> QED BY <1>1, <1>2, <1>3, <1>4, <1>6, <1>7, <1>8, <1>9, <1>10,
           <1>11, <1>12, <1>13
        DEF Next

(* setval is all or nothing, for any number of lines: values change only   *)
(* when all lines have been read and could be parsed, and then each value  *)
(* is stored under its own key, in its place.                              *)
THEOREM SetvalCorrect == Spec => SetvalWhole
<1>1. ASSUME TypedInv, Next, SetvalChanges
      PROVE  StoresAll
  <2>1. mode \in {"key", "value"} /\ keys' # keys
    BY <1>1 DEF SetvalChanges
  <2>2. PICK line \in ValueLines : ReadValue(line)
    BY <1>1, <2>1
    DEF Next, CannotStart, Shown, Refused, Quit, EndOfInput, NoMemory, cmd_load,
        cmd_commit, cmd_close, cmd_del, cmd_cd, cmd_add, cmd_setval, ReadKey, Command,
        Counted, hiveVars
  <2>3. mode = "value" /\ typed' = [typed EXCEPT ![Len(typed)].value = <<line>>]
    BY <2>2 DEF ReadValue
  <2>4. PICK v \in Parsed(line) :
          LET vs == Append(values, [key |-> key, t |-> v.t, data |-> v.data])
          IN  Len(vs) = nrvals /\ StoreValues(vs)
    BY <2>1, <2>2 DEF ReadValue, hiveVars
  <2>5. PICK vs : vs = Append(values, [key |-> key, t |-> v.t, data |-> v.data])
    OBVIOUS
  <2>6. Len(vs) = nrvals /\ StoreValues(vs)
    BY <2>4, <2>5
  <2>7. PICK ts : ts = typed'
    OBVIOUS
  <2>8. /\ Len(ts) = Len(vs) /\ \A i \in 1 .. Len(vs) : Answers(ts[i], vs[i])
    BY <1>1, <2>3, <2>5, <2>7, AnswerTyped
  <2>9. /\ Here \in DOMAIN keys
        /\ \/ keys' = R!WithValues(keys, Here, vs)
           \/ Return(FALSE) /\ \E left : keys' = [keys EXCEPT ![Here] = left]
    BY <2>1, <2>6 DEF StoreValues, hiveVars
  <2>10. \E left : keys' = [keys EXCEPT ![Here] = left]
    BY <2>9 DEF R!WithValues
  <2>11. DOMAIN keys' = DOMAIN keys /\ \A q \in DOMAIN keys \ {Here} : keys'[q] = keys[q]
    BY <2>10
  <2>12. nrvals \in Nat /\ nrvals <= MaxValues /\ MaxValues \in Nat
    BY <1>1, <2>3, ShellAssumption DEF TypedInv
  <2>13. ~(Len(vs) > MaxValues)
    BY <2>6, <2>12
  <2>14. ASSUME r' = 0
         PROVE  keys'[Here].list = vs
    <3>1. ~Return(FALSE)
      BY <2>14 DEF Return
    <3>2. keys' = R!WithValues(keys, Here, vs)
      BY <2>9, <3>1
    <3>3. keys'[Here] = [ok |-> TRUE, list |-> vs]
      BY <2>9, <2>13, <3>2 DEF R!WithValues, R!Readable
    <3> QED BY <3>3
  <2>15. Len(typed') = nrvals
    BY <2>6, <2>7, <2>8
  <2>16. \A i \in 1 .. nrvals :
           /\ Parsed(typed'[i].value[1]) # {}
           /\ vs[i].key = KeyOf(typed'[i]) /\ ParsedAs(typed'[i].value[1], vs[i])
    BY <2>6, <2>7, <2>8 DEF Answers
  <2> QED BY <2>6, <2>11, <2>14, <2>15, <2>16 DEF StoresAll
<1>2. TypedInv /\ [Next]_vars => [SetvalChanges => StoresAll]_vars
  BY <1>1
<1>3. TypedInv /\ [Next]_vars => TypedInv'
  BY NextTyped
<1> QED BY <1>2, <1>3, InitTyped, PTL DEF Spec, SetvalWhole
=============================================================================
