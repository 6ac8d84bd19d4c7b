------------------------- MODULE HiveRecordsProofs -------------------------
(***************************************************************************)
(* Proofs about HiveTree, for hives of any size.  VisitsOnce holds however *)
(* the records are linked; TypeOK and SkSound hold when the records are    *)
(* sound as the handle is opened, from an inductive invariant on what      *)
(* every record refers to.                                                 *)
(***************************************************************************)
EXTENDS HiveTree, ListLemmas, FiniteSetTheorems, TLAPS

-----------------------------------------------------------------------------
(* The visitor of a deletion: nothing is assumed of the hive. *)

IsFrames(fs) == Len(fs) \in Nat /\ fs = [i \in 1 .. Len(fs) |-> fs[i]]

(* While hivex_node_delete_child runs, the nodes under visit (all frames   *)
(* but the one at the bottom) are pairwise distinct, and their bits in     *)
(* "unvisited" have been cleared.                                          *)
StackInv ==
  pc = "delete" =>
    /\ IsFrames(frames) /\ Len(frames) > 0
    /\ \A i \in 1 .. (Len(frames) - 1) : frames[i].node \notin unvisited
    /\ \A i, j \in 1 .. (Len(frames) - 1) :
         frames[i].node = frames[j].node => i = j

(* What pushing a frame onto the visitor's stack does to it. *)
LEMMA Push ==
  ASSUME NEW fs, IsFrames(fs), Len(fs) > 0, NEW a, NEW b
  PROVE  LET gs == <<a, b>> \o Tail(fs) IN
         /\ IsFrames(gs) /\ Len(gs) = Len(fs) + 1
         /\ gs[1] = a /\ gs[2] = b
         /\ \A i \in 3 .. Len(gs) : gs[i] = fs[i - 1]
<1> DEFINE S == {fs[i] : i \in 1 .. Len(fs)} \cup {a, b}
           gs == <<a, b>> \o Tail(fs)
<1>1. fs \in Seq(S)
  BY DEF IsFrames
<1>2. Tail(fs) \in Seq(S) /\ Len(Tail(fs)) = Len(fs) - 1
  BY <1>1 DEF IsFrames
<1>3. \A i \in 1 .. (Len(fs) - 1) : Tail(fs)[i] = fs[i + 1]
  BY <1>1
<1>4. <<a, b>> \in Seq(S) /\ Len(<<a, b>>) = 2
  OBVIOUS
<1>5. gs \in Seq(S) /\ Len(gs) = Len(fs) + 1
  BY <1>2, <1>4 DEF IsFrames
<1>6. gs[1] = a /\ gs[2] = b
  BY <1>2, <1>4
<1>7. \A i \in 3 .. Len(gs) : gs[i] = Tail(fs)[i - 2]
  BY <1>2, <1>4, <1>5 DEF IsFrames
<1>8. \A i \in 3 .. Len(gs) : gs[i] = fs[i - 1]
  BY <1>3, <1>5, <1>7 DEF IsFrames
<1>9. IsFrames(gs)
  BY <1>5 DEF IsFrames
<1> QED BY <1>5, <1>6, <1>8, <1>9

(* What popping one does. *)
LEMMA Pop ==
  ASSUME NEW fs, IsFrames(fs), Len(fs) > 1
  PROVE  /\ IsFrames(Tail(fs)) /\ Len(Tail(fs)) = Len(fs) - 1
         /\ \A i \in 1 .. (Len(fs) - 1) : Tail(fs)[i] = fs[i + 1]
<1> DEFINE S == {fs[i] : i \in 1 .. Len(fs)}
<1>1. fs \in Seq(S)
  BY DEF IsFrames
<1>2. Tail(fs) \in Seq(S) /\ Len(Tail(fs)) = Len(fs) - 1
  BY <1>1 DEF IsFrames
<1>3. \A i \in 1 .. (Len(fs) - 1) : Tail(fs)[i] = fs[i + 1]
  BY <1>1
<1>4. ASSUME NEW ts \in Seq(S)
      PROVE  IsFrames(ts)
  BY DEF IsFrames
<1>5. IsFrames(Tail(fs))
  BY <1>2, <1>4
<1> QED BY <1>2, <1>3, <1>5

(* No call is under way in the initial states. *)
LEMMA InitStack == Init => StackInv
BY DEF Init, StackInv

(* hivex_node_delete_child starts with its own frame only. *)
LEMMA DeleteBeginStack ==
  ASSUME NEW n, DeleteBegin(n)
  PROVE  StackInv'
<1>1. PICK f : frames' = <<f>>
  BY DEF DeleteBegin
<1>2. Len(frames') = 1 /\ frames' = [i \in 1 .. 1 |-> frames'[i]]
  BY <1>1
<1> QED BY <1>2 DEF StackInv, IsFrames

(* hivex__visit_node clears the bit of a node it has found set, so the     *)
(* node is none of those already under visit.                              *)
LEMMA VisitNodeStack ==
  ASSUME StackInv, VisitNode
  PROVE  StackInv'
<1> DEFINE c == Head(Top.rest)
           a == [node |-> c, rest |-> Children(c)]
           b == [node |-> Top.node, rest |-> Tail(Top.rest)]
<1>1. pc = "delete" /\ pc' = "delete"
  BY DEF VisitNode
<1>2. IsFrames(frames) /\ Len(frames) > 0
  BY <1>1 DEF StackInv
<1>3. frames' = <<a, b>> \o Tail(frames)
  BY DEF VisitNode
<1>4. c \in unvisited /\ unvisited' = unvisited \ {c}
  BY DEF VisitNode, Unvisited
<1>5. a.node = c
  OBVIOUS
<1>6. Top = frames[1]
  BY <1>2 DEF Top, IsFrames
<1>7. IsFrames(frames') /\ Len(frames') = Len(frames) + 1
  BY <1>2, <1>3, Push
<1>8. frames'[1] = a /\ frames'[2] = b
  BY <1>2, <1>3, Push
<1>9. \A i \in 3 .. Len(frames') : frames'[i] = frames[i - 1]
  BY <1>2, <1>3, Push
<1>10. \A i \in 2 .. Len(frames') : frames'[i].node = frames[i - 1].node
  <2> SUFFICES ASSUME NEW i \in 2 .. Len(frames')
               PROVE  frames'[i].node = frames[i - 1].node
    OBVIOUS
  <2>1. CASE i = 2
    BY <2>1, <1>6, <1>8
  <2>2. CASE i # 2
    BY <2>2, <1>2, <1>7, <1>9 DEF IsFrames
  <2> QED BY <2>1, <2>2
<1>11. \A i \in 1 .. (Len(frames') - 1) : frames'[i].node \notin unvisited'
  <2> SUFFICES ASSUME NEW i \in 1 .. (Len(frames') - 1)
               PROVE  frames'[i].node \notin unvisited'
    OBVIOUS
  <2>1. CASE i = 1
    BY <2>1, <1>4, <1>5, <1>8
  <2>2. CASE i # 1
    BY <2>2, <1>1, <1>2, <1>4, <1>7, <1>10 DEF StackInv, IsFrames
  <2> QED BY <2>1, <2>2
<1>12. \A i \in 2 .. (Len(frames') - 1) : frames'[i].node # c
  BY <1>1, <1>2, <1>4, <1>7, <1>10 DEF StackInv, IsFrames
<1>13. \A i, j \in 2 .. (Len(frames') - 1) :
         frames'[i].node = frames'[j].node => i = j
  <2> SUFFICES ASSUME NEW i \in 2 .. (Len(frames') - 1),
                      NEW j \in 2 .. (Len(frames') - 1),
                      frames'[i].node = frames'[j].node
               PROVE  i = j
    OBVIOUS
  <2>1. i - 1 \in 1 .. (Len(frames) - 1) /\ j - 1 \in 1 .. (Len(frames) - 1)
    BY <1>2, <1>7 DEF IsFrames
  <2>2. frames[i - 1].node = frames[j - 1].node
    BY <1>2, <1>7, <1>10 DEF IsFrames
  <2>3. i - 1 = j - 1
    BY <1>1, <2>1, <2>2 DEF StackInv
  <2> QED BY <2>3
<1>14. \A i, j \in 1 .. (Len(frames') - 1) :
         frames'[i].node = frames'[j].node => i = j
  <2> SUFFICES ASSUME NEW i \in 1 .. (Len(frames') - 1),
                      NEW j \in 1 .. (Len(frames') - 1),
                      frames'[i].node = frames'[j].node
               PROVE  i = j
    OBVIOUS
  <2>1. CASE i = 1 \/ j = 1
    BY <2>1, <1>5, <1>7, <1>8, <1>12 DEF IsFrames
  <2>2. CASE i # 1 /\ j # 1
    BY <2>2, <1>7, <1>13 DEF IsFrames
  <2> QED BY <2>1, <2>2
<1> HIDE DEF a, b, c
<1> QED BY <1>2, <1>7, <1>11, <1>14 DEF StackInv, IsFrames

(* delete_node returns: the innermost visit ends. *)
LEMMA DeleteNodeStack ==
  ASSUME StackInv, DeleteNode
  PROVE  StackInv'
<1>1. pc = "delete" /\ pc' = "delete" /\ Len(frames) > 1
  BY DEF DeleteNode, AtNodeEnd
<1>2. IsFrames(frames)
  BY <1>1 DEF StackInv
<1>3. frames' = Tail(frames) /\ unvisited' = unvisited
  BY DEF DeleteNode
<1>4. IsFrames(frames') /\ Len(frames') = Len(frames) - 1
  BY <1>1, <1>2, <1>3, Pop
<1>5. \A i \in 1 .. Len(frames') : frames'[i] = frames[i + 1]
  BY <1>1, <1>2, <1>3, <1>4, Pop
<1>6. \A i \in 1 .. (Len(frames') - 1) : frames'[i].node \notin unvisited'
  BY <1>1, <1>2, <1>3, <1>4, <1>5 DEF StackInv, IsFrames
<1>7. \A i, j \in 1 .. (Len(frames') - 1) :
        frames'[i].node = frames'[j].node => i = j
  <2> SUFFICES ASSUME NEW i \in 1 .. (Len(frames') - 1),
                      NEW j \in 1 .. (Len(frames') - 1),
                      frames'[i].node = frames'[j].node
               PROVE  i = j
    OBVIOUS
  <2>1. i + 1 \in 1 .. (Len(frames) - 1) /\ j + 1 \in 1 .. (Len(frames) - 1)
    BY <1>2, <1>4 DEF IsFrames
  <2>2. frames[i + 1].node = frames[j + 1].node
    BY <1>2, <1>4, <1>5 DEF IsFrames
  <2>3. i + 1 = j + 1
    BY <1>1, <2>1, <2>2 DEF StackInv
  <2> QED BY <2>3
<1> QED BY <1>1, <1>2, <1>4, <1>6, <1>7 DEF StackInv, IsFrames

(* Every other step leaves no visit under way. *)
LEMMA NotDeleting ==
  ASSUME pc' # "delete"
  PROVE  StackInv'
BY DEF StackInv

(* Every step preserves the invariant of the visitor's stack. *)
LEMMA NextStack == StackInv /\ [Next]_vars => StackInv'
<1> SUFFICES ASSUME StackInv, [Next]_vars
             PROVE  StackInv'
  OBVIOUS
<1>1. CASE UNCHANGED vars
  BY <1>1 DEF StackInv, IsFrames, vars, callVars
<1>2. CASE OutOfMemory
  BY <1>2, NotDeleting DEF OutOfMemory, Refuse, Return
<1>3. ASSUME NEW n \in handles, NEW name \in Names,
             \/ AddChildRefused(n, name) \/ AddChildNoSk(n, name)
             \/ AddChildFails(n, name) \/ AddFirstChild(n, name)
             \/ InsertChild(n, name)
      PROVE  StackInv'
  BY <1>3, NotDeleting
  DEF AddChildRefused, AddChildNoSk, AddChildFails, AddFirstChild,
      InsertChild, LinkNode, Refuse, Return
<1>4. ASSUME NEW n \in handles, DeleteRefused(n)
      PROVE  StackInv'
  BY <1>4, NotDeleting DEF DeleteRefused, Refuse, Return
<1>5. ASSUME NEW n \in handles, DeleteBegin(n)
      PROVE  StackInv'
  BY <1>5, DeleteBeginStack
<1>6. ASSUME NEW n \in handles, NEW vs, SetValues(n, vs)
      PROVE  StackInv'
  BY <1>6, NotDeleting
  DEF SetValues, SetValuesRefused, SetValuesAborts, ClearValues,
      SetValuesBegin, Refuse, Return, Abort
<1>7. ASSUME NEW n \in handles, SetValueRefused(n)
      PROVE  StackInv'
  BY <1>7, NotDeleting DEF SetValueRefused, Refuse, Return
<1>8. ASSUME NEW n \in handles, NEW v \in Values, SetValue(n, v)
      PROVE  StackInv'
  BY <1>6, <1>8 DEF SetValue
<1>9. CASE VisitNode
  BY <1>9, VisitNodeStack
<1>10. CASE DeleteNode
  BY <1>10, DeleteNodeStack
<1>11. CASE \/ DeleteNodeNoValues \/ DeleteNodeNoSk \/ DeleteNodeAborts
            \/ Unlink \/ DeleteFails
  BY <1>11, NotDeleting
  DEF DeleteNodeNoValues, DeleteNodeNoSk, DeleteNodeAborts, Unlink,
      DeleteFails, Return, Abort
<1>12. CASE StoreValue
  BY <1>12, NotDeleting DEF StoreValue, Return
<1>13. CASE StoreRecordFails \/ StoreDataFails
  BY <1>13, NotDeleting DEF StoreRecordFails, StoreDataFails, Return
<1> QED
  BY <1>1, <1>2, <1>3, <1>4, <1>5, <1>6, <1>7, <1>8, <1>9, <1>10, <1>11,
     <1>12, <1>13
  DEF Next

(* The recursion of hivex__visit_node under hivex_node_delete_child never  *)
(* enters a node it is inside of, for any hive at all: cycles, shared      *)
(* children and lists that disagree included.                              *)
THEOREM VisitsOnceCorrect == Spec => []VisitsOnce
<1>1. StackInv => VisitsOnce
  BY DEF StackInv, VisitsOnce
<1> QED BY <1>1, InitStack, NextStack, PTL DEF Spec

-----------------------------------------------------------------------------
(* The inductive invariant *)

NodeType ==
  [name : STRING, parent : Nat, nr_subkeys : Nat, subkey_lf : Int,
   nr_values : Nat, vallist : Int, sk : Int, classname : Int]

SkType == [refcount : Nat, next : Nat, prev : Nat]

VkType == [key : STRING, t : STRING, inline : BOOLEAN, data : Nat]

(* Blocks that have been allocated, in use or not. *)
Allocated == 1 .. (next - 1)

RecordTypes ==
  /\ next \in Nat \ {0} /\ valid \subseteq Allocated
  /\ DOMAIN nk \subseteq Allocated /\ nk \in [DOMAIN nk -> NodeType]
  /\ DOMAIN lf \subseteq Allocated /\ lf \in [DOMAIN lf -> Seq(Nat)]
  /\ DOMAIN ri \subseteq Allocated /\ ri \in [DOMAIN ri -> Seq(Nat)]
  /\ DOMAIN sk \subseteq Allocated /\ sk \in [DOMAIN sk -> SkType]
  /\ DOMAIN vl \subseteq Allocated /\ vl \in [DOMAIN vl -> Seq(Nat)]
  /\ DOMAIN vk \subseteq Allocated /\ vk \in [DOMAIN vk -> VkType]
  /\ DOMAIN db \subseteq Allocated /\ db \in [DOMAIN db -> Nat]

(* A block is one record, of one kind. *)
KindsApart ==
  /\ DOMAIN nk \cap UNION {DOMAIN lf, DOMAIN ri, DOMAIN sk, DOMAIN vl,
                           DOMAIN vk, DOMAIN db} = {}
  /\ DOMAIN sk \cap UNION {DOMAIN lf, DOMAIN ri, DOMAIN vl, DOMAIN vk,
                           DOMAIN db} = {}

(* An offset field holds a block that has been allocated, or none. *)
Offsets == {None, Zero} \cup Allocated

(* What records refer to: a record of the kind they must. *)
References ==
  /\ \A n \in DOMAIN nk :
       /\ nk[n].parent \in Allocated
       /\ nk[n].subkey_lf \in Offsets /\ nk[n].vallist \in Offsets
       /\ nk[n].sk \in Offsets
       /\ nk[n].nr_values > 0 => nk[n].vallist \in DOMAIN vl
       /\ nk[n].classname \in DOMAIN db \cup {None}
  /\ \A l \in DOMAIN vl : ToSet(vl[l]) \subseteq DOMAIN vk \cup {Zero}
  /\ \A v \in DOMAIN vk : vk[v].inline \/ vk[v].data \in DOMAIN db \cup {Zero}
  /\ root \in Nodes /\ \A l \in DOMAIN lf : root \notin ToSet(lf[l])

(* Every node has an sk record, and SkSound. *)
SkInv ==
  /\ \A n \in Nodes : HasSk(n)
  /\ \A s \in valid \cap DOMAIN sk :
       /\ sk[s].refcount = Cardinality({n \in Nodes : nk[n].sk = s})
       /\ sk[s].next \in valid \cap DOMAIN sk
       /\ sk[s].prev \in valid \cap DOMAIN sk
       /\ sk[sk[s].next].prev = s /\ sk[sk[s].prev].next = s

(* What hivex_open must find for the properties below to hold. *)
SoundRecords == RecordTypes /\ KindsApart /\ References /\ SkInv

FrameType == [node : Nat, rest : Seq(Nat \ {root})]

(* The call under way.  The nodes under visit have not been freed. *)
CallInv ==
  /\ pc \in {"idle", "delete", "set", "aborted"} /\ ret \in {"ok", "error"}
  /\ pc = "delete" =>
       /\ frames \in Seq(FrameType) /\ frames # <<>> /\ target \in DOMAIN nk
       /\ \A i \in 1 .. (Len(frames) - 1) : frames[i].node \in Nodes \ {root}
  /\ pc = "set" =>
       /\ target \in Nodes /\ list \in Seq(ValueType)
       /\ stored \in Nat /\ stored < Len(list)
       /\ nk[target].nr_values = Len(list)
       /\ Len(vl[nk[target].vallist]) = Len(list)
  /\ pc = "idle" => frames = <<>> /\ list = <<>> /\ target = None

HistoryInv ==
  /\ handles \subseteq DOMAIN nk /\ torn \subseteq DOMAIN nk
  /\ orphans \subseteq DOMAIN nk /\ partial \in BOOLEAN

RecordsInv == SoundRecords /\ CallInv /\ HistoryInv

-----------------------------------------------------------------------------
(* Operators *)

LEMMA NewRecordType ==
  ASSUME NEW S, NEW f, NEW b, NEW r \in S, f \in [DOMAIN f -> S]
  PROVE  NewRecord(f, b, r) \in [DOMAIN NewRecord(f, b, r) -> S]
BY DEF NewRecord

(* Nodes with other fields. *)
LEMMA SubkeysChanged ==
  ASSUME NEW q \in NodeType, NEW k \in Nat, NEW b \in Int, NEW r,
         r = [q EXCEPT !.nr_subkeys = k, !.subkey_lf = b]
  PROVE  r \in NodeType
<1>1. /\ q.name \in STRING /\ q.parent \in Nat /\ q.nr_values \in Nat
      /\ q.vallist \in Int /\ q.sk \in Int /\ q.classname \in Int
  BY DEF NodeType
<1>2. r = [name |-> q.name, parent |-> q.parent, nr_subkeys |-> k,
           subkey_lf |-> b, nr_values |-> q.nr_values, vallist |-> q.vallist,
           sk |-> q.sk, classname |-> q.classname]
  BY DEF NodeType
<1> QED BY <1>1, <1>2 DEF NodeType

LEMMA ValuesChanged ==
  ASSUME NEW q \in NodeType, NEW k \in Nat, NEW b \in Int, NEW r,
         r = [q EXCEPT !.nr_values = k, !.vallist = b]
  PROVE  r \in NodeType
<1>1. /\ q.name \in STRING /\ q.parent \in Nat /\ q.nr_subkeys \in Nat
      /\ q.subkey_lf \in Int /\ q.sk \in Int /\ q.classname \in Int
  BY DEF NodeType
<1>2. r = [name |-> q.name, parent |-> q.parent, nr_subkeys |-> q.nr_subkeys,
           subkey_lf |-> q.subkey_lf, nr_values |-> k, vallist |-> b,
           sk |-> q.sk, classname |-> q.classname]
  BY DEF NodeType
<1> QED BY <1>1, <1>2 DEF NodeType

LEMMA RefcountType ==
  ASSUME NEW f, NEW s \in DOMAIN f, NEW k \in Nat, NEW g,
         f \in [DOMAIN f -> SkType], g = [f EXCEPT ![s].refcount = k]
  PROVE  g \in [DOMAIN f -> SkType]
<1>1. f[s] \in SkType
  OBVIOUS
<1>2. DOMAIN g = DOMAIN f /\ g[s] = [f[s] EXCEPT !.refcount = k]
  OBVIOUS
<1>3. \A t \in DOMAIN f : t # s => g[t] = f[t]
  OBVIOUS
<1>4. g[s] \in SkType
  BY <1>1, <1>2 DEF SkType
<1>5. g = [t \in DOMAIN f |-> g[t]]
  OBVIOUS
<1> QED BY <1>2, <1>3, <1>4, <1>5

LEMMA FiniteNodes ==
  ASSUME RecordTypes
  PROVE  IsFiniteSet(Nodes)
<1>1. Nodes \subseteq 1 .. (next - 1)
  BY DEF RecordTypes, Allocated, Nodes
<1>2. next - 1 \in Int
  BY DEF RecordTypes
<1>3. IsFiniteSet(1 .. (next - 1))
  BY <1>2, FS_Interval
<1> QED BY <1>1, <1>3, FS_Subset

(* The nodes that refer to an sk record. *)
Users(s) == {n \in Nodes : nk[n].sk = s}

(* No node gains or loses its sk record. *)
LEMMA SameRefs ==
  ASSUME SkInv, Nodes' = Nodes, sk' = sk,
         valid' \cap DOMAIN sk = valid \cap DOMAIN sk,
         \A m \in Nodes : nk'[m].sk = nk[m].sk
  PROVE  SkInv'
<1>1. \A s : Users(s)' = Users(s)
  BY DEF Users
<1>2. \A m \in Nodes' : HasSk(m)'
  BY DEF SkInv, HasSk
<1>3. \A s \in (valid \cap DOMAIN sk)' :
         sk'[s].refcount = Cardinality(Users(s)')
  BY <1>1 DEF SkInv, Users
<1> QED BY <1>2, <1>3 DEF SkInv, Users

(* No record changes. *)
LEMMA Kept ==
  ASSUME SoundRecords,
         root' = root, valid' = valid, next' = next, nk' = nk, lf' = lf,
         ri' = ri, sk' = sk, vl' = vl, vk' = vk, db' = db
  PROVE  SoundRecords'
<1>1. Nodes' = Nodes
  BY DEF Nodes
<1>2. RecordTypes'
  BY DEF SoundRecords, RecordTypes, Allocated
<1>3. KindsApart'
  BY DEF SoundRecords, KindsApart
<1>4. References'
  BY <1>1 DEF SoundRecords, References, Offsets, Allocated
<1>5. SkInv'
  BY <1>1, SameRefs, SMTT(60) DEF SoundRecords
<1> QED BY <1>2, <1>3, <1>4, <1>5 DEF SoundRecords

(* A new node takes a reference to the sk record of its parent. *)
LEMMA TakeRef ==
  ASSUME NEW p \in Nodes, SoundRecords, Nodes' = Nodes \cup {next},
         sk' = [sk EXCEPT ![nk[p].sk].refcount = @ + 1],
         valid' \cap DOMAIN sk = valid \cap DOMAIN sk,
         nk'[next].sk = nk[p].sk,
         \A m \in Nodes : nk'[m].sk = nk[m].sk
  PROVE  SkInv'
<1>0. PICK s : s = nk[p].sk
  OBVIOUS
<1>1. s \in valid \cap DOMAIN sk /\ sk \in [DOMAIN sk -> SkType]
  BY <1>0 DEF SoundRecords, SkInv, HasSk, RecordTypes
<1>2. next \notin Nodes
  BY DEF SoundRecords, RecordTypes, Allocated, Nodes
<1>3. Users(s)' = Users(s) \cup {next} /\ next \notin Users(s)
  BY <1>0, <1>2 DEF Users
<1>4. \A t : t # s => Users(t)' = Users(t)
  BY <1>0, <1>2 DEF Users
<1>5. IsFiniteSet(Users(s))
  BY FiniteNodes, FS_Subset DEF Users, SoundRecords
<1>6. Cardinality(Users(s)') = Cardinality(Users(s)) + 1
  BY <1>3, <1>5, FS_AddElement
<1>7. /\ DOMAIN sk' = DOMAIN sk
      /\ \A t \in DOMAIN sk : sk'[t].next = sk[t].next /\ sk'[t].prev = sk[t].prev
      /\ \A t \in DOMAIN sk : t # s => sk'[t].refcount = sk[t].refcount
      /\ sk'[s].refcount = sk[s].refcount + 1
  BY <1>0, <1>1 DEF SkType
<1>8. \A t \in valid \cap DOMAIN sk :
        /\ sk[t].refcount = Cardinality(Users(t))
        /\ sk[t].next \in valid \cap DOMAIN sk
        /\ sk[t].prev \in valid \cap DOMAIN sk
        /\ sk[sk[t].next].prev = t /\ sk[sk[t].prev].next = t
  BY DEF SoundRecords, SkInv, Users
<1>9. \A m \in Nodes' : HasSk(m)'
  BY <1>0, <1>1, <1>7 DEF SoundRecords, SkInv, HasSk
<1>10. \A t \in (valid \cap DOMAIN sk)' :
        /\ sk'[t].refcount = Cardinality(Users(t)')
        /\ sk'[t].next \in (valid \cap DOMAIN sk)'
        /\ sk'[t].prev \in (valid \cap DOMAIN sk)'
        /\ sk'[sk'[t].next].prev = t /\ sk'[sk'[t].prev].next = t
  <2> SUFFICES ASSUME NEW t \in valid \cap DOMAIN sk
               PROVE  /\ sk'[t].refcount = Cardinality(Users(t)')
                      /\ sk'[t].next \in valid \cap DOMAIN sk
                      /\ sk'[t].prev \in valid \cap DOMAIN sk
                      /\ sk'[sk'[t].next].prev = t /\ sk'[sk'[t].prev].next = t
    BY <1>7
  <2>1. sk'[t].refcount = Cardinality(Users(t)')
    BY <1>1, <1>4, <1>6, <1>7, <1>8
  <2> QED BY <2>1, <1>7, <1>8, SMTT(60)
<1> QED BY <1>9, <1>10 DEF SkInv, Users

-----------------------------------------------------------------------------
(* Lists of children *)

LEMMA ListsType ==
  ASSUME NEW n \in DOMAIN nk, RecordTypes, ListsOK(n), nk[n].nr_subkeys # 0
  PROVE  /\ Lists(n) \in Seq(Nat) /\ ToSet(Lists(n)) \subseteq valid \cap DOMAIN lf
         /\ \A i \in DOMAIN Lists(n) :
              Lists(n)[i] \in valid \cap DOMAIN lf /\ lf[Lists(n)[i]] \in Seq(Nat)
         /\ [i \in DOMAIN Lists(n) |-> lf[Lists(n)[i]]] \in Seq(Seq(Nat))
<1>1. nk[n].subkey_lf \in Nat /\ ToSet(Lists(n)) \subseteq valid \cap DOMAIN lf
  BY DEF ListsOK, RecordTypes, Allocated
<1>2. Lists(n) \in Seq(Nat)
  <2>1. CASE nk[n].subkey_lf \in DOMAIN ri
    BY <2>1 DEF RecordTypes, Lists
  <2>2. CASE nk[n].subkey_lf \notin DOMAIN ri
    BY <2>2, <1>1 DEF Lists
  <2> QED BY <2>1, <2>2
<1>3. \A i \in DOMAIN Lists(n) : Lists(n)[i] \in valid \cap DOMAIN lf
  BY <1>1 DEF ToSet
<1>4. \A i \in DOMAIN Lists(n) : lf[Lists(n)[i]] \in Seq(Nat)
  BY <1>3 DEF RecordTypes
<1>5. [i \in DOMAIN Lists(n) |-> lf[Lists(n)[i]]] \in Seq(Seq(Nat))
  BY <1>2, <1>4
<1> QED BY <1>1, <1>2, <1>3, <1>4, <1>5

(* The children of a node are what its lists hold. *)
LEMMA ChildrenType ==
  ASSUME NEW n \in DOMAIN nk, RecordTypes, ListsOK(n)
  PROVE  /\ Children(n) \in Seq(Nat)
         /\ \A c \in ToSet(Children(n)) :
              nk[n].nr_subkeys # 0 /\
              \E i \in DOMAIN Lists(n) : c \in ToSet(lf[Lists(n)[i]])
<1>1. CASE nk[n].nr_subkeys = 0
  BY <1>1 DEF Children, ToSet
<1>2. CASE nk[n].nr_subkeys # 0
  <2> DEFINE ss == [i \in DOMAIN Lists(n) |-> lf[Lists(n)[i]]]
  <2>1. ss \in Seq(Seq(Nat)) /\ Lists(n) \in Seq(Nat)
    BY <1>2, ListsType
  <2>2. DOMAIN ss = DOMAIN Lists(n) /\ Len(ss) = Len(Lists(n))
    BY <2>1
  <2>3. \A i \in DOMAIN ss : ss[i] = lf[Lists(n)[i]]
    OBVIOUS
  <2>4. Children(n) = FlattenSeq(ss)
    BY <1>2 DEF Children
  <2> HIDE DEF ss
  <2>5. Children(n) \in Seq(Nat)
    BY <2>1, <2>4, FlattenType
  <2>6. \A c \in ToSet(Children(n)) : \E i \in 1 .. Len(ss) : c \in ToSet(ss[i])
    BY <2>1, <2>4, FlattenMembers
  <2>7. DOMAIN ss = 1 .. Len(ss)
    BY <2>1
  <2> QED BY <1>2, <2>2, <2>3, <2>5, <2>6, <2>7
<1> QED BY <1>1, <1>2

(* A node that has children has a list. *)
LEMMA HasLists ==
  ASSUME NEW n \in DOMAIN nk, RecordTypes, ListsOK(n), nk[n].nr_subkeys # 0
  PROVE  Len(Lists(n)) > 0
<1> SUFFICES ASSUME ~(Len(Lists(n)) > 0)
             PROVE  FALSE
  OBVIOUS
<1>1. Lists(n) \in Seq(Nat)
  BY ListsType
<1>2. Lists(n) = <<>>
  BY <1>1
<1>3. [i \in DOMAIN Lists(n) |-> lf[Lists(n)[i]]] = <<>>
  BY <1>2
<1>4. Children(n) = <<>>
  BY <1>3, FlattenEmpty DEF Children
<1>5. nk[n].nr_subkeys = Len(Children(n))
  BY DEF ListsOK
<1> QED BY <1>4, <1>5

(* Where add_child puts a new key: in one of the lists, behind all keys    *)
(* that do not come after it.                                              *)
LEMMA PlaceFacts ==
  ASSUME NEW n \in DOMAIN nk, NEW name,
         RecordTypes, ListsOK(n), nk[n].nr_subkeys # 0
  PROVE  LET place == Place(n, name)
             old == Lists(n)[place.list]
         IN  /\ place.list \in DOMAIN Lists(n)
             /\ old \in valid \cap DOMAIN lf
             /\ place.at \in 1 .. (Len(lf[old]) + 1)
             /\ \A i \in 1 .. (place.list - 1) : After(Lists(n)[i], name) = {}
             /\ \A j \in 1 .. (place.at - 1) : j \notin After(old, name)
             /\ \/ place.at \in After(old, name)
                \/ /\ place.list = Len(Lists(n)) /\ After(old, name) = {}
                   /\ place.at = Len(lf[old]) + 1
<1> DEFINE later == {i \in DOMAIN Lists(n) : After(Lists(n)[i], name) # {}}
<1>1. Lists(n) \in Seq(Nat) /\ Len(Lists(n)) > 0
  BY ListsType, HasLists
<1>2. \A i \in DOMAIN Lists(n) :
        Lists(n)[i] \in valid \cap DOMAIN lf /\ lf[Lists(n)[i]] \in Seq(Nat)
  BY ListsType
<1>3. CASE later = {}
  <2> DEFINE old == Lists(n)[Len(Lists(n))]
  <2>1. Last(Lists(n)) = old /\ Len(Lists(n)) \in DOMAIN Lists(n)
    BY <1>1 DEF Last
  <2>2. Place(n, name).list = Len(Lists(n)) /\ Place(n, name).at = Len(lf[old]) + 1
    BY <1>3, <2>1 DEF Place
  <2>3. \A i \in DOMAIN Lists(n) : After(Lists(n)[i], name) = {}
    BY <1>3
  <2>4. Len(lf[old]) \in Nat /\ old \in valid \cap DOMAIN lf
    BY <1>2, <2>1
  <2>5. \A i \in 1 .. (Len(Lists(n)) - 1) : i \in DOMAIN Lists(n)
    BY <1>1
  <2> QED BY <2>1, <2>2, <2>3, <2>4, <2>5
<1>4. CASE later # {}
  <2> DEFINE k == Min(later)
             old == Lists(n)[k]
             aft == After(old, name)
  <2>1. later \in SUBSET Nat
    BY <1>1
  <2>2. k \in later /\ \A y \in later : k <= y
    BY <1>4, <2>1, MinNat
  <2>3. k \in DOMAIN Lists(n) /\ aft # {}
    BY <2>2
  <2>4. old \in valid \cap DOMAIN lf /\ lf[old] \in Seq(Nat)
    BY <1>2, <2>3
  <2>5. aft \in SUBSET Nat /\ aft \subseteq 1 .. Len(lf[old])
    <3>1. aft \subseteq DOMAIN lf[old]
      BY DEF After
    <3>2. DOMAIN lf[old] = 1 .. Len(lf[old])
      BY <2>4
    <3> HIDE DEF aft, old
    <3>3. Len(lf[old]) \in Nat
      BY <2>4
    <3> QED BY <3>1, <3>2, <3>3, SMTT(60)
  <2>6. Min(aft) \in aft /\ \A y \in aft : Min(aft) <= y
    BY <2>3, <2>5, MinNat
  <2>7. Place(n, name).list = k /\ Place(n, name).at = Min(aft)
    BY <1>4 DEF Place
  <2>8. \A i \in DOMAIN Lists(n) : i \notin later => After(Lists(n)[i], name) = {}
    OBVIOUS
  <2> HIDE DEF k, later
  <2>9. \A i \in 1 .. (k - 1) : After(Lists(n)[i], name) = {}
    <3>1. k \in 1 .. Len(Lists(n)) /\ DOMAIN Lists(n) = 1 .. Len(Lists(n))
      BY <1>1, <2>3
    <3>2. \A i \in 1 .. (k - 1) : i \in DOMAIN Lists(n) /\ i \notin later
      BY <1>1, <2>2, <3>1
    <3> QED BY <2>8, <3>2
  <2>10. \A j \in 1 .. (Min(aft) - 1) : j \notin aft
    BY <2>5, <2>6
  <2>11. Min(aft) \in 1 .. (Len(lf[old]) + 1)
    BY <2>4, <2>5, <2>6
  <2> HIDE DEF aft
  <2>12. aft = After(old, name)
    BY DEF aft
  <2> QED BY <2>3, <2>4, <2>6, <2>7, <2>9, <2>10, <2>11, <2>12
<1> QED BY <1>3, <1>4

-----------------------------------------------------------------------------
(* hivex_node_add_child *)

LEMMA NewNodeFacts ==
  ASSUME NEW p \in DOMAIN nk, NEW name \in Names, RecordTypes
  PROVE  /\ NewNode(p, name, nk[p].sk) \in NodeType
         /\ NewNode(p, name, nk[p].sk).parent = p
         /\ NewNode(p, name, nk[p].sk).name = name
         /\ NewNode(p, name, nk[p].sk).nr_subkeys = 0
         /\ NewNode(p, name, nk[p].sk).subkey_lf = None
         /\ NewNode(p, name, nk[p].sk).nr_values = 0
         /\ NewNode(p, name, nk[p].sk).vallist = None
         /\ NewNode(p, name, nk[p].sk).sk = nk[p].sk
         /\ NewNode(p, name, nk[p].sk).classname = None
<1>1. p \in Nat /\ nk[p].sk \in Int /\ None \in Int /\ name \in STRING
  BY HiveTreeAssumption DEF RecordTypes, Allocated, NodeType, None
<1> QED BY <1>1 DEF NewNode, NodeType

LEMMA NextIsNew ==
  ASSUME SoundRecords
  PROVE  next \in Nat /\ root # next /\ next \notin Nodes
<1>1. next \in Nat \ {0} /\ Nodes \subseteq 1 .. (next - 1) /\ root \in Nodes
  BY DEF SoundRecords, RecordTypes, References, Allocated, Nodes
<1> QED BY <1>1

(* The new node and its reference to the sk record of its parent. *)
LEMMA AddChildFailsSound ==
  ASSUME NEW p, NEW name \in Names, SoundRecords, AddChildFails(p, name)
  PROVE  SoundRecords'
<1>1. p \in Nodes /\ p \in DOMAIN nk /\ RecordTypes /\ next \in Nat \ {0}
  BY DEF AddChildFails, CanAdd, IsNode, Nodes, SoundRecords, RecordTypes
<1>2. PICK r : r = NewNode(p, name, nk[p].sk)
  OBVIOUS
<1>3. /\ r \in NodeType /\ r.parent = p /\ r.subkey_lf = None /\ r.nr_values = 0
      /\ r.vallist = None /\ r.sk = nk[p].sk /\ r.classname = None
  BY <1>1, <1>2, NewNodeFacts
<1>4. /\ nk' = NewRecord(nk, next, r) /\ next' = next + 1
      /\ valid' = valid \cup {next} /\ root' = root
      /\ sk' = [sk EXCEPT ![nk[p].sk].refcount = @ + 1]
      /\ lf' = lf /\ ri' = ri /\ vl' = vl /\ vk' = vk /\ db' = db
  BY <1>2 DEF AddChildFails, valueVars
<1>5. Allocated' = Allocated \cup {next} /\ next \notin Allocated
  BY <1>1, <1>4 DEF Allocated
<1>6. /\ DOMAIN nk' = DOMAIN nk \cup {next} /\ nk'[next] = r
      /\ \A m \in DOMAIN nk : nk'[m] = nk[m]
  <2>1. next \notin DOMAIN nk
    BY <1>1, <1>5 DEF RecordTypes
  <2> QED BY <2>1, <1>4 DEF NewRecord
<1>7. DOMAIN sk' = DOMAIN sk /\ sk' \in [DOMAIN sk' -> SkType]
  <2>1. nk[p].sk \in DOMAIN sk /\ sk \in [DOMAIN sk -> SkType]
    BY <1>1 DEF SoundRecords, SkInv, HasSk, RecordTypes
  <2>2. sk[nk[p].sk].refcount + 1 \in Nat
    BY <2>1 DEF SkType
  <2> QED BY <2>1, <2>2, <1>4, RefcountType
<1>8. Nodes' = Nodes \cup {next}
  BY <1>1, <1>4, <1>5, <1>6 DEF Nodes, RecordTypes
<1>9. RecordTypes'
  <2>1. nk' \in [DOMAIN nk' -> NodeType]
    BY <1>1, <1>3, <1>4, NewRecordType DEF RecordTypes
  <2> QED BY <2>1, <1>1, <1>4, <1>5, <1>6, <1>7 DEF RecordTypes
<1>10. KindsApart'
  BY <1>1, <1>4, <1>5, <1>6, <1>7 DEF SoundRecords, KindsApart, RecordTypes
<1>11. References'
  <2>1. Offsets' = Offsets \cup {next} /\ None \in Offsets
    BY <1>5 DEF Offsets
  <2>2. nk[p].sk \in Offsets /\ p \in Allocated
    BY <1>1 DEF SoundRecords, References, RecordTypes
  <2> QED BY <1>3, <1>4, <1>5, <1>6, <1>8, <2>1, <2>2 DEF SoundRecords, References
<1>12. SkInv'
  <2>1. valid' \cap DOMAIN sk = valid \cap DOMAIN sk
    BY <1>1, <1>4, <1>5 DEF RecordTypes
  <2>2. \A m \in Nodes : nk'[m].sk = nk[m].sk
    BY <1>6 DEF Nodes
  <2> QED BY <1>1, <1>3, <1>4, <1>6, <1>8, <2>1, <2>2, TakeRef
<1> QED BY <1>9, <1>10, <1>11, <1>12 DEF SoundRecords

(* What LinkNode does to the nk records. *)
LEMMA LinkNodeFacts ==
  ASSUME NEW p \in DOMAIN nk, NEW name \in Names, NEW direct \in BOOLEAN,
         RecordTypes, LinkNode(p, name, direct)
  PROVE  /\ DOMAIN nk' = DOMAIN nk \cup {next} /\ nk' \in [DOMAIN nk' -> NodeType]
         /\ nk'[next] = NewNode(p, name, nk[p].sk)
         /\ \A m \in DOMAIN nk : m # p => nk'[m] = nk[m]
         /\ nk'[p].name = nk[p].name /\ nk'[p].parent = nk[p].parent
         /\ nk'[p].nr_subkeys = nk[p].nr_subkeys + 1
         /\ direct => nk'[p].subkey_lf = next + 1
         /\ ~direct => nk'[p].subkey_lf = nk[p].subkey_lf
         /\ nk'[p].nr_values = nk[p].nr_values /\ nk'[p].vallist = nk[p].vallist
         /\ nk'[p].sk = nk[p].sk /\ nk'[p].classname = nk[p].classname
         /\ next' = next + 2 /\ root' = root
         /\ vl' = vl /\ vk' = vk /\ db' = db
         /\ handles' = handles \cup {next}
         /\ torn' = torn /\ orphans' = orphans /\ partial' = partial
         /\ pc' = "idle" /\ ret' = "ok" /\ target' = None /\ frames' = <<>>
         /\ list' = <<>>
<1> DEFINE lf0 == IF direct THEN next + 1 ELSE nk[p].subkey_lf
           nk0 == [nk EXCEPT ![p].nr_subkeys = @ + 1, ![p].subkey_lf = lf0]
           r == NewNode(p, name, nk[p].sk)
<1>1. next \in Nat \ {0} /\ next \notin DOMAIN nk /\ nk \in [DOMAIN nk -> NodeType]
  BY DEF RecordTypes, Allocated
<1>2. lf0 \in Int
  BY <1>1 DEF NodeType
<1>3. nk' = NewRecord(nk0, next, r)
  BY DEF LinkNode
<1>4. r \in NodeType
  BY NewNodeFacts
<1>5. (direct => lf0 = next + 1) /\ (~direct => lf0 = nk[p].subkey_lf)
  OBVIOUS
<1> HIDE DEF lf0, r
<1>6. /\ DOMAIN nk0 = DOMAIN nk
      /\ \A m \in DOMAIN nk : m # p => nk0[m] = nk[m]
      /\ nk0[p] = [nk[p] EXCEPT !.nr_subkeys = @ + 1, !.subkey_lf = lf0]
  BY <1>1
<1>7. nk[p] \in NodeType
  BY <1>1
<1>8. /\ nk0[p] \in NodeType
      /\ nk0[p].nr_subkeys = nk[p].nr_subkeys + 1 /\ nk0[p].subkey_lf = lf0
      /\ nk0[p].name = nk[p].name /\ nk0[p].parent = nk[p].parent
      /\ nk0[p].nr_values = nk[p].nr_values /\ nk0[p].vallist = nk[p].vallist
      /\ nk0[p].sk = nk[p].sk /\ nk0[p].classname = nk[p].classname
  <2>1. nk[p].nr_subkeys + 1 \in Nat
    BY <1>7 DEF NodeType
  <2>2. PICK q \in NodeType : q = nk[p]
    BY <1>7
  <2>3. PICK k \in Nat : k = nk[p].nr_subkeys + 1
    BY <2>1
  <2>4. PICK q0 : q0 = [q EXCEPT !.nr_subkeys = k, !.subkey_lf = lf0]
    OBVIOUS
  <2>5. q0 = nk0[p]
    BY <1>6, <2>2, <2>3, <2>4
  <2>6. /\ q0 \in NodeType /\ q0.nr_subkeys = k /\ q0.subkey_lf = lf0
        /\ q0.name = q.name /\ q0.parent = q.parent
        /\ q0.nr_values = q.nr_values /\ q0.vallist = q.vallist
        /\ q0.sk = q.sk /\ q0.classname = q.classname
    <3>1. q0 \in NodeType
      BY <1>2, <2>2, <2>3, <2>4, SubkeysChanged, Zenon
    <3>2. /\ q0.nr_subkeys = k /\ q0.subkey_lf = lf0
          /\ q0.name = q.name /\ q0.parent = q.parent
          /\ q0.nr_values = q.nr_values /\ q0.vallist = q.vallist
          /\ q0.sk = q.sk /\ q0.classname = q.classname
      BY <2>2, <2>3, <2>4 DEF NodeType
    <3> QED BY <3>1, <3>2
  <2> QED BY <2>2, <2>3, <2>5, <2>6
<1> HIDE DEF nk0
<1>9. nk0 = [m \in DOMAIN nk0 |-> nk0[m]]
  BY DEF nk0
<1>10. nk0 \in [DOMAIN nk0 -> NodeType]
  BY <1>1, <1>6, <1>8, <1>9
<1>11. nk' \in [DOMAIN nk' -> NodeType]
  BY <1>3, <1>4, <1>10, NewRecordType
<1>12. /\ DOMAIN nk' = DOMAIN nk \cup {next} /\ nk'[next] = r
       /\ \A m \in DOMAIN nk : nk'[m] = nk0[m]
  <2>1. next \notin DOMAIN nk0
    BY <1>1, <1>6
  <2> QED BY <2>1, <1>3, <1>6 DEF NewRecord
<1>13. /\ next' = next + 2 /\ root' = root
       /\ vl' = vl /\ vk' = vk /\ db' = db
       /\ handles' = handles \cup {next}
       /\ torn' = torn /\ orphans' = orphans /\ partial' = partial
       /\ pc' = "idle" /\ ret' = "ok" /\ target' = None /\ frames' = <<>>
       /\ list' = <<>>
  BY DEF LinkNode, Return, valueVars
<1> QED BY <1>5, <1>6, <1>8, <1>11, <1>12, <1>13 DEF r

(* A node and a list are allocated, and a list may be freed. *)
LEMMA LinkNodeSound ==
  ASSUME NEW p \in Nodes, NEW name \in Names, NEW direct \in BOOLEAN,
         NEW F \in SUBSET DOMAIN lf, NEW l \in Seq(Nat),
         SoundRecords, LinkNode(p, name, direct),
         valid' = (valid \ F) \cup {next, next + 1}, root \notin ToSet(l),
         lf' = NewRecord(lf, next + 1, l),
         DOMAIN ri' = DOMAIN ri, ri' \in [DOMAIN ri' -> Seq(Nat)]
  PROVE  SoundRecords'
<1> DEFINE r == NewNode(p, name, nk[p].sk)
<1>1. p \in DOMAIN nk /\ RecordTypes /\ next \in Nat \ {0}
  BY DEF Nodes, SoundRecords, RecordTypes
<1>2. /\ DOMAIN nk' = DOMAIN nk \cup {next} /\ nk' \in [DOMAIN nk' -> NodeType]
      /\ nk'[next] = r
      /\ \A m \in DOMAIN nk : m # p => nk'[m] = nk[m]
      /\ nk'[p].parent = nk[p].parent
      /\ direct => nk'[p].subkey_lf = next + 1
      /\ ~direct => nk'[p].subkey_lf = nk[p].subkey_lf
      /\ nk'[p].nr_values = nk[p].nr_values /\ nk'[p].vallist = nk[p].vallist
      /\ nk'[p].sk = nk[p].sk /\ nk'[p].classname = nk[p].classname
      /\ next' = next + 2 /\ root' = root
      /\ vl' = vl /\ vk' = vk /\ db' = db
  BY <1>1, LinkNodeFacts, ZenonT(60)
<1>3. /\ r.parent = p /\ r.subkey_lf = None /\ r.nr_values = 0
      /\ r.vallist = None /\ r.sk = nk[p].sk /\ r.classname = None
  BY <1>1, NewNodeFacts
<1>0. sk' = [sk EXCEPT ![nk[p].sk].refcount = @ + 1]
  BY DEF LinkNode
<1> HIDE DEF r
<1>4. /\ Allocated' = Allocated \cup {next, next + 1}
      /\ next \notin Allocated /\ next + 1 \notin Allocated
  BY <1>1, <1>2 DEF Allocated
<1>5. /\ DOMAIN lf' = DOMAIN lf \cup {next + 1} /\ lf' \in [DOMAIN lf' -> Seq(Nat)]
      /\ lf'[next + 1] = l /\ \A b \in DOMAIN lf : lf'[b] = lf[b]
  <2>1. lf' \in [DOMAIN lf' -> Seq(Nat)]
    BY <1>1, NewRecordType DEF RecordTypes
  <2>2. next + 1 \notin DOMAIN lf
    BY <1>1, <1>4 DEF RecordTypes
  <2> QED BY <2>1, <2>2 DEF NewRecord
<1>6. DOMAIN sk' = DOMAIN sk /\ sk' \in [DOMAIN sk' -> SkType]
  <2>1. nk[p].sk \in DOMAIN sk /\ sk \in [DOMAIN sk -> SkType]
    BY <1>1 DEF SoundRecords, SkInv, HasSk, RecordTypes
  <2>2. sk[nk[p].sk].refcount + 1 \in Nat
    BY <2>1 DEF SkType
  <2>3. sk' = [sk EXCEPT ![nk[p].sk].refcount = sk[nk[p].sk].refcount + 1]
    BY <1>0
  <2>4. PICK f : f = sk
    OBVIOUS
  <2>5. PICK b : b = nk[p].sk
    OBVIOUS
  <2>6. PICK k \in Nat : k = sk[nk[p].sk].refcount + 1
    BY <2>2
  <2>7. sk' = [f EXCEPT ![b].refcount = k] /\ f \in [DOMAIN f -> SkType] /\ b \in DOMAIN f
    BY <2>1, <2>3, <2>4, <2>5, <2>6
  <2>8. sk' \in [DOMAIN f -> SkType]
    BY <2>6, <2>7, RefcountType, Zenon
  <2>9. DOMAIN sk' = DOMAIN f
    BY <2>7
  <2> QED BY <2>4, <2>8, <2>9
<1>7. DOMAIN nk \cap F = {} /\ DOMAIN sk \cap F = {}
  BY DEF SoundRecords, KindsApart
<1>8. Nodes' = Nodes \cup {next}
  BY <1>1, <1>2, <1>4, <1>7 DEF Nodes, RecordTypes
<1>9. RecordTypes'
  <2>1. valid' \subseteq Allocated'
    BY <1>1, <1>4 DEF RecordTypes
  <2>2. next' \in Nat \ {0}
    BY <1>1, <1>2
  <2> QED BY <2>1, <2>2, <1>1, <1>2, <1>4, <1>5, <1>6 DEF RecordTypes
<1>10. KindsApart'
  BY <1>1, <1>2, <1>4, <1>5, <1>6 DEF SoundRecords, KindsApart, RecordTypes
<1>11. References'
  <2>1. Offsets' = Offsets \cup {next, next + 1} /\ None \in Offsets
    BY <1>4 DEF Offsets
  <2>2. nk[p].sk \in Offsets /\ p \in Allocated
    BY <1>1 DEF SoundRecords, References, RecordTypes
  <2>3. ASSUME NEW m \in DOMAIN nk'
        PROVE  /\ nk'[m].parent \in Allocated'
               /\ nk'[m].subkey_lf \in Offsets' /\ nk'[m].vallist \in Offsets'
               /\ nk'[m].sk \in Offsets'
               /\ nk'[m].nr_values > 0 => nk'[m].vallist \in DOMAIN vl'
               /\ nk'[m].classname \in DOMAIN db' \cup {None}
    <3>1. CASE m = next
      BY <3>1, <1>2, <1>3, <1>4, <2>1, <2>2
    <3>2. CASE m = p
      BY <3>2, <1>1, <1>2, <1>4, <2>1, <2>2 DEF SoundRecords, References
    <3>3. CASE m # next /\ m # p
      BY <3>3, <1>2, <1>4, <2>1 DEF SoundRecords, References
    <3> QED BY <3>1, <3>2, <3>3
  <2>4. \A b \in DOMAIN lf' : root' \notin ToSet(lf'[b])
    BY <1>2, <1>5 DEF SoundRecords, References
  <2>5. root' \in Nodes'
    BY <1>2, <1>8 DEF SoundRecords, References
  <2> QED BY <1>2, <2>3, <2>4, <2>5 DEF SoundRecords, References
<1>12. SkInv'
  <2>1. valid' \cap DOMAIN sk = valid \cap DOMAIN sk
    BY <1>1, <1>4, <1>7 DEF RecordTypes
  <2>2. \A m \in Nodes : nk'[m].sk = nk[m].sk
    BY <1>2 DEF Nodes
  <2> QED BY <1>0, <1>2, <1>3, <1>8, <2>1, <2>2, TakeRef
<1> QED BY <1>9, <1>10, <1>11, <1>12 DEF SoundRecords

LEMMA AddFirstChildSound ==
  ASSUME NEW p, NEW name \in Names, SoundRecords, AddFirstChild(p, name)
  PROVE  SoundRecords'
<1>1. p \in Nodes /\ RecordTypes /\ next \in Nat /\ root # next
  <2>1. p \in Nodes
    BY DEF AddFirstChild, CanAdd, IsNode, Nodes
  <2> QED BY <2>1, NextIsNew DEF SoundRecords
<1>2. <<next>> \in Seq(Nat) /\ root \notin ToSet(<<next>>)
  BY <1>1 DEF ToSet
<1>3. /\ LinkNode(p, name, TRUE) /\ lf' = NewRecord(lf, next + 1, <<next>>)
      /\ valid' = (valid \ {}) \cup {next, next + 1} /\ ri' = ri
  BY DEF AddFirstChild
<1>4. ri' \in [DOMAIN ri' -> Seq(Nat)]
  BY <1>1, <1>3 DEF RecordTypes
<1> QED BY <1>1, <1>2, <1>3, <1>4, LinkNodeSound

LEMMA InsertChildSound ==
  ASSUME NEW p, NEW name \in Names, SoundRecords, InsertChild(p, name)
  PROVE  SoundRecords'
<1> DEFINE place == Place(p, name)
           old == Lists(p)[place.list]
           link == SelectInSeq(Lists(p), LAMBDA b : b = old)
           l == InsertAt(lf[old], place.at, next)
<1>1. /\ p \in Nodes /\ p \in DOMAIN nk /\ RecordTypes /\ next \in Nat
      /\ root # next
  <2>1. p \in Nodes /\ p \in DOMAIN nk
    BY DEF InsertChild, CanAdd, IsNode, Nodes
  <2> QED BY <2>1, NextIsNew DEF SoundRecords
<1>2. ListsOK(p) /\ nk[p].nr_subkeys # 0
  BY DEF InsertChild, ChildrenOK
<1>3. old \in DOMAIN lf /\ place.at \in 1 .. (Len(lf[old]) + 1)
  BY <1>1, <1>2, PlaceFacts
<1>4. PICK d \in BOOLEAN : d = (nk[p].subkey_lf = old)
  OBVIOUS
<1>5. /\ LinkNode(p, name, d) /\ lf' = NewRecord(lf, next + 1, l)
      /\ valid' = (valid \ {old}) \cup {next, next + 1}
      /\ ri' = IF d THEN ri ELSE [ri EXCEPT ![nk[p].subkey_lf][link] = next + 1]
  BY <1>4 DEF InsertChild
<1>6. lf[old] \in Seq(Nat)
  BY <1>1, <1>3 DEF RecordTypes
<1>7. l \in Seq(Nat) /\ ToSet(l) = ToSet(lf[old]) \cup {next}
  <2>1. PICK s \in Seq(Nat) : s = lf[old]
    BY <1>6
  <2>2. PICK i \in 1 .. (Len(s) + 1) : i = place.at
    BY <1>3, <2>1
  <2>3. PICK e \in Nat : e = next
    BY <1>1
  <2>4. InsertAt(s, i, e) \in Seq(Nat) /\ ToSet(InsertAt(s, i, e)) = ToSet(s) \cup {e}
    BY InsertAtFacts, InsertAtMembers
  <2> QED BY <2>1, <2>2, <2>3, <2>4
<1>8. root \notin ToSet(l)
  BY <1>1, <1>3, <1>7 DEF SoundRecords, References
<1> HIDE DEF link, l, old
<1>9. DOMAIN ri' = DOMAIN ri /\ ri' \in [DOMAIN ri' -> Seq(Nat)]
  <2>1. ri \in [DOMAIN ri -> Seq(Nat)] /\ next + 1 \in Nat
    BY <1>1 DEF RecordTypes
  <2>2. CASE d
    BY <2>1, <2>2, <1>5
  <2>3. CASE ~d
    <3>1. \A s \in Seq(Nat) : [s EXCEPT ![link] = next + 1] \in Seq(Nat)
      <4>1. PICK e \in Nat : e = next + 1
        BY <2>1
      <4>2. ASSUME NEW s \in Seq(Nat)
            PROVE  [s EXCEPT ![link] = e] \in Seq(Nat)
        <5>1. PICK t : t = [s EXCEPT ![link] = e]
          OBVIOUS
        <5>2. t \in Seq(Nat)
          BY <4>1, <4>2, <5>1, ReplaceFacts, Zenon
        <5> QED BY <5>1, <5>2
      <4> QED BY <4>1, <4>2
    <3>2. ri' = [ri EXCEPT ![nk[p].subkey_lf] = [@ EXCEPT ![link] = next + 1]]
      BY <2>3, <1>5
    <3> QED BY <2>1, <3>1, <3>2
  <2> QED BY <2>2, <2>3
<1>10. {old} \in SUBSET DOMAIN lf
  BY <1>3
<1> QED BY <1>1, <1>4, <1>5, <1>7, <1>8, <1>9, <1>10, LinkNodeSound

-----------------------------------------------------------------------------
(* What belongs to a node *)

LEMMA BlocksType ==
  ASSUME NEW n \in DOMAIN nk, RecordTypes, ListsOK(n)
  PROVE  /\ Blocks(n) \in Seq(Nat)
         /\ ToSet(Blocks(n)) \subseteq valid \cap (DOMAIN lf \cup DOMAIN ri)
<1>1. CASE nk[n].nr_subkeys = 0
  BY <1>1 DEF Blocks, ToSet
<1>2. CASE nk[n].nr_subkeys # 0
  <2>1. /\ nk[n].subkey_lf \in Nat
        /\ nk[n].subkey_lf \in valid \cap (DOMAIN lf \cup DOMAIN ri)
    BY <1>2 DEF ListsOK, RecordTypes, Allocated
  <2>2. PICK h \in Nat : h = nk[n].subkey_lf
    BY <2>1
  <2>3. <<h>> \in Seq(Nat) /\ ToSet(<<h>>) = {h}
    BY <2>2 DEF ToSet
  <2>4. PICK ls \in Seq(Nat) : ls = Lists(n)
    BY <1>2, ListsType
  <2>5. ToSet(ls) \subseteq valid \cap DOMAIN lf
    BY <1>2, <2>4, ListsType
  <2>6. <<h>> \o ls \in Seq(Nat)
    BY <2>3, <2>4
  <2>7. ToSet(<<h>> \o ls) \subseteq valid \cap (DOMAIN lf \cup DOMAIN ri)
    BY <2>1, <2>2, <2>3, <2>4, <2>5, ToSetConcat
  <2>8. CASE nk[n].subkey_lf \in DOMAIN ri
    BY <1>2, <2>2, <2>4, <2>6, <2>7, <2>8 DEF Blocks
  <2>9. CASE nk[n].subkey_lf \notin DOMAIN ri
    BY <1>2, <2>1, <2>2, <2>3, <2>9 DEF Blocks
  <2> QED BY <2>8, <2>9
<1> QED BY <1>1, <1>2

(* get_values succeeds: the values are vk records. *)
LEMMA ValuesType ==
  ASSUME NEW n \in DOMAIN nk, RecordTypes, References, ValuesOK(n)
  PROVE  /\ ValuesOf(n) \in Seq(Nat) /\ Len(ValuesOf(n)) = nk[n].nr_values
         /\ ToSet(ValuesOf(n)) \subseteq valid \cap DOMAIN vk
         /\ nk[n].nr_values # 0 =>
              \A i \in 1 .. nk[n].nr_values : ValuesOf(n)[i] = vl[nk[n].vallist][i]
<1>1. CASE nk[n].nr_values = 0
  BY <1>1 DEF ValuesOf, ToSet
<1>2. CASE nk[n].nr_values # 0
  <2>1. nk[n].nr_values \in Nat /\ nk[n].nr_values > 0
    BY <1>2 DEF RecordTypes, NodeType
  <2>2. nk[n].vallist \in DOMAIN vl
    BY <2>1 DEF References
  <2>3. PICK s \in Seq(Nat) : s = vl[nk[n].vallist]
    BY <2>2 DEF RecordTypes
  <2>4. PICK k \in 1 .. Len(s) : k = nk[n].nr_values
    BY <1>2, <2>1, <2>3 DEF ValuesOK
  <2>5. ValuesOf(n) = SubSeq(s, 1, k)
    BY <1>2, <2>3, <2>4 DEF ValuesOf
  <2>6. PICK t : t = SubSeq(s, 1, k)
    OBVIOUS
  <2>7. t \in Seq(Nat) /\ Len(t) = k /\ \A i \in 1 .. k : t[i] = s[i]
    <3>1. 1 \in 1 .. (Len(s) + 1) /\ k \in (1 - 1) .. Len(s) /\ k - 1 + 1 = k
      BY <2>3, <2>4
    <3>2. \A i \in 1 .. k : 1 + i - 1 = i
      BY <2>4
    <3>3. t \in Seq(Nat) /\ Len(t) = k - 1 + 1
      BY <2>3, <2>6, <3>1, SubSeqFacts, ZenonT(60)
    <3>4. \A i \in 1 .. (k - 1 + 1) : t[i] = s[1 + i - 1]
      BY <2>3, <2>6, <3>1, SubSeqFacts, ZenonT(60)
    <3> QED BY <3>1, <3>2, <3>3, <3>4
  <2>8. ToSet(ValuesOf(n)) \subseteq valid
    BY <1>2 DEF ValuesOK
  <2>9. \A i \in 1 .. Len(t) : t[i] \in ToSet(s)
    <3>1. \A i \in 1 .. Len(s) : s[i] \in ToSet(s)
      BY <2>3, ToSetFacts
    <3>2. \A i \in 1 .. Len(t) : i \in 1 .. Len(s) /\ t[i] = s[i]
      BY <2>3, <2>4, <2>7, SMTT(60)
    <3> QED BY <3>1, <3>2
  <2>10. ToSet(s) \subseteq DOMAIN vk \cup {Zero} /\ Zero \notin valid
    BY <2>2, <2>3 DEF References, RecordTypes, Allocated, Zero
  <2>11. ToSet(ValuesOf(n)) \subseteq DOMAIN vk
    BY <2>5, <2>6, <2>7, <2>8, <2>9, <2>10 DEF ToSet
  <2> QED BY <2>3, <2>4, <2>5, <2>6, <2>7, <2>8, <2>11
<1> QED BY <1>1, <1>2

(* What delete_values frees is the list of values and what it leads to. *)
LEMMA ValueBlocksType ==
  ASSUME NEW n \in DOMAIN nk, RecordTypes, References, ValuesOK(n)
  PROVE  /\ ValueBlocks(n) \in Seq(Nat)
         /\ nk[n].nr_values = 0 => ToSet(ValueBlocks(n)) = {}
         /\ nk[n].nr_values # 0 =>
              ToSet(ValueBlocks(n)) = {nk[n].vallist} \cup OwnedValues(n)
<1>1. CASE nk[n].nr_values = 0
  BY <1>1 DEF ValueBlocks, ToSet
<1>2. CASE nk[n].nr_values # 0
  <2> DEFINE Item(v) == IF vk[v].inline THEN <<v>> ELSE <<vk[v].data, v>>
  <2>1. PICK vs \in Seq(Nat) : vs = ValuesOf(n)
    BY ValuesType
  <2>2. ToSet(vs) \subseteq DOMAIN vk
    BY <2>1, ValuesType
  <2>3. \A i \in 1 .. Len(vs) : vs[i] \in DOMAIN vk /\ vs[i] \in ToSet(vs)
    BY <2>1, <2>2 DEF ToSet
  <2>4. nk[n].vallist \in Nat
    <3>1. nk[n].nr_values > 0
      BY <1>2 DEF RecordTypes, NodeType
    <3> QED BY <3>1 DEF RecordTypes, References, Allocated
  <2>5. \A v \in DOMAIN vk : Item(v) \in Seq(Nat)
    <3>1. \A v \in DOMAIN vk : v \in Nat /\ vk[v].data \in Nat
      BY DEF RecordTypes, Allocated, VkType
    <3>2. \A a, b \in Nat : <<a>> \in Seq(Nat) /\ <<b, a>> \in Seq(Nat)
      OBVIOUS
    <3> QED BY <3>1, <3>2
  <2>6. \A v : \A x : x \in ToSet(Item(v)) <=>
                        x = v \/ (~vk[v].inline /\ x = vk[v].data)
    BY DEF ToSet
  <2>7. PICK ss : ss = [i \in DOMAIN vs |-> Item(vs[i])]
    OBVIOUS
  <2>8. ValueBlocks(n) = <<nk[n].vallist>> \o FlattenSeq(ss)
    BY <1>2, <2>1, <2>7 DEF ValueBlocks
  <2> HIDE DEF Item
  <2>9. /\ ss \in Seq(Seq(Nat)) /\ Len(ss) = Len(vs)
        /\ \A i \in 1 .. Len(vs) : ss[i] = Item(vs[i])
    <3>1. PICK k \in Nat : k = Len(vs) /\ DOMAIN vs = 1 .. k
      BY <2>1
    <3>2. \A i \in 1 .. k : Item(vs[i]) \in Seq(Nat)
      BY <2>3, <2>5, <3>1
    <3>3. ss \in [1 .. k -> Seq(Nat)] /\ \A i \in 1 .. k : ss[i] = Item(vs[i])
      BY <2>7, <3>1, <3>2
    <3>4. ss \in Seq(Seq(Nat)) /\ Len(ss) = k
      BY <3>1, <3>3
    <3> QED BY <3>1, <3>3, <3>4
  <2>10. PICK f : f = FlattenSeq(ss)
    OBVIOUS
  <2>11. f \in Seq(Nat)
    BY <2>9, <2>10, FlattenType
  <2>12. \A x : x \in ToSet(f) <=> \E i \in 1 .. Len(ss) : x \in ToSet(ss[i])
    BY <2>9, <2>10, FlattenMembers
  <2>13. \A x : x \in ToSet(f) <=> \E i \in 1 .. Len(vs) : x \in ToSet(Item(vs[i]))
    BY <2>9, <2>12
  <2>14. \A x : x \in ToSet(f) <=> \E v \in ToSet(vs) : x \in ToSet(Item(v))
    <3>1. /\ \A i \in 1 .. Len(vs) : vs[i] \in ToSet(vs)
          /\ \A x \in ToSet(vs) : \E i \in 1 .. Len(vs) : x = vs[i]
      BY <2>1, ToSetFacts
    <3> QED BY <2>13, <3>1, Zenon
  <2>15. \A x : x \in ToSet(f) <=> x \in OwnedValues(n)
    BY <2>1, <2>6, <2>14 DEF OwnedValues
  <2>16. PICK a \in Nat : a = nk[n].vallist
    BY <2>4
  <2>17. <<a>> \in Seq(Nat) /\ ToSet(<<a>>) = {a}
    BY <2>16 DEF ToSet
  <2>18. ValueBlocks(n) = <<a>> \o f
    BY <2>8, <2>10, <2>16
  <2>19. <<a>> \o f \in Seq(Nat)
    BY <2>11, <2>17
  <2>20. \A x : x \in ToSet(<<a>> \o f) <=> x = a \/ x \in ToSet(f)
    BY <2>11, <2>17, ToSetConcat
  <2>21. ToSet(<<a>> \o f) = {a} \cup OwnedValues(n)
    BY <2>15, <2>20
  <2> QED BY <1>2, <2>16, <2>18, <2>19, <2>21
<1> QED BY <1>1, <1>2

(* All of it is values, lists of values and data. *)
LEMMA ValueBlocksKinds ==
  ASSUME NEW n \in DOMAIN nk, RecordTypes, References, ValuesOK(n)
  PROVE  ToSet(ValueBlocks(n)) \subseteq
           DOMAIN vl \cup DOMAIN vk \cup DOMAIN db \cup {Zero}
<1>1. CASE nk[n].nr_values = 0
  BY <1>1, ValueBlocksType
<1>2. CASE nk[n].nr_values # 0
  <2>1. nk[n].nr_values > 0
    BY <1>2 DEF RecordTypes, NodeType
  <2>2. nk[n].vallist \in DOMAIN vl
    BY <2>1 DEF References
  <2>3. ToSet(ValuesOf(n)) \subseteq DOMAIN vk
    BY ValuesType
  <2>4. OwnedValues(n) \subseteq DOMAIN vk \cup DOMAIN db \cup {Zero}
    BY <2>3 DEF OwnedValues, References
  <2> QED BY <1>2, <2>2, <2>4, ValueBlocksType
<1> QED BY <1>1, <1>2

(* Everything delete_node frees. *)
LEMMA NodeBlocksType ==
  ASSUME NEW n \in DOMAIN nk, RecordTypes, References, ListsOK(n), ValuesOK(n)
  PROVE  ToSet(NodeBlocks(n)) =
           ToSet(Blocks(n)) \cup ToSet(ValueBlocks(n)) \cup {n} \cup
           (IF nk[n].classname = None THEN {} ELSE {nk[n].classname})
<1>1. PICK b \in Seq(Nat) : b = Blocks(n)
  BY BlocksType
<1>2. PICK v \in Seq(Nat) : v = ValueBlocks(n)
  BY ValueBlocksType
<1>3. PICK c \in Seq(Nat) :
        /\ c = IF nk[n].classname = None THEN <<>> ELSE <<nk[n].classname>>
        /\ ToSet(c) = IF nk[n].classname = None THEN {} ELSE {nk[n].classname}
  <2>1. CASE nk[n].classname = None
    <3>1. <<>> \in Seq(Nat)
      OBVIOUS
    <3> QED BY <2>1, <3>1, ToSetNone, Zenon
  <2>2. CASE nk[n].classname # None
    <3>1. nk[n].classname \in Nat
      BY <2>2 DEF References, RecordTypes, Allocated
    <3>2. <<nk[n].classname>> \in Seq(Nat)
      BY <3>1
    <3> QED BY <2>2, <3>2, ToSetOne, Zenon
  <2> QED BY <2>1, <2>2
<1>4. PICK s \in Seq(Nat) : s = <<n>> /\ ToSet(s) = {n}
  <2>1. n \in Nat
    BY DEF RecordTypes, Allocated
  <2>2. <<n>> \in Seq(Nat)
    BY <2>1
  <2> QED BY <2>2, ToSetOne
<1>5. NodeBlocks(n) = b \o v \o c \o s
  BY <1>1, <1>2, <1>3, <1>4 DEF NodeBlocks
<1>6. b \in Seq(Nat) /\ v \in Seq(Nat) /\ c \in Seq(Nat) /\ s \in Seq(Nat)
  BY <1>1, <1>2, <1>3, <1>4, Zenon
<1>7. PICK u : u = b \o v
  OBVIOUS
<1>8. PICK w : w = u \o c
  OBVIOUS
<1>9. u \in Seq(Nat)
  BY <1>6, <1>7
<1>10. w \in Seq(Nat)
  BY <1>6, <1>8, <1>9
<1>11. \A x : x \in ToSet(u) <=> x \in ToSet(b) \/ x \in ToSet(v)
  BY <1>6, <1>7, ToSetConcat
<1>12. \A x : x \in ToSet(w) <=> x \in ToSet(u) \/ x \in ToSet(c)
  BY <1>6, <1>8, <1>9, ToSetConcat
<1>13. \A x : x \in ToSet(w \o s) <=> x \in ToSet(w) \/ x \in ToSet(s)
  BY <1>6, <1>10, ToSetConcat
<1>14. \A x : x \in ToSet(NodeBlocks(n)) <=>
                x \in ToSet(b) \/ x \in ToSet(v) \/ x \in ToSet(c) \/ x \in ToSet(s)
  BY <1>5, <1>7, <1>8, <1>11, <1>12, <1>13
<1> QED BY <1>1, <1>2, <1>3, <1>4, <1>14

(* The nodes when node n has k values, listed in block b. *)
WithValues(n, k, b) == [nk EXCEPT ![n].nr_values = k, ![n].vallist = b]

LEMMA WithValuesFacts ==
  ASSUME NEW n \in DOMAIN nk, NEW k \in Nat, NEW b \in Int, RecordTypes
  PROVE  /\ DOMAIN WithValues(n, k, b) = DOMAIN nk
         /\ WithValues(n, k, b) \in [DOMAIN nk -> NodeType]
         /\ \A m \in DOMAIN nk : m # n => WithValues(n, k, b)[m] = nk[m]
         /\ WithValues(n, k, b)[n].nr_values = k
         /\ WithValues(n, k, b)[n].vallist = b
         /\ WithValues(n, k, b)[n].name = nk[n].name
         /\ WithValues(n, k, b)[n].parent = nk[n].parent
         /\ WithValues(n, k, b)[n].nr_subkeys = nk[n].nr_subkeys
         /\ WithValues(n, k, b)[n].subkey_lf = nk[n].subkey_lf
         /\ WithValues(n, k, b)[n].sk = nk[n].sk
         /\ WithValues(n, k, b)[n].classname = nk[n].classname
<1>1. PICK q \in NodeType : q = nk[n]
  BY DEF RecordTypes
<1>2. PICK r : r = [q EXCEPT !.nr_values = k, !.vallist = b]
  OBVIOUS
<1>3. r \in NodeType
  BY <1>1, <1>2, ValuesChanged, Zenon
<1>4. /\ r.nr_values = k /\ r.vallist = b /\ r.name = q.name
      /\ r.parent = q.parent /\ r.nr_subkeys = q.nr_subkeys
      /\ r.subkey_lf = q.subkey_lf /\ r.sk = q.sk /\ r.classname = q.classname
  BY <1>1, <1>2 DEF NodeType
<1>5. PICK g : g = WithValues(n, k, b)
  OBVIOUS
<1>6. DOMAIN g = DOMAIN nk /\ g[n] = r /\ \A m \in DOMAIN nk : m # n => g[m] = nk[m]
  BY <1>1, <1>2, <1>5 DEF WithValues
<1>7. g = [m \in DOMAIN nk |-> g[m]]
  BY <1>5 DEF WithValues
<1>8. \A m \in DOMAIN nk : g[m] \in NodeType
  BY <1>3, <1>6 DEF RecordTypes
<1>9. g \in [DOMAIN nk -> NodeType]
  BY <1>7, <1>8
<1> QED BY <1>1, <1>4, <1>5, <1>6, <1>9

LEMMA NoValuesIs ==
  ASSUME NEW n
  PROVE  NoValues(n) = WithValues(n, 0, None)
BY DEF NoValues, WithValues

(* Lists, values and data are freed; a node may lose its values. *)
LEMMA FreedSound ==
  ASSUME NEW F, NEW n \in DOMAIN nk, SoundRecords,
         F \cap DOMAIN nk = {}, F \cap DOMAIN sk = {}, valid' = valid \ F,
         nk' = nk \/ nk' = WithValues(n, 0, None),
         root' = root, next' = next, lf' = lf, ri' = ri, sk' = sk, vl' = vl,
         vk' = vk, db' = db
  PROVE  SoundRecords'
<1>1. RecordTypes /\ KindsApart /\ References /\ SkInv
  BY DEF SoundRecords
<1>2. None \in Int /\ 0 \in Nat /\ None \in Offsets
  BY DEF None, Offsets
<1>3. /\ DOMAIN nk' = DOMAIN nk /\ nk' \in [DOMAIN nk -> NodeType]
      /\ \A m \in DOMAIN nk :
           /\ nk'[m].sk = nk[m].sk /\ nk'[m].parent = nk[m].parent
           /\ nk'[m].subkey_lf = nk[m].subkey_lf
           /\ nk'[m].classname = nk[m].classname
           /\ \/ /\ nk'[m].nr_values = nk[m].nr_values
                 /\ nk'[m].vallist = nk[m].vallist
              \/ nk'[m].nr_values = 0 /\ nk'[m].vallist = None
  <2>1. CASE nk' = nk
    BY <1>1, <2>1 DEF RecordTypes
  <2>2. CASE nk' = WithValues(n, 0, None)
    <3>1. PICK g : g = WithValues(n, 0, None)
      OBVIOUS
    <3>2. /\ DOMAIN g = DOMAIN nk /\ g \in [DOMAIN nk -> NodeType]
          /\ \A m \in DOMAIN nk : m # n => g[m] = nk[m]
          /\ g[n].nr_values = 0 /\ g[n].vallist = None
          /\ g[n].sk = nk[n].sk /\ g[n].parent = nk[n].parent
          /\ g[n].subkey_lf = nk[n].subkey_lf
          /\ g[n].classname = nk[n].classname
      BY <1>1, <1>2, <3>1, WithValuesFacts
    <3>3. nk' = g
      BY <2>2, <3>1
    <3> QED BY <3>2, <3>3
  <2> QED BY <2>1, <2>2
<1>4. Allocated' = Allocated /\ Offsets' = Offsets
  BY DEF Allocated, Offsets
<1>5. Nodes' = Nodes
  BY <1>3 DEF Nodes
<1>6. RecordTypes'
  BY <1>1, <1>3, <1>4 DEF RecordTypes
<1>7. KindsApart'
  BY <1>1, <1>3 DEF KindsApart
<1>8. References'
  <2>1. ASSUME NEW m \in DOMAIN nk'
        PROVE  /\ nk'[m].parent \in Allocated'
               /\ nk'[m].subkey_lf \in Offsets' /\ nk'[m].vallist \in Offsets'
               /\ nk'[m].sk \in Offsets'
               /\ nk'[m].nr_values > 0 => nk'[m].vallist \in DOMAIN vl'
               /\ nk'[m].classname \in DOMAIN db' \cup {None}
    BY <1>1, <1>2, <1>3, <1>4, <2>1 DEF References
  <2> QED BY <1>1, <1>5, <2>1 DEF References
<1>9. SkInv'
  <2>1. valid' \cap DOMAIN sk = valid \cap DOMAIN sk
    OBVIOUS
  <2>2. \A m \in Nodes : nk'[m].sk = nk[m].sk
    BY <1>3 DEF Nodes
  <2> QED BY <1>1, <1>5, <2>1, <2>2, SameRefs
<1> QED BY <1>6, <1>7, <1>8, <1>9 DEF SoundRecords

(* Values, lists of values, data and lists are neither nodes nor sk. *)
LEMMA Apart ==
  ASSUME NEW F, KindsApart, RecordTypes,
         F \subseteq DOMAIN lf \cup DOMAIN ri \cup DOMAIN vl \cup DOMAIN vk \cup
                     DOMAIN db \cup {Zero}
  PROVE  F \cap DOMAIN nk = {} /\ F \cap DOMAIN sk = {}
<1>1. Zero \notin DOMAIN nk /\ Zero \notin DOMAIN sk
  BY DEF RecordTypes, Allocated, Zero
<1> QED BY <1>1 DEF KindsApart

LEMMA DeleteNodeNoValuesSound ==
  ASSUME NEW n \in DOMAIN nk, SoundRecords, n = Top.node, DeleteNodeNoValues
  PROVE  SoundRecords'
<1>1. RecordTypes /\ KindsApart /\ ListsOK(n)
  BY DEF SoundRecords, DeleteNodeNoValues
<1>2. /\ valid' = valid \ ToSet(Blocks(n)) /\ nk' = nk
      /\ root' = root /\ next' = next /\ lf' = lf /\ ri' = ri /\ sk' = sk
      /\ vl' = vl /\ vk' = vk /\ db' = db
  BY DEF DeleteNodeNoValues, treeVars, valueVars
<1>3. ToSet(Blocks(n)) \cap DOMAIN nk = {} /\ ToSet(Blocks(n)) \cap DOMAIN sk = {}
  BY <1>1, BlocksType, Apart
<1> QED BY <1>2, <1>3, FreedSound

LEMMA ClearValuesSound ==
  ASSUME NEW n, NEW vs, SoundRecords, ClearValues(n, vs)
  PROVE  SoundRecords'
<1>1. /\ n \in DOMAIN nk /\ RecordTypes /\ KindsApart /\ References
      /\ ValuesOK(n)
  BY DEF SoundRecords, ClearValues, CanClear, IsNode
<1>2. /\ valid' = valid \ ToSet(ValueBlocks(n)) /\ nk' = NoValues(n)
      /\ root' = root /\ next' = next /\ lf' = lf /\ ri' = ri /\ sk' = sk
      /\ vl' = vl /\ vk' = vk /\ db' = db
  BY DEF ClearValues, valueVars
<1>3. /\ ToSet(ValueBlocks(n)) \cap DOMAIN nk = {}
      /\ ToSet(ValueBlocks(n)) \cap DOMAIN sk = {}
  BY <1>1, ValueBlocksKinds, Apart
<1>4. nk' = WithValues(n, 0, None)
  BY <1>2, NoValuesIs
<1> QED BY <1>1, <1>2, <1>3, <1>4, FreedSound

-----------------------------------------------------------------------------
(* delete_sk *)

LEMMA RefcountFacts ==
  ASSUME NEW f, NEW s \in DOMAIN f, NEW k \in Nat, NEW g,
         f \in [DOMAIN f -> SkType], g = [f EXCEPT ![s].refcount = k]
  PROVE  /\ DOMAIN g = DOMAIN f /\ g[s].refcount = k
         /\ \A t \in DOMAIN f : t # s => g[t].refcount = f[t].refcount
         /\ \A t \in DOMAIN f : g[t].next = f[t].next /\ g[t].prev = f[t].prev
<1>1. f[s] \in SkType
  OBVIOUS
<1>2. DOMAIN g = DOMAIN f /\ g[s] = [f[s] EXCEPT !.refcount = k]
  OBVIOUS
<1>3. \A t \in DOMAIN f : t # s => g[t] = f[t]
  OBVIOUS
<1>4. g[s].refcount = k /\ g[s].next = f[s].next /\ g[s].prev = f[s].prev
  BY <1>1, <1>2 DEF SkType
<1> QED BY <1>2, <1>3, <1>4

(* The neighbours of an sk record, joined. *)
Join(f, p, x) == [f EXCEPT ![p].next = x, ![x].prev = p]

LEMMA JoinFacts ==
  ASSUME NEW f, NEW p \in DOMAIN f, NEW x \in DOMAIN f,
         p \in Nat, x \in Nat, f \in [DOMAIN f -> SkType]
  PROVE  /\ Join(f, p, x) \in [DOMAIN f -> SkType]
         /\ \A t \in DOMAIN f : Join(f, p, x)[t].refcount = f[t].refcount
         /\ Join(f, p, x)[p].next = x /\ Join(f, p, x)[x].prev = p
         /\ \A t \in DOMAIN f : t # p => Join(f, p, x)[t].next = f[t].next
         /\ \A t \in DOMAIN f : t # x => Join(f, p, x)[t].prev = f[t].prev
<1>0. PICK g : g = Join(f, p, x)
  OBVIOUS
<1>1. PICK h : h = [f EXCEPT ![p].next = x]
  OBVIOUS
<1>2. /\ DOMAIN h = DOMAIN f /\ h[p] = [f[p] EXCEPT !.next = x]
      /\ \A t \in DOMAIN f : t # p => h[t] = f[t]
  BY <1>1
<1>3. f[p] \in SkType
  OBVIOUS
<1>4. /\ h[p] \in SkType /\ h[p].next = x /\ h[p].prev = f[p].prev
      /\ h[p].refcount = f[p].refcount
  BY <1>2, <1>3 DEF SkType
<1>5. \A t \in DOMAIN f : h[t] \in SkType
  BY <1>2, <1>4
<1>6. g = [h EXCEPT ![x].prev = p]
  BY <1>0, <1>1 DEF Join
<1>7. /\ DOMAIN g = DOMAIN f /\ g[x] = [h[x] EXCEPT !.prev = p]
      /\ \A t \in DOMAIN f : t # x => g[t] = h[t]
  BY <1>2, <1>6
<1>8. h[x] \in SkType
  BY <1>5
<1>9. /\ g[x] \in SkType /\ g[x].prev = p /\ g[x].next = h[x].next
      /\ g[x].refcount = h[x].refcount
  BY <1>7, <1>8 DEF SkType
<1>10. \A t \in DOMAIN f : g[t] \in SkType
  BY <1>5, <1>7, <1>9
<1>11. g = [t \in DOMAIN f |-> g[t]]
  BY <1>6, <1>2
<1>12. g \in [DOMAIN f -> SkType]
  BY <1>10, <1>11
<1>13. \A t \in DOMAIN f : g[t].next = h[t].next /\ g[t].refcount = h[t].refcount
  BY <1>7, <1>9
<1>14. \A t \in DOMAIN f : h[t].prev = f[t].prev /\ h[t].refcount = f[t].refcount
  BY <1>2, <1>4
<1>15. g[p].next = x
  BY <1>4, <1>13
<1>16. \A t \in DOMAIN f : t # p => g[t].next = f[t].next
  BY <1>2, <1>13
<1>17. \A t \in DOMAIN f : t # x => g[t].prev = f[t].prev
  BY <1>7, <1>14
<1>18. \A t \in DOMAIN f : g[t].refcount = f[t].refcount
  BY <1>13, <1>14
<1> QED BY <1>0, <1>9, <1>12, <1>15, <1>16, <1>17, <1>18, Zenon

(* The records V are linked both ways; record s has been taken out. *)
Ring(V, f) ==
  \A t \in V : /\ f[t].next \in V /\ f[t].prev \in V
               /\ f[f[t].next].prev = t /\ f[f[t].prev].next = t

TakenOut(V, s, f, g) ==
  \/ /\ f[s].prev = s \/ f[s].next = s
     /\ \A t \in V : g[t].next = f[t].next /\ g[t].prev = f[t].prev
  \/ /\ f[s].prev # s /\ f[s].next # s
     /\ g[f[s].prev].next = f[s].next /\ g[f[s].next].prev = f[s].prev
     /\ \A t \in V : t # f[s].prev => g[t].next = f[t].next
     /\ \A t \in V : t # f[s].next => g[t].prev = f[t].prev

LEMMA RingWithout ==
  ASSUME NEW V, NEW s \in V, NEW f, NEW g, Ring(V, f), TakenOut(V, s, f, g)
  PROVE  Ring(V \ {s}, g)
<1> USE DEF Ring
<1>1. \A t \in V : (f[t].next = s <=> f[s].prev = t) /\ (f[t].prev = s <=> f[s].next = t)
  OBVIOUS
<1>2. CASE /\ f[s].prev = s \/ f[s].next = s
           /\ \A t \in V : g[t].next = f[t].next /\ g[t].prev = f[t].prev
  <2>1. f[s].prev = s /\ f[s].next = s
    BY <1>2
  <2> QED BY <1>1, <1>2, <2>1
<1>3. CASE /\ f[s].prev # s /\ f[s].next # s
           /\ g[f[s].prev].next = f[s].next /\ g[f[s].next].prev = f[s].prev
           /\ \A t \in V : t # f[s].prev => g[t].next = f[t].next
           /\ \A t \in V : t # f[s].next => g[t].prev = f[t].prev
  <2>1. PICK p \in V : p = f[s].prev
    OBVIOUS
  <2>2. PICK x \in V : x = f[s].next
    OBVIOUS
  <2>3. /\ p # s /\ x # s /\ g[p].next = x /\ g[x].prev = p
        /\ \A t \in V : t # p => g[t].next = f[t].next
        /\ \A t \in V : t # x => g[t].prev = f[t].prev
        /\ f[p].next = s /\ f[x].prev = s
    BY <1>3, <2>1, <2>2
  <2> SUFFICES ASSUME NEW t \in V \ {s}
               PROVE  /\ g[t].next \in V \ {s} /\ g[t].prev \in V \ {s}
                      /\ g[g[t].next].prev = t /\ g[g[t].prev].next = t
    OBVIOUS
  <2>4. g[t].next \in V \ {s} /\ g[g[t].next].prev = t
    <3>1. CASE t = p
      BY <2>2, <2>3, <3>1
    <3>2. CASE t # p
      <4>1. g[t].next = f[t].next /\ f[t].next \in V /\ f[f[t].next].prev = t
        BY <2>3, <3>2
      <4>2. f[t].next # s
        BY <1>1, <2>1, <3>2
      <4>3. f[t].next # x
        BY <2>3, <4>1
      <4> QED BY <2>3, <4>1, <4>2, <4>3
    <3> QED BY <3>1, <3>2
  <2>5. g[t].prev \in V \ {s} /\ g[g[t].prev].next = t
    <3>1. CASE t = x
      BY <2>1, <2>3, <3>1
    <3>2. CASE t # x
      <4>1. g[t].prev = f[t].prev /\ f[t].prev \in V /\ f[f[t].prev].next = t
        BY <2>3, <3>2
      <4>2. f[t].prev # s
        BY <1>1, <2>2, <3>2
      <4>3. f[t].prev # p
        BY <2>3, <4>1
      <4> QED BY <2>3, <4>1, <4>2, <4>3
    <3> QED BY <3>1, <3>2
  <2> QED BY <2>4, <2>5
<1> QED BY <1>2, <1>3 DEF TakenOut

(* A node loses its reference to its sk record. *)
LEMMA DropRef ==
  ASSUME NEW n \in Nodes, SoundRecords, sk' = DropSk(n), Nodes' = Nodes \ {n},
         \A m \in Nodes' : nk'[m].sk = nk[m].sk,
         LastUse(n) => valid' \cap DOMAIN sk = (valid \cap DOMAIN sk) \ {nk[n].sk},
         ~LastUse(n) => valid' \cap DOMAIN sk = valid \cap DOMAIN sk
  PROVE  /\ SkInv' /\ DOMAIN sk' = DOMAIN sk /\ sk' \in [DOMAIN sk -> SkType]
<1> DEFINE V == valid \cap DOMAIN sk
<1>1. PICK s \in V : s = nk[n].sk
  BY DEF SoundRecords, SkInv, HasSk
<1>2. PICK f : f = sk
  OBVIOUS
<1>3. f \in [DOMAIN f -> SkType] /\ DOMAIN f = DOMAIN sk /\ s \in DOMAIN f
  BY <1>1, <1>2 DEF SoundRecords, RecordTypes
<1>4. s # None
  BY <1>1 DEF SoundRecords, RecordTypes, Allocated, None
<1>5. \A t \in V :
        /\ f[t].refcount = Cardinality(Users(t))
        /\ f[t].next \in V /\ f[t].prev \in V
        /\ f[f[t].next].prev = t /\ f[f[t].prev].next = t
  BY <1>2 DEF SoundRecords, SkInv, Users
<1>6. IsFiniteSet(Users(s)) /\ n \in Users(s)
  BY <1>1, FiniteNodes, FS_Subset DEF Users, SoundRecords
<1>7. Users(s)' = Users(s) \ {n} /\ \A t : t # s => Users(t)' = Users(t)
  BY <1>1 DEF Users
<1>8. /\ Cardinality(Users(s) \ {n}) = Cardinality(Users(s)) - 1
      /\ IsFiniteSet(Users(s) \ {n})
  BY <1>6, FS_RemoveElement
<1>9. Cardinality(Users(s) \ {n}) \in Nat
  BY <1>8, FS_CardinalityType
<1>10. PICK k \in Nat : k = f[s].refcount - 1 /\ k = Cardinality(Users(s)')
  BY <1>1, <1>5, <1>7, <1>8, <1>9
<1>11. PICK d : d = [f EXCEPT ![s].refcount = k]
  OBVIOUS
<1>12. d \in [DOMAIN f -> SkType]
  BY <1>3, <1>10, <1>11, RefcountType, ZenonT(60)
<1>13. /\ DOMAIN d = DOMAIN f /\ d[s].refcount = k
       /\ \A t \in DOMAIN f : t # s => d[t].refcount = f[t].refcount
       /\ \A t \in DOMAIN f : d[t].next = f[t].next /\ d[t].prev = f[t].prev
  BY <1>3, <1>10, <1>11, RefcountFacts
<1>14. LastUse(n) <=> f[s].refcount = 1
  BY <1>1, <1>2, <1>4 DEF LastUse
<1>15. d = [sk EXCEPT ![s].refcount = sk[s].refcount - 1]
  BY <1>2, <1>10, <1>11
<1> HIDE DEF V
<1>16. CASE ~LastUse(n)
  <2>1. sk' = d
    BY <1>1, <1>4, <1>15, <1>16 DEF DropSk
  <2>2. (valid \cap DOMAIN sk)' = V
    BY <1>3, <1>13, <1>16, <2>1 DEF V
  <2>3. \A m \in Nodes' : HasSk(m)'
    BY <2>2 DEF SoundRecords, SkInv, HasSk, V
  <2>4. V \subseteq DOMAIN f
    BY <1>3 DEF V
  <2>5. \A t \in V :
        /\ d[t].refcount = Cardinality(Users(t)')
        /\ d[t].next \in V /\ d[t].prev \in V
        /\ d[d[t].next].prev = t /\ d[d[t].prev].next = t
    <3> SUFFICES ASSUME NEW t \in V
                 PROVE  /\ d[t].refcount = Cardinality(Users(t)')
                        /\ d[t].next \in V /\ d[t].prev \in V
                        /\ d[d[t].next].prev = t /\ d[d[t].prev].next = t
      OBVIOUS
    <3>1. d[t].refcount = Cardinality(Users(t)')
      <4>1. CASE t = s
        BY <1>10, <1>13, <4>1
      <4>2. CASE t # s
        <5>1. Users(t)' = Users(t)
          BY <1>7, <4>2
        <5> QED BY <1>5, <1>13, <2>4, <4>2, <5>1
      <4> QED BY <4>1, <4>2
    <3> QED BY <1>5, <1>13, <2>4, <3>1
  <2>6. SkInv'
    BY <2>1, <2>2, <2>3, <2>5, ZenonT(60) DEF SkInv, Users
  <2> QED BY <1>3, <1>12, <1>13, <2>1, <2>6
<1>17. CASE LastUse(n)
  <2>1. Users(s) \ {n} = {}
    <3>1. Cardinality(Users(s) \ {n}) = 0
      BY <1>1, <1>5, <1>8, <1>14, <1>17
    <3> QED BY <1>8, <3>1, FS_EmptySet
  <2>2. PICK p \in V : p = f[s].prev
    BY <1>1, <1>5
  <2>3. PICK x \in V : x = f[s].next
    BY <1>1, <1>5
  <2>4. V \subseteq DOMAIN f /\ p \in Nat /\ x \in Nat
    BY <1>3, <2>2, <2>3 DEF V, SoundRecords, RecordTypes, Allocated
  <2>5. /\ sk' \in [DOMAIN f -> SkType]
        /\ \A t \in DOMAIN f : t # s => sk'[t].refcount = f[t].refcount
        /\ \/ /\ p = s \/ x = s
              /\ \A t \in V : sk'[t].next = f[t].next /\ sk'[t].prev = f[t].prev
           \/ /\ p # s /\ x # s /\ sk'[p].next = x /\ sk'[x].prev = p
              /\ \A t \in V : t # p => sk'[t].next = f[t].next
              /\ \A t \in V : t # x => sk'[t].prev = f[t].prev
    <3>1. CASE p = s \/ x = s
      <4>1. sk' = d
        BY <1>1, <1>2, <1>4, <1>15, <2>2, <2>3, <3>1 DEF DropSk
      <4> QED BY <1>12, <1>13, <2>4, <3>1, <4>1, SMTT(60)
    <3>2. CASE p # s /\ x # s
      <4>1. sk' = Join(d, p, x)
        BY <1>1, <1>2, <1>4, <1>15, <1>17, <2>2, <2>3, <3>2 DEF DropSk, Join
      <4>2. PICK g : g = Join(d, p, x)
        OBVIOUS
      <4>3. d \in [DOMAIN d -> SkType] /\ p \in DOMAIN d /\ x \in DOMAIN d
        BY <1>12, <1>13, <2>2, <2>3, <2>4
      <4>4. /\ g \in [DOMAIN d -> SkType]
            /\ \A t \in DOMAIN d : g[t].refcount = d[t].refcount
            /\ g[p].next = x /\ g[x].prev = p
            /\ \A t \in DOMAIN d : t # p => g[t].next = d[t].next
            /\ \A t \in DOMAIN d : t # x => g[t].prev = d[t].prev
        BY <2>2, <2>3, <2>4, <4>2, <4>3, JoinFacts
      <4>5. sk' = g
        BY <4>1, <4>2
      <4> QED BY <1>13, <2>4, <3>2, <4>4, <4>5, SMTT(60)
    <3> QED BY <3>1, <3>2
  <2>6. DOMAIN sk' = DOMAIN f
    BY <2>5
  <2>7. (valid \cap DOMAIN sk)' = V \ {s}
    BY <1>1, <1>3, <1>17, <2>6 DEF V
  <2>8. \A m \in Nodes' : HasSk(m)'
    <3> SUFFICES ASSUME NEW m \in Nodes \ {n}
                 PROVE  nk'[m].sk \in V \ {s}
      BY <2>7 DEF HasSk
    <3>1. nk[m].sk \in V
      BY DEF SoundRecords, SkInv, HasSk, V
    <3>2. nk[m].sk # s
      BY <2>1 DEF Users
    <3> QED BY <3>1, <3>2
  <2>9. \A t \in V \ {s} : sk'[t].refcount = Cardinality(Users(t)')
    BY <1>5, <1>7, <2>4, <2>5
  <2>10. PICK g : g = sk'
    OBVIOUS
  <2>11. TakenOut(V, s, f, g)
    BY <2>2, <2>3, <2>5, <2>10 DEF TakenOut
  <2>12. Ring(V, f)
    BY <1>5 DEF Ring
  <2>13. Ring(V \ {s}, g)
    BY <1>1, <2>11, <2>12, RingWithout
  <2>14. SkInv'
    BY <2>7, <2>8, <2>9, <2>10, <2>13 DEF SkInv, Users, Ring
  <2> QED BY <1>3, <2>5, <2>6, <2>14
<1> QED BY <1>16, <1>17

-----------------------------------------------------------------------------
(* delete_node *)

(* The nodes when node n refers to nothing but its lists. *)
Emptied(n) == [NoValues(n) EXCEPT ![n].sk = None, ![n].classname = None]

LEMMA EmptiedFacts ==
  ASSUME NEW n \in DOMAIN nk, RecordTypes
  PROVE  /\ DOMAIN Emptied(n) = DOMAIN nk
         /\ Emptied(n) \in [DOMAIN nk -> NodeType]
         /\ \A m \in DOMAIN nk : m # n => Emptied(n)[m] = nk[m]
         /\ Emptied(n)[n].nr_values = 0 /\ Emptied(n)[n].vallist = None
         /\ Emptied(n)[n].sk = None /\ Emptied(n)[n].classname = None
         /\ Emptied(n)[n].name = nk[n].name
         /\ Emptied(n)[n].parent = nk[n].parent
         /\ Emptied(n)[n].nr_subkeys = nk[n].nr_subkeys
         /\ Emptied(n)[n].subkey_lf = nk[n].subkey_lf
<1>1. None \in Int /\ 0 \in Nat
  BY DEF None
<1>2. PICK f : f = NoValues(n)
  OBVIOUS
<1>3. /\ DOMAIN f = DOMAIN nk /\ f \in [DOMAIN nk -> NodeType]
      /\ \A m \in DOMAIN nk : m # n => f[m] = nk[m]
      /\ f[n].nr_values = 0 /\ f[n].vallist = None
      /\ f[n].name = nk[n].name /\ f[n].parent = nk[n].parent
      /\ f[n].nr_subkeys = nk[n].nr_subkeys /\ f[n].subkey_lf = nk[n].subkey_lf
  BY <1>1, <1>2, NoValuesIs, WithValuesFacts
<1>4. PICK q \in NodeType : q = f[n]
  BY <1>3
<1>5. PICK r : r = [q EXCEPT !.sk = None, !.classname = None]
  OBVIOUS
<1>6. /\ r.nr_values = q.nr_values /\ r.vallist = q.vallist /\ r.name = q.name
      /\ r.parent = q.parent /\ r.nr_subkeys = q.nr_subkeys
      /\ r.subkey_lf = q.subkey_lf /\ r.sk = None /\ r.classname = None
  BY <1>4, <1>5 DEF NodeType
<1>7. r \in NodeType
  <2>1. /\ q.name \in STRING /\ q.parent \in Nat /\ q.nr_subkeys \in Nat
        /\ q.subkey_lf \in Int /\ q.nr_values \in Nat /\ q.vallist \in Int
    BY <1>4 DEF NodeType
  <2>2. r = [name |-> q.name, parent |-> q.parent, nr_subkeys |-> q.nr_subkeys,
             subkey_lf |-> q.subkey_lf, nr_values |-> q.nr_values,
             vallist |-> q.vallist, sk |-> None, classname |-> None]
    BY <1>4, <1>5 DEF NodeType
  <2> QED BY <1>1, <2>1, <2>2 DEF NodeType
<1>8. PICK g : g = Emptied(n)
  OBVIOUS
<1>9. DOMAIN g = DOMAIN nk /\ g[n] = r /\ \A m \in DOMAIN nk : m # n => g[m] = f[m]
  BY <1>2, <1>3, <1>4, <1>5, <1>8 DEF Emptied
<1>10. g = [m \in DOMAIN nk |-> g[m]]
  BY <1>2, <1>3, <1>8 DEF Emptied
<1>11. \A m \in DOMAIN nk : g[m] \in NodeType
  BY <1>3, <1>7, <1>9
<1>12. g \in [DOMAIN nk -> NodeType]
  BY <1>10, <1>11
<1> QED BY <1>3, <1>4, <1>6, <1>8, <1>9, <1>12

(* delete_node frees its node and no other, and no sk record but one that  *)
(* no other node uses.                                                     *)
LEMMA DeleteNodeFrees ==
  ASSUME NEW n \in DOMAIN nk, SoundRecords, n = Top.node, DeleteNode
  PROVE  /\ Nodes' = Nodes \ {n}
         /\ LastUse(n) => valid' \cap DOMAIN sk = (valid \cap DOMAIN sk) \ {nk[n].sk}
         /\ ~LastUse(n) => valid' \cap DOMAIN sk = valid \cap DOMAIN sk
<1> DEFINE F == ToSet(NodeBlocks(n))
<1>1. /\ RecordTypes /\ KindsApart /\ References /\ ListsOK(n) /\ ValuesOK(n)
      /\ F \subseteq valid
  BY DEF SoundRecords, DeleteNode, CanFree
<1>2. F = ToSet(Blocks(n)) \cup ToSet(ValueBlocks(n)) \cup {n} \cup
          (IF nk[n].classname = None THEN {} ELSE {nk[n].classname})
  BY <1>1, NodeBlocksType
<1>3. nk[n].classname \in DOMAIN db \cup {None}
  BY <1>1 DEF References
<1>4. F \subseteq {n} \cup DOMAIN lf \cup DOMAIN ri \cup DOMAIN vl \cup
                  DOMAIN vk \cup DOMAIN db \cup {Zero}
  BY <1>1, <1>2, <1>3, BlocksType, ValueBlocksKinds
<1>5. n \in F /\ n \notin DOMAIN sk
  BY <1>1, <1>2 DEF KindsApart
<1>6. (F \ {n}) \cap DOMAIN nk = {} /\ (F \ {n}) \cap DOMAIN sk = {}
  <2>1. F \ {n} \subseteq DOMAIN lf \cup DOMAIN ri \cup DOMAIN vl \cup
                          DOMAIN vk \cup DOMAIN db \cup {Zero}
    BY <1>4
  <2> QED BY <1>1, <2>1, Apart
<1>7. /\ LastUse(n) => valid' = valid \ (F \cup {nk[n].sk})
      /\ ~LastUse(n) => valid' = valid \ F
  BY DEF DeleteNode
<1>8. LastUse(n) => nk[n].sk \in DOMAIN sk
  BY DEF DeleteNode, SkOK, LastUse, HasSk
<1>9. LastUse(n) => nk[n].sk \notin DOMAIN nk
  BY <1>1, <1>8 DEF KindsApart
<1>10. DOMAIN nk' = DOMAIN nk
  <2>1. nk' = Emptied(n)
    BY DEF DeleteNode, Emptied
  <2>2. DOMAIN Emptied(n) = DOMAIN nk
    BY <1>1, EmptiedFacts
  <2> QED BY <2>1, <2>2
<1> HIDE DEF F
<1>11. Nodes' = Nodes \ {n}
  BY <1>5, <1>6, <1>7, <1>9, <1>10 DEF Nodes
<1>12. LastUse(n) => valid' \cap DOMAIN sk = (valid \cap DOMAIN sk) \ {nk[n].sk}
  BY <1>5, <1>6, <1>7
<1>13. ~LastUse(n) => valid' \cap DOMAIN sk = valid \cap DOMAIN sk
  BY <1>5, <1>6, <1>7
<1> QED BY <1>11, <1>12, <1>13

LEMMA DeleteNodeSound ==
  ASSUME NEW n \in Nodes \ {root}, SoundRecords, n = Top.node, DeleteNode
  PROVE  SoundRecords'
<1>1. /\ RecordTypes /\ KindsApart /\ References /\ SkInv
      /\ n \in DOMAIN nk
  BY DEF SoundRecords, Nodes
<1>2. /\ nk' = Emptied(n) /\ sk' = DropSk(n) /\ valid' \subseteq valid
      /\ root' = root /\ next' = next /\ lf' = lf /\ ri' = ri
      /\ vl' = vl /\ vk' = vk /\ db' = db
  BY DEF DeleteNode, Emptied, valueVars
<1>3. /\ DOMAIN nk' = DOMAIN nk /\ nk' \in [DOMAIN nk -> NodeType]
      /\ \A m \in DOMAIN nk : m # n => nk'[m] = nk[m]
      /\ nk'[n].nr_values = 0 /\ nk'[n].vallist = None
      /\ nk'[n].sk = None /\ nk'[n].classname = None
      /\ nk'[n].parent = nk[n].parent /\ nk'[n].subkey_lf = nk[n].subkey_lf
  <2>1. PICK g : g = Emptied(n)
    OBVIOUS
  <2>2. /\ DOMAIN g = DOMAIN nk /\ g \in [DOMAIN nk -> NodeType]
        /\ \A m \in DOMAIN nk : m # n => g[m] = nk[m]
        /\ g[n].nr_values = 0 /\ g[n].vallist = None
        /\ g[n].sk = None /\ g[n].classname = None
        /\ g[n].parent = nk[n].parent /\ g[n].subkey_lf = nk[n].subkey_lf
    BY <1>1, <2>1, EmptiedFacts
  <2> QED BY <1>2, <2>1, <2>2
<1>4. Allocated' = Allocated /\ Offsets' = Offsets /\ None \in Offsets
  BY <1>2 DEF Allocated, Offsets
<1>5. /\ Nodes' = Nodes \ {n}
      /\ LastUse(n) => valid' \cap DOMAIN sk = (valid \cap DOMAIN sk) \ {nk[n].sk}
      /\ ~LastUse(n) => valid' \cap DOMAIN sk = valid \cap DOMAIN sk
  BY <1>1, DeleteNodeFrees
<1>6. SkInv' /\ DOMAIN sk' = DOMAIN sk /\ sk' \in [DOMAIN sk -> SkType]
  <2>1. \A m \in Nodes' : nk'[m].sk = nk[m].sk
    BY <1>3, <1>5 DEF Nodes
  <2> QED BY <1>2, <1>5, <2>1, DropRef
<1>7. RecordTypes'
  BY <1>1, <1>2, <1>3, <1>4, <1>6 DEF RecordTypes
<1>8. KindsApart'
  BY <1>1, <1>2, <1>3, <1>6 DEF KindsApart
<1>9. References'
  <2>1. ASSUME NEW m \in DOMAIN nk'
        PROVE  /\ nk'[m].parent \in Allocated'
               /\ nk'[m].subkey_lf \in Offsets' /\ nk'[m].vallist \in Offsets'
               /\ nk'[m].sk \in Offsets'
               /\ nk'[m].nr_values > 0 => nk'[m].vallist \in DOMAIN vl'
               /\ nk'[m].classname \in DOMAIN db' \cup {None}
    <3>1. CASE m = n
      BY <1>1, <1>3, <1>4, <3>1 DEF References
    <3>2. CASE m # n
      BY <1>1, <1>2, <1>3, <1>4, <2>1, <3>2 DEF References
    <3> QED BY <3>1, <3>2
  <2> QED BY <1>1, <1>2, <1>5, <2>1 DEF References
<1> QED BY <1>6, <1>7, <1>8, <1>9 DEF SoundRecords

-----------------------------------------------------------------------------
(* The end of hivex_node_delete_child *)

(* The list that loses the deleted node: the first one that holds it. *)
HomeAt(p) == SelectInSeq(Lists(p), LAMBDA b : target \in ToSet(lf[b]))

LEMMA HomeFacts ==
  ASSUME NEW p \in DOMAIN nk, RecordTypes, ListsOK(p), target \in ToSet(Children(p))
  PROVE  /\ HomeAt(p) \in DOMAIN Lists(p)
         /\ target \in ToSet(lf[Lists(p)[HomeAt(p)]])
         /\ \A i \in DOMAIN Lists(p) :
              i < HomeAt(p) => target \notin ToSet(lf[Lists(p)[i]])
<1> DEFINE I == {i \in 1 .. Len(Lists(p)) : target \in ToSet(lf[Lists(p)[i]])}
<1>1. nk[p].nr_subkeys # 0 /\ \E i \in DOMAIN Lists(p) : target \in ToSet(lf[Lists(p)[i]])
  BY ChildrenType
<1>2. Lists(p) \in Seq(Nat)
  BY <1>1, ListsType
<1>3. DOMAIN Lists(p) = 1 .. Len(Lists(p)) /\ Len(Lists(p)) \in Nat
  BY <1>2
<1>4. I # {} /\ I \in SUBSET Nat
  BY <1>1, <1>3
<1>5. HomeAt(p) = Min(I)
  BY <1>4 DEF HomeAt, SelectInSeq
<1>6. Min(I) \in I /\ \A i \in I : Min(I) <= i
  BY <1>4, MinNat
<1>7. Min(I) \in DOMAIN Lists(p) /\ target \in ToSet(lf[Lists(p)[Min(I)]])
  BY <1>3, <1>6
<1>8. \A i \in DOMAIN Lists(p) : i \notin I => target \notin ToSet(lf[Lists(p)[i]])
  BY <1>3
<1> HIDE DEF I
<1>9. \A i \in DOMAIN Lists(p) : i < Min(I) => i \notin I
  BY <1>3, <1>6, <1>7
<1> QED BY <1>5, <1>7, <1>8, <1>9

(* What Unlink does to the lists and to the parent. *)
LEMMA UnlinkFacts ==
  ASSUME NEW p, RecordTypes, p = Top.node, Unlink
  PROVE  /\ p \in Nodes /\ p \in DOMAIN nk /\ ListsOK(p)
         /\ target \in ToSet(Children(p))
         /\ Lists(p)[HomeAt(p)] \in valid \cap DOMAIN lf
         /\ DOMAIN lf' = DOMAIN lf /\ lf' \in [DOMAIN lf -> Seq(Nat)]
         /\ \A b \in DOMAIN lf : b # Lists(p)[HomeAt(p)] => lf'[b] = lf[b]
         /\ lf'[Lists(p)[HomeAt(p)]] = RemoveFirst(lf[Lists(p)[HomeAt(p)]], target)
         /\ \A b \in DOMAIN lf : ToSet(lf'[b]) \subseteq ToSet(lf[b])
         /\ DOMAIN nk' = DOMAIN nk /\ nk' \in [DOMAIN nk -> NodeType]
         /\ \A m \in DOMAIN nk : m # p => nk'[m] = nk[m]
         /\ nk[p].nr_subkeys > 0 /\ nk'[p].nr_subkeys = nk[p].nr_subkeys - 1
         /\ nk'[p].name = nk[p].name /\ nk'[p].parent = nk[p].parent
         /\ nk'[p].subkey_lf = nk[p].subkey_lf
         /\ nk'[p].nr_values = nk[p].nr_values /\ nk'[p].vallist = nk[p].vallist
         /\ nk'[p].sk = nk[p].sk /\ nk'[p].classname = nk[p].classname
<1>1. /\ p \in Nodes /\ p \in DOMAIN nk /\ ListsOK(p)
      /\ target \in ToSet(Children(p))
  BY DEF Unlink, IsNode, Nodes
<1>2. PICK h : h = Lists(p)[HomeAt(p)]
  OBVIOUS
<1>3. nk[p].nr_subkeys # 0
  BY <1>1, ChildrenType
<1>4. h \in valid \cap DOMAIN lf /\ target \in ToSet(lf[h])
  BY <1>1, <1>2, <1>3, HomeFacts, ListsType
<1>5. PICK o \in Seq(Nat) : o = lf[h]
  BY <1>4 DEF RecordTypes
<1>6. PICK e : e = target
  OBVIOUS
<1>7. PICK r : r = RemoveFirst(o, e)
  OBVIOUS
<1>8. r \in Seq(Nat) /\ ToSet(r) \subseteq ToSet(o)
  BY <1>4, <1>5, <1>6, <1>7, RemoveFirstFacts, RemoveFirstMembers
<1>9. lf' = [lf EXCEPT ![h] = RemoveFirst(lf[h], target)]
  BY <1>2 DEF Unlink, HomeAt
<1>10. lf' = [lf EXCEPT ![h] = r]
  BY <1>5, <1>6, <1>7, <1>9
<1>11. DOMAIN lf' = DOMAIN lf /\ lf'[h] = r /\ \A b \in DOMAIN lf : b # h => lf'[b] = lf[b]
  BY <1>4, <1>10
<1>12. lf' \in [DOMAIN lf -> Seq(Nat)]
  BY <1>8, <1>10 DEF RecordTypes
<1>13. \A b \in DOMAIN lf : ToSet(lf'[b]) \subseteq ToSet(lf[b])
  BY <1>5, <1>8, <1>11
<1>14. PICK q \in NodeType : q = nk[p]
  BY <1>1 DEF RecordTypes
<1>15. PICK k \in Nat : k = q.nr_subkeys - 1
  BY <1>3, <1>14 DEF NodeType
<1>16. nk' = [nk EXCEPT ![p].nr_subkeys = nk[p].nr_subkeys - 1]
  BY DEF Unlink
<1>17. PICK q0 : q0 = [q EXCEPT !.nr_subkeys = k]
  OBVIOUS
<1>18. DOMAIN nk' = DOMAIN nk /\ nk'[p] = q0 /\ \A m \in DOMAIN nk : m # p => nk'[m] = nk[m]
  BY <1>1, <1>14, <1>15, <1>16, <1>17
<1>19. /\ q0.nr_subkeys = k /\ q0.name = q.name /\ q0.parent = q.parent
       /\ q0.subkey_lf = q.subkey_lf
       /\ q0.nr_values = q.nr_values /\ q0.vallist = q.vallist
       /\ q0.sk = q.sk /\ q0.classname = q.classname
  BY <1>14, <1>17 DEF NodeType
<1>20. q0 \in NodeType
  <2>1. q.subkey_lf \in Int
    BY <1>14 DEF NodeType
  <2>2. PICK b \in Int : b = q.subkey_lf
    BY <2>1
  <2>3. q0 = [q EXCEPT !.nr_subkeys = k, !.subkey_lf = b]
    BY <1>14, <1>17, <2>2 DEF NodeType
  <2> QED BY <1>14, <1>15, <2>2, <2>3, SubkeysChanged, Zenon
<1>21. nk' = [m \in DOMAIN nk |-> nk'[m]]
  BY <1>16
<1>22. \A m \in DOMAIN nk : nk'[m] \in NodeType
  BY <1>18, <1>20 DEF RecordTypes
<1>23. nk' \in [DOMAIN nk -> NodeType]
  BY <1>21, <1>22
<1>24. nk[p].nr_subkeys > 0 /\ nk[p].nr_subkeys - 1 = k
  BY <1>3, <1>14, <1>15, SMTT(60) DEF NodeType
<1>25. lf'[h] = RemoveFirst(lf[h], target)
  BY <1>5, <1>6, <1>7, <1>11
<1> QED
  BY <1>1, <1>2, <1>4, <1>11, <1>12, <1>13, <1>14, <1>18, <1>19, <1>23, <1>24,
     <1>25

LEMMA UnlinkSound ==
  ASSUME NEW p, SoundRecords, p = Top.node, Unlink
  PROVE  SoundRecords'
<1>1. RecordTypes /\ KindsApart /\ References /\ SkInv
  BY DEF SoundRecords
<1>2. /\ DOMAIN lf' = DOMAIN lf /\ lf' \in [DOMAIN lf -> Seq(Nat)]
      /\ \A b \in DOMAIN lf : ToSet(lf'[b]) \subseteq ToSet(lf[b])
      /\ DOMAIN nk' = DOMAIN nk /\ nk' \in [DOMAIN nk -> NodeType]
      /\ \A m \in DOMAIN nk : m # p => nk'[m] = nk[m]
      /\ nk'[p].parent = nk[p].parent /\ nk'[p].subkey_lf = nk[p].subkey_lf
      /\ nk'[p].nr_values = nk[p].nr_values /\ nk'[p].vallist = nk[p].vallist
      /\ nk'[p].sk = nk[p].sk /\ nk'[p].classname = nk[p].classname
  BY <1>1, UnlinkFacts
<1>3. /\ valid' = valid /\ root' = root /\ next' = next /\ ri' = ri /\ sk' = sk
      /\ vl' = vl /\ vk' = vk /\ db' = db
  BY DEF Unlink, valueVars
<1>4. \A m \in DOMAIN nk :
        /\ nk'[m].sk = nk[m].sk /\ nk'[m].parent = nk[m].parent
        /\ nk'[m].subkey_lf = nk[m].subkey_lf
        /\ nk'[m].nr_values = nk[m].nr_values /\ nk'[m].vallist = nk[m].vallist
        /\ nk'[m].classname = nk[m].classname
  BY <1>2
<1>5. Allocated' = Allocated /\ Offsets' = Offsets /\ Nodes' = Nodes
  BY <1>2, <1>3 DEF Allocated, Offsets, Nodes
<1>6. RecordTypes'
  BY <1>1, <1>2, <1>3, <1>5 DEF RecordTypes
<1>7. KindsApart'
  BY <1>1, <1>2, <1>3 DEF KindsApart
<1>8. References'
  BY <1>1, <1>2, <1>3, <1>4, <1>5 DEF References
<1>9. SkInv'
  <2>1. \A m \in Nodes : nk'[m].sk = nk[m].sk
    BY <1>4 DEF Nodes
  <2> QED BY <1>1, <1>3, <1>5, <2>1, SameRefs
<1> QED BY <1>6, <1>7, <1>8, <1>9 DEF SoundRecords

-----------------------------------------------------------------------------
(* hivex_node_set_values *)

LEMMA SetValuesBeginFacts ==
  ASSUME NEW n, NEW vs \in Seq(ValueType), SoundRecords, SetValuesBegin(n, vs)
  PROVE  /\ n \in Nodes /\ n \in DOMAIN nk /\ ValuesOK(n) /\ next \in Nat \ {0}
         /\ Len(vs) > 0
         /\ DOMAIN nk' = DOMAIN nk /\ nk' \in [DOMAIN nk -> NodeType]
         /\ \A m \in DOMAIN nk : m # n => nk'[m] = nk[m]
         /\ nk'[n].nr_values = Len(vs) /\ nk'[n].vallist = next
         /\ nk'[n].name = nk[n].name /\ nk'[n].parent = nk[n].parent
         /\ nk'[n].nr_subkeys = nk[n].nr_subkeys
         /\ nk'[n].subkey_lf = nk[n].subkey_lf
         /\ nk'[n].sk = nk[n].sk /\ nk'[n].classname = nk[n].classname
         /\ DOMAIN vl' = DOMAIN vl \cup {next} /\ vl' \in [DOMAIN vl' -> Seq(Nat)]
         /\ \A b \in DOMAIN vl : vl'[b] = vl[b]
         /\ Len(vl'[next]) = Len(vs) /\ ToSet(vl'[next]) \subseteq {Zero}
         /\ valid' = (valid \ ToSet(ValueBlocks(n))) \cup {next}
         /\ next' = next + 1 /\ root' = root
         /\ lf' = lf /\ ri' = ri /\ sk' = sk /\ vk' = vk /\ db' = db
         /\ pc' = "set" /\ target' = n /\ list' = vs /\ stored' = 0
         /\ ret' = ret /\ frames' = frames /\ handles' = handles
         /\ torn' = torn /\ orphans' = orphans /\ partial' = partial
<1>1. /\ n \in Nodes /\ n \in DOMAIN nk /\ ValuesOK(n) /\ RecordTypes
      /\ next \in Nat \ {0} /\ next \notin DOMAIN vl
  BY DEF SetValuesBegin, CanClear, IsNode, Nodes, SoundRecords, RecordTypes,
         Allocated
<1>2. Len(vs) \in Nat /\ Len(vs) > 0 /\ next \in Int
  BY <1>1 DEF SetValuesBegin
<1>3. PICK k \in Nat : k = Len(vs)
  BY <1>2
<1>4. PICK b \in Int : b = next
  BY <1>2
<1>5. PICK g : g = WithValues(n, k, b)
  OBVIOUS
<1>6. /\ DOMAIN g = DOMAIN nk /\ g \in [DOMAIN nk -> NodeType]
      /\ \A m \in DOMAIN nk : m # n => g[m] = nk[m]
      /\ g[n].nr_values = k /\ g[n].vallist = b
      /\ g[n].name = nk[n].name /\ g[n].parent = nk[n].parent
      /\ g[n].nr_subkeys = nk[n].nr_subkeys /\ g[n].subkey_lf = nk[n].subkey_lf
      /\ g[n].sk = nk[n].sk /\ g[n].classname = nk[n].classname
  BY <1>1, <1>3, <1>4, <1>5, WithValuesFacts
<1>7. nk' = g
  BY <1>3, <1>4, <1>5 DEF SetValuesBegin, WithValues
<1>8. PICK z : z = [i \in DOMAIN vs |-> Zero]
  OBVIOUS
<1>9. z \in Seq(Nat) /\ Len(z) = k /\ ToSet(z) \subseteq {Zero}
  <2>1. z \in [1 .. k -> Nat] /\ \A i \in 1 .. k : z[i] = Zero
    BY <1>3, <1>8 DEF Zero
  <2>2. z \in Seq(Nat) /\ Len(z) = k
    BY <1>3, <2>1
  <2> QED BY <2>1, <2>2, ToSetFacts
<1>10. vl' = NewRecord(vl, next, z)
  BY <1>8 DEF SetValuesBegin
<1>11. vl' \in [DOMAIN vl' -> Seq(Nat)]
  BY <1>1, <1>9, <1>10, NewRecordType DEF RecordTypes
<1>12. DOMAIN vl' = DOMAIN vl \cup {next} /\ vl'[next] = z /\ \A c \in DOMAIN vl : vl'[c] = vl[c]
  BY <1>1, <1>10 DEF NewRecord
<1>13. /\ valid' = (valid \ ToSet(ValueBlocks(n))) \cup {next}
       /\ next' = next + 1 /\ root' = root
       /\ lf' = lf /\ ri' = ri /\ sk' = sk /\ vk' = vk /\ db' = db
       /\ pc' = "set" /\ target' = n /\ list' = vs /\ stored' = 0
       /\ ret' = ret /\ frames' = frames /\ handles' = handles
       /\ torn' = torn /\ orphans' = orphans /\ partial' = partial
  BY DEF SetValuesBegin, historyVars
<1> QED
  BY <1>1, <1>2, <1>3, <1>4, <1>6, <1>7, <1>9, <1>11, <1>12, <1>13

LEMMA SetValuesBeginSound ==
  ASSUME NEW n, NEW vs \in Seq(ValueType), SoundRecords, SetValuesBegin(n, vs)
  PROVE  SoundRecords'
<1>1. RecordTypes /\ KindsApart /\ References /\ SkInv
  BY DEF SoundRecords
<1>2. /\ n \in Nodes /\ n \in DOMAIN nk /\ ValuesOK(n) /\ next \in Nat \ {0}
      /\ DOMAIN nk' = DOMAIN nk /\ nk' \in [DOMAIN nk -> NodeType]
      /\ \A m \in DOMAIN nk : m # n => nk'[m] = nk[m]
      /\ nk'[n].vallist = next /\ nk'[n].parent = nk[n].parent
      /\ nk'[n].subkey_lf = nk[n].subkey_lf
      /\ nk'[n].sk = nk[n].sk /\ nk'[n].classname = nk[n].classname
  BY SetValuesBeginFacts
<1>0. /\ DOMAIN vl' = DOMAIN vl \cup {next} /\ vl' \in [DOMAIN vl' -> Seq(Nat)]
      /\ \A b \in DOMAIN vl : vl'[b] = vl[b]
      /\ ToSet(vl'[next]) \subseteq {Zero}
      /\ valid' = (valid \ ToSet(ValueBlocks(n))) \cup {next}
      /\ next' = next + 1 /\ root' = root
      /\ lf' = lf /\ ri' = ri /\ sk' = sk /\ vk' = vk /\ db' = db
  BY SetValuesBeginFacts
<1>3. /\ ToSet(ValueBlocks(n)) \cap DOMAIN nk = {}
      /\ ToSet(ValueBlocks(n)) \cap DOMAIN sk = {}
  BY <1>0, <1>1, <1>2, ValueBlocksKinds, Apart
<1>4. /\ Allocated' = Allocated \cup {next} /\ next \notin Allocated
      /\ Offsets' = Offsets \cup {next}
  BY <1>0, <1>2 DEF Allocated, Offsets
<1>5. next \notin DOMAIN nk /\ next \notin DOMAIN sk
  BY <1>1, <1>4 DEF RecordTypes
<1>6. Nodes' = Nodes
  BY <1>0, <1>2, <1>3, <1>5 DEF Nodes
<1>7. RecordTypes'
  BY <1>0, <1>1, <1>2, <1>4 DEF RecordTypes
<1>8. KindsApart'
  BY <1>0, <1>1, <1>2, <1>5 DEF KindsApart
<1>9. References'
  <2>1. ASSUME NEW m \in DOMAIN nk'
        PROVE  /\ nk'[m].parent \in Allocated'
               /\ nk'[m].subkey_lf \in Offsets' /\ nk'[m].vallist \in Offsets'
               /\ nk'[m].sk \in Offsets'
               /\ nk'[m].nr_values > 0 => nk'[m].vallist \in DOMAIN vl'
               /\ nk'[m].classname \in DOMAIN db' \cup {None}
    <3>1. CASE m = n
      BY <1>0, <1>1, <1>2, <1>4, <3>1 DEF References
    <3>2. CASE m # n
      BY <1>0, <1>1, <1>2, <1>4, <2>1, <3>2 DEF References
    <3> QED BY <3>1, <3>2
  <2>2. \A l \in DOMAIN vl' : ToSet(vl'[l]) \subseteq DOMAIN vk' \cup {Zero}
    BY <1>0, <1>1, <1>2 DEF References
  <2> QED BY <1>0, <1>1, <1>2, <1>6, <2>1, <2>2 DEF References
<1>10. SkInv'
  <2>1. \A m \in Nodes : nk'[m].sk = nk[m].sk
    BY <1>0, <1>2 DEF Nodes
  <2>2. valid' \cap DOMAIN sk = valid \cap DOMAIN sk
    BY <1>0, <1>2, <1>3, <1>5
  <2> QED BY <1>0, <1>1, <1>2, <1>6, <2>1, <2>2, SameRefs
<1> QED BY <1>7, <1>8, <1>9, <1>10 DEF SoundRecords

(* What PutValue does to the value list of the node. *)
LEMMA PutValueFacts ==
  ASSUME NEW v \in ValueType, NEW d \in Nat, RecordTypes, PutValue(v, d),
         nk[target].vallist \in DOMAIN vl
  PROVE  /\ DOMAIN vk' = DOMAIN vk \cup {next} /\ vk' \in [DOMAIN vk' -> VkType]
         /\ \A b \in DOMAIN vk : vk'[b] = vk[b]
         /\ vk'[next].key = v.key /\ vk'[next].t = v.t /\ vk'[next].data = d
         /\ vk'[next].inline = (v.len = "inline")
         /\ DOMAIN vl' = DOMAIN vl /\ vl' \in [DOMAIN vl -> Seq(Nat)]
         /\ \A b \in DOMAIN vl : b # nk[target].vallist => vl'[b] = vl[b]
         /\ Len(vl'[nk[target].vallist]) = Len(vl[nk[target].vallist])
         /\ \A i \in 1 .. Len(vl[nk[target].vallist]) :
              i # stored + 1 => vl'[nk[target].vallist][i] = vl[nk[target].vallist][i]
         /\ stored + 1 \in 1 .. Len(vl[nk[target].vallist]) =>
              vl'[nk[target].vallist][stored + 1] = next
         /\ \A x \in ToSet(vl'[nk[target].vallist]) :
              x = next \/ x \in ToSet(vl[nk[target].vallist])
<1>1. next \in Nat /\ next \notin DOMAIN vk
  BY DEF RecordTypes, Allocated
<1>2. PICK r : r = [key |-> v.key, t |-> v.t, inline |-> v.len = "inline", data |-> d]
  OBVIOUS
<1>3. /\ r.key = v.key /\ r.t = v.t /\ r.data = d /\ r.inline = (v.len = "inline")
      /\ r \in VkType
  <2>1. v.key \in STRING /\ v.t \in STRING /\ (v.len = "inline") \in BOOLEAN
    BY DEF ValueType
  <2> QED BY <1>2, <2>1 DEF VkType
<1>4. vk' = NewRecord(vk, next, r)
  BY <1>2 DEF PutValue
<1>5. vk' \in [DOMAIN vk' -> VkType]
  BY <1>3, <1>4, NewRecordType DEF RecordTypes
<1>6. DOMAIN vk' = DOMAIN vk \cup {next} /\ vk'[next] = r /\ \A c \in DOMAIN vk : vk'[c] = vk[c]
  BY <1>1, <1>4 DEF NewRecord
<1>7. PICK b \in DOMAIN vl : b = nk[target].vallist
  OBVIOUS
<1>8. PICK s \in Seq(Nat) : s = vl[b]
  BY <1>7 DEF RecordTypes
<1>9. PICK i : i = stored + 1
  OBVIOUS
<1>10. PICK e \in Nat : e = next
  BY <1>1
<1>11. PICK t : t = [s EXCEPT ![i] = e]
  OBVIOUS
<1>12. vl' = [vl EXCEPT ![b] = t]
  BY <1>7, <1>8, <1>9, <1>10, <1>11 DEF PutValue
<1>13. DOMAIN vl' = DOMAIN vl /\ vl'[b] = t /\ \A c \in DOMAIN vl : c # b => vl'[c] = vl[c]
  BY <1>7, <1>12
<1>14. t \in Seq(Nat)
  BY <1>8, <1>10, <1>11, ReplaceFacts, Zenon
<1>15. /\ Len(t) = Len(s)
       /\ i \in 1 .. Len(s) => t[i] = e
       /\ \A j \in 1 .. Len(s) : j # i => t[j] = s[j]
  BY <1>8, <1>10, <1>11, ReplaceFacts
<1>16. vl' \in [DOMAIN vl -> Seq(Nat)]
  BY <1>12, <1>14 DEF RecordTypes
<1>17. \A x \in ToSet(t) : x = e \/ x \in ToSet(s)
  <2>1. \A x \in ToSet(t) : \E j \in 1 .. Len(t) : x = t[j]
    BY <1>14, ToSetFacts
  <2>2. \A j \in 1 .. Len(s) : s[j] \in ToSet(s)
    BY <1>8, ToSetFacts
  <2> QED BY <1>15, <2>1, <2>2
<1>18. /\ vk'[next].key = v.key /\ vk'[next].t = v.t /\ vk'[next].data = d
       /\ vk'[next].inline = (v.len = "inline")
  BY <1>3, <1>6
<1>19. \A x \in ToSet(vl'[b]) : x = next \/ x \in ToSet(vl[b])
  BY <1>8, <1>10, <1>13, <1>17
<1>20. /\ Len(vl'[b]) = Len(vl[b])
       /\ \A j \in 1 .. Len(vl[b]) : j # stored + 1 => vl'[b][j] = vl[b][j]
       /\ stored + 1 \in 1 .. Len(vl[b]) => vl'[b][stored + 1] = next
  BY <1>8, <1>9, <1>10, <1>13, <1>15
<1> QED BY <1>5, <1>6, <1>7, <1>13, <1>16, <1>18, <1>19, <1>20

(* A value is stored: one block for the record, one for its data if any. *)
LEMMA PutValueSound ==
  ASSUME NEW v \in ValueType, NEW d \in Nat, NEW k \in {1, 2},
         SoundRecords, PutValue(v, d), nk[target].vallist \in DOMAIN vl,
         db' = db \/ (k = 2 /\ db' = NewRecord(db, next + 1, v.data)),
         v.len = "inline" \/ d \in DOMAIN db' \cup {Zero},
         valid' = valid \cup next .. (next + k - 1), next' = next + k,
         root' = root, nk' = nk, lf' = lf, ri' = ri, sk' = sk
  PROVE  SoundRecords'
<1>1. RecordTypes /\ KindsApart /\ References /\ SkInv /\ next \in Nat \ {0}
  BY DEF SoundRecords, RecordTypes
<1>2. /\ DOMAIN vk' = DOMAIN vk \cup {next} /\ vk' \in [DOMAIN vk' -> VkType]
      /\ \A b \in DOMAIN vk : vk'[b] = vk[b]
      /\ vk'[next].data = d /\ vk'[next].inline = (v.len = "inline")
  BY <1>1, PutValueFacts
<1>3. /\ DOMAIN vl' = DOMAIN vl /\ vl' \in [DOMAIN vl -> Seq(Nat)]
      /\ \A b \in DOMAIN vl : b # nk[target].vallist => vl'[b] = vl[b]
      /\ \A x \in ToSet(vl'[nk[target].vallist]) :
              x = next \/ x \in ToSet(vl[nk[target].vallist])
  BY <1>1, PutValueFacts
<1>4. DOMAIN db \subseteq DOMAIN db' /\ DOMAIN db' \subseteq DOMAIN db \cup next .. (next + k - 1)
  BY <1>1 DEF NewRecord
<1>5. db' \in [DOMAIN db' -> Nat]
  <2>1. v.data \in Nat
    BY DEF ValueType
  <2>2. CASE db' = db
    BY <1>1, <2>2 DEF RecordTypes
  <2>3. CASE db' = NewRecord(db, next + 1, v.data)
    BY <1>1, <2>1, <2>3, NewRecordType DEF RecordTypes
  <2> QED BY <2>2, <2>3
<1>6. PICK new : new = next .. (next + k - 1)
  OBVIOUS
<1>7. /\ Allocated' = Allocated \cup new /\ Allocated \cap new = {}
      /\ next \in new /\ Offsets' = Offsets \cup new
  BY <1>1, <1>6 DEF Allocated, Offsets
<1>8. DOMAIN nk \cap new = {} /\ DOMAIN sk \cap new = {}
  BY <1>1, <1>7 DEF RecordTypes
<1>9. Nodes' = Nodes
  BY <1>6, <1>8 DEF Nodes
<1>10. RecordTypes'
  <2>1. next' \in Nat \ {0}
    BY <1>1
  <2> QED BY <2>1, <1>1, <1>2, <1>3, <1>4, <1>5, <1>6, <1>7 DEF RecordTypes
<1>11. KindsApart'
  BY <1>1, <1>2, <1>3, <1>4, <1>6, <1>7, <1>8 DEF KindsApart
<1>12. References'
  <2>1. \A m \in DOMAIN nk' :
          /\ nk'[m].parent \in Allocated'
          /\ nk'[m].subkey_lf \in Offsets' /\ nk'[m].vallist \in Offsets'
          /\ nk'[m].sk \in Offsets'
          /\ nk'[m].nr_values > 0 => nk'[m].vallist \in DOMAIN vl'
          /\ nk'[m].classname \in DOMAIN db' \cup {None}
    BY <1>1, <1>3, <1>4, <1>7 DEF References
  <2>2. \A l \in DOMAIN vl' : ToSet(vl'[l]) \subseteq DOMAIN vk' \cup {Zero}
    BY <1>1, <1>2, <1>3 DEF References
  <2>3. \A w \in DOMAIN vk' : vk'[w].inline \/ vk'[w].data \in DOMAIN db' \cup {Zero}
    <3>1. vk'[next].inline \/ vk'[next].data \in DOMAIN db' \cup {Zero}
      BY <1>2
    <3> QED BY <1>1, <1>2, <1>4, <3>1 DEF References
  <2>4. root' \in Nodes' /\ \A l \in DOMAIN lf' : root' \notin ToSet(lf'[l])
    BY <1>1, <1>9 DEF References
  <2> QED BY <2>1, <2>2, <2>3, <2>4 DEF References
<1>13. SkInv'
  <2>1. valid' \cap DOMAIN sk = valid \cap DOMAIN sk
    BY <1>6, <1>8
  <2>2. \A m \in Nodes : nk'[m].sk = nk[m].sk
    OBVIOUS
  <2> QED BY <1>1, <1>9, <2>1, <2>2, SameRefs
<1> QED BY <1>10, <1>11, <1>12, <1>13 DEF SoundRecords

(* The values to store are there, and room for them. *)
LEMMA Storing ==
  ASSUME RecordsInv, pc = "set"
  PROVE  /\ target \in Nodes /\ target \in DOMAIN nk
         /\ list \in Seq(ValueType) /\ stored \in Nat /\ stored < Len(list)
         /\ stored + 1 \in 1 .. Len(list) /\ list[stored + 1] \in ValueType
         /\ nk[target].nr_values = Len(list) /\ nk[target].vallist \in DOMAIN vl
         /\ Len(vl[nk[target].vallist]) = Len(list)
<1>1. /\ target \in Nodes /\ list \in Seq(ValueType)
      /\ stored \in Nat /\ stored < Len(list)
      /\ nk[target].nr_values = Len(list)
      /\ Len(vl[nk[target].vallist]) = Len(list)
  BY DEF RecordsInv, CallInv
<1>2. target \in DOMAIN nk
  BY <1>1 DEF Nodes
<1>3. nk[target].nr_values > 0 /\ stored + 1 \in 1 .. Len(list)
  BY <1>1
<1>4. list[stored + 1] \in ValueType
  BY <1>1, <1>3
<1>5. nk[target].vallist \in DOMAIN vl
  BY <1>2, <1>3 DEF RecordsInv, SoundRecords, References
<1> QED BY <1>1, <1>2, <1>3, <1>4, <1>5

LEMMA StoreValueSound ==
  ASSUME RecordsInv, StoreValue
  PROVE  SoundRecords'
<1>1. PICK v \in ValueType : v = list[stored + 1]
  BY Storing DEF StoreValue
<1>2. SoundRecords /\ nk[target].vallist \in DOMAIN vl /\ next \in Nat /\ v.data \in Nat
  BY <1>1, Storing DEF RecordsInv, SoundRecords, RecordTypes, ValueType, StoreValue
<1>3. root' = root /\ nk' = nk /\ lf' = lf /\ ri' = ri /\ sk' = sk
  BY DEF StoreValue, treeVars
<1>4. CASE v.len = "inline"
  <2>1. /\ PutValue(v, v.data) /\ db' = db
        /\ valid' = valid \cup next .. (next + 1 - 1) /\ next' = next + 1
    BY <1>1, <1>4 DEF StoreValue
  <2> QED BY <1>2, <1>3, <1>4, <2>1, PutValueSound
<1>5. CASE v.len # "inline"
  <2>1. /\ PutValue(v, next + 1) /\ db' = NewRecord(db, next + 1, v.data)
        /\ valid' = valid \cup next .. (next + 2 - 1) /\ next' = next + 2
    BY <1>1, <1>5 DEF StoreValue
  <2>2. next + 1 \in Nat /\ next + 1 \in DOMAIN db'
    BY <1>2, <2>1 DEF NewRecord
  <2>3. PICK d \in Nat : d = next + 1
    BY <2>2
  <2> QED BY <1>2, <1>3, <2>1, <2>2, <2>3, PutValueSound
<1> QED BY <1>4, <1>5

LEMMA StoreDataFailsSound ==
  ASSUME RecordsInv, StoreDataFails
  PROVE  SoundRecords'
<1>1. PICK v \in ValueType : v = list[stored + 1]
  BY Storing DEF StoreDataFails
<1>2. SoundRecords /\ nk[target].vallist \in DOMAIN vl /\ next \in Nat
  BY Storing DEF RecordsInv, SoundRecords, RecordTypes, StoreDataFails
<1>3. /\ root' = root /\ nk' = nk /\ lf' = lf /\ ri' = ri /\ sk' = sk /\ db' = db
      /\ PutValue(v, Zero) /\ next' = next + 1 /\ valid' = valid \cup {next}
  BY <1>1 DEF StoreDataFails, treeVars
<1>4. valid' = valid \cup next .. (next + 1 - 1)
  BY <1>2, <1>3
<1>5. Zero \in Nat /\ Zero \in DOMAIN db' \cup {Zero}
  BY DEF Zero
<1> QED BY <1>2, <1>3, <1>4, <1>5, PutValueSound

-----------------------------------------------------------------------------
(* The call under way *)

(* The node that delete_node is called for. *)
LEMMA Ending ==
  ASSUME RecordsInv, AtNodeEnd
  PROVE  /\ Top.node \in Nodes \ {root} /\ Top.node \in DOMAIN nk
         /\ frames \in Seq(FrameType) /\ Len(frames) > 1 /\ Top = frames[1]
         /\ target \in DOMAIN nk
         /\ \A i \in 1 .. (Len(frames) - 1) : frames[i].node \in Nodes \ {root}
<1>1. /\ frames \in Seq(FrameType) /\ Len(frames) > 1 /\ target \in DOMAIN nk
      /\ \A i \in 1 .. (Len(frames) - 1) : frames[i].node \in Nodes \ {root}
  BY DEF RecordsInv, CallInv, AtNodeEnd
<1>2. Top = frames[1] /\ 1 \in 1 .. (Len(frames) - 1)
  BY <1>1 DEF Top
<1>3. Top.node \in Nodes \ {root}
  BY <1>1, <1>2
<1> QED BY <1>1, <1>2, <1>3 DEF Nodes

(* No call is under way any more. *)
LEMMA Returned ==
  ASSUME NEW r \in {"ok", "error"}, Return(r)
  PROVE  CallInv'
BY DEF Return, CallInv

LEMMA SameHistory ==
  ASSUME HistoryInv, DOMAIN nk \subseteq DOMAIN nk', handles' = handles,
         torn' = torn, orphans' = orphans, partial' = partial
  PROVE  HistoryInv'
BY DEF HistoryInv

(* A call that changes nothing. *)
LEMMA RefuseInv ==
  ASSUME RecordsInv, Refuse
  PROVE  RecordsInv'
<1>1. SoundRecords'
  BY Kept DEF RecordsInv, Refuse, treeVars, valueVars
<1>2. CallInv'
  BY Returned DEF Refuse
<1>3. HistoryInv'
  BY DEF RecordsInv, HistoryInv, Refuse, historyVars, treeVars
<1> QED BY <1>1, <1>2, <1>3 DEF RecordsInv

LEMMA AbortInv ==
  ASSUME RecordsInv, Abort
  PROVE  RecordsInv'
<1>1. SoundRecords'
  BY Kept DEF RecordsInv, Abort, treeVars, valueVars
<1>2. CallInv'
  BY DEF RecordsInv, CallInv, Abort
<1>3. HistoryInv'
  BY DEF RecordsInv, HistoryInv, Abort, historyVars, treeVars
<1> QED BY <1>1, <1>2, <1>3 DEF RecordsInv

(* Every node has an sk record. *)
LEMMA NoSkNever ==
  ASSUME NEW p, NEW name, RecordsInv
  PROVE  ~AddChildNoSk(p, name)
BY DEF RecordsInv, SoundRecords, SkInv, AddChildNoSk, CanAdd, IsNode, Nodes

LEMMA AddChildInv ==
  ASSUME NEW p, NEW name \in Names, RecordsInv,
         \/ AddChildFails(p, name) \/ AddFirstChild(p, name)
         \/ InsertChild(p, name)
  PROVE  RecordsInv'
<1>1. CASE AddChildFails(p, name)
  <2>1. SoundRecords'
    BY <1>1, AddChildFailsSound DEF RecordsInv
  <2>2. CallInv'
    BY <1>1, Returned DEF AddChildFails
  <2>3. DOMAIN nk' = DOMAIN nk \cup {next}
    BY <1>1 DEF AddChildFails, NewRecord
  <2>4. HistoryInv'
    BY <1>1, <2>3 DEF RecordsInv, HistoryInv, AddChildFails
  <2> QED BY <2>1, <2>2, <2>4 DEF RecordsInv
<1>2. ASSUME NEW direct \in BOOLEAN, LinkNode(p, name, direct), p \in DOMAIN nk
      PROVE  CallInv' /\ HistoryInv'
  <2>1. RecordTypes
    BY DEF RecordsInv, SoundRecords
  <2>2. /\ DOMAIN nk' = DOMAIN nk \cup {next} /\ handles' = handles \cup {next}
        /\ torn' = torn /\ orphans' = orphans /\ partial' = partial
    BY <1>2, <2>1, LinkNodeFacts
  <2>3. CallInv'
    BY <1>2, Returned DEF LinkNode
  <2> QED BY <2>2, <2>3 DEF RecordsInv, HistoryInv
<1>3. CASE AddFirstChild(p, name)
  <2>1. SoundRecords'
    BY <1>3, AddFirstChildSound DEF RecordsInv
  <2>2. CallInv' /\ HistoryInv'
    BY <1>2, <1>3 DEF AddFirstChild, CanAdd, IsNode
  <2> QED BY <2>1, <2>2 DEF RecordsInv
<1>4. CASE InsertChild(p, name)
  <2>1. SoundRecords'
    BY <1>4, InsertChildSound DEF RecordsInv
  <2>2. PICK direct \in BOOLEAN : LinkNode(p, name, direct)
    BY <1>4 DEF InsertChild
  <2>3. CallInv' /\ HistoryInv'
    BY <1>2, <1>4, <2>2 DEF InsertChild, CanAdd, IsNode
  <2> QED BY <2>1, <2>3 DEF RecordsInv
<1> QED BY <1>1, <1>3, <1>4

LEMMA DeleteBeginInv ==
  ASSUME NEW n, RecordsInv, DeleteBegin(n)
  PROVE  RecordsInv'
<1>1. SoundRecords'
  BY Kept DEF RecordsInv, DeleteBegin, treeVars, valueVars
<1>2. HistoryInv'
  BY DEF RecordsInv, HistoryInv, DeleteBegin, historyVars, treeVars
<1>3. n \in DOMAIN nk /\ n # root /\ n \in Nat /\ nk[n].parent \in Nat
  BY DEF DeleteBegin, CanDelete, IsNode, RecordsInv, SoundRecords, RecordTypes,
         Allocated, NodeType
<1>4. root' = root /\ nk' = nk /\ pc' = "delete" /\ target' = n /\ ret' = ret
  BY DEF DeleteBegin, treeVars
<1>5. PICK f : f = [node |-> nk[n].parent, rest |-> <<n>>]
  OBVIOUS
<1>6. <<n>> \in Seq(Nat \ {root})
  BY <1>3
<1>7. f \in FrameType
  BY <1>3, <1>5, <1>6 DEF FrameType
<1>8. frames' = <<f>>
  BY <1>5 DEF DeleteBegin
<1>9. frames' \in Seq(FrameType) /\ Len(frames') = 1 /\ frames' # <<>>
  BY <1>7, <1>8
<1>10. FrameType' = FrameType
  BY <1>4 DEF FrameType
<1>11. CallInv'
  BY <1>3, <1>4, <1>9, <1>10 DEF RecordsInv, CallInv
<1> QED BY <1>1, <1>2, <1>11 DEF RecordsInv

(* Nobody lists the root, so it is never visited. *)
LEMMA VisitNodeInv ==
  ASSUME RecordsInv, StackInv, VisitNode
  PROVE  RecordsInv'
<1>1. SoundRecords'
  BY Kept DEF RecordsInv, VisitNode, treeVars, valueVars
<1>2. HistoryInv'
  BY DEF RecordsInv, HistoryInv, VisitNode, historyVars, treeVars
<1>3. /\ RecordTypes /\ References /\ pc = "delete"
      /\ frames \in Seq(FrameType) /\ frames # <<>> /\ target \in DOMAIN nk
      /\ \A i \in 1 .. (Len(frames) - 1) : frames[i].node \in Nodes \ {root}
  BY DEF RecordsInv, SoundRecords, CallInv, VisitNode
<1>4. /\ root' = root /\ nk' = nk /\ pc' = pc /\ target' = target /\ ret' = ret
      /\ valid' = valid
  BY DEF VisitNode, treeVars
<1>5. PICK t \in FrameType : t = Top
  BY <1>3 DEF Top
<1>6. t.node \in Nat /\ t.rest \in Seq(Nat \ {root}) /\ t.rest # <<>>
  BY <1>5 DEF FrameType, VisitNode
<1>7. PICK c \in Nat \ {root} : c = Head(t.rest)
  BY <1>6
<1>8. c \in DOMAIN nk /\ c \in Nodes /\ ListsOK(c)
  BY <1>5, <1>7 DEF VisitNode, IsNode, Nodes, ChildrenOK
<1>9. Children(c) \in Seq(Nat) /\ root \notin ToSet(Children(c))
  <2>1. /\ Children(c) \in Seq(Nat)
        /\ \A d \in ToSet(Children(c)) : nk[c].nr_subkeys # 0 /\
             \E i \in DOMAIN Lists(c) : d \in ToSet(lf[Lists(c)[i]])
    BY <1>3, <1>8, ChildrenType
  <2>2. nk[c].nr_subkeys # 0 => \A i \in DOMAIN Lists(c) : Lists(c)[i] \in DOMAIN lf
    BY <1>3, <1>8, ListsType
  <2> QED BY <1>3, <2>1, <2>2 DEF References
<1>10. PICK cs \in Seq(Nat \ {root}) : cs = Children(c)
  <2>1. PICK s \in Seq(Nat) : s = Children(c)
    BY <1>9
  <2>2. \A i \in 1 .. Len(s) : s[i] \in Nat \ {root}
    BY <1>9, <2>1, ToSetFacts
  <2>3. s \in Seq(Nat \ {root})
    BY <2>2
  <2> QED BY <2>1, <2>3
<1>11. Tail(t.rest) \in Seq(Nat \ {root})
  BY <1>6
<1>12. PICK a : a = [node |-> c, rest |-> cs]
  OBVIOUS
<1>13. PICK b : b = [node |-> t.node, rest |-> Tail(t.rest)]
  OBVIOUS
<1>14. a \in FrameType /\ b \in FrameType /\ a.node = c /\ b.node = t.node
  BY <1>6, <1>11, <1>12, <1>13 DEF FrameType
<1>15. frames' = <<a, b>> \o Tail(frames)
  BY <1>5, <1>7, <1>10, <1>12, <1>13 DEF VisitNode
<1>16. IsFrames(frames) /\ Len(frames) > 0 /\ Len(frames) \in Nat
  BY <1>3 DEF StackInv, IsFrames
<1>17. /\ IsFrames(frames') /\ Len(frames') = Len(frames) + 1
       /\ frames'[1] = a /\ frames'[2] = b
       /\ \A i \in 3 .. Len(frames') : frames'[i] = frames[i - 1]
  BY <1>15, <1>16, Push
<1>18. Top = frames[1]
  BY <1>3 DEF Top
<1>19. \A i \in 1 .. Len(frames) : frames[i] \in FrameType
  BY <1>3
<1>20. \A i \in 1 .. Len(frames') : frames'[i] \in FrameType
  <2> SUFFICES ASSUME NEW i \in 1 .. Len(frames')
               PROVE  frames'[i] \in FrameType
    OBVIOUS
  <2>1. CASE i = 1 \/ i = 2
    BY <2>1, <1>14, <1>17
  <2>2. CASE i > 2
    <3>1. i \in 3 .. Len(frames') /\ i - 1 \in 1 .. Len(frames)
      BY <2>2, <1>16, <1>17
    <3> QED BY <3>1, <1>17, <1>19
  <2> QED BY <2>1, <2>2
<1>21. \A i \in 1 .. (Len(frames') - 1) : frames'[i].node \in Nodes \ {root}
  <2> SUFFICES ASSUME NEW i \in 1 .. (Len(frames') - 1)
               PROVE  frames'[i].node \in Nodes \ {root}
    OBVIOUS
  <2>1. CASE i = 1
    BY <2>1, <1>7, <1>8, <1>14, <1>17
  <2>2. CASE i = 2
    <3>1. 1 \in 1 .. (Len(frames) - 1)
      BY <2>2, <1>16, <1>17
    <3> QED BY <3>1, <2>2, <1>3, <1>5, <1>14, <1>17, <1>18
  <2>3. CASE i > 2
    <3>1. i \in 3 .. Len(frames') /\ i - 1 \in 1 .. (Len(frames) - 1)
      BY <2>3, <1>16, <1>17
    <3> QED BY <3>1, <1>3, <1>17
  <2> QED BY <2>1, <2>2, <2>3
<1>22. frames' \in Seq(FrameType) /\ frames' # <<>>
  <2>1. PICK k \in Nat : k = Len(frames')
    BY <1>16, <1>17
  <2>2. frames' \in [1 .. k -> FrameType]
    BY <2>1, <1>17, <1>20 DEF IsFrames
  <2>3. frames' \in Seq(FrameType)
    BY <2>2
  <2> QED BY <2>3, <1>16, <1>17
<1>23. FrameType' = FrameType /\ Nodes' = Nodes
  BY <1>4 DEF FrameType, Nodes
<1>24. CallInv'
  <2>1. pc \in {"idle", "delete", "set", "aborted"} /\ ret \in {"ok", "error"}
    BY DEF RecordsInv, CallInv
  <2>2. pc' = "delete"
    BY <1>3, <1>4
  <2> QED BY <1>3, <1>4, <1>21, <1>22, <1>23, <2>1, <2>2 DEF CallInv
<1> QED BY <1>1, <1>2, <1>24 DEF RecordsInv

(* delete_node frees one node; the others under visit are other nodes. *)
LEMMA DeleteNodeInv ==
  ASSUME RecordsInv, StackInv, DeleteNode
  PROVE  RecordsInv'
<1>1. PICK n \in Nodes \ {root} : n = Top.node
  BY Ending DEF DeleteNode
<1>2. /\ n \in DOMAIN nk /\ target \in DOMAIN nk /\ SoundRecords
      /\ frames \in Seq(FrameType) /\ Len(frames) > 1 /\ n = frames[1].node
      /\ \A i \in 1 .. (Len(frames) - 1) : frames[i].node \in Nodes \ {root}
  BY <1>1, Ending DEF DeleteNode, RecordsInv
<1>3. SoundRecords'
  BY <1>1, <1>2, DeleteNodeSound
<1>4. Nodes' = Nodes \ {n}
  BY <1>1, <1>2, DeleteNodeFrees
<1>5. /\ root' = root /\ pc' = pc /\ ret' = ret /\ target' = target
      /\ frames' = Tail(frames) /\ pc = "delete" /\ nk' = Emptied(n)
      /\ handles' = handles /\ torn' = torn /\ orphans' = orphans
      /\ partial' = partial
  BY <1>1 DEF DeleteNode, AtNodeEnd, historyVars, Emptied
<1>6. DOMAIN nk' = DOMAIN nk
  BY <1>2, <1>5, EmptiedFacts DEF SoundRecords
<1>7. HistoryInv'
  BY <1>5, <1>6, SameHistory DEF RecordsInv
<1>8. /\ IsFrames(frames)
      /\ \A i, j \in 1 .. (Len(frames) - 1) :
           frames[i].node = frames[j].node => i = j
  BY <1>5 DEF StackInv
<1>9. /\ Len(frames') = Len(frames) - 1 /\ frames' \in Seq(FrameType)
      /\ \A i \in 1 .. (Len(frames) - 1) : frames'[i] = frames[i + 1]
  BY <1>2, <1>5, <1>8, Pop
<1>10. \A i \in 1 .. (Len(frames') - 1) : frames'[i].node \in Nodes' \ {root}
  <2> SUFFICES ASSUME NEW i \in 1 .. (Len(frames') - 1)
               PROVE  frames'[i].node \in Nodes' \ {root}
    OBVIOUS
  <2>1. /\ i \in 1 .. (Len(frames) - 1) /\ 1 \in 1 .. (Len(frames) - 1)
        /\ i + 1 \in 1 .. (Len(frames) - 1) /\ i + 1 # 1
    BY <1>2, <1>9
  <2>2. frames[i + 1].node # n
    BY <1>2, <1>8, <2>1
  <2> QED BY <1>2, <1>4, <1>9, <2>1, <2>2
<1>11. frames' # <<>> /\ FrameType' = FrameType
  <2>1. Len(frames') > 0
    BY <1>2, <1>9
  <2>2. frames' # <<>>
    BY <2>1
  <2>3. FrameType' = FrameType
    BY <1>5 DEF FrameType
  <2> QED BY <2>2, <2>3
<1>12. CallInv'
  <2>1. pc' = "delete" /\ ret' \in {"ok", "error"} /\ target' \in DOMAIN nk'
    BY <1>2, <1>5, <1>6 DEF RecordsInv, CallInv
  <2> QED BY <1>5, <1>9, <1>10, <1>11, <2>1 DEF CallInv
<1> QED BY <1>3, <1>7, <1>12 DEF RecordsInv

(* A node under visit is one of the users of its sk record. *)
LEMMA DeleteNoSkNever ==
  ASSUME RecordsInv
  PROVE  ~DeleteNodeNoSk
<1> SUFFICES ASSUME DeleteNodeNoSk
             PROVE  FALSE
  OBVIOUS
<1>1. PICK n \in Nodes : n = Top.node
  BY Ending DEF DeleteNodeNoSk
<1>2. PICK s : s = nk[n].sk
  OBVIOUS
<1>3. HasSk(n) /\ s \in valid \cap DOMAIN sk
  BY <1>2 DEF RecordsInv, SoundRecords, SkInv, HasSk
<1>4. sk[s].refcount = Cardinality(Users(s))
  BY <1>3 DEF RecordsInv, SoundRecords, SkInv, Users
<1>5. n \in Users(s) /\ IsFiniteSet(Users(s))
  BY <1>2, FiniteNodes, FS_Subset DEF Users, RecordsInv, SoundRecords
<1>6. Cardinality(Users(s)) \in Nat /\ Cardinality(Users(s)) # 0
  BY <1>5, FS_EmptySet, FS_CardinalityType
<1>7. SkOK(n)
  BY <1>2, <1>3, <1>4, <1>6 DEF SkOK
<1> QED BY <1>1, <1>7 DEF DeleteNodeNoSk

LEMMA DeleteEndsInv ==
  ASSUME RecordsInv, DeleteNodeNoValues \/ Unlink \/ DeleteFails
  PROVE  RecordsInv'
<1>1. CASE DeleteNodeNoValues
  <2>1. SoundRecords'
    BY <1>1, Ending, DeleteNodeNoValuesSound DEF RecordsInv, DeleteNodeNoValues
  <2>2. CallInv'
    BY <1>1, Returned DEF DeleteNodeNoValues
  <2>3. HistoryInv'
    BY <1>1 DEF RecordsInv, HistoryInv, DeleteNodeNoValues, treeVars
  <2> QED BY <2>1, <2>2, <2>3 DEF RecordsInv
<1>2. CASE Unlink
  <2>1. SoundRecords'
    BY <1>2, UnlinkSound DEF RecordsInv
  <2>2. CallInv'
    BY <1>2, Returned DEF Unlink
  <2>3. DOMAIN nk' = DOMAIN nk
    BY <1>2, UnlinkFacts DEF RecordsInv, SoundRecords
  <2>4. HistoryInv'
    BY <1>2, <2>3, SameHistory DEF RecordsInv, Unlink, historyVars
  <2> QED BY <2>1, <2>2, <2>4 DEF RecordsInv
<1>3. CASE DeleteFails
  <2>1. SoundRecords'
    BY <1>3, Kept DEF RecordsInv, DeleteFails, treeVars, valueVars
  <2>2. CallInv'
    BY <1>3, Returned DEF DeleteFails
  <2>3. partial' \in BOOLEAN
    BY <1>3, Zenon DEF DeleteFails
  <2>4. HistoryInv'
    BY <1>3, <2>3 DEF RecordsInv, HistoryInv, DeleteFails, treeVars
  <2> QED BY <2>1, <2>2, <2>4 DEF RecordsInv
<1> QED BY <1>1, <1>2, <1>3

-----------------------------------------------------------------------------
(* Values *)

LEMMA SetValuesInv ==
  ASSUME NEW n, NEW vs \in Seq(ValueType), RecordsInv, SetValues(n, vs)
  PROVE  RecordsInv'
<1>1. CASE SetValuesRefused(n)
  BY <1>1, RefuseInv DEF SetValuesRefused
<1>2. CASE SetValuesAborts(n)
  BY <1>2, AbortInv DEF SetValuesAborts
<1>3. CASE ClearValues(n, vs)
  <2>1. SoundRecords'
    BY <1>3, ClearValuesSound DEF RecordsInv
  <2>2. PICK r \in {"ok", "error"} : Return(r)
    BY <1>3 DEF ClearValues
  <2>3. CallInv'
    BY <2>2, Returned
  <2>4. DOMAIN nk' = DOMAIN nk
    BY <1>3 DEF ClearValues, NoValues
  <2>5. HistoryInv'
    BY <1>3, <2>4, SameHistory DEF RecordsInv, ClearValues, historyVars
  <2> QED BY <2>1, <2>3, <2>5 DEF RecordsInv
<1>4. CASE SetValuesBegin(n, vs)
  <2>1. SoundRecords /\ SoundRecords'
    BY <1>4, SetValuesBeginSound DEF RecordsInv
  <2>2. /\ n \in Nodes /\ n \in DOMAIN nk /\ Len(vs) > 0
        /\ DOMAIN nk' = DOMAIN nk
        /\ nk'[n].nr_values = Len(vs) /\ nk'[n].vallist = next
        /\ Len(vl'[next]) = Len(vs)
        /\ pc' = "set" /\ target' = n /\ list' = vs /\ stored' = 0
        /\ ret' = ret
    BY <1>4, <2>1, SetValuesBeginFacts
  <2>3. HistoryInv'
    BY <1>4, <2>2, SameHistory DEF RecordsInv, SetValuesBegin, historyVars
  <2>4. n \in Nodes'
    <3>1. ToSet(ValueBlocks(n)) \cap DOMAIN nk = {}
      <4>1. RecordTypes /\ KindsApart /\ References /\ ValuesOK(n)
        BY <1>4, <2>1 DEF SoundRecords, SetValuesBegin, CanClear
      <4> QED BY <2>2, <4>1, ValueBlocksKinds, Apart
    <3>2. valid' = (valid \ ToSet(ValueBlocks(n))) \cup {next}
      BY <1>4 DEF SetValuesBegin
    <3> QED BY <2>2, <3>1, <3>2 DEF Nodes
  <2>5. CallInv'
    BY <2>2, <2>4 DEF RecordsInv, CallInv
  <2> QED BY <2>1, <2>3, <2>5 DEF RecordsInv
<1> QED BY <1>1, <1>2, <1>3, <1>4 DEF SetValues

(* What hivex_node_set_value stores is a list of values again. *)
LEMMA ReplacedType ==
  ASSUME NEW n, NEW v \in ValueType, SoundRecords, CanReadAll(n)
  PROVE  Replaced(n, v) \in Seq(ValueType)
<1>1. /\ n \in DOMAIN nk /\ ValuesOK(n) /\ RecordTypes /\ References
      /\ \A w \in ToSet(ValuesOf(n)) : Readable(w)
  BY DEF CanReadAll, IsNode, SoundRecords
<1>2. PICK s \in Seq(Nat) : s = ValuesOf(n)
  BY <1>1, ValuesType
<1>3. \A i \in DOMAIN s : ReadValue(s[i]) \in ValueType
  <2> SUFFICES ASSUME NEW i \in DOMAIN s
               PROVE  ReadValue(s[i]) \in ValueType
    OBVIOUS
  <2>1. PICK w : w = s[i]
    OBVIOUS
  <2>2. w \in ToSet(s)
    BY <2>1 DEF ToSet
  <2>3. Readable(w) /\ w \in DOMAIN vk
    BY <1>1, <1>2, <2>2 DEF Readable
  <2>4. /\ vk[w].key \in STRING /\ vk[w].t \in STRING /\ vk[w].data \in Nat
        /\ vk[w].inline \in BOOLEAN
    BY <1>1, <2>3 DEF RecordTypes, VkType
  <2>5. ~vk[w].inline => db[vk[w].data] \in Nat
    <3>1. ~vk[w].inline => vk[w].data \in valid /\ vk[w].data \in DOMAIN db \cup {Zero}
      BY <1>1, <2>3 DEF Readable, References
    <3>2. Zero \notin valid
      BY <1>1 DEF RecordTypes, Allocated, Zero
    <3> QED BY <1>1, <3>1, <3>2 DEF RecordTypes
  <2>6. CASE vk[w].inline
    <3>1. ReadValue(w) = [key |-> vk[w].key, t |-> vk[w].t, len |-> "inline",
                          data |-> vk[w].data]
      BY <2>6 DEF ReadValue
    <3> QED BY <2>1, <2>4, <3>1 DEF ValueType
  <2>7. CASE ~vk[w].inline
    <3>1. ReadValue(w) = [key |-> vk[w].key, t |-> vk[w].t, len |-> "block",
                          data |-> db[vk[w].data]]
      BY <2>7 DEF ReadValue
    <3> QED BY <2>1, <2>4, <2>5, <2>7, <3>1 DEF ValueType
  <2> QED BY <2>6, <2>7
<1>4. PICK k \in Nat : DOMAIN s = 1 .. k
  BY <1>2
<1>5. Stored(n) = [i \in 1 .. k |-> ReadValue(s[i])]
  BY <1>2, <1>4 DEF Stored
<1>6. Stored(n) \in [1 .. k -> ValueType]
  BY <1>3, <1>4, <1>5
<1>7. PICK old \in Seq(ValueType) : old = Stored(n)
  BY <1>6
<1>8. Append(old, v) \in Seq(ValueType)
  OBVIOUS
<1>9. ASSUME NEW j
      PROVE  ReplaceAt(old, j, v) \in Seq(ValueType)
  BY ReplaceFacts DEF ReplaceAt
<1>10. \E j : Replaced(n, v) = Append(old, v) \/ Replaced(n, v) = ReplaceAt(old, j, v)
  BY <1>7 DEF Replaced
<1> QED BY <1>8, <1>9, <1>10

LEMMA StoreInv ==
  ASSUME RecordsInv, StoreValue \/ StoreRecordFails \/ StoreDataFails
  PROVE  RecordsInv'
<1>0. target \in Nodes /\ target \in DOMAIN nk
  BY Storing DEF StoreValue, StoreRecordFails, StoreDataFails
<1>1. CASE StoreRecordFails
  <2>1. SoundRecords'
    BY <1>1, Kept DEF RecordsInv, StoreRecordFails, treeVars, valueVars
  <2>2. CallInv'
    BY <1>1, Returned DEF StoreRecordFails
  <2>3. HistoryInv'
    BY <1>0, <1>1 DEF RecordsInv, HistoryInv, StoreRecordFails, treeVars
  <2> QED BY <2>1, <2>2, <2>3 DEF RecordsInv
<1>2. CASE StoreDataFails
  <2>1. SoundRecords'
    BY <1>2, StoreDataFailsSound
  <2>2. CallInv'
    BY <1>2, Returned DEF StoreDataFails
  <2>3. HistoryInv'
    BY <1>0, <1>2 DEF RecordsInv, HistoryInv, StoreDataFails, treeVars
  <2> QED BY <2>1, <2>2, <2>3 DEF RecordsInv
<1>3. CASE StoreValue
  <2>1. SoundRecords'
    BY <1>3, StoreValueSound
  <2>2. nk' = nk /\ handles' = handles /\ torn' = torn /\ orphans' = orphans
        /\ partial' = partial /\ valid \subseteq valid'
    BY <1>3 DEF StoreValue, treeVars, historyVars
  <2>3. HistoryInv'
    BY <2>2 DEF RecordsInv, HistoryInv
  <2>4. CASE Return("ok")
    BY <2>1, <2>3, <2>4, Returned DEF RecordsInv
  <2>5. CASE /\ stored + 1 < Len(list) /\ stored' = stored + 1
             /\ UNCHANGED <<pc, ret, target, frames, unvisited, list>>
    <3>1. /\ list \in Seq(ValueType) /\ stored \in Nat /\ stored < Len(list)
          /\ nk[target].nr_values = Len(list) /\ nk[target].vallist \in DOMAIN vl
          /\ Len(vl[nk[target].vallist]) = Len(list)
          /\ list[stored + 1] \in ValueType /\ pc = "set" /\ next \in Nat
          /\ RecordTypes
      BY <1>3, Storing DEF StoreValue, RecordsInv, SoundRecords, RecordTypes
    <3>2. PICK v \in ValueType : v = list[stored + 1]
      BY <3>1
    <3>3. v.data \in Nat /\ next + 1 \in Nat
      BY <3>1, <3>2 DEF ValueType
    <3>4. PICK d \in Nat : PutValue(v, d)
      BY <1>3, <3>2, <3>3 DEF StoreValue
    <3>5. Len(vl'[nk[target].vallist]) = Len(vl[nk[target].vallist])
      BY <3>1, <3>4, PutValueFacts
    <3>6. target \in Nodes'
      BY <1>0, <2>2 DEF Nodes
    <3>7. ret \in {"ok", "error"}
      BY DEF RecordsInv, CallInv
    <3>8. CallInv'
      BY <2>2, <2>5, <3>1, <3>5, <3>6, <3>7 DEF CallInv
    <3> QED BY <2>1, <2>3, <3>8 DEF RecordsInv
  <2> QED BY <1>3, <2>4, <2>5 DEF StoreValue
<1> QED BY <1>1, <1>2, <1>3

-----------------------------------------------------------------------------
(* The invariant *)

(* No call is under way when the hive has been opened. *)
LEMMA InitRecords == Init /\ SoundRecords => RecordsInv
<1> SUFFICES ASSUME Init, SoundRecords
             PROVE  RecordsInv
  OBVIOUS
<1>1. CallInv
  BY DEF Init, CallInv
<1>2. handles = DOMAIN nk
  BY DEF Init
<1>3. HistoryInv
  BY <1>2 DEF Init, HistoryInv
<1> QED BY <1>1, <1>3 DEF RecordsInv

(* Every step of every call preserves it. *)
LEMMA NextRecords == RecordsInv /\ StackInv /\ [Next]_vars => RecordsInv'
<1> SUFFICES ASSUME RecordsInv, StackInv, [Next]_vars
             PROVE  RecordsInv'
  OBVIOUS
<1>1. CASE UNCHANGED vars
  <2>1. SoundRecords'
    BY <1>1, Kept DEF RecordsInv, vars, treeVars, valueVars
  <2>2. FrameType' = FrameType /\ Nodes' = Nodes
    BY <1>1 DEF FrameType, Nodes, vars, treeVars
  <2>3. CallInv'
    BY <1>1, <2>2 DEF RecordsInv, CallInv, vars, treeVars, valueVars, callVars
  <2>4. HistoryInv'
    BY <1>1 DEF RecordsInv, HistoryInv, vars, treeVars, historyVars
  <2> QED BY <2>1, <2>3, <2>4 DEF RecordsInv
<1>2. CASE OutOfMemory
  BY <1>2, RefuseInv DEF OutOfMemory
<1>3. ASSUME NEW n \in handles, NEW name \in Names,
             \/ AddChildRefused(n, name) \/ AddChildNoSk(n, name)
             \/ AddChildFails(n, name) \/ AddFirstChild(n, name)
             \/ InsertChild(n, name)
      PROVE  RecordsInv'
  <2>1. CASE AddChildRefused(n, name)
    BY <2>1, RefuseInv DEF AddChildRefused
  <2> QED BY <1>3, <2>1, NoSkNever, AddChildInv
<1>4. ASSUME NEW n \in handles, DeleteRefused(n) \/ SetValueRefused(n)
      PROVE  RecordsInv'
  BY <1>4, RefuseInv DEF DeleteRefused, SetValueRefused
<1>5. ASSUME NEW n \in handles, DeleteBegin(n)
      PROVE  RecordsInv'
  BY <1>5, DeleteBeginInv
<1>6. ASSUME NEW n \in handles, NEW vs \in ValueLists, SetValues(n, vs)
      PROVE  RecordsInv'
  <2>1. vs \in Seq(ValueType)
    BY HiveTreeAssumption
  <2> QED BY <1>6, <2>1, SetValuesInv
<1>7. ASSUME NEW n \in handles, NEW v \in Values, SetValue(n, v)
      PROVE  RecordsInv'
  <2>1. v \in ValueType /\ CanReadAll(n) /\ SoundRecords
    BY <1>7, HiveTreeAssumption DEF SetValue, RecordsInv
  <2>2. Replaced(n, v) \in Seq(ValueType)
    BY <2>1, ReplacedType
  <2> QED BY <1>7, <2>2, SetValuesInv DEF SetValue
<1>8. CASE VisitNode
  BY <1>8, VisitNodeInv
<1>9. CASE DeleteNode
  BY <1>9, DeleteNodeInv
<1>10. CASE DeleteNodeNoSk
  BY <1>10, DeleteNoSkNever
<1>11. CASE DeleteNodeAborts
  BY <1>11, AbortInv DEF DeleteNodeAborts
<1>12. CASE DeleteNodeNoValues \/ Unlink \/ DeleteFails
  BY <1>12, DeleteEndsInv
<1>13. CASE StoreValue \/ StoreRecordFails \/ StoreDataFails
  BY <1>13, StoreInv
<1> QED
  BY <1>1, <1>2, <1>3, <1>4, <1>5, <1>6, <1>7, <1>8, <1>9, <1>10, <1>11,
     <1>12, <1>13
  DEF Next

(* On a hive whose records are sound when it is opened, every record of    *)
(* every kind keeps its type and refers only to blocks that were           *)
(* allocated, and the locals of a call under way stay in bounds: after     *)
(* every step of every call, those that fail half way included.            *)
THEOREM RecordTypesCorrect == Spec /\ SoundRecords => []TypeOK
<1>1. RecordsInv => TypeOK
  <2> SUFFICES ASSUME RecordsInv
               PROVE  TypeOK
    OBVIOUS
  <2>1. /\ next \in Nat /\ valid \subseteq 1 .. (next - 1) /\ root \in Nodes
        /\ handles \subseteq DOMAIN nk /\ torn \subseteq DOMAIN nk
        /\ orphans \subseteq DOMAIN nk /\ partial \in BOOLEAN
    BY DEF RecordsInv, SoundRecords, RecordTypes, References, HistoryInv, Allocated
  <2>2. UNION {DOMAIN nk, DOMAIN lf, DOMAIN ri, DOMAIN sk, DOMAIN vl,
               DOMAIN vk, DOMAIN db} \subseteq 1 .. (next - 1)
    BY DEF RecordsInv, SoundRecords, RecordTypes, Allocated
  <2>3. ASSUME NEW n \in DOMAIN nk
        PROVE  /\ nk[n].nr_subkeys \in Nat /\ nk[n].nr_values \in Nat
               /\ nk[n].parent \in 1 .. (next - 1)
               /\ {nk[n].subkey_lf, nk[n].vallist, nk[n].sk, nk[n].classname}
                    \subseteq {None, Zero} \cup 1 .. (next - 1)
    <3>1. nk[n].nr_subkeys \in Nat /\ nk[n].nr_values \in Nat
      BY DEF RecordsInv, SoundRecords, RecordTypes, NodeType
    <3>2. DOMAIN db \subseteq 1 .. (next - 1)
      BY DEF RecordsInv, SoundRecords, RecordTypes, Allocated
    <3> QED BY <3>1, <3>2 DEF RecordsInv, SoundRecords, References, Offsets, Allocated
  <2>4. \A s \in DOMAIN sk : sk[s].refcount \in Nat
    BY DEF RecordsInv, SoundRecords, RecordTypes, SkType
  <2>5. /\ pc \in {"idle", "delete", "set", "aborted"} /\ ret \in {"ok", "error"}
        /\ pc = "delete" => frames # <<>> /\ target \in DOMAIN nk
        /\ pc = "set" => target \in Nodes /\ stored < Len(list)
        /\ pc = "idle" => frames = <<>> /\ list = <<>> /\ target = None
    BY DEF RecordsInv, CallInv
  <2> QED BY <2>1, <2>2, <2>3, <2>4, <2>5 DEF TypeOK
<1> QED BY <1>1, InitStack, NextStack, InitRecords, NextRecords, PTL DEF Spec

(* On such a hive the refcount of every sk record in use is the number of  *)
(* nodes that refer to it, no node refers to one that delete_sk has freed, *)
(* and the ring that delete_sk joins again stays linked both ways, however *)
(* many nodes share a record and wherever a call fails.                    *)
THEOREM SkSoundCorrect == Spec /\ SoundRecords => []SkSound
<1>1. RecordsInv => SkSound
  BY DEF RecordsInv, SoundRecords, SkInv, SkSound
<1> QED BY <1>1, InitStack, NextStack, InitRecords, NextRecords, PTL DEF Spec
=============================================================================
