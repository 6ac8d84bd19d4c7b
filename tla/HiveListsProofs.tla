-------------------------- MODULE HiveListsProofs --------------------------
(***************************************************************************)
(* Proofs about the lists of a node of HiveTree, and what they refer to,   *)
(* for hives of any size whose records are sound when they are opened.     *)
(* Values: what hivex_node_set_values has stored can be read back, and a   *)
(* call for one node leaves the values of all others readable.  Subkeys:   *)
(* the children of a node stay sorted by name through insertions, which    *)
(* split no list but replace one, through deletions, and through calls     *)
(* that fail half way.  Links: parents and children name each other        *)
(* (LinksAgree), and every block in use is reached from the root           *)
(* (OnlyEmptyListsLeak).                                                   *)
(***************************************************************************)
EXTENDS HiveRecordsProofs

-----------------------------------------------------------------------------
(* Values: the inductive invariant *)

(* A block of a list of children is no block of a value, and a block of a  *)
(* value is of one kind.                                                   *)
ListsApart ==
  /\ (DOMAIN lf \cup DOMAIN ri) \cap (DOMAIN vl \cup DOMAIN vk \cup DOMAIN db) = {}
  /\ DOMAIN vl \cap DOMAIN vk = {}
  /\ DOMAIN db \cap (DOMAIN vl \cup DOMAIN vk) = {}

(* The vk records of a node, and the blocks with their data. *)
Vals(n) == {vl[nk[n].vallist][i] : i \in 1 .. nk[n].nr_values}

Datas(n) == {vk[v].data : v \in {w \in Vals(n) \cap DOMAIN vk : ~vk[w].inline}}

ValList(n) == IF nk[n].nr_values = 0 THEN {} ELSE {nk[n].vallist}

(* What delete_values and delete_node free of a node, but for its lists.   *)
Held(n) ==
  (ValList(n) \cup Vals(n) \cup Datas(n) \cup {nk[n].classname}) \ {None, Zero}

(* The value list of a node is as long as the node says; no block belongs  *)
(* to the values of two nodes.                                             *)
Lengths ==
  \A n \in Nodes : nk[n].nr_values > 0 =>
                     nk[n].nr_values <= Len(vl[nk[n].vallist])

Exclusive == \A m, n \in Nodes : m # n => Held(m) \cap Held(n) = {}

(* A node whose values a call is storing, or has not finished storing. *)
Unfinished(n) == n \in torn \/ (pc = "set" /\ n = target)

Whole == \A n \in Nodes : Unfinished(n) \/ Vals(n) \cup Datas(n) \subseteq valid

SoundValues == ListsApart /\ Lengths /\ Exclusive /\ Whole

(* hivex_value_value and hivex_value_key return v for the vk record b. *)
ReadsAs(b, v) ==
  /\ b \in valid \cap DOMAIN vk
  /\ vk[b].inline \/ vk[b].data \in valid \cap DOMAIN db
  /\ ReadValue(b) = v

(* The values stored so far can be read. *)
SetInv ==
  pc = "set" =>
    /\ nk[target].vallist \in valid
    /\ \A i \in 1 .. stored : ReadsAs(vl[nk[target].vallist][i], list[i])


-----------------------------------------------------------------------------
(* hivex_node_set_values stores the values one by one *)

(* One turn of the loop. *)
LEMMA StoreFacts ==
  ASSUME RecordsInv, StoreValue
  PROVE  /\ nk' = nk /\ valid \subseteq valid' /\ next \in valid'
         /\ DOMAIN vk' = DOMAIN vk \cup {next}
         /\ \A b \in DOMAIN vk : vk'[b] = vk[b]
         /\ \A d \in DOMAIN db : d \in DOMAIN db' /\ db'[d] = db[d]
         /\ DOMAIN vl' = DOMAIN vl
         /\ Len(vl'[nk[target].vallist]) = Len(list)
         /\ vl'[nk[target].vallist] \in Seq(Nat)
         /\ \A b \in DOMAIN vl : b # nk[target].vallist => vl'[b] = vl[b]
         /\ \A i \in 1 .. Len(list) :
              i # stored + 1 => vl'[nk[target].vallist][i] = vl[nk[target].vallist][i]
         /\ vl'[nk[target].vallist][stored + 1] = next
<1>1. PICK v \in ValueType : v = list[stored + 1]
  BY Storing DEF StoreValue
<1>2. /\ RecordTypes /\ next \in Nat \ {0} /\ v.data \in Nat
      /\ nk[target].vallist \in DOMAIN vl
      /\ Len(vl[nk[target].vallist]) = Len(list)
      /\ stored + 1 \in 1 .. Len(list)
  BY <1>1, Storing DEF RecordsInv, SoundRecords, RecordTypes, ValueType, StoreValue
<1>3. PICK d \in Nat : PutValue(v, d)
  BY <1>1, <1>2 DEF StoreValue
<1>4. nk' = nk /\ valid \subseteq valid'
  BY DEF StoreValue, treeVars
<1>5. next \in valid'
  <2>1. next \in next .. (next + 1 - 1) /\ next \in next .. (next + 2 - 1)
    BY <1>2
  <2> QED BY <2>1 DEF StoreValue
<1>6. \A a \in DOMAIN db : a \in DOMAIN db' /\ db'[a] = db[a]
  <2>1. next + 1 \notin DOMAIN db
    BY <1>2 DEF RecordTypes, Allocated
  <2>2. db' = db \/ db' = NewRecord(db, next + 1, v.data)
    BY <1>1 DEF StoreValue
  <2> QED BY <2>1, <2>2 DEF NewRecord
<1>7. /\ DOMAIN vk' = DOMAIN vk \cup {next}
      /\ \A b \in DOMAIN vk : vk'[b] = vk[b]
  BY <1>2, <1>3, PutValueFacts
<1>8. /\ DOMAIN vl' = DOMAIN vl /\ vl' \in [DOMAIN vl -> Seq(Nat)]
      /\ \A b \in DOMAIN vl : b # nk[target].vallist => vl'[b] = vl[b]
      /\ Len(vl'[nk[target].vallist]) = Len(vl[nk[target].vallist])
  BY <1>2, <1>3, PutValueFacts
<1>9. /\ \A i \in 1 .. Len(vl[nk[target].vallist]) :
           i # stored + 1 => vl'[nk[target].vallist][i] = vl[nk[target].vallist][i]
      /\ stored + 1 \in 1 .. Len(vl[nk[target].vallist]) =>
           vl'[nk[target].vallist][stored + 1] = next
  BY <1>2, <1>3, PutValueFacts
<1>10. vl'[nk[target].vallist] \in Seq(Nat)
  BY <1>2, <1>8
<1> QED BY <1>2, <1>4, <1>5, <1>6, <1>7, <1>8, <1>9, <1>10

(* The value stored last can be read. *)
LEMMA StoredLast ==
  ASSUME NEW b, RecordsInv, StoreValue, b = next
  PROVE  /\ b \in valid' \cap DOMAIN vk'
         /\ vk'[b].inline \/ vk'[b].data \in valid' \cap DOMAIN db'
         /\ ReadValue(b)' = list[stored + 1]
<1>1. PICK v \in ValueType : v = list[stored + 1]
  BY Storing DEF StoreValue
<1>2. /\ RecordTypes /\ next \in Nat \ {0} /\ v.data \in Nat
      /\ nk[target].vallist \in DOMAIN vl
  BY <1>1, Storing DEF RecordsInv, SoundRecords, RecordTypes, ValueType, StoreValue
<1>3. b \in valid' \cap DOMAIN vk'
  BY StoreFacts
<1>4. v.len \in {"inline", "block"}
  BY <1>1 DEF StoreValue, ValueType
<1>5. v = [key |-> v.key, t |-> v.t, len |-> v.len, data |-> v.data]
  BY DEF ValueType
<1>6. ASSUME NEW d \in Nat, PutValue(v, d)
      PROVE  /\ vk'[b].key = v.key /\ vk'[b].t = v.t /\ vk'[b].data = d
             /\ vk'[b].inline = (v.len = "inline")
  BY <1>2, <1>6, PutValueFacts
<1>7. CASE v.len = "inline"
  <2>1. PutValue(v, v.data)
    BY <1>1, <1>7 DEF StoreValue
  <2>2. /\ vk'[b].key = v.key /\ vk'[b].t = v.t /\ vk'[b].data = v.data
        /\ vk'[b].inline
    BY <1>2, <1>6, <1>7, <2>1
  <2>3. ReadValue(b)' = [key |-> v.key, t |-> v.t, len |-> "inline", data |-> v.data]
    BY <2>2 DEF ReadValue
  <2> QED BY <1>1, <1>3, <1>5, <1>7, <2>2, <2>3
<1>8. CASE v.len = "block"
  <2>1. /\ PutValue(v, next + 1) /\ db' = NewRecord(db, next + 1, v.data)
        /\ valid' = valid \cup next .. (next + 2 - 1)
    BY <1>1, <1>8 DEF StoreValue
  <2>2. PICK d \in Nat : d = next + 1
    BY <1>2
  <2>3. /\ vk'[b].key = v.key /\ vk'[b].t = v.t /\ vk'[b].data = d
        /\ ~vk'[b].inline
    BY <1>6, <1>8, <2>1, <2>2
  <2>4. d \in valid' /\ d \in DOMAIN db' /\ db'[d] = v.data
    BY <1>2, <2>1, <2>2 DEF NewRecord
  <2>5. ReadValue(b)' = [key |-> v.key, t |-> v.t, len |-> "block", data |-> v.data]
    BY <2>3, <2>4 DEF ReadValue
  <2> QED BY <1>1, <1>3, <1>5, <1>8, <2>3, <2>4, <2>5
<1> QED BY <1>4, <1>7, <1>8

(* So can all that were stored before. *)
LEMMA StoredNow ==
  ASSUME NEW i \in 1 .. (stored + 1), NEW b,
         RecordsInv, SetInv, StoreValue, b = vl'[nk[target].vallist][i]
  PROVE  /\ b \in valid' \cap DOMAIN vk'
         /\ vk'[b].inline \/ vk'[b].data \in valid' \cap DOMAIN db'
         /\ ReadValue(b)' = list[i]
<1>1. stored \in Nat /\ stored + 1 \in 1 .. Len(list) /\ pc = "set"
  BY Storing DEF StoreValue
<1>2. CASE i = stored + 1
  <2>1. b = next
    BY <1>2, StoreFacts, SMTT(60)
  <2> QED BY <1>2, <2>1, StoredLast
<1>3. CASE i # stored + 1
  <2>1. i \in 1 .. stored /\ i \in 1 .. Len(list)
    BY <1>1, <1>3
  <2>2. b = vl[nk[target].vallist][i]
    BY <1>3, <2>1, StoreFacts
  <2>3. /\ b \in valid \cap DOMAIN vk
        /\ vk[b].inline \/ vk[b].data \in valid \cap DOMAIN db
        /\ ReadValue(b) = list[i]
    BY <1>1, <2>1, <2>2 DEF SetInv, ReadsAs
  <2>4. b \in valid' \cap DOMAIN vk' /\ vk'[b] = vk[b]
    BY <2>3, StoreFacts, SMTT(60)
  <2>5. ~vk[b].inline => /\ vk[b].data \in valid' \cap DOMAIN db'
                         /\ db'[vk[b].data] = db[vk[b].data]
    BY <2>3, StoreFacts, SMTT(60)
  <2>6. ReadValue(b)' = ReadValue(b)
    BY <2>4, <2>5 DEF ReadValue
  <2> QED BY <2>3, <2>4, <2>5, <2>6
<1> QED BY <1>2, <1>3

LEMMA InitSet == Init => SetInv
BY DEF Init, SetInv

LEMMA NextSet == RecordsInv /\ SetInv /\ [Next]_vars => SetInv'
<1> SUFFICES ASSUME RecordsInv, SetInv, [Next]_vars, pc' = "set"
             PROVE  SetInv'
  BY SMTT(60) DEF SetInv
<1>1. CASE UNCHANGED vars
  BY <1>1 DEF SetInv, ReadsAs, ReadValue, vars, treeVars, valueVars, callVars
<1>2. ASSUME NEW n, NEW vs \in Seq(ValueType), SetValues(n, vs)
      PROVE  SetInv'
  <2>1. SetValuesBegin(n, vs)
    BY <1>2 DEF SetValues, SetValuesRefused, SetValuesAborts, ClearValues,
                Refuse, Return, Abort
  <2>2. /\ nk'[n].vallist = next /\ target' = n /\ stored' = 0 /\ next \in valid'
    BY <2>1, SetValuesBeginFacts DEF RecordsInv
  <2>3. 1 .. stored' = {}
    BY <2>2
  <2> QED BY <2>2, <2>3 DEF SetInv
<1>3. CASE StoreValue
  <2>1. /\ target' = target /\ list' = list /\ stored' = stored + 1 /\ nk' = nk
        /\ pc = "set"
    BY <1>3 DEF StoreValue, Return, treeVars
  <2>2. nk[target].vallist \in valid'
    BY <1>3, <2>1, StoreFacts, SMTT(60) DEF SetInv
  <2>3. ASSUME NEW i \in 1 .. stored'
        PROVE  ReadsAs(vl[nk[target].vallist][i], list[i])'
    <3>1. PICK b : b = vl'[nk[target].vallist][i]
      OBVIOUS
    <3>2. i \in 1 .. (stored + 1)
      BY <2>1
    <3>3. /\ b \in valid' \cap DOMAIN vk'
          /\ vk'[b].inline \/ vk'[b].data \in valid' \cap DOMAIN db'
          /\ ReadValue(b)' = list[i]
      BY <1>3, <3>1, <3>2, StoredNow
    <3>4. b = vl'[nk'[target'].vallist][i] /\ list'[i] = list[i]
      BY <2>1, <3>1
    <3> QED BY <3>3, <3>4 DEF ReadsAs, ReadValue
  <2> QED BY <2>1, <2>2, <2>3 DEF SetInv
<1>4. ASSUME NEW n \in handles, NEW vs \in ValueLists, SetValues(n, vs)
      PROVE  SetInv'
  BY <1>2, <1>4, HiveTreeAssumption
<1>5. ASSUME NEW n \in handles, NEW v \in Values, SetValue(n, v)
      PROVE  SetInv'
  <2>1. Replaced(n, v) \in Seq(ValueType)
    BY <1>5, ReplacedType, HiveTreeAssumption DEF SetValue, RecordsInv
  <2> QED BY <1>2, <1>5, <2>1 DEF SetValue
<1>6. CASE \/ OutOfMemory
           \/ \E n \in handles :
                \/ \E name \in Names :
                     \/ AddChildRefused(n, name) \/ AddChildNoSk(n, name)
                     \/ AddChildFails(n, name) \/ AddFirstChild(n, name)
                     \/ InsertChild(n, name)
                \/ DeleteRefused(n) \/ DeleteBegin(n) \/ SetValueRefused(n)
  BY <1>6
  DEF OutOfMemory, AddChildRefused, AddChildNoSk, AddChildFails, AddFirstChild,
      InsertChild, LinkNode, DeleteRefused, DeleteBegin, SetValueRefused,
      Refuse, Return
<1>7. CASE \/ VisitNode \/ DeleteNode \/ DeleteNodeNoValues \/ DeleteNodeNoSk
           \/ DeleteNodeAborts \/ Unlink \/ DeleteFails
           \/ StoreRecordFails \/ StoreDataFails
  BY <1>7
  DEF VisitNode, DeleteNode, AtNodeEnd, DeleteNodeNoValues, DeleteNodeNoSk,
      DeleteNodeAborts, Unlink, DeleteFails, StoreRecordFails, StoreDataFails,
      Return, Abort
<1> QED BY <1>1, <1>3, <1>4, <1>5, <1>6, <1>7 DEF Next

(* The call returns behind the last value. *)
LEMMA ReadBackLast ==
  ASSUME RecordsInv, SetInv, StoreValue, stored + 1 = Len(list),
         Len(list) <= MaxValues
  PROVE  \E n \in Nodes : n = target /\ CanReadAll(n)' /\ Stored(n)' = list
<1>1. PICK n \in Nodes : n = target
  BY Storing DEF StoreValue
<1>2. /\ list \in Seq(ValueType) /\ nk[n].nr_values = Len(list) /\ stored \in Nat
      /\ nk[n].vallist \in DOMAIN vl
  BY <1>1, Storing DEF StoreValue
<1>3. PICK k \in Nat : k = Len(list) /\ k > 0
  BY <1>2
<1>4. /\ nk' = nk /\ valid \subseteq valid'
      /\ vl'[nk[n].vallist] \in Seq(Nat) /\ Len(vl'[nk[n].vallist]) = k
  BY <1>1, <1>3, StoreFacts
<1>5. PICK s \in Seq(Nat) : s = vl'[nk[n].vallist]
  BY <1>4
<1>6. ASSUME NEW i \in 1 .. k
      PROVE  /\ s[i] \in valid' \cap DOMAIN vk'
             /\ vk'[s[i]].inline \/ vk'[s[i]].data \in valid' \cap DOMAIN db'
             /\ ReadValue(s[i])' = list[i]
  <2>1. PICK b : b = s[i]
    OBVIOUS
  <2>2. i \in 1 .. (stored + 1) /\ b = vl'[nk[target].vallist][i]
    BY <1>1, <1>3, <1>5, <2>1
  <2>3. /\ b \in valid' \cap DOMAIN vk'
        /\ vk'[b].inline \/ vk'[b].data \in valid' \cap DOMAIN db'
        /\ ReadValue(b)' = list[i]
    BY <2>2, StoredNow
  <2> QED BY <2>1, <2>3
<1>7. PICK t : t = SubSeq(s, 1, k)
  OBVIOUS
<1>8. t \in Seq(Nat) /\ Len(t) = k /\ \A i \in 1 .. k : t[i] = s[i]
  <2>1. Len(s) = k /\ 1 \in 1 .. (Len(s) + 1) /\ k \in (1 - 1) .. Len(s)
    BY <1>3, <1>4, <1>5
  <2>2. /\ t \in Seq(Nat) /\ Len(t) = k - 1 + 1
        /\ \A i \in 1 .. (k - 1 + 1) : t[i] = s[1 + i - 1]
    BY <1>7, <2>1, SubSeqFacts
  <2> QED BY <2>2
<1>9. ValuesOf(n)' = t
  BY <1>2, <1>3, <1>4, <1>5, <1>7 DEF ValuesOf
<1>10. DOMAIN t = 1 .. k
  BY <1>8
<1>11. \A v \in ToSet(t) : v \in valid' /\ v \in DOMAIN vk' /\
                           (vk'[v].inline \/ vk'[v].data \in valid')
  BY <1>6, <1>8, <1>10, SMTT(60) DEF ToSet
<1>12. \A v \in ToSet(t) : Readable(v)'
  BY <1>11 DEF Readable
<1>13. nk[n].vallist \in valid'
  BY <1>1, <1>4 DEF SetInv, StoreValue
<1>14. ValuesOK(n)'
  <2>1. /\ nk'[n].nr_values = k /\ k <= MaxValues /\ nk'[n].vallist \in valid'
        /\ k <= Len(vl'[nk'[n].vallist])
    BY <1>2, <1>3, <1>4, <1>13
  <2>2. ToSet(ValuesOf(n)') \subseteq valid'
    BY <1>9, <1>11
  <2> QED BY <2>1, <2>2 DEF ValuesOK
<1>15. CanReadAll(n)'
  <2>1. IsNode(n)'
    BY <1>4 DEF IsNode, Nodes
  <2>2. \A v \in ToSet(ValuesOf(n)') : Readable(v)'
    BY <1>9, <1>12
  <2> QED BY <1>14, <2>1, <2>2 DEF CanReadAll
<1>16. Stored(n)' = list
  <2>1. Stored(n)' = [i \in 1 .. k |-> ReadValue(t[i])']
    BY <1>9, <1>10 DEF Stored, ReadValue
  <2>2. \A i \in 1 .. k : ReadValue(t[i])' = list[i]
    BY <1>6, <1>8
  <2>3. list = [i \in 1 .. k |-> list[i]]
    BY <1>2, <1>3
  <2> QED BY <2>1, <2>2, <2>3
<1> QED BY <1>1, <1>15, <1>16

(* When hivex_node_set_values or hivex_node_set_value returns 0, the       *)
(* values of the node can all be read and are the ones it was given, in    *)
(* their order, whether they are stored in the vk record or in a block of  *)
(* their own.                                                              *)
THEOREM ReadBackCorrect == Spec /\ SoundRecords => SetValuesReadBack
<1>1. ASSUME RecordsInv, SetInv, [Next]_vars
      PROVE  [ValuesReadBack]_vars
  <2> SUFFICES ASSUME ~UNCHANGED vars, pc = "set", pc' = "idle", ret' = "ok",
                      Len(list) <= MaxValues
               PROVE  \E n \in Nodes : n = target /\ CanReadAll(n)' /\ Stored(n)' = list
    BY DEF ValuesReadBack
  <2>1. StoreValue
    BY <1>1
    DEF Next, OutOfMemory, AddChildRefused, AddChildNoSk, AddChildFails,
        AddFirstChild, InsertChild, DeleteRefused, DeleteBegin, SetValues,
        SetValuesRefused, SetValuesAborts, ClearValues, SetValuesBegin,
        SetValueRefused, SetValue, VisitNode, DeleteNode, DeleteNodeNoValues,
        DeleteNodeNoSk, DeleteNodeAborts, AtNodeEnd, Unlink, DeleteFails,
        StoreRecordFails, StoreDataFails, Return
  <2>2. stored + 1 = Len(list)
    BY <2>1 DEF StoreValue
  <2> QED BY <1>1, <2>1, <2>2, ReadBackLast
<1> QED
  BY <1>1, InitStack, NextStack, InitRecords, NextRecords, InitSet, NextSet, PTL
  DEF Spec, SetValuesReadBack

-----------------------------------------------------------------------------
(* What nodes hold *)

LEMMA HeldKinds ==
  ASSUME NEW n \in Nodes, SoundRecords, Lengths
  PROVE  /\ Vals(n) \subseteq DOMAIN vk \cup {Zero}
         /\ Datas(n) \subseteq DOMAIN db \cup {Zero}
         /\ ValList(n) \subseteq DOMAIN vl
         /\ Held(n) \subseteq DOMAIN vl \cup DOMAIN vk \cup DOMAIN db
         /\ nk[n].nr_values \in Nat
<1>1. n \in DOMAIN nk /\ RecordTypes /\ References
  BY DEF Nodes, SoundRecords
<1>2. nk[n].nr_values \in Nat
  BY <1>1 DEF RecordTypes, NodeType
<1>3. Vals(n) \subseteq DOMAIN vk \cup {Zero}
  <2> SUFFICES ASSUME NEW i \in 1 .. nk[n].nr_values
               PROVE  vl[nk[n].vallist][i] \in DOMAIN vk \cup {Zero}
    BY DEF Vals
  <2>1. nk[n].nr_values > 0
    BY <1>2
  <2>2. nk[n].vallist \in DOMAIN vl /\ nk[n].nr_values <= Len(vl[nk[n].vallist])
    BY <1>1, <2>1 DEF References, Lengths
  <2>3. PICK s \in Seq(Nat) : s = vl[nk[n].vallist]
    BY <1>1, <2>2 DEF RecordTypes
  <2>4. i \in 1 .. Len(s) /\ ToSet(s) \subseteq DOMAIN vk \cup {Zero}
    BY <1>1, <1>2, <2>2, <2>3 DEF References
  <2>5. s[i] \in ToSet(s)
    BY <2>3, <2>4, ToSetFacts
  <2> QED BY <2>3, <2>4, <2>5
<1>4. Datas(n) \subseteq DOMAIN db \cup {Zero}
  BY <1>1 DEF Datas, References
<1>5. ValList(n) \subseteq DOMAIN vl
  BY <1>1, <1>2 DEF ValList, References
<1>6. nk[n].classname \in DOMAIN db \cup {None}
  BY <1>1 DEF References
<1> QED BY <1>2, <1>3, <1>4, <1>5, <1>6 DEF Held

LEMMA HeldOld ==
  ASSUME NEW n \in Nodes, SoundRecords, Lengths
  PROVE  /\ \A b \in Held(n) : b \in Nat /\ b < next
         /\ \A b \in Held(n) : b \notin DOMAIN nk /\ b \notin DOMAIN sk
         /\ next \notin Vals(n)
<1>1. /\ DOMAIN vl \cup DOMAIN vk \cup DOMAIN db \subseteq 1 .. (next - 1)
      /\ next \in Nat \ {0} /\ KindsApart
  BY DEF SoundRecords, RecordTypes, Allocated
<1>2. Held(n) \subseteq DOMAIN vl \cup DOMAIN vk \cup DOMAIN db
  BY HeldKinds
<1>3. Vals(n) \subseteq DOMAIN vk \cup {Zero}
  BY HeldKinds
<1>4. \A b \in Held(n) : b \in Nat /\ b < next
  BY <1>1, <1>2
<1>5. \A b \in Held(n) : b \notin DOMAIN nk /\ b \notin DOMAIN sk
  BY <1>1, <1>2 DEF KindsApart
<1>6. next \notin Vals(n)
  BY <1>1, <1>3 DEF Zero
<1> QED BY <1>4, <1>5, <1>6

(* No field of n that leads to its values changes. *)
SameFields(n) ==
  /\ nk'[n].nr_values = nk[n].nr_values /\ nk'[n].vallist = nk[n].vallist
  /\ nk'[n].classname = nk[n].classname
  /\ nk[n].nr_values > 0 => vl'[nk[n].vallist] = vl[nk[n].vallist]

(* vk records are only added, one at a time. *)
VkGrows ==
  /\ DOMAIN vk \subseteq DOMAIN vk' /\ DOMAIN vk' \subseteq DOMAIN vk \cup {next}
  /\ \A b \in DOMAIN vk : vk'[b] = vk[b]

LEMMA SameHeld ==
  ASSUME NEW n \in Nodes, SoundRecords, Lengths, SameFields(n), VkGrows
  PROVE  /\ Vals(n)' = Vals(n) /\ Datas(n)' = Datas(n) /\ Held(n)' = Held(n)
<1>1. nk[n].nr_values \in Nat
  BY HeldKinds
<1>2. Vals(n)' = Vals(n)
  <2>1. CASE nk[n].nr_values = 0
    <3>1. 1 .. nk[n].nr_values = {} /\ 1 .. nk'[n].nr_values = {}
      BY <2>1 DEF SameFields
    <3> QED BY <3>1 DEF Vals
  <2>2. CASE nk[n].nr_values > 0
    BY <2>2 DEF SameFields, Vals
  <2> QED BY <1>1, <2>1, <2>2
<1>3. Vals(n) \cap DOMAIN vk' = Vals(n) \cap DOMAIN vk
  BY HeldOld DEF VkGrows
<1>4. Datas(n)' = Datas(n)
  BY <1>2, <1>3 DEF Datas, VkGrows
<1>5. ValList(n)' = ValList(n)
  BY DEF ValList, SameFields
<1> QED BY <1>2, <1>4, <1>5 DEF Held, SameFields

(* At most one node, c, gets other values; the others lose nothing. *)
LEMMA OthersKeep ==
  ASSUME NEW c, SoundRecords, SoundValues, ListsApart', VkGrows,
         \A m \in Nodes' : m # c => m \in Nodes /\ SameFields(m),
         \A m \in Nodes' : m # c => Held(m) \cap (valid \ valid') = {},
         \A m \in Nodes' : m # c /\ Unfinished(m) => Unfinished(m)',
         c \in Nodes' =>
           /\ nk'[c].nr_values > 0 => nk'[c].nr_values <= Len(vl'[nk'[c].vallist])
           /\ \A m \in Nodes' : m # c => Held(c)' \cap Held(m) = {}
           /\ Unfinished(c)' \/ Vals(c)' \cup Datas(c)' \subseteq valid'
  PROVE  SoundValues'
<1>1. /\ Lengths /\ Exclusive /\ Whole
  BY DEF SoundValues
<1>2. ASSUME NEW m \in Nodes', m # c
      PROVE  /\ Vals(m)' = Vals(m) /\ Datas(m)' = Datas(m) /\ Held(m)' = Held(m)
             /\ m \in Nodes /\ SameFields(m)
  BY <1>1, <1>2, SameHeld
<1>3. Lengths'
  <2> SUFFICES ASSUME NEW m \in Nodes', nk'[m].nr_values > 0
               PROVE  nk'[m].nr_values <= Len(vl'[nk'[m].vallist])
    BY DEF Lengths
  <2>1. CASE m # c
    BY <1>1, <1>2, <2>1 DEF Lengths, SameFields
  <2> QED BY <2>1
<1>4. Exclusive'
  <2> SUFFICES ASSUME NEW m \in Nodes', NEW n \in Nodes', m # n
               PROVE  Held(m)' \cap Held(n)' = {}
    BY DEF Exclusive
  <2>1. CASE m # c /\ n # c
    BY <1>1, <1>2, <2>1 DEF Exclusive
  <2>2. CASE m = c
    BY <1>2, <2>2
  <2>3. CASE n = c
    BY <1>2, <2>3
  <2> QED BY <2>1, <2>2, <2>3
<1>5. Whole'
  <2> SUFFICES ASSUME NEW m \in Nodes', ~Unfinished(m)'
               PROVE  Vals(m)' \cup Datas(m)' \subseteq valid'
    BY DEF Whole
  <2>1. CASE m # c
    <3>1. Vals(m) \cup Datas(m) \subseteq valid
      BY <1>1, <1>2, <2>1 DEF Whole
    <3>2. None \notin valid /\ Zero \notin valid
      BY DEF SoundRecords, RecordTypes, Allocated, None, Zero
    <3>3. Vals(m) \cup Datas(m) \subseteq Held(m)
      BY <3>1, <3>2 DEF Held
    <3> QED BY <1>2, <2>1, <3>1, <3>3
  <2> QED BY <2>1
<1> QED BY <1>3, <1>4, <1>5 DEF SoundValues

-----------------------------------------------------------------------------
(* Actions *)

(* No record of a value changes, and only lists of children are freed. *)
LEMMA SameValues ==
  ASSUME SoundRecords, SoundValues, vl' = vl, vk' = vk, db' = db,
         DOMAIN lf' = DOMAIN lf, DOMAIN ri' = DOMAIN ri, DOMAIN nk' = DOMAIN nk,
         valid' \subseteq valid, valid \ valid' \subseteq DOMAIN lf \cup DOMAIN ri,
         \A m \in DOMAIN nk : /\ nk'[m].nr_values = nk[m].nr_values
                              /\ nk'[m].vallist = nk[m].vallist
                              /\ nk'[m].classname = nk[m].classname,
         \A m \in Nodes : Unfinished(m) => Unfinished(m)'
  PROVE  SoundValues'
<1>1. ListsApart /\ ListsApart' /\ VkGrows /\ Lengths
  BY DEF SoundValues, ListsApart, VkGrows
<1>2. \A m \in Nodes' : m \in Nodes /\ SameFields(m)
  BY DEF Nodes, SameFields
<1>3. \A m \in Nodes' : Held(m) \cap (valid \ valid') = {}
  <2> SUFFICES ASSUME NEW m \in Nodes' PROVE Held(m) \cap (valid \ valid') = {}
    OBVIOUS
  <2>1. Held(m) \subseteq DOMAIN vl \cup DOMAIN vk \cup DOMAIN db
    BY <1>1, <1>2, HeldKinds
  <2> QED BY <1>1, <2>1 DEF ListsApart
<1>4. Zero \notin Nodes'
  <2>1. Zero \notin Nodes
    BY DEF SoundRecords, RecordTypes, Allocated, Nodes, Zero
  <2> QED BY <1>2, <2>1
<1> QED BY <1>1, <1>2, <1>3, <1>4, OthersKeep

(* No record changes at all. *)
LEMMA KeptValues ==
  ASSUME SoundRecords, SoundValues, nk' = nk, lf' = lf, ri' = ri, vl' = vl,
         vk' = vk, db' = db, valid' = valid,
         pc = "set" => torn' = torn \cup {target} \/ UNCHANGED <<pc, target, torn>>,
         pc # "set" => torn' = torn
  PROVE  SoundValues'
<1>1. \A m \in Nodes : Unfinished(m) => Unfinished(m)'
  BY DEF Unfinished
<1> QED BY <1>1, SameValues

(* A new node has no values and takes none from others. *)
LEMMA NewNodeValues ==
  ASSUME NEW p \in DOMAIN nk, NEW F \in SUBSET DOMAIN lf, SoundRecords, SoundValues,
         vl' = vl, vk' = vk, db' = db, torn' = torn, pc # "set",
         DOMAIN lf' \subseteq DOMAIN lf \cup {next + 1}, DOMAIN ri' = DOMAIN ri,
         DOMAIN nk' = DOMAIN nk \cup {next},
         \A b \in valid : b \notin valid' => b \in F,
         \A b \in valid' : b \in valid \/ b \in {next, next + 1},
         nk'[next].nr_values = 0, nk'[next].classname = None,
         \A m \in DOMAIN nk : /\ nk'[m].nr_values = nk[m].nr_values
                              /\ nk'[m].vallist = nk[m].vallist
                              /\ nk'[m].classname = nk[m].classname
  PROVE  SoundValues'
<1>1. ListsApart /\ VkGrows /\ Lengths
  BY DEF SoundValues, VkGrows
<1>2. /\ next \in Nat \ {0} /\ next + 1 \notin DOMAIN nk /\ next \notin DOMAIN nk
      /\ next + 1 \notin DOMAIN vl \cup DOMAIN vk \cup DOMAIN db
  BY DEF SoundRecords, RecordTypes, Allocated
<1>3. ListsApart'
  BY <1>1, <1>2 DEF ListsApart
<1>4. PICK c : c = next
  OBVIOUS
<1>5. \A m \in Nodes' : m # c => m \in Nodes /\ SameFields(m)
  <2> SUFFICES ASSUME NEW m \in Nodes', m # c
               PROVE  m \in Nodes /\ SameFields(m)
    OBVIOUS
  <2>1. m \in DOMAIN nk /\ m \in valid'
    BY <1>4 DEF Nodes
  <2>2. m # next + 1
    BY <1>2, <2>1
  <2>3. m \in valid
    BY <1>4, <2>1, <2>2
  <2> QED BY <2>1, <2>3 DEF Nodes, SameFields
<1>6. \A m \in Nodes' : m # c => Held(m) \cap (valid \ valid') = {}
  <2> SUFFICES ASSUME NEW m \in Nodes', m # c
               PROVE  Held(m) \cap (valid \ valid') = {}
    OBVIOUS
  <2>1. Held(m) \subseteq DOMAIN vl \cup DOMAIN vk \cup DOMAIN db
    BY <1>1, <1>5, HeldKinds
  <2>2. Held(m) \cap F = {}
    BY <1>1, <2>1 DEF ListsApart
  <2> QED BY <2>2
<1>7. \A m \in Nodes' : m # c /\ Unfinished(m) => Unfinished(m)'
  BY DEF Unfinished
<1>8. Vals(c)' = {} /\ Datas(c)' = {} /\ Held(c)' = {}
  <2>1. nk'[c].nr_values = 0 /\ nk'[c].classname = None
    BY <1>4
  <2>2. Vals(c)' = {}
    <3>1. 1 .. nk'[c].nr_values = {}
      BY <2>1
    <3> QED BY <3>1 DEF Vals
  <2>3. Datas(c)' = {}
    BY <2>2 DEF Datas
  <2> QED BY <2>1, <2>2, <2>3 DEF Held, ValList
<1>9. ~(nk'[c].nr_values > 0)
  BY <1>4
<1> QED BY <1>1, <1>3, <1>5, <1>6, <1>7, <1>8, <1>9, OthersKeep

LEMMA AddChildValues ==
  ASSUME NEW p, NEW name \in Names, RecordsInv, SoundValues,
         \/ AddChildFails(p, name) \/ AddFirstChild(p, name)
         \/ InsertChild(p, name)
  PROVE  SoundValues'
<1>1. p \in DOMAIN nk /\ SoundRecords /\ RecordTypes /\ pc # "set"
  BY DEF RecordsInv, SoundRecords, AddChildFails, AddFirstChild, InsertChild,
         CanAdd, IsNode
<1>2. next \notin DOMAIN nk
  BY <1>1 DEF RecordTypes, Allocated
<1>3. CASE AddChildFails(p, name)
  <2>1. /\ nk' = NewRecord(nk, next, NewNode(p, name, nk[p].sk))
        /\ valid' = valid \cup {next} /\ lf' = lf /\ ri' = ri
        /\ vl' = vl /\ vk' = vk /\ db' = db /\ torn' = torn
    BY <1>3 DEF AddChildFails, valueVars
  <2>2. /\ DOMAIN nk' = DOMAIN nk \cup {next}
        /\ nk'[next] = NewNode(p, name, nk[p].sk)
        /\ \A m \in DOMAIN nk : nk'[m] = nk[m]
    BY <1>2, <2>1 DEF NewRecord
  <2>3. nk'[next].nr_values = 0 /\ nk'[next].classname = None
    BY <1>1, <2>2, NewNodeFacts
  <2>4. {} \in SUBSET DOMAIN lf
    OBVIOUS
  <2> QED BY <1>1, <2>1, <2>2, <2>3, <2>4, NewNodeValues
<1>4. ASSUME NEW direct \in BOOLEAN, LinkNode(p, name, direct)
      PROVE  /\ vl' = vl /\ vk' = vk /\ db' = db /\ torn' = torn
             /\ DOMAIN nk' = DOMAIN nk \cup {next}
             /\ nk'[next].nr_values = 0 /\ nk'[next].classname = None
             /\ \A m \in DOMAIN nk : /\ nk'[m].nr_values = nk[m].nr_values
                                     /\ nk'[m].vallist = nk[m].vallist
                                     /\ nk'[m].classname = nk[m].classname
  <2>1. /\ vl' = vl /\ vk' = vk /\ db' = db /\ torn' = torn
        /\ DOMAIN nk' = DOMAIN nk \cup {next}
        /\ nk'[next] = NewNode(p, name, nk[p].sk)
        /\ \A m \in DOMAIN nk : m # p => nk'[m] = nk[m]
        /\ nk'[p].nr_values = nk[p].nr_values /\ nk'[p].vallist = nk[p].vallist
        /\ nk'[p].classname = nk[p].classname
    BY <1>1, <1>4, LinkNodeFacts
  <2>2. nk'[next].nr_values = 0 /\ nk'[next].classname = None
    BY <1>1, <2>1, NewNodeFacts
  <2> QED BY <2>1, <2>2
<1>5. CASE AddFirstChild(p, name)
  <2>1. /\ LinkNode(p, name, TRUE) /\ valid' = valid \cup {next, next + 1}
        /\ lf' = NewRecord(lf, next + 1, <<next>>) /\ ri' = ri
    BY <1>5 DEF AddFirstChild
  <2>2. DOMAIN lf' = DOMAIN lf \cup {next + 1}
    BY <2>1 DEF NewRecord
  <2>3. {} \in SUBSET DOMAIN lf
    OBVIOUS
  <2> QED BY <1>1, <1>4, <2>1, <2>2, <2>3, NewNodeValues
<1>6. CASE InsertChild(p, name)
  <2>1. PICK old : /\ old = Lists(p)[Place(p, name).list]
                   /\ valid' = (valid \ {old}) \cup {next, next + 1}
    BY <1>6 DEF InsertChild
  <2>2. PICK l : lf' = NewRecord(lf, next + 1, l)
    BY <1>6 DEF InsertChild
  <2>3. PICK direct \in BOOLEAN : LinkNode(p, name, direct)
    BY <1>6 DEF InsertChild
  <2>4. DOMAIN ri' = DOMAIN ri
    BY <1>6 DEF InsertChild
  <2>5. ListsOK(p) /\ nk[p].nr_subkeys # 0
    BY <1>6 DEF InsertChild, ChildrenOK
  <2>6. old \in DOMAIN lf
    BY <1>1, <2>1, <2>5, PlaceFacts
  <2>7. DOMAIN lf' = DOMAIN lf \cup {next + 1} /\ {old} \in SUBSET DOMAIN lf
    BY <2>2, <2>6 DEF NewRecord
  <2> QED BY <1>1, <1>4, <2>1, <2>3, <2>4, <2>7, NewNodeValues
<1> QED BY <1>3, <1>5, <1>6

(* delete_values frees what the node holds. *)
LEMMA ValueBlocksHeld ==
  ASSUME NEW n \in Nodes, SoundRecords, Lengths, ValuesOK(n)
  PROVE  /\ ToSet(ValueBlocks(n)) \subseteq Held(n) \cup {Zero}
         /\ nk[n].nr_values # 0 =>
              /\ ToSet(ValuesOf(n)) = Vals(n)
              /\ ToSet(ValueBlocks(n)) = {nk[n].vallist} \cup Vals(n) \cup Datas(n)
<1>1. n \in DOMAIN nk /\ RecordTypes /\ References
  BY DEF Nodes, SoundRecords
<1>2. CASE nk[n].nr_values = 0
  BY <1>1, <1>2, ValueBlocksType
<1>3. CASE nk[n].nr_values # 0
  <2>1. nk[n].nr_values \in Nat
    BY HeldKinds
  <2>2. PICK t \in Seq(Nat) : t = ValuesOf(n)
    BY <1>1, ValuesType
  <2>3. /\ Len(t) = nk[n].nr_values /\ ToSet(t) \subseteq valid \cap DOMAIN vk
        /\ \A i \in 1 .. nk[n].nr_values : t[i] = vl[nk[n].vallist][i]
    BY <1>1, <1>3, <2>2, ValuesType
  <2>4. DOMAIN t = 1 .. nk[n].nr_values
    BY <2>2, <2>3
  <2>5. ToSet(t) = Vals(n)
    BY <2>3, <2>4 DEF ToSet, Vals
  <2>6. {vk[v].data : v \in {w \in ToSet(t) : ~vk[w].inline}} = Datas(n)
    BY <2>3, <2>5 DEF Datas
  <2>7. ToSet(ValueBlocks(n)) = ValList(n) \cup Vals(n) \cup Datas(n)
    BY <1>1, <1>3, <2>2, <2>5, <2>6, ValueBlocksType DEF OwnedValues, ValList
  <2>8. None \notin ValList(n) \cup Vals(n) \cup Datas(n)
    <3>1. None \notin DOMAIN vl \cup DOMAIN vk \cup DOMAIN db \cup {Zero}
      BY <1>1 DEF RecordTypes, Allocated, None, Zero
    <3> QED BY <3>1, HeldKinds
  <2> QED BY <1>3, <2>2, <2>5, <2>7, <2>8 DEF Held, ValList
<1> QED BY <1>2, <1>3

(* What one node holds can be freed. *)
LEMMA FreedKept ==
  ASSUME NEW n \in Nodes, NEW F, SoundRecords, SoundValues,
         F \subseteq Held(n) \cup {Zero} \cup DOMAIN lf \cup DOMAIN ri \cup
                     DOMAIN nk \cup DOMAIN sk
  PROVE  \A m \in Nodes : m # n => Held(m) \cap F = {}
<1> SUFFICES ASSUME NEW m \in Nodes, m # n
             PROVE  Held(m) \cap F = {}
  OBVIOUS
<1>1. Lengths /\ ListsApart /\ Held(m) \cap Held(n) = {}
  BY DEF SoundValues, Exclusive
<1>2. Held(m) \subseteq DOMAIN vl \cup DOMAIN vk \cup DOMAIN db
  BY <1>1, HeldKinds
<1>3. Held(m) \cap (DOMAIN lf \cup DOMAIN ri) = {}
  BY <1>1, <1>2 DEF ListsApart
<1>4. Zero \notin Held(m)
  BY DEF Held
<1>5. Held(m) \cap (DOMAIN nk \cup DOMAIN sk) = {}
  BY <1>1, HeldOld
<1> QED BY <1>1, <1>3, <1>4, <1>5

LEMMA DeleteNodeValues ==
  ASSUME RecordsInv, SoundValues, DeleteNode
  PROVE  SoundValues'
<1>1. PICK n \in Nodes : n = Top.node
  BY Ending DEF DeleteNode
<1>2. /\ n \in DOMAIN nk /\ SoundRecords /\ RecordTypes /\ References /\ KindsApart
      /\ Lengths /\ ListsApart /\ ListsOK(n) /\ ValuesOK(n)
  BY <1>1 DEF Nodes, RecordsInv, SoundRecords, SoundValues, DeleteNode
<1>3. Nodes' = Nodes \ {n}
  BY <1>1, <1>2, DeleteNodeFrees
<1>4. /\ nk' = Emptied(n) /\ lf' = lf /\ ri' = ri /\ vl' = vl /\ vk' = vk /\ db' = db
      /\ pc' = pc /\ target' = target /\ torn' = torn
  BY <1>1 DEF DeleteNode, Emptied, valueVars, historyVars
<1>5. DOMAIN nk' = DOMAIN nk /\ \A m \in DOMAIN nk : m # n => nk'[m] = nk[m]
  BY <1>2, <1>4, EmptiedFacts
<1>6. ListsApart' /\ VkGrows
  BY <1>2, <1>4 DEF ListsApart, VkGrows
<1>7. \A m \in Nodes' : m # n => m \in Nodes /\ SameFields(m)
  BY <1>3, <1>4, <1>5 DEF SameFields, Nodes
<1>8. PICK F : F = valid \ valid'
  OBVIOUS
<1>9. F \subseteq ToSet(NodeBlocks(n)) \cup {nk[n].sk} /\ F \subseteq valid
  BY <1>1, <1>8 DEF DeleteNode
<1>10. nk[n].sk \in DOMAIN sk
  BY <1>1 DEF RecordsInv, SoundRecords, SkInv, HasSk
<1>11. F \subseteq Held(n) \cup {Zero} \cup DOMAIN lf \cup DOMAIN ri \cup
                   DOMAIN nk \cup DOMAIN sk
  <2>1. ToSet(NodeBlocks(n)) \subseteq
           ToSet(Blocks(n)) \cup ToSet(ValueBlocks(n)) \cup {n} \cup {nk[n].classname}
    BY <1>2, NodeBlocksType
  <2>2. ToSet(Blocks(n)) \subseteq DOMAIN lf \cup DOMAIN ri
    BY <1>2, BlocksType
  <2>3. ToSet(ValueBlocks(n)) \subseteq Held(n) \cup {Zero}
    BY <1>2, ValueBlocksHeld
  <2>4. nk[n].classname \in Held(n) \cup {None, Zero}
    BY DEF Held
  <2>5. None \notin valid
    BY <1>2 DEF RecordTypes, Allocated, None
  <2> QED BY <1>2, <1>9, <1>10, <2>1, <2>2, <2>3, <2>4, <2>5
<1>12. \A m \in Nodes' : m # n => Held(m) \cap (valid \ valid') = {}
  BY <1>2, <1>3, <1>8, <1>11, FreedKept
<1>13. \A m \in Nodes' : m # n /\ Unfinished(m) => Unfinished(m)'
  BY <1>4 DEF Unfinished
<1> QED BY <1>2, <1>3, <1>6, <1>7, <1>12, <1>13, OthersKeep

(* delete_values, for hivex_node_set_values. *)
LEMMA ClearValuesKeeps ==
  ASSUME NEW n, NEW vs, RecordsInv, SoundValues, ClearValues(n, vs)
  PROVE  SoundValues'
<1>1. /\ n \in Nodes /\ n \in DOMAIN nk /\ SoundRecords /\ RecordTypes
      /\ Lengths /\ ListsApart /\ ValuesOK(n) /\ pc # "set"
  BY DEF Nodes, RecordsInv, SoundRecords, SoundValues, ClearValues, CanClear, IsNode
<1>2. /\ valid' = valid \ ToSet(ValueBlocks(n)) /\ nk' = WithValues(n, 0, None)
      /\ lf' = lf /\ ri' = ri /\ vl' = vl /\ vk' = vk /\ db' = db /\ torn' = torn
  BY NoValuesIs DEF ClearValues, valueVars, historyVars
<1>3. /\ DOMAIN nk' = DOMAIN nk /\ \A m \in DOMAIN nk : m # n => nk'[m] = nk[m]
      /\ nk'[n].nr_values = 0 /\ nk'[n].classname = nk[n].classname
  <2>1. 0 \in Nat /\ None \in Int
    BY DEF None
  <2>2. PICK g : g = WithValues(n, 0, None)
    OBVIOUS
  <2>3. /\ DOMAIN g = DOMAIN nk /\ \A m \in DOMAIN nk : m # n => g[m] = nk[m]
        /\ g[n].nr_values = 0 /\ g[n].classname = nk[n].classname
    BY <1>1, <2>1, <2>2, WithValuesFacts
  <2>4. nk' = g
    BY <1>2, <2>2
  <2> QED BY <2>3, <2>4
<1>4. ListsApart' /\ VkGrows
  BY <1>1, <1>2 DEF ListsApart, VkGrows
<1>5. \A m \in Nodes' : m # n => m \in Nodes /\ SameFields(m)
  BY <1>2, <1>3 DEF SameFields, Nodes
<1>6. \A m \in Nodes' : m # n => Held(m) \cap (valid \ valid') = {}
  BY <1>1, <1>2, <1>5, ValueBlocksHeld, FreedKept
<1>7. \A m \in Nodes' : m # n /\ Unfinished(m) => Unfinished(m)'
  BY <1>1, <1>2 DEF Unfinished
<1>8. Vals(n)' = {} /\ Datas(n)' = {}
  <2>1. 1 .. nk'[n].nr_values = {}
    BY <1>3
  <2>2. Vals(n)' = {}
    BY <2>1 DEF Vals
  <2> QED BY <2>2 DEF Datas
<1>9. Held(n)' \subseteq Held(n)
  BY <1>3, <1>8 DEF Held, ValList
<1>10. \A m \in Nodes' : m # n => Held(n)' \cap Held(m) = {}
  BY <1>1, <1>5, <1>9 DEF SoundValues, Exclusive
<1>11. ~(nk'[n].nr_values > 0)
  BY <1>3
<1> QED BY <1>1, <1>4, <1>5, <1>6, <1>7, <1>8, <1>10, <1>11, OthersKeep

LEMMA SetValuesBeginKeeps ==
  ASSUME NEW n, NEW vs \in Seq(ValueType), RecordsInv, SoundValues,
         SetValuesBegin(n, vs)
  PROVE  SoundValues'
<1>1. /\ SoundRecords /\ RecordTypes /\ Lengths /\ ListsApart /\ pc # "set"
  BY DEF RecordsInv, SoundRecords, SoundValues, SetValuesBegin
<1>2. /\ n \in Nodes /\ n \in DOMAIN nk /\ ValuesOK(n) /\ next \in Nat \ {0}
      /\ Len(vs) > 0 /\ DOMAIN nk' = DOMAIN nk
      /\ \A m \in DOMAIN nk : m # n => nk'[m] = nk[m]
      /\ nk'[n].nr_values = Len(vs) /\ nk'[n].vallist = next
      /\ nk'[n].classname = nk[n].classname
  BY <1>1, SetValuesBeginFacts
<1>3. /\ DOMAIN vl' = DOMAIN vl \cup {next} /\ vl' \in [DOMAIN vl' -> Seq(Nat)]
      /\ \A b \in DOMAIN vl : vl'[b] = vl[b]
      /\ Len(vl'[next]) = Len(vs) /\ ToSet(vl'[next]) \subseteq {Zero}
  BY <1>1, SetValuesBeginFacts
<1>4. /\ valid' = (valid \ ToSet(ValueBlocks(n))) \cup {next}
      /\ lf' = lf /\ ri' = ri /\ vk' = vk /\ db' = db
      /\ pc' = "set" /\ target' = n /\ torn' = torn
  BY <1>1, SetValuesBeginFacts
<1>5. /\ next \notin DOMAIN lf \cup DOMAIN ri \cup DOMAIN vk \cup DOMAIN db
      /\ next \notin DOMAIN nk
  BY <1>1 DEF RecordTypes, Allocated
<1>6. ListsApart' /\ VkGrows
  BY <1>1, <1>3, <1>4, <1>5 DEF ListsApart, VkGrows
<1>7. \A m \in Nodes' : m # n => m \in Nodes /\ SameFields(m)
  <2> SUFFICES ASSUME NEW m \in Nodes', m # n
               PROVE  m \in Nodes /\ SameFields(m)
    OBVIOUS
  <2>1. m \in DOMAIN nk /\ m \in Nodes
    BY <1>2, <1>4, <1>5 DEF Nodes
  <2>2. nk[m].nr_values > 0 => nk[m].vallist \in DOMAIN vl
    BY <1>1, <2>1 DEF SoundRecords, References
  <2> QED BY <1>2, <1>3, <2>1, <2>2 DEF SameFields
<1>8. \A m \in Nodes' : m # n => Held(m) \cap (valid \ valid') = {}
  BY <1>1, <1>2, <1>4, <1>7, ValueBlocksHeld, FreedKept
<1>9. \A m \in Nodes' : m # n /\ Unfinished(m) => Unfinished(m)'
  BY <1>1, <1>4 DEF Unfinished
<1>10. Unfinished(n)'
  BY <1>4 DEF Unfinished
<1>11. Vals(n)' \subseteq {Zero}
  <2>1. PICK s \in Seq(Nat) : s = vl'[next]
    BY <1>3
  <2>2. Len(s) = Len(vs) /\ ToSet(s) \subseteq {Zero}
    BY <1>3, <2>1
  <2>3. \A i \in 1 .. Len(s) : s[i] \in {Zero}
    BY <2>2, ToSetFacts
  <2> QED BY <1>2, <2>1, <2>2, <2>3 DEF Vals
<1>12. Datas(n)' = {}
  <2>1. Zero \notin DOMAIN vk
    BY <1>1 DEF RecordTypes, Allocated, Zero
  <2> QED BY <1>4, <1>11, <2>1 DEF Datas
<1>13. Held(n)' \subseteq {next} \cup ({nk[n].classname} \ {None, Zero})
  BY <1>2, <1>11, <1>12 DEF Held, ValList
<1>14. \A m \in Nodes' : m # n => Held(n)' \cap Held(m) = {}
  <2> SUFFICES ASSUME NEW m \in Nodes', m # n
               PROVE  Held(n)' \cap Held(m) = {}
    OBVIOUS
  <2>1. next \notin Held(m)
    BY <1>1, <1>2, <1>7, HeldOld
  <2>2. {nk[n].classname} \ {None, Zero} \subseteq Held(n)
    BY DEF Held
  <2>3. Held(n) \cap Held(m) = {}
    BY <1>2, <1>7 DEF SoundValues, Exclusive
  <2> QED BY <1>13, <2>1, <2>2, <2>3
<1>15. nk'[n].nr_values <= Len(vl'[nk'[n].vallist])
  BY <1>2, <1>3
<1> QED BY <1>1, <1>6, <1>7, <1>8, <1>9, <1>10, <1>14, <1>15, OthersKeep

(* A vk record is stored, with k blocks in all. *)
LEMMA PutValueKeeps ==
  ASSUME NEW n \in Nodes, NEW v \in ValueType, NEW d \in Nat,
         RecordsInv, SoundValues, pc = "set", n = target, PutValue(v, d), v.len = "inline" \/ d \in {Zero, next + 1},
         db' = db \/ db' = NewRecord(db, next + 1, v.data),
         valid \subseteq valid', valid' \subseteq valid \cup {next, next + 1},
         nk' = nk, lf' = lf, ri' = ri,
         \A m \in Nodes : Unfinished(m) => Unfinished(m)' \/ m = n,
         Unfinished(n)' \/ Vals(n)' \cup Datas(n)' \subseteq valid'
  PROVE  SoundValues'
<1>2. /\ SoundRecords /\ RecordTypes /\ References /\ Lengths /\ ListsApart
      /\ n \in DOMAIN nk /\ nk[n].vallist \in DOMAIN vl /\ nk[n].nr_values = Len(list)
      /\ Len(list) \in Nat /\ Len(vl[nk[n].vallist]) = Len(list)
      /\ nk[n].nr_values # 0
  BY Storing DEF RecordsInv, SoundRecords, SoundValues
<1>3. /\ next \in Nat \ {0}
      /\ \A b \in {next, next + 1} :
           b \notin UNION {DOMAIN nk, DOMAIN lf, DOMAIN ri, DOMAIN vl, DOMAIN vk,
                           DOMAIN db}
  BY <1>2 DEF RecordTypes, Allocated
<1>4. /\ DOMAIN vk' = DOMAIN vk \cup {next} /\ \A b \in DOMAIN vk : vk'[b] = vk[b]
      /\ vk'[next].data = d /\ vk'[next].inline = (v.len = "inline")
  BY <1>2, PutValueFacts
<1>5. /\ DOMAIN vl' = DOMAIN vl /\ vl' \in [DOMAIN vl -> Seq(Nat)]
      /\ \A b \in DOMAIN vl : b # nk[n].vallist => vl'[b] = vl[b]
      /\ Len(vl'[nk[n].vallist]) = Len(list)
  BY <1>2, PutValueFacts
<1>6. DOMAIN db' = DOMAIN db \/ DOMAIN db' = DOMAIN db \cup {next + 1}
  BY DEF NewRecord
<1>7. ListsApart'
  BY <1>2, <1>3, <1>4, <1>5, <1>6 DEF ListsApart
<1>8. VkGrows
  BY <1>4 DEF VkGrows
<1>9. Nodes' = Nodes
  BY <1>3 DEF Nodes
<1>10. \A m \in Nodes' : m # n => m \in Nodes /\ SameFields(m)
  <2> SUFFICES ASSUME NEW m \in Nodes, m # n
               PROVE  SameFields(m)
    BY <1>9
  <2>1. nk[m].nr_values > 0 => nk[m].vallist \in DOMAIN vl
    BY <1>2 DEF References, Nodes
  <2>2. nk[m].nr_values > 0 => nk[m].vallist # nk[n].vallist
    <3> SUFFICES ASSUME nk[m].nr_values > 0, nk[m].vallist = nk[n].vallist
                 PROVE  FALSE
      OBVIOUS
    <3>1. nk[m].nr_values \in Nat /\ nk[m].nr_values # 0
      BY <1>2, HeldKinds
    <3>2. PICK b : b = nk[n].vallist
      OBVIOUS
    <3>3. b # None /\ b # Zero
      BY <1>2, <3>2 DEF RecordTypes, Allocated, None, Zero
    <3>4. b \in Held(n) /\ b \in Held(m)
      BY <1>2, <3>1, <3>2, <3>3 DEF Held, ValList
    <3> QED BY <3>4 DEF SoundValues, Exclusive
  <2> QED BY <1>5, <2>1, <2>2 DEF SameFields
<1>11. \A m \in Nodes' : m # n => Held(m) \cap (valid \ valid') = {}
  OBVIOUS
<1>12. \A m \in Nodes' : m # n /\ Unfinished(m) => Unfinished(m)'
  BY <1>9
<1>13. Vals(n)' \subseteq Vals(n) \cup {next}
  <2> SUFFICES ASSUME NEW i \in 1 .. nk[n].nr_values
               PROVE  vl'[nk[n].vallist][i] \in Vals(n) \cup {next}
    BY DEF Vals
  <2>1. i \in 1 .. Len(vl[nk[n].vallist])
    BY <1>2
  <2>2. vl'[nk[n].vallist][i] = vl[nk[n].vallist][i] \/ vl'[nk[n].vallist][i] = next
    <3>1. CASE i = stored + 1
      BY <1>2, <2>1, <3>1, PutValueFacts
    <3>2. CASE i # stored + 1
      BY <1>2, <2>1, <3>2, PutValueFacts
    <3> QED BY <3>1, <3>2
  <2> QED BY <2>2 DEF Vals
<1>14. Datas(n)' \subseteq Datas(n) \cup {Zero, next + 1}
  <2> SUFFICES ASSUME NEW w \in Vals(n)' \cap DOMAIN vk', ~vk'[w].inline
               PROVE  vk'[w].data \in Datas(n) \cup {Zero, next + 1}
    BY DEF Datas
  <2>1. CASE w = next
    BY <1>4, <2>1
  <2>2. CASE w # next
    <3>1. w \in Vals(n) \cap DOMAIN vk /\ vk'[w] = vk[w]
      BY <1>4, <1>13, <2>2
    <3> QED BY <3>1 DEF Datas
  <2> QED BY <2>1, <2>2
<1>15. Held(n)' \subseteq Held(n) \cup {next, next + 1}
  BY <1>13, <1>14 DEF Held, ValList
<1>16. \A m \in Nodes' : m # n => Held(n)' \cap Held(m) = {}
  <2> SUFFICES ASSUME NEW m \in Nodes, m # n
               PROVE  Held(n)' \cap Held(m) = {}
    BY <1>9
  <2>1. \A b \in Held(m) : b \in Nat /\ b < next
    BY <1>2, HeldOld
  <2>2. next \notin Held(m) /\ next + 1 \notin Held(m)
    BY <1>3, <2>1
  <2>3. Held(n) \cap Held(m) = {}
    BY DEF SoundValues, Exclusive
  <2> QED BY <1>15, <2>2, <2>3
<1>17. nk'[n].nr_values <= Len(vl'[nk'[n].vallist])
  BY <1>2, <1>5
<1> QED
  BY <1>2, <1>7, <1>8, <1>10, <1>11, <1>12, <1>16, <1>17, OthersKeep

(* Behind the last value, all values of the node are there. *)
LEMMA StoreLastWhole ==
  ASSUME NEW n, RecordsInv, SetInv, StoreValue, n = target, stored + 1 = Len(list)
  PROVE  Vals(n)' \cup Datas(n)' \subseteq valid'
<1>1. nk'[n].nr_values = stored + 1 /\ nk' = nk
  BY Storing, StoreFacts DEF StoreValue
<1>2. ASSUME NEW b \in Vals(n)'
      PROVE  /\ b \in valid' /\ b \in DOMAIN vk'
             /\ vk'[b].inline \/ vk'[b].data \in valid'
  <2>1. PICK i \in 1 .. (stored + 1) : b = vl'[nk[target].vallist][i]
    BY <1>1, <1>2 DEF Vals
  <2> QED BY <2>1, StoredNow
<1>3. Vals(n)' \subseteq valid'
  BY <1>2
<1>4. Datas(n)' \subseteq valid'
  BY <1>2 DEF Datas
<1> QED BY <1>3, <1>4

LEMMA StoreKeeps ==
  ASSUME RecordsInv, SoundValues, SetInv, StoreValue \/ StoreDataFails
  PROVE  SoundValues'
<1>1. pc = "set" /\ SoundRecords /\ next \in Nat
  BY DEF StoreValue, StoreDataFails, RecordsInv, SoundRecords, RecordTypes
<1>2. PICK n \in Nodes : n = target
  BY <1>1, Storing
<1>3. PICK v \in ValueType : v = list[stored + 1]
  BY <1>1, Storing
<1>4. v.data \in Nat
  BY DEF ValueType
<1>5. CASE StoreDataFails
  <2>1. /\ PutValue(v, Zero) /\ db' = db /\ valid' = valid \cup {next}
        /\ nk' = nk /\ lf' = lf /\ ri' = ri /\ torn' = torn \cup {n}
    BY <1>2, <1>3, <1>5 DEF StoreDataFails, treeVars
  <2>2. \A m \in Nodes : Unfinished(m) => Unfinished(m)' \/ m = n
    BY <1>2, <2>1 DEF Unfinished
  <2>3. Unfinished(n)'
    BY <2>1 DEF Unfinished
  <2>4. PICK d \in Nat : d = Zero
    BY DEF Zero
  <2> QED BY <1>1, <1>2, <2>1, <2>2, <2>3, <2>4, PutValueKeeps
<1>6. CASE StoreValue
  <2>1. nk' = nk /\ lf' = lf /\ ri' = ri /\ torn' = torn /\ valid \subseteq valid'
    BY <1>6 DEF StoreValue, treeVars, historyVars
  <2>2. \A m \in Nodes : Unfinished(m) => Unfinished(m)' \/ m = n
    BY <1>2, <2>1 DEF Unfinished
  <2>3. Unfinished(n)' \/ Vals(n)' \cup Datas(n)' \subseteq valid'
    <3>1. CASE stored + 1 = Len(list)
      BY <1>2, <1>6, <3>1, StoreLastWhole
    <3>2. CASE stored + 1 # Len(list)
      <4>1. pc' = pc /\ target' = target
        BY <1>6, <3>2 DEF StoreValue
      <4> QED BY <1>1, <1>2, <4>1 DEF Unfinished
    <3> QED BY <3>1, <3>2
  <2>4. CASE v.len = "inline"
    <3>1. /\ PutValue(v, v.data) /\ db' = db
          /\ valid' = valid \cup next .. (next + 1 - 1)
      BY <1>3, <1>6, <2>4 DEF StoreValue
    <3>2. valid' \subseteq valid \cup {next, next + 1}
      BY <1>1, <3>1
    <3> QED BY <1>1, <1>2, <1>4, <2>1, <2>2, <2>3, <2>4, <3>1, <3>2, PutValueKeeps
  <2>5. CASE v.len # "inline"
    <3>1. /\ PutValue(v, next + 1) /\ db' = NewRecord(db, next + 1, v.data)
          /\ valid' = valid \cup next .. (next + 2 - 1)
      BY <1>3, <1>6, <2>5 DEF StoreValue
    <3>2. valid' \subseteq valid \cup {next, next + 1}
      BY <1>1, <3>1
    <3>3. PICK d \in Nat : d = next + 1
      BY <1>1
    <3> QED BY <1>1, <1>2, <2>1, <2>2, <2>3, <3>1, <3>2, <3>3, PutValueKeeps
  <2> QED BY <2>4, <2>5
<1> QED BY <1>5, <1>6

LEMMA DeleteStepsKeep ==
  ASSUME RecordsInv, SoundValues, DeleteNodeNoValues \/ Unlink
  PROVE  SoundValues'
<1>1. SoundRecords /\ RecordTypes /\ pc # "set"
  BY DEF RecordsInv, SoundRecords, DeleteNodeNoValues, Unlink, AtNodeEnd
<1>2. CASE DeleteNodeNoValues
  <2>1. PICK n \in DOMAIN nk : n = Top.node
    BY <1>2, Ending DEF DeleteNodeNoValues
  <2>2. /\ valid' = valid \ ToSet(Blocks(n)) /\ nk' = nk /\ lf' = lf /\ ri' = ri
        /\ vl' = vl /\ vk' = vk /\ db' = db /\ torn' = torn /\ ListsOK(n)
    BY <1>2, <2>1 DEF DeleteNodeNoValues, treeVars, valueVars
  <2>3. ToSet(Blocks(n)) \subseteq DOMAIN lf \cup DOMAIN ri
    BY <1>1, <2>2, BlocksType
  <2>4. \A m \in Nodes : Unfinished(m) => Unfinished(m)'
    BY <1>1, <2>2 DEF Unfinished
  <2> QED BY <1>1, <2>2, <2>3, <2>4, SameValues
<1>3. CASE Unlink
  <2>1. PICK p : p = Top.node
    OBVIOUS
  <2>2. /\ DOMAIN lf' = DOMAIN lf /\ DOMAIN nk' = DOMAIN nk
        /\ \A m \in DOMAIN nk : m # p => nk'[m] = nk[m]
        /\ nk'[p].nr_values = nk[p].nr_values /\ nk'[p].vallist = nk[p].vallist
        /\ nk'[p].classname = nk[p].classname
    BY <1>1, <1>3, <2>1, UnlinkFacts
  <2>3. valid' = valid /\ ri' = ri /\ vl' = vl /\ vk' = vk /\ db' = db /\ torn' = torn
    BY <1>3 DEF Unlink, valueVars, historyVars
  <2>4. \A m \in Nodes : Unfinished(m) => Unfinished(m)'
    BY <1>1, <2>3 DEF Unfinished
  <2>5. \A m \in DOMAIN nk : /\ nk'[m].nr_values = nk[m].nr_values
                             /\ nk'[m].vallist = nk[m].vallist
                             /\ nk'[m].classname = nk[m].classname
    BY <2>2
  <2> QED BY <1>1, <2>2, <2>3, <2>4, <2>5, SameValues
<1> QED BY <1>2, <1>3

(* Steps that change no record. *)
LEMMA RefuseKeeps ==
  ASSUME RecordsInv, SoundValues, pc # "set", Refuse \/ Abort
  PROVE  SoundValues'
BY KeptValues DEF RecordsInv, Refuse, Abort, treeVars, valueVars, historyVars

LEMMA SetValuesKeeps ==
  ASSUME NEW n, NEW vs \in Seq(ValueType), RecordsInv, SoundValues, SetValues(n, vs)
  PROVE  SoundValues'
<1>1. CASE SetValuesRefused(n) \/ SetValuesAborts(n)
  BY <1>1, RefuseKeeps DEF SetValuesRefused, SetValuesAborts
<1> QED BY <1>1, ClearValuesKeeps, SetValuesBeginKeeps DEF SetValues

(* Every step of every call leaves the values of other nodes alone. *)
LEMMA NextValues ==
  RecordsInv /\ SetInv /\ SoundValues /\ [Next]_vars => SoundValues'
<1> SUFFICES ASSUME RecordsInv, SetInv, SoundValues, [Next]_vars
             PROVE  SoundValues'
  OBVIOUS
<1>1. CASE UNCHANGED vars \/ VisitNode
  BY <1>1, KeptValues
  DEF RecordsInv, VisitNode, vars, treeVars, valueVars, callVars, historyVars
<1>2. CASE OutOfMemory
  BY <1>2, RefuseKeeps DEF OutOfMemory
<1>3. ASSUME NEW n \in handles, NEW name \in Names,
             \/ AddChildRefused(n, name) \/ AddChildNoSk(n, name)
             \/ AddChildFails(n, name) \/ AddFirstChild(n, name)
             \/ InsertChild(n, name)
      PROVE  SoundValues'
  <2>1. CASE AddChildRefused(n, name)
    BY <2>1, RefuseKeeps DEF AddChildRefused
  <2> QED BY <1>3, <2>1, NoSkNever, AddChildValues
<1>4. ASSUME NEW n \in handles, DeleteRefused(n) \/ SetValueRefused(n)
      PROVE  SoundValues'
  BY <1>4, RefuseKeeps DEF DeleteRefused, SetValueRefused
<1>5. ASSUME NEW n \in handles, DeleteBegin(n)
      PROVE  SoundValues'
  BY <1>5, KeptValues
  DEF RecordsInv, DeleteBegin, treeVars, valueVars, historyVars
<1>6. ASSUME NEW n \in handles, NEW vs \in ValueLists, SetValues(n, vs)
      PROVE  SoundValues'
  <2>1. vs \in Seq(ValueType)
    BY HiveTreeAssumption
  <2> QED BY <1>6, <2>1, SetValuesKeeps
<1>7. ASSUME NEW n \in handles, NEW v \in Values, SetValue(n, v)
      PROVE  SoundValues'
  <2>1. Replaced(n, v) \in Seq(ValueType)
    BY <1>7, ReplacedType, HiveTreeAssumption DEF SetValue, RecordsInv
  <2> QED BY <1>7, <2>1, SetValuesKeeps DEF SetValue
<1>8. CASE DeleteNode
  BY <1>8, DeleteNodeValues
<1>9. CASE DeleteNodeNoSk
  BY <1>9, DeleteNoSkNever
<1>10. CASE DeleteNodeAborts
  BY <1>10, RefuseKeeps DEF DeleteNodeAborts, AtNodeEnd
<1>11. CASE DeleteNodeNoValues \/ Unlink
  BY <1>11, DeleteStepsKeep
<1>12. CASE DeleteFails \/ StoreRecordFails
  BY <1>12, KeptValues
  DEF RecordsInv, DeleteFails, StoreRecordFails, treeVars, valueVars
<1>13. CASE StoreValue \/ StoreDataFails
  BY <1>13, StoreKeeps
<1> QED
  BY <1>1, <1>2, <1>3, <1>4, <1>5, <1>6, <1>7, <1>8, <1>9, <1>10, <1>11,
     <1>12, <1>13
  DEF Next

(* The values of a node are those its list begins with. *)
LEMMA ValuesOfAre ==
  ASSUME NEW n \in Nodes, SoundRecords, Lengths
  PROVE  ToSet(ValuesOf(n)) = Vals(n)
<1>1. n \in DOMAIN nk /\ RecordTypes /\ References /\ nk[n].nr_values \in Nat
  BY HeldKinds DEF Nodes, SoundRecords
<1>2. CASE nk[n].nr_values = 0
  <2>1. 1 .. nk[n].nr_values = {}
    BY <1>2
  <2> QED BY <1>2, <2>1, ToSetNone DEF ValuesOf, Vals
<1>3. CASE nk[n].nr_values # 0
  <2>1. /\ nk[n].vallist \in DOMAIN vl
        /\ nk[n].nr_values <= Len(vl[nk[n].vallist])
    BY <1>1, <1>3 DEF References, Lengths
  <2>2. PICK s \in Seq(Nat) : s = vl[nk[n].vallist]
    BY <1>1, <2>1 DEF RecordTypes
  <2>3. PICK k \in 1 .. Len(s) : k = nk[n].nr_values
    BY <1>1, <1>3, <2>1, <2>2
  <2>4. PICK t : t = SubSeq(s, 1, k)
    OBVIOUS
  <2>5. t \in Seq(Nat) /\ Len(t) = k /\ \A i \in 1 .. k : t[i] = s[i]
    <3>1. 1 \in 1 .. (Len(s) + 1) /\ k \in (1 - 1) .. Len(s)
      BY <2>3
    <3>2. /\ t \in Seq(Nat) /\ Len(t) = k - 1 + 1
          /\ \A i \in 1 .. (k - 1 + 1) : t[i] = s[1 + i - 1]
      BY <2>4, <3>1, SubSeqFacts
    <3> QED BY <3>2, <2>3, SMTT(60)
  <2>6. ValuesOf(n) = t
    BY <1>3, <2>2, <2>3, <2>4 DEF ValuesOf
  <2>7. DOMAIN t = 1 .. k
    BY <2>5
  <2>8. ToSet(t) = {s[i] : i \in 1 .. k}
    BY <2>5, <2>7 DEF ToSet
  <2> QED BY <2>2, <2>3, <2>6, <2>8 DEF Vals
<1> QED BY <1>2, <1>3

(* The values of a node stay readable through every call for another node, *)
(* through a hivex_node_delete_child that fails half way and through a     *)
(* hivex_node_set_values for another node that fails half way: no block of *)
(* a value is freed or overwritten but by a call for the node it belongs   *)
(* to.                                                                     *)
THEOREM ValuesAgreeCorrect ==
  Spec /\ SoundRecords /\ SoundValues => []ValuesAgree
<1>1. ASSUME RecordsInv, SoundValues
      PROVE  ValuesAgree
  <2> SUFFICES ASSUME NEW n \in Nodes \ torn, ~(pc = "set" /\ n = target),
                      NEW v \in ToSet(ValuesOf(n))
               PROVE  v \in valid /\ Readable(v)
    BY DEF ValuesAgree
  <2>1. /\ n \in Nodes /\ n \in DOMAIN nk /\ SoundRecords /\ RecordTypes
        /\ References /\ Lengths
    BY <1>1 DEF Nodes, RecordsInv, SoundRecords, SoundValues
  <2>2. Vals(n) \cup Datas(n) \subseteq valid
    BY <1>1 DEF SoundValues, Whole, Unfinished
  <2>3. v \in Vals(n)
    BY <2>1, ValuesOfAre
  <2>4. v \in valid /\ v \in DOMAIN vk
    <3>1. Zero \notin valid /\ Vals(n) \subseteq DOMAIN vk \cup {Zero}
      BY <2>1, HeldKinds DEF RecordTypes, Allocated, Zero
    <3> QED BY <2>2, <2>3, <3>1
  <2>5. ~vk[v].inline => vk[v].data \in valid
    BY <2>2, <2>3, <2>4 DEF Datas
  <2> QED BY <2>4, <2>5 DEF Readable
<1> QED
  BY <1>1, InitStack, NextStack, InitRecords, NextRecords, InitSet, NextSet,
     NextValues, PTL
  DEF Spec

-----------------------------------------------------------------------------
(* Subkeys: the inductive invariant *)

(* A node whose children get_children can try to read: its lists have not  *)
(* been freed.                                                             *)
Live(n) == n \in Nodes /\ nk[n].nr_subkeys > 0 /\ nk[n].subkey_lf \in valid

(* The blocks a node keeps its lists in, and what they hold. *)
Listing(n) == ToSet(Lists(n)) \cup {nk[n].subkey_lf}

Content(n) == [i \in DOMAIN Lists(n) |-> lf[Lists(n)[i]]]

(* The place of every node's name in strcasecmp's order. *)
Key == [m \in DOMAIN nk |-> Fold(nk[m].name)]

KeyTypes ==
  /\ DOMAIN lf \cap DOMAIN ri = {}
  /\ \A l \in DOMAIN lf : ToSet(lf[l]) \subseteq DOMAIN nk
  /\ \A m \in DOMAIN nk : Fold(nk[m].name) \in Int

(* All lists of a node are in use, and none is used twice. *)
Shaped(n) ==
  /\ nk[n].subkey_lf \in DOMAIN lf \cup DOMAIN ri
  /\ ToSet(Lists(n)) \subseteq valid \cap DOMAIN lf
  /\ \A i, k \in DOMAIN Lists(n) : Lists(n)[i] = Lists(n)[k] => i = k

(* The keys increase through all lists of a node. *)
Sorted(n) == Ascending(Content(n), Key)

(* No two nodes share a list. *)
Separate ==
  \A m, n \in Nodes :
    Live(m) /\ Live(n) /\ m # n => Listing(m) \cap Listing(n) = {}

SoundKeys ==
  /\ KeyTypes
  /\ \A n \in Nodes : Live(n) => Shaped(n) /\ Sorted(n)
  /\ Separate

-----------------------------------------------------------------------------
(* Steps that leave the lists of a node alone *)

LEMMA AscendingSame ==
  ASSUME NEW ss, NEW key, NEW new, Ascending(ss, key),
         \A i \in 1 .. Len(ss) : \A j \in 1 .. Len(ss[i]) :
           new[ss[i][j]] = key[ss[i][j]]
  PROVE  Ascending(ss, new)
BY DEF Ascending

(* The lists of a node as sequences. *)
LEMMA ShapedLists ==
  ASSUME NEW n \in DOMAIN nk, RecordTypes, KeyTypes, Shaped(n)
  PROVE  /\ Lists(n) \in Seq(Nat) /\ DOMAIN Lists(n) = 1 .. Len(Lists(n))
         /\ Len(Lists(n)) \in Nat
         /\ \A i \in 1 .. Len(Lists(n)) :
              /\ Lists(n)[i] \in valid \cap DOMAIN lf
              /\ lf[Lists(n)[i]] \in Seq(Nat)
              /\ lf[Lists(n)[i]] \in Seq(DOMAIN nk)
         /\ Len(Content(n)) = Len(Lists(n))
         /\ \A i \in 1 .. Len(Lists(n)) : Content(n)[i] = lf[Lists(n)[i]]
         /\ Content(n) \in Seq(Seq(DOMAIN nk))
<1>1. Lists(n) \in Seq(Nat)
  <2>1. CASE nk[n].subkey_lf \in DOMAIN ri
    BY <2>1 DEF Lists, RecordTypes
  <2>2. CASE nk[n].subkey_lf \notin DOMAIN ri
    <3>1. nk[n].subkey_lf \in Nat
      BY <2>2 DEF Shaped, RecordTypes, Allocated
    <3> QED BY <2>2, <3>1 DEF Lists
  <2> QED BY <2>1, <2>2
<1>2. PICK L \in Seq(Nat) : L = Lists(n)
  BY <1>1
<1>3. ASSUME NEW i \in 1 .. Len(L)
      PROVE  /\ L[i] \in valid \cap DOMAIN lf
             /\ lf[L[i]] \in Seq(Nat) /\ lf[L[i]] \in Seq(DOMAIN nk)
  <2>1. L[i] \in ToSet(L)
    BY ToSetFacts
  <2>2. L[i] \in valid \cap DOMAIN lf
    BY <1>2, <2>1 DEF Shaped
  <2>3. PICK s \in Seq(Nat) : s = lf[L[i]]
    BY <2>2 DEF RecordTypes
  <2>4. ToSet(s) \subseteq DOMAIN nk
    BY <2>2, <2>3 DEF KeyTypes
  <2>5. \A j \in 1 .. Len(s) : s[j] \in DOMAIN nk
    BY <2>4, ToSetFacts
  <2>6. PICK D : D = DOMAIN nk
    OBVIOUS
  <2>7. s \in Seq(D)
    <3>1. \A j \in 1 .. Len(s) : s[j] \in D
      BY <2>5, <2>6
    <3> QED BY <3>1, SeqOver
  <2> QED BY <2>2, <2>3, <2>6, <2>7
<1>4. PICK C : C = [i \in 1 .. Len(L) |-> lf[L[i]]]
  OBVIOUS
<1>5. /\ C \in Seq(Seq(DOMAIN nk)) /\ Len(C) = Len(L)
      /\ \A i \in 1 .. Len(L) : C[i] = lf[L[i]]
  BY <1>3, <1>4
<1>6. Content(n) = C
  BY <1>2, <1>4 DEF Content
<1> QED BY <1>2, <1>3, <1>5, <1>6

NamesKept ==
  DOMAIN nk \subseteq DOMAIN nk' /\ \A m \in DOMAIN nk : nk'[m].name = nk[m].name

Untouched(m) ==
  /\ nk'[m].subkey_lf = nk[m].subkey_lf
  /\ nk[m].subkey_lf \in DOMAIN lf' \cup DOMAIN ri'
  /\ nk[m].subkey_lf \in DOMAIN ri <=> nk[m].subkey_lf \in DOMAIN ri'
  /\ nk[m].subkey_lf \in DOMAIN ri => ri'[nk[m].subkey_lf] = ri[nk[m].subkey_lf]
  /\ \A b \in ToSet(Lists(m)) : b \in DOMAIN lf' /\ b \in valid' /\ lf'[b] = lf[b]

LEMMA KeyKept ==
  ASSUME NamesKept
  PROVE  \A m \in DOMAIN nk : Key'[m] = Key[m]
BY DEF NamesKept, Key

LEMMA UntouchedKeeps ==
  ASSUME NEW m \in DOMAIN nk, RecordTypes, KeyTypes, NamesKept,
         Shaped(m), Sorted(m), Untouched(m)
  PROVE  Listing(m)' = Listing(m) /\ Shaped(m)' /\ Sorted(m)'
<1>1. Lists(m)' = Lists(m)
  BY DEF Untouched, Lists
<1>2. Listing(m)' = Listing(m)
  BY <1>1 DEF Listing, Untouched
<1>3. Shaped(m)'
  BY <1>1 DEF Shaped, Untouched
<1>4. PICK L \in Seq(Nat) : L = Lists(m) /\ L = Lists(m)'
  BY <1>1, ShapedLists
<1>5. \A i \in 1 .. Len(L) : lf'[L[i]] = lf[L[i]]
  BY <1>4, ToSetFacts DEF Untouched
<1>6. Content(m)' = Content(m)
  BY <1>4, <1>5 DEF Content
<1>7. PICK C \in Seq(Seq(DOMAIN nk)) : C = Content(m)
  BY ShapedLists
<1>8. \A i \in 1 .. Len(C) : \A j \in 1 .. Len(C[i]) : C[i][j] \in DOMAIN nk
  OBVIOUS
<1>9. PICK k : k = Key
  OBVIOUS
<1>10. PICK k2 : k2 = Key'
  OBVIOUS
<1>11. \A x \in DOMAIN nk : k2[x] = k[x]
  BY <1>9, <1>10, KeyKept
<1>12. Ascending(C, k)
  BY <1>7, <1>9 DEF Sorted
<1>13. Ascending(C, k2)
  BY <1>8, <1>11, <1>12, AscendingSame
<1>14. Sorted(m)'
  BY <1>6, <1>7, <1>10, <1>13 DEF Sorted
<1> QED BY <1>2, <1>3, <1>14

(* At most one node, c, gets other lists. *)
LEMMA OtherLists ==
  ASSUME NEW c, SoundRecords, SoundKeys, KeyTypes', NamesKept,
         \A m \in Nodes' : m # c /\ Live(m)' => Live(m) /\ Untouched(m),
         Live(c)' => /\ Shaped(c)' /\ Sorted(c)'
                     /\ \A m \in Nodes' : m # c /\ Live(m) /\ Live(m)' =>
                          Listing(c)' \cap Listing(m) = {}
  PROVE  SoundKeys'
<1>1. RecordTypes /\ KeyTypes /\ Separate
  BY DEF SoundRecords, SoundKeys
<1>2. ASSUME NEW m \in Nodes', m # c, Live(m)'
      PROVE  /\ Live(m) /\ m \in Nodes
             /\ Listing(m)' = Listing(m) /\ Shaped(m)' /\ Sorted(m)'
  <2>1. Live(m) /\ Untouched(m) /\ m \in Nodes /\ m \in DOMAIN nk
    BY <1>2 DEF Live, Nodes
  <2>2. Shaped(m) /\ Sorted(m)
    BY <2>1 DEF SoundKeys
  <2> QED BY <1>1, <2>1, <2>2, UntouchedKeeps
<1>3. ASSUME NEW m \in Nodes', Live(m)'
      PROVE  Shaped(m)' /\ Sorted(m)'
  BY <1>2, <1>3
<1>4. ASSUME NEW m \in Nodes', NEW n \in Nodes', Live(m)', Live(n)', m # n
      PROVE  Listing(m)' \cap Listing(n)' = {}
  <2>1. CASE m # c /\ n # c
    BY <1>1, <1>2, <1>4, <2>1 DEF Separate
  <2>2. CASE m = c
    BY <1>2, <1>4, <2>2
  <2>3. CASE n = c
    BY <1>2, <1>4, <2>3
  <2> QED BY <2>1, <2>2, <2>3
<1> QED BY <1>3, <1>4 DEF SoundKeys, Separate

(* No list is written, and none that its node can still read is freed. *)
LEMMA ListsKept ==
  ASSUME SoundRecords, SoundKeys, lf' = lf, ri' = ri,
         DOMAIN nk \subseteq DOMAIN nk',
         \A m \in DOMAIN nk : /\ nk'[m].name = nk[m].name
                              /\ nk'[m].nr_subkeys = nk[m].nr_subkeys
                              /\ nk'[m].subkey_lf = nk[m].subkey_lf,
         \A m \in DOMAIN nk' : m \in DOMAIN nk \/
                               (nk'[m].nr_subkeys = 0 /\ Fold(nk'[m].name) \in Int),
         \A b \in valid' : b \in valid \/ b >= next,
         \A m \in Nodes : Live(m) /\ Live(m)' => ToSet(Lists(m)) \subseteq valid'
  PROVE  SoundKeys'
<1>1. KeyTypes' /\ NamesKept
  BY DEF SoundKeys, KeyTypes, NamesKept
<1>2. ASSUME NEW m \in Nodes', Live(m)'
      PROVE  Live(m) /\ Untouched(m)
  <2>1. m \in DOMAIN nk' /\ m \in valid' /\ nk'[m].nr_subkeys > 0
        /\ nk'[m].subkey_lf \in valid'
    BY <1>2 DEF Live, Nodes
  <2>2. m \in DOMAIN nk
    BY <2>1
  <2>3. /\ next \in Nat /\ m \in 1 .. (next - 1)
        /\ nk[m].subkey_lf \in {-1, 0} \cup 1 .. (next - 1)
    BY <2>2 DEF SoundRecords, RecordTypes, References, Allocated, Offsets, None, Zero
  <2>4. m \in valid /\ nk[m].subkey_lf \in valid
    BY <2>1, <2>2, <2>3
  <2>5. Live(m) /\ m \in Nodes
    BY <2>1, <2>2, <2>4 DEF Live, Nodes
  <2>6. Shaped(m) /\ ToSet(Lists(m)) \subseteq valid'
    BY <1>2, <2>5 DEF SoundKeys
  <2>7. Untouched(m)
    BY <2>2, <2>6 DEF Untouched, Shaped
  <2> QED BY <2>5, <2>7
<1>3. ~Live(None)'
  <2>1. None \notin DOMAIN nk
    BY DEF SoundRecords, RecordTypes, Allocated, None
  <2>2. None \in Nodes' => nk'[None].nr_subkeys = 0
    BY <2>1 DEF Nodes
  <2> QED BY <2>2 DEF Live
<1> QED BY <1>1, <1>2, <1>3, OtherLists

-----------------------------------------------------------------------------
(* Calls that write no list *)

LEMMA SameKeys ==
  ASSUME SoundRecords, SoundKeys, nk' = nk, lf' = lf, ri' = ri,
         \A b \in valid : b \in valid',
         \A b \in valid' : b \in valid \/ b >= next
  PROVE  SoundKeys'
<1>1. \A m \in Nodes : Live(m) => ToSet(Lists(m)) \subseteq valid'
  BY DEF SoundKeys, Shaped
<1> QED BY <1>1, ListsKept

LEMMA RefuseKeys ==
  ASSUME RecordsInv, SoundKeys, Refuse \/ Abort
  PROVE  SoundKeys'
BY SameKeys DEF RecordsInv, Refuse, Abort, treeVars

LEMMA StoreKeys ==
  ASSUME RecordsInv, SoundKeys, StoreValue \/ StoreDataFails
  PROVE  SoundKeys'
<1>1. SoundRecords /\ next \in Nat
  BY DEF RecordsInv, SoundRecords, RecordTypes
<1>2. nk' = nk /\ lf' = lf /\ ri' = ri
  BY DEF StoreValue, StoreDataFails, treeVars
<1>3. CASE StoreValue
  <2>1. PICK k \in Int : valid' = valid \cup next .. k
    BY <1>1, <1>3 DEF StoreValue
  <2> QED BY <1>1, <1>2, <2>1, SameKeys
<1>4. CASE StoreDataFails
  <2>1. valid' = valid \cup {next}
    BY <1>4 DEF StoreDataFails
  <2> QED BY <1>1, <1>2, <2>1, SameKeys
<1> QED BY <1>3, <1>4

LEMMA AddChildFailsKeys ==
  ASSUME NEW p, NEW name \in Names, RecordsInv, SoundKeys, AddChildFails(p, name)
  PROVE  SoundKeys'
<1>1. SoundRecords /\ RecordTypes /\ next \in Nat /\ p \in DOMAIN nk
      /\ next \notin DOMAIN nk
  <2>1. SoundRecords /\ RecordTypes
    BY DEF RecordsInv, SoundRecords
  <2>2. p \in DOMAIN nk
    BY DEF AddChildFails, CanAdd, IsNode
  <2>3. next \in Nat /\ next \notin DOMAIN nk
    BY <2>1 DEF RecordTypes, Allocated
  <2> QED BY <2>1, <2>2, <2>3
<1>2. PICK r : r = NewNode(p, name, nk[p].sk)
  OBVIOUS
<1>3. r.nr_subkeys = 0 /\ r.name = name
  BY <1>1, <1>2, NewNodeFacts
<1>4. nk' = NewRecord(nk, next, r) /\ lf' = lf /\ ri' = ri
      /\ valid' = valid \cup {next}
  BY <1>2 DEF AddChildFails
<1>5. /\ DOMAIN nk' = DOMAIN nk \cup {next} /\ nk'[next] = r
      /\ \A m \in DOMAIN nk : nk'[m] = nk[m]
  BY <1>1, <1>4 DEF NewRecord
<1>6. Fold(name) \in Int
  BY HiveTreeAssumption
<1>7. \A m \in Nodes : Live(m) => ToSet(Lists(m)) \subseteq valid'
  BY <1>4 DEF SoundKeys, Shaped
<1>8. \A b \in valid' : b \in valid \/ b >= next
  BY <1>1, <1>4
<1> QED BY <1>1, <1>3, <1>4, <1>5, <1>6, <1>7, <1>8, ListsKept

(* Blocks that are freed are no lists, or they are all lists of n, which   *)
(* then cannot be read any more.                                           *)
LEMMA FreedKeys ==
  ASSUME NEW n \in Nodes, NEW F, SoundRecords, SoundKeys, lf' = lf, ri' = ri,
         DOMAIN nk' = DOMAIN nk,
         \A m \in DOMAIN nk : /\ nk'[m].name = nk[m].name
                              /\ nk'[m].nr_subkeys = nk[m].nr_subkeys
                              /\ nk'[m].subkey_lf = nk[m].subkey_lf,
         \A b \in valid : b \in valid' \/ b \in F,
         \A b \in valid' : b \in valid \/ b >= next,
         \/ F \cap (DOMAIN lf \cup DOMAIN ri) = {}
         \/ /\ ~Live(n)' /\ Live(n)
            /\ F \cap (DOMAIN lf \cup DOMAIN ri) \subseteq Listing(n)
  PROVE  SoundKeys'
<1>1. ASSUME NEW m \in Nodes, Live(m), Live(m)'
      PROVE  ToSet(Lists(m)) \subseteq valid'
  <2>1. Shaped(m)
    BY <1>1 DEF SoundKeys
  <2>2. ToSet(Lists(m)) \subseteq valid \cap DOMAIN lf
    BY <2>1 DEF Shaped
  <2>3. CASE F \cap (DOMAIN lf \cup DOMAIN ri) = {}
    BY <2>2, <2>3
  <2>4. CASE /\ ~Live(n)' /\ Live(n)
             /\ F \cap (DOMAIN lf \cup DOMAIN ri) \subseteq Listing(n)
    <3>1. m # n
      BY <1>1, <2>4
    <3>2. Listing(m) \cap Listing(n) = {}
      BY <1>1, <2>4, <3>1 DEF SoundKeys, Separate
    <3>3. ToSet(Lists(m)) \subseteq Listing(m)
      BY DEF Listing
    <3> QED BY <2>2, <2>4, <3>2, <3>3
  <2> QED BY <2>3, <2>4
<1> QED BY <1>1, ListsKept

(* The blocks of values are no lists. *)
LEMMA ValueBlocksNoLists ==
  ASSUME NEW n \in DOMAIN nk, SoundRecords, SoundValues, ValuesOK(n)
  PROVE  ToSet(ValueBlocks(n)) \cap (DOMAIN lf \cup DOMAIN ri) = {}
<1>1. ToSet(ValueBlocks(n)) \subseteq
           DOMAIN vl \cup DOMAIN vk \cup DOMAIN db \cup {Zero}
  BY ValueBlocksKinds DEF SoundRecords
<1>2. Zero \notin DOMAIN lf \cup DOMAIN ri
  BY DEF SoundRecords, RecordTypes, Allocated, Zero
<1> QED BY <1>1, <1>2 DEF SoundValues, ListsApart

LEMMA ClearValuesKeys ==
  ASSUME NEW n, NEW vs, RecordsInv, SoundValues, SoundKeys, ClearValues(n, vs)
  PROVE  SoundKeys'
<1>1. /\ SoundRecords /\ RecordTypes /\ n \in Nodes /\ n \in DOMAIN nk /\ ValuesOK(n)
  BY DEF RecordsInv, SoundRecords, ClearValues, CanClear, IsNode, Nodes
<1>2. PICK F : F = ToSet(ValueBlocks(n))
  OBVIOUS
<1>3. F \cap (DOMAIN lf \cup DOMAIN ri) = {}
  BY <1>1, <1>2, ValueBlocksNoLists
<1>4. /\ valid' = valid \ F /\ lf' = lf /\ ri' = ri
      /\ nk' = WithValues(n, 0, None)
  BY <1>2, NoValuesIs DEF ClearValues
<1>5. 0 \in Nat /\ None \in Int
  BY DEF None
<1>6. PICK g : g = WithValues(n, 0, None)
  OBVIOUS
<1>7. /\ DOMAIN g = DOMAIN nk /\ \A m \in DOMAIN nk : m # n => g[m] = nk[m]
      /\ g[n].name = nk[n].name /\ g[n].nr_subkeys = nk[n].nr_subkeys
      /\ g[n].subkey_lf = nk[n].subkey_lf
  BY <1>1, <1>5, <1>6, WithValuesFacts
<1>8. \A m \in DOMAIN nk : /\ nk'[m].name = nk[m].name
                           /\ nk'[m].nr_subkeys = nk[m].nr_subkeys
                           /\ nk'[m].subkey_lf = nk[m].subkey_lf
  BY <1>4, <1>6, <1>7
<1>9. DOMAIN nk' = DOMAIN nk /\ (\A b \in valid : b \in valid' \/ b \in F)
      /\ \A b \in valid' : b \in valid \/ b >= next
  BY <1>4, <1>6, <1>7
<1> QED BY <1>1, <1>3, <1>4, <1>8, <1>9, FreedKeys

LEMMA SetValuesBeginKeys ==
  ASSUME NEW n, NEW vs \in Seq(ValueType), RecordsInv, SoundValues, SoundKeys,
         SetValuesBegin(n, vs)
  PROVE  SoundKeys'
<1>0. SoundRecords
  BY DEF RecordsInv
<1>1. /\ n \in Nodes /\ n \in DOMAIN nk /\ ValuesOK(n) /\ next \in Nat \ {0}
      /\ DOMAIN nk' = DOMAIN nk
      /\ \A m \in DOMAIN nk : m # n => nk'[m] = nk[m]
      /\ nk'[n].name = nk[n].name
      /\ nk'[n].nr_subkeys = nk[n].nr_subkeys
      /\ nk'[n].subkey_lf = nk[n].subkey_lf
      /\ valid' = (valid \ ToSet(ValueBlocks(n))) \cup {next}
      /\ lf' = lf /\ ri' = ri
  BY <1>0, SetValuesBeginFacts
<1>2. PICK F : F = ToSet(ValueBlocks(n))
  OBVIOUS
<1>3. F \cap (DOMAIN lf \cup DOMAIN ri) = {}
  BY <1>0, <1>1, <1>2, ValueBlocksNoLists
<1>8. \A m \in DOMAIN nk : /\ nk'[m].name = nk[m].name
                           /\ nk'[m].nr_subkeys = nk[m].nr_subkeys
                           /\ nk'[m].subkey_lf = nk[m].subkey_lf
  BY <1>1
<1>9. (\A b \in valid : b \in valid' \/ b \in F)
      /\ \A b \in valid' : b \in valid \/ b >= next
  BY <1>1, <1>2
<1> QED BY <1>0, <1>1, <1>3, <1>8, <1>9, FreedKeys

(* The lists that delete_node frees. *)
LEMMA BlocksAreListing ==
  ASSUME NEW n \in Nodes, SoundRecords, ListsOK(n)
  PROVE  /\ nk[n].nr_subkeys = 0 => ToSet(Blocks(n)) = {}
         /\ nk[n].nr_subkeys # 0 => /\ Live(n) /\ ToSet(Blocks(n)) = Listing(n)
                                    /\ nk[n].subkey_lf \in ToSet(Blocks(n))
<1>1. n \in DOMAIN nk /\ nk[n].nr_subkeys \in Nat /\ RecordTypes
  BY DEF Nodes, SoundRecords, RecordTypes, NodeType
<1>2. CASE nk[n].nr_subkeys = 0
  BY <1>2, ToSetNone DEF Blocks
<1>3. CASE nk[n].nr_subkeys # 0
  <2>1. Live(n)
    BY <1>1, <1>3 DEF Live, ListsOK
  <2>2. PICK b : b = nk[n].subkey_lf
    OBVIOUS
  <2>3. PICK L \in Seq(Nat) : L = Lists(n)
    BY <1>1, <1>3, ListsType
  <2>4. CASE b \in DOMAIN ri
    <3>1. Blocks(n) = <<b>> \o L /\ b \in Nat
      BY <1>1, <1>3, <2>2, <2>3, <2>4 DEF Blocks, RecordTypes, Allocated
    <3>2. PICK t \in Seq(Nat) : t = <<b>>
      <4>1. b \in Nat
        BY <3>1
      <4>2. <<b>> \in Seq(Nat)
        BY <4>1
      <4> QED BY <4>2
    <3>3. \A x : x \in ToSet(t \o L) <=> x \in ToSet(t) \/ x \in ToSet(L)
      BY ToSetConcat
    <3>4. ToSet(t) = {b}
      BY <3>2, ToSetOne
    <3> QED BY <1>3, <2>1, <2>2, <2>3, <3>1, <3>2, <3>3, <3>4 DEF Listing
  <2>5. CASE b \notin DOMAIN ri
    <3>1. Blocks(n) = <<b>> /\ L = <<b>>
      BY <1>3, <2>2, <2>3, <2>5 DEF Blocks, Lists
    <3>2. ToSet(<<b>>) = {b}
      BY ToSetOne
    <3> QED BY <1>3, <2>1, <2>2, <2>3, <3>1, <3>2 DEF Listing
  <2> QED BY <2>4, <2>5
<1> QED BY <1>2, <1>3

LEMMA DeleteNodeNoValuesKeys ==
  ASSUME RecordsInv, SoundKeys, DeleteNodeNoValues
  PROVE  SoundKeys'
<1>1. PICK n : n = Top.node
  OBVIOUS
<1>2. /\ SoundRecords /\ n \in Nodes /\ ListsOK(n)
      /\ valid' = valid \ ToSet(Blocks(n)) /\ nk' = nk /\ lf' = lf /\ ri' = ri
  BY <1>1, Ending DEF RecordsInv, DeleteNodeNoValues, treeVars
<1>3. PICK F : F = ToSet(Blocks(n))
  OBVIOUS
<1>4. \/ F \cap (DOMAIN lf \cup DOMAIN ri) = {}
      \/ /\ ~Live(n)' /\ Live(n)
         /\ F \cap (DOMAIN lf \cup DOMAIN ri) \subseteq Listing(n)
  <2>1. CASE nk[n].nr_subkeys = 0
    BY <1>2, <1>3, <2>1, BlocksAreListing
  <2>2. CASE nk[n].nr_subkeys # 0
    <3>1. Live(n) /\ F = Listing(n) /\ nk[n].subkey_lf \in F
      BY <1>2, <1>3, <2>2, BlocksAreListing
    <3>2. ~Live(n)'
      BY <1>2, <1>3, <3>1 DEF Live
    <3> QED BY <3>1, <3>2
  <2> QED BY <2>1, <2>2
<1>5. (\A b \in valid : b \in valid' \/ b \in F)
      /\ \A b \in valid' : b \in valid \/ b >= next
  BY <1>2, <1>3
<1> QED BY <1>2, <1>4, <1>5, FreedKeys

(* Of the lists, delete_node frees those of the node. *)
LEMMA DeleteNodeLists ==
  ASSUME NEW n, NEW F, n = Top.node, RecordsInv, SoundValues, DeleteNode,
         F = ToSet(NodeBlocks(n)) \cup (IF LastUse(n) THEN {nk[n].sk} ELSE {})
  PROVE  F \cap (DOMAIN lf \cup DOMAIN ri) \subseteq ToSet(Blocks(n)) /\ n \in F
<1>1. /\ SoundRecords /\ n \in Nodes /\ n \in DOMAIN nk /\ ListsOK(n) /\ ValuesOK(n)
  BY Ending DEF RecordsInv, DeleteNode
<1>2. RecordTypes /\ References /\ KindsApart
  BY <1>1 DEF SoundRecords
<1>3. ToSet(NodeBlocks(n)) =
        ToSet(Blocks(n)) \cup ToSet(ValueBlocks(n)) \cup {n} \cup
        (IF nk[n].classname = None THEN {} ELSE {nk[n].classname})
  BY <1>1, <1>2, NodeBlocksType
<1>4. /\ nk[n].classname \in DOMAIN db \cup {None}
      /\ nk[n].sk \in DOMAIN sk
  BY <1>1, <1>2 DEF References, SoundRecords, SkInv, HasSk
<1>5. DOMAIN db \cap (DOMAIN lf \cup DOMAIN ri) = {}
  BY DEF SoundValues, ListsApart
<1>6. n \notin DOMAIN lf \cup DOMAIN ri /\ nk[n].sk \notin DOMAIN lf \cup DOMAIN ri
  BY <1>1, <1>2, <1>4 DEF KindsApart
<1>7. ToSet(ValueBlocks(n)) \cap (DOMAIN lf \cup DOMAIN ri) = {}
  BY <1>1, ValueBlocksNoLists
<1>8. ASSUME NEW x \in F, x \in DOMAIN lf \cup DOMAIN ri, x \notin ToSet(Blocks(n))
      PROVE  FALSE
  <2>1. x \in ToSet(NodeBlocks(n))
    BY <1>6, <1>8
  <2>2. x # n /\ x \notin ToSet(ValueBlocks(n))
    BY <1>6, <1>7, <1>8
  <2>3. x = nk[n].classname /\ nk[n].classname # None
    BY <1>3, <1>8, <2>1, <2>2
  <2> QED BY <1>4, <1>5, <1>8, <2>3
<1> QED BY <1>3, <1>8

LEMMA DeleteNodeKeys ==
  ASSUME RecordsInv, SoundValues, SoundKeys, DeleteNode
  PROVE  SoundKeys'
<1>1. PICK n : n = Top.node
  OBVIOUS
<1>2. /\ SoundRecords /\ RecordTypes /\ n \in Nodes /\ n \in DOMAIN nk
      /\ ListsOK(n) /\ lf' = lf /\ ri' = ri
  BY <1>1, Ending DEF RecordsInv, SoundRecords, DeleteNode
<1>3. PICK F : F = ToSet(NodeBlocks(n)) \cup
                   (IF LastUse(n) THEN {nk[n].sk} ELSE {})
  OBVIOUS
<1>4. valid' = valid \ F
  BY <1>1, <1>3 DEF DeleteNode
<1>5. PICK g : g = Emptied(n)
  OBVIOUS
<1>6. /\ DOMAIN g = DOMAIN nk /\ \A m \in DOMAIN nk : m # n => g[m] = nk[m]
      /\ g[n].name = nk[n].name /\ g[n].nr_subkeys = nk[n].nr_subkeys
      /\ g[n].subkey_lf = nk[n].subkey_lf
  BY <1>2, <1>5, EmptiedFacts
<1>7. nk' = g
  BY <1>1, <1>5 DEF DeleteNode, Emptied
<1>8. \A m \in DOMAIN nk : /\ nk'[m].name = nk[m].name
                           /\ nk'[m].nr_subkeys = nk[m].nr_subkeys
                           /\ nk'[m].subkey_lf = nk[m].subkey_lf
  BY <1>6, <1>7
<1>9. F \cap (DOMAIN lf \cup DOMAIN ri) \subseteq ToSet(Blocks(n)) /\ n \in F
  BY <1>1, <1>3, DeleteNodeLists
<1>10. ~Live(n)'
  BY <1>4, <1>9 DEF Live, Nodes
<1>11. \/ F \cap (DOMAIN lf \cup DOMAIN ri) = {}
       \/ /\ ~Live(n)' /\ Live(n)
          /\ F \cap (DOMAIN lf \cup DOMAIN ri) \subseteq Listing(n)
  BY <1>2, <1>9, <1>10, BlocksAreListing
<1>12. DOMAIN nk' = DOMAIN nk /\ (\A b \in valid : b \in valid' \/ b \in F)
       /\ \A b \in valid' : b \in valid \/ b >= next
  BY <1>4, <1>6, <1>7
<1> QED BY <1>2, <1>8, <1>11, <1>12, FreedKeys

-----------------------------------------------------------------------------
(* hivex_node_add_child puts a list at next + 1 *)

LEMMA LinkKeys ==
  ASSUME NEW p \in Nodes, NEW name \in Names, NEW direct \in BOOLEAN,
         NEW F, NEW l \in Seq(Nat), SoundRecords, SoundKeys,
         LinkNode(p, name, direct), lf' = NewRecord(lf, next + 1, l),
         valid' = (valid \ F) \cup {next, next + 1},
         \A x \in ToSet(l) : x \in DOMAIN nk \/ x = next,
         DOMAIN ri' = DOMAIN ri,
         \/ F = {} /\ ri' = ri
         \/ /\ Live(p) /\ F \subseteq Listing(p)
            /\ \A b \in DOMAIN ri : b \notin Listing(p) => ri'[b] = ri[b],
         Shaped(p)', Sorted(p)',
         \A b \in Listing(p)' : b = next + 1 \/ (Live(p) /\ b \in Listing(p))
  PROVE  SoundKeys'
<1>1. /\ RecordTypes /\ KeyTypes /\ Separate /\ References
      /\ p \in DOMAIN nk /\ next \in Nat
  BY DEF SoundRecords, SoundKeys, RecordTypes, Nodes
<1>2. /\ DOMAIN nk' = DOMAIN nk \cup {next}
      /\ nk'[next].name = name /\ nk'[next].nr_subkeys = 0
      /\ \A m \in DOMAIN nk : m # p => nk'[m] = nk[m]
      /\ nk'[p].name = nk[p].name
  <2>1. /\ DOMAIN nk' = DOMAIN nk \cup {next}
        /\ nk'[next] = NewNode(p, name, nk[p].sk)
        /\ \A m \in DOMAIN nk : m # p => nk'[m] = nk[m]
        /\ nk'[p].name = nk[p].name
    BY <1>1, LinkNodeFacts
  <2>2. /\ NewNode(p, name, nk[p].sk).name = name
        /\ NewNode(p, name, nk[p].sk).nr_subkeys = 0
    BY <1>1, NewNodeFacts
  <2> QED BY <2>1, <2>2
<1>3. /\ next \notin DOMAIN nk
      /\ next + 1 \notin DOMAIN lf /\ next + 1 \notin DOMAIN ri
      /\ DOMAIN lf \subseteq 1 .. (next - 1) /\ DOMAIN ri \subseteq 1 .. (next - 1)
      /\ DOMAIN nk \subseteq 1 .. (next - 1)
  BY <1>1 DEF RecordTypes, Allocated
<1>4. /\ DOMAIN lf' = DOMAIN lf \cup {next + 1} /\ lf'[next + 1] = l
      /\ \A b \in DOMAIN lf : lf'[b] = lf[b]
  BY <1>3 DEF NewRecord
<1>5. NamesKept
  BY <1>2 DEF NamesKept
<1>6. KeyTypes'
  <2>1. DOMAIN lf' \cap DOMAIN ri' = {}
    BY <1>1, <1>3, <1>4 DEF KeyTypes
  <2>2. \A b \in DOMAIN lf' : ToSet(lf'[b]) \subseteq DOMAIN nk'
    BY <1>1, <1>2, <1>4 DEF KeyTypes
  <2>3. \A m \in DOMAIN nk' : Fold(nk'[m].name) \in Int
    <3>1. Fold(name) \in Int
      BY HiveTreeAssumption
    <3> QED BY <1>1, <1>2, <3>1 DEF KeyTypes
  <2> QED BY <2>1, <2>2, <2>3 DEF KeyTypes
<1>7. ASSUME NEW m \in Nodes', m # p, Live(m)'
      PROVE  Live(m) /\ Untouched(m) /\ (Live(p) => Listing(m) \cap Listing(p) = {})
  <2>1. m \in DOMAIN nk' /\ m \in valid' /\ nk'[m].nr_subkeys > 0
        /\ nk'[m].subkey_lf \in valid'
    BY <1>7 DEF Live, Nodes
  <2>2. m \in DOMAIN nk /\ nk'[m] = nk[m]
    BY <1>2, <1>7, <2>1
  <2>3. /\ m \in 1 .. (next - 1)
        /\ nk[m].subkey_lf \in {-1, 0} \cup 1 .. (next - 1)
    BY <1>1, <1>3, <2>2 DEF References, Allocated, Offsets, None, Zero
  <2>4. m \in valid /\ nk[m].subkey_lf \in valid
    BY <1>1, <2>1, <2>2, <2>3
  <2>5. Live(m) /\ m \in Nodes
    BY <2>1, <2>2, <2>4 DEF Live, Nodes
  <2>6. Shaped(m)
    BY <2>5 DEF SoundKeys
  <2>7. Live(p) => Listing(m) \cap Listing(p) = {}
    BY <1>1, <1>7, <2>5 DEF Separate
  <2>8. nk[m].subkey_lf \in DOMAIN ri => ri'[nk[m].subkey_lf] = ri[nk[m].subkey_lf]
    <3>1. nk[m].subkey_lf \in Listing(m)
      BY DEF Listing
    <3> QED BY <2>7, <3>1
  <2>9. \A b \in ToSet(Lists(m)) : b \in DOMAIN lf' /\ b \in valid' /\ lf'[b] = lf[b]
    <3>1. ToSet(Lists(m)) \subseteq Listing(m) /\ ToSet(Lists(m)) \subseteq valid \cap DOMAIN lf
      BY <2>6 DEF Listing, Shaped
    <3> QED BY <1>4, <2>7, <3>1
  <2>10. Untouched(m)
    BY <1>4, <2>2, <2>6, <2>8, <2>9 DEF Untouched, Shaped
  <2> QED BY <2>5, <2>7, <2>10
<1>8. \A m \in Nodes' : m # p /\ Live(m) /\ Live(m)' => Listing(p)' \cap Listing(m) = {}
  <2> SUFFICES ASSUME NEW m \in Nodes', m # p, Live(m), Live(m)',
                      NEW b \in Listing(p)', b \in Listing(m)
               PROVE  FALSE
    OBVIOUS
  <2>1. Live(p) => Listing(m) \cap Listing(p) = {}
    BY <1>7
  <2>2. b = next + 1
    BY <2>1
  <2>3. Shaped(m) /\ m \in DOMAIN nk
    BY DEF SoundKeys, Live, Nodes
  <2>4. Listing(m) \subseteq DOMAIN lf \cup DOMAIN ri
    BY <2>3 DEF Listing, Shaped
  <2> QED BY <1>3, <2>2, <2>4
<1> QED BY <1>5, <1>6, <1>7, <1>8, OtherLists

LEMMA AddFirstChildKeys ==
  ASSUME NEW p, NEW name \in Names, RecordsInv, SoundKeys, AddFirstChild(p, name)
  PROVE  SoundKeys'
<1>0. SoundRecords
  BY DEF RecordsInv
<1>1. /\ p \in Nodes /\ p \in DOMAIN nk /\ RecordTypes /\ next \in Nat
      /\ next + 1 \notin DOMAIN ri /\ next + 1 \notin DOMAIN lf
  <2>1. p \in Nodes /\ p \in DOMAIN nk
    BY DEF AddFirstChild, CanAdd, IsNode, Nodes
  <2>2. RecordTypes
    BY <1>0 DEF SoundRecords
  <2> QED BY <2>1, <2>2 DEF RecordTypes, Allocated
<1>2. PICK l \in Seq(Nat) : l = <<next>>
  <2>1. <<next>> \in Seq(Nat)
    BY <1>1
  <2> QED BY <2>1
<1>3. /\ LinkNode(p, name, TRUE) /\ lf' = NewRecord(lf, next + 1, l)
      /\ valid' = (valid \ {}) \cup {next, next + 1} /\ ri' = ri
  BY <1>2 DEF AddFirstChild
<1>4. ToSet(l) = {next} /\ Len(l) = 1
  BY <1>2, ToSetOne
<1>5. nk'[p].subkey_lf = next + 1
  BY <1>1, <1>3, LinkNodeFacts
<1>6. Lists(p)' = <<next + 1>>
  BY <1>1, <1>3, <1>5 DEF Lists
<1>7. DOMAIN lf' = DOMAIN lf \cup {next + 1} /\ lf'[next + 1] = l
  BY <1>1, <1>3 DEF NewRecord
<1>8. PICK b : b = next + 1
  OBVIOUS
<1>9. PICK L : L = <<b>>
  OBVIOUS
<1>10. DOMAIN L = {1} /\ L[1] = b /\ ToSet(L) = {b} /\ Lists(p)' = L
  BY <1>6, <1>8, <1>9, ToSetOne
<1>11. Shaped(p)' /\ Listing(p)' = {b}
  BY <1>3, <1>5, <1>7, <1>8, <1>10 DEF Shaped, Listing
<1>12. Sorted(p)'
  <2>1. PICK C : C = [i \in {1} |-> l]
    OBVIOUS
  <2>2. Content(p)' = C
    BY <1>7, <1>8, <1>10, <2>1 DEF Content
  <2>3. Len(C) = 1 /\ C[1] = l
    <3>1. {1} = 1 .. 1
      OBVIOUS
    <3> QED BY <2>1, <3>1
  <2>4. PICK k : k = Key'
    OBVIOUS
  <2>5. Ascending(C, k)
    BY <1>4, <2>3 DEF Ascending, Before
  <2> QED BY <2>2, <2>4, <2>5 DEF Sorted
<1> QED BY <1>0, <1>1, <1>3, <1>4, <1>8, <1>11, <1>12, LinkKeys


(* The list that takes the new key is replaced where it stood. *)
LEMMA InsertHome ==
  ASSUME NEW p, NEW name \in Names, NEW h, NEW L, NEW e, SoundRecords, SoundKeys,
         InsertChild(p, name), h = Place(p, name).list, L = Lists(p), e = next + 1
  PROVE  /\ Lists(p)' = [L EXCEPT ![h] = e]
         /\ nk'[p].subkey_lf \in {e} \cup (DOMAIN ri \cap {nk[p].subkey_lf})
         /\ DOMAIN ri' = DOMAIN ri
         /\ \A b \in DOMAIN ri : b \notin Listing(p) => ri'[b] = ri[b]
<1>1. /\ p \in Nodes /\ p \in DOMAIN nk /\ RecordTypes /\ KeyTypes
      /\ ListsOK(p) /\ nk[p].nr_subkeys # 0
  <2>1. p \in Nodes /\ p \in DOMAIN nk
    BY DEF InsertChild, CanAdd, IsNode, Nodes
  <2>2. ListsOK(p) /\ nk[p].nr_subkeys > 0
    BY DEF InsertChild, ChildrenOK
  <2> QED BY <2>1, <2>2 DEF SoundRecords, SoundKeys
<1>2. Live(p) /\ Shaped(p)
  <2>1. nk[p].nr_subkeys > 0 /\ nk[p].subkey_lf \in valid
    BY <1>1 DEF InsertChild, ListsOK
  <2> QED BY <1>1, <2>1 DEF Live, SoundKeys
<1>3. PICK old : old = L[h]
  OBVIOUS
<1>4. PICK sub : sub = nk[p].subkey_lf
  OBVIOUS
<1>5. PICK d \in BOOLEAN : d = (sub = old)
  OBVIOUS
<1>6. PICK link : link = SelectInSeq(L, LAMBDA b : b = old)
  OBVIOUS
<1>7. /\ LinkNode(p, name, d)
      /\ ri' = IF d THEN ri ELSE [ri EXCEPT ![sub][link] = e]
  <2> DEFINE old0 == Lists(p)[Place(p, name).list]
             link0 == SelectInSeq(Lists(p), LAMBDA b : b = old0)
  <2>1. old0 = old
    BY <1>3
  <2>2. link0 = link
    BY <1>6, <2>1
  <2>3. /\ LinkNode(p, name, nk[p].subkey_lf = old0)
        /\ ri' = IF nk[p].subkey_lf = old0 THEN ri
                 ELSE [ri EXCEPT ![nk[p].subkey_lf][link0] = next + 1]
    BY DEF InsertChild
  <2> HIDE DEF old0, link0
  <2> QED BY <1>4, <1>5, <2>1, <2>2, <2>3
<1>8. L \in Seq(Nat) /\ DOMAIN L = 1 .. Len(L) /\ Len(L) \in Nat
      /\ h \in 1 .. Len(L) /\ old \in DOMAIN lf
  <2>1. L \in Seq(Nat) /\ h \in DOMAIN L /\ old \in DOMAIN lf
    BY <1>1, <1>3, ListsType, PlaceFacts
  <2> QED BY <2>1
<1>9. e \notin DOMAIN ri
  BY <1>1 DEF RecordTypes, Allocated
<1>10. \A i, k \in 1 .. Len(L) : L[i] = L[k] => i = k
  BY <1>2, <1>8 DEF Shaped
<1>11. CASE d
  <2>1. sub = old /\ ri' = ri /\ nk'[p].subkey_lf = e
    BY <1>1, <1>5, <1>7, <1>11, LinkNodeFacts
  <2>2. sub \notin DOMAIN ri
    BY <1>1, <1>8, <2>1 DEF KeyTypes
  <2>3. L = <<sub>> /\ Lists(p)' = <<e>>
    BY <1>4, <1>9, <2>1, <2>2 DEF Lists
  <2>4. h = 1
    BY <1>8, <2>3
  <2>5. [L EXCEPT ![h] = e] = <<e>>
    BY <2>3, <2>4
  <2> QED BY <2>1, <2>3, <2>5
<1>12. CASE ~d
  <2>1. sub # old /\ ri' = [ri EXCEPT ![sub][link] = e] /\ nk'[p].subkey_lf = sub
    BY <1>1, <1>4, <1>5, <1>7, <1>12, LinkNodeFacts
  <2>2. sub \in DOMAIN ri
    <3> SUFFICES ASSUME sub \notin DOMAIN ri PROVE FALSE
      OBVIOUS
    <3>1. L = <<sub>>
      BY <1>4 DEF Lists
    <3> QED BY <1>3, <1>8, <2>1, <3>1
  <2>3. L = ri[sub]
    BY <1>4, <2>2 DEF Lists
  <2>4. link = h
    <3> DEFINE I == {i \in 1 .. Len(L) : L[i] = old}
    <3>1. I = {h}
      BY <1>3, <1>8, <1>10
    <3>2. link = Min(I)
      BY <1>6, <3>1 DEF SelectInSeq
    <3>3. I \in SUBSET Nat /\ I # {}
      BY <3>1, <1>8
    <3>4. Min(I) \in I
      BY <3>3, MinNat
    <3> QED BY <3>1, <3>2, <3>4
  <2>5. DOMAIN ri' = DOMAIN ri /\ ri'[sub] = [L EXCEPT ![h] = e]
        /\ \A b \in DOMAIN ri : b # sub => ri'[b] = ri[b]
    BY <2>1, <2>2, <2>3, <2>4
  <2>6. Lists(p)' = [L EXCEPT ![h] = e]
    BY <2>1, <2>2, <2>5 DEF Lists
  <2>7. sub \in Listing(p)
    BY <1>4 DEF Listing
  <2> QED BY <1>4, <2>1, <2>2, <2>5, <2>6, <2>7
<1> QED BY <1>11, <1>12

(* The keys before a place are less than k, the others are greater. *)
Parted(ss, key, h, at, k) ==
  \A i \in 1 .. Len(ss) : \A j \in 1 .. Len(ss[i]) :
    /\ Before(i, j, h, at) => key[ss[i][j]] < k
    /\ ~Before(i, j, h, at) => k < key[ss[i][j]]

(* No child has the name of the new one, so each of them comes before the  *)
(* place found for it or after it.                                         *)
LEMMA PlaceOrder ==
  ASSUME NEW p, NEW name \in Names, NEW ss, NEW key, NEW h, NEW at,
         SoundRecords, SoundKeys, InsertChild(p, name),
         h = Place(p, name).list, at = Place(p, name).at,
         ss = Content(p), key = Key
  PROVE  /\ ss \in Seq(Seq(DOMAIN nk)) /\ Ascending(ss, key)
         /\ h \in 1 .. Len(ss) /\ at \in 1 .. (Len(ss[h]) + 1)
         /\ ss[h] = lf[Lists(p)[h]]
         /\ Parted(ss, key, h, at, Fold(name))
<1>1. /\ p \in Nodes /\ p \in DOMAIN nk /\ RecordTypes /\ KeyTypes
      /\ ListsOK(p) /\ nk[p].nr_subkeys # 0
  <2>1. p \in Nodes /\ p \in DOMAIN nk
    BY DEF InsertChild, CanAdd, IsNode, Nodes
  <2>2. ListsOK(p) /\ nk[p].nr_subkeys > 0
    BY DEF InsertChild, ChildrenOK
  <2> QED BY <2>1, <2>2 DEF SoundRecords, SoundKeys
<1>2. Live(p) /\ Shaped(p) /\ Sorted(p)
  <2>1. nk[p].nr_subkeys > 0 /\ nk[p].subkey_lf \in valid
    BY <1>1 DEF InsertChild, ListsOK
  <2> QED BY <1>1, <2>1 DEF Live, SoundKeys
<1>3. PICK L \in Seq(Nat) : L = Lists(p)
  BY <1>1, <1>2, ShapedLists
<1>4. PICK D : D = DOMAIN nk
  OBVIOUS
<1>5. /\ ss \in Seq(Seq(D)) /\ Len(ss) = Len(L) /\ DOMAIN L = 1 .. Len(L)
      /\ \A i \in 1 .. Len(L) : ss[i] = lf[L[i]]
  BY <1>1, <1>2, <1>3, <1>4, ShapedLists
<1>6. Ascending(ss, key)
  BY <1>2 DEF Sorted
<1>7. /\ h \in 1 .. Len(L) /\ at \in 1 .. (Len(ss[h]) + 1)
      /\ \A i \in 1 .. (h - 1) : After(L[i], name) = {}
      /\ \A j \in 1 .. (at - 1) : j \notin After(L[h], name)
      /\ \/ at \in After(L[h], name)
         \/ h = Len(L) /\ at = Len(ss[h]) + 1
  <2>1. /\ h \in DOMAIN L
        /\ at \in 1 .. (Len(lf[L[h]]) + 1)
        /\ \A i \in 1 .. (h - 1) : After(L[i], name) = {}
        /\ \A j \in 1 .. (at - 1) : j \notin After(L[h], name)
        /\ \/ at \in After(L[h], name)
           \/ h = Len(L) /\ at = Len(lf[L[h]]) + 1
    BY <1>1, <1>3, PlaceFacts
  <2> QED BY <1>5, <2>1
<1>8. PICK new \in Int : new = Fold(name)
  BY HiveTreeAssumption
<1>9. ASSUME NEW i \in 1 .. Len(ss), NEW j \in 1 .. Len(ss[i])
      PROVE  /\ key[ss[i][j]] \in Int /\ key[ss[i][j]] # new
             /\ j \in After(L[i], name) <=> new < key[ss[i][j]]
             /\ Len(ss[i]) \in Nat
  <2>1. ss[i] \in Seq(D) /\ ss[i][j] \in D
    BY <1>5
  <2>2. key[ss[i][j]] = Fold(nk[ss[i][j]].name) /\ key[ss[i][j]] \in Int
    BY <1>1, <1>4, <2>1 DEF Key, KeyTypes
  <2>3. ss[i][j] \in ToSet(Children(p))
    <3>1. Children(p) = FlattenSeq(ss)
      BY <1>1 DEF Children, Content
    <3>2. ss[i][j] \in ToSet(ss[i])
      BY <2>1, ToSetFacts
    <3>3. \A x : x \in ToSet(FlattenSeq(ss)) <=>
                   \E k \in 1 .. Len(ss) : x \in ToSet(ss[k])
      BY <1>5, FlattenMembers
    <3> QED BY <3>1, <3>2, <3>3
  <2>4. ~HasChild(p, name) /\ ChildrenOK(p)
    BY DEF InsertChild, CanAdd
  <2>5. key[ss[i][j]] # new
    BY <1>8, <2>2, <2>3, <2>4 DEF HasChild
  <2>6. j \in DOMAIN lf[L[i]] /\ ss[i] = lf[L[i]]
    BY <1>5, <2>1
  <2>7. j \in After(L[i], name) <=> new < key[ss[i][j]]
    BY <1>8, <2>2, <2>6 DEF After
  <2> QED BY <2>1, <2>2, <2>5, <2>7
<1>10. ASSUME NEW i \in 1 .. Len(ss), NEW j \in 1 .. Len(ss[i]), Before(i, j, h, at)
       PROVE  key[ss[i][j]] < new
  <2>1. j \notin After(L[i], name)
    <3>1. CASE i < h
      <4>1. i \in 1 .. (h - 1)
        BY <1>5, <1>7, <3>1
      <4> QED BY <1>7, <4>1
    <3>2. CASE i = h /\ j < at
      <4>1. j \in 1 .. (at - 1)
        BY <1>9, <1>7, <3>2
      <4> QED BY <1>7, <3>2, <4>1
    <3> QED BY <1>10, <3>1, <3>2 DEF Before
  <2>2. key[ss[i][j]] \in Int /\ key[ss[i][j]] # new /\ ~(new < key[ss[i][j]])
    BY <1>9, <2>1
  <2> QED BY <1>8, <2>2
<1>11. ASSUME NEW i \in 1 .. Len(ss), NEW j \in 1 .. Len(ss[i]), ~Before(i, j, h, at)
       PROVE  new < key[ss[i][j]]
  <2>1. i \in Nat /\ j \in Nat /\ h \in Nat /\ at \in Nat /\ Len(ss) \in Nat
        /\ i <= Len(ss) /\ j <= Len(ss[i]) /\ Len(ss[i]) \in Nat /\ j >= 1
    <3>1. Len(ss) \in Nat /\ Len(L) = Len(ss) /\ ss[i] \in Seq(D) /\ h \in 1 .. Len(L)
      BY <1>5, <1>7
    <3>2. ss[h] \in Seq(D) /\ at \in 1 .. (Len(ss[h]) + 1)
      BY <1>5, <1>7, <3>1
    <3>3. Len(ss[i]) \in Nat /\ Len(ss[h]) \in Nat
      BY <3>1, <3>2
    <3> QED BY <3>1, <3>2, <3>3
  <2>2. i > h \/ (i = h /\ j >= at)
    BY <1>11, <2>1 DEF Before
  <2>3. at \in After(L[h], name)
    <3>1. Len(L) = Len(ss)
      BY <1>5
    <3> QED BY <1>7, <2>1, <2>2, <3>1, SMTT(60)
  <2>4. at \in 1 .. Len(ss[h]) /\ h \in 1 .. Len(ss)
    <3>1. DOMAIN ss[h] = 1 .. Len(ss[h])
      BY <1>5, <1>7
    <3>2. at \in DOMAIN lf[L[h]]
      BY <2>3 DEF After
    <3> QED BY <1>5, <1>7, <3>1, <3>2
  <2>5. new < key[ss[h][at]] /\ key[ss[h][at]] \in Int
    BY <1>9, <2>3, <2>4
  <2>6. CASE i = h /\ j = at
    BY <2>5, <2>6
  <2>7. CASE ~(i = h /\ j = at)
    <3>1. Before(h, at, i, j)
      BY <2>1, <2>2, <2>7 DEF Before
    <3>2. key[ss[h][at]] < key[ss[i][j]]
      BY <1>6, <2>4, <3>1, <1>11 DEF Ascending
    <3>3. key[ss[i][j]] \in Int
      BY <1>9
    <3> QED BY <1>8, <2>5, <3>2, <3>3
  <2> QED BY <2>6, <2>7
<1>12. Parted(ss, key, h, at, Fold(name))
  BY <1>8, <1>10, <1>11 DEF Parted
<1> QED BY <1>3, <1>4, <1>5, <1>6, <1>7, <1>12

LEMMA InsertChildKeys ==
  ASSUME NEW p, NEW name \in Names, RecordsInv, SoundKeys, InsertChild(p, name)
  PROVE  SoundKeys'
<1>0. SoundRecords
  BY DEF RecordsInv
<1>1. /\ p \in Nodes /\ p \in DOMAIN nk /\ RecordTypes /\ KeyTypes
      /\ ListsOK(p) /\ nk[p].nr_subkeys # 0 /\ next \in Nat
  <2>1. p \in Nodes /\ p \in DOMAIN nk
    BY DEF InsertChild, CanAdd, IsNode, Nodes
  <2>2. ListsOK(p) /\ nk[p].nr_subkeys > 0
    BY DEF InsertChild, ChildrenOK
  <2> QED BY <1>0, <2>1, <2>2 DEF SoundRecords, SoundKeys, RecordTypes
<1>2. Live(p) /\ Shaped(p)
  <2>1. nk[p].nr_subkeys > 0 /\ nk[p].subkey_lf \in valid
    BY <1>1 DEF InsertChild, ListsOK
  <2> QED BY <1>1, <2>1 DEF Live, SoundKeys
<1>3. PICK L \in Seq(Nat) : L = Lists(p)
  BY <1>1, <1>2, ShapedLists
<1>4. PICK h : h = Place(p, name).list
  OBVIOUS
<1>5. PICK at : at = Place(p, name).at
  OBVIOUS
<1>6. PICK e \in Nat : e = next + 1
  BY <1>1
<1>7. PICK old : old = L[h]
  OBVIOUS
<1>8. PICK ss : ss = Content(p)
  OBVIOUS
<1>9. PICK key : key = Key
  OBVIOUS
<1>10. PICK D : D = DOMAIN nk
  OBVIOUS
<1>11. /\ ss \in Seq(Seq(D)) /\ Ascending(ss, key)
       /\ h \in 1 .. Len(ss) /\ at \in 1 .. (Len(ss[h]) + 1) /\ ss[h] = lf[old]
       /\ Parted(ss, key, h, at, Fold(name))
  BY <1>0, <1>3, <1>4, <1>5, <1>7, <1>8, <1>9, <1>10, PlaceOrder
<1>12. /\ Len(ss) = Len(L) /\ DOMAIN L = 1 .. Len(L) /\ Len(L) \in Nat
       /\ \A i \in 1 .. Len(L) : ss[i] = lf[L[i]]
       /\ \A i \in 1 .. Len(L) : L[i] \in valid \cap DOMAIN lf
       /\ \A i, k \in 1 .. Len(L) : L[i] = L[k] => i = k
  <2>1. /\ Len(ss) = Len(L) /\ DOMAIN L = 1 .. Len(L) /\ Len(L) \in Nat
        /\ \A i \in 1 .. Len(L) : ss[i] = lf[L[i]]
        /\ \A i \in 1 .. Len(L) : L[i] \in valid \cap DOMAIN lf
    BY <1>1, <1>2, <1>3, <1>8, ShapedLists
  <2> QED BY <1>2, <1>3, <2>1 DEF Shaped
<1>13. PICK T : T = [L EXCEPT ![h] = e]
  OBVIOUS
<1>14. /\ T \in Seq(Nat) /\ Len(T) = Len(L) /\ T[h] = e
       /\ \A i \in 1 .. Len(L) : i # h => T[i] = L[i]
  <2>1. h \in 1 .. Len(L)
    BY <1>11, <1>12
  <2>2. /\ T \in Seq(Nat) /\ Len(T) = Len(L)
        /\ h \in 1 .. Len(L) => T[h] = e
        /\ \A i \in 1 .. Len(L) : i # h => T[i] = L[i]
    <3>1. L \in Seq(Nat) /\ e \in Nat
      BY <1>3, <1>6
    <3>2. T \in Seq(Nat) /\ Len(T) = Len(L)
      <4>1. T = [j \in 1 .. Len(L) |-> IF j = h THEN e ELSE L[j]]
        BY <1>12, <1>13
      <4>2. \A j \in 1 .. Len(L) : L[j] \in Nat
        BY <3>1
      <4>3. Len(L) \in Nat
        BY <1>12
      <4> QED BY <3>1, <4>1, <4>2, <4>3
    <3>3. h \in 1 .. Len(L) => T[h] = e
      BY <1>12, <1>13
    <3>4. \A j \in 1 .. Len(L) : j # h => T[j] = L[j]
      BY <1>12, <1>13
    <3> QED BY <3>2, <3>3, <3>4
  <2> QED BY <2>1, <2>2
<1>15. /\ Lists(p)' = T
       /\ nk'[p].subkey_lf \in {e} \cup (DOMAIN ri \cap {nk[p].subkey_lf})
       /\ DOMAIN ri' = DOMAIN ri
       /\ \A b \in DOMAIN ri : b \notin Listing(p) => ri'[b] = ri[b]
  BY <1>0, <1>3, <1>4, <1>6, <1>13, InsertHome
<1>16. PICK l : l = InsertAt(ss[h], at, next)
  OBVIOUS
<1>17. PICK d \in BOOLEAN : d = (nk[p].subkey_lf = old)
  OBVIOUS
<1>18. /\ LinkNode(p, name, d) /\ lf' = NewRecord(lf, next + 1, l)
       /\ valid' = (valid \ {old}) \cup {next, next + 1}
  <2> DEFINE old0 == Lists(p)[Place(p, name).list]
  <2>1. old0 = old
    BY <1>3, <1>4, <1>7
  <2>2. /\ LinkNode(p, name, nk[p].subkey_lf = old0)
        /\ lf' = NewRecord(lf, next + 1, InsertAt(lf[old0], Place(p, name).at, next))
        /\ valid' = (valid \ {old0}) \cup {next, next + 1}
    BY DEF InsertChild
  <2> HIDE DEF old0
  <2> QED BY <1>5, <1>11, <1>16, <1>17, <2>1, <2>2
<1>19. l \in Seq(Nat) /\ With(l, ss[h], at, next)
       /\ \A x \in ToSet(l) : x \in DOMAIN nk \/ x = next
  <2>1. PICK s \in Seq(Nat) : s = ss[h]
    BY <1>1, <1>7, <1>11, <1>12 DEF RecordTypes
  <2>2. PICK f \in Nat : f = next
    BY <1>1
  <2>3. PICK i \in 1 .. (Len(s) + 1) : i = at
    BY <1>11, <2>1
  <2>4. /\ InsertAt(s, i, f) \in Seq(Nat)
        /\ ToSet(InsertAt(s, i, f)) = ToSet(s) \cup {f}
        /\ With(InsertAt(s, i, f), s, i, f)
    <3>1. InsertAt(s, i, f) \in Seq(Nat)
      BY InsertAtFacts
    <3>2. ToSet(InsertAt(s, i, f)) = ToSet(s) \cup {f}
      BY InsertAtMembers
    <3>3. With(InsertAt(s, i, f), s, i, f)
      BY InsertAtWith
    <3> QED BY <3>1, <3>2, <3>3
  <2>5. ToSet(s) \subseteq D
    <3>1. s \in Seq(D)
      BY <1>11, <2>1
    <3> QED BY <3>1, ToSetFacts
  <2> QED BY <1>10, <1>16, <2>1, <2>2, <2>3, <2>4, <2>5
<1>20. /\ DOMAIN lf' = DOMAIN lf \cup {e} /\ lf'[e] = l
       /\ \A b \in DOMAIN lf : lf'[b] = lf[b]
       /\ e \notin DOMAIN lf /\ e \notin DOMAIN ri
  <2>1. e \notin DOMAIN lf /\ e \notin DOMAIN ri
    BY <1>1, <1>6 DEF RecordTypes, Allocated
  <2> QED BY <1>6, <1>18, <2>1 DEF NewRecord
<1>21. ASSUME NEW i \in 1 .. Len(T)
       PROVE  /\ T[i] \in valid' \cap DOMAIN lf'
              /\ lf'[T[i]] = IF i = h THEN l ELSE ss[i]
              /\ T[i] = e \/ T[i] \in ToSet(L)
  <2>1. CASE i = h
    BY <1>6, <1>14, <1>18, <1>20, <2>1
  <2>2. CASE i # h
    <3>1. T[i] = L[i] /\ L[i] \in valid \cap DOMAIN lf /\ i \in 1 .. Len(L)
      BY <1>12, <1>14, <2>2
    <3>2. L[i] # old
      BY <1>7, <1>11, <1>12, <2>2, <3>1
    <3>3. L[i] \in ToSet(L)
      BY <3>1, ToSetFacts
    <3> QED BY <1>12, <1>18, <1>20, <2>2, <3>1, <3>2, <3>3
  <2> QED BY <2>1, <2>2
<1>22. \A b \in ToSet(T) : b \in valid' \cap DOMAIN lf' /\ (b = e \/ b \in ToSet(L))
  <2>1. \A b \in ToSet(T) : \E i \in 1 .. Len(T) : b = T[i]
    BY <1>14, ToSetFacts
  <2> QED BY <1>21, <2>1
<1>23. \A i, k \in 1 .. Len(T) : T[i] = T[k] => i = k
  <2> SUFFICES ASSUME NEW i \in 1 .. Len(L), NEW k \in 1 .. Len(L), T[i] = T[k],
                      i # k
               PROVE  FALSE
    BY <1>14
  <2>1. L[i] # e /\ L[k] # e /\ L[i] # L[k]
    BY <1>12, <1>20
  <2>2. (i # h => T[i] = L[i]) /\ (k # h => T[k] = L[k]) /\ T[h] = e
    BY <1>14
  <2> QED BY <2>1, <2>2
<1>24. Shaped(p)'
  <2>1. nk'[p].subkey_lf \in DOMAIN lf' \cup DOMAIN ri'
    BY <1>15, <1>20
  <2>2. DOMAIN T = 1 .. Len(T)
    BY <1>14
  <2>3. ToSet(Lists(p)') \subseteq valid' \cap DOMAIN lf'
    BY <1>15, <1>22
  <2>4. \A i, k \in DOMAIN Lists(p)' : Lists(p)'[i] = Lists(p)'[k] => i = k
    BY <1>15, <1>23, <2>2
  <2> QED BY <2>1, <2>3, <2>4 DEF Shaped
<1>25. \A b \in Listing(p)' : b = e \/ b \in Listing(p)
  BY <1>3, <1>15, <1>22 DEF Listing
<1>26. Sorted(p)'
  <2>1. PICK new : new = Key'
    OBVIOUS
  <2>2. new[next] = Fold(name) /\ \A x \in D : new[x] = key[x]
    <3>1. /\ DOMAIN nk' = DOMAIN nk \cup {next}
          /\ nk'[next].name = name
          /\ \A m \in DOMAIN nk : nk'[m].name = nk[m].name
      <4>1. /\ DOMAIN nk' = DOMAIN nk \cup {next}
            /\ nk'[next] = NewNode(p, name, nk[p].sk)
            /\ \A m \in DOMAIN nk : m # p => nk'[m] = nk[m]
            /\ nk'[p].name = nk[p].name
        BY <1>1, <1>18, LinkNodeFacts
      <4>2. NewNode(p, name, nk[p].sk).name = name
        BY <1>1, NewNodeFacts
      <4> QED BY <4>1, <4>2
    <3> QED BY <1>9, <1>10, <2>1, <3>1 DEF Key
  <2>3. PICK tt : tt = [i \in 1 .. Len(T) |-> IF i = h THEN l ELSE ss[i]]
    OBVIOUS
  <2>4. Content(p)' = tt
    <3>1. DOMAIN T = 1 .. Len(T)
      BY <1>14
    <3> QED BY <1>15, <1>21, <2>3, <3>1 DEF Content
  <2>5. PICK n \in Nat : n = Len(ss)
    BY <1>12
  <2>6. Len(tt) = n /\ tt[h] = l /\ \A i \in 1 .. n : i # h => tt[i] = ss[i]
    <3>1. Len(T) = n
      BY <1>12, <1>14, <2>5
    <3>2. tt = [i \in 1 .. n |-> IF i = h THEN l ELSE ss[i]]
      BY <2>3, <3>1
    <3> QED BY <1>11, <2>5, <3>2
  <2>7. Ascending(ss, new)
    <3>1. \A i \in 1 .. Len(ss) : \A j \in 1 .. Len(ss[i]) : ss[i][j] \in D
      BY <1>11
    <3>2. \A i \in 1 .. Len(ss) : \A j \in 1 .. Len(ss[i]) :
            new[ss[i][j]] = key[ss[i][j]]
      BY <2>2, <3>1
    <3>3. Ascending(ss, key)
      BY <1>11
    <3> QED BY <3>2, <3>3, AscendingSame
  <2>8. /\ \A i \in 1 .. n : \A j \in 1 .. Len(ss[i]) :
             Before(i, j, h, at) => new[ss[i][j]] < new[next]
        /\ \A i \in 1 .. n : \A j \in 1 .. Len(ss[i]) :
             ~Before(i, j, h, at) => new[next] < new[ss[i][j]]
    <3>1. \A i \in 1 .. n : \A j \in 1 .. Len(ss[i]) : ss[i][j] \in D
      BY <1>11, <2>5
    <3> QED BY <1>11, <2>2, <2>5, <3>1 DEF Parted
  <2>9. PICK f : f = next
    OBVIOUS
  <2>10. h \in Nat /\ at \in Nat
    BY <1>11
  <2>11. With(tt[h], ss[h], at, f)
    BY <1>19, <2>6, <2>9
  <2>12. Ascending(tt, new)
    BY <2>5, <2>6, <2>7, <2>8, <2>9, <2>10, <2>11, InsertAscends
  <2> QED BY <2>1, <2>4, <2>12 DEF Sorted
<1>27. {old} \subseteq Listing(p)
  <2>1. old \in ToSet(L)
    <3>1. h \in 1 .. Len(L)
      BY <1>11, <1>12
    <3> QED BY <1>3, <1>7, <3>1, ToSetFacts
  <2> QED BY <1>3, <2>1 DEF Listing
<1> QED
  BY <1>0, <1>1, <1>2, <1>6, <1>15, <1>18, <1>19, <1>24, <1>25, <1>26, <1>27,
     LinkKeys

(* hivex_node_delete_child takes a key out of one list of the parent. *)
LEMMA UnlinkKeys ==
  ASSUME RecordsInv, SoundKeys, Unlink
  PROVE  SoundKeys'
<1>0. SoundRecords /\ RecordTypes /\ KeyTypes
  BY DEF RecordsInv, SoundRecords, SoundKeys
<1>1. PICK p : p = Top.node
  OBVIOUS
<1>2. PICK h : h = HomeAt(p)
  OBVIOUS
<1>3. PICK L : L = Lists(p)
  OBVIOUS
<1>4. PICK c : c = L[h]
  OBVIOUS
<1>5. PICK e : e = target
  OBVIOUS
<1>6. /\ p \in Nodes /\ p \in DOMAIN nk /\ ListsOK(p) /\ e \in ToSet(Children(p))
      /\ c \in valid \cap DOMAIN lf
      /\ DOMAIN lf' = DOMAIN lf
      /\ \A b \in DOMAIN lf : b # c => lf'[b] = lf[b]
      /\ lf'[c] = RemoveFirst(lf[c], e)
      /\ \A b \in DOMAIN lf : ToSet(lf'[b]) \subseteq ToSet(lf[b])
      /\ DOMAIN nk' = DOMAIN nk
      /\ \A m \in DOMAIN nk : m # p => nk'[m] = nk[m]
      /\ nk[p].nr_subkeys > 0
      /\ nk'[p].name = nk[p].name /\ nk'[p].subkey_lf = nk[p].subkey_lf
  BY <1>0, <1>1, <1>2, <1>3, <1>4, <1>5, UnlinkFacts
<1>7. valid' = valid /\ ri' = ri
  BY DEF Unlink
<1>8. h \in DOMAIN L /\ e \in ToSet(lf[c])
  BY <1>0, <1>2, <1>3, <1>4, <1>5, <1>6, HomeFacts
<1>9. Live(p) /\ Shaped(p) /\ Sorted(p)
  <2>1. nk[p].subkey_lf \in valid
    BY <1>6 DEF ListsOK
  <2> QED BY <1>6, <2>1 DEF Live, SoundKeys
<1>10. PICK D : D = DOMAIN nk
  OBVIOUS
<1>11. PICK ss : ss = Content(p)
  OBVIOUS
<1>12. /\ L \in Seq(Nat) /\ DOMAIN L = 1 .. Len(L) /\ Len(L) \in Nat
       /\ Len(ss) = Len(L) /\ ss \in Seq(Seq(D))
       /\ \A i \in 1 .. Len(L) : ss[i] = lf[L[i]] /\ L[i] \in valid \cap DOMAIN lf
  BY <1>0, <1>3, <1>6, <1>9, <1>10, <1>11, ShapedLists
<1>13. \A i, k \in 1 .. Len(L) : L[i] = L[k] => i = k
  BY <1>3, <1>9, <1>12 DEF Shaped
<1>14. Lists(p)' = L /\ Listing(p)' = Listing(p)
  <2>1. Lists(p)' = L
    BY <1>3, <1>6, <1>7 DEF Lists
  <2> QED BY <1>3, <1>6, <2>1 DEF Listing
<1>15. Shaped(p)'
  BY <1>3, <1>6, <1>7, <1>9, <1>14 DEF Shaped
<1>16. NamesKept
  BY <1>6 DEF NamesKept
<1>17. KeyTypes'
  <2>1. \A b \in DOMAIN lf' : ToSet(lf'[b]) \subseteq DOMAIN nk'
    BY <1>0, <1>6 DEF KeyTypes
  <2>2. \A m \in DOMAIN nk' : nk'[m].name = nk[m].name
    BY <1>6
  <2> QED BY <1>0, <1>6, <1>7, <2>1, <2>2 DEF KeyTypes
<1>18. Sorted(p)'
  <2>1. PICK r : r = RemoveFirst(lf[c], e)
    OBVIOUS
  <2>2. h \in 1 .. Len(L) /\ ss[h] = lf[c]
    BY <1>4, <1>8, <1>12
  <2>3. PICK at \in Nat : Without(r, ss[h], at)
    <3>1. PICK s \in Seq(D) : s = ss[h]
      BY <1>12, <2>2
    <3>2. e \in ToSet(s)
      BY <1>8, <2>2, <3>1
    <3>3. \E k \in Nat : Without(RemoveFirst(s, e), s, k)
      BY <3>2, RemoveFirstWithout, SMTT(60)
    <3> QED BY <2>1, <2>2, <3>1, <3>3
  <2>4. PICK n \in Nat : n = Len(ss)
    BY <1>12
  <2>5. PICK tt : tt = [i \in 1 .. n |-> IF i = h THEN r ELSE ss[i]]
    OBVIOUS
  <2>6. Len(tt) = n /\ tt[h] = r /\ \A i \in 1 .. n : i # h => tt[i] = ss[i]
    BY <1>12, <2>2, <2>4, <2>5
  <2>7. \A i \in 1 .. Len(L) : lf'[L[i]] = IF i = h THEN r ELSE ss[i]
    <3> SUFFICES ASSUME NEW i \in 1 .. Len(L)
                 PROVE  lf'[L[i]] = IF i = h THEN r ELSE ss[i]
      OBVIOUS
    <3>1. i # h => L[i] # c
      BY <1>4, <1>13, <2>2
    <3> QED BY <1>4, <1>6, <1>12, <2>1, <3>1
  <2>8. Content(p)' = tt
    BY <1>12, <1>14, <2>4, <2>5, <2>7 DEF Content
  <2>9. PICK key : key = Key
    OBVIOUS
  <2>10. PICK new : new = Key'
    OBVIOUS
  <2>11. \A x \in D : new[x] = key[x]
    BY <1>10, <1>16, <2>9, <2>10, KeyKept
  <2>12. Ascending(ss, key)
    BY <1>9, <1>11, <2>9 DEF Sorted
  <2>13. Ascending(ss, new)
    <3>1. \A i \in 1 .. Len(ss) : \A j \in 1 .. Len(ss[i]) : ss[i][j] \in D
      BY <1>12
    <3>2. \A i \in 1 .. Len(ss) : \A j \in 1 .. Len(ss[i]) :
            new[ss[i][j]] = key[ss[i][j]]
      BY <2>11, <3>1
    <3> QED BY <2>12, <3>2, AscendingSame
  <2>14. h \in Nat /\ Without(tt[h], ss[h], at)
    BY <1>12, <2>2, <2>3, <2>6
  <2>15. Ascending(tt, new)
    BY <2>3, <2>4, <2>6, <2>13, <2>14, RemoveAscends
  <2> QED BY <2>8, <2>10, <2>15 DEF Sorted
<1>19. ASSUME NEW m \in Nodes', m # p, Live(m)'
       PROVE  Live(m) /\ Untouched(m) /\ Listing(m) \cap Listing(p) = {}
  <2>1. m \in Nodes /\ m \in DOMAIN nk /\ nk'[m] = nk[m]
    BY <1>6, <1>7, <1>19 DEF Nodes
  <2>2. Live(m) /\ Shaped(m)
    BY <1>7, <1>19, <2>1 DEF Live, SoundKeys
  <2>3. Listing(m) \cap Listing(p) = {}
    BY <1>6, <1>9, <1>19, <2>1, <2>2 DEF SoundKeys, Separate
  <2>4. c \in Listing(p)
    <3>1. c \in ToSet(L)
      BY <1>4, <1>8, <1>12, ToSetFacts
    <3> QED BY <1>3, <3>1 DEF Listing
  <2>5. \A b \in ToSet(Lists(m)) : b \in DOMAIN lf' /\ b \in valid' /\ lf'[b] = lf[b]
    <3>1. ToSet(Lists(m)) \subseteq Listing(m) /\ ToSet(Lists(m)) \subseteq valid \cap DOMAIN lf
      BY <2>2 DEF Listing, Shaped
    <3> QED BY <1>6, <1>7, <2>3, <2>4, <3>1
  <2>6. Untouched(m)
    BY <1>6, <1>7, <2>1, <2>2, <2>5 DEF Untouched, Shaped
  <2> QED BY <2>2, <2>3, <2>6
<1> QED BY <1>0, <1>14, <1>15, <1>16, <1>17, <1>18, <1>19, OtherLists

-----------------------------------------------------------------------------
(* The theorem *)

LEMMA SetValuesKeys ==
  ASSUME NEW n, NEW vs \in Seq(ValueType), RecordsInv, SoundValues, SoundKeys,
         SetValues(n, vs)
  PROVE  SoundKeys'
<1>1. CASE SetValuesRefused(n) \/ SetValuesAborts(n)
  BY <1>1, RefuseKeys DEF SetValuesRefused, SetValuesAborts
<1> QED BY <1>1, ClearValuesKeys, SetValuesBeginKeys DEF SetValues

LEMMA NextKeys ==
  RecordsInv /\ SoundValues /\ SoundKeys /\ [Next]_vars => SoundKeys'
<1> SUFFICES ASSUME RecordsInv, SoundValues, SoundKeys, [Next]_vars
             PROVE  SoundKeys'
  OBVIOUS
<1>1. CASE UNCHANGED vars \/ VisitNode
  BY <1>1, SameKeys DEF RecordsInv, VisitNode, vars, treeVars
<1>2. CASE OutOfMemory
  BY <1>2, RefuseKeys DEF OutOfMemory
<1>3. ASSUME NEW n \in handles, NEW name \in Names,
             \/ AddChildRefused(n, name) \/ AddChildNoSk(n, name)
             \/ AddChildFails(n, name) \/ AddFirstChild(n, name)
             \/ InsertChild(n, name)
      PROVE  SoundKeys'
  <2>1. CASE AddChildRefused(n, name)
    BY <2>1, RefuseKeys DEF AddChildRefused
  <2> QED BY <1>3, <2>1, NoSkNever, AddChildFailsKeys, AddFirstChildKeys, InsertChildKeys
<1>4. ASSUME NEW n \in handles, DeleteRefused(n) \/ SetValueRefused(n)
      PROVE  SoundKeys'
  BY <1>4, RefuseKeys DEF DeleteRefused, SetValueRefused
<1>5. ASSUME NEW n \in handles, DeleteBegin(n)
      PROVE  SoundKeys'
  BY <1>5, SameKeys DEF RecordsInv, DeleteBegin, treeVars
<1>6. ASSUME NEW n \in handles, NEW vs \in ValueLists, SetValues(n, vs)
      PROVE  SoundKeys'
  <2>1. vs \in Seq(ValueType)
    BY HiveTreeAssumption
  <2> QED BY <1>6, <2>1, SetValuesKeys
<1>7. ASSUME NEW n \in handles, NEW v \in Values, SetValue(n, v)
      PROVE  SoundKeys'
  <2>1. Replaced(n, v) \in Seq(ValueType)
    BY <1>7, ReplacedType, HiveTreeAssumption DEF SetValue, RecordsInv
  <2> QED BY <1>7, <2>1, SetValuesKeys DEF SetValue
<1>8. CASE DeleteNode
  BY <1>8, DeleteNodeKeys
<1>9. CASE DeleteNodeNoSk
  BY <1>9, DeleteNoSkNever
<1>10. CASE DeleteNodeAborts
  BY <1>10, RefuseKeys DEF DeleteNodeAborts, AtNodeEnd
<1>11. CASE DeleteNodeNoValues \/ Unlink
  BY <1>11, DeleteNodeNoValuesKeys, UnlinkKeys
<1>12. CASE DeleteFails \/ StoreRecordFails
  BY <1>12, SameKeys DEF RecordsInv, DeleteFails, StoreRecordFails, treeVars
<1>13. CASE StoreValue \/ StoreDataFails
  BY <1>13, StoreKeys
<1> QED
  BY <1>1, <1>2, <1>3, <1>4, <1>5, <1>6, <1>7, <1>8, <1>9, <1>10, <1>11,
     <1>12, <1>13
  DEF Next

(* "the subkeys in lh-records must be kept sorted": on a hive of any size  *)
(* that is sorted when it is opened, whatever names are added in whatever  *)
(* order, through deletions and calls that fail half way, the names of the *)
(* children of a node increase through all its lists.                      *)
THEOREM KeysSortedCorrect ==
  Spec /\ SoundRecords /\ SoundValues /\ SoundKeys => []KeysSorted
<1>1. ASSUME RecordsInv, SoundKeys
      PROVE  KeysSorted
  <2> SUFFICES ASSUME NEW n \in Nodes, nk[n].nr_subkeys > 0,
                      nk[n].subkey_lf \in valid,
                      NEW i \in DOMAIN Children(n), NEW j \in DOMAIN Children(n),
                      i < j
               PROVE  Fold(nk[Children(n)[i]].name) < Fold(nk[Children(n)[j]].name)
    BY DEF KeysSorted
  <2>1. /\ n \in DOMAIN nk /\ RecordTypes /\ KeyTypes /\ Live(n)
    BY <1>1 DEF Nodes, RecordsInv, SoundRecords, SoundKeys, Live
  <2>2. Shaped(n) /\ Sorted(n)
    BY <1>1, <2>1 DEF SoundKeys
  <2>3. PICK D : D = DOMAIN nk
    OBVIOUS
  <2>4. PICK ss \in Seq(Seq(D)) : ss = Content(n)
    BY <2>1, <2>2, <2>3, ShapedLists
  <2>5. PICK key : key = Key
    OBVIOUS
  <2>6. Ascending(ss, key)
    BY <2>2, <2>4, <2>5 DEF Sorted
  <2>7. PICK s : s = FlattenSeq(ss)
    OBVIOUS
  <2>8. s \in Seq(D)
    BY <2>4, <2>7, FlattenType
  <2>9. \A a, b \in 1 .. Len(s) : a < b => key[s[a]] < key[s[b]]
    BY <2>4, <2>6, <2>7, FlattenAscends
  <2>10. Children(n) = s
    <3>1. nk[n].nr_subkeys # 0
      OBVIOUS
    <3> QED BY <2>4, <2>7, <3>1 DEF Children, Content
  <2>11. i \in 1 .. Len(s) /\ j \in 1 .. Len(s)
    BY <2>8, <2>10
  <2>12. key[s[i]] < key[s[j]] /\ s[i] \in D /\ s[j] \in D
    BY <2>8, <2>9, <2>11
  <2> QED BY <2>3, <2>5, <2>10, <2>12 DEF Key
<1> QED
  BY <1>1, InitStack, NextStack, InitRecords, NextRecords, InitSet, NextSet,
     NextValues, NextKeys, PTL
  DEF Spec

-----------------------------------------------------------------------------
(* Links: the inductive invariant *)

(* The children of a node, whatever the order. *)
Kids(n) ==
  IF nk[n].nr_subkeys = 0 THEN {}
  ELSE UNION {ToSet(lf[l]) : l \in ToSet(Lists(n))}

(* Child c of node n has been freed by the hivex_node_delete_child that is *)
(* under way, which has yet to free n too, or to unlink c.                 *)
Owes(n, c) ==
  pc = "delete" /\
  (\/ \E i \in 1 .. (Len(frames) - 1) : frames[i].node = n
   \/ c = target /\ Len(frames) = 1 /\ Top.rest = <<>>)

(* What a node declares is what its lists hold, and they can be read. *)
Declared ==
  \A n \in Nodes :
    /\ nk[n].nr_subkeys = Cardinality(Kids(n))
    /\ nk[n].nr_subkeys > 0 => nk[n].subkey_lf \in valid
    /\ \A c \in Kids(n) : nk[c].parent = n /\ (c \in valid \/ Owes(n, c))

(* Every node but the root and the orphans is a child of its parent. *)
Listed ==
  \A n \in Nodes \ ({root} \cup orphans) :
    \E p \in Nodes : p = nk[n].parent /\ n \in Kids(p)

(* The frames of a deletion: each node is a child of the one below it, and *)
(* the children of a node that the visitor has left behind have been freed.*)
Visiting ==
  pc = "delete" =>
    /\ \A i \in 1 .. Len(frames) : \A c \in ToSet(frames[i].rest) :
         c \in DOMAIN nk /\ nk[c].parent = frames[i].node
    /\ \A i \in 1 .. (Len(frames) - 1) :
         nk[frames[i].node].parent = frames[i + 1].node
    /\ \A i \in 1 .. (Len(frames) - 1) : \A c \in Kids(frames[i].node) :
         \/ c \in ToSet(frames[i].rest) \/ c \notin valid
         \/ i > 1 /\ c = frames[i - 1].node
    /\ frames[Len(frames)].node = nk[target].parent
    /\ Len(frames) = 1 => \/ frames[1].rest = <<target>>
                          \/ frames[1].rest = <<>> /\ target \notin valid
    /\ Len(frames) > 1 => /\ frames[Len(frames)].rest = <<>>
                          /\ frames[Len(frames) - 1].node = target

LinksInv == ~partial /\ pc # "aborted" => Declared /\ Listed /\ Visiting
-----------------------------------------------------------------------------
(* The children of a node as a set *)

LEMMA CountDistinct ==
  ASSUME NEW S, NEW s \in Seq(S),
         \A a, b \in 1 .. Len(s) : a < b => s[a] # s[b]
  PROVE  IsFiniteSet(ToSet(s)) /\ Cardinality(ToSet(s)) = Len(s)
<1>1. PICK n \in Nat : n = Len(s)
  OBVIOUS
<1>2. PICK T : T = ToSet(s)
  OBVIOUS
<1>3. DOMAIN s = 1 .. n /\ s \in [1 .. n -> T]
        /\ \A t \in T : \E a \in 1 .. n : s[a] = t
  <2>1. (\A i \in 1 .. Len(s) : s[i] \in T) /\ \A x \in T : \E i \in 1 .. Len(s) : x = s[i]
    BY <1>2, ToSetFacts
  <2>2. DOMAIN s = 1 .. n /\ s = [a \in 1 .. n |-> s[a]]
    BY <1>1
  <2> QED BY <1>1, <2>1, <2>2
<1>4. \A a, b \in 1 .. n : s[a] = s[b] => a = b
  BY <1>1
<1>5. s \in Bijection(1 .. n, T)
  BY <1>3, <1>4 DEF Bijection, Injection, Surjection, IsInjective
<1>6. ExistsBijection(1 .. n, T)
  BY <1>5 DEF ExistsBijection
<1>7. Cardinality(T) = n
  BY <1>6, FS_CountingElements
<1>8. IsFiniteSet(T)
  BY <1>6, FS_NatBijection
<1> QED BY <1>1, <1>2, <1>7, <1>8

(* The lists of a node with children can be read. *)
Open(n) == nk[n].nr_subkeys > 0 => nk[n].subkey_lf \in valid

LEMMA KidsAre ==
  ASSUME NEW n \in Nodes, SoundRecords, SoundKeys, Open(n)
  PROVE  /\ Children(n) \in Seq(DOMAIN nk) /\ ToSet(Children(n)) = Kids(n)
         /\ IsFiniteSet(Kids(n)) /\ Len(Children(n)) = Cardinality(Kids(n))
         /\ Kids(n) \subseteq DOMAIN nk
<1>1. n \in DOMAIN nk /\ nk[n].nr_subkeys \in Nat /\ RecordTypes /\ KeyTypes
  BY DEF Nodes, SoundRecords, SoundKeys, RecordTypes, NodeType
<1>2. CASE nk[n].nr_subkeys = 0
  <2>1. Children(n) = <<>> /\ Kids(n) = {}
    BY <1>2 DEF Children, Kids
  <2>2. Len(<<>>) = 0
    OBVIOUS
  <2> QED BY <2>1, <2>2, ToSetNone, FS_EmptySet
<1>3. CASE nk[n].nr_subkeys # 0
  <2>1. Live(n) /\ Shaped(n) /\ Sorted(n)
    BY <1>1, <1>3 DEF Open, Live, SoundKeys
  <2>2. PICK D : D = DOMAIN nk
    OBVIOUS
  <2>3. PICK ss \in Seq(Seq(D)) : ss = Content(n)
    BY <1>1, <2>1, <2>2, ShapedLists
  <2>4. PICK key : key = Key
    OBVIOUS
  <2>5. Ascending(ss, key) /\ \A x \in D : key[x] \in Int
    BY <1>1, <2>1, <2>2, <2>3, <2>4 DEF Sorted, Key, KeyTypes
  <2>6. PICK s \in Seq(D) : s = FlattenSeq(ss)
    BY <2>3, FlattenType
  <2>7. Children(n) = s
    BY <1>3, <2>3, <2>6 DEF Children, Content
  <2>8. \A a, b \in 1 .. Len(s) : a < b => key[s[a]] < key[s[b]]
    BY <2>5, <2>6, FlattenAscends
  <2>9. \A a, b \in 1 .. Len(s) : a < b => s[a] # s[b]
    <3> SUFFICES ASSUME NEW a \in 1 .. Len(s), NEW b \in 1 .. Len(s), a < b,
                        s[a] = s[b]
                 PROVE  FALSE
      OBVIOUS
    <3>1. key[s[a]] < key[s[b]] /\ key[s[a]] \in Int
      BY <2>5, <2>8
    <3> QED BY <3>1
  <2>10. IsFiniteSet(ToSet(s)) /\ Cardinality(ToSet(s)) = Len(s)
    BY <2>9, CountDistinct
  <2>11. ToSet(s) = Kids(n)
    <3>1. PICK L \in Seq(Nat) : L = Lists(n)
      BY <1>1, <2>1, ShapedLists
    <3>2. /\ Len(ss) = Len(L) /\ \A i \in 1 .. Len(L) : ss[i] = lf[L[i]]
      BY <1>1, <2>1, <2>3, <3>1, ShapedLists
    <3>3. \A x : x \in ToSet(s) <=> \E i \in 1 .. Len(ss) : x \in ToSet(ss[i])
      BY <2>6, FlattenMembers
    <3>4. \A x : x \in ToSet(s) <=> \E i \in 1 .. Len(L) : x \in ToSet(lf[L[i]])
      BY <3>2, <3>3
    <3>5. Kids(n) = UNION {ToSet(lf[l]) : l \in ToSet(L)}
      BY <1>3, <3>1 DEF Kids
    <3>6. (\A i \in 1 .. Len(L) : L[i] \in ToSet(L))
          /\ \A l \in ToSet(L) : \E i \in 1 .. Len(L) : l = L[i]
      BY ToSetFacts
    <3>7. \A x : x \in Kids(n) <=> \E l \in ToSet(L) : x \in ToSet(lf[l])
      BY <3>5
    <3>8. \A x : x \in Kids(n) <=> \E i \in 1 .. Len(L) : x \in ToSet(lf[L[i]])
      BY <3>6, <3>7
    <3> QED BY <3>4, <3>8
  <2>12. ToSet(s) \subseteq D
    BY ToSetFacts
  <2> QED BY <2>2, <2>7, <2>10, <2>11, <2>12
<1> QED BY <1>2, <1>3

(* The blocks of the lists of a node. *)
LEMMA BlocksAre ==
  ASSUME NEW n \in Nodes, SoundRecords, SoundKeys, Open(n)
  PROVE  /\ ToSet(Blocks(n)) = IF nk[n].nr_subkeys = 0 THEN {} ELSE Listing(n)
         /\ ToSet(Blocks(n)) \subseteq valid
<1>1. n \in DOMAIN nk /\ nk[n].nr_subkeys \in Nat /\ RecordTypes /\ KeyTypes
  BY DEF Nodes, SoundRecords, SoundKeys, RecordTypes, NodeType
<1>2. CASE nk[n].nr_subkeys = 0
  BY <1>2, ToSetNone DEF Blocks
<1>3. CASE nk[n].nr_subkeys # 0
  <2>1. Live(n) /\ Shaped(n)
    BY <1>1, <1>3 DEF Open, Live, SoundKeys
  <2>2. PICK b \in Nat : b = nk[n].subkey_lf
    <3>1. nk[n].subkey_lf \in Nat
      BY <1>1, <2>1 DEF Live, RecordTypes, Allocated
    <3> QED BY <3>1
  <2>3. PICK L \in Seq(Nat) : L = Lists(n)
    BY <1>1, <2>1, ShapedLists
  <2>4. b \in valid /\ ToSet(L) \subseteq valid /\ Listing(n) = ToSet(L) \cup {b}
    BY <2>1, <2>2, <2>3 DEF Live, Shaped, Listing
  <2>5. ToSet(Blocks(n)) = ToSet(L) \cup {b}
    <3>1. CASE b \in DOMAIN ri
      <4>1. PICK t \in Seq(Nat) : t = <<b>>
        <5>1. <<b>> \in Seq(Nat)
          OBVIOUS
        <5> QED BY <5>1
      <4>2. Blocks(n) = t \o L
        BY <1>3, <2>2, <2>3, <3>1, <4>1 DEF Blocks
      <4>3. \A x : x \in ToSet(t \o L) <=> x \in ToSet(t) \/ x \in ToSet(L)
        BY ToSetConcat
      <4>4. ToSet(t) = {b}
        BY <4>1, ToSetOne
      <4> QED BY <4>2, <4>3, <4>4
    <3>2. CASE b \notin DOMAIN ri
      <4>1. Blocks(n) = <<b>> /\ L = <<b>>
        BY <1>3, <2>2, <2>3, <3>2 DEF Blocks, Lists
      <4> QED BY <4>1, ToSetOne
    <3> QED BY <3>1, <3>2
  <2> QED BY <1>3, <2>4, <2>5
<1> QED BY <1>2, <1>3

(* LinksAgree is what the invariant says between calls. *)
LEMMA LinksAgreeIs ==
  ASSUME RecordsInv, SoundKeys, LinksInv
  PROVE  LinksAgree
<1> SUFFICES ASSUME pc = "idle", ~partial
             PROVE  /\ \A n \in Nodes :
                         /\ nk[n].nr_subkeys = Len(Children(n))
                         /\ ToSet(Blocks(n)) \subseteq valid
                         /\ \A c \in ToSet(Children(n)) : c \in Nodes /\ nk[c].parent = n
                    /\ \A n \in Nodes \ ({root} \cup orphans) :
                         nk[n].parent \in Nodes /\ n \in ToSet(Children(nk[n].parent))
  BY DEF LinksAgree
<1>1. Declared /\ Listed /\ SoundRecords
  BY DEF LinksInv, RecordsInv
<1>2. \A n \in Nodes : Open(n)
  BY <1>1 DEF Declared, Open
<1>3. ASSUME NEW n \in Nodes
      PROVE  /\ ToSet(Children(n)) = Kids(n) /\ Len(Children(n)) = Cardinality(Kids(n))
             /\ Kids(n) \subseteq DOMAIN nk /\ ToSet(Blocks(n)) \subseteq valid
  BY <1>1, <1>2, KidsAre, BlocksAre
<1>4. ASSUME NEW n \in Nodes
      PROVE  /\ nk[n].nr_subkeys = Len(Children(n))
             /\ ToSet(Blocks(n)) \subseteq valid
             /\ \A c \in ToSet(Children(n)) : c \in Nodes /\ nk[c].parent = n
  <2>1. /\ nk[n].nr_subkeys = Cardinality(Kids(n))
        /\ \A c \in Kids(n) : nk[c].parent = n /\ (c \in valid \/ Owes(n, c))
    BY <1>1 DEF Declared
  <2>2. \A c : ~Owes(n, c)
    BY DEF Owes
  <2> QED BY <1>3, <2>1, <2>2 DEF Nodes
<1>5. ASSUME NEW n \in Nodes \ ({root} \cup orphans)
      PROVE  nk[n].parent \in Nodes /\ n \in ToSet(Children(nk[n].parent))
  <2>1. PICK p \in Nodes : p = nk[n].parent /\ n \in Kids(p)
    BY <1>1, <1>5 DEF Listed
  <2> QED BY <1>3, <2>1
<1> QED BY <1>4, <1>5

(* And it is all that is assumed of a hive that has been opened. *)
LEMMA InitLinks == Init /\ SoundRecords /\ SoundKeys /\ LinksAgree => LinksInv
<1> SUFFICES ASSUME Init, SoundRecords, SoundKeys, LinksAgree PROVE LinksInv
  OBVIOUS
<1>1. pc = "idle" /\ ~partial
  BY DEF Init
<1>2. /\ \A n \in Nodes :
           /\ nk[n].nr_subkeys = Len(Children(n))
           /\ ToSet(Blocks(n)) \subseteq valid
           /\ \A c \in ToSet(Children(n)) : c \in Nodes /\ nk[c].parent = n
      /\ \A n \in Nodes \ ({root} \cup orphans) :
           nk[n].parent \in Nodes /\ n \in ToSet(Children(nk[n].parent))
  BY <1>1 DEF LinksAgree
<1>3. ASSUME NEW n \in Nodes
      PROVE  Open(n)
  <2> SUFFICES ASSUME nk[n].nr_subkeys > 0 PROVE nk[n].subkey_lf \in valid
    BY DEF Open
  <2>1. n \in DOMAIN nk /\ RecordTypes /\ nk[n].nr_subkeys # 0
    BY DEF Nodes, SoundRecords, RecordTypes, NodeType
  <2>2. PICK b : b = nk[n].subkey_lf
    OBVIOUS
  <2>3. b \in ToSet(Blocks(n))
    <3>1. CASE b \in DOMAIN ri
      <4>1. PICK L \in Seq(Nat) : L = Lists(n)
        BY <2>1, <2>2, <3>1 DEF Lists, RecordTypes
      <4>2. PICK t \in Seq(Nat) : t = <<b>>
        <5>1. b \in Nat
          BY <2>1, <3>1 DEF RecordTypes, Allocated
        <5>2. <<b>> \in Seq(Nat)
          BY <5>1
        <5> QED BY <5>2
      <4>3. Blocks(n) = t \o L
        BY <2>1, <2>2, <3>1, <4>1, <4>2 DEF Blocks
      <4>4. b \in ToSet(t)
        BY <4>2, ToSetOne
      <4> QED BY <4>3, <4>4, ToSetConcat
    <3>2. CASE b \notin DOMAIN ri
      <4>1. Blocks(n) = <<b>>
        BY <2>1, <2>2, <3>2 DEF Blocks
      <4> QED BY <4>1, ToSetOne
    <3> QED BY <3>1, <3>2
  <2> QED BY <1>2, <2>2, <2>3
<1>4. ASSUME NEW n \in Nodes
      PROVE  /\ ToSet(Children(n)) = Kids(n) /\ Len(Children(n)) = Cardinality(Kids(n))
  BY <1>3, KidsAre
<1>5. Declared
  BY <1>2, <1>3, <1>4 DEF Declared, Open, Nodes
<1>6. Listed
  BY <1>2, <1>4 DEF Listed
<1> QED BY <1>1, <1>5, <1>6 DEF LinksInv, Visiting

-----------------------------------------------------------------------------
(* Steps that leave the links alone *)

LEMMA KidsSame ==
  ASSUME NEW m, nk'[m].nr_subkeys = nk[m].nr_subkeys,
         nk[m].nr_subkeys = 0 \/ Untouched(m)
  PROVE  Kids(m)' = Kids(m)
<1>1. CASE nk[m].nr_subkeys = 0
  BY <1>1 DEF Kids
<1>2. CASE nk[m].nr_subkeys # 0
  <2>1. Lists(m)' = Lists(m)
    BY <1>2 DEF Untouched, Lists
  <2>2. \A b \in ToSet(Lists(m)) : lf'[b] = lf[b]
    BY <1>2 DEF Untouched
  <2>3. {ToSet(lf'[b]) : b \in ToSet(Lists(m))} = {ToSet(lf[b]) : b \in ToSet(Lists(m))}
    BY <2>2
  <2> QED BY <1>2, <2>1, <2>3 DEF Kids
<1> QED BY <1>1, <1>2

(* The lists of a node, when no list is written. *)
LEMMA KidsKept ==
  ASSUME NEW m, lf' = lf, ri' = ri, nk'[m].nr_subkeys = nk[m].nr_subkeys,
         nk'[m].subkey_lf = nk[m].subkey_lf
  PROVE  Kids(m)' = Kids(m)
<1>1. Lists(m)' = Lists(m)
  BY DEF Lists
<1> QED BY <1>1 DEF Kids

LinkFieldsKept ==
  \A m \in DOMAIN nk : /\ m \in DOMAIN nk' /\ nk'[m].parent = nk[m].parent
                       /\ nk'[m].nr_subkeys = nk[m].nr_subkeys
                       /\ nk'[m].subkey_lf = nk[m].subkey_lf

LEMMA LinksKept ==
  ASSUME SoundRecords, SoundKeys, Declared, Listed, pc # "delete", pc' # "delete",
         root' = root, lf' = lf, ri' = ri, LinkFieldsKept,
         orphans \subseteq orphans', Nodes \subseteq valid',
         \A m \in Nodes : Live(m) => nk[m].subkey_lf \in valid',
         \A m \in Nodes' : m \in Nodes \/ (m \in orphans' /\ nk'[m].nr_subkeys = 0)
  PROVE  Declared' /\ Listed' /\ Visiting'
<1>1. \A m \in Nodes : m \in DOMAIN nk /\ m \in Nodes'
  BY DEF Nodes, LinkFieldsKept
<1>2. \A m \in Nodes : Kids(m)' = Kids(m)
  BY <1>1, KidsKept DEF LinkFieldsKept
<1>3. ASSUME NEW n \in Nodes
      PROVE  /\ nk[n].nr_subkeys = Cardinality(Kids(n)) /\ Open(n)
             /\ \A c \in Kids(n) : c \in Nodes /\ nk[c].parent = n
  <2>1. /\ nk[n].nr_subkeys = Cardinality(Kids(n)) /\ Open(n)
        /\ \A c \in Kids(n) : c \in valid /\ nk[c].parent = n
    BY DEF Declared, Owes, Open
  <2>2. Kids(n) \subseteq DOMAIN nk
    BY <2>1, KidsAre
  <2> QED BY <2>1, <2>2 DEF Nodes
<1>4. ASSUME NEW n \in Nodes'
      PROVE  /\ nk'[n].nr_subkeys = Cardinality(Kids(n)')
             /\ nk'[n].nr_subkeys > 0 => nk'[n].subkey_lf \in valid'
             /\ \A c \in Kids(n)' : nk'[c].parent = n /\ c \in valid'
  <2>1. CASE n \in Nodes
    <3>1. /\ nk'[n].nr_subkeys = Cardinality(Kids(n)')
          /\ nk'[n].nr_subkeys > 0 => nk'[n].subkey_lf \in valid'
      BY <1>1, <1>2, <1>3, <2>1 DEF LinkFieldsKept, Open, Live
    <3>2. \A c \in Kids(n)' : nk'[c].parent = n /\ c \in valid'
      BY <1>1, <1>2, <1>3, <2>1 DEF LinkFieldsKept
    <3> QED BY <3>1, <3>2
  <2>2. CASE n \notin Nodes
    <3>1. nk'[n].nr_subkeys = 0 /\ Kids(n)' = {}
      BY <2>2 DEF Kids
    <3> QED BY <3>1, FS_EmptySet
  <2> QED BY <2>1, <2>2
<1>5. Declared'
  BY <1>4 DEF Declared
<1>6. Listed'
  <2> SUFFICES ASSUME NEW n \in Nodes', n # root, n \notin orphans'
               PROVE  \E p \in Nodes' : p = nk'[n].parent /\ n \in Kids(p)'
    BY DEF Listed
  <2>1. n \in Nodes /\ n \notin orphans
    OBVIOUS
  <2>2. PICK p \in Nodes : p = nk[n].parent /\ n \in Kids(p)
    BY <2>1 DEF Listed
  <2>4. p = nk'[n].parent
    BY <1>1, <2>1, <2>2 DEF LinkFieldsKept
  <2>5. Kids(p)' = Kids(p) /\ p \in Nodes'
    BY <1>1, <1>2
  <2> QED BY <2>2, <2>4, <2>5
<1> QED BY <1>5, <1>6 DEF Visiting

(* The premises of every step. *)
LEMMA LinksAre ==
  ASSUME LinksInv, ~partial, pc # "aborted"
  PROVE  Declared /\ Listed /\ Visiting
BY DEF LinksInv

LEMMA RefuseLinks ==
  ASSUME RecordsInv, SoundKeys, LinksInv, pc = "idle", Refuse \/ Abort
  PROVE  LinksInv'
<1>1. CASE Abort
  BY <1>1 DEF Abort, LinksInv
<1>2. CASE Refuse
  <2> SUFFICES ASSUME ~partial PROVE Declared' /\ Listed' /\ Visiting'
    BY <1>2 DEF LinksInv, Refuse, historyVars
  <2>1. /\ nk' = nk /\ lf' = lf /\ ri' = ri /\ valid' = valid /\ root' = root
        /\ orphans' = orphans /\ pc' = "idle"
    BY <1>2 DEF Refuse, Return, treeVars, historyVars
  <2>2. SoundRecords /\ Declared /\ Listed
    BY LinksAre DEF RecordsInv
  <2>3. LinkFieldsKept /\ Nodes' = Nodes /\ Nodes \subseteq valid'
    BY <2>1 DEF LinkFieldsKept, Nodes
  <2>4. \A m \in Nodes : Live(m) => nk[m].subkey_lf \in valid'
    BY <2>1 DEF Live
  <2> QED BY <2>1, <2>2, <2>3, <2>4, LinksKept
<1> QED BY <1>1, <1>2

(* The values of a node are stored or freed. *)
LEMMA ValuesLinks ==
  ASSUME NEW F, RecordsInv, SoundKeys, LinksInv, pc \in {"idle", "set"},
         pc' \in {"idle", "set"}, root' = root, lf' = lf, ri' = ri,
         DOMAIN nk' = DOMAIN nk, LinkFieldsKept, orphans' = orphans,
         partial' = partial,
         F \cap (DOMAIN nk \cup DOMAIN lf \cup DOMAIN ri) = {},
         \A b \in valid : b \in valid' \/ b \in F,
         \A b \in valid' : b \in valid \/ b \notin DOMAIN nk
  PROVE  LinksInv'
<1> SUFFICES ASSUME ~partial PROVE Declared' /\ Listed' /\ Visiting'
  BY DEF LinksInv
<1>1. SoundRecords /\ Declared /\ Listed
  BY LinksAre DEF RecordsInv
<1>2. Nodes' = Nodes /\ Nodes \subseteq valid'
  BY DEF Nodes
<1>3. ASSUME NEW m \in Nodes, Live(m)
      PROVE  nk[m].subkey_lf \in valid'
  <2>1. nk[m].subkey_lf \in DOMAIN lf \cup DOMAIN ri
    BY <1>3 DEF SoundKeys, Shaped
  <2> QED BY <1>3, <2>1 DEF Live
<1> QED BY <1>1, <1>2, <1>3, LinksKept

-----------------------------------------------------------------------------
(* hivex_node_set_values *)

LEMMA StoreLinks ==
  ASSUME RecordsInv, SoundKeys, LinksInv,
         StoreValue \/ StoreDataFails \/ StoreRecordFails
  PROVE  LinksInv'
<1>1. /\ nk' = nk /\ lf' = lf /\ ri' = ri /\ root' = root /\ pc = "set"
      /\ orphans' = orphans /\ partial' = partial /\ pc' \in {"idle", "set"}
  BY DEF StoreValue, StoreDataFails, StoreRecordFails, treeVars, historyVars, Return
<1>2. next \in Nat /\ DOMAIN nk \subseteq 1 .. (next - 1)
  BY DEF RecordsInv, SoundRecords, RecordTypes, Allocated
<1>3. (\A b \in valid : b \in valid') /\ \A b \in valid' : b \in valid \/ b >= next
  <2>1. CASE StoreValue
    <3>1. PICK k \in Int : valid' = valid \cup next .. k
      BY <1>2, <2>1 DEF StoreValue
    <3> QED BY <1>2, <3>1
  <2>2. CASE StoreDataFails
    BY <1>2, <2>2 DEF StoreDataFails
  <2>3. CASE StoreRecordFails
    BY <2>3 DEF StoreRecordFails
  <2> QED BY <2>1, <2>2, <2>3
<1>4. \A b \in valid' : b \in valid \/ b \notin DOMAIN nk
  BY <1>2, <1>3
<1>5. LinkFieldsKept
  BY <1>1 DEF LinkFieldsKept
<1>6. {} \cap (DOMAIN nk \cup DOMAIN lf \cup DOMAIN ri) = {}
  OBVIOUS
<1>7. \A b \in valid : b \in valid' \/ b \in {}
  BY <1>3
<1> QED BY <1>1, <1>4, <1>5, <1>6, <1>7, ValuesLinks

(* The blocks of values are neither lists nor nodes. *)
LEMMA ValueBlocksNoNodes ==
  ASSUME NEW n \in DOMAIN nk, SoundRecords, SoundValues, ValuesOK(n)
  PROVE  ToSet(ValueBlocks(n)) \cap (DOMAIN nk \cup DOMAIN lf \cup DOMAIN ri) = {}
<1>1. ToSet(ValueBlocks(n)) \subseteq
           DOMAIN vl \cup DOMAIN vk \cup DOMAIN db \cup {Zero}
  BY ValueBlocksKinds DEF SoundRecords
<1>2. Zero \notin DOMAIN nk
  BY DEF SoundRecords, RecordTypes, Allocated, Zero
<1>3. DOMAIN nk \cap (DOMAIN vl \cup DOMAIN vk \cup DOMAIN db) = {}
  BY DEF SoundRecords, KindsApart
<1> QED BY <1>1, <1>2, <1>3, ValueBlocksNoLists

LEMMA ClearValuesLinks ==
  ASSUME NEW n, NEW vs, RecordsInv, SoundValues, SoundKeys, LinksInv,
         ClearValues(n, vs)
  PROVE  LinksInv'
<1>1. SoundRecords /\ RecordTypes /\ n \in DOMAIN nk /\ ValuesOK(n)
  BY DEF RecordsInv, SoundRecords, ClearValues, CanClear, IsNode
<1>2. PICK F : F = ToSet(ValueBlocks(n))
  OBVIOUS
<1>3. F \cap (DOMAIN nk \cup DOMAIN lf \cup DOMAIN ri) = {}
  BY <1>1, <1>2, ValueBlocksNoNodes
<1>4. /\ valid' = valid \ F /\ lf' = lf /\ ri' = ri /\ root' = root
      /\ nk' = WithValues(n, 0, None) /\ pc = "idle" /\ pc' = "idle"
      /\ orphans' = orphans /\ partial' = partial
  BY <1>2, NoValuesIs DEF ClearValues, Return, historyVars
<1>5. 0 \in Nat /\ None \in Int
  BY DEF None
<1>6. PICK g : g = WithValues(n, 0, None)
  OBVIOUS
<1>7. /\ DOMAIN g = DOMAIN nk /\ \A m \in DOMAIN nk : m # n => g[m] = nk[m]
      /\ g[n].parent = nk[n].parent /\ g[n].nr_subkeys = nk[n].nr_subkeys
      /\ g[n].subkey_lf = nk[n].subkey_lf
  BY <1>1, <1>5, <1>6, WithValuesFacts
<1>8. LinkFieldsKept /\ DOMAIN nk' = DOMAIN nk
  BY <1>4, <1>6, <1>7 DEF LinkFieldsKept
<1>9. (\A b \in valid : b \in valid' \/ b \in F)
      /\ \A b \in valid' : b \in valid \/ b \notin DOMAIN nk
  BY <1>4
<1> QED BY <1>3, <1>4, <1>8, <1>9, ValuesLinks

LEMMA SetValuesBeginLinks ==
  ASSUME NEW n, NEW vs \in Seq(ValueType), RecordsInv, SoundValues, SoundKeys,
         LinksInv, SetValuesBegin(n, vs)
  PROVE  LinksInv'
<1>0. SoundRecords
  BY DEF RecordsInv
<1>1. /\ n \in Nodes /\ n \in DOMAIN nk /\ ValuesOK(n) /\ next \in Nat \ {0}
      /\ DOMAIN nk' = DOMAIN nk
      /\ \A m \in DOMAIN nk : m # n => nk'[m] = nk[m]
      /\ nk'[n].parent = nk[n].parent
      /\ nk'[n].nr_subkeys = nk[n].nr_subkeys
      /\ nk'[n].subkey_lf = nk[n].subkey_lf
      /\ valid' = (valid \ ToSet(ValueBlocks(n))) \cup {next}
      /\ lf' = lf /\ ri' = ri
  BY <1>0, SetValuesBeginFacts
<1>2. PICK F : F = ToSet(ValueBlocks(n))
  OBVIOUS
<1>3. F \cap (DOMAIN nk \cup DOMAIN lf \cup DOMAIN ri) = {}
  BY <1>0, <1>1, <1>2, ValueBlocksNoNodes
<1>4. /\ root' = root /\ pc = "idle" /\ pc' = "set"
      /\ orphans' = orphans /\ partial' = partial
  BY DEF SetValuesBegin, historyVars
<1>5. LinkFieldsKept
  BY <1>1 DEF LinkFieldsKept
<1>6. next \notin DOMAIN nk
  BY <1>0 DEF SoundRecords, RecordTypes, Allocated
<1>7. (\A b \in valid : b \in valid' \/ b \in F)
      /\ \A b \in valid' : b \in valid \/ b \notin DOMAIN nk
  BY <1>1, <1>2, <1>6
<1> QED BY <1>1, <1>3, <1>4, <1>5, <1>7, ValuesLinks

LEMMA SetValuesLinks ==
  ASSUME NEW n, NEW vs \in Seq(ValueType), RecordsInv, SoundValues, SoundKeys,
         LinksInv, SetValues(n, vs)
  PROVE  LinksInv'
<1>1. CASE SetValuesRefused(n) \/ SetValuesAborts(n)
  BY <1>1, RefuseLinks DEF SetValuesRefused, SetValuesAborts
<1> QED BY <1>1, ClearValuesLinks, SetValuesBeginLinks DEF SetValues

-----------------------------------------------------------------------------
(* hivex_node_add_child *)

LEMMA AddChildFailsLinks ==
  ASSUME NEW p, NEW name \in Names, RecordsInv, SoundKeys, LinksInv,
         AddChildFails(p, name)
  PROVE  LinksInv'
<1>1. SoundRecords /\ RecordTypes /\ next \in Nat /\ p \in DOMAIN nk
      /\ next \notin DOMAIN nk
  <2>1. SoundRecords /\ RecordTypes
    BY DEF RecordsInv, SoundRecords
  <2>2. p \in DOMAIN nk
    BY DEF AddChildFails, CanAdd, IsNode
  <2>3. next \in Nat /\ next \notin DOMAIN nk
    BY <2>1 DEF RecordTypes, Allocated
  <2> QED BY <2>1, <2>2, <2>3
<1>2. PICK r : r = NewNode(p, name, nk[p].sk)
  OBVIOUS
<1>3. r.nr_subkeys = 0
  BY <1>1, <1>2, NewNodeFacts
<1>4. /\ nk' = NewRecord(nk, next, r) /\ lf' = lf /\ ri' = ri
      /\ valid' = valid \cup {next} /\ orphans' = orphans \cup {next}
      /\ root' = root /\ partial' = partial /\ pc = "idle" /\ pc' = "idle"
  BY <1>2 DEF AddChildFails, Return
<1>5. /\ DOMAIN nk' = DOMAIN nk \cup {next} /\ nk'[next] = r
      /\ \A m \in DOMAIN nk : nk'[m] = nk[m]
  BY <1>1, <1>4 DEF NewRecord
<1> SUFFICES ASSUME ~partial PROVE Declared' /\ Listed' /\ Visiting'
  BY <1>4 DEF LinksInv
<1>6. Declared /\ Listed
  BY <1>4, LinksAre
<1>7. LinkFieldsKept
  BY <1>5 DEF LinkFieldsKept
<1>8. Nodes \subseteq valid' /\ \A m \in Nodes : Live(m) => nk[m].subkey_lf \in valid'
  BY <1>4 DEF Nodes, Live
<1>9. \A m \in Nodes' : m \in Nodes \/ (m \in orphans' /\ nk'[m].nr_subkeys = 0)
  BY <1>3, <1>4, <1>5 DEF Nodes
<1> QED BY <1>1, <1>4, <1>6, <1>7, <1>8, <1>9, LinksKept

(* Node p gets the node at "next" as a child, by the list l at "next + 1", *)
(* and loses its lists F.                                                  *)
Adds(p, name, direct, F, l) ==
  /\ LinkNode(p, name, direct) /\ lf' = NewRecord(lf, next + 1, l)
  /\ valid' = (valid \ F) \cup {next, next + 1} /\ DOMAIN ri' = DOMAIN ri
  /\ \/ F = {} /\ ri' = ri
     \/ /\ Live(p) /\ F \subseteq Listing(p)
        /\ \A b \in DOMAIN ri : b \notin Listing(p) => ri'[b] = ri[b]
  /\ Kids(p)' = Kids(p) \cup {next} /\ nk'[p].subkey_lf \in valid'

LEMMA LinkKids ==
  ASSUME NEW p \in Nodes, NEW name \in Names, NEW direct \in BOOLEAN, NEW F,
         NEW l \in Seq(Nat), RecordsInv, SoundKeys, LinksInv, pc = "idle",
         ~partial, Adds(p, name, direct, F, l)
  PROVE  /\ Nodes' = Nodes \cup {next} /\ next \notin Nodes
         /\ \A m \in Nodes :
              /\ nk[m].nr_subkeys = Cardinality(Kids(m))
              /\ IsFiniteSet(Kids(m))
              /\ \A c \in Kids(m) : c \in Nodes /\ nk[c].parent = m
         /\ \A m \in Nodes : m # p =>
              /\ Kids(m)' = Kids(m) /\ nk'[m] = nk[m]
              /\ nk[m].nr_subkeys > 0 => nk[m].subkey_lf \in valid'
<1>0. /\ LinkNode(p, name, direct) /\ lf' = NewRecord(lf, next + 1, l)
      /\ valid' = (valid \ F) \cup {next, next + 1} /\ DOMAIN ri' = DOMAIN ri
      /\ \/ F = {} /\ ri' = ri
         \/ /\ Live(p) /\ F \subseteq Listing(p)
            /\ \A b \in DOMAIN ri : b \notin Listing(p) => ri'[b] = ri[b]
  BY DEF Adds
<1>1. /\ SoundRecords /\ RecordTypes /\ KindsApart
      /\ p \in DOMAIN nk /\ next \in Nat
  BY DEF RecordsInv, SoundRecords, RecordTypes, Nodes
<1>2. /\ DOMAIN nk' = DOMAIN nk \cup {next}
      /\ nk'[next] = NewNode(p, name, nk[p].sk)
      /\ \A m \in DOMAIN nk : m # p => nk'[m] = nk[m]
      /\ nk'[p].parent = nk[p].parent /\ nk'[p].nr_subkeys = nk[p].nr_subkeys + 1
      /\ root' = root /\ orphans' = orphans /\ partial' = partial /\ pc' = "idle"
  BY <1>0, <1>1, LinkNodeFacts
<1>3. nk'[next].parent = p /\ nk'[next].nr_subkeys = 0
  BY <1>1, <1>2, NewNodeFacts
<1>4. /\ next \notin DOMAIN nk /\ next + 1 \notin DOMAIN nk
      /\ next + 1 \notin DOMAIN lf
  BY <1>1 DEF RecordTypes, Allocated
<1>5. /\ DOMAIN lf' = DOMAIN lf \cup {next + 1}
      /\ \A b \in DOMAIN lf : lf'[b] = lf[b]
  BY <1>0, <1>4 DEF NewRecord
<1>6. Declared /\ Listed
  BY LinksAre
<1>7. ASSUME NEW n \in Nodes
      PROVE  /\ nk[n].nr_subkeys = Cardinality(Kids(n)) /\ Open(n)
             /\ IsFiniteSet(Kids(n))
             /\ \A c \in Kids(n) : c \in Nodes /\ nk[c].parent = n
  <2>1. /\ nk[n].nr_subkeys = Cardinality(Kids(n)) /\ Open(n)
        /\ \A c \in Kids(n) : c \in valid /\ nk[c].parent = n
    BY <1>6 DEF Declared, Owes, Open
  <2>2. Kids(n) \subseteq DOMAIN nk /\ IsFiniteSet(Kids(n))
    BY <1>1, <2>1, KidsAre
  <2> QED BY <2>1, <2>2 DEF Nodes
<1>8. F \cap DOMAIN nk = {}
  <2>1. CASE F = {}
    BY <2>1
  <2>2. CASE Live(p) /\ F \subseteq Listing(p)
    <3>1. Listing(p) \subseteq DOMAIN lf \cup DOMAIN ri
      BY <2>2 DEF SoundKeys, Shaped, Listing
    <3> QED BY <1>1, <2>2, <3>1 DEF KindsApart
  <2> QED BY <1>0, <2>1, <2>2
<1>9. Nodes' = Nodes \cup {next} /\ next \notin Nodes
  BY <1>0, <1>2, <1>4, <1>8 DEF Nodes
<1>10. ASSUME NEW m \in Nodes, m # p
       PROVE  /\ Kids(m)' = Kids(m) /\ nk'[m] = nk[m]
              /\ nk[m].nr_subkeys > 0 => nk[m].subkey_lf \in valid'
  <2>1. m \in DOMAIN nk /\ nk'[m] = nk[m] /\ nk[m].nr_subkeys \in Nat
    BY <1>1, <1>2, <1>10 DEF Nodes, RecordTypes, NodeType
  <2>2. CASE nk[m].nr_subkeys = 0
    BY <2>1, <2>2, KidsSame
  <2>3. CASE nk[m].nr_subkeys # 0
    <3>1. Live(m) /\ Shaped(m)
      BY <1>7, <2>1, <2>3 DEF Live, Open, SoundKeys
    <3>2. Live(p) => Listing(m) \cap Listing(p) = {}
      BY <1>10, <3>1 DEF SoundKeys, Separate
    <3>3. nk[m].subkey_lf \in Listing(m) /\ ToSet(Lists(m)) \subseteq Listing(m)
      BY DEF Listing
    <3>4. nk[m].subkey_lf \in DOMAIN ri => ri'[nk[m].subkey_lf] = ri[nk[m].subkey_lf]
      BY <1>0, <3>2, <3>3
    <3>5. \A b \in ToSet(Lists(m)) : b \in DOMAIN lf' /\ b \in valid' /\ lf'[b] = lf[b]
      <4>1. ToSet(Lists(m)) \subseteq valid \cap DOMAIN lf
        BY <3>1 DEF Shaped
      <4> QED BY <1>0, <1>5, <3>2, <3>3, <4>1
    <3>6. Untouched(m)
      BY <1>0, <1>5, <2>1, <3>1, <3>4, <3>5 DEF Untouched, Shaped
    <3>7. Kids(m)' = Kids(m)
      BY <2>1, <3>6, KidsSame
    <3>8. nk[m].subkey_lf \in valid'
      BY <1>0, <3>1, <3>2, <3>3 DEF Live
    <3> QED BY <2>1, <3>7, <3>8
  <2> QED BY <2>2, <2>3
<1> QED BY <1>7, <1>9, <1>10

LEMMA LinkLinks ==
  ASSUME NEW p \in Nodes, NEW name \in Names, NEW direct \in BOOLEAN, NEW F,
         NEW l \in Seq(Nat), RecordsInv, SoundKeys, LinksInv, pc = "idle",
         Adds(p, name, direct, F, l)
  PROVE  LinksInv'
<1>0. LinkNode(p, name, direct) /\ Kids(p)' = Kids(p) \cup {next}
      /\ nk'[p].subkey_lf \in valid' /\ next \in valid' /\ next + 1 \in valid'
  BY DEF Adds
<1>1. RecordTypes /\ p \in DOMAIN nk /\ next \in Nat
  BY DEF RecordsInv, SoundRecords, RecordTypes, Nodes
<1>2. /\ DOMAIN nk' = DOMAIN nk \cup {next}
      /\ nk'[next] = NewNode(p, name, nk[p].sk)
      /\ \A m \in DOMAIN nk : m # p => nk'[m] = nk[m]
      /\ nk'[p].parent = nk[p].parent /\ nk'[p].nr_subkeys = nk[p].nr_subkeys + 1
      /\ root' = root /\ orphans' = orphans /\ partial' = partial /\ pc' = "idle"
  BY <1>0, <1>1, LinkNodeFacts
<1>3. nk'[next].parent = p /\ nk'[next].nr_subkeys = 0
  BY <1>1, <1>2, NewNodeFacts
<1> SUFFICES ASSUME ~partial PROVE Declared' /\ Listed' /\ Visiting'
  BY <1>2 DEF LinksInv
<1>6. Declared /\ Listed
  BY LinksAre
<1>7. \A n \in Nodes : /\ nk[n].nr_subkeys = Cardinality(Kids(n))
                       /\ IsFiniteSet(Kids(n))
                       /\ \A c \in Kids(n) : c \in Nodes /\ nk[c].parent = n
  BY LinkKids
<1>9. Nodes' = Nodes \cup {next} /\ next \notin Nodes
  BY LinkKids
<1>10. \A m \in Nodes : m # p =>
         /\ Kids(m)' = Kids(m) /\ nk'[m] = nk[m]
         /\ nk[m].nr_subkeys > 0 => nk[m].subkey_lf \in valid'
  BY LinkKids
<1>11. \A c \in Nodes : c \in valid' /\ nk'[c].parent = nk[c].parent
  BY <1>2, <1>9 DEF Nodes
<1>12. ASSUME NEW n \in Nodes'
       PROVE  /\ nk'[n].nr_subkeys = Cardinality(Kids(n)')
              /\ nk'[n].nr_subkeys > 0 => nk'[n].subkey_lf \in valid'
              /\ \A c \in Kids(n)' : nk'[c].parent = n /\ c \in valid'
  <2>1. CASE n = p
    <3>1. next \notin Kids(p)
      BY <1>7, <1>9
    <3>2. Cardinality(Kids(p) \cup {next}) = Cardinality(Kids(p)) + 1
      BY <1>7, <3>1, FS_AddElement
    <3>3. nk'[p].nr_subkeys = Cardinality(Kids(p)')
      BY <1>0, <1>2, <1>7, <3>2
    <3>4. \A c \in Kids(p)' : nk'[c].parent = p /\ c \in valid'
      BY <1>0, <1>3, <1>7, <1>11
    <3> QED BY <1>0, <2>1, <3>3, <3>4
  <2>2. CASE n = next
    <3>1. Kids(n)' = {}
      BY <1>3, <2>2 DEF Kids
    <3> QED BY <1>3, <2>2, <3>1, FS_EmptySet
  <2>3. CASE n # p /\ n # next
    <3>1. n \in Nodes
      BY <1>9, <2>3
    <3>2. /\ Kids(n)' = Kids(n) /\ nk'[n] = nk[n]
          /\ nk[n].nr_subkeys > 0 => nk[n].subkey_lf \in valid'
      BY <1>10, <2>3, <3>1
    <3> QED BY <1>7, <1>11, <3>1, <3>2
  <2> QED BY <2>1, <2>2, <2>3
<1>13. Declared'
  BY <1>12 DEF Declared
<1>14. Listed'
  <2> SUFFICES ASSUME NEW n \in Nodes', n # root, n \notin orphans
               PROVE  \E q \in Nodes' : q = nk'[n].parent /\ n \in Kids(q)'
    BY <1>2 DEF Listed
  <2>1. CASE n = next
    BY <1>0, <1>3, <1>9, <2>1
  <2>2. CASE n # next
    <3>1. n \in Nodes
      BY <1>9, <2>2
    <3>2. PICK q \in Nodes : q = nk[n].parent /\ n \in Kids(q)
      BY <1>6, <3>1 DEF Listed
    <3>3. n \in Kids(q)'
      BY <1>0, <1>10, <3>2
    <3> QED BY <1>9, <1>11, <3>1, <3>2, <3>3
  <2> QED BY <2>1, <2>2
<1> QED BY <1>2, <1>13, <1>14 DEF Visiting

LEMMA AddFirstChildAdds ==
  ASSUME NEW p, NEW name \in Names, RecordsInv, AddFirstChild(p, name)
  PROVE  /\ p \in Nodes /\ pc = "idle"
         /\ \E d \in BOOLEAN : \E F : \E l \in Seq(Nat) : Adds(p, name, d, F, l)
<1>1. /\ p \in Nodes /\ p \in DOMAIN nk /\ RecordTypes /\ next \in Nat
      /\ next + 1 \notin DOMAIN ri /\ next + 1 \notin DOMAIN lf
  <2>1. p \in Nodes /\ p \in DOMAIN nk
    BY DEF AddFirstChild, CanAdd, IsNode, Nodes
  <2>2. RecordTypes
    BY DEF RecordsInv, SoundRecords
  <2> QED BY <2>1, <2>2 DEF RecordTypes, Allocated
<1>2. PICK l \in Seq(Nat) : l = <<next>>
  <2>1. <<next>> \in Seq(Nat)
    BY <1>1
  <2> QED BY <2>1
<1>3. /\ LinkNode(p, name, TRUE) /\ lf' = NewRecord(lf, next + 1, l)
      /\ valid' = (valid \ {}) \cup {next, next + 1} /\ ri' = ri /\ pc = "idle"
      /\ nk[p].nr_subkeys = 0
  BY <1>2 DEF AddFirstChild
<1>4. nk'[p].subkey_lf = next + 1 /\ nk'[p].nr_subkeys = 1
  <2>1. nk'[p].subkey_lf = next + 1 /\ nk'[p].nr_subkeys = nk[p].nr_subkeys + 1
    BY <1>1, <1>3, LinkNodeFacts
  <2> QED BY <1>3, <2>1
<1>5. PICK b : b = next + 1
  OBVIOUS
<1>6. Lists(p)' = <<b>> /\ lf'[b] = l
  BY <1>1, <1>3, <1>4, <1>5 DEF Lists, NewRecord
<1>7. Kids(p)' = {next}
  <2>1. ToSet(<<b>>) = {b} /\ ToSet(l) = {next}
    BY <1>2, ToSetOne
  <2> QED BY <1>4, <1>6, <2>1 DEF Kids
<1>8. Kids(p) = {}
  BY <1>3 DEF Kids
<1>9. Adds(p, name, TRUE, {}, l)
  BY <1>3, <1>4, <1>7, <1>8 DEF Adds
<1> QED BY <1>1, <1>3, <1>9

(* What InsertChild does to the lists of p: "old" is replaced. *)
Inserted(p, name, old, d, l) ==
  /\ LinkNode(p, name, d) /\ lf' = NewRecord(lf, next + 1, l)
  /\ ToSet(l) = ToSet(lf[old]) \cup {next}
  /\ valid' = (valid \ {old}) \cup {next, next + 1}
  /\ old \in ToSet(Lists(p)) /\ d = (nk[p].subkey_lf = old)
  /\ ToSet(Lists(p)') = (ToSet(Lists(p)) \ {old}) \cup {next + 1}
  /\ nk'[p].subkey_lf \in {next + 1} \cup (DOMAIN ri \cap {nk[p].subkey_lf})
  /\ DOMAIN ri' = DOMAIN ri
  /\ \A b \in DOMAIN ri : b \notin Listing(p) => ri'[b] = ri[b]

LEMMA InsertChildIs ==
  ASSUME NEW p, NEW name \in Names, SoundRecords, SoundKeys, InsertChild(p, name)
  PROVE  /\ p \in Nodes /\ nk[p].nr_subkeys > 0 /\ Live(p) /\ Shaped(p)
         /\ \E old, d, l : d \in BOOLEAN /\ l \in Seq(Nat) /\ Inserted(p, name, old, d, l)
<1>1. /\ p \in Nodes /\ p \in DOMAIN nk /\ RecordTypes /\ KeyTypes
      /\ ListsOK(p) /\ nk[p].nr_subkeys # 0 /\ nk[p].nr_subkeys > 0 /\ next \in Nat
  <2>1. p \in Nodes /\ p \in DOMAIN nk
    BY DEF InsertChild, CanAdd, IsNode, Nodes
  <2>2. ListsOK(p) /\ nk[p].nr_subkeys > 0
    BY DEF InsertChild, ChildrenOK
  <2> QED BY <2>1, <2>2 DEF SoundRecords, SoundKeys, RecordTypes
<1>2. Live(p) /\ Shaped(p)
  <2>1. nk[p].nr_subkeys > 0 /\ nk[p].subkey_lf \in valid
    BY <1>1 DEF ListsOK
  <2> QED BY <1>1, <2>1 DEF Live, SoundKeys
<1>3. PICK L \in Seq(Nat) : L = Lists(p)
  BY <1>1, <1>2, ShapedLists
<1>4. PICK h : h = Place(p, name).list
  OBVIOUS
<1>5. PICK at : at = Place(p, name).at
  OBVIOUS
<1>6. PICK e \in Nat : e = next + 1
  BY <1>1
<1>7. PICK old : old = L[h]
  OBVIOUS
<1>8. PICK s \in Seq(Nat) : s = lf[old]
  BY <1>1, <1>3, <1>4, <1>7, PlaceFacts DEF RecordTypes
<1>9. h \in 1 .. Len(L) /\ at \in 1 .. (Len(s) + 1)
  <2>1. h \in DOMAIN L /\ at \in 1 .. (Len(lf[old]) + 1)
    BY <1>1, <1>3, <1>4, <1>5, <1>7, PlaceFacts
  <2>2. DOMAIN L = 1 .. Len(L)
    OBVIOUS
  <2> QED BY <1>8, <2>1, <2>2
<1>10. PICK l : l = InsertAt(s, at, next)
  OBVIOUS
<1>11. l \in Seq(Nat) /\ ToSet(l) = ToSet(s) \cup {next}
  <2>1. PICK f \in Nat : f = next
    BY <1>1
  <2>2. InsertAt(s, at, f) \in Seq(Nat)
    BY <1>9, InsertAtFacts
  <2>3. ToSet(InsertAt(s, at, f)) = ToSet(s) \cup {f}
    BY <1>9, InsertAtMembers, SMTT(60)
  <2> QED BY <1>10, <2>1, <2>2, <2>3
<1>12. PICK d \in BOOLEAN : d = (nk[p].subkey_lf = old)
  OBVIOUS
<1>13. /\ LinkNode(p, name, d) /\ lf' = NewRecord(lf, next + 1, l)
       /\ valid' = (valid \ {old}) \cup {next, next + 1}
  <2> DEFINE old0 == Lists(p)[Place(p, name).list]
  <2>1. old0 = old
    BY <1>3, <1>4, <1>7
  <2>2. /\ LinkNode(p, name, nk[p].subkey_lf = old0)
        /\ lf' = NewRecord(lf, next + 1, InsertAt(lf[old0], Place(p, name).at, next))
        /\ valid' = (valid \ {old0}) \cup {next, next + 1}
    BY DEF InsertChild
  <2> HIDE DEF old0
  <2> QED BY <1>5, <1>8, <1>10, <1>12, <2>1, <2>2
<1>14. PICK T : T = [L EXCEPT ![h] = e]
  OBVIOUS
<1>15. /\ Lists(p)' = T
       /\ nk'[p].subkey_lf \in {e} \cup (DOMAIN ri \cap {nk[p].subkey_lf})
       /\ DOMAIN ri' = DOMAIN ri
       /\ \A b \in DOMAIN ri : b \notin Listing(p) => ri'[b] = ri[b]
  BY <1>3, <1>4, <1>6, <1>14, InsertHome
<1>16. ToSet(T) = (ToSet(L) \ {old}) \cup {e}
  <2>1. DOMAIN L = 1 .. Len(L) /\ DOMAIN T = 1 .. Len(L) /\ T[h] = e
        /\ \A i \in 1 .. Len(L) : i # h => T[i] = L[i]
    BY <1>9, <1>14
  <2>2. \A i, k \in 1 .. Len(L) : L[i] = L[k] => i = k
    BY <1>2, <1>3, <2>1 DEF Shaped
  <2>3. \A x : x \in ToSet(T) <=> \E i \in 1 .. Len(L) : x = T[i]
    BY <2>1 DEF ToSet
  <2>4. \A x : x \in ToSet(L) <=> \E i \in 1 .. Len(L) : x = L[i]
    BY <2>1 DEF ToSet
  <2>5. ASSUME NEW x
        PROVE  x \in ToSet(T) <=> x \in (ToSet(L) \ {old}) \cup {e}
    <3>1. ASSUME x \in ToSet(T) PROVE x \in (ToSet(L) \ {old}) \cup {e}
      <4>1. PICK i \in 1 .. Len(L) : x = T[i]
        BY <2>3, <3>1
      <4>2. CASE i = h
        BY <2>1, <4>1, <4>2
      <4>3. CASE i # h
        <5>1. x = L[i] /\ L[i] # L[h]
          BY <1>9, <2>1, <2>2, <4>1, <4>3
        <5> QED BY <1>7, <2>4, <5>1
      <4> QED BY <4>2, <4>3
    <3>2. ASSUME x \in ToSet(L), x # old PROVE x \in ToSet(T)
      <4>1. PICK i \in 1 .. Len(L) : x = L[i]
        BY <2>4, <3>2
      <4>2. i # h
        BY <1>7, <3>2, <4>1
      <4> QED BY <2>1, <2>3, <4>1, <4>2
    <3>3. e \in ToSet(T)
      BY <1>9, <2>1, <2>3
    <3> QED BY <3>1, <3>2, <3>3
  <2> QED BY <2>5
<1>17. old \in ToSet(L)
  BY <1>7, <1>9, ToSetFacts
<1>18. Inserted(p, name, old, d, l)
  BY <1>3, <1>6, <1>8, <1>11, <1>12, <1>13, <1>15, <1>16, <1>17 DEF Inserted
<1> QED BY <1>1, <1>2, <1>11, <1>12, <1>18

LEMMA InsertChildAdds ==
  ASSUME NEW p, NEW name \in Names, RecordsInv, SoundKeys, InsertChild(p, name)
  PROVE  /\ p \in Nodes /\ pc = "idle"
         /\ \E d \in BOOLEAN : \E F : \E l \in Seq(Nat) : Adds(p, name, d, F, l)
<1>0. SoundRecords /\ RecordTypes
  BY DEF RecordsInv, SoundRecords
<1>1. p \in Nodes /\ nk[p].nr_subkeys > 0 /\ Live(p) /\ Shaped(p) /\ p \in DOMAIN nk
  BY <1>0, InsertChildIs DEF Nodes
<1>2. PICK old, d, l : d \in BOOLEAN /\ l \in Seq(Nat) /\ Inserted(p, name, old, d, l)
  BY <1>0, InsertChildIs
<1>3. PICK e : e = next + 1
  OBVIOUS
<1>4. /\ LinkNode(p, name, d) /\ lf' = NewRecord(lf, e, l)
      /\ ToSet(l) = ToSet(lf[old]) \cup {next}
      /\ valid' = (valid \ {old}) \cup {next, e}
      /\ old \in ToSet(Lists(p))
      /\ ToSet(Lists(p)') = (ToSet(Lists(p)) \ {old}) \cup {e}
      /\ nk'[p].subkey_lf \in {e} \cup (DOMAIN ri \cap {nk[p].subkey_lf})
      /\ DOMAIN ri' = DOMAIN ri
      /\ \A b \in DOMAIN ri : b \notin Listing(p) => ri'[b] = ri[b]
  BY <1>2, <1>3 DEF Inserted
<1>5. /\ ToSet(Lists(p)) \subseteq valid \cap DOMAIN lf
      /\ e \notin DOMAIN lf
  BY <1>0, <1>1, <1>3 DEF Shaped, RecordTypes, Allocated
<1>6. lf'[e] = l /\ \A b \in DOMAIN lf : lf'[b] = lf[b]
  BY <1>4, <1>5 DEF NewRecord
<1>7. nk'[p].nr_subkeys = nk[p].nr_subkeys + 1 /\ nk[p].nr_subkeys \in Nat
  BY <1>0, <1>1, <1>2, <1>4, LinkNodeFacts DEF RecordTypes, NodeType
<1>8. Kids(p)' = Kids(p) \cup {next}
  <2>1. PICK A : A = ToSet(Lists(p))
    OBVIOUS
  <2>2. Kids(p) = UNION {ToSet(lf[b]) : b \in A}
    BY <1>1, <2>1 DEF Kids
  <2>3. Kids(p)' = UNION {ToSet(lf'[b]) : b \in (A \ {old}) \cup {e}}
    BY <1>4, <1>7, <2>1 DEF Kids
  <2>4. \A x : x \in Kids(p) <=> \E b \in A : x \in ToSet(lf[b])
    BY <2>2
  <2>5. \A x : x \in Kids(p)' <=> \E b \in (A \ {old}) \cup {e} : x \in ToSet(lf'[b])
    BY <2>3
  <2>6. \A b \in A : lf'[b] = lf[b]
    BY <1>5, <1>6, <2>1
  <2>7. ASSUME NEW x
        PROVE  x \in Kids(p)' <=> x \in Kids(p) \/ x = next
    <3>1. x \in ToSet(lf'[e]) <=> x \in ToSet(lf[old]) \/ x = next
      BY <1>4, <1>6
    <3>2. old \in A /\ e \notin A
      BY <1>4, <1>5, <2>1
    <3> QED BY <2>4, <2>5, <2>6, <3>1, <3>2
  <2> QED BY <2>7
<1>9. nk'[p].subkey_lf \in valid'
  <2>1. nk'[p].subkey_lf = e \/ (nk'[p].subkey_lf = nk[p].subkey_lf /\ nk[p].subkey_lf \in DOMAIN ri)
    BY <1>4
  <2>2. old \in DOMAIN lf /\ DOMAIN lf \cap DOMAIN ri = {}
    BY <1>4, <1>5 DEF SoundKeys, KeyTypes
  <2> QED BY <1>1, <1>4, <2>1, <2>2 DEF Live
<1>10. {old} \subseteq Listing(p)
  BY <1>4 DEF Listing
<1>11. pc = "idle"
  BY DEF InsertChild
<1>12. Adds(p, name, d, {old}, l)
  BY <1>1, <1>3, <1>4, <1>8, <1>9, <1>10 DEF Adds
<1> QED BY <1>1, <1>2, <1>11, <1>12

LEMMA AddChildLinks ==
  ASSUME NEW p, NEW name \in Names, RecordsInv, SoundKeys, LinksInv,
         AddFirstChild(p, name) \/ InsertChild(p, name)
  PROVE  LinksInv'
<1>1. /\ p \in Nodes /\ pc = "idle"
      /\ \E d \in BOOLEAN : \E F : \E l \in Seq(Nat) : Adds(p, name, d, F, l)
  BY AddFirstChildAdds, InsertChildAdds
<1>2. PICK d \in BOOLEAN : \E F : \E l \in Seq(Nat) : Adds(p, name, d, F, l)
  BY <1>1
<1>3. PICK F, l : l \in Seq(Nat) /\ Adds(p, name, d, F, l)
  BY <1>2
<1> QED BY <1>1, <1>3, LinkLinks

-----------------------------------------------------------------------------
(* hivex_node_delete_child *)

LEMMA DeleteBeginLinks ==
  ASSUME NEW n, RecordsInv, SoundKeys, LinksInv, DeleteBegin(n)
  PROVE  LinksInv'
<1>1. /\ pc = "idle" /\ pc' = "delete" /\ target' = n /\ n \in DOMAIN nk
      /\ frames' = <<[node |-> nk[n].parent, rest |-> <<n>>]>>
      /\ root' = root /\ valid' = valid /\ nk' = nk /\ lf' = lf /\ ri' = ri
      /\ orphans' = orphans /\ partial' = partial
  BY DEF DeleteBegin, CanDelete, IsNode, treeVars, historyVars
<1> SUFFICES ASSUME ~partial PROVE Declared' /\ Listed' /\ Visiting'
  BY <1>1 DEF LinksInv
<1>2. Declared /\ Listed
  BY <1>1, LinksAre
<1>3. Nodes' = Nodes /\ \A m : Kids(m)' = Kids(m)
  BY <1>1, KidsKept DEF Nodes
<1>4. Declared'
  <2>1. \A m \in Nodes : /\ nk[m].nr_subkeys = Cardinality(Kids(m))
                         /\ nk[m].nr_subkeys > 0 => nk[m].subkey_lf \in valid
                         /\ \A c \in Kids(m) : nk[c].parent = m /\ c \in valid
    BY <1>1, <1>2 DEF Declared, Owes
  <2> QED BY <1>1, <1>3, <2>1 DEF Declared
<1>5. Listed'
  BY <1>1, <1>2, <1>3 DEF Listed
<1>6. Visiting'
  <2>1. Len(frames') = 1 /\ frames'[1].node = nk[n].parent /\ frames'[1].rest = <<n>>
    BY <1>1
  <2>2. ToSet(<<n>>) = {n}
    BY ToSetOne
  <2>3. \A i \in 1 .. Len(frames') : i = 1
    BY <2>1
  <2>4. 1 .. (Len(frames') - 1) = {} /\ ~(Len(frames') > 1)
    BY <2>1
  <2>5. \A i \in 1 .. Len(frames') : \A c \in ToSet(frames'[i].rest) :
          c \in DOMAIN nk' /\ nk'[c].parent = frames'[i].node
    BY <1>1, <2>1, <2>2, <2>3
  <2> QED BY <1>1, <2>1, <2>4, <2>5 DEF Visiting
<1> QED BY <1>4, <1>5, <1>6

(* The visitor's stack when a node is visited. *)
LEMMA VisitPushes ==
  ASSUME NEW t, NEW c, RecordsInv, StackInv, VisitNode, t = Top, c = Head(t.rest)
  PROVE  /\ t = frames[1] /\ t.rest \in Seq(Nat) /\ t.rest # <<>>
         /\ c \in Nodes /\ ListsOK(c) /\ Len(frames) \in Nat \ {0}
         /\ Len(frames') = Len(frames) + 1
         /\ frames'[1].node = c /\ frames'[1].rest = Children(c)
         /\ frames'[2].node = t.node /\ frames'[2].rest = Tail(t.rest)
         /\ \A i \in 3 .. (Len(frames) + 1) : frames'[i] = frames[i - 1]
<1>1. frames \in Seq(FrameType) /\ frames # <<>> /\ pc = "delete"
  BY DEF RecordsInv, CallInv, VisitNode
<1>2. t = frames[1] /\ t \in FrameType /\ t.rest # <<>>
  BY <1>1 DEF Top, VisitNode
<1>3. t.rest \in Seq(Nat \ {root})
  BY <1>2 DEF FrameType
<1>4. t.rest \in Seq(Nat)
  BY <1>3, SeqOver
<1>5. c \in Nodes /\ ListsOK(c)
  BY DEF VisitNode, IsNode, Nodes, ChildrenOK
<1>6. PICK a : a = [node |-> c, rest |-> Children(c)]
  OBVIOUS
<1>7. PICK b : b = [node |-> t.node, rest |-> Tail(t.rest)]
  OBVIOUS
<1>8. a.node = c /\ a.rest = Children(c) /\ b.node = t.node /\ b.rest = Tail(t.rest)
  BY <1>6, <1>7
<1>9. frames' = <<a, b>> \o Tail(frames)
  BY <1>6, <1>7 DEF VisitNode
<1>10. IsFrames(frames) /\ Len(frames) > 0 /\ Len(frames) \in Nat
  BY <1>1 DEF StackInv, IsFrames
<1>11. /\ Len(frames') = Len(frames) + 1 /\ frames'[1] = a /\ frames'[2] = b
       /\ \A i \in 3 .. Len(frames') : frames'[i] = frames[i - 1]
  BY <1>9, <1>10, Push
<1> QED BY <1>2, <1>4, <1>5, <1>8, <1>10, <1>11

LEMMA VisitNodeLinks ==
  ASSUME RecordsInv, StackInv, SoundKeys, LinksInv, VisitNode
  PROVE  LinksInv'
<1>1. /\ pc = "delete" /\ pc' = "delete" /\ target' = target
      /\ root' = root /\ valid' = valid /\ nk' = nk /\ lf' = lf /\ ri' = ri
      /\ orphans' = orphans /\ partial' = partial /\ SoundRecords
  BY DEF VisitNode, treeVars, historyVars, RecordsInv
<1> SUFFICES ASSUME ~partial PROVE Declared' /\ Listed' /\ Visiting'
  BY <1>1 DEF LinksInv
<1>2. Declared /\ Listed /\ Visiting
  BY <1>1, LinksAre
<1>3. Nodes' = Nodes /\ \A m : Kids(m)' = Kids(m)
  BY <1>1, KidsKept DEF Nodes
<1>4. PICK t : t = Top
  OBVIOUS
<1>5. PICK c : c = Head(t.rest)
  OBVIOUS
<1>6. PICK k \in Nat \ {0} : k = Len(frames)
  BY <1>4, <1>5, VisitPushes
<1>7. /\ t = frames[1] /\ t.rest \in Seq(Nat) /\ t.rest # <<>>
      /\ c \in Nodes /\ ListsOK(c) /\ Len(frames') = k + 1
      /\ frames'[1].node = c /\ frames'[1].rest = Children(c)
      /\ frames'[2].node = t.node /\ frames'[2].rest = Tail(t.rest)
      /\ \A i \in 3 .. (k + 1) : frames'[i] = frames[i - 1]
  BY <1>4, <1>5, <1>6, VisitPushes
<1>8. \A i \in 2 .. (k + 1) : frames'[i].node = frames[i - 1].node
  <2> SUFFICES ASSUME NEW i \in 2 .. (k + 1)
               PROVE  frames'[i].node = frames[i - 1].node
    OBVIOUS
  <2>1. CASE i = 2
    BY <1>7, <2>1
  <2>2. CASE i # 2
    BY <1>7, <2>2
  <2> QED BY <2>1, <2>2
<1>9. /\ c \in ToSet(t.rest) /\ ToSet(Tail(t.rest)) \subseteq ToSet(t.rest)
      /\ \A x \in ToSet(t.rest) : x = c \/ x \in ToSet(Tail(t.rest))
  <2>1. PICK s \in Seq(Nat) : s = t.rest /\ s # <<>>
    BY <1>7
  <2>2. Len(s) \in Nat \ {0} /\ c = s[1]
    BY <1>5, <2>1
  <2>3. PICK r \in Seq(Nat) : r = Tail(s)
    <3>1. Tail(s) \in Seq(Nat)
      BY <2>1
    <3> QED BY <3>1
  <2>4. Len(r) = Len(s) - 1 /\ \A i \in 1 .. (Len(s) - 1) : r[i] = s[i + 1]
    BY <2>1, <2>2, <2>3
  <2>5. \A x \in ToSet(r) : \E i \in 1 .. Len(r) : x = r[i]
    BY ToSetFacts
  <2>6. \A x \in ToSet(s) : \E i \in 1 .. Len(s) : x = s[i]
    BY ToSetFacts
  <2>7. (\A i \in 1 .. Len(s) : s[i] \in ToSet(s)) /\ \A i \in 1 .. Len(r) : r[i] \in ToSet(r)
    BY ToSetFacts
  <2>8. ASSUME NEW x \in ToSet(r) PROVE x \in ToSet(s)
    <3>1. PICK i \in 1 .. Len(r) : x = r[i]
      BY <2>5
    <3>2. i + 1 \in 1 .. Len(s) /\ x = s[i + 1]
      BY <2>2, <2>4, <3>1
    <3> QED BY <2>7, <3>2
  <2>9. ASSUME NEW x \in ToSet(s), x # c PROVE x \in ToSet(r)
    <3>1. PICK i \in 1 .. Len(s) : x = s[i]
      BY <2>6
    <3>2. i # 1
      BY <2>2, <2>9, <3>1
    <3>3. i - 1 \in 1 .. Len(r) /\ r[i - 1] = s[(i - 1) + 1] /\ (i - 1) + 1 = i
      BY <2>2, <2>4, <3>2
    <3> QED BY <2>7, <3>1, <3>3
  <2>10. c \in ToSet(s)
    <3>1. 1 \in 1 .. Len(s)
      BY <2>2
    <3> QED BY <2>2, <2>7, <3>1
  <2> QED BY <2>1, <2>3, <2>8, <2>9, <2>10
<1>10. ASSUME NEW m, NEW x, Owes(m, x)
       PROVE  Owes(m, x)'
  <2>1. PICK i \in 1 .. (k - 1) : frames[i].node = m
    BY <1>4, <1>6, <1>7, <1>10 DEF Owes
  <2>2. i + 1 \in 2 .. (k + 1) /\ i + 1 \in 1 .. ((k + 1) - 1) /\ (i + 1) - 1 = i
    OBVIOUS
  <2>3. frames'[i + 1].node = m
    BY <1>8, <2>1, <2>2
  <2> QED BY <1>1, <1>7, <2>2, <2>3 DEF Owes
<1>11. Declared'
  <2>1. \A m \in Nodes : /\ nk[m].nr_subkeys = Cardinality(Kids(m))
                         /\ nk[m].nr_subkeys > 0 => nk[m].subkey_lf \in valid
                         /\ \A x \in Kids(m) : nk[x].parent = m /\ (x \in valid \/ Owes(m, x)')
    BY <1>2, <1>10 DEF Declared
  <2> QED BY <1>1, <1>3, <2>1 DEF Declared
<1>12. Listed'
  BY <1>1, <1>2, <1>3 DEF Listed
<1>13. /\ ToSet(Children(c)) = Kids(c)
       /\ \A x \in Kids(c) : x \in DOMAIN nk /\ nk[x].parent = c
  <2>1. Open(c)
    BY <1>2, <1>7 DEF Declared, Open
  <2> QED BY <1>1, <1>2, <1>7, <2>1, KidsAre DEF Declared
<1>14. /\ \A i \in 1 .. k : \A x \in ToSet(frames[i].rest) :
            x \in DOMAIN nk /\ nk[x].parent = frames[i].node
       /\ \A i \in 1 .. (k - 1) : nk[frames[i].node].parent = frames[i + 1].node
       /\ \A i \in 1 .. (k - 1) : \A x \in Kids(frames[i].node) :
            \/ x \in ToSet(frames[i].rest) \/ x \notin valid
            \/ i > 1 /\ x = frames[i - 1].node
       /\ frames[k].node = nk[target].parent
       /\ k = 1 => \/ frames[1].rest = <<target>>
                   \/ frames[1].rest = <<>> /\ target \notin valid
       /\ k > 1 => /\ frames[k].rest = <<>>
                   /\ frames[k - 1].node = target
  BY <1>1, <1>2, <1>6 DEF Visiting
<1>15. ASSUME NEW i \in 1 .. (k + 1), NEW x \in ToSet(frames'[i].rest)
       PROVE  x \in DOMAIN nk /\ nk[x].parent = frames'[i].node
  <2>1. CASE i = 1
    BY <1>7, <1>13, <1>15, <2>1
  <2>2. CASE i = 2
    <3>1. 1 \in 1 .. k
      OBVIOUS
    <3>2. x \in ToSet(frames[1].rest)
      BY <1>7, <1>9, <1>15, <2>2
    <3> QED BY <1>7, <1>14, <2>2, <3>1, <3>2
  <2>3. CASE i > 2
    <3>1. i \in 3 .. (k + 1) /\ i - 1 \in 1 .. k
      BY <2>3
    <3> QED BY <1>7, <1>14, <1>15, <3>1
  <2> QED BY <2>1, <2>2, <2>3
<1>16. ASSUME NEW i \in 1 .. k
       PROVE  nk[frames'[i].node].parent = frames'[i + 1].node
  <2>1. CASE i = 1
    <3>1. 1 \in 1 .. k
      OBVIOUS
    <3> QED BY <1>7, <1>9, <1>14, <2>1, <3>1
  <2>2. CASE i > 1
    <3>1. i \in 2 .. (k + 1) /\ i + 1 \in 2 .. (k + 1) /\ i - 1 \in 1 .. (k - 1)
          /\ (i - 1) + 1 = i /\ (i + 1) - 1 = i
      BY <2>2
    <3>2. frames'[i].node = frames[i - 1].node /\ frames'[i + 1].node = frames[i].node
      BY <1>8, <3>1
    <3>3. nk[frames[i - 1].node].parent = frames[i].node
      BY <1>14, <3>1
    <3> QED BY <3>2, <3>3
  <2> QED BY <2>1, <2>2
<1>17. ASSUME NEW i \in 1 .. k, NEW x \in Kids(frames'[i].node)
       PROVE  \/ x \in ToSet(frames'[i].rest) \/ x \notin valid
              \/ i > 1 /\ x = frames'[i - 1].node
  <2>1. CASE i = 1
    BY <1>7, <1>13, <1>17, <2>1
  <2>2. CASE i = 2
    <3>1. 1 \in 1 .. (k - 1)
      BY <2>2
    <3>2. x \in ToSet(t.rest) \/ x \notin valid
      BY <1>7, <1>14, <1>17, <2>2, <3>1
    <3> QED BY <1>7, <1>9, <2>2, <3>2
  <2>3. CASE i > 2
    <3>1. i \in 3 .. (k + 1) /\ i - 1 \in 1 .. (k - 1) /\ i - 1 > 1
          /\ i - 1 \in 2 .. (k + 1)
      BY <2>3
    <3>2. frames'[i] = frames[i - 1] /\ frames'[i - 1].node = frames[(i - 1) - 1].node
      BY <1>7, <1>8, <3>1
    <3>3. \/ x \in ToSet(frames[i - 1].rest) \/ x \notin valid
          \/ x = frames[(i - 1) - 1].node
      BY <1>14, <1>17, <3>1, <3>2
    <3> QED BY <2>3, <3>2, <3>3
  <2> QED BY <2>1, <2>2, <2>3
<1>18. /\ frames'[k + 1].node = nk[target].parent
       /\ frames'[k + 1].rest = <<>> /\ frames'[k].node = target
  <2>1. CASE k = 1
    <3>1. frames[1].rest = <<target>>
      BY <1>7, <1>14, <2>1
    <3>2. c = target /\ Tail(t.rest) = <<>>
      BY <1>5, <1>7, <3>1
    <3>3. frames'[2].node = nk[target].parent /\ frames'[2].rest = <<>>
      BY <1>7, <1>14, <2>1, <3>2
    <3>4. k + 1 = 2 /\ frames'[k].node = target
      BY <1>7, <2>1, <3>2
    <3> QED BY <3>3, <3>4
  <2>2. CASE k > 1
    <3>1. k + 1 \in 3 .. (k + 1) /\ k \in 2 .. (k + 1) /\ (k + 1) - 1 = k
      BY <2>2
    <3>2. frames'[k + 1] = frames[k] /\ frames'[k].node = frames[k - 1].node
      BY <1>7, <1>8, <3>1
    <3> QED BY <1>14, <2>2, <3>2
  <2> QED BY <2>1, <2>2
<1>19. Visiting'
  <2>1. Len(frames') = k + 1 /\ (k + 1) - 1 = k /\ k + 1 # 1 /\ k + 1 > 1
    BY <1>7
  <2> QED BY <1>1, <1>3, <1>15, <1>16, <1>17, <1>18, <2>1 DEF Visiting
<1> QED BY <1>11, <1>12, <1>19

(* The visitor's stack when a node has been deleted. *)
LEMMA DeletePops ==
  ASSUME RecordsInv, StackInv, DeleteNode
  PROVE  /\ Len(frames) \in Nat /\ Len(frames) > 1
         /\ Len(frames') = Len(frames) - 1
         /\ \A i \in 1 .. (Len(frames) - 1) : frames'[i] = frames[i + 1]
         /\ frames[1].rest = <<>> /\ Top = frames[1] /\ pc = "delete"
<1>1. pc = "delete" /\ Len(frames) > 1 /\ Top.rest = <<>> /\ frames' = Tail(frames)
  BY DEF DeleteNode, AtNodeEnd
<1>2. IsFrames(frames) /\ Len(frames) \in Nat
  BY <1>1 DEF StackInv, IsFrames
<1>3. Top = frames[1]
  BY Ending DEF DeleteNode
<1> QED BY <1>1, <1>2, <1>3, Pop

LEMMA DeleteNodeLinks ==
  ASSUME RecordsInv, StackInv, SoundValues, SoundKeys, LinksInv, DeleteNode
  PROVE  LinksInv'
<1>1. PICK n : n = Top.node
  OBVIOUS
<1>2. /\ SoundRecords /\ RecordTypes /\ n \in Nodes /\ n \in DOMAIN nk /\ n # root
      /\ ListsOK(n) /\ lf' = lf /\ ri' = ri /\ root' = root /\ orphans' = orphans
      /\ partial' = partial /\ target' = target /\ pc' = "delete"
  <2>1. n \in Nodes \ {root} /\ n \in DOMAIN nk
    BY <1>1, Ending DEF DeleteNode
  <2> QED BY <1>1, <2>1 DEF RecordsInv, SoundRecords, DeleteNode, AtNodeEnd, historyVars
<1>3. PICK k \in Nat : k = Len(frames)
  BY DeletePops
<1>4. /\ k > 1 /\ Len(frames') = k - 1
      /\ \A i \in 1 .. (k - 1) : frames'[i] = frames[i + 1]
      /\ frames[1].rest = <<>> /\ n = frames[1].node /\ pc = "delete"
  BY <1>1, <1>3, DeletePops
<1> SUFFICES ASSUME ~partial PROVE Declared' /\ Listed' /\ Visiting'
  BY <1>2 DEF LinksInv
<1>5. Declared /\ Listed /\ Visiting
  BY <1>4, LinksAre
<1>6. PICK F : F = ToSet(NodeBlocks(n)) \cup
                   (IF LastUse(n) THEN {nk[n].sk} ELSE {})
  OBVIOUS
<1>7. valid' = valid \ F
  BY <1>1, <1>6 DEF DeleteNode
<1>8. F \cap (DOMAIN lf \cup DOMAIN ri) \subseteq ToSet(Blocks(n)) /\ n \in F
  BY <1>1, <1>6, DeleteNodeLists
<1>9. Nodes' = Nodes \ {n} /\ n \notin valid'
  <2>1. Nodes' = Nodes \ {n}
    BY <1>1, <1>2, DeleteNodeFrees
  <2> QED BY <1>7, <1>8, <2>1
<1>10. PICK g : g = Emptied(n)
  OBVIOUS
<1>11. LinkFieldsKept /\ DOMAIN nk' = DOMAIN nk
  <2>1. /\ DOMAIN g = DOMAIN nk /\ \A m \in DOMAIN nk : m # n => g[m] = nk[m]
        /\ g[n].parent = nk[n].parent /\ g[n].nr_subkeys = nk[n].nr_subkeys
        /\ g[n].subkey_lf = nk[n].subkey_lf
    BY <1>2, <1>10, EmptiedFacts
  <2>2. nk' = g
    BY <1>1, <1>10 DEF DeleteNode, Emptied
  <2> QED BY <2>1, <2>2 DEF LinkFieldsKept
<1>12. \A m \in DOMAIN nk : Kids(m)' = Kids(m)
  BY <1>2, <1>11, KidsKept DEF LinkFieldsKept
<1>13. ASSUME NEW m \in Nodes
       PROVE  /\ m \in DOMAIN nk /\ nk[m].nr_subkeys = Cardinality(Kids(m)) /\ Open(m)
              /\ nk[m].nr_subkeys \in Nat
              /\ \A c \in Kids(m) : /\ c \in DOMAIN nk /\ nk[c].parent = m
                                    /\ c \in valid \/ Owes(m, c)
  <2>1. /\ nk[m].nr_subkeys = Cardinality(Kids(m)) /\ Open(m)
        /\ \A c \in Kids(m) : nk[c].parent = m /\ (c \in valid \/ Owes(m, c))
    BY <1>5 DEF Declared, Open
  <2>2. Kids(m) \subseteq DOMAIN nk
    BY <1>2, <2>1, KidsAre
  <2> QED BY <1>2, <2>1, <2>2 DEF Nodes, RecordTypes, NodeType
<1>14. /\ \A i \in 1 .. k : \A x \in ToSet(frames[i].rest) :
            x \in DOMAIN nk /\ nk[x].parent = frames[i].node
       /\ \A i \in 1 .. (k - 1) : nk[frames[i].node].parent = frames[i + 1].node
       /\ \A i \in 1 .. (k - 1) : \A x \in Kids(frames[i].node) :
            \/ x \in ToSet(frames[i].rest) \/ x \notin valid
            \/ i > 1 /\ x = frames[i - 1].node
       /\ frames[k].node = nk[target].parent
       /\ frames[k].rest = <<>> /\ frames[k - 1].node = target
  BY <1>3, <1>4, <1>5 DEF Visiting
<1>15. /\ target \in DOMAIN nk
       /\ \A i \in 1 .. (k - 1) : frames[i].node \in DOMAIN nk
  BY <1>3, <1>4 DEF RecordsInv, CallInv, Nodes
<1>16. nk[n].parent = frames[2].node
  <2>1. 1 \in 1 .. (k - 1) /\ 1 + 1 = 2
    BY <1>4
  <2>2. nk[frames[1].node].parent = frames[1 + 1].node
    BY <1>14, <2>1
  <2> QED BY <1>4, <2>1, <2>2
<1>17. ASSUME NEW m \in Nodes, m # n, nk[m].nr_subkeys > 0
       PROVE  nk[m].subkey_lf \in valid'
  <2>1. Live(m) /\ Shaped(m)
    BY <1>13, <1>17 DEF Live, Open, SoundKeys
  <2>2. nk[m].subkey_lf \in DOMAIN lf \cup DOMAIN ri /\ nk[m].subkey_lf \in valid
    BY <2>1 DEF Shaped, Live
  <2>3. nk[m].subkey_lf \notin ToSet(Blocks(n))
    <3>1. CASE nk[n].nr_subkeys = 0
      BY <1>2, <3>1, BlocksAreListing
    <3>2. CASE nk[n].nr_subkeys # 0
      <4>1. Live(n) /\ ToSet(Blocks(n)) = Listing(n)
        BY <1>2, <3>2, BlocksAreListing
      <4>2. Listing(m) \cap Listing(n) = {}
        BY <1>2, <1>17, <2>1, <4>1 DEF SoundKeys, Separate
      <4> QED BY <4>1, <4>2 DEF Listing
    <3> QED BY <3>1, <3>2
  <2> QED BY <1>7, <1>8, <2>2, <2>3
<1>18. ASSUME NEW m \in Nodes, m # n, NEW c \in Kids(m)
       PROVE  c \in valid' \/ Owes(m, c)'
  <2>1. CASE c = n
    <3>1. m = frames[2].node
      BY <1>13, <1>16, <1>18, <2>1
    <3>2. CASE k = 2
      <4>1. n = target /\ Len(frames') = 1
        BY <1>4, <1>14, <3>2
      <4>2. frames'[1].rest = <<>>
        BY <1>4, <1>14, <3>2
      <4>3. Top' = frames'[1]
        BY DEF Top
      <4> QED BY <1>2, <2>1, <4>1, <4>2, <4>3 DEF Owes
    <3>3. CASE k > 2
      <4>1. 1 \in 1 .. (k - 1) /\ 1 \in 1 .. ((k - 1) - 1) /\ 1 + 1 = 2
        BY <3>3
      <4>2. frames'[1] = frames[1 + 1]
        BY <1>4, <4>1
      <4>3. frames'[1].node = m
        BY <3>1, <4>1, <4>2
      <4> QED BY <1>2, <1>4, <4>1, <4>3 DEF Owes
    <3> QED BY <1>4, <3>2, <3>3
  <2>2. CASE c # n /\ c \in valid
    <3>1. c \in Nodes
      BY <1>13, <1>18, <2>2 DEF Nodes
    <3> QED BY <1>9, <2>2, <3>1 DEF Nodes
  <2>3. CASE c \notin valid
    <3>1. Owes(m, c)
      BY <1>13, <1>18, <2>3
    <3>2. PICK i \in 1 .. (k - 1) : frames[i].node = m
      BY <1>3, <1>4, <3>1 DEF Owes
    <3>3. i # 1
      BY <1>4, <1>18, <3>2
    <3>4. i - 1 \in 1 .. ((k - 1) - 1) /\ i - 1 \in 1 .. (k - 1) /\ (i - 1) + 1 = i
      BY <3>3
    <3>5. frames'[i - 1].node = m
      <4>1. frames'[i - 1] = frames[(i - 1) + 1]
        BY <1>4, <3>4
      <4> QED BY <3>2, <3>4, <4>1
    <3> QED BY <1>2, <1>4, <3>4, <3>5 DEF Owes
  <2> QED BY <2>1, <2>2, <2>3
<1>19. Declared'
  <2> SUFFICES ASSUME NEW m \in Nodes, m # n
               PROVE  /\ nk'[m].nr_subkeys = Cardinality(Kids(m)')
                      /\ nk'[m].nr_subkeys > 0 => nk'[m].subkey_lf \in valid'
                      /\ \A c \in Kids(m)' : nk'[c].parent = m /\ (c \in valid' \/ Owes(m, c)')
    BY <1>9 DEF Declared
  <2>1. /\ m \in DOMAIN nk /\ Kids(m)' = Kids(m)
        /\ nk'[m].nr_subkeys = nk[m].nr_subkeys /\ nk'[m].subkey_lf = nk[m].subkey_lf
    BY <1>11, <1>12, <1>13 DEF LinkFieldsKept
  <2>2. \A c \in Kids(m) : nk'[c].parent = m
    BY <1>11, <1>13 DEF LinkFieldsKept
  <2> QED BY <1>13, <1>17, <1>18, <2>1, <2>2
<1>20. Listed'
  <2> SUFFICES ASSUME NEW m \in Nodes, m # n, m # root, m \notin orphans
               PROVE  \E q \in Nodes' : q = nk'[m].parent /\ m \in Kids(q)'
    BY <1>2, <1>9 DEF Listed
  <2>1. PICK q \in Nodes : q = nk[m].parent /\ m \in Kids(q)
    BY <1>5 DEF Listed
  <2>2. q # n
    <3> SUFFICES ASSUME q = n PROVE FALSE
      OBVIOUS
    <3>1. 1 \in 1 .. (k - 1) /\ ~(1 > 1)
      BY <1>4
    <3>2. m \in ToSet(<<>>) \/ m \notin valid
      BY <1>4, <1>14, <2>1, <3>1
    <3> QED BY <3>2, ToSetNone DEF Nodes
  <2>3. m \in DOMAIN nk /\ q \in DOMAIN nk
    BY DEF Nodes
  <2>4. nk'[m].parent = q /\ Kids(q)' = Kids(q)
    BY <1>11, <1>12, <2>1, <2>3 DEF LinkFieldsKept
  <2> QED BY <1>9, <2>1, <2>2, <2>4
<1>21. ASSUME NEW i \in 1 .. (k - 1), NEW x \in ToSet(frames'[i].rest)
       PROVE  x \in DOMAIN nk' /\ nk'[x].parent = frames'[i].node
  <2>1. i + 1 \in 1 .. k /\ frames'[i] = frames[i + 1]
    BY <1>4
  <2>2. x \in DOMAIN nk /\ nk[x].parent = frames[i + 1].node
    BY <1>14, <1>21, <2>1
  <2> QED BY <1>11, <2>1, <2>2 DEF LinkFieldsKept
<1>22. ASSUME NEW i \in 1 .. ((k - 1) - 1)
       PROVE  nk'[frames'[i].node].parent = frames'[i + 1].node
  <2>1. i \in 1 .. (k - 1) /\ i + 1 \in 1 .. (k - 1)
    OBVIOUS
  <2>2. frames'[i] = frames[i + 1] /\ frames'[i + 1] = frames[(i + 1) + 1]
    BY <1>4, <2>1
  <2>3. nk[frames[i + 1].node].parent = frames[(i + 1) + 1].node
    BY <1>14, <2>1
  <2>4. frames[i + 1].node \in DOMAIN nk
    BY <1>15, <2>1
  <2> QED BY <1>11, <2>2, <2>3, <2>4 DEF LinkFieldsKept
<1>23. ASSUME NEW i \in 1 .. ((k - 1) - 1), NEW x \in Kids(frames'[i].node)
       PROVE  \/ x \in ToSet(frames'[i].rest) \/ x \notin valid'
              \/ i > 1 /\ x = frames'[i - 1].node
  <2>1. i \in 1 .. (k - 1) /\ i + 1 \in 1 .. (k - 1) /\ (i + 1) - 1 = i /\ i + 1 > 1
    OBVIOUS
  <2>2. frames'[i] = frames[i + 1]
    BY <1>4, <2>1
  <2>3. PICK m : m = frames[i + 1].node
    OBVIOUS
  <2>5. x \in Kids(m)
    BY <1>23, <2>2, <2>3
  <2>6. \/ x \in ToSet(frames[i + 1].rest) \/ x \notin valid
        \/ x = frames[(i + 1) - 1].node
    BY <1>14, <2>1, <2>3, <2>5
  <2>7. CASE x = frames[i].node
    <3>1. CASE i = 1
      BY <1>4, <1>9, <2>7, <3>1
    <3>2. CASE i > 1
      <4>1. i - 1 \in 1 .. (k - 1) /\ (i - 1) + 1 = i
        BY <3>2
      <4>2. frames'[i - 1] = frames[(i - 1) + 1]
        BY <1>4, <4>1
      <4> QED BY <2>7, <3>2, <4>1, <4>2
    <3> QED BY <3>1, <3>2
  <2> QED BY <1>7, <2>1, <2>2, <2>6, <2>7
<1>24. /\ frames'[k - 1].node = nk'[target].parent /\ frames'[k - 1].rest = <<>>
       /\ k - 1 = 1 => target \notin valid'
       /\ k - 1 > 1 => frames'[(k - 1) - 1].node = target
  <2>1. k - 1 \in 1 .. (k - 1) /\ (k - 1) + 1 = k
    BY <1>4
  <2>2. frames'[k - 1] = frames[(k - 1) + 1]
    BY <1>4, <2>1
  <2>3. frames'[k - 1] = frames[k]
    BY <2>1, <2>2
  <2>4. nk'[target].parent = nk[target].parent
    BY <1>11, <1>15 DEF LinkFieldsKept
  <2>5. k - 1 = 1 => target \notin valid'
    BY <1>4, <1>9, <1>14
  <2>6. ASSUME k - 1 > 1 PROVE frames'[(k - 1) - 1].node = target
    <3>1. (k - 1) - 1 \in 1 .. (k - 1) /\ ((k - 1) - 1) + 1 = k - 1
      BY <2>6
    <3>2. frames'[(k - 1) - 1] = frames[((k - 1) - 1) + 1]
      BY <1>4, <3>1
    <3> QED BY <1>14, <3>1, <3>2
  <2> QED BY <1>14, <2>3, <2>4, <2>5, <2>6
<1>25. \A i \in 1 .. ((k - 1) - 1) : frames'[i].node \in DOMAIN nk
  <2> SUFFICES ASSUME NEW i \in 1 .. ((k - 1) - 1) PROVE frames'[i].node \in DOMAIN nk
    OBVIOUS
  <2>1. i \in 1 .. (k - 1) /\ i + 1 \in 1 .. (k - 1)
    OBVIOUS
  <2> QED BY <1>4, <1>15, <2>1
<1>26. Visiting'
  BY <1>2, <1>4, <1>12, <1>21, <1>22, <1>23, <1>24, <1>25 DEF Visiting
<1> QED BY <1>19, <1>20, <1>26

LEMMA RemoveGone ==
  ASSUME NEW S, NEW s \in Seq(S), NEW e \in ToSet(s),
         \A a, b \in 1 .. Len(s) : a < b => s[a] # s[b]
  PROVE  ToSet(RemoveFirst(s, e)) = ToSet(s) \ {e}
<1>1. PICK r \in Seq(S) : r = RemoveFirst(s, e)
  BY RemoveFirstFacts
<1>2. ToSet(r) \subseteq ToSet(s) /\ ToSet(s) \ {e} \subseteq ToSet(r)
  BY <1>1, RemoveFirstMembers
<1>3. PICK k \in 1 .. Len(s) : IsRemoved(r, s, k, e)
  BY <1>1, RemoveFirstFacts
<1>4. ASSUME e \in ToSet(r) PROVE FALSE
  <2>1. PICK j \in 1 .. Len(r) : e = r[j]
    BY <1>4, ToSetFacts
  <2>2. CASE j < k
    BY <1>3, <2>1, <2>2 DEF IsRemoved
  <2>3. CASE j >= k
    BY <1>3, <2>1, <2>3 DEF IsRemoved
  <2> QED BY <2>1, <2>2, <2>3, <1>3
<1> QED BY <1>1, <1>2, <1>4

(* The parent has lost one child, and the only one that it was. *)
LEMMA UnlinkKids ==
  ASSUME NEW p, RecordsInv, SoundKeys, Unlink, p = Top.node
  PROVE  /\ target \in Kids(p) /\ IsFiniteSet(Kids(p))
         /\ nk[p].nr_subkeys # 1 => Kids(p)' = Kids(p) \ {target}
         /\ nk[p].nr_subkeys = 1 => Kids(p)' = {}
         /\ \A b \in ToSet(Lists(p)) : ToSet(lf'[b]) = ToSet(lf[b]) \ {target}
<1>0. SoundRecords /\ RecordTypes /\ KeyTypes
  BY DEF RecordsInv, SoundRecords, SoundKeys
<1>1. PICK h : h = HomeAt(p)
  OBVIOUS
<1>2. PICK L : L = Lists(p)
  OBVIOUS
<1>3. PICK c : c = L[h]
  OBVIOUS
<1>4. PICK e : e = target
  OBVIOUS
<1>5. /\ p \in Nodes /\ p \in DOMAIN nk /\ ListsOK(p) /\ e \in ToSet(Children(p))
      /\ c \in valid \cap DOMAIN lf
      /\ \A b \in DOMAIN lf : b # c => lf'[b] = lf[b]
      /\ lf'[c] = RemoveFirst(lf[c], e)
      /\ nk[p].nr_subkeys > 0 /\ nk'[p].nr_subkeys = nk[p].nr_subkeys - 1
      /\ nk'[p].subkey_lf = nk[p].subkey_lf /\ nk[p].nr_subkeys \in Nat
  BY <1>0, <1>1, <1>2, <1>3, <1>4, UnlinkFacts DEF RecordTypes, NodeType
<1>6. ri' = ri
  BY DEF Unlink
<1>7. h \in DOMAIN L /\ e \in ToSet(lf[c])
  BY <1>0, <1>1, <1>2, <1>3, <1>4, <1>5, HomeFacts
<1>8. Live(p) /\ Shaped(p) /\ Sorted(p) /\ Open(p)
  <2>1. nk[p].subkey_lf \in valid
    BY <1>5 DEF ListsOK
  <2> QED BY <1>5, <2>1 DEF Live, SoundKeys, Open
<1>9. e \in Kids(p) /\ IsFiniteSet(Kids(p))
  BY <1>0, <1>5, <1>8, KidsAre
<1>10. PICK D : D = DOMAIN nk
  OBVIOUS
<1>11. PICK ss \in Seq(Seq(D)) : ss = Content(p)
  BY <1>0, <1>5, <1>8, <1>10, ShapedLists
<1>12. /\ L \in Seq(Nat) /\ DOMAIN L = 1 .. Len(L) /\ Len(ss) = Len(L)
       /\ \A i \in 1 .. Len(L) : ss[i] = lf[L[i]] /\ L[i] \in valid \cap DOMAIN lf
  BY <1>0, <1>2, <1>5, <1>8, <1>11, ShapedLists
<1>13. PICK key : key = Key
  OBVIOUS
<1>14. Ascending(ss, key) /\ \A x \in D : key[x] \in Int
  BY <1>0, <1>8, <1>10, <1>11, <1>13 DEF Sorted, Key, KeyTypes
<1>15. h \in 1 .. Len(L) /\ ss[h] = lf[c]
  BY <1>3, <1>7, <1>12
<1>16. PICK s \in Seq(D) : s = ss[h]
  BY <1>12, <1>15
<1>17. \A a, b \in 1 .. Len(s) : a < b => s[a] # s[b]
  <2> SUFFICES ASSUME NEW a \in 1 .. Len(s), NEW b \in 1 .. Len(s), a < b,
                      s[a] = s[b]
               PROVE  FALSE
    OBVIOUS
  <2>1. Before(h, a, h, b)
    BY <1>15 DEF Before
  <2>2. key[s[a]] < key[s[b]]
    BY <1>12, <1>14, <1>15, <1>16, <2>1 DEF Ascending
  <2>3. key[s[a]] \in Int
    BY <1>14
  <2> QED BY <2>2, <2>3
<1>18. ToSet(lf'[c]) = ToSet(lf[c]) \ {e}
  <2>1. e \in ToSet(s)
    BY <1>7, <1>15, <1>16
  <2>2. ToSet(RemoveFirst(s, e)) = ToSet(s) \ {e}
    BY <1>17, <2>1, RemoveGone
  <2> QED BY <1>5, <1>15, <1>16, <2>2
<1>19. ASSUME NEW b \in ToSet(L), b # c
       PROVE  e \notin ToSet(lf[b]) /\ lf'[b] = lf[b]
  <2>1. PICK i \in 1 .. Len(L) : b = L[i]
    BY <1>12, ToSetFacts
  <2>2. i # h /\ b \in DOMAIN lf
    BY <1>3, <1>12, <1>19, <2>1
  <2>3. ASSUME e \in ToSet(lf[b]) PROVE FALSE
    <3>1. PICK w \in Seq(D) : w = ss[i]
      BY <1>12, <2>1
    <3>2. PICK j \in 1 .. Len(w) : e = w[j]
      BY <1>12, <2>1, <2>3, <3>1, ToSetFacts
    <3>0. e \in ToSet(s)
      BY <1>7, <1>15, <1>16
    <3>3. PICK m \in 1 .. Len(s) : e = s[m]
      BY <3>0, ToSetFacts
    <3>4. Before(i, j, h, m) \/ Before(h, m, i, j)
      BY <1>15, <2>1, <2>2 DEF Before
    <3>5. i \in 1 .. Len(ss) /\ h \in 1 .. Len(ss)
      BY <1>12, <1>15, <2>1
    <3>6. key[e] < key[e]
      BY <1>14, <1>16, <3>1, <3>2, <3>3, <3>4, <3>5 DEF Ascending
    <3>7. e \in D
      BY <3>3
    <3> QED BY <1>14, <3>6, <3>7
  <2> QED BY <1>5, <1>19, <2>2, <2>3
<1>20. c \in ToSet(L)
  BY <1>3, <1>12, <1>15, ToSetFacts
<1>21. \A b \in ToSet(L) : ToSet(lf'[b]) = ToSet(lf[b]) \ {e}
  BY <1>18, <1>19
<1>22. Lists(p)' = L
  BY <1>2, <1>5, <1>6 DEF Lists
<1>23. CASE nk[p].nr_subkeys = 1
  <2>1. Kids(p)' = {}
    BY <1>5, <1>23 DEF Kids
  <2> QED BY <1>2, <1>4, <1>9, <1>21, <1>23, <2>1
<1>24. CASE nk[p].nr_subkeys # 1
  <2>1. Kids(p)' = UNION {ToSet(lf'[b]) : b \in ToSet(L)}
    BY <1>5, <1>22, <1>24 DEF Kids
  <2>2. Kids(p) = UNION {ToSet(lf[b]) : b \in ToSet(L)}
    BY <1>2, <1>5 DEF Kids
  <2>3. \A x : x \in Kids(p)' <=> \E b \in ToSet(L) : x \in ToSet(lf'[b])
    BY <2>1
  <2>4. \A x : x \in Kids(p) <=> \E b \in ToSet(L) : x \in ToSet(lf[b])
    BY <2>2
  <2>5. \A x : x \in Kids(p)' <=> x \in Kids(p) /\ x # e
    <3>1. \A b \in ToSet(L) : \A x :
            x \in ToSet(lf'[b]) <=> x \in ToSet(lf[b]) /\ x # e
      BY <1>21
    <3> QED BY <2>3, <2>4, <3>1, ZenonT(60)
  <2> QED BY <1>2, <1>4, <1>9, <1>21, <1>24, <2>5
<1> QED BY <1>23, <1>24

LEMMA UnlinkLinks ==
  ASSUME RecordsInv, SoundKeys, LinksInv, Unlink
  PROVE  LinksInv'
<1>0. SoundRecords /\ RecordTypes /\ KeyTypes
  BY DEF RecordsInv, SoundRecords, SoundKeys
<1>1. PICK p : p = Top.node
  OBVIOUS
<1>2. PICK e : e = target
  OBVIOUS
<1>3. PICK c : c = Lists(p)[HomeAt(p)]
  OBVIOUS
<1>4. /\ p \in Nodes /\ p \in DOMAIN nk /\ ListsOK(p) /\ e \in ToSet(Children(p))
      /\ c \in valid \cap DOMAIN lf /\ DOMAIN lf' = DOMAIN lf
      /\ \A b \in DOMAIN lf : b # c => lf'[b] = lf[b]
      /\ DOMAIN nk' = DOMAIN nk
      /\ \A m \in DOMAIN nk : m # p => nk'[m] = nk[m]
      /\ nk[p].nr_subkeys > 0 /\ nk'[p].nr_subkeys = nk[p].nr_subkeys - 1
      /\ nk'[p].parent = nk[p].parent
      /\ nk'[p].subkey_lf = nk[p].subkey_lf /\ nk[p].nr_subkeys \in Nat
  <2>1. /\ p \in Nodes /\ p \in DOMAIN nk /\ ListsOK(p) /\ target \in ToSet(Children(p))
        /\ Lists(p)[HomeAt(p)] \in valid \cap DOMAIN lf /\ DOMAIN lf' = DOMAIN lf
        /\ \A b \in DOMAIN lf : b # Lists(p)[HomeAt(p)] => lf'[b] = lf[b]
        /\ DOMAIN nk' = DOMAIN nk
        /\ \A m \in DOMAIN nk : m # p => nk'[m] = nk[m]
        /\ nk[p].nr_subkeys > 0 /\ nk'[p].nr_subkeys = nk[p].nr_subkeys - 1
        /\ nk'[p].parent = nk[p].parent
        /\ nk'[p].subkey_lf = nk[p].subkey_lf
    BY <1>0, <1>1, UnlinkFacts
  <2>2. nk[p].nr_subkeys \in Nat
    BY <1>0, <2>1 DEF RecordTypes, NodeType
  <2> QED BY <1>2, <1>3, <2>1, <2>2
<1>5. /\ valid' = valid /\ ri' = ri /\ root' = root /\ orphans' = orphans
      /\ partial' = partial /\ pc = "delete" /\ pc' = "idle"
      /\ Len(frames) = 1 /\ Top.rest = <<>>
  BY DEF Unlink, Return, historyVars
<1>6. /\ e \in Kids(p) /\ IsFiniteSet(Kids(p))
      /\ nk[p].nr_subkeys # 1 => Kids(p)' = Kids(p) \ {e}
      /\ nk[p].nr_subkeys = 1 => Kids(p)' = {}
  BY <1>1, <1>2, UnlinkKids
<1> SUFFICES ASSUME ~partial PROVE Declared' /\ Listed' /\ Visiting'
  BY <1>5 DEF LinksInv
<1>7. Declared /\ Listed /\ Visiting
  BY <1>5, LinksAre
<1>8. Top = frames[1]
  BY DEF Top
<1>9. e \notin valid /\ nk[e].parent = p
  <2>1. /\ frames[1].node = nk[target].parent
        /\ frames[1].rest = <<target>> \/ target \notin valid
    BY <1>5, <1>7 DEF Visiting
  <2>2. <<target>> # <<>>
    OBVIOUS
  <2> QED BY <1>1, <1>2, <1>5, <1>8, <2>1, <2>2
<1>10. ASSUME NEW n \in Nodes
       PROVE  /\ nk[n].nr_subkeys = Cardinality(Kids(n)) /\ Open(n)
              /\ \A x \in Kids(n) : /\ x \in DOMAIN nk /\ nk[x].parent = n
                                    /\ x \in valid \/ x = e
  <2>1. /\ nk[n].nr_subkeys = Cardinality(Kids(n)) /\ Open(n)
        /\ \A x \in Kids(n) : nk[x].parent = n /\ (x \in valid \/ Owes(n, x))
    BY <1>7 DEF Declared, Open
  <2>2. Kids(n) \subseteq DOMAIN nk
    BY <1>0, <2>1, KidsAre
  <2>3. \A x : Owes(n, x) => x = e
    BY <1>2, <1>5 DEF Owes
  <2> QED BY <2>1, <2>2, <2>3
<1>11. Kids(p)' = Kids(p) \ {e} /\ Cardinality(Kids(p) \ {e}) = nk'[p].nr_subkeys
  <2>1. Cardinality(Kids(p) \ {e}) = nk[p].nr_subkeys - 1 /\ IsFiniteSet(Kids(p) \ {e})
    BY <1>4, <1>6, <1>10, FS_RemoveElement
  <2>2. CASE nk[p].nr_subkeys = 1
    <3>1. Cardinality(Kids(p) \ {e}) = 0
      BY <2>1, <2>2
    <3>2. Kids(p) \ {e} = {}
      BY <2>1, <3>1, FS_EmptySet
    <3> QED BY <1>4, <1>6, <2>1, <2>2, <3>2
  <2>3. CASE nk[p].nr_subkeys # 1
    BY <1>4, <1>6, <2>1, <2>3
  <2> QED BY <2>2, <2>3
<1>12. Nodes' = Nodes
  BY <1>4, <1>5 DEF Nodes
<1>13. Live(p)
  BY <1>4, <1>10 DEF Live, Open
<1>14. ASSUME NEW m \in Nodes, m # p
       PROVE  Kids(m)' = Kids(m) /\ nk'[m] = nk[m]
  <2>1. m \in DOMAIN nk /\ nk'[m] = nk[m] /\ nk[m].nr_subkeys \in Nat
    BY <1>0, <1>4, <1>14 DEF Nodes, RecordTypes, NodeType
  <2>2. CASE nk[m].nr_subkeys = 0
    BY <2>1, <2>2, KidsSame
  <2>3. CASE nk[m].nr_subkeys # 0
    <3>1. Live(m) /\ Shaped(m)
      BY <1>10, <2>1, <2>3 DEF Live, Open, SoundKeys
    <3>2. Listing(m) \cap Listing(p) = {}
      BY <1>4, <1>13, <1>14, <3>1 DEF SoundKeys, Separate
    <3>3. c \in Listing(p)
      <4>1. HomeAt(p) \in DOMAIN Lists(p)
        BY <1>0, <1>2, <1>4, HomeFacts
      <4> QED BY <1>3, <4>1 DEF Listing, ToSet
    <3>4. ToSet(Lists(m)) \subseteq Listing(m) /\ ToSet(Lists(m)) \subseteq valid \cap DOMAIN lf
      BY <3>1 DEF Listing, Shaped
    <3>5. \A b \in ToSet(Lists(m)) : b \in DOMAIN lf' /\ b \in valid' /\ lf'[b] = lf[b]
      BY <1>4, <1>5, <3>2, <3>3, <3>4
    <3>6. Untouched(m)
      BY <1>4, <1>5, <2>1, <3>1, <3>5 DEF Untouched, Shaped
    <3> QED BY <2>1, <3>6, KidsSame
  <2> QED BY <2>2, <2>3
<1>15. \A x \in DOMAIN nk : nk'[x].parent = nk[x].parent
  BY <1>4
<1>16. ASSUME NEW n \in Nodes
       PROVE  /\ nk'[n].nr_subkeys = Cardinality(Kids(n)')
              /\ nk'[n].nr_subkeys > 0 => nk'[n].subkey_lf \in valid'
              /\ \A x \in Kids(n)' : nk'[x].parent = n /\ x \in valid'
  <2>1. CASE n = p
    <3>1. nk'[p].subkey_lf \in valid'
      BY <1>4, <1>5, <1>13 DEF Live
    <3>2. \A x \in Kids(p)' : nk'[x].parent = p /\ x \in valid'
      BY <1>4, <1>5, <1>10, <1>11, <1>15
    <3> QED BY <1>11, <2>1, <3>1, <3>2
  <2>2. CASE n # p
    <3>1. e \notin Kids(n)
      BY <1>9, <1>10, <2>2
    <3> QED BY <1>5, <1>10, <1>14, <1>15, <2>2, <3>1 DEF Open
  <2> QED BY <2>1, <2>2
<1>17. Declared'
  BY <1>12, <1>16 DEF Declared
<1>18. Listed'
  <2> SUFFICES ASSUME NEW n \in Nodes, n # root, n \notin orphans
               PROVE  \E q \in Nodes' : q = nk'[n].parent /\ n \in Kids(q)'
    BY <1>5, <1>12 DEF Listed
  <2>1. PICK q \in Nodes : q = nk[n].parent /\ n \in Kids(q)
    BY <1>7 DEF Listed
  <2>2. n # e /\ n \in DOMAIN nk
    BY <1>9 DEF Nodes
  <2>3. n \in Kids(q)'
    BY <1>11, <1>14, <2>1, <2>2
  <2> QED BY <1>12, <1>15, <2>1, <2>2, <2>3
<1> QED BY <1>5, <1>17, <1>18 DEF Visiting

(* A call that fails before it has freed anything. *)
LEMMA DeleteFailsLinks ==
  ASSUME RecordsInv, SoundKeys, LinksInv, DeleteFails
  PROVE  LinksInv'
<1>1. /\ nk' = nk /\ lf' = lf /\ ri' = ri /\ root' = root /\ valid' = valid
      /\ orphans' = orphans /\ pc = "delete" /\ pc' = "idle"
      /\ partial' = (partial \/ Len(frames) > 1 \/ Top.rest = <<>>)
  BY DEF DeleteFails, Return, treeVars
<1> SUFFICES ASSUME ~partial' PROVE Declared' /\ Listed' /\ Visiting'
  BY DEF LinksInv
<1>2. ~partial /\ ~(Len(frames) > 1) /\ Top.rest # <<>>
  BY <1>1
<1>3. Declared /\ Listed
  BY <1>1, <1>2, LinksAre
<1>4. frames \in Seq(FrameType)
  BY <1>1 DEF RecordsInv, CallInv
<1>5. \A n, c : ~Owes(n, c)
  <2>1. Len(frames) \in Nat
    BY <1>4
  <2>2. \A i \in 1 .. (Len(frames) - 1) : FALSE
    BY <1>2, <2>1
  <2> QED BY <1>2, <2>2 DEF Owes
<1>6. Nodes' = Nodes /\ \A m : Kids(m)' = Kids(m)
  BY <1>1, KidsKept DEF Nodes
<1>7. Declared'
  <2>1. \A m \in Nodes : /\ nk[m].nr_subkeys = Cardinality(Kids(m))
                         /\ nk[m].nr_subkeys > 0 => nk[m].subkey_lf \in valid
                         /\ \A c \in Kids(m) : nk[c].parent = m /\ c \in valid
    BY <1>3, <1>5 DEF Declared
  <2> QED BY <1>1, <1>6, <2>1 DEF Declared
<1>8. Listed'
  BY <1>1, <1>3, <1>6 DEF Listed
<1> QED BY <1>1, <1>7, <1>8 DEF Visiting

-----------------------------------------------------------------------------
(* The theorem *)

LEMMA NextLinks ==
  RecordsInv /\ StackInv /\ SoundValues /\ SoundKeys /\ LinksInv /\ [Next]_vars
    => LinksInv'
<1> SUFFICES ASSUME RecordsInv, StackInv, SoundValues, SoundKeys, LinksInv,
                    [Next]_vars
             PROVE  LinksInv'
  OBVIOUS
<1>1. CASE UNCHANGED vars
  <2>1. /\ nk' = nk /\ lf' = lf /\ ri' = ri /\ root' = root /\ valid' = valid
        /\ orphans' = orphans /\ partial' = partial /\ pc' = pc
        /\ frames' = frames /\ target' = target
    BY <1>1 DEF vars, treeVars, callVars, historyVars
  <2>2. Nodes' = Nodes /\ (\A m : Kids(m)' = Kids(m)) /\ Top' = Top
    BY <2>1, KidsKept DEF Nodes, Top
  <2>3. \A n, c : Owes(n, c)' <=> Owes(n, c)
    BY <2>1, <2>2 DEF Owes
  <2>4. Declared => Declared'
    BY <2>1, <2>2, <2>3 DEF Declared
  <2>5. Listed => Listed'
    BY <2>1, <2>2 DEF Listed
  <2>6. Visiting => Visiting'
    BY <2>1, <2>2 DEF Visiting
  <2> QED BY <2>1, <2>4, <2>5, <2>6 DEF LinksInv
<1>2. CASE OutOfMemory
  BY <1>2, RefuseLinks DEF OutOfMemory
<1>3. ASSUME NEW n \in handles, NEW name \in Names,
             \/ AddChildRefused(n, name) \/ AddChildNoSk(n, name)
             \/ AddChildFails(n, name) \/ AddFirstChild(n, name)
             \/ InsertChild(n, name)
      PROVE  LinksInv'
  <2>1. CASE AddChildRefused(n, name)
    BY <2>1, RefuseLinks DEF AddChildRefused
  <2> QED BY <1>3, <2>1, NoSkNever, AddChildFailsLinks, AddChildLinks
<1>4. ASSUME NEW n \in handles, DeleteRefused(n) \/ SetValueRefused(n)
      PROVE  LinksInv'
  BY <1>4, RefuseLinks DEF DeleteRefused, SetValueRefused
<1>5. ASSUME NEW n \in handles, DeleteBegin(n)
      PROVE  LinksInv'
  BY <1>5, DeleteBeginLinks
<1>6. ASSUME NEW n \in handles, NEW vs \in ValueLists, SetValues(n, vs)
      PROVE  LinksInv'
  <2>1. vs \in Seq(ValueType)
    BY HiveTreeAssumption
  <2> QED BY <1>6, <2>1, SetValuesLinks
<1>7. ASSUME NEW n \in handles, NEW v \in Values, SetValue(n, v)
      PROVE  LinksInv'
  <2>1. Replaced(n, v) \in Seq(ValueType)
    BY <1>7, ReplacedType, HiveTreeAssumption DEF SetValue, RecordsInv
  <2> QED BY <1>7, <2>1, SetValuesLinks DEF SetValue
<1>8. CASE VisitNode \/ DeleteNode
  BY <1>8, VisitNodeLinks, DeleteNodeLinks
<1>9. CASE DeleteNodeNoSk \/ DeleteNodeNoValues
  BY <1>9 DEF DeleteNodeNoSk, DeleteNodeNoValues, LinksInv
<1>10. CASE DeleteNodeAborts
  BY <1>10 DEF DeleteNodeAborts, Abort, LinksInv
<1>11. CASE Unlink \/ DeleteFails
  BY <1>11, UnlinkLinks, DeleteFailsLinks
<1>12. CASE StoreValue \/ StoreDataFails \/ StoreRecordFails
  BY <1>12, StoreLinks
<1> QED
  BY <1>1, <1>2, <1>3, <1>4, <1>5, <1>6, <1>7, <1>8, <1>9, <1>10, <1>11, <1>12
  DEF Next

(* On a hive of any size whose links agree when it is opened, they agree   *)
(* between any two calls, until a hivex_node_delete_child fails half way:  *)
(* every node declares as many children as its lists hold, they name it as *)
(* their parent, and every node but the root and what a failed             *)
(* hivex_node_add_child left behind is listed by its parent.               *)
THEOREM LinksAgreeCorrect ==
  Spec /\ SoundRecords /\ SoundValues /\ SoundKeys /\ LinksAgree => []LinksAgree
BY LinksAgreeIs, InitLinks, NextLinks, InitStack, NextStack, InitRecords,
   NextRecords, InitSet, NextSet, NextValues, NextKeys, PTL
DEF Spec

-----------------------------------------------------------------------------
(* Blocks that are in use *)

(* A node without values has no value list, ... *)
Tidy == \A n \in Nodes : nk[n].nr_values = 0 => nk[n].vallist \notin valid

(* ... and hivex_node_set_values has linked no block behind the values it  *)
(* has stored.                                                             *)
Unset ==
  pc = "set" =>
    \A i \in (stored + 1) .. Len(list) : vl[nk[target].vallist][i] = Zero

(* The blocks that belong to a node, also while its values are stored. *)
Uses(n) ==
  {n, nk[n].vallist, nk[n].classname} \cup Vals(n) \cup Datas(n)
    \cup (IF nk[n].nr_subkeys = 0 THEN {} ELSE Listing(n))

(* A list that a node without children has left behind. *)
Spare(b) == b \in DOMAIN ri \/ (b \in DOMAIN lf /\ lf[b] = <<>>)

Accounted ==
  \A b \in valid : b \in DOMAIN sk \/ Spare(b) \/ \E n \in Nodes : b \in Uses(n)

(* No call has failed half way. *)
Quiet == torn = {} /\ orphans = {} /\ ~partial /\ pc # "aborted"

LeaksInv == Tidy /\ Unset /\ (Quiet => Accounted)

LEMMA AccountedKept ==
  ASSUME Accounted, DOMAIN sk' = DOMAIN sk, \A b : Spare(b) => Spare(b)',
         \A b \in valid' : b \in valid \/ \E n \in Nodes' : b \in Uses(n)',
         \A n \in Nodes : \A b \in valid' :
           b \in Uses(n) => Spare(b)' \/ \E m \in Nodes' : b \in Uses(m)'
  PROVE  Accounted'
<1> SUFFICES ASSUME NEW b \in valid', b \notin DOMAIN sk, ~Spare(b)'
             PROVE  \E n \in Nodes' : b \in Uses(n)'
  BY DEF Accounted
<1>1. CASE b \notin valid
  BY <1>1
<1>2. CASE b \in valid
  <2>1. PICK n \in Nodes : b \in Uses(n)
    BY <1>2 DEF Accounted
  <2> QED BY <2>1
<1> QED BY <1>1, <1>2

LEMMA SpareKept ==
  ASSUME DOMAIN ri \subseteq DOMAIN ri',
         \A b \in DOMAIN lf : b \in DOMAIN lf' /\ lf'[b] = lf[b]
  PROVE  \A b : Spare(b) => Spare(b)'
BY DEF Spare

LEMMA UsesKept ==
  ASSUME NEW m \in Nodes, SoundRecords, Lengths, SameFields(m), VkGrows,
         nk'[m].nr_subkeys = nk[m].nr_subkeys,
         nk[m].nr_subkeys # 0 => /\ nk'[m].subkey_lf = nk[m].subkey_lf
                                 /\ Lists(m)' = Lists(m)
  PROVE  Uses(m)' = Uses(m)
<1>1. Vals(m)' = Vals(m) /\ Datas(m)' = Datas(m)
  BY SameHeld
<1>2. nk[m].nr_subkeys # 0 => Listing(m)' = Listing(m)
  BY DEF Listing
<1> QED BY <1>1, <1>2 DEF Uses, SameFields

LEMMA TidyKept ==
  ASSUME SoundRecords, Tidy, \A b \in valid' : b \in valid \/ b >= next,
         \A m \in Nodes' : \/ /\ m \in Nodes /\ nk'[m].nr_values = nk[m].nr_values
                              /\ nk'[m].vallist = nk[m].vallist
                           \/ nk'[m].nr_values # 0 \/ nk'[m].vallist = None
  PROVE  Tidy'
<1> SUFFICES ASSUME NEW m \in Nodes', nk'[m].nr_values = 0, nk'[m].vallist \in valid'
             PROVE  FALSE
  BY DEF Tidy
<1>1. next \in Nat \ {0} /\ None \notin valid
  BY DEF SoundRecords, RecordTypes, Allocated, None
<1>2. None \notin valid'
  BY <1>1 DEF None
<1>3. /\ m \in Nodes /\ nk'[m].nr_values = nk[m].nr_values
      /\ nk'[m].vallist = nk[m].vallist
  BY <1>2
<1>4. nk[m].vallist \notin valid
  BY <1>3 DEF Tidy
<1>5. nk[m].vallist \in {-1, 0} \cup 1 .. (next - 1)
  BY <1>3 DEF SoundRecords, References, Offsets, Allocated, Nodes, None, Zero
<1> QED BY <1>1, <1>3, <1>4, <1>5

(* Only another list of values, or none, is the business of n. *)
LEMMA OthersUse ==
  ASSUME NEW n \in Nodes, SoundRecords, SoundValues, Accounted, VkGrows,
         DOMAIN sk' = DOMAIN sk, lf' = lf, ri' = ri, DOMAIN nk' = DOMAIN nk,
         \A m \in DOMAIN nk : /\ nk'[m].nr_subkeys = nk[m].nr_subkeys
                              /\ nk'[m].subkey_lf = nk[m].subkey_lf,
         \A m \in Nodes : m # n => SameFields(m),
         Nodes' = Nodes, nk'[n].classname = nk[n].classname,
         \A b \in valid' : b \in valid \/ b \in Uses(n)',
         \A b \in {nk[n].vallist} \cup Vals(n) \cup Datas(n) :
           b \in valid' => b \in Uses(n)'
  PROVE  Accounted'
<1>1. Lengths /\ \A m \in Nodes : m \in DOMAIN nk
  BY DEF SoundValues, Nodes
<1>2. \A b : Spare(b) => Spare(b)'
  BY DEF Spare
<1>3. ASSUME NEW m \in Nodes, NEW b \in valid', b \in Uses(m)
      PROVE  b \in Uses(m)'
  <2>1. Lists(m)' = Lists(m) /\ Listing(m)' = Listing(m)
    BY <1>1 DEF Lists, Listing
  <2>2. CASE m # n
    <3>1. Uses(m)' = Uses(m)
      BY <1>1, <2>1, <2>2, UsesKept
    <3> QED BY <1>3, <3>1
  <2>3. CASE m = n
    <3>1. CASE b \in {nk[n].vallist} \cup Vals(n) \cup Datas(n)
      BY <2>3, <3>1
    <3>2. CASE b \notin {nk[n].vallist} \cup Vals(n) \cup Datas(n)
      <4>1. \/ b = n \/ b = nk[n].classname
            \/ nk[n].nr_subkeys # 0 /\ b \in Listing(n)
        BY <1>3, <2>3, <3>2 DEF Uses
      <4> QED BY <1>1, <2>1, <2>3, <4>1 DEF Uses
    <3> QED BY <3>1, <3>2
  <2> QED BY <2>2, <2>3
<1> QED BY <1>2, <1>3, AccountedKept

-----------------------------------------------------------------------------
(* Steps that change no record *)

LEMMA SameLeaks ==
  ASSUME LeaksInv, nk' = nk, lf' = lf, ri' = ri, sk' = sk, vl' = vl, vk' = vk,
         valid' = valid, Quiet' => Quiet,
         pc' = "set" => /\ pc = "set" /\ target' = target /\ list' = list
                        /\ stored' = stored
  PROVE  LeaksInv'
<1>1. Nodes' = Nodes
  BY DEF Nodes
<1>2. Tidy'
  BY <1>1 DEF LeaksInv, Tidy
<1>3. Unset'
  BY DEF LeaksInv, Unset
<1>4. \A m : Uses(m)' = Uses(m)
  BY DEF Uses, Vals, Datas, Listing, Lists
<1>5. \A b : Spare(b)' <=> Spare(b)
  BY DEF Spare
<1>6. Accounted => Accounted'
  BY <1>1, <1>4, <1>5 DEF Accounted
<1> QED BY <1>2, <1>3, <1>6 DEF LeaksInv

LEMMA RefuseLeaks ==
  ASSUME LeaksInv, pc # "aborted", Refuse \/ Abort
  PROVE  LeaksInv'
<1>1. CASE Refuse
  <2>1. Quiet' => Quiet
    BY <1>1 DEF Refuse, historyVars, Quiet
  <2> QED BY <1>1, <2>1, SameLeaks DEF Refuse, Return, treeVars, valueVars
<1>2. CASE Abort
  <2>1. ~Quiet' /\ pc' # "set"
    BY <1>2 DEF Abort, Quiet
  <2> QED BY <1>2, <2>1, SameLeaks DEF Abort, treeVars, valueVars
<1> QED BY <1>1, <1>2

LEMMA DeleteStepsLeaks ==
  ASSUME LeaksInv, VisitNode \/ DeleteFails \/ \E n \in handles : DeleteBegin(n)
  PROVE  LeaksInv'
<1>1. CASE VisitNode
  <2>1. Quiet' => Quiet
    BY <1>1 DEF VisitNode, historyVars, Quiet
  <2> QED BY <1>1, <2>1, SameLeaks DEF VisitNode, treeVars, valueVars
<1>2. CASE DeleteFails
  <2>1. Quiet' => Quiet
    BY <1>2 DEF DeleteFails, Quiet
  <2> QED BY <1>2, <2>1, SameLeaks DEF DeleteFails, Return, treeVars, valueVars
<1>3. CASE \E n \in handles : DeleteBegin(n)
  <2>1. PICK n \in handles : DeleteBegin(n)
    BY <1>3
  <2>2. Quiet' => Quiet
    BY <2>1 DEF DeleteBegin, historyVars, Quiet
  <2> QED BY <2>1, <2>2, SameLeaks DEF DeleteBegin, treeVars, valueVars
<1> QED BY <1>1, <1>2, <1>3

(* A call fails half way: what it leaves is not accounted for any more. *)
LEMMA FailsLeaks ==
  ASSUME NEW p, NEW name \in Names, RecordsInv, LeaksInv, AddChildFails(p, name)
  PROVE  LeaksInv'
<1>1. SoundRecords /\ RecordTypes /\ Tidy
  BY DEF RecordsInv, SoundRecords, LeaksInv
<1>2. /\ p \in DOMAIN nk /\ nk' = NewRecord(nk, next, NewNode(p, name, nk[p].sk))
      /\ valid' = valid \cup {next} /\ orphans' = orphans \cup {next} /\ pc' = "idle"
  BY DEF AddChildFails, CanAdd, IsNode, Return
<1>3. next \in Nat /\ next \notin DOMAIN nk
  BY <1>1 DEF RecordTypes, Allocated
<1>4. /\ DOMAIN nk' = DOMAIN nk \cup {next}
      /\ \A m \in DOMAIN nk : nk'[m] = nk[m]
      /\ nk'[next].vallist = None
  BY <1>1, <1>2, <1>3, NewNodeFacts DEF NewRecord
<1>5. \A b \in valid' : b \in valid \/ b >= next
  BY <1>2, <1>3
<1>6. \A m \in Nodes' : m = next \/ (m \in Nodes /\ nk'[m] = nk[m])
  BY <1>2, <1>4 DEF Nodes
<1>7. Tidy'
  BY <1>1, <1>4, <1>5, <1>6, TidyKept
<1>8. ~Quiet'
  BY <1>2 DEF Quiet
<1> QED BY <1>2, <1>7, <1>8 DEF LeaksInv, Unset

LEMMA FailedLeaks ==
  ASSUME RecordsInv, LeaksInv, DeleteNodeNoValues \/ StoreRecordFails
  PROVE  LeaksInv'
<1>1. SoundRecords /\ Tidy
  BY DEF RecordsInv, LeaksInv
<1>2. nk' = nk /\ valid' \subseteq valid /\ pc' = "idle"
  BY DEF DeleteNodeNoValues, StoreRecordFails, treeVars, Return
<1>3. ~Quiet'
  BY DEF DeleteNodeNoValues, StoreRecordFails, Quiet
<1>4. Tidy'
  BY <1>1, <1>2, TidyKept DEF Nodes
<1> QED BY <1>2, <1>3, <1>4 DEF LeaksInv, Unset

-----------------------------------------------------------------------------
(* hivex_node_set_values *)

(* What delete_values leaves in use is not the node's. *)
LEMMA ValuesFreed ==
  ASSUME NEW n \in Nodes, SoundRecords, Lengths, Tidy, ValuesOK(n),
         NEW b \in {nk[n].vallist} \cup Vals(n) \cup Datas(n)
  PROVE  b \notin valid \/ b \in ToSet(ValueBlocks(n))
<1>1. CASE nk[n].nr_values # 0
  BY <1>1, ValueBlocksHeld
<1>2. CASE nk[n].nr_values = 0
  <2>1. 1 .. nk[n].nr_values = {}
    BY <1>2
  <2>2. Vals(n) = {} /\ Datas(n) = {}
    BY <2>1 DEF Vals, Datas
  <2> QED BY <1>2, <2>2 DEF Tidy
<1> QED BY <1>1, <1>2

LEMMA ClearValuesLeaks ==
  ASSUME NEW n, NEW vs, RecordsInv, SoundValues, LeaksInv, ClearValues(n, vs)
  PROVE  LeaksInv'
<1>1. /\ SoundRecords /\ RecordTypes /\ Lengths /\ Tidy
      /\ n \in Nodes /\ n \in DOMAIN nk /\ ValuesOK(n)
  BY DEF RecordsInv, SoundRecords, SoundValues, LeaksInv, ClearValues, CanClear,
         IsNode, Nodes
<1>2. PICK F : F = ToSet(ValueBlocks(n))
  OBVIOUS
<1>3. F \cap DOMAIN nk = {}
  BY <1>1, <1>2, ValueBlocksKinds, Apart DEF SoundRecords
<1>4. /\ valid' = valid \ F /\ lf' = lf /\ ri' = ri /\ sk' = sk
      /\ vl' = vl /\ vk' = vk /\ nk' = WithValues(n, 0, None) /\ pc' = "idle"
      /\ torn' = torn /\ orphans' = orphans /\ partial' = partial /\ pc = "idle"
  BY <1>2, NoValuesIs DEF ClearValues, valueVars, historyVars, Return
<1>5. 0 \in Nat /\ None \in Int
  BY DEF None
<1>6. PICK g : g = WithValues(n, 0, None)
  OBVIOUS
<1>7. /\ DOMAIN g = DOMAIN nk /\ \A m \in DOMAIN nk : m # n => g[m] = nk[m]
      /\ g[n].nr_subkeys = nk[n].nr_subkeys /\ g[n].subkey_lf = nk[n].subkey_lf
      /\ g[n].vallist = None /\ g[n].classname = nk[n].classname
  <2>1. n \in DOMAIN nk /\ RecordTypes
    BY <1>1
  <2>2. PICK k \in Nat : k = 0
    BY <1>5
  <2>3. PICK b \in Int : b = None
    BY <1>5
  <2>4. g = WithValues(n, k, b)
    BY <1>6, <2>2, <2>3
  <2>5. /\ DOMAIN g = DOMAIN nk /\ \A m \in DOMAIN nk : m # n => g[m] = nk[m]
        /\ g[n].nr_subkeys = nk[n].nr_subkeys /\ g[n].subkey_lf = nk[n].subkey_lf
        /\ g[n].vallist = b /\ g[n].classname = nk[n].classname
    BY <2>1, <2>4, WithValuesFacts
  <2> QED BY <2>3, <2>5
<1>8. /\ DOMAIN nk' = DOMAIN nk /\ \A m \in DOMAIN nk : m # n => nk'[m] = nk[m]
      /\ nk'[n].nr_subkeys = nk[n].nr_subkeys /\ nk'[n].subkey_lf = nk[n].subkey_lf
      /\ nk'[n].vallist = None /\ nk'[n].classname = nk[n].classname
  BY <1>4, <1>6, <1>7
<1>9. Nodes' = Nodes
  BY <1>3, <1>4, <1>8 DEF Nodes
<1>10. \A m \in Nodes : m # n => nk'[m] = nk[m]
  BY <1>8 DEF Nodes
<1>11. Tidy'
  BY <1>1, <1>4, <1>8, <1>9, <1>10, TidyKept
<1>12. Unset'
  BY <1>4 DEF Unset
<1>13. ASSUME Accounted PROVE Accounted'
  <2>1. \A m \in Nodes : m # n => SameFields(m)
    BY <1>4, <1>10 DEF SameFields
  <2>2. VkGrows
    BY <1>4 DEF VkGrows
  <2>3. \A b \in {nk[n].vallist} \cup Vals(n) \cup Datas(n) : b \notin valid'
    BY <1>1, <1>2, <1>4, ValuesFreed
  <2>4. \A m \in DOMAIN nk : /\ nk'[m].nr_subkeys = nk[m].nr_subkeys
                             /\ nk'[m].subkey_lf = nk[m].subkey_lf
    BY <1>8
  <2> QED BY <1>1, <1>4, <1>8, <1>9, <1>13, <2>1, <2>2, <2>3, <2>4, OthersUse
<1>14. Quiet' => Quiet
  BY <1>4 DEF Quiet
<1> QED BY <1>11, <1>12, <1>13, <1>14 DEF LeaksInv

LEMMA SetValuesBeginLeaks ==
  ASSUME NEW n, NEW vs \in Seq(ValueType), RecordsInv, SoundValues, LeaksInv,
         SetValuesBegin(n, vs)
  PROVE  LeaksInv'
<1>1. /\ SoundRecords /\ RecordTypes /\ References /\ Lengths /\ Tidy /\ pc = "idle"
  BY DEF RecordsInv, SoundRecords, SoundValues, LeaksInv, SetValuesBegin
<1>2. /\ n \in Nodes /\ n \in DOMAIN nk /\ ValuesOK(n) /\ next \in Nat \ {0}
      /\ Len(vs) > 0 /\ DOMAIN nk' = DOMAIN nk
      /\ \A m \in DOMAIN nk : m # n => nk'[m] = nk[m]
      /\ nk'[n].nr_values = Len(vs) /\ nk'[n].vallist = next
      /\ nk'[n].nr_subkeys = nk[n].nr_subkeys /\ nk'[n].subkey_lf = nk[n].subkey_lf
      /\ nk'[n].classname = nk[n].classname
  BY <1>1, SetValuesBeginFacts
<1>3. /\ DOMAIN vl' = DOMAIN vl \cup {next} /\ vl' \in [DOMAIN vl' -> Seq(Nat)]
      /\ \A b \in DOMAIN vl : vl'[b] = vl[b]
      /\ Len(vl'[next]) = Len(vs) /\ ToSet(vl'[next]) \subseteq {Zero}
  BY <1>1, SetValuesBeginFacts
<1>4. /\ valid' = (valid \ ToSet(ValueBlocks(n))) \cup {next}
      /\ lf' = lf /\ ri' = ri /\ sk' = sk /\ vk' = vk
      /\ pc' = "set" /\ target' = n /\ list' = vs /\ stored' = 0
      /\ torn' = torn /\ orphans' = orphans /\ partial' = partial
  BY <1>1, SetValuesBeginFacts
<1>5. PICK F : F = ToSet(ValueBlocks(n))
  OBVIOUS
<1>6. F \cap DOMAIN nk = {} /\ next \notin DOMAIN nk
  <2>1. F \cap DOMAIN nk = {}
    BY <1>1, <1>2, <1>5, ValueBlocksKinds, Apart DEF SoundRecords
  <2>2. next \notin DOMAIN nk
    BY <1>1 DEF RecordTypes, Allocated
  <2> QED BY <2>1, <2>2
<1>7. Nodes' = Nodes
  BY <1>2, <1>4, <1>5, <1>6 DEF Nodes
<1>8. \A m \in Nodes : m # n => nk'[m] = nk[m] /\ SameFields(m)
  <2> SUFFICES ASSUME NEW m \in Nodes, m # n
               PROVE  nk'[m] = nk[m] /\ SameFields(m)
    OBVIOUS
  <2>1. m \in DOMAIN nk /\ nk'[m] = nk[m]
    BY <1>2 DEF Nodes
  <2>2. nk[m].nr_values > 0 => nk[m].vallist \in DOMAIN vl
    BY <1>1, <2>1 DEF References
  <2> QED BY <1>3, <2>1, <2>2 DEF SameFields
<1>9. Tidy'
  <2>1. \A b \in valid' : b \in valid \/ b >= next
    BY <1>2, <1>4
  <2>2. nk'[n].nr_values # 0
    BY <1>2
  <2> QED BY <1>1, <1>7, <1>8, <2>1, <2>2, TidyKept
<1>10. Unset'
  <2>1. PICK s \in Seq(Nat) : s = vl'[next]
    BY <1>3
  <2>2. Len(s) = Len(vs) /\ ToSet(s) \subseteq {Zero}
    BY <1>3, <2>1
  <2>3. \A i \in 1 .. Len(s) : s[i] \in {Zero}
    BY <2>2, ToSetFacts
  <2>4. \A i \in (0 + 1) .. Len(vs) : s[i] = Zero
    BY <2>2, <2>3
  <2>5. nk'[target'].vallist = next
    BY <1>2, <1>4
  <2> QED BY <1>4, <2>1, <2>4, <2>5 DEF Unset
<1>11. ASSUME Accounted PROVE Accounted'
  <2>1. VkGrows
    BY <1>4 DEF VkGrows
  <2>2. next \in Uses(n)'
    BY <1>2 DEF Uses
  <2>3. \A b \in {nk[n].vallist} \cup Vals(n) \cup Datas(n) :
          b \in valid' => b \in Uses(n)'
    BY <1>1, <1>2, <1>4, <2>2, ValuesFreed
  <2>4. \A m \in DOMAIN nk : /\ nk'[m].nr_subkeys = nk[m].nr_subkeys
                             /\ nk'[m].subkey_lf = nk[m].subkey_lf
    BY <1>2
  <2>5. \A b \in valid' : b \in valid \/ b \in Uses(n)'
    BY <1>4, <2>2
  <2> QED BY <1>1, <1>2, <1>4, <1>7, <1>8, <1>11, <2>1, <2>3, <2>4, <2>5, OthersUse
<1>12. Quiet' => Quiet
  BY <1>1, <1>4 DEF Quiet
<1> QED BY <1>9, <1>10, <1>11, <1>12 DEF LeaksInv

LEMMA StoreDataFailsLeaks ==
  ASSUME RecordsInv, LeaksInv, StoreDataFails
  PROVE  LeaksInv'
<1>1. SoundRecords /\ Tidy /\ next \in Nat /\ RecordTypes
  BY DEF RecordsInv, SoundRecords, RecordTypes, LeaksInv
<1>2. /\ nk' = nk /\ valid' = valid \cup {next} /\ pc' = "idle"
      /\ torn' = torn \cup {target}
  BY DEF StoreDataFails, treeVars, Return
<1>3. \A b \in valid' : b \in valid \/ b >= next
  BY <1>1, <1>2
<1>4. \A m \in Nodes' : m \in Nodes
  BY <1>1, <1>2 DEF Nodes, RecordTypes, Allocated
<1>5. Tidy'
  BY <1>1, <1>2, <1>3, <1>4, TidyKept
<1>6. ~Quiet'
  BY <1>2 DEF Quiet
<1> QED BY <1>2, <1>5, <1>6 DEF LeaksInv, Unset

(* The place that a value goes to was empty, and its blocks are linked. *)
LEMMA StoreValueLeaks ==
  ASSUME RecordsInv, SoundValues, LeaksInv, StoreValue
  PROVE  LeaksInv'
<1>1. pc = "set" /\ SoundRecords /\ RecordTypes /\ References /\ Tidy /\ Lengths
  BY DEF StoreValue, RecordsInv, SoundRecords, LeaksInv, SoundValues
<1>2. PICK n \in Nodes : n = target
  BY <1>1, Storing
<1>3. PICK b : b = nk[n].vallist
  OBVIOUS
<1>4. PICK v \in ValueType : v = list[stored + 1]
  BY <1>1, Storing
<1>5. /\ n \in DOMAIN nk /\ b \in DOMAIN vl /\ nk[n].nr_values = Len(list)
      /\ Len(list) \in Nat /\ stored \in Nat /\ stored < Len(list)
      /\ Len(vl[b]) = Len(list) /\ stored + 1 \in 1 .. Len(list)
  BY <1>1, <1>2, <1>3, Storing
<1>6. /\ nk' = nk /\ lf' = lf /\ ri' = ri /\ sk' = sk
      /\ torn' = torn /\ orphans' = orphans /\ partial' = partial
  BY DEF StoreValue, treeVars, historyVars
<1>7. /\ DOMAIN vk' = DOMAIN vk \cup {next} /\ \A x \in DOMAIN vk : vk'[x] = vk[x]
      /\ \A x \in DOMAIN vl : x # b => vl'[x] = vl[x]
      /\ \A i \in 1 .. Len(list) : i # stored + 1 => vl'[b][i] = vl[b][i]
      /\ vl'[b][stored + 1] = next
  BY <1>2, <1>3, StoreFacts
<1>8. /\ next \in Nat \ {0} /\ next \notin DOMAIN nk /\ next + 1 \notin DOMAIN nk
      /\ next \notin DOMAIN vk
  BY <1>1 DEF RecordTypes, Allocated
<1>9. \/ v.len = "inline" /\ valid' = valid \cup {next}
      \/ /\ v.len # "inline" /\ valid' = valid \cup {next, next + 1}
         /\ vk'[next].data = next + 1 /\ ~vk'[next].inline
  <2>1. CASE v.len = "inline"
    <3>1. valid' = valid \cup next .. (next + 1 - 1)
      BY <1>4, <2>1 DEF StoreValue
    <3>2. next .. (next + 1 - 1) = {next}
      BY <1>8
    <3> QED BY <2>1, <3>1, <3>2
  <2>2. CASE v.len # "inline"
    <3>1. PutValue(v, next + 1) /\ valid' = valid \cup next .. (next + 2 - 1)
      BY <1>4, <2>2 DEF StoreValue
    <3>2. next .. (next + 2 - 1) = {next, next + 1}
      BY <1>8
    <3>3. PICK d \in Nat : d = next + 1
      BY <1>8
    <3>4. vk'[next].data = d /\ vk'[next].inline = (v.len = "inline")
      BY <1>1, <1>2, <1>3, <1>5, <3>1, <3>3, PutValueFacts
    <3> QED BY <2>2, <3>1, <3>2, <3>3, <3>4
  <2> QED BY <2>1, <2>2
<1>10. Nodes' = Nodes /\ valid \subseteq valid'
       /\ \A x \in valid' : x \in valid \/ x >= next
  BY <1>6, <1>8, <1>9 DEF Nodes
<1>11. Tidy'
  BY <1>1, <1>6, <1>10, TidyKept
<1>12. Unset'
  <2> SUFFICES ASSUME pc' = "set", NEW i \in (stored' + 1) .. Len(list')
               PROVE  vl'[nk'[target'].vallist][i] = Zero
    BY DEF Unset
  <2>1. stored' = stored + 1 /\ list' = list /\ target' = target
    BY DEF StoreValue, Return
  <2>2. i \in 1 .. Len(list) /\ i # stored + 1 /\ i \in (stored + 1) .. Len(list)
    BY <1>5, <2>1
  <2>3. vl[b][i] = Zero
    BY <1>1, <1>2, <1>3, <2>2 DEF LeaksInv, Unset
  <2> QED BY <1>2, <1>3, <1>6, <1>7, <2>1, <2>2, <2>3
<1>13. ASSUME Accounted PROVE Accounted'
  <2>1. VkGrows
    BY <1>7 DEF VkGrows
  <2>2. \A m \in Nodes : m # n => SameFields(m)
    <3> SUFFICES ASSUME NEW m \in Nodes, m # n
                 PROVE  SameFields(m)
      OBVIOUS
    <3>1. nk[m].nr_values > 0 => nk[m].vallist \in DOMAIN vl
      BY <1>1 DEF References, Nodes
    <3>2. ASSUME nk[m].nr_values > 0, nk[m].vallist = b PROVE FALSE
      <4>1. nk[m].nr_values # 0 /\ nk[n].nr_values # 0
        BY <1>5, <3>2
      <4>2. b # None /\ b # Zero
        BY <1>1, <1>5 DEF RecordTypes, Allocated, None, Zero
      <4>3. b \in Held(n) /\ b \in Held(m)
        BY <1>3, <3>2, <4>1, <4>2 DEF Held, ValList
      <4> QED BY <4>3 DEF SoundValues, Exclusive
    <3> QED BY <1>6, <1>7, <3>1, <3>2 DEF SameFields
  <2>3. Vals(n) \ {Zero} \subseteq Vals(n)' /\ next \in Vals(n)'
    <3>1. next \in Vals(n)'
      BY <1>3, <1>5, <1>6, <1>7 DEF Vals
    <3>2. ASSUME NEW x \in Vals(n), x # Zero PROVE x \in Vals(n)'
      <4>1. PICK i \in 1 .. Len(list) : x = vl[b][i]
        BY <1>3, <1>5, <3>2 DEF Vals
      <4>2. i # stored + 1
        <5>1. stored + 1 \in (stored + 1) .. Len(list)
          BY <1>5
        <5>2. vl[b][stored + 1] = Zero
          BY <1>1, <1>2, <1>3, <5>1 DEF LeaksInv, Unset
        <5> QED BY <3>2, <4>1, <5>2
      <4>3. x = vl'[b][i]
        BY <1>7, <4>1, <4>2
      <4> QED BY <1>3, <1>5, <1>6, <4>1, <4>3 DEF Vals
    <3> QED BY <3>1, <3>2
  <2>4. Datas(n) \subseteq Datas(n)'
    <3>1. Zero \notin DOMAIN vk
      BY <1>1 DEF RecordTypes, Allocated, Zero
    <3>2. \A w \in Vals(n) \cap DOMAIN vk :
            w \in Vals(n)' \cap DOMAIN vk' /\ vk'[w] = vk[w]
      BY <1>7, <2>3, <3>1
    <3> QED BY <3>2 DEF Datas
  <2>5. next + 1 \in valid' /\ next + 1 \notin valid => next + 1 \in Datas(n)'
    <3>1. CASE v.len = "inline"
      BY <1>8, <1>9, <3>1
    <3>2. CASE v.len # "inline"
      BY <1>7, <1>9, <2>3, <3>2 DEF Datas
    <3> QED BY <3>1, <3>2
  <2>6. nk[n].vallist \in Uses(n)' /\ Vals(n)' \subseteq Uses(n)' /\ Datas(n)' \subseteq Uses(n)'
    BY <1>6 DEF Uses
  <2>7. Zero \notin valid'
    <3>1. Zero \notin valid
      BY <1>1 DEF RecordTypes, Allocated, Zero
    <3> QED BY <1>8, <1>9, <3>1 DEF Zero
  <2>8. \A x \in valid' : x \in valid \/ x \in Uses(n)'
    BY <1>9, <2>3, <2>5, <2>6
  <2>9. \A x \in {nk[n].vallist} \cup Vals(n) \cup Datas(n) :
          x \in valid' => x \in Uses(n)'
    BY <2>3, <2>4, <2>6, <2>7
  <2> QED BY <1>1, <1>6, <1>10, <1>13, <2>1, <2>2, <2>8, <2>9, OthersUse
<1>14. Quiet' => Quiet
  BY <1>1, <1>6 DEF Quiet
<1> QED BY <1>11, <1>12, <1>13, <1>14 DEF LeaksInv

LEMMA SetValuesLeaks ==
  ASSUME NEW n, NEW vs \in Seq(ValueType), RecordsInv, SoundValues, LeaksInv,
         SetValues(n, vs)
  PROVE  LeaksInv'
<1>1. CASE SetValuesRefused(n) \/ SetValuesAborts(n)
  BY <1>1, RefuseLeaks DEF SetValuesRefused, SetValuesAborts
<1> QED BY <1>1, ClearValuesLeaks, SetValuesBeginLeaks DEF SetValues

-----------------------------------------------------------------------------
(* hivex_node_add_child *)

(* The node at "next" and its list at "next + 1" are linked; the blocks F, *)
(* which the new list replaces, are freed.                                 *)
LEMMA LinkLeaks ==
  ASSUME NEW p \in Nodes, NEW name \in Names, NEW direct \in BOOLEAN, NEW F,
         NEW l, RecordsInv, SoundValues, SoundKeys, LinksInv, LeaksInv,
         pc = "idle", LinkNode(p, name, direct), lf' = NewRecord(lf, next + 1, l),
         valid' = (valid \ F) \cup {next, next + 1}, DOMAIN ri' = DOMAIN ri,
         \/ F = {} /\ ri' = ri
         \/ /\ Live(p) /\ F \subseteq Listing(p)
            /\ \A b \in DOMAIN ri : b \notin Listing(p) => ri'[b] = ri[b],
         next + 1 \in Listing(p)',
         nk[p].nr_subkeys # 0 => \A b \in Listing(p) : b \in F \/ b \in Listing(p)'
  PROVE  LeaksInv'
<1>1. /\ SoundRecords /\ RecordTypes /\ KindsApart /\ Lengths /\ Tidy
      /\ p \in DOMAIN nk /\ next \in Nat
  BY DEF RecordsInv, SoundRecords, RecordTypes, SoundValues, LeaksInv, Nodes
<1>2. /\ DOMAIN nk' = DOMAIN nk \cup {next}
      /\ nk'[next] = NewNode(p, name, nk[p].sk)
      /\ \A m \in DOMAIN nk : m # p => nk'[m] = nk[m]
      /\ nk'[p].nr_subkeys = nk[p].nr_subkeys + 1
      /\ nk'[p].nr_values = nk[p].nr_values /\ nk'[p].vallist = nk[p].vallist
      /\ nk'[p].classname = nk[p].classname /\ vl' = vl /\ vk' = vk
      /\ torn' = torn /\ orphans' = orphans /\ partial' = partial /\ pc' = "idle"
  BY <1>1, LinkNodeFacts
<1>3. nk'[next].vallist = None
  BY <1>1, <1>2, NewNodeFacts
<1>4. /\ next \notin DOMAIN nk /\ next + 1 \notin DOMAIN nk
      /\ next + 1 \notin DOMAIN lf
  BY <1>1 DEF RecordTypes, Allocated
<1>5. \A b \in DOMAIN lf : b \in DOMAIN lf' /\ lf'[b] = lf[b]
  BY <1>4 DEF NewRecord
<1>6. F \cap DOMAIN nk = {}
  <2>1. CASE F = {}
    BY <2>1
  <2>2. CASE Live(p) /\ F \subseteq Listing(p)
    <3>1. Listing(p) \subseteq DOMAIN lf \cup DOMAIN ri
      BY <2>2 DEF SoundKeys, Shaped, Listing
    <3> QED BY <1>1, <2>2, <3>1 DEF KindsApart
  <2> QED BY <2>1, <2>2
<1>7. Nodes' = Nodes \cup {next} /\ next \notin Nodes
  BY <1>2, <1>4, <1>6 DEF Nodes
<1>8. \A m \in Nodes : /\ m # p => nk'[m] = nk[m]
                       /\ nk'[m].nr_values = nk[m].nr_values
                       /\ nk'[m].vallist = nk[m].vallist
  BY <1>2 DEF Nodes
<1>9. Tidy'
  <2>1. \A b \in valid' : b \in valid \/ b >= next
    BY <1>1
  <2> QED BY <1>1, <1>3, <1>7, <1>8, <2>1, TidyKept
<1>10. Unset'
  BY <1>2 DEF Unset
<1>11. ASSUME Quiet PROVE Accounted'
  <2>1. Accounted /\ Declared
    BY <1>11, LinksAre DEF LeaksInv, Quiet
  <2>2. DOMAIN sk' = DOMAIN sk
    BY DEF LinkNode
  <2>3. \A b : Spare(b) => Spare(b)'
    BY <1>5, SpareKept
  <2>4. VkGrows /\ \A m \in Nodes : SameFields(m)
    BY <1>2, <1>8 DEF VkGrows, SameFields
  <2>5. nk'[p].nr_subkeys # 0
    BY <1>1, <1>2 DEF RecordTypes, NodeType
  <2>6. \A b \in valid' : b \in valid \/ \E n \in Nodes' : b \in Uses(n)'
    <3>1. PICK c : c = next
      OBVIOUS
    <3>2. c \in Uses(c)' /\ next + 1 \in Uses(p)'
      BY <2>5 DEF Uses
    <3>3. p \in Nodes' /\ c \in Nodes'
      BY <1>7, <3>1
    <3> QED BY <3>1, <3>2, <3>3
  <2>7. ASSUME NEW m \in Nodes, m # p
        PROVE  Uses(m)' = Uses(m)
    <3>1. m \in DOMAIN nk /\ nk'[m] = nk[m] /\ nk[m].nr_subkeys \in Nat
      BY <1>1, <1>2, <2>7 DEF Nodes, RecordTypes, NodeType
    <3>2. ASSUME nk[m].nr_subkeys # 0
          PROVE  Lists(m)' = Lists(m)
      <4>1. Live(m)
        BY <2>1, <3>1, <3>2 DEF Live, Declared
      <4>2. Live(p) => nk[m].subkey_lf \notin Listing(p)
        BY <2>7, <4>1 DEF SoundKeys, Separate, Listing
      <4>3. nk[m].subkey_lf \in DOMAIN ri => ri'[nk[m].subkey_lf] = ri[nk[m].subkey_lf]
        BY <4>2
      <4> QED BY <3>1, <4>3 DEF Lists
    <3> QED BY <1>1, <2>4, <3>1, <3>2, UsesKept
  <2>8. ASSUME NEW b \in valid', b \in Uses(p)
        PROVE  b \in Uses(p)'
    <3>1. Vals(p)' = Vals(p) /\ Datas(p)' = Datas(p)
      BY <1>1, <2>4, SameHeld
    <3>2. CASE nk[p].nr_subkeys # 0 /\ b \in Listing(p)
      <4>1. b \notin F
        <5>1. next \notin Listing(p) /\ next + 1 \notin Listing(p)
          <6>1. Live(p)
            BY <2>1, <3>2, <1>1 DEF Live, Declared, RecordTypes, NodeType
          <6>2. Listing(p) \subseteq DOMAIN lf \cup DOMAIN ri
            BY <6>1 DEF SoundKeys, Shaped, Listing
          <6>3. DOMAIN lf \cup DOMAIN ri \subseteq 1 .. (next - 1)
            BY <1>1 DEF RecordTypes, Allocated
          <6>4. next \notin 1 .. (next - 1) /\ next + 1 \notin 1 .. (next - 1)
            BY <1>1
          <6> QED BY <6>2, <6>3, <6>4
        <5> QED BY <2>8, <3>2, <5>1
      <4> QED BY <2>5, <3>2, <4>1 DEF Uses
    <3>3. CASE ~(nk[p].nr_subkeys # 0 /\ b \in Listing(p))
      BY <1>2, <2>8, <3>1, <3>3 DEF Uses
    <3> QED BY <3>2, <3>3
  <2>9. \A n \in Nodes : \A b \in valid' :
          b \in Uses(n) => \E m \in Nodes' : b \in Uses(m)'
    BY <1>7, <2>7, <2>8
  <2> QED BY <2>1, <2>2, <2>3, <2>6, <2>9, AccountedKept
<1>12. Quiet' => Quiet
  BY <1>2 DEF Quiet
<1> QED BY <1>9, <1>10, <1>11, <1>12 DEF LeaksInv

LEMMA AddFirstChildLeaks ==
  ASSUME NEW p, NEW name \in Names, RecordsInv, SoundValues, SoundKeys, LinksInv,
         LeaksInv, AddFirstChild(p, name)
  PROVE  LeaksInv'
<1>1. p \in Nodes /\ p \in DOMAIN nk /\ RecordTypes
  BY DEF AddFirstChild, CanAdd, IsNode, Nodes, RecordsInv, SoundRecords
<1>2. /\ LinkNode(p, name, TRUE) /\ lf' = NewRecord(lf, next + 1, <<next>>)
      /\ valid' = (valid \ {}) \cup {next, next + 1} /\ ri' = ri /\ pc = "idle"
      /\ nk[p].nr_subkeys = 0
  BY DEF AddFirstChild
<1>3. nk'[p].subkey_lf = next + 1
  BY <1>1, <1>2, LinkNodeFacts
<1>4. next + 1 \in Listing(p)'
  BY <1>3 DEF Listing
<1> QED BY <1>1, <1>2, <1>4, LinkLeaks

LEMMA InsertChildLeaks ==
  ASSUME NEW p, NEW name \in Names, RecordsInv, SoundValues, SoundKeys, LinksInv,
         LeaksInv, InsertChild(p, name)
  PROVE  LeaksInv'
<1>0. SoundRecords /\ RecordTypes /\ pc = "idle"
  BY DEF RecordsInv, SoundRecords, InsertChild
<1>1. p \in Nodes /\ Live(p) /\ p \in DOMAIN nk
  BY <1>0, InsertChildIs DEF Nodes
<1>2. PICK old, d, l : d \in BOOLEAN /\ l \in Seq(Nat) /\ Inserted(p, name, old, d, l)
  BY <1>0, InsertChildIs
<1>3. /\ LinkNode(p, name, d) /\ lf' = NewRecord(lf, next + 1, l)
      /\ valid' = (valid \ {old}) \cup {next, next + 1}
      /\ old \in ToSet(Lists(p)) /\ d = (nk[p].subkey_lf = old)
      /\ ToSet(Lists(p)') = (ToSet(Lists(p)) \ {old}) \cup {next + 1}
      /\ DOMAIN ri' = DOMAIN ri
      /\ \A b \in DOMAIN ri : b \notin Listing(p) => ri'[b] = ri[b]
  BY <1>2 DEF Inserted
<1>4. ~d => nk'[p].subkey_lf = nk[p].subkey_lf
  BY <1>0, <1>1, <1>2, <1>3, LinkNodeFacts
<1>5. next + 1 \in Listing(p)'
  BY <1>3 DEF Listing
<1>6. \A b \in Listing(p) : b \in {old} \/ b \in Listing(p)'
  BY <1>3, <1>4 DEF Listing
<1>7. {old} \subseteq Listing(p)
  BY <1>3 DEF Listing
<1> QED BY <1>0, <1>1, <1>2, <1>3, <1>5, <1>6, <1>7, LinkLeaks

-----------------------------------------------------------------------------
(* hivex_node_delete_child *)

(* Everything that belongs to the node is freed with it. *)
LEMMA DeleteNodeLeaks ==
  ASSUME RecordsInv, SoundValues, LeaksInv, DeleteNode
  PROVE  LeaksInv'
<1>1. PICK n : n = Top.node
  OBVIOUS
<1>2. /\ SoundRecords /\ RecordTypes /\ References /\ Lengths /\ Tidy
      /\ n \in Nodes /\ n \in DOMAIN nk /\ ListsOK(n) /\ ValuesOK(n)
  BY <1>1, Ending DEF RecordsInv, SoundRecords, SoundValues, LeaksInv, DeleteNode
<1>3. /\ lf' = lf /\ ri' = ri /\ vl' = vl /\ vk' = vk /\ pc = "delete" /\ pc' = pc
      /\ torn' = torn /\ orphans' = orphans /\ partial' = partial
      /\ sk' = DropSk(n) /\ nk' = Emptied(n)
  BY <1>1 DEF DeleteNode, AtNodeEnd, Emptied, valueVars, historyVars
<1>4. /\ DOMAIN nk' = DOMAIN nk /\ \A m \in DOMAIN nk : m # n => nk'[m] = nk[m]
  <2>1. PICK g : g = Emptied(n)
    OBVIOUS
  <2>2. DOMAIN g = DOMAIN nk /\ \A m \in DOMAIN nk : m # n => g[m] = nk[m]
    BY <1>2, <2>1, EmptiedFacts
  <2> QED BY <1>3, <2>1, <2>2
<1>5. Nodes' = Nodes \ {n}
  BY <1>1, <1>2, DeleteNodeFrees
<1>6. \A m \in Nodes' : m \in Nodes /\ m # n /\ m \in DOMAIN nk /\ nk'[m] = nk[m]
  BY <1>4, <1>5 DEF Nodes
<1>7. /\ ToSet(NodeBlocks(n)) =
           ToSet(Blocks(n)) \cup ToSet(ValueBlocks(n)) \cup {n} \cup
           (IF nk[n].classname = None THEN {} ELSE {nk[n].classname})
      /\ valid' \subseteq valid \ ToSet(NodeBlocks(n))
  <2>1. valid' \subseteq valid \ ToSet(NodeBlocks(n))
    BY <1>1 DEF DeleteNode
  <2> QED BY <1>2, <2>1, NodeBlocksType
<1>8. Tidy'
  BY <1>2, <1>6, <1>7, TidyKept
<1>9. Unset'
  BY <1>3 DEF Unset
<1>10. DOMAIN sk' = DOMAIN sk
  <2>1. /\ LastUse(n) => valid' \cap DOMAIN sk = (valid \cap DOMAIN sk) \ {nk[n].sk}
        /\ ~LastUse(n) => valid' \cap DOMAIN sk = valid \cap DOMAIN sk
    BY <1>1, <1>2, DeleteNodeFrees
  <2>2. \A m \in Nodes' : nk'[m].sk = nk[m].sk
    BY <1>6
  <2> QED BY <1>2, <1>3, <1>5, <2>1, <2>2, DropRef
<1>11. ASSUME NEW m \in Nodes, m # n
       PROVE  m \in Nodes' /\ Uses(m)' = Uses(m)
  <2>1. m \in Nodes' /\ m \in DOMAIN nk /\ nk'[m] = nk[m]
    BY <1>5, <1>6, <1>11
  <2>2. SameFields(m) /\ VkGrows /\ Lists(m)' = Lists(m)
    BY <1>3, <2>1 DEF SameFields, VkGrows, Lists
  <2> QED BY <1>2, <2>1, <2>2, UsesKept
<1>12. ASSUME NEW b \in valid', b \in Uses(n)
       PROVE  FALSE
  <2>1. b \in valid /\ b \notin ToSet(NodeBlocks(n))
    BY <1>7, <1>12
  <2>2. None \notin valid
    BY <1>2 DEF RecordTypes, Allocated, None
  <2>3. b # n /\ b # nk[n].classname /\ b \notin ToSet(ValueBlocks(n))
        /\ b \notin ToSet(Blocks(n))
    BY <1>7, <2>1, <2>2
  <2>4. b \notin {nk[n].vallist} \cup Vals(n) \cup Datas(n)
    BY <1>2, <2>1, <2>3, ValuesFreed
  <2>5. nk[n].nr_subkeys # 0 => b \notin Listing(n)
    BY <1>2, <2>3, BlocksAreListing
  <2> QED BY <1>12, <2>3, <2>4, <2>5 DEF Uses
<1>13. \A b : Spare(b) => Spare(b)'
  BY <1>3 DEF Spare
<1>14. \A m \in Nodes : \A b \in valid' :
         b \in Uses(m) => \E x \in Nodes' : b \in Uses(x)'
  BY <1>11, <1>12
<1>15. Accounted => Accounted'
  BY <1>7, <1>10, <1>13, <1>14, AccountedKept
<1>16. Quiet' => Quiet
  BY <1>3 DEF Quiet
<1> QED BY <1>8, <1>9, <1>15, <1>16 DEF LeaksInv

(* A node that loses its last child leaves its lists behind, and they are  *)
(* empty.                                                                  *)
LEMMA UnlinkLeaks ==
  ASSUME RecordsInv, SoundValues, SoundKeys, LinksInv, LeaksInv, Unlink
  PROVE  LeaksInv'
<1>0. /\ SoundRecords /\ RecordTypes /\ KeyTypes /\ Lengths /\ Tidy
  BY DEF RecordsInv, SoundRecords, SoundKeys, SoundValues, LeaksInv
<1>1. PICK p : p = Top.node
  OBVIOUS
<1>2. PICK e : e = target
  OBVIOUS
<1>3. PICK c : c = Lists(p)[HomeAt(p)]
  OBVIOUS
<1>4. /\ p \in Nodes /\ p \in DOMAIN nk /\ ListsOK(p) /\ e \in ToSet(Children(p))
      /\ DOMAIN lf' = DOMAIN lf /\ lf' \in [DOMAIN lf -> Seq(Nat)]
      /\ \A b \in DOMAIN lf : b # c => lf'[b] = lf[b]
      /\ DOMAIN nk' = DOMAIN nk
      /\ \A m \in DOMAIN nk : m # p => nk'[m] = nk[m]
      /\ nk[p].nr_subkeys > 0 /\ nk'[p].nr_subkeys = nk[p].nr_subkeys - 1
      /\ nk'[p].subkey_lf = nk[p].subkey_lf
      /\ nk'[p].nr_values = nk[p].nr_values /\ nk'[p].vallist = nk[p].vallist
      /\ nk'[p].classname = nk[p].classname
  <2>1. /\ p \in Nodes /\ p \in DOMAIN nk /\ ListsOK(p)
        /\ target \in ToSet(Children(p))
        /\ DOMAIN lf' = DOMAIN lf /\ lf' \in [DOMAIN lf -> Seq(Nat)]
        /\ \A b \in DOMAIN lf : b # Lists(p)[HomeAt(p)] => lf'[b] = lf[b]
        /\ DOMAIN nk' = DOMAIN nk
        /\ \A m \in DOMAIN nk : m # p => nk'[m] = nk[m]
        /\ nk[p].nr_subkeys > 0 /\ nk'[p].nr_subkeys = nk[p].nr_subkeys - 1
        /\ nk'[p].subkey_lf = nk[p].subkey_lf
        /\ nk'[p].nr_values = nk[p].nr_values /\ nk'[p].vallist = nk[p].vallist
        /\ nk'[p].classname = nk[p].classname
    BY <1>0, <1>1, UnlinkFacts
  <2> QED BY <1>2, <1>3, <2>1
<1>5. nk[p].nr_subkeys \in Nat
  BY <1>0, <1>4 DEF RecordTypes, NodeType
<1>6. /\ valid' = valid /\ ri' = ri /\ sk' = sk /\ vl' = vl /\ vk' = vk
      /\ torn' = torn /\ orphans' = orphans /\ partial' = partial
      /\ pc = "delete" /\ pc' = "idle"
  BY DEF Unlink, Return, valueVars, historyVars
<1>7. /\ e \in Kids(p) /\ IsFiniteSet(Kids(p))
      /\ \A b \in ToSet(Lists(p)) : ToSet(lf'[b]) = ToSet(lf[b]) \ {e}
  BY <1>1, <1>2, UnlinkKids
<1>8. e \in ToSet(lf[c])
  BY <1>0, <1>2, <1>3, <1>4, HomeFacts
<1>9. Nodes' = Nodes
  BY <1>4, <1>6 DEF Nodes
<1>10. \A m \in Nodes : /\ m # p => nk'[m] = nk[m]
                        /\ nk'[m].nr_values = nk[m].nr_values
                        /\ nk'[m].vallist = nk[m].vallist
                        /\ nk'[m].classname = nk[m].classname
                        /\ nk'[m].subkey_lf = nk[m].subkey_lf
  BY <1>4 DEF Nodes
<1>11. Tidy'
  BY <1>0, <1>6, <1>9, <1>10, TidyKept
<1>12. Unset'
  BY <1>6 DEF Unset
<1>13. ASSUME Quiet PROVE Accounted'
  <2>1. Accounted /\ Declared
    BY <1>6, <1>13, LinksAre DEF LeaksInv, Quiet
  <2>2. ASSUME NEW b, Spare(b) PROVE Spare(b)'
    <3>1. lf[b] # <<>> \/ b # c
      BY <1>8, ToSetNone
    <3> QED BY <1>4, <1>6, <2>2, <3>1 DEF Spare
  <2>3. VkGrows /\ \A m \in Nodes : SameFields(m) /\ Lists(m)' = Lists(m)
    BY <1>6, <1>10 DEF VkGrows, SameFields, Lists
  <2>4. ASSUME NEW m \in Nodes, m # p \/ nk[p].nr_subkeys # 1
        PROVE  Uses(m)' = Uses(m)
    <3>1. CASE m # p
      BY <1>0, <1>10, <2>3, <3>1, UsesKept
    <3>2. CASE m = p /\ nk[p].nr_subkeys # 1
      <4>1. Vals(p)' = Vals(p) /\ Datas(p)' = Datas(p)
        BY <1>0, <1>4, <2>3, SameHeld
      <4>2. Listing(p)' = Listing(p)
        BY <1>4, <2>3 DEF Listing
      <4>3. nk[p].nr_subkeys # 0 /\ nk'[p].nr_subkeys # 0
        BY <1>4, <1>5, <3>2
      <4> QED BY <1>4, <3>2, <4>1, <4>2, <4>3 DEF Uses
    <3> QED BY <2>4, <3>1, <3>2
  <2>5. ASSUME NEW b \in Uses(p), nk[p].nr_subkeys = 1
        PROVE  Spare(b)' \/ b \in Uses(p)'
    <3>1. Vals(p)' = Vals(p) /\ Datas(p)' = Datas(p)
      BY <1>0, <1>4, <2>3, SameHeld
    <3>2. CASE b \notin Listing(p)
      <4>1. b \in {p, nk[p].vallist, nk[p].classname} \cup Vals(p) \cup Datas(p)
        BY <2>5, <3>2 DEF Uses
      <4> QED BY <1>4, <3>1, <4>1 DEF Uses
    <3>3. CASE b \in Listing(p)
      <4>1. Kids(p) = {e}
        <5>1. Cardinality(Kids(p)) = 1
          BY <1>4, <2>1, <2>5 DEF Declared
        <5>2. Cardinality(Kids(p) \ {e}) = 1 - 1 /\ IsFiniteSet(Kids(p) \ {e})
          BY <1>7, <5>1, FS_RemoveElement
        <5>3. Cardinality(Kids(p) \ {e}) = 0
          BY <5>2
        <5>4. Kids(p) \ {e} = {}
          BY <5>2, <5>3, FS_EmptySet
        <5> QED BY <1>7, <5>4
      <4>2. Live(p) /\ Shaped(p)
        <5>1. nk[p].subkey_lf \in valid
          BY <1>4 DEF ListsOK
        <5> QED BY <1>4, <5>1 DEF Live, SoundKeys
      <4>3. CASE b \in DOMAIN ri
        BY <1>6, <4>3 DEF Spare
      <4>4. CASE b \notin DOMAIN ri
        <5>1. b \in ToSet(Lists(p))
          <6>1. CASE b = nk[p].subkey_lf
            <7>1. Lists(p) = <<b>>
              BY <4>4, <6>1 DEF Lists
            <7> QED BY <7>1, ToSetOne
          <6> QED BY <3>3, <6>1 DEF Listing
        <5>2. ToSet(lf[b]) \subseteq Kids(p)
          BY <2>5, <5>1 DEF Kids
        <5>3. ToSet(lf'[b]) = {}
          BY <1>7, <4>1, <5>1, <5>2
        <5>4. b \in DOMAIN lf
          BY <4>2, <5>1 DEF Shaped
        <5>5. PICK s \in Seq(Nat) : s = lf'[b]
          BY <1>4, <5>4
        <5>6. s = <<>>
          <6>1. Len(s) \in Nat /\ \A i \in 1 .. Len(s) : s[i] \in ToSet(s)
            BY ToSetFacts
          <6>2. 1 \notin 1 .. Len(s)
            BY <5>3, <5>5, <6>1
          <6>3. Len(s) = 0
            BY <6>1, <6>2
          <6> QED BY <6>3
        <5> QED BY <1>4, <5>4, <5>5, <5>6 DEF Spare
      <4> QED BY <4>3, <4>4
    <3> QED BY <3>2, <3>3
  <2>6. \A n \in Nodes : \A b \in valid' :
          b \in Uses(n) => Spare(b)' \/ \E m \in Nodes' : b \in Uses(m)'
    BY <1>4, <1>9, <2>4, <2>5
  <2> QED BY <1>6, <2>1, <2>2, <2>6, AccountedKept
<1>14. Quiet' => Quiet
  BY <1>6 DEF Quiet
<1> QED BY <1>11, <1>12, <1>13, <1>14 DEF LeaksInv

-----------------------------------------------------------------------------
(* The theorem *)

(* What belongs to a node when no call is under way. *)
LEMMA UsesAre ==
  ASSUME NEW n \in Nodes, SoundRecords, SoundValues, SoundKeys, Open(n),
         ~Unfinished(n)
  PROVE  Uses(n) = {n, nk[n].vallist, nk[n].classname} \cup ToSet(Blocks(n))
                     \cup OwnedValues(n)
<1>1. Lengths /\ RecordTypes /\ Vals(n) \subseteq valid
  BY DEF SoundValues, SoundRecords, Whole
<1>2. ToSet(ValuesOf(n)) = Vals(n)
  BY <1>1, ValuesOfAre
<1>3. Vals(n) \subseteq DOMAIN vk
  <2>1. Zero \notin valid /\ Vals(n) \subseteq DOMAIN vk \cup {Zero}
    BY <1>1, HeldKinds DEF RecordTypes, Allocated, Zero
  <2> QED BY <1>1, <2>1
<1>4. OwnedValues(n) = Vals(n) \cup Datas(n)
  BY <1>2, <1>3 DEF OwnedValues, Datas
<1>5. ToSet(Blocks(n)) = IF nk[n].nr_subkeys = 0 THEN {} ELSE Listing(n)
  BY BlocksAre
<1> QED BY <1>4, <1>5 DEF Uses

LEMMA LeaksAre ==
  ASSUME RecordsInv, SoundValues, SoundKeys, LinksInv, Undisturbed
  PROVE  Accounted <=> OnlyEmptyListsLeak
<1>1. SoundRecords /\ Declared
  BY LinksAre DEF RecordsInv, Undisturbed
<1>2. \A n \in Nodes : Open(n) /\ ~Unfinished(n)
  BY <1>1 DEF Declared, Open, Unfinished, Undisturbed
<1>3. \A n \in Nodes :
        Uses(n) = {n, nk[n].vallist, nk[n].classname} \cup ToSet(Blocks(n))
                    \cup OwnedValues(n)
  BY <1>1, <1>2, UsesAre
<1>4. \A b : b \in Owned <=> b \in DOMAIN sk \/ \E n \in Nodes : b \in Uses(n)
  <2>1. \A b : b \in Owned <=>
                 \/ b \in DOMAIN sk
                 \/ \E n \in Nodes :
                      b \in {n, nk[n].vallist, nk[n].classname} \cup ToSet(Blocks(n))
                              \cup OwnedValues(n)
    BY DEF Owned
  <2> QED BY <1>3, <2>1
<1> QED BY <1>4 DEF Accounted, OnlyEmptyListsLeak, Spare, Undisturbed

LEMMA InitLeaks ==
  Init /\ SoundRecords /\ SoundValues /\ SoundKeys /\ LinksAgree /\ Tidy
    /\ OnlyEmptyListsLeak => LeaksInv
<1> SUFFICES ASSUME Init, SoundRecords, SoundValues, SoundKeys, LinksAgree, Tidy,
                    OnlyEmptyListsLeak
             PROVE  LeaksInv
  OBVIOUS
<1>1. RecordsInv /\ LinksInv
  BY InitRecords, InitLinks
<1>2. Undisturbed /\ pc = "idle"
  BY DEF Init, Undisturbed
<1>3. Accounted
  BY <1>1, <1>2, LeaksAre
<1> QED BY <1>2, <1>3 DEF LeaksInv, Unset

LEMMA NextLeaks ==
  RecordsInv /\ SoundValues /\ SoundKeys /\ LinksInv /\ LeaksInv /\ [Next]_vars
    => LeaksInv'
<1> SUFFICES ASSUME RecordsInv, SoundValues, SoundKeys, LinksInv, LeaksInv,
                    [Next]_vars
             PROVE  LeaksInv'
  OBVIOUS
<1>1. CASE UNCHANGED vars
  <2>1. Quiet' => Quiet
    BY <1>1 DEF vars, historyVars, Quiet
  <2> QED BY <1>1, <2>1, SameLeaks DEF vars, treeVars, valueVars, callVars
<1>2. CASE OutOfMemory
  BY <1>2, RefuseLeaks DEF OutOfMemory
<1>3. ASSUME NEW n \in handles, NEW name \in Names,
             \/ AddChildRefused(n, name) \/ AddChildNoSk(n, name)
             \/ AddChildFails(n, name) \/ AddFirstChild(n, name)
             \/ InsertChild(n, name)
      PROVE  LeaksInv'
  <2>1. CASE AddChildRefused(n, name)
    BY <2>1, RefuseLeaks DEF AddChildRefused
  <2> QED BY <1>3, <2>1, NoSkNever, FailsLeaks, AddFirstChildLeaks,
             InsertChildLeaks
<1>4. ASSUME NEW n \in handles, DeleteRefused(n) \/ SetValueRefused(n)
      PROVE  LeaksInv'
  BY <1>4, RefuseLeaks DEF DeleteRefused, SetValueRefused
<1>5. ASSUME NEW n \in handles, DeleteBegin(n)
      PROVE  LeaksInv'
  BY <1>5, DeleteStepsLeaks
<1>6. ASSUME NEW n \in handles, NEW vs \in ValueLists, SetValues(n, vs)
      PROVE  LeaksInv'
  <2>1. vs \in Seq(ValueType)
    BY HiveTreeAssumption
  <2> QED BY <1>6, <2>1, SetValuesLeaks
<1>7. ASSUME NEW n \in handles, NEW v \in Values, SetValue(n, v)
      PROVE  LeaksInv'
  <2>1. Replaced(n, v) \in Seq(ValueType)
    BY <1>7, ReplacedType, HiveTreeAssumption DEF SetValue, RecordsInv
  <2> QED BY <1>7, <2>1, SetValuesLeaks DEF SetValue
<1>8. CASE VisitNode \/ DeleteFails
  BY <1>8, DeleteStepsLeaks
<1>9. CASE DeleteNode \/ Unlink
  BY <1>9, DeleteNodeLeaks, UnlinkLeaks
<1>10. CASE DeleteNodeNoSk
  BY <1>10, DeleteNoSkNever
<1>11. CASE DeleteNodeAborts
  BY <1>11, RefuseLeaks DEF DeleteNodeAborts, AtNodeEnd
<1>12. CASE DeleteNodeNoValues \/ StoreRecordFails
  BY <1>12, FailedLeaks
<1>13. CASE StoreValue \/ StoreDataFails
  BY <1>13, StoreValueLeaks, StoreDataFailsLeaks
<1> QED
  BY <1>1, <1>2, <1>3, <1>4, <1>5, <1>6, <1>7, <1>8, <1>9, <1>10, <1>11,
     <1>12, <1>13
  DEF Next

(* On a hive of any size that wastes no block when it is opened, the calls *)
(* waste none as long as none fails half way: every block in use belongs   *)
(* to a node or is an sk record, but for the lists of nodes that have lost *)
(* all their children.                                                     *)
THEOREM OnlyEmptyListsLeakCorrect ==
  Spec /\ SoundRecords /\ SoundValues /\ SoundKeys /\ LinksAgree /\ Tidy
    /\ OnlyEmptyListsLeak => []OnlyEmptyListsLeak
<1>1. RecordsInv /\ SoundValues /\ SoundKeys /\ LinksInv /\ LeaksInv
        => OnlyEmptyListsLeak
  <2> SUFFICES ASSUME RecordsInv, SoundValues, SoundKeys, LinksInv, LeaksInv,
                      Undisturbed
               PROVE  OnlyEmptyListsLeak
    BY DEF OnlyEmptyListsLeak
  <2>1. Accounted
    BY DEF LeaksInv, Quiet, Undisturbed
  <2> QED BY <2>1, LeaksAre
<1> QED
  BY <1>1, InitLeaks, NextLeaks, InitLinks, NextLinks, InitStack, NextStack,
     InitRecords, NextRecords, InitSet, NextSet, NextValues, NextKeys, PTL
  DEF Spec
=============================================================================
