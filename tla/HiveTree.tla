----------------------------- MODULE HiveTree -----------------------------
(***************************************************************************)
(* The records of lib/hivex.c that make a hive a tree of keys: nk records  *)
(* (nodes), the lf/lh and ri records that list the children of a node,     *)
(* value lists, vk records and their data, and the reference-counted sk    *)
(* records; and the calls that change them: hivex_node_add_child,          *)
(* hivex_node_delete_child, hivex_node_set_values, hivex_node_set_value.   *)
(*                                                                         *)
(* A block is known by a number given in the order of allocation, as       *)
(* allocate_block never reuses one; HiveBlocks models where it lies.  A    *)
(* block that is marked unused keeps its contents and leaves "valid".      *)
(* The calls set errno to many values; only success and failure are told   *)
(* apart here.                                                             *)
(***************************************************************************)
EXTENDS Integers, Sequences, FiniteSets, SequencesExt

CONSTANTS
  Hives,        \* the hives a handle may have been opened on
  Names,        \* node names given to hivex_node_add_child
  Fold(_),      \* place of a name or key in strcasecmp's order
  Values,       \* the values given to hivex_node_set_value
  ValueLists,   \* the lists given to hivex_node_set_values
  MaxSubkeys,   \* HIVEX_MAX_SUBKEYS
  MaxValues,    \* HIVEX_MAX_VALUES
  MaxBlocks,    \* bound: no block is allocated beyond this number
  MaxOrphans    \* bound: so many calls of add_child may fail half way

(* What hivex_value_value and hivex_value_key tell of a value. *)
ValueType ==
  [key : STRING, t : STRING, len : {"inline", "block", "huge"}, data : Nat]

ASSUME HiveTreeAssumption ==
  /\ Names \subseteq STRING /\ \A name \in Names : Fold(name) \in Int
  /\ Values \subseteq ValueType /\ ValueLists \subseteq Seq(ValueType)
  /\ MaxSubkeys \in Nat /\ MaxValues \in Nat

None == -1      \* an offset field of 0xffffffff: no block
Zero == 0       \* an offset field of a new block, before it is filled in

VARIABLES
  root,       \* h->rootoffs
  valid,      \* the blocks in h->bitmap
  next,       \* the block that allocate_block returns next
  nk,         \* nk records: nodes
  lf,         \* lf and lh records: the offsets in them
  ri,         \* ri records: the offsets in them
  sk,         \* sk records
  vl,         \* value lists: the offsets in them
  vk,         \* vk records
  db,         \* data blocks: what they hold (a number stands for it)
  pc,         \* the call that is under way
  ret,        \* what the last call returned
  handles,    \* the nodes the application has been given
  target,     \* the node that the call under way deletes or sets values of
  frames,     \* delete_child: the nested calls of hivex__visit_node
  unvisited,  \* delete_child: the visitor's bitmap
  list,       \* set_values: the values to store
  stored,     \* set_values: how many of them have been stored
  torn,       \* history: nodes whose values a failed set_values has left
  orphans,    \* history: nodes that a failed add_child has left
  partial     \* history: a delete_child has failed half way

treeVars == <<nk, lf, ri, sk>>
valueVars == <<vl, vk, db>>
callVars == <<target, frames, unvisited, list, stored>>
historyVars == <<handles, torn, orphans, partial>>
vars == <<root, valid, next, treeVars, valueVars, pc, ret, callVars,
          historyVars>>

-----------------------------------------------------------------------------
(* Reading *)

IsNode(b) == b \in valid \cap DOMAIN nk

(* The lf and lh records of a node that has children, in reading order. *)
Lists(n) ==
  IF nk[n].subkey_lf \in DOMAIN ri THEN ri[nk[n].subkey_lf]
                                   ELSE <<nk[n].subkey_lf>>

(* What get_children returns as the intermediate blocks, ... *)
Blocks(n) ==
  IF nk[n].nr_subkeys = 0 THEN <<>>
  ELSE IF nk[n].subkey_lf \in DOMAIN ri THEN <<nk[n].subkey_lf>> \o Lists(n)
  ELSE <<nk[n].subkey_lf>>

(* ... and as the children. *)
Children(n) ==
  IF nk[n].nr_subkeys = 0 THEN <<>>
  ELSE FlattenSeq([i \in DOMAIN Lists(n) |-> lf[Lists(n)[i]]])

(* get_children succeeds with GET_CHILDREN_NO_CHECK_NK, ... *)
ListsOK(n) ==
  \/ nk[n].nr_subkeys = 0
  \/ /\ nk[n].nr_subkeys <= MaxSubkeys
     /\ nk[n].subkey_lf \in valid \cap (DOMAIN lf \cup DOMAIN ri)
     /\ ToSet(Lists(n)) \subseteq valid \cap DOMAIN lf
     /\ nk[n].nr_subkeys = Len(Children(n))

(* ... and without it. *)
ChildrenOK(n) == ListsOK(n) /\ ToSet(Children(n)) \subseteq valid

(* Mutant: names are compared with strcmp. *)
HasChild_Case(n, name) ==
  /\ ChildrenOK(n)
  /\ \E c \in ToSet(Children(n)) : nk[c].name = name

(* hivex_node_get_child finds a child. *)
HasChild(n, name) ==
  /\ ChildrenOK(n)
  /\ \E c \in ToSet(Children(n)) : Fold(nk[c].name) = Fold(name)

(* The values that get_values returns, and when it succeeds. *)
ValuesOf(n) ==
  IF nk[n].nr_values = 0 THEN <<>>
  ELSE SubSeq(vl[nk[n].vallist], 1, nk[n].nr_values)

ValuesOK(n) ==
  \/ nk[n].nr_values = 0
  \/ /\ nk[n].nr_values <= MaxValues
     /\ nk[n].vallist \in valid
     /\ nk[n].nr_values <= Len(vl[nk[n].vallist])
     /\ ToSet(ValuesOf(n)) \subseteq valid

(* hivex_value_value succeeds, and what it returns with hivex_value_key. *)
Readable(v) == v \in DOMAIN vk /\ (vk[v].inline \/ vk[v].data \in valid)

ReadValue(v) ==
  [key |-> vk[v].key, t |-> vk[v].t,
   len |-> IF vk[v].inline THEN "inline" ELSE "block",
   data |-> IF vk[v].inline THEN vk[v].data ELSE db[vk[v].data]]

Stored(n) == [i \in DOMAIN ValuesOf(n) |-> ReadValue(ValuesOf(n)[i])]

(* The visitor reads every value before the children, whatever callbacks   *)
(* it was given, and does not look at the errors of hivex_value_dword and  *)
(* hivex_value_qword.                                                      *)
VisitsValues(n) ==
  /\ ValuesOK(n)
  /\ \A v \in ToSet(ValuesOf(n)) :
       v \in DOMAIN vk /\ (vk[v].t = "qword" \/ Readable(v))

-----------------------------------------------------------------------------
(* hivex_open has found the records of one of the hives.  The application  *)
(* may know any node of it.                                                *)
Init ==
  /\ \E h \in Hives :
       /\ root = h.root /\ valid = h.valid
       /\ nk = h.nk /\ lf = h.lf /\ ri = h.ri /\ sk = h.sk
       /\ vl = h.vl /\ vk = h.vk /\ db = h.db
       /\ next = h.next
       /\ handles = DOMAIN h.nk
  /\ pc = "idle" /\ ret = "ok"
  /\ target = None /\ frames = <<>> /\ unvisited = {}
  /\ list = <<>> /\ stored = 0
  /\ torn = {} /\ orphans = {} /\ partial = FALSE

(* The call under way returns r to the application. *)
Return(r) ==
  /\ pc' = "idle" /\ ret' = r
  /\ target' = None /\ frames' = <<>> /\ unvisited' = {}
  /\ list' = <<>> /\ stored' = 0

(* A call returns an error without having changed anything. *)
Refuse ==
  /\ Return("error")
  /\ UNCHANGED <<root, valid, next, treeVars, valueVars, historyVars>>

(* assert (IS_VALID_BLOCK (h, offset)) fails in mark_block_unused. *)
Abort ==
  /\ pc' = "aborted"
  /\ UNCHANGED <<root, valid, next, treeVars, valueVars, ret, callVars,
                 historyVars>>

(* mark_block_unused may be called for these blocks, one after the other. *)
CanFree(s) == ToSet(s) \subseteq valid /\ Cardinality(ToSet(s)) = Len(s)

(* The records f with the new record r in block b. *)
NewRecord(f, b, r) == [a \in DOMAIN f \cup {b} |-> IF a = b THEN r ELSE f[a]]

(* Any call may run out of memory before it has changed anything. *)
OutOfMemory == pc = "idle" /\ Refuse

-----------------------------------------------------------------------------
(* hivex_node_add_child *)

NewNode(p, name, s) ==
  [name |-> name, parent |-> p, nr_subkeys |-> 0, subkey_lf |-> None,
   nr_values |-> 0, vallist |-> None, sk |-> s, classname |-> None]

CanAdd(p, name) == IsNode(p) /\ name # "" /\ ~HasChild(p, name)

AddChildRefused(p, name) ==
  /\ pc = "idle" /\ ~CanAdd(p, name)
  /\ Refuse

HasSk(p) == nk[p].sk \in valid \cap DOMAIN sk

(* The parent's sk record is unusable: the new node stays allocated. *)
AddChildNoSk(p, name) ==
  /\ pc = "idle" /\ CanAdd(p, name) /\ ~HasSk(p)
  /\ next <= MaxBlocks /\ Cardinality(orphans) < MaxOrphans    \* bounds
  /\ nk' = NewRecord(nk, next, NewNode(p, name, Zero))
  /\ valid' = valid \cup {next} /\ next' = next + 1
  /\ orphans' = orphans \cup {next}
  /\ Return("error")
  /\ UNCHANGED <<root, lf, ri, sk, valueVars, handles, torn, partial>>

(* The new node has taken its reference to the parent's sk record, then    *)
(* get_children or the allocation of the list fails.                       *)
AddChildFails(p, name) ==
  /\ pc = "idle" /\ CanAdd(p, name) /\ HasSk(p)
  /\ next <= MaxBlocks /\ Cardinality(orphans) < MaxOrphans    \* bounds
  /\ nk' = NewRecord(nk, next, NewNode(p, name, nk[p].sk))
  /\ sk' = [sk EXCEPT ![nk[p].sk].refcount = @ + 1]
  /\ valid' = valid \cup {next} /\ next' = next + 1
  /\ orphans' = orphans \cup {next}
  /\ Return("error")
  /\ UNCHANGED <<root, lf, ri, valueVars, handles, torn, partial>>

(* The node at "next" is linked by the list at "next + 1", which the       *)
(* parent refers to by subkey_lf directly if "direct".                     *)
LinkNode(p, name, direct) ==
  /\ nk' = NewRecord([nk EXCEPT ![p].nr_subkeys = @ + 1,
                                ![p].subkey_lf = IF direct THEN next + 1 ELSE @],
                     next, NewNode(p, name, nk[p].sk))
  /\ sk' = [sk EXCEPT ![nk[p].sk].refcount = @ + 1]
  /\ next' = next + 2
  /\ handles' = handles \cup {next}
  /\ Return("ok")
  /\ UNCHANGED <<root, valueVars, torn, orphans, partial>>

AddFirstChild(p, name) ==
  /\ pc = "idle" /\ CanAdd(p, name) /\ HasSk(p)
  /\ nk[p].nr_subkeys = 0
  /\ next + 1 <= MaxBlocks                                    \* bound
  /\ lf' = NewRecord(lf, next + 1, <<next>>)
  /\ valid' = valid \cup {next, next + 1}
  /\ LinkNode(p, name, TRUE)
  /\ UNCHANGED ri

(* The keys of list l whose names come after "name". *)
After(l, name) ==
  {j \in DOMAIN lf[l] : Fold(name) < Fold(nk[lf[l][j]].name)}

(* Mutant: the end of the last list is taken as the place. *)
Place_AtEnd(p, name) ==
  [list |-> Len(Lists(p)), at |-> Len(lf[Last(Lists(p))]) + 1]

(* Where the new key goes: before the first key that comes after it, or    *)
(* at the end of the last list.                                            *)
Place(p, name) ==
  LET later == {i \in DOMAIN Lists(p) : After(Lists(p)[i], name) # {}}
  IN  IF later = {}
        THEN [list |-> Len(Lists(p)), at |-> Len(lf[Last(Lists(p))]) + 1]
        ELSE [list |-> Min(later), at |-> Min(After(Lists(p)[Min(later)], name))]

InsertChild(p, name) ==
  LET place == Place(p, name)
      old == Lists(p)[place.list]
      direct == nk[p].subkey_lf = old
      link == SelectInSeq(Lists(p), LAMBDA b : b = old)
  IN
  /\ pc = "idle" /\ CanAdd(p, name) /\ HasSk(p)
  /\ nk[p].nr_subkeys > 0 /\ ChildrenOK(p)
  /\ next + 1 <= MaxBlocks                                    \* bound
  /\ lf' = NewRecord(lf, next + 1, InsertAt(lf[old], place.at, next))
  /\ valid' = (valid \ {old}) \cup {next, next + 1}
  /\ ri' = IF direct THEN ri
           ELSE [ri EXCEPT ![nk[p].subkey_lf][link] = next + 1]
  /\ LinkNode(p, name, direct)

-----------------------------------------------------------------------------
(* delete_values, delete_sk *)

(* Mutant: the data blocks are forgotten. *)
ValueBlocks_NoData(n) ==
  IF nk[n].nr_values = 0 THEN <<>>
  ELSE <<nk[n].vallist>> \o ValuesOf(n)

(* The blocks delete_values frees, in its order. *)
ValueBlocks(n) ==
  IF nk[n].nr_values = 0 THEN <<>>
  ELSE <<nk[n].vallist>> \o
       FlattenSeq([i \in DOMAIN ValuesOf(n) |->
                     LET v == ValuesOf(n)[i]
                     IN  IF vk[v].inline THEN <<v>> ELSE <<vk[v].data, v>>])

(* The nk record of a node that has lost its values. *)
NoValues(n) == [nk EXCEPT ![n].nr_values = 0, ![n].vallist = None]

(* delete_sk succeeds for the sk record of n, if it has one. *)
SkOK(n) == nk[n].sk = None \/ (HasSk(n) /\ sk[nk[n].sk].refcount > 0)

LastUse(n) == nk[n].sk # None /\ sk[nk[n].sk].refcount = 1

(* Mutant: the neighbours of a deleted sk record are not joined. *)
DropSk_NoUnlink(n) ==
  IF nk[n].sk = None THEN sk ELSE [sk EXCEPT ![nk[n].sk].refcount = @ - 1]

(* The sk records without the reference from n.  One that loses its last   *)
(* reference is taken out of the ring.                                     *)
DropSk(n) ==
  LET s == nk[n].sk
      dropped == [sk EXCEPT ![s].refcount = @ - 1]
  IN  IF s = None THEN sk
      ELSE IF LastUse(n) /\ sk[s].prev # s /\ sk[s].next # s
        THEN [dropped EXCEPT ![sk[s].prev].next = sk[s].next,
                             ![sk[s].next].prev = sk[s].prev]
        ELSE dropped

-----------------------------------------------------------------------------
(* hivex_node_delete_child: hivex_visit_node with delete_node as the only  *)
(* callback, called for a node after its children; then the link to the    *)
(* node is taken out of the parent's lists.  The frame at the bottom of    *)
(* the stack stands for hivex_node_delete_child itself.                    *)

(* Mutant: the root may be deleted. *)
CanDelete_Root(n) == IsNode(n) /\ nk[n].parent \in valid

CanDelete(n) == IsNode(n) /\ n # root /\ nk[n].parent \in valid

DeleteRefused(n) ==
  /\ pc = "idle" /\ ~CanDelete(n)
  /\ Refuse

DeleteBegin(n) ==
  /\ pc = "idle" /\ CanDelete(n)
  /\ pc' = "delete"
  /\ target' = n
  /\ frames' = <<[node |-> nk[n].parent, rest |-> <<n>>]>>
  /\ unvisited' = valid
  /\ UNCHANGED <<root, valid, next, treeVars, valueVars, ret, list, stored,
                 historyVars>>

Top == Head(frames)

(* Mutant: nodes are visited again and again. *)
Unvisited_Ignored(c) == TRUE

(* BITMAP_TST (unvisited, node) *)
Unvisited(c) == c \in unvisited

VisitNode ==
  /\ pc = "delete" /\ Top.rest # <<>>
  /\ LET c == Head(Top.rest) IN
     /\ Unvisited(c)
     /\ IsNode(c) /\ VisitsValues(c) /\ ChildrenOK(c)
     /\ unvisited' = unvisited \ {c}
     /\ frames' = <<[node |-> c, rest |-> Children(c)],
                    [node |-> Top.node, rest |-> Tail(Top.rest)]>>
                  \o Tail(frames)
  /\ UNCHANGED <<root, valid, next, treeVars, valueVars, pc, ret, target,
                 list, stored, historyVars>>

(* Everything delete_node frees, apart from the sk record. *)
NodeBlocks(n) ==
  Blocks(n) \o ValueBlocks(n) \o
  (IF nk[n].classname = None THEN <<>> ELSE <<nk[n].classname>>) \o <<n>>

AtNodeEnd == pc = "delete" /\ Top.rest = <<>> /\ Len(frames) > 1

DeleteNode ==
  LET n == Top.node IN
  /\ AtNodeEnd
  /\ ListsOK(n) /\ ValuesOK(n) /\ SkOK(n) /\ CanFree(NodeBlocks(n))
  /\ valid' = valid \ (ToSet(NodeBlocks(n)) \cup
                       (IF LastUse(n) THEN {nk[n].sk} ELSE {}))
  /\ sk' = DropSk(n)
  /\ nk' = [NoValues(n) EXCEPT ![n].sk = None, ![n].classname = None]
  /\ frames' = Tail(frames)
  /\ UNCHANGED <<root, next, lf, ri, valueVars, pc, ret, target, unvisited,
                 list, stored, historyVars>>

(* delete_values fails when the lists have been freed: the values cannot   *)
(* be read, or there is no memory for their offsets.                       *)
DeleteNodeNoValues ==
  LET n == Top.node IN
  /\ AtNodeEnd
  /\ ListsOK(n) /\ CanFree(Blocks(n))
  /\ valid' = valid \ ToSet(Blocks(n))
  /\ partial' = TRUE
  /\ Return("error")
  /\ UNCHANGED <<root, next, treeVars, valueVars, handles, torn, orphans>>

(* delete_sk fails when the lists and the values have been freed. *)
DeleteNodeNoSk ==
  LET n == Top.node IN
  /\ AtNodeEnd
  /\ ListsOK(n) /\ ValuesOK(n) /\ ~SkOK(n)
  /\ CanFree(Blocks(n) \o ValueBlocks(n))
  /\ valid' = valid \ ToSet(Blocks(n) \o ValueBlocks(n))
  /\ nk' = NoValues(n)
  /\ partial' = TRUE
  /\ Return("error")
  /\ UNCHANGED <<root, next, lf, ri, sk, valueVars, handles, torn, orphans>>

DeleteNodeAborts ==
  LET n == Top.node IN
  /\ AtNodeEnd
  /\ ListsOK(n)
  /\ \/ ~CanFree(Blocks(n))
     \/ ValuesOK(n) /\ ~CanFree(Blocks(n) \o ValueBlocks(n))
     \/ ValuesOK(n) /\ SkOK(n) /\ ~CanFree(NodeBlocks(n))
  /\ Abort

(* Mutant: nr_subkeys of the parent is not decremented. *)
Unlink_KeepCount ==
  LET p == Top.node
      l == Lists(p)[SelectInSeq(Lists(p), LAMBDA b : target \in ToSet(lf[b]))]
  IN
  /\ pc = "delete" /\ Top.rest = <<>> /\ Len(frames) = 1
  /\ IsNode(p) /\ ListsOK(p) /\ target \in ToSet(Children(p))
  /\ lf' = [lf EXCEPT ![l] = RemoveFirst(@, target)]
  /\ Return("ok")
  /\ UNCHANGED <<root, valid, next, nk, ri, sk, valueVars, historyVars>>

(* The first list that holds the node loses it. *)
Unlink ==
  LET p == Top.node
      l == Lists(p)[SelectInSeq(Lists(p), LAMBDA b : target \in ToSet(lf[b]))]
  IN
  /\ pc = "delete" /\ Top.rest = <<>> /\ Len(frames) = 1
  /\ IsNode(p) /\ ListsOK(p) /\ target \in ToSet(Children(p))
  /\ lf' = [lf EXCEPT ![l] = RemoveFirst(@, target)]
  /\ nk' = [nk EXCEPT ![p].nr_subkeys = @ - 1]
  /\ Return("ok")
  /\ UNCHANGED <<root, valid, next, ri, sk, valueVars, historyVars>>

(* A node, a value or a list that cannot be read, a node met twice, a      *)
(* link that is not found, or no memory for what is read: the call gives   *)
(* up, and what has been deleted stays deleted.                            *)
DeleteFails ==
  /\ pc = "delete"
  /\ Return("error")
  /\ partial' = (partial \/ Len(frames) > 1 \/ Top.rest = <<>>)
  /\ UNCHANGED <<root, valid, next, treeVars, valueVars, handles, torn,
                 orphans>>

-----------------------------------------------------------------------------
(* hivex_node_set_values: the old values are deleted, a list with zeroed   *)
(* offsets is linked to the node, then the values are stored one by one.   *)

CanClear(n) == IsNode(n) /\ ValuesOK(n) /\ CanFree(ValueBlocks(n))

SetValuesRefused(n) ==
  /\ pc = "idle"
  /\ ~IsNode(n) \/ ~ValuesOK(n)
  /\ Refuse

SetValuesAborts(n) ==
  /\ pc = "idle"
  /\ IsNode(n) /\ ValuesOK(n) /\ ~CanFree(ValueBlocks(n))
  /\ Abort

(* There is no value to store, or no block for the list of values. *)
ClearValues(n, vs) ==
  /\ pc = "idle" /\ CanClear(n)
  /\ valid' = valid \ ToSet(ValueBlocks(n))
  /\ nk' = NoValues(n)
  /\ Return(IF vs = <<>> THEN "ok" ELSE "error")
  /\ UNCHANGED <<root, next, lf, ri, sk, valueVars, historyVars>>

SetValuesBegin(n, vs) ==
  /\ pc = "idle" /\ CanClear(n) /\ vs # <<>>
  /\ next <= MaxBlocks                                        \* bound
  /\ valid' = (valid \ ToSet(ValueBlocks(n))) \cup {next}
  /\ next' = next + 1
  /\ vl' = NewRecord(vl, next, [i \in DOMAIN vs |-> Zero])
  /\ nk' = [nk EXCEPT ![n].nr_values = Len(vs), ![n].vallist = next]
  /\ pc' = "set"
  /\ target' = n /\ list' = vs /\ stored' = 0
  /\ UNCHANGED <<root, lf, ri, sk, vk, db, ret, frames, unvisited,
                 historyVars>>

(* Mutant: the offset of every vk record goes to the head of the list. *)
PutValue_First(v, d) ==
  /\ vk' = NewRecord(vk, next, [key |-> v.key, t |-> v.t,
                                inline |-> v.len = "inline", data |-> d])
  /\ vl' = [vl EXCEPT ![nk[target].vallist][1] = next]

(* Mutant: the flag for inline data is set on every value. *)
PutValue_NoFlag(v, d) ==
  /\ vk' = NewRecord(vk, next, [key |-> v.key, t |-> v.t,
                                inline |-> TRUE, data |-> d])
  /\ vl' = [vl EXCEPT ![nk[target].vallist][stored + 1] = next]

(* The vk record for value v, stored at "next" with its data at d. *)
PutValue(v, d) ==
  /\ vk' = NewRecord(vk, next, [key |-> v.key, t |-> v.t,
                                inline |-> v.len = "inline", data |-> d])
  /\ vl' = [vl EXCEPT ![nk[target].vallist][stored + 1] = next]

(* One turn of the loop, and the return behind the last one. *)
StoreValue ==
  LET v == list[stored + 1]
      n == IF v.len = "inline" THEN 1 ELSE 2     \* blocks allocated
  IN
  /\ pc = "set" /\ v.len # "huge"
  /\ next + n - 1 <= MaxBlocks                                \* bound
  /\ PutValue(v, IF n = 1 THEN v.data ELSE next + 1)
  /\ db' = IF n = 1 THEN db ELSE NewRecord(db, next + 1, v.data)
  /\ valid' = valid \cup next .. (next + n - 1)
  /\ next' = next + n
  /\ \/ /\ stored + 1 = Len(list)
        /\ Return("ok")
     \/ /\ stored + 1 < Len(list)
        /\ stored' = stored + 1
        /\ UNCHANGED <<pc, ret, target, frames, unvisited, list>>
  /\ UNCHANGED <<root, treeVars, historyVars>>

(* There is no block for the vk record: its offset stays zero. *)
StoreRecordFails ==
  /\ pc = "set"
  /\ torn' = torn \cup {target}
  /\ Return("error")
  /\ UNCHANGED <<root, valid, next, treeVars, valueVars, handles, orphans,
                 partial>>

(* There is no block for the data, or the data exceed                      *)
(* HIVEX_MAX_ALLOCATION: data_offset stays zero.                           *)
StoreDataFails ==
  /\ pc = "set" /\ list[stored + 1].len # "inline"
  /\ next <= MaxBlocks                                        \* bound
  /\ PutValue(list[stored + 1], Zero)
  /\ valid' = valid \cup {next} /\ next' = next + 1
  /\ torn' = torn \cup {target}
  /\ Return("error")
  /\ UNCHANGED <<root, treeVars, db, handles, orphans, partial>>

SetValues(n, vs) ==
  \/ SetValuesRefused(n)
  \/ SetValuesAborts(n)
  \/ ClearValues(n, vs)
  \/ SetValuesBegin(n, vs)

-----------------------------------------------------------------------------
(* hivex_node_set_value: read all values, replace the last one whose key   *)
(* matches or append the new one, set them all.                            *)

CanReadAll(n) ==
  IsNode(n) /\ ValuesOK(n) /\ \A v \in ToSet(ValuesOf(n)) : Readable(v)

SetValueRefused(n) ==
  /\ pc = "idle" /\ ~CanReadAll(n)
  /\ Refuse

Replaced(n, v) ==
  LET old == Stored(n)
      same == {i \in DOMAIN old : Fold(old[i].key) = Fold(v.key)}
  IN  IF same = {} THEN Append(old, v) ELSE ReplaceAt(old, Max(same), v)

SetValue(n, v) ==
  /\ pc = "idle" /\ CanReadAll(n)
  /\ SetValues(n, Replaced(n, v))

-----------------------------------------------------------------------------
Next ==
  \/ OutOfMemory
  \/ \E n \in handles :
       \/ \E name \in Names :
            \/ AddChildRefused(n, name)
            \/ AddChildNoSk(n, name)
            \/ AddChildFails(n, name)
            \/ AddFirstChild(n, name)
            \/ InsertChild(n, name)
       \/ DeleteRefused(n)
       \/ DeleteBegin(n)
       \/ \E vs \in ValueLists : SetValues(n, vs)
       \/ SetValueRefused(n)
       \/ \E v \in Values : SetValue(n, v)
  \/ VisitNode \/ DeleteNode \/ DeleteNodeNoValues \/ DeleteNodeNoSk
  \/ DeleteNodeAborts \/ Unlink \/ DeleteFails
  \/ StoreValue \/ StoreRecordFails \/ StoreDataFails

Spec == Init /\ [][Next]_vars

-----------------------------------------------------------------------------
(* Properties *)

Nodes == valid \cap DOMAIN nk

(* Every block has one kind; what is valid has been allocated; a call      *)
(* keeps its locals only while it is under way.                            *)
TypeOK ==
  /\ next \in Nat /\ valid \subseteq 1 .. (next - 1)
  /\ root \in Nodes /\ handles \subseteq DOMAIN nk
  /\ UNION {DOMAIN nk, DOMAIN lf, DOMAIN ri, DOMAIN sk, DOMAIN vl,
            DOMAIN vk, DOMAIN db} \subseteq 1 .. (next - 1)
  /\ \A n \in DOMAIN nk :
       /\ nk[n].nr_subkeys \in Nat /\ nk[n].nr_values \in Nat
       /\ nk[n].parent \in 1 .. (next - 1)
       /\ {nk[n].subkey_lf, nk[n].vallist, nk[n].sk, nk[n].classname}
            \subseteq {None, Zero} \cup 1 .. (next - 1)
  /\ \A s \in DOMAIN sk : sk[s].refcount \in Nat
  /\ pc \in {"idle", "delete", "set", "aborted"} /\ ret \in {"ok", "error"}
  /\ torn \subseteq DOMAIN nk /\ orphans \subseteq DOMAIN nk
  /\ partial \in BOOLEAN
  /\ pc = "delete" => frames # <<>> /\ target \in DOMAIN nk
  /\ pc = "set" => target \in Nodes /\ stored < Len(list)
  /\ pc = "idle" => frames = <<>> /\ list = <<>> /\ target = None

(* "the subkeys in lh-records must be kept sorted" (hivex_node_add_child): *)
(* the names of a node's children increase in strcasecmp's order through   *)
(* all its lists, so no two are equal but for case; calls that fail half   *)
(* way do not change that.                                                 *)
KeysSorted ==
  \A n \in Nodes :
    nk[n].nr_subkeys > 0 /\ nk[n].subkey_lf \in valid =>
      \A i, j \in DOMAIN Children(n) :
        i < j => Fold(nk[Children(n)[i]].name) < Fold(nk[Children(n)[j]].name)

(* The refcount of an sk record is the number of nodes that refer to it,   *)
(* no node refers to one that has been freed, and the sk records in use    *)
(* are linked both ways: after every step of every call, orphans of        *)
(* failed calls included.                                                  *)
SkSound ==
  /\ \A n \in Nodes : nk[n].sk = None \/ HasSk(n)
  /\ \A s \in valid \cap DOMAIN sk :
       /\ sk[s].refcount = Cardinality({n \in Nodes : nk[n].sk = s})
       /\ {sk[s].next, sk[s].prev} \subseteq valid \cap DOMAIN sk
       /\ sk[sk[s].next].prev = s /\ sk[sk[s].prev].next = s

(* Between calls, unless a hivex_node_delete_child has failed half way:    *)
(* the number of children a node declares is the number its lists hold,    *)
(* they are nodes that name it as their parent, and every node is listed   *)
(* by its parent, but for the root and what a failed hivex_node_add_child  *)
(* left behind.                                                            *)
LinksAgree ==
  pc = "idle" /\ ~partial =>
    /\ \A n \in Nodes :
         /\ nk[n].nr_subkeys = Len(Children(n))
         /\ ToSet(Blocks(n)) \subseteq valid
         /\ \A c \in ToSet(Children(n)) : c \in Nodes /\ nk[c].parent = n
    /\ \A n \in Nodes \ ({root} \cup orphans) :
         nk[n].parent \in Nodes /\ n \in ToSet(Children(nk[n].parent))

(* Every value of a node can be read, whatever happened to other nodes,    *)
(* except where a hivex_node_set_values failed or is under way.            *)
ValuesAgree ==
  \A n \in Nodes \ torn :
    \/ pc = "set" /\ n = target
    \/ \A v \in ToSet(ValuesOf(n)) : v \in valid /\ Readable(v)

OwnedValues(n) ==
  ToSet(ValuesOf(n)) \cup
  {vk[v].data : v \in {w \in ToSet(ValuesOf(n)) : ~vk[w].inline}}

Owned ==
  DOMAIN sk \cup
  UNION {{n, nk[n].vallist, nk[n].classname} \cup ToSet(Blocks(n))
            \cup OwnedValues(n) : n \in Nodes}

Undisturbed == pc = "idle" /\ torn = {} /\ orphans = {} /\ ~partial

(* As long as no call has failed half way, every used block belongs to a   *)
(* node or is an sk record, but for the lists of nodes that have lost all  *)
(* their children.                                                         *)
OnlyEmptyListsLeak ==
  Undisturbed =>
    \A b \in valid \ Owned :
      b \in DOMAIN ri \/ (b \in DOMAIN lf /\ lf[b] = <<>>)

(* What hivex_node_set_values or hivex_node_set_value has stored when it   *)
(* returns 0 is what hivex_node_values and hivex_value_value then return,  *)
(* unless there are more values than HIVEX_MAX_VALUES.                     *)
ValuesReadBack ==
  /\ pc = "set" /\ pc' = "idle" /\ ret' = "ok"
  /\ Len(list) <= MaxValues
  => \E n \in Nodes : n = target /\ CanReadAll(n)' /\ Stored(n)' = list

SetValuesReadBack == [][ValuesReadBack]_vars

(* "so we don't loop if the registry contains cycles" (hivex_visit_node):  *)
(* however the records are linked, no node is visited inside a visit of    *)
(* itself, so the recursion is no deeper than there are nodes and ends     *)
(* after as many calls.                                                    *)
VisitsOnce ==
  pc = "delete" =>
    \A i, j \in 1 .. (Len(frames) - 1) :
      frames[i].node = frames[j].node => i = j

-----------------------------------------------------------------------------
(* The registry that the records stand for *)

(* The node that hivex_node_delete_child is deleting, from its first visit *)
(* on.                                                                     *)
Deleting ==
  IF frames # <<>> /\ (Len(frames) > 1 \/ Top.rest = <<>>) THEN {target} ELSE {}

IsListed(n, p) == nk[p].nr_subkeys > 0 /\ \E l \in ToSet(Lists(p)) : n \in ToSet(lf[l])

(* The path of a node that can be reached from the root, in a set. *)
PathTo ==
  LET path[n \in DOMAIN nk] ==
        IF n = root THEN {<<>>}
        ELSE LET p == nk[n].parent
             IN  IF n \in Deleting \/ p \notin Nodes THEN {}
                 ELSE IF ~IsListed(n, p) THEN {}
                 ELSE {Append(q, nk[n].name) : q \in path[p]}
  IN  path

(* The values of a node, also while they are being stored. *)
SeenValues(n) ==
  IF pc = "set" /\ n = target
    THEN IF Len(list) > MaxValues THEN [ok |-> FALSE, list |-> <<>>]
                                  ELSE [ok |-> TRUE, list |-> list]
    ELSE IF CanReadAll(n) THEN [ok |-> TRUE, list |-> Stored(n)]
    ELSE [ok |-> FALSE, list |-> <<>>]

Keys ==
  LET at == UNION {{[path |-> p, node |-> n] : p \in PathTo[n]} : n \in Nodes}
  IN  [p \in {a.path : a \in at} |->
         SeenValues((CHOOSE a \in at : a.path = p).node)]

Reg == INSTANCE Registry WITH keys <- IF partial THEN <<>> ELSE Keys,
                              broken <- partial

(* Through lists that are split and replaced, values that are stored one   *)
(* by one and calls that fail half way, an application that follows the    *)
(* offsets from the root sees what Registry says: a key appears or goes    *)
(* with all that is below it in one step, no other key changes, and no two *)
(* siblings have names that differ only in case.                           *)
ImplementsRegistry == Reg!Spec

-----------------------------------------------------------------------------
(* assert (IS_VALID_BLOCK (h, offset)): mark_block_unused is only called   *)
(* for valid blocks.                                                       *)
NoAssertFails == pc # "aborted"

=============================================================================
