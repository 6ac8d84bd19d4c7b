----------------------------- MODULE Registry -----------------------------
(***************************************************************************)
(* What lib/hivex.c promises of a hive that was sound when it was opened:  *)
(* the registry as the application sees it.  A key is known by its path    *)
(* from the root, and every call changes it in one step.  HiveTree is      *)
(* shown to implement this; the shell is built on it.                      *)
(*                                                                         *)
(* The promise is weaker than it could be where a call fails half way:     *)
(* hivex_node_set_values may leave no values, or values that can neither   *)
(* be read nor replaced, and after a hivex_node_delete_child that fails    *)
(* half way nothing is promised any more.                                  *)
(***************************************************************************)
EXTENDS Integers, Sequences, FiniteSets, SequencesExt

CONSTANTS
  Names,        \* node names given to hivex_node_add_child
  Fold(_),      \* place of a name or key in strcasecmp's order
  Values,       \* the values given to hivex_node_set_value
  ValueLists,   \* the lists given to hivex_node_set_values
  MaxSubkeys,   \* HIVEX_MAX_SUBKEYS
  MaxValues     \* HIVEX_MAX_VALUES

VARIABLES
  keys,    \* a function from the paths of the keys to their values
  broken   \* a hivex_node_delete_child has failed half way

vars == <<keys, broken>>

(* What hivex_node_values and hivex_value_value make of a key's values. *)
Readable(vs) == [ok |-> TRUE, list |-> vs]
Unreadable == [ok |-> FALSE, list |-> <<>>]

SubkeysOf(ks, p) == {q \in DOMAIN ks : q # <<>> /\ Front(q) = p}

(* hivex_node_get_child *)
FindKey(ks, p, name) ==
  {q \in SubkeysOf(ks, p) : Fold(Last(q)) = Fold(name)}

(* Every key but the root has a parent, and no two subkeys of a key have   *)
(* names that differ only in case.                                         *)
IsRegistry(ks) ==
  /\ <<>> \in DOMAIN ks
  /\ \A q \in DOMAIN ks \ {<<>>} :
       Front(q) \in DOMAIN ks /\ FindKey(ks, Front(q), Last(q)) = {q}

-----------------------------------------------------------------------------
(* What the registry ks becomes by a call *)

(* hivex_node_add_child returns 0 for a name that is empty or in use, and  *)
(* when there are too many subkeys already to be read.                     *)
CanAdd(ks, p, name) ==
  /\ name # "" /\ FindKey(ks, p, name) = {}
  /\ Cardinality(SubkeysOf(ks, p)) <= MaxSubkeys

Added(ks, p, name) ==
  [q \in DOMAIN ks \cup {Append(p, name)} |->
     IF q \in DOMAIN ks THEN ks[q] ELSE Readable(<<>>)]

(* hivex_node_delete_child: the key goes with all that is below it. *)
Deleted(ks, p) == [q \in {r \in DOMAIN ks : ~IsPrefix(p, r)} |-> ks[q]]

(* hivex_node_set_values: the values of a key are replaced.  More values   *)
(* than HIVEX_MAX_VALUES are stored but cannot be read.                    *)
WithValues(ks, p, vs) ==
  [ks EXCEPT ![p] = IF Len(vs) > MaxValues THEN Unreadable ELSE Readable(vs)]

(* hivex_node_set_value: the last value with the key is replaced, or the   *)
(* new one appended.                                                       *)
Replaced(vs, v) ==
  LET same == {i \in DOMAIN vs : Fold(vs[i].key) = Fold(v.key)}
  IN  IF same = {} THEN Append(vs, v) ELSE ReplaceAt(vs, Max(same), v)

(* Values that cannot be read can be neither replaced nor lost. *)
Settable(ks) == {p \in DOMAIN ks : ks[p].ok}

AddKey(ks) ==
  UNION {{Added(ks, p, name) : name \in {n \in Names : CanAdd(ks, p, n)}} :
           p \in DOMAIN ks}

DeleteKey(ks) == {Deleted(ks, p) : p \in DOMAIN ks \ {<<>>}}

SetValues(ks) == {WithValues(ks, p, vs) : p \in Settable(ks), vs \in ValueLists}

SetValue(ks) ==
  {WithValues(ks, p, Replaced(ks[p].list, v)) : p \in Settable(ks), v \in Values}

(* hivex_node_set_values or hivex_node_set_value has failed half way. *)
LoseValues(ks) ==
  {[ks EXCEPT ![p] = left] : p \in Settable(ks),
                             left \in {Readable(<<>>), Unreadable}}

-----------------------------------------------------------------------------
Init == IsRegistry(keys) /\ broken = FALSE

Call ==
  /\ ~broken /\ UNCHANGED broken
  /\ keys' \in UNION {AddKey(keys), DeleteKey(keys), SetValues(keys),
                      SetValue(keys), LoseValues(keys)}

(* hivex_node_delete_child has failed half way: anything may be found. *)
Break == broken' = TRUE

Next == Call \/ Break

Spec == Init /\ [][Next]_vars
=============================================================================
