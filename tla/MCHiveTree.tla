---------------------------- MODULE MCHiveTree ----------------------------
(***************************************************************************)
(* Small instances of HiveTree: a few hives with one to four nodes.        *)
(***************************************************************************)
EXTENDS HiveTree

(* strcasecmp's order. *)
MCFold(s) ==
  CASE s \in {"a", "A"} -> 1
    [] s \in {"b", "B"} -> 2
    [] s \in {"c", "C"} -> 3
    [] OTHER -> 0

Node(name, parent, subkeys, subkey_lf, values, vallist, s) ==
  [name |-> name, parent |-> parent, nr_subkeys |-> subkeys,
   subkey_lf |-> subkey_lf, nr_values |-> values, vallist |-> vallist,
   sk |-> s, classname |-> None]

Sk(refcount, nxt, prev) == [refcount |-> refcount, next |-> nxt, prev |-> prev]

NoRecords == [b \in {} |-> <<>>]

(* images/minimal: a root and its sk record.  The higher its numbers, the  *)
(* fewer blocks a hive may still allocate below MaxBlocks.                 *)
Minimal ==
  [root |-> 9, valid |-> {9, 10}, next |-> 11,
   nk |-> 9 :> Node("", 10, 0, None, 0, None, 10),
   lf |-> NoRecords, ri |-> NoRecords, sk |-> 10 :> Sk(1, 10, 10),
   vl |-> NoRecords, vk |-> NoRecords, db |-> NoRecords]

(* Two children below an ri record; one has a classname, a security        *)
(* descriptor of its own and a value.  Block 13 is free.                   *)
Branched ==
  [root |-> 1, valid |-> 1 .. 12, next |-> 14,
   nk |-> (1 :> Node("", 2, 2, 3, 0, None, 2)) @@
          (6 :> Node("a", 1, 0, None, 0, None, 2)) @@
          (7 :> [Node("c", 1, 0, None, 1, 9, 8) EXCEPT !.classname = 12]),
   lf |-> (4 :> <<6>>) @@ (5 :> <<7>>),
   ri |-> 3 :> <<4, 5>>,
   sk |-> (2 :> Sk(2, 8, 8)) @@ (8 :> Sk(1, 2, 2)),
   vl |-> 9 :> <<10>>,
   vk |-> 10 :> [key |-> "a", t |-> "qword", inline |-> FALSE, data |-> 11],
   db |-> (11 :> 100) @@ (12 :> 101)]

(* A node with two children of its own, with less room below MaxBlocks. *)
Nested ==
  [root |-> 1, valid |-> 1 .. 14, next |-> 15,
   nk |-> (1 :> Node("", 2, 1, 3, 0, None, 2)) @@
          (4 :> Node("b", 1, 2, 5, 0, None, 10)) @@
          (6 :> Node("a", 4, 0, None, 1, 7, 2)) @@
          (9 :> Node("c", 4, 0, None, 1, 12, 11)),
   lf |-> (3 :> <<4>>) @@ (5 :> <<6, 9>>), ri |-> NoRecords,
   sk |-> (2 :> Sk(2, 10, 11)) @@ (10 :> Sk(1, 11, 2)) @@ (11 :> Sk(1, 2, 10)),
   vl |-> (7 :> <<8>>) @@ (12 :> <<13>>),
   vk |-> (8 :> [key |-> "a", t |-> "binary", inline |-> TRUE, data |-> 100]) @@
          (13 :> [key |-> "b", t |-> "binary", inline |-> FALSE, data |-> 14]),
   db |-> 14 :> 100]

SoundHives == {Minimal, Branched, Nested}

(* Hives that hivex_open accepts although their records disagree. *)
DamagedHives ==
  { [Minimal EXCEPT !.nk[9].sk = Zero],
    [Branched EXCEPT !.sk[2].refcount = 1],
    [Branched EXCEPT !.nk[1].nr_subkeys = 3],
    [Branched EXCEPT !.nk[6].nr_subkeys = 2, !.nk[6].subkey_lf = 3],
    [Branched EXCEPT !.lf[4] = <<6, 6>>, !.nk[1].nr_subkeys = 3],
    [Branched EXCEPT !.nk[7].classname = 11],
    [Branched EXCEPT !.nk[7].sk = Zero],
    [Branched EXCEPT !.nk[6].parent = 4] }

Inline(key, data) == [key |-> key, t |-> "binary", len |-> "inline", data |-> data]
Block(key, data) == [key |-> key, t |-> "qword", len |-> "block", data |-> data]
Huge(key) == [key |-> key, t |-> "binary", len |-> "huge", data |-> 2]

MCValues == {Block("A", 2)}
MCValueLists == {<<>>, <<Inline("b", 1), Block("a", 2)>>, <<Huge("a")>>}
=============================================================================
