----------------------------- MODULE MCHiveXml -----------------------------
(* Small hives for HiveXml: trees, cycles, shared and unreadable nodes,    *)
(* and values of every type whose data end in every way.                   *)
EXTENDS HiveXml

(* A node that can be read. *)
N(vs, cs) ==
  [nameOK |-> TRUE, valuesOK |-> TRUE, childrenOK |-> TRUE,
   values |-> vs, children |-> cs, timestamp |-> 7]

NoName(n) == [n EXCEPT !.nameOK = FALSE, !.timestamp = -1]
NoValues(n) == [n EXCEPT !.valuesOK = FALSE]
NoChildren(n) == [n EXCEPT !.childrenOK = FALSE, !.timestamp = 0]

Hive(ns) == [root |-> 1, last_modified |-> 5, nodes |-> ns]

V(t, bs) ==
  [vk |-> TRUE, keyOK |-> TRUE, t |-> t, inline |-> FALSE, block |-> TRUE,
   len |-> Len(bs), bytes |-> bs]

Word == V("dword", <<1, 0, 2, 255>>)
Text == V("string", <<1, 0>>)

(* Values that some call cannot read. *)
BadValues ==
  {[Word EXCEPT !.vk = FALSE], [Word EXCEPT !.keyOK = FALSE],
   [Word EXCEPT !.block = FALSE], [Text EXCEPT !.block = FALSE],
   [V("binary", <<1>>) EXCEPT !.block = FALSE],
   [V("none", <<>>) EXCEPT !.len = MaxValueLen + 1],
   [V("multiple_strings", <<1, 0>>) EXCEPT !.inline = TRUE, !.len = 6],
   [V("qword", <<1>>) EXCEPT !.block = FALSE]}

GoodValues ==
  {Word, V("dword_be", <<1, 0, 2, 255>>), V("dword", <<1, 0, 2>>),
   [Word EXCEPT !.inline = TRUE], [Word EXCEPT !.len = 6],
   V("qword", <<1, 0, 2, 255, 0, 0, 0, 0>>), V("qword", <<1>>),
   V("none", <<>>), V("binary", <<1, 2>>), V("link", <<0, 2, 0, 0>>),
   V("resource_list", <<1>>), V("unknown", <<1>>)}

(* Data of strings: all of up to five bytes, and some with a second string *)
(* behind the first, cut off or followed by others.                        *)
Texts ==
  UNION {[1 .. n -> {0, 1}] : n \in 0 .. 5} \cup
  {<<1, 0, 0, 0>> \o s : s \in {<<1, 2>>, <<1, 0, 0, 0>>, <<1, 1, 1>>,
                               <<0, 0, 1, 1>>, <<1, 0, 0, 0, 0, 0>>}} \cup
  {<<1, 2>>, <<1, 0, 1, 2>>, <<1, 0, 1>>, <<2, 0>>}

OneNode(v) == Hive(<<N(<<v>>, <<>>)>>)

Shapes ==
  {<<N(<<Text>>, <<2, 3>>), N(<<Word, Text>>, <<>>), N(<<>>, <<4>>), N(<<Text>>, <<>>)>>,
   <<N(<<>>, <<2, 3>>), N(<<>>, <<4>>), N(<<>>, <<4>>), N(<<Word>>, <<>>)>>,
   <<N(<<Text>>, <<2>>), N(<<>>, <<1>>)>>,
   <<N(<<>>, <<1, 2>>), N(<<>>, <<>>)>>,
   <<N(<<>>, <<2, 2>>), N(<<Text>>, <<>>)>>,
   <<N(<<>>, <<2, 3>>), NoName(N(<<>>, <<4>>)), N(<<>>, <<>>), N(<<>>, <<>>)>>,
   <<N(<<>>, <<2, 3>>), NoValues(N(<<>>, <<4>>)), N(<<Word>>, <<4>>), N(<<>>, <<>>)>>,
   <<N(<<>>, <<2, 3>>), NoChildren(N(<<Text>>, <<>>)), N(<<>>, <<4>>), NoName(N(<<>>, <<>>))>>,
   <<NoName(N(<<>>, <<2>>)), N(<<>>, <<>>)>>}

MCHives ==
  {Hive(s) : s \in Shapes} \cup
  {Hive(<<N(<<>>, <<2, 3>>), N(<<Text, v, Text>>, <<>>), N(<<Text>>, <<>>)>>) : v \in BadValues} \cup
  {OneNode(v) : v \in GoodValues} \cup
  {OneNode(V("string", s)) : s \in Texts} \cup
  {OneNode(V("multiple_strings", s)) : s \in Texts} \cup
  {OneNode([V("expand_string", s) EXCEPT !.len = 2]) : s \in {<<1, 0, 1, 0>>, <<0>>}}

MCVisitors ==
  {[set |-> {"node_start", "node_end"}, len |-> 11],
   [set |-> {"node_start", "node_end", "value_any"}, len |-> 12],
   [set |-> ToSet(Fields), len |-> 10],
   [set |-> {"node_end", "value_string"}, len |-> 1]}
=============================================================================
