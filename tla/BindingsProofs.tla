--------------------------- MODULE BindingsProofs ---------------------------
(***************************************************************************)
(* The invariants of Bindings, for every set of objects and addresses, all *)
(* four languages, every width of int and long that C allows and however   *)
(* many calls are made.                                                    *)
(***************************************************************************)
EXTENDS Bindings, TLAPS

-----------------------------------------------------------------------------
(* The tables of wrappers *)

(* The functions by the result that stands for an error. *)
ZeroFails ==
  {"root", "node_parent", "node_add_child", "node_struct_length",
   "value_struct_length", "node_name", "node_children", "node_values",
   "value_key", "value_string", "value_multiple_strings", "value_value",
   "node_get_value", "value_key_len"}

MinusOneFails ==
  {"value_type", "commit", "node_delete_child", "node_set_values",
   "node_set_value"}

MinusOneErrnoFails ==
  {"last_modified", "node_timestamp", "value_dword", "value_qword"}

AllFunctions ==
  ZeroFails \cup MinusOneFails \cup MinusOneErrnoFails \cup {"node_get_child"}

TestOf(f) ==
  IF f \in ZeroFails THEN "zero"
  ELSE IF f \in MinusOneFails \cup {"close"} THEN "minus1"
  ELSE IF f \in MinusOneErrnoFails THEN "minus1_errno" ELSE "zero_errno"

(* How results are converted; only Ruby takes some numbers as unsigned.    *)
Plain == {"unit", "string", "list", "strings", "value", "type", "int"}
Rubys == Plain \cup {"ull"}

(* What every row must say about function f where convs are used. *)
RowOk(convs, f, row) ==
  /\ row.test = TestOf(f)
  /\ row.conv \in convs
  /\ f = "value_dword" => row.conv # "ull"

TableOk(convs, t) == \A f \in DOMAIN t : RowOk(convs, f, t[f])

(* Two parts of a table have the rows of both; if both are sound, so is    *)
(* the table that they make.                                               *)
LEMMA JoinedDomain ==
  ASSUME NEW t, NEW u
  PROVE  DOMAIN (t ++ u) = DOMAIN t \cup DOMAIN u
BY DEF ++

LEMMA JoinedOk ==
  ASSUME NEW convs, NEW t, NEW u, TableOk(convs, t), TableOk(convs, u)
  PROVE  TableOk(convs, t ++ u)
BY DEF TableOk, ++

(* The rows of OCaml are sound, and there is one for every function. *)
LEMMA OcamlTable ==
  TableOk(Plain, Wrappers["ocaml"]) /\ DOMAIN Wrappers["ocaml"] = AllFunctions
<1> DEFINE t2 == ocaml_nodes ++ ocaml_links
<1> DEFINE t3 == t2 ++ ocaml_keys
<1> DEFINE t4 == t3 ++ ocaml_values
<1> DEFINE t5 == t4 ++ ocaml_numbers
<1> DEFINE t6 == t5 ++ ocaml_changes
<1> DEFINE t7 == t6 ++ ocaml_sets
<1>1. TableOk(Plain, ocaml_nodes)
  BY DEF TableOk, ocaml_nodes, RowOk, Plain, Rubys, TestOf,
     ZeroFails, MinusOneFails, MinusOneErrnoFails, Row,
     Unit, Text, Lists
<1>2. TableOk(Plain, ocaml_links)
  BY DEF TableOk, ocaml_links, RowOk, Plain, Rubys, TestOf,
     ZeroFails, MinusOneFails, MinusOneErrnoFails, Row,
     Unit, Text, Lists
<1>3. TableOk(Plain, ocaml_keys)
  BY DEF TableOk, ocaml_keys, RowOk, Plain, Rubys, TestOf,
     ZeroFails, MinusOneFails, MinusOneErrnoFails, Row,
     Unit, Text, Lists
<1>4. TableOk(Plain, ocaml_values)
  BY DEF TableOk, ocaml_values, RowOk, Plain, Rubys, TestOf,
     ZeroFails, MinusOneFails, MinusOneErrnoFails, Row,
     Unit, Text, Lists
<1>5. TableOk(Plain, ocaml_numbers)
  BY DEF TableOk, ocaml_numbers, RowOk, Plain, Rubys, TestOf,
     ZeroFails, MinusOneFails, MinusOneErrnoFails, Row,
     Unit, Text, Lists
<1>6. TableOk(Plain, ocaml_changes)
  BY DEF TableOk, ocaml_changes, RowOk, Plain, Rubys, TestOf,
     ZeroFails, MinusOneFails, MinusOneErrnoFails, Row,
     Unit, Text, Lists
<1>7. TableOk(Plain, ocaml_sets)
  BY DEF TableOk, ocaml_sets, RowOk, Plain, Rubys, TestOf,
     ZeroFails, MinusOneFails, MinusOneErrnoFails, Row,
     Unit, Text, Lists
<1>8. TableOk(Plain, t2)
  BY <1>1, <1>2, JoinedOk
<1>9. TableOk(Plain, t3)
  BY <1>8, <1>3, JoinedOk
<1>10. TableOk(Plain, t4)
  BY <1>9, <1>4, JoinedOk
<1>11. TableOk(Plain, t5)
  BY <1>10, <1>5, JoinedOk
<1>12. TableOk(Plain, t6)
  BY <1>11, <1>6, JoinedOk
<1>13. TableOk(Plain, t7)
  BY <1>12, <1>7, JoinedOk
<1>14. /\ DOMAIN t2 = DOMAIN ocaml_nodes \cup DOMAIN ocaml_links
      /\ DOMAIN t3 = DOMAIN t2 \cup DOMAIN ocaml_keys
      /\ DOMAIN t4 = DOMAIN t3 \cup DOMAIN ocaml_values
      /\ DOMAIN t5 = DOMAIN t4 \cup DOMAIN ocaml_numbers
      /\ DOMAIN t6 = DOMAIN t5 \cup DOMAIN ocaml_changes
      /\ DOMAIN t7 = DOMAIN t6 \cup DOMAIN ocaml_sets
  BY JoinedDomain
<1>15. Wrappers["ocaml"] = t7
  BY DEF Wrappers
<1> HIDE DEF t2, t3, t4, t5, t6, t7
<1>16. DOMAIN t4 =
        {"root", "last_modified", "node_name", "node_timestamp",
         "node_children", "node_get_child", "node_parent",
         "node_values", "node_get_value", "value_key_len",
         "value_key", "value_type", "node_struct_length",
         "value_struct_length", "value_value", "value_string"}
  BY <1>14 DEF ocaml_nodes, ocaml_links, ocaml_keys, ocaml_values
<1> QED
  BY <1>13, <1>14, <1>15, <1>16
     DEF AllFunctions, ZeroFails, MinusOneFails, MinusOneErrnoFails,
         ocaml_numbers, ocaml_changes, ocaml_sets

(* The rows of Python are sound, and there is one for every function. *)
LEMMA PythonTable ==
  TableOk(Plain, Wrappers["python"]) /\ DOMAIN Wrappers["python"] = AllFunctions
<1> DEFINE t2 == py_nodes ++ py_keys
<1> DEFINE t3 == t2 ++ py_values
<1> DEFINE t4 == t3 ++ py_changes
<1> DEFINE t5 == t4 ++ py_sets
<1>1. TableOk(Plain, py_nodes)
  BY DEF TableOk, py_nodes, RowOk, Plain, Rubys, TestOf,
     ZeroFails, MinusOneFails, MinusOneErrnoFails, Row,
     Unit, Text, Lists
<1>2. TableOk(Plain, py_keys)
  BY DEF TableOk, py_keys, RowOk, Plain, Rubys, TestOf,
     ZeroFails, MinusOneFails, MinusOneErrnoFails, Row,
     Unit, Text, Lists
<1>3. TableOk(Plain, py_values)
  BY DEF TableOk, py_values, RowOk, Plain, Rubys, TestOf,
     ZeroFails, MinusOneFails, MinusOneErrnoFails, Row,
     Unit, Text, Lists
<1>4. TableOk(Plain, py_changes)
  BY DEF TableOk, py_changes, RowOk, Plain, Rubys, TestOf,
     ZeroFails, MinusOneFails, MinusOneErrnoFails, Row,
     Unit, Text, Lists
<1>5. TableOk(Plain, py_sets)
  BY DEF TableOk, py_sets, RowOk, Plain, Rubys, TestOf,
     ZeroFails, MinusOneFails, MinusOneErrnoFails, Row,
     Unit, Text, Lists
<1>6. TableOk(Plain, t2)
  BY <1>1, <1>2, JoinedOk
<1>7. TableOk(Plain, t3)
  BY <1>6, <1>3, JoinedOk
<1>8. TableOk(Plain, t4)
  BY <1>7, <1>4, JoinedOk
<1>9. TableOk(Plain, t5)
  BY <1>8, <1>5, JoinedOk
<1>10. /\ DOMAIN t2 = DOMAIN py_nodes \cup DOMAIN py_keys
      /\ DOMAIN t3 = DOMAIN t2 \cup DOMAIN py_values
      /\ DOMAIN t4 = DOMAIN t3 \cup DOMAIN py_changes
      /\ DOMAIN t5 = DOMAIN t4 \cup DOMAIN py_sets
  BY JoinedDomain
<1>11. Wrappers["python"] = t5
  BY DEF Wrappers
<1> HIDE DEF t2, t3, t4, t5
<1>12. DOMAIN t3 =
        {"root", "last_modified", "node_name", "node_timestamp",
         "node_children", "node_get_child", "node_parent",
         "node_values", "node_get_value", "value_key_len",
         "value_key", "value_type", "node_struct_length",
         "value_struct_length", "value_value", "value_string",
         "value_multiple_strings", "value_dword"}
  BY <1>10 DEF py_nodes, py_keys, py_values
<1> QED
  BY <1>9, <1>10, <1>11, <1>12
     DEF AllFunctions, ZeroFails, MinusOneFails, MinusOneErrnoFails,
         py_changes, py_sets

(* The rows of Ruby are sound, and there is one for every function. *)
LEMMA RubyTable ==
  TableOk(Rubys, Wrappers["ruby"]) /\ DOMAIN Wrappers["ruby"] = AllFunctions
<1> DEFINE t2 == ruby_nodes ++ ruby_links
<1> DEFINE t3 == t2 ++ ruby_keys
<1> DEFINE t4 == t3 ++ ruby_values
<1> DEFINE t5 == t4 ++ ruby_numbers
<1> DEFINE t6 == t5 ++ ruby_changes
<1> DEFINE t7 == t6 ++ ruby_sets
<1>1. TableOk(Rubys, ruby_nodes)
  BY DEF TableOk, ruby_nodes, RowOk, Plain, Rubys, TestOf,
     ZeroFails, MinusOneFails, MinusOneErrnoFails, Row,
     Unit, Text, Lists
<1>2. TableOk(Rubys, ruby_links)
  BY DEF TableOk, ruby_links, RowOk, Plain, Rubys, TestOf,
     ZeroFails, MinusOneFails, MinusOneErrnoFails, Row,
     Unit, Text, Lists
<1>3. TableOk(Rubys, ruby_keys)
  BY DEF TableOk, ruby_keys, RowOk, Plain, Rubys, TestOf,
     ZeroFails, MinusOneFails, MinusOneErrnoFails, Row,
     Unit, Text, Lists
<1>4. TableOk(Rubys, ruby_values)
  BY DEF TableOk, ruby_values, RowOk, Plain, Rubys, TestOf,
     ZeroFails, MinusOneFails, MinusOneErrnoFails, Row,
     Unit, Text, Lists
<1>5. TableOk(Rubys, ruby_numbers)
  BY DEF TableOk, ruby_numbers, RowOk, Plain, Rubys, TestOf,
     ZeroFails, MinusOneFails, MinusOneErrnoFails, Row,
     Unit, Text, Lists
<1>6. TableOk(Rubys, ruby_changes)
  BY DEF TableOk, ruby_changes, RowOk, Plain, Rubys, TestOf,
     ZeroFails, MinusOneFails, MinusOneErrnoFails, Row,
     Unit, Text, Lists
<1>7. TableOk(Rubys, ruby_sets)
  BY DEF TableOk, ruby_sets, RowOk, Plain, Rubys, TestOf,
     ZeroFails, MinusOneFails, MinusOneErrnoFails, Row,
     Unit, Text, Lists
<1>8. TableOk(Rubys, t2)
  BY <1>1, <1>2, JoinedOk
<1>9. TableOk(Rubys, t3)
  BY <1>8, <1>3, JoinedOk
<1>10. TableOk(Rubys, t4)
  BY <1>9, <1>4, JoinedOk
<1>11. TableOk(Rubys, t5)
  BY <1>10, <1>5, JoinedOk
<1>12. TableOk(Rubys, t6)
  BY <1>11, <1>6, JoinedOk
<1>13. TableOk(Rubys, t7)
  BY <1>12, <1>7, JoinedOk
<1>14. /\ DOMAIN t2 = DOMAIN ruby_nodes \cup DOMAIN ruby_links
      /\ DOMAIN t3 = DOMAIN t2 \cup DOMAIN ruby_keys
      /\ DOMAIN t4 = DOMAIN t3 \cup DOMAIN ruby_values
      /\ DOMAIN t5 = DOMAIN t4 \cup DOMAIN ruby_numbers
      /\ DOMAIN t6 = DOMAIN t5 \cup DOMAIN ruby_changes
      /\ DOMAIN t7 = DOMAIN t6 \cup DOMAIN ruby_sets
  BY JoinedDomain
<1>15. Wrappers["ruby"] = t7
  BY DEF Wrappers
<1> HIDE DEF t2, t3, t4, t5, t6, t7
<1>16. DOMAIN t4 =
        {"root", "last_modified", "node_name", "node_timestamp",
         "node_children", "node_get_child", "node_parent",
         "node_values", "node_get_value", "value_key_len",
         "value_key", "value_type", "node_struct_length",
         "value_struct_length", "value_value", "value_string"}
  BY <1>14 DEF ruby_nodes, ruby_links, ruby_keys, ruby_values
<1> QED
  BY <1>13, <1>14, <1>15, <1>16
     DEF AllFunctions, ZeroFails, MinusOneFails, MinusOneErrnoFails,
         ruby_numbers, ruby_changes, ruby_sets

(* The rows of Perl are sound, and there is one for every function. *)
LEMMA PerlTable ==
  TableOk(Plain, Wrappers["perl"]) /\ DOMAIN Wrappers["perl"] = AllFunctions
<1> DEFINE t2 == perl_nodes ++ perl_values
<1> DEFINE t3 == t2 ++ perl_changes
<1>1. TableOk(Plain, perl_nodes)
  BY DEF TableOk, perl_nodes, RowOk, Plain, Rubys, TestOf,
     ZeroFails, MinusOneFails, MinusOneErrnoFails, Row,
     Unit, Text, Lists
<1>2. TableOk(Plain, perl_values)
  BY DEF TableOk, perl_values, RowOk, Plain, Rubys, TestOf,
     ZeroFails, MinusOneFails, MinusOneErrnoFails, Row,
     Unit, Text, Lists
<1>3. TableOk(Plain, perl_changes)
  BY DEF TableOk, perl_changes, RowOk, Plain, Rubys, TestOf,
     ZeroFails, MinusOneFails, MinusOneErrnoFails, Row,
     Unit, Text, Lists
<1>4. TableOk(Plain, t2)
  BY <1>1, <1>2, JoinedOk
<1>5. TableOk(Plain, t3)
  BY <1>4, <1>3, JoinedOk
<1>6. /\ DOMAIN t2 = DOMAIN perl_nodes \cup DOMAIN perl_values
      /\ DOMAIN t3 = DOMAIN t2 \cup DOMAIN perl_changes
  BY JoinedDomain
<1>7. Wrappers["perl"] = t3
  BY DEF Wrappers
<1> HIDE DEF t2, t3
<1> QED
  BY <1>5, <1>6, <1>7
     DEF AllFunctions, ZeroFails, MinusOneFails, MinusOneErrnoFails,
         perl_nodes, perl_values, perl_changes

(* In every language there is a row for every function, and it is sound. *)
LEMMA Rows ==
  /\ Functions = AllFunctions
  /\ \A l \in Langs, f \in AllFunctions : 
       RowOk(IF l = "ruby" THEN Rubys ELSE Plain, f, Wrappers[l][f])
BY BindingsAssumption, OcamlTable, PythonTable, RubyTable, PerlTable
   DEF Functions, TableOk

-----------------------------------------------------------------------------
(* The library's answers *)

(* The two kinds of answers. *)
Fine(c) == c.failed = FALSE
Failed(c, r) == c.failed = TRUE /\ c.r = r /\ c.err \in Errors

LEMMA OkAnswer ==
  ASSUME NEW r PROVE Fine(Ok(r)) /\ Ok(r).r = r /\ Ok(r).t = 0
BY DEF Fine, Ok

LEMMA TypeAnswer ==
  ASSUME NEW r, NEW S, NEW c \in {[Ok(r) EXCEPT !.t = t] : t \in S}
  PROVE  Fine(c) /\ c.r = r /\ c.t \in S
BY DEF Fine, Ok

LEMMA FailsAnswer ==
  ASSUME NEW r, NEW c \in Fails(r) PROVE Failed(c, r)
BY DEF Failed, Fails

(* What each class of functions answers. *)
LEMMA ZeroAnswer ==
  ASSUME NEW f \in ZeroFails, NEW c \in Library(f)
  PROVE  \/ Failed(c, 0)
         \/ Fine(c) /\ (c.r = 1 \/ (c.r = 0 /\ f \in ZeroMayBeResult))
<1>1. CASE f \in ZeroMayBeResult
  <2>1. c \in {Ok(0), Ok(1)} \cup Fails(0)
    BY <1>1 DEF ZeroMayBeResult, Library
  <2> QED
    BY <1>1, <2>1, OkAnswer, FailsAnswer
<1>2. CASE f = "value_value"
  <2>1. c \in {[Ok(1) EXCEPT !.t = t] : t \in Types} \cup Fails(0)
    BY <1>2 DEF Library
  <2> QED
    BY <2>1, TypeAnswer, FailsAnswer
<1>3. CASE f \in ZeroFails \ (ZeroMayBeResult \cup {"value_value"})
  <2>1. c \in {Ok(1)} \cup Fails(0)
    BY <1>3 DEF ZeroFails, ZeroMayBeResult, Library
  <2> QED
    BY <2>1, OkAnswer, FailsAnswer
<1> QED
  BY <1>1, <1>2, <1>3

LEMMA MinusOneAnswer ==
  ASSUME NEW f \in MinusOneFails \cup {"close"}, NEW c \in Library(f)
  PROVE  Failed(c, -1) \/ (Fine(c) /\ c.r = 0)
<1>1. CASE f = "value_type"
  <2>1. c \in {[Ok(0) EXCEPT !.t = t] : t \in Types} \cup Fails(-1)
    BY <1>1 DEF Library
  <2> QED
    BY <2>1, TypeAnswer, FailsAnswer
<1>2. CASE f # "value_type"
  <2>1. c \in {Ok(0)} \cup Fails(-1)
    BY <1>2 DEF MinusOneFails, Library
  <2> QED
    BY <2>1, OkAnswer, FailsAnswer
<1> QED
  BY <1>1, <1>2

LEMMA MinusOneErrnoAnswer ==
  ASSUME NEW f \in MinusOneErrnoFails, NEW c \in Library(f)
  PROVE  Failed(c, -1) \/ Fine(c)
<1>1. PICK S : c \in {Ok(r) : r \in S} \cup Fails(-1)
  <2>1. CASE f = "value_dword"
    BY <2>1 DEF Library
  <2>2. CASE f = "value_qword"
    BY <2>2 DEF Library
  <2>3. CASE f \in {"last_modified", "node_timestamp"}
    <3>1. c \in {Ok(r) : r \in {0, 1}} \cup Fails(-1)
      BY <2>3 DEF Library
    <3> QED
      BY <3>1
  <2> QED
    BY <2>1, <2>2, <2>3 DEF MinusOneErrnoFails
<1> QED
  BY <1>1, OkAnswer, FailsAnswer

LEMMA ChildAnswer ==
  ASSUME NEW c \in Library("node_get_child")
  PROVE  Failed(c, 0) \/ (Fine(c) /\ c.r \in {0, 1})
<1>1. c \in {Ok(0), Ok(1)} \cup Fails(0)
  BY DEF Library
<1> QED
  BY <1>1, OkAnswer, FailsAnswer

(* A failed call is taken for an error, with the errno that it set, and no *)
(* other call is, but for the result 0 of the two functions that the       *)
(* bindings do not distinguish from an error, and unless the arguments are *)
(* objects with code of their own.                                         *)
Judged(f, c, err, plain) ==
  \/ c.failed = TRUE /\ IsError(TestOf(f), c.r, err) = TRUE /\ err = c.err
  \/ c.failed = FALSE /\ IsError(TestOf(f), c.r, err) = FALSE
  \/ /\ c.failed = FALSE /\ IsError(TestOf(f), c.r, err) = TRUE
     /\ f \in ZeroMayBeResult \/ plain = FALSE

LEMMA Tested ==
  ASSUME NEW f \in AllFunctions \cup {"close"}, NEW c \in Library(f),
         NEW plain \in BOOLEAN, NEW e, NEW err \in ErrnoAfter(f, c, e),
         TestOf(f) \in {"zero_errno", "minus1_errno"} /\ plain = TRUE => e = "0"
  PROVE  Judged(f, c, err, plain)
<1>1. c.failed = TRUE => err = c.err
  BY DEF ErrnoAfter
<1>2. CASE f \in ZeroFails
  <2>1. TestOf(f) = "zero"
    BY <1>2 DEF TestOf
  <2>2. /\ c.r = 0 => IsError(TestOf(f), c.r, err) = TRUE
        /\ c.r # 0 => IsError(TestOf(f), c.r, err) = FALSE
    BY <2>1 DEF IsError
  <2> QED
    <3>1. CASE Failed(c, 0)
      BY <1>1, <2>2, <3>1 DEF Judged, Failed
    <3>2. CASE Fine(c) /\ c.r = 1
      BY <2>2, <3>2 DEF Judged, Fine
    <3>3. CASE Fine(c) /\ c.r = 0 /\ f \in ZeroMayBeResult
      BY <2>2, <3>3 DEF Judged, Fine
    <3> QED
      BY <1>2, <3>1, <3>2, <3>3, ZeroAnswer
<1>3. CASE f \in MinusOneFails \cup {"close"}
  <2>1. TestOf(f) = "minus1"
    BY <1>3 DEF TestOf, MinusOneFails, ZeroFails
  <2>2. /\ c.r = -1 => IsError(TestOf(f), c.r, err) = TRUE
        /\ c.r # -1 => IsError(TestOf(f), c.r, err) = FALSE
    BY <2>1 DEF IsError
  <2> QED
    <3>1. CASE Failed(c, -1)
      BY <1>1, <2>2, <3>1 DEF Judged, Failed
    <3>2. CASE Fine(c) /\ c.r = 0
      BY <2>2, <3>2 DEF Judged, Fine
    <3> QED
      BY <1>3, <3>1, <3>2, MinusOneAnswer
<1>4. CASE f \in MinusOneErrnoFails
  <2>1. TestOf(f) = "minus1_errno" /\ (plain = TRUE => e = "0")
    BY <1>4 DEF TestOf, MinusOneErrnoFails, MinusOneFails, ZeroFails
  <2>2. c.failed = FALSE /\ plain = TRUE => err = "0"
    BY <1>4, <2>1 DEF MinusOneErrnoFails, ErrnoAfter
  <2> QED
    BY <1>1, <1>4, <2>1, <2>2, MinusOneErrnoAnswer
       DEF Judged, IsError, Errors, Fine, Failed
<1>5. CASE f = "node_get_child"
  <2>1. TestOf(f) = "zero_errno" /\ (plain = TRUE => e = "0")
    BY <1>5 DEF TestOf, MinusOneErrnoFails, MinusOneFails, ZeroFails
  <2>2. c.failed = FALSE /\ plain = TRUE => err = "0"
    BY <1>5, <2>1 DEF ErrnoAfter
  <2> QED
    BY <1>1, <1>5, <2>1, <2>2, ChildAnswer
       DEF Judged, IsError, Errors, Fine, Failed
<1> QED
  BY <1>2, <1>3, <1>4, <1>5 DEF AllFunctions

(* What a call that succeeds gives. *)
LEMMA Answers ==
  ASSUME NEW f \in AllFunctions \cup {"close"}, NEW c \in Library(f),
         ~c.failed
  PROVE  /\ c.t \in Types
         /\ c.r \in Int
         /\ c.r \in {0, 1} \/ f = "value_dword" \/ (f = "value_qword" /\ c.r < 0)
BY WidthsAssumption
   DEF AllFunctions, ZeroFails, MinusOneFails, MinusOneErrnoFails,
       Library, Ok, Fails, Types, MinusOneOrMore
-----------------------------------------------------------------------------
(* Handles *)

HandlesType ==
  /\ lang \in Langs
  /\ obj \in [Objs -> {"new", "live", "dropped", "gone"}]
  /\ ptr \in [Objs -> Hives \cup {NULL}]
  /\ open \subseteq Hives

(* HandlesSound is not inductive: a new object must have no hive, or       *)
(* hivex_open would lose it.                                               *)
HandlesInv ==
  /\ HandlesType
  /\ \A o \in Objs : obj[o] \in {"new", "gone"} => ptr[o] = NULL
  /\ HandlesSound

LEMMA HandlesInit == Init => HandlesInv
BY DEF Init, HandlesInv, HandlesType, HandlesSound

(* Steps that leave the objects and the handles alone. *)
LEMMA HandlesStay ==
  ASSUME HandlesInv, UNCHANGED <<lang, obj, ptr, open>>
  PROVE  HandlesInv'
BY DEF HandlesInv, HandlesType, HandlesSound

LEMMA HandlesOpen ==
  ASSUME HandlesInv, NEW o \in Objs, NEW fs, Open(o, fs)
  PROVE  HandlesInv'
<1>1. CASE UNCHANGED <<open, obj, ptr>>
  BY <1>1, HandlesStay DEF Open
<1>2. ASSUME NEW a \in Hives \ open,
             open' = open \cup {a},
             obj' = [obj EXCEPT ![o] = "live"],
             ptr' = [ptr EXCEPT ![o] = a]
      PROVE  HandlesInv'
  <2>1. HandlesType'
    BY <1>2 DEF HandlesInv, HandlesType, Open
  <2>2. \A q \in Objs : obj'[q] \in {"new", "gone"} => ptr'[q] = NULL
    BY <1>2 DEF HandlesInv, HandlesType
  <2>3. HandlesSound'
    BY <1>2, BindingsAssumption DEF HandlesInv, HandlesType, HandlesSound, Open
  <2> QED
    BY <2>1, <2>2, <2>3 DEF HandlesInv
<1> QED
  BY <1>1, <1>2 DEF Open

(* close and the finalizer free the hive and clear the pointer. *)
LEMMA HandlesFree ==
  ASSUME HandlesInv, NEW o \in Objs,
         open' = open \ {ptr[o]},
         ptr' = [ptr EXCEPT ![o] = NULL],
         lang' = lang,
         \/ obj' = obj
         \/ obj' = [obj EXCEPT ![o] = "gone"]
  PROVE  HandlesInv'
<1>1. HandlesType'
  BY DEF HandlesInv, HandlesType
<1>2. \A q \in Objs : obj'[q] \in {"new", "gone"} => ptr'[q] = NULL
  BY DEF HandlesInv, HandlesType
<1>3. HandlesSound'
  BY BindingsAssumption DEF HandlesInv, HandlesType, HandlesSound
<1> QED
  BY <1>1, <1>2, <1>3 DEF HandlesInv

LEMMA HandlesNext == HandlesInv /\ [Next]_vars => HandlesInv'
<1> SUFFICES ASSUME HandlesInv, [Next]_vars PROVE HandlesInv'
  OBVIOUS
<1>1. ASSUME NEW o \in Objs, NEW fs \in FlagLists, Open(o, fs) PROVE HandlesInv'
  BY <1>1, HandlesOpen
<1>2. ASSUME NEW o \in Objs, Close(o) PROVE HandlesInv'
  BY <1>2, HandlesFree DEF Close, ClosePtr
<1>3. ASSUME NEW o \in Objs, NEW f, UseClosed(o, f) PROVE HandlesInv'
  BY <1>3, HandlesStay DEF UseClosed
<1>4. ASSUME NEW o \in Objs, NEW f, Call(o, f) PROVE HandlesInv'
  BY <1>4, HandlesStay DEF Call
<1>5. ASSUME NEW o \in Objs, NEW f, CallMalformed(o, f) PROVE HandlesInv'
  BY <1>5, HandlesStay DEF CallMalformed
<1>11. ASSUME NEW o \in Objs, NEW f, CallCrashes(o, f) PROVE HandlesInv'
  BY <1>11 DEF CallCrashes, HandlesInv, HandlesType, HandlesSound
<1>6. ASSUME NEW o \in Objs, Drop(o) PROVE HandlesInv'
  BY <1>6 DEF Drop, HandlesInv, HandlesType, HandlesSound
<1>7. ASSUME NEW o \in Objs, Finalize(o) PROVE HandlesInv'
  BY <1>7, HandlesFree DEF Finalize
<1>8. ASSUME NEW o \in Objs, Forget(o) PROVE HandlesInv'
  BY <1>8 DEF Forget, HandlesInv, HandlesType, HandlesSound
<1>9. CASE Raise \/ Return
  BY <1>9, HandlesStay DEF Raise, Return
<1>10. CASE UNCHANGED vars
  BY <1>10, HandlesStay DEF vars
<1> QED
  BY <1>1, <1>2, <1>3, <1>4, <1>5, <1>6, <1>7, <1>8, <1>9, <1>10, <1>11 DEF Next

(* However objects are closed, dropped and collected, every open hive has  *)
(* exactly one object and no object points to a hive that was closed.      *)
THEOREM HandlesCorrect == Spec => []HandlesSound
<1>1. HandlesInv => HandlesSound
  BY DEF HandlesInv
<1> QED
  BY HandlesInit, HandlesNext, <1>1, PTL DEF Spec

-----------------------------------------------------------------------------
(* Calls *)

(* What the wrapper knows when the library has returned. *)
Settled(f, c, raise, err, plain) ==
  \/ c.failed = TRUE /\ raise = TRUE /\ err = c.err
  \/ c.failed = FALSE /\ raise = FALSE
  \/ c.failed = FALSE /\ raise = TRUE /\ (f \in ZeroMayBeResult \/ plain = FALSE)

Entry(f, c, raise, err, plain, pending) ==
  [f |-> f, c |-> c, raise |-> raise, err |-> err, plain |-> plain,
   pending |-> pending]

(* Only Python runs code of its arguments, and calls the library with an   *)
(* exception pending.                                                      *)
ByPython(f, plain, pending) ==
  /\ plain = FALSE => lang = "python"
  /\ pending = TRUE => lang = "python" /\ f \in SetCalls

CallInv ==
  /\ lang \in Langs
  /\ \/ call = NoCall
     \/ \E f \in AllFunctions \cup {"close"} : \E c \in Library(f) :
        \E raise \in BOOLEAN, plain \in BOOLEAN, pending \in BOOLEAN : \E err :
          /\ call = <<Entry(f, c, raise, err, plain, pending)>>
          /\ Settled(f, c, raise, err, plain)
          /\ ByPython(f, plain, pending)

LEMMA CallInit == Init => CallInv
BY DEF Init, CallInv

LEMMA CallStays ==
  ASSUME CallInv, UNCHANGED <<lang, call>>
  PROVE  CallInv'
BY DEF CallInv, ByPython

(* A wrapper starts with a judged answer. *)
LEMMA CallStarts ==
  ASSUME CallInv, lang' = lang,
         NEW f \in AllFunctions \cup {"close"}, NEW c \in Library(f),
         NEW err, NEW plain \in BOOLEAN, NEW pending \in BOOLEAN,
         Judged(f, c, err, plain), ByPython(f, plain, pending),
         Running(f, c, TestOf(f), err, plain, pending)
  PROVE  CallInv'
<1> DEFINE raise == IsError(TestOf(f), c.r, err)
<1>1. call' = <<Entry(f, c, raise, err, plain, pending)>>
  BY DEF Running, Entry
<1>2. raise \in BOOLEAN /\ Settled(f, c, raise, err, plain)
  BY DEF Judged, Settled
<1>3. lang' \in Langs /\ ByPython(f, plain, pending)'
  BY DEF CallInv, ByPython
<1> HIDE DEF raise
<1> QED
  BY <1>1, <1>2, <1>3 DEF CallInv, ByPython

LEMMA CallCall ==
  ASSUME CallInv, NEW o \in Objs, NEW f \in Functions, Call(o, f)
  PROVE  CallInv'
<1>1. f \in AllFunctions /\ Wrappers[lang][f].test = TestOf(f)
  BY Rows DEF CallInv, RowOk
<1>2. PICK v \in Values, how \in {"calls", "fails"}, plain \in BOOLEAN :
        /\ how \in Taken(f, v)
        /\ plain \/ MayRunCode(f)
        /\ \E c \in Library(f) : \E before \in ErrnoBefore(TestOf(f), plain) :
           \E e \in ErrnoAfter(f, c, before) :
             Running(f, c, TestOf(f), e, plain, lang = "python" /\ v # "good")
  BY <1>1 DEF Call
<1>3. PICK c \in Library(f) : \E before \in ErrnoBefore(TestOf(f), plain) :
        \E e \in ErrnoAfter(f, c, before) :
          Running(f, c, TestOf(f), e, plain, lang = "python" /\ v # "good")
  BY <1>2
<1>4. PICK before \in ErrnoBefore(TestOf(f), plain) :
        \E e \in ErrnoAfter(f, c, before) :
          Running(f, c, TestOf(f), e, plain, lang = "python" /\ v # "good")
  BY <1>3
<1>5. PICK e \in ErrnoAfter(f, c, before) :
        Running(f, c, TestOf(f), e, plain, lang = "python" /\ v # "good")
  BY <1>4
<1>6. TestOf(f) \in {"zero_errno", "minus1_errno"} /\ plain = TRUE => before = "0"
  BY DEF ErrnoBefore, Clear
<1>7. Judged(f, c, e, plain)
  BY <1>1, <1>6, Tested
<1> DEFINE pending == lang = "python" /\ v # "good"
<1>8. pending \in BOOLEAN
  OBVIOUS
<1>9. ByPython(f, plain, pending)
  <2>1. plain = FALSE => lang = "python"
    BY <1>2 DEF MayRunCode
  <2>2. pending = TRUE => lang = "python" /\ f \in SetCalls
    BY <1>2 DEF Taken
  <2> QED
    BY <2>1, <2>2 DEF ByPython
<1>10. Running(f, c, TestOf(f), e, plain, pending) /\ lang' = lang
  BY <1>5 DEF Call
<1> HIDE DEF pending
<1> QED
  BY <1>1, <1>7, <1>8, <1>9, <1>10, CallStarts

LEMMA CallClose ==
  ASSUME CallInv, NEW o \in Objs, Close(o)
  PROVE  CallInv'
<1>1. {Ok(0)} \cup Fails(-1) = Library("close")
  BY DEF Library
<1>2. TestOf("close") = "minus1"
  BY DEF TestOf, ZeroFails
<1>3. PICK c \in Library("close") : \E e \in ErrnoAfter("close", c, errno) :
        Running("close", c, TestOf("close"), e, TRUE, FALSE)
  BY <1>1, <1>2 DEF Close
<1>4. PICK e \in ErrnoAfter("close", c, errno) :
        Running("close", c, TestOf("close"), e, TRUE, FALSE)
  BY <1>3
<1>5. Judged("close", c, e, TRUE)
  BY <1>2, Tested
<1>6. ByPython("close", TRUE, FALSE)
  BY DEF ByPython
<1> QED
  BY <1>4, <1>5, <1>6, CallStarts DEF Close

(* The row by which Return converts a result. *)
ReturnRow(f) == IF f = "close" THEN Unit ELSE Wrappers[lang][f]

LEMMA ReturnRowOk ==
  ASSUME CallInv, NEW f \in AllFunctions \cup {"close"}
  PROVE  RowOk(IF lang = "ruby" THEN Rubys ELSE Plain, f, ReturnRow(f))
<1>1. CASE f = "close"
  BY <1>1 DEF ReturnRow, RowOk, Unit, Row, TestOf, ZeroFails,
              Rubys, Plain
<1>2. CASE f # "close"
  BY <1>2, Rows DEF ReturnRow, CallInv
<1> QED
  BY <1>1, <1>2

LEMMA CallNext == CallInv /\ [Next]_vars => CallInv'
<1> SUFFICES ASSUME CallInv, [Next]_vars PROVE CallInv'
  OBVIOUS
<1>1. ASSUME NEW o \in Objs, NEW fs \in FlagLists, Open(o, fs) PROVE CallInv'
  BY <1>1, CallStays DEF Open
<1>2. ASSUME NEW o \in Objs, Close(o) PROVE CallInv'
  BY <1>2, CallClose
<1>3. ASSUME NEW o \in Objs, NEW f, UseClosed(o, f) PROVE CallInv'
  BY <1>3, CallStays DEF UseClosed
<1>4. ASSUME NEW o \in Objs, NEW f \in Functions, Call(o, f) PROVE CallInv'
  BY <1>4, CallCall
<1>5. ASSUME NEW o \in Objs, NEW f, CallMalformed(o, f) \/ CallCrashes(o, f)
      PROVE  CallInv'
  BY <1>5, CallStays DEF CallMalformed, CallCrashes
<1>6. ASSUME NEW o \in Objs, Drop(o) \/ Finalize(o) \/ Forget(o) PROVE CallInv'
  BY <1>6, CallStays DEF Drop, Finalize, Forget
<1>7. CASE Raise \/ Return
  BY <1>7 DEF CallInv, Raise, Return
<1>8. CASE UNCHANGED vars
  BY <1>8, CallStays DEF vars
<1> QED
  BY <1>1, <1>2, <1>3, <1>4, <1>5, <1>6, <1>7, <1>8 DEF Next

-----------------------------------------------------------------------------
(* How a call ends *)

LEMMA ErrorsInit == Init => ErrorsReported
BY DEF Init, ErrorsReported, Nothing

LEMMA ErrorsRaise ==
  ASSUME CallInv, Raise PROVE ErrorsReported'
<1>1. PICK f \in AllFunctions \cup {"close"} : \E c \in Library(f) :
      \E raise \in BOOLEAN, plain \in BOOLEAN, pending \in BOOLEAN : \E err :
          /\ call = <<Entry(f, c, raise, err, plain, pending)>>
          /\ Settled(f, c, raise, err, plain)
          /\ ByPython(f, plain, pending)
  BY DEF CallInv, Raise, Idle
<1>0. PICK c \in Library(f), raise \in BOOLEAN, plain \in BOOLEAN,
           pending \in BOOLEAN : \E err :
          /\ call = <<Entry(f, c, raise, err, plain, pending)>>
          /\ Settled(f, c, raise, err, plain)
          /\ ByPython(f, plain, pending)
  BY <1>1
<1>2. PICK err :
          /\ call = <<Entry(f, c, raise, err, plain, pending)>>
          /\ Settled(f, c, raise, err, plain)
          /\ ByPython(f, plain, pending)
  BY <1>0
<1>3. out' = [kind |-> "error", f |-> f, c |-> c, err |-> err, plain |-> plain]
  BY <1>2 DEF Raise, RaisedErrno, Entry
<1>4. /\ out'.kind = "error" /\ out'.f = f /\ out'.c = c /\ out'.err = err
      /\ out'.plain = plain /\ lang' = lang
  BY <1>3 DEF Raise
<1>5. \/ c.failed = TRUE /\ err = c.err
      \/ c.failed = FALSE /\ f \in ZeroMayBeResult
      \/ c.failed = FALSE /\ plain = FALSE /\ lang = "python"
  BY <1>2 DEF Settled, Raise, ByPython, Entry
<1> QED
  BY <1>4, <1>5 DEF ErrorsReported

LEMMA ErrorsReturn ==
  ASSUME CallInv, Return PROVE ErrorsReported'
<1>1. PICK f \in AllFunctions \cup {"close"} : \E c \in Library(f) :
      \E raise \in BOOLEAN, plain \in BOOLEAN, pending \in BOOLEAN : \E err :
          /\ call = <<Entry(f, c, raise, err, plain, pending)>>
          /\ Settled(f, c, raise, err, plain)
          /\ ByPython(f, plain, pending)
  BY DEF CallInv, Return, Idle
<1>0. PICK c \in Library(f), raise \in BOOLEAN, plain \in BOOLEAN,
           pending \in BOOLEAN : \E err :
          /\ call = <<Entry(f, c, raise, err, plain, pending)>>
          /\ Settled(f, c, raise, err, plain)
          /\ ByPython(f, plain, pending)
  BY <1>1
<1>2. PICK err :
          /\ call = <<Entry(f, c, raise, err, plain, pending)>>
          /\ Settled(f, c, raise, err, plain)
          /\ ByPython(f, plain, pending)
  BY <1>0
<1>3. /\ out'.kind \in {"result", "not_found", "pending"} /\ out'.c = c
      /\ out'.f = f /\ lang' = lang
      /\ out'.kind = "pending" => pending = TRUE
  BY <1>2 DEF Return, Given, Entry
<1>4. c.failed = FALSE
  BY <1>2 DEF Settled, Return, Entry
<1> QED
  BY <1>2, <1>3, <1>4 DEF ErrorsReported, ByPython

LEMMA ErrorsOpen ==
  ASSUME NEW o, NEW fs, Open(o, fs) PROVE ErrorsReported'
<1>1. CASE out' = [kind |-> "opened", flags |-> OpenFlags(fs), asked |-> fs]
  BY <1>1 DEF ErrorsReported
<1>2. ASSUME NEW e \in Errors,
             out' = [kind |-> "error", f |-> "open",
                     c |-> [Ok(0) EXCEPT !.failed = TRUE, !.err = e], err |-> e,
                     plain |-> TRUE]
      PROVE  ErrorsReported'
  BY <1>2 DEF ErrorsReported, Ok
<1> QED
  BY <1>1, <1>2 DEF Open

LEMMA ErrorsNext == CallInv /\ ErrorsReported /\ [Next]_vars => ErrorsReported'
<1> SUFFICES ASSUME CallInv, ErrorsReported, [Next]_vars PROVE ErrorsReported'
  OBVIOUS
<1>1. ASSUME NEW o \in Objs, NEW fs \in FlagLists, Open(o, fs) PROVE ErrorsReported'
  BY <1>1, ErrorsOpen
<1>2. CASE out'.kind \notin {"error", "result", "not_found", "pending"}
  BY <1>2 DEF ErrorsReported
<1>3. CASE Raise
  BY <1>3, ErrorsRaise
<1>4. CASE Return
  BY <1>4, ErrorsReturn
<1>5. CASE UNCHANGED vars
  BY <1>5 DEF vars, ErrorsReported
<1>6. ASSUME NEW o \in Objs, NEW f, UseClosed(o, f) PROVE ErrorsReported'
  BY <1>2, <1>6 DEF UseClosed
<1>9. ASSUME NEW o \in Objs, NEW f, CallMalformed(o, f) \/ CallCrashes(o, f)
      PROVE  ErrorsReported'
  BY <1>2, <1>9 DEF CallMalformed, CallCrashes
<1>7. ASSUME NEW o \in Objs, Close(o) \/ Drop(o) \/ Finalize(o) \/ Forget(o)
      PROVE  ErrorsReported'
  <2>1. out' = Nothing
    BY <1>7 DEF Close, Drop, Finalize, Forget
  <2> QED
    BY <1>2, <2>1 DEF Nothing
<1>8. ASSUME NEW o \in Objs, NEW f, Call(o, f)
      PROVE  ErrorsReported'
  <2>1. out' = Nothing
    BY <1>8 DEF Call
  <2> QED
    BY <1>2, <2>1 DEF Nothing
<1> QED
  BY <1>1, <1>3, <1>4, <1>5, <1>6, <1>7, <1>8, <1>9 DEF Next

(* Whatever errno was before and whichever finalizers ran in between, an   *)
(* exception is raised for a library call if and only if it failed, and    *)
(* names the error of that call, but for ZeroMayBeResult and, in Python,   *)
(* for arguments that run code of their own and for values with a type     *)
(* that cannot be converted.                                               *)
THEOREM ErrorsCorrect == Spec => []ErrorsReported
BY CallInit, CallNext, ErrorsInit, ErrorsNext, PTL DEF Spec

-----------------------------------------------------------------------------
(* What the application sees *)

(* The flags of hivex_open are the bits that the application names. *)
LEMMA FlagsExact ==
  ASSUME NEW fs, NEW b \in 0 .. 2
  PROVE  (OpenFlags(fs) \div 2^b) % 2 = 1 <=> \E i \in DOMAIN fs : fs[i] = b
<1> DEFINE bits == {fs[i] : i \in DOMAIN fs}
           x == IF 0 \in bits THEN 1 ELSE 0
           y == IF 1 \in bits THEN 2 ELSE 0
           z == IF 2 \in bits THEN 4 ELSE 0
<1>1. OpenFlags(fs) = x + y + z
  BY DEF OpenFlags
<1>2. b \in bits <=> \E i \in DOMAIN fs : fs[i] = b
  OBVIOUS
<1>3. 2^0 = 1 /\ 2^1 = 2 /\ 2^2 = 4
  OBVIOUS
<1> HIDE DEF bits
<1>4. CASE b = 0
  <2>1. ((x + y + z) \div 1) % 2 = 1 <=> 0 \in bits
    OBVIOUS
  <2> QED
    BY <1>1, <1>2, <1>3, <1>4, <2>1
<1>5. CASE b = 1
  <2>1. ((x + y + z) \div 2) % 2 = 1 <=> 1 \in bits
    OBVIOUS
  <2> QED
    BY <1>1, <1>2, <1>3, <1>5, <2>1
<1>6. CASE b = 2
  <2>1. ((x + y + z) \div 4) % 2 = 1 <=> 2 \in bits
    OBVIOUS
  <2> QED
    BY <1>1, <1>2, <1>3, <1>6, <2>1
<1> QED
  BY <1>4, <1>5, <1>6

(* A number below the modulus is its own remainder, also when a multiple   *)
(* of the modulus was added to it.                                         *)
LEMMA ModMultiple ==
  ASSUME NEW k \in Nat, NEW m \in Nat, NEW t \in Nat, t < m
  PROVE  (k * m + t) % m = t
OBVIOUS

LEMMA ModNegative ==
  ASSUME NEW n \in Int, NEW m \in Nat, -m <= n, n < 0
  PROVE  n % m = m + n
OBVIOUS

LEMMA ModSmall ==
  ASSUME NEW n \in Nat, NEW m \in Nat, n < m
  PROVE  n % m = n
OBVIOUS

(* Storing a type as it was read gives the same type, whether the language *)
(* saw it as a signed or as an unsigned number.                            *)
LEMMA TypeRoundTrip ==
  ASSUME NEW n \in Int, NEW t \in Nat, t < 2^IntBits,
         n = t \/ n = t - 2^IntBits
  PROVE  (n % 2^LongBits) % 2^IntBits = t
<1> DEFINE m == 2^IntBits
           k == 2^(LongBits - IntBits)
           L == 2^LongBits
<1>1. m \in Nat /\ k \in Nat /\ k >= 1 /\ L = k * m /\ t < m
  BY WidthsAssumption
<1> HIDE DEF m, k, L
<1>2. (k - 1) * m \in Nat /\ k * m = (k - 1) * m + m
  BY <1>1
<1>3. L \in Nat /\ L >= m
  BY <1>1, <1>2
<1>4. CASE n = t
  <2>1. t < L
    BY <1>1, <1>3
  <2>2. n % L = t
    BY <1>3, <1>4, <2>1, ModSmall
  <2> QED
    BY <1>1, <2>2, ModSmall DEF m, L
<1>5. CASE n = t - m
  <2>1. n % L = L + n
    <3>1. -L <= n /\ n < 0
      BY <1>1, <1>3, <1>5
    <3> QED
      BY <1>3, <3>1, ModNegative
  <2>2. n % L = (k - 1) * m + t
    BY <1>1, <1>2, <1>5, <2>1
  <2>3. ((k - 1) * m + t) % m = t
    <3>1. k - 1 \in Nat
      BY <1>1
    <3> QED
      BY <1>1, <3>1, ModMultiple
  <2> QED
    BY <2>2, <2>3 DEF m, L
<1> QED
  BY <1>4, <1>5 DEF m

(* A result of a call that succeeded is converted exactly. *)
LEMMA NumberExact ==
  ASSUME CallInv, NEW f \in AllFunctions \cup {"close"}, NEW c \in Library(f),
         c.failed = FALSE
  PROVE  \/ Number(ReturnRow(f).conv, c.r) = c.r
         \/ lang = "ruby" /\ f = "value_qword" /\ c.r < 0
<1>1. CASE ReturnRow(f).conv # "ull"
  BY <1>1 DEF Number
<1>2. CASE ReturnRow(f).conv = "ull"
  <2>1. lang = "ruby" /\ f # "value_dword"
    BY <1>2, ReturnRowOk DEF RowOk, Plain
  <2>2. CASE c.r \in {0, 1}
    <3>1. c.r \in Nat /\ c.r < 2^IntBits
      BY <2>2, WidthsAssumption
    <3>2. 2^LongBits \in Nat /\ c.r < 2^LongBits
      <4> DEFINE m == 2^IntBits
                 k == 2^(LongBits - IntBits)
                 L == 2^LongBits
      <4>1. m \in Nat /\ k \in Nat /\ k >= 1 /\ L = k * m
        BY WidthsAssumption
      <4> HIDE DEF m, k, L
      <4>2. L \in Nat /\ L >= m
        BY <4>1
      <4> QED
        BY <3>1, <4>1, <4>2 DEF m, L
    <3> QED
      BY <1>2, <3>1, <3>2, ModSmall DEF Number
  <2> QED
    BY <2>1, <2>2, Answers
<1> QED
  BY <1>1, <1>2

LEMMA TypeExact ==
  ASSUME NEW t \in Types
  PROVE  /\ TypeIn(TypeOut(t)) = t
         /\ lang = "ocaml" /\ ~TypeOut(t).unknown => TypeOut(t).n \in 0 .. 11
<1>1. t \in Nat /\ t < 2^IntBits
  BY WidthsAssumption DEF Types
<1>2. Signed(t, IntBits) \in Int /\ Signed(t, IntBits) \in {t, t - 2^IntBits}
  BY <1>1, WidthsAssumption DEF Signed
<1>3. TypeOut(t).n \in {t, Signed(t, IntBits)}
  BY DEF TypeOut, Val_hive_type
<1>4. TypeIn(TypeOut(t)) = t
  BY <1>1, <1>2, <1>3, TypeRoundTrip DEF TypeIn
<1>5. ASSUME lang = "ocaml", ~TypeOut(t).unknown PROVE TypeOut(t).n \in 0 .. 11
  <2>1. TypeOut(t) = Val_hive_type(t)
    BY <1>5 DEF TypeOut
  <2>2. t <= 11
    BY <1>5, <2>1 DEF Val_hive_type
  <2>3. TypeOut(t).n = t
    BY <2>1, <2>2 DEF Val_hive_type
  <2> QED
    BY <1>1, <2>2, <2>3
<1> QED
  BY <1>4, <1>5

LEMMA ResultsReturn ==
  ASSUME CallInv, Return PROVE ResultsExact'
<1>1. PICK f \in AllFunctions \cup {"close"} : \E c \in Library(f) :
      \E raise \in BOOLEAN, plain \in BOOLEAN, pending \in BOOLEAN : \E err :
          /\ call = <<Entry(f, c, raise, err, plain, pending)>>
          /\ Settled(f, c, raise, err, plain)
          /\ ByPython(f, plain, pending)
  BY DEF CallInv, Return, Idle
<1>0. PICK c \in Library(f), raise \in BOOLEAN, plain \in BOOLEAN,
           pending \in BOOLEAN : \E err :
          /\ call = <<Entry(f, c, raise, err, plain, pending)>>
          /\ Settled(f, c, raise, err, plain)
          /\ ByPython(f, plain, pending)
  BY <1>1
<1>2. PICK err :
          /\ call = <<Entry(f, c, raise, err, plain, pending)>>
          /\ Settled(f, c, raise, err, plain)
          /\ ByPython(f, plain, pending)
  BY <1>0
<1>3. c.failed = FALSE
  BY <1>2 DEF Settled, Return, Entry
<1>4. \/ out' = [kind |-> "not_found", f |-> f, c |-> c]
      \/ out' = [kind |-> "pending", f |-> f, c |-> c]
      \/ out' = [kind |-> "result", f |-> f, c |-> c,
                 n |-> Number(ReturnRow(f).conv, c.r), t |-> TypeOut(c.t)]
  BY <1>2 DEF Return, ReturnRow, Given, Entry
<1>5. CASE \/ out' = [kind |-> "not_found", f |-> f, c |-> c]
           \/ out' = [kind |-> "pending", f |-> f, c |-> c]
  BY <1>5 DEF ResultsExact
<1>6. CASE out' = [kind |-> "result", f |-> f, c |-> c,
                   n |-> Number(ReturnRow(f).conv, c.r), t |-> TypeOut(c.t)]
  <2>1. /\ out'.kind = "result" /\ out'.f = f /\ out'.c = c
        /\ out'.n = Number(ReturnRow(f).conv, c.r) /\ out'.t = TypeOut(c.t)
    BY <1>6
  <2>2. lang' = lang
    BY DEF Return
  <2>3. c.t \in Types
    BY <1>3, Answers
  <2>4. out'.n = out'.c.r \/ (lang' = "ruby" /\ out'.f = "value_qword" /\ out'.c.r < 0)
    BY <1>3, <2>1, <2>2, NumberExact
  <2>5. /\ TypeIn(out'.t) = out'.c.t
        /\ lang' = "ocaml" /\ ~out'.t.unknown => out'.t.n \in 0 .. 11
    BY <2>1, <2>2, <2>3, TypeExact
  <2> QED
    BY <2>1, <2>4, <2>5 DEF ResultsExact, TypeIn
<1> QED
  BY <1>4, <1>5, <1>6

LEMMA ResultsOpen ==
  ASSUME NEW o, NEW fs, Open(o, fs) PROVE ResultsExact'
<1>1. CASE out' = [kind |-> "opened", flags |-> OpenFlags(fs), asked |-> fs]
  <2>1. out'.kind = "opened" /\ out'.flags = OpenFlags(fs) /\ out'.asked = fs
    BY <1>1
  <2> QED
    BY <2>1, FlagsExact DEF ResultsExact
<1>2. ASSUME NEW e \in Errors,
             out' = [kind |-> "error", f |-> "open",
                     c |-> [Ok(0) EXCEPT !.failed = TRUE, !.err = e], err |-> e,
                     plain |-> TRUE]
      PROVE  ResultsExact'
  BY <1>2 DEF ResultsExact
<1> QED
  BY <1>1, <1>2 DEF Open

LEMMA ResultsNext == CallInv /\ ResultsExact /\ [Next]_vars => ResultsExact'
<1> SUFFICES ASSUME CallInv, ResultsExact, [Next]_vars PROVE ResultsExact'
  OBVIOUS
<1>1. ASSUME NEW o \in Objs, NEW fs \in FlagLists, Open(o, fs) PROVE ResultsExact'
  BY <1>1, ResultsOpen
<1>2. CASE out'.kind \notin {"opened", "result"}
  BY <1>2 DEF ResultsExact
<1>3. CASE Raise
  BY <1>2, <1>3 DEF Raise
<1>4. CASE Return
  BY <1>4, ResultsReturn
<1>5. CASE UNCHANGED vars
  BY <1>5 DEF vars, ResultsExact, TypeIn
<1>6. ASSUME NEW o \in Objs, NEW f, UseClosed(o, f) PROVE ResultsExact'
  BY <1>2, <1>6 DEF UseClosed
<1>9. ASSUME NEW o \in Objs, NEW f, CallMalformed(o, f) \/ CallCrashes(o, f)
      PROVE  ResultsExact'
  BY <1>2, <1>9 DEF CallMalformed, CallCrashes
<1>7. ASSUME NEW o \in Objs, Close(o) \/ Drop(o) \/ Finalize(o) \/ Forget(o)
      PROVE  ResultsExact'
  <2>1. out' = Nothing
    BY <1>7 DEF Close, Drop, Finalize, Forget
  <2> QED
    BY <1>2, <2>1 DEF Nothing
<1>8. ASSUME NEW o \in Objs, NEW f, Call(o, f)
      PROVE  ResultsExact'
  <2>1. out' = Nothing
    BY <1>8 DEF Call
  <2> QED
    BY <1>2, <2>1 DEF Nothing
<1> QED
  BY <1>1, <1>3, <1>4, <1>5, <1>6, <1>7, <1>8, <1>9 DEF Next

(* The application sees the library's numbers (negative qwords in Ruby     *)
(* excepted), can store every type as it has read it, whatever the widths  *)
(* of int and long, and opens hives with the flags that it has named.      *)
THEOREM ResultsCorrect == Spec => []ResultsExact
<1>1. Init => ResultsExact
  BY DEF Init, ResultsExact, Nothing
<1> QED
  BY CallInit, CallNext, <1>1, ResultsNext, PTL DEF Spec

=============================================================================
