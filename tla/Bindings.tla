------------------------------ MODULE Bindings ------------------------------
(***************************************************************************)
(* The OCaml, Python, Ruby and Perl bindings that generator/generator.ml   *)
(* writes: wrappers that take a handle out of an object, convert the       *)
(* arguments, call the library, test the result for an error and convert   *)
(* it.  The library is known by its contract: what each call returns and   *)
(* sets errno to.  Memory that a wrapper itself leaks is not modelled.     *)
(*                                                                         *)
(* A wrapper is a row of a table: how it tests the result and how it       *)
(* converts it.  Memory of the language may be collected whenever a        *)
(* wrapper allocates some, and then finalizers run that close other        *)
(* handles and change errno.                                               *)
(***************************************************************************)
EXTENDS Integers, Sequences, FiniteSets, TLC

CONSTANTS
  Langs,      \* a subset of {"ocaml", "python", "ruby", "perl"}
  Objs,       \* the objects an application creates
  Hives,      \* the addresses malloc may return for a hive_h
  IntBits,    \* bits of int, int32_t and hive_type
  LongBits    \* bits of long, int64_t and size_t

NULL == "NULL"

ASSUME BindingsAssumption ==
  /\ Langs \subseteq {"ocaml", "python", "ruby", "perl"}
  /\ IntBits \in Nat /\ LongBits \in Nat
  /\ 4 <= IntBits /\ IntBits <= LongBits
  /\ NULL \notin Hives

(* What arithmetic says of such widths: C's int holds every type that has  *)
(* a name, and a long is so many times as large.                           *)
ASSUME WidthsAssumption ==
  /\ 2^(IntBits - 1) \in Nat /\ 2^IntBits \in Nat /\ 12 < 2^IntBits
  /\ 2^(LongBits - IntBits) \in Nat \ {0}
  /\ 2^LongBits = 2^(LongBits - IntBits) * 2^IntBits
  /\ 2^(LongBits - 1) \in Nat \ {0}

VARIABLES
  lang,     \* the binding that the application uses
  obj,      \* per object: "new", "live", "dropped" (garbage) or "gone"
  ptr,      \* per object: the hive_h * in it
  open,     \* the hive_h that hivex_open made and hivex_close has not freed
  errno,
  call,     \* the wrapper that is running, after the library has returned
  out       \* how the last call ended

vars == <<lang, obj, ptr, open, errno, call, out>>

-----------------------------------------------------------------------------
(* The library *)

Errors == {"EINVAL", "EFAULT"}

(* What a call returns: r, errno if it failed or set it, and the type of a *)
(* value.  NULL is returned as 0.                                          *)
Ok(r) == [r |-> r, failed |-> FALSE, err |-> "0", t |-> 0]
Fails(r) == {[r |-> r, failed |-> TRUE, err |-> e, t |-> 0] : e \in Errors}

Types == {0, 1, 11, 12, 2^IntBits - 1}
MinusOneOrMore == {-(2^(LongBits - 1)), -1, 0, 1}

(* The return values of the functions of lib/hivex.c. *)
Library(f) ==
  CASE f \in {"root", "node_parent", "node_add_child", "node_struct_length",
              "value_struct_length", "node_name", "node_children",
              "node_values", "value_key", "value_string",
              "value_multiple_strings"} -> {Ok(1)} \cup Fails(0)
    [] f = "value_value" -> {[Ok(1) EXCEPT !.t = t] : t \in Types} \cup Fails(0)
    [] f = "value_type" -> {[Ok(0) EXCEPT !.t = t] : t \in Types} \cup Fails(-1)
    [] f \in {"node_get_child", "node_get_value", "value_key_len"}
         -> {Ok(0), Ok(1)} \cup Fails(0)
    [] f \in {"last_modified", "node_timestamp"} -> {Ok(0), Ok(1)} \cup Fails(-1)
    [] f = "value_dword" -> {Ok(r) : r \in -1 .. 1} \cup Fails(-1)
    [] f = "value_qword" -> {Ok(r) : r \in MinusOneOrMore} \cup Fails(-1)
    [] OTHER -> {Ok(0)} \cup Fails(-1)

(* errno after the call, where it was e before it.  hivex_value_key sets   *)
(* it to 0, which hivex_node_get_value calls for every value; a            *)
(* conversion that needed a larger buffer leaves E2BIG.                    *)
ErrnoAfter(f, c, e) ==
  IF c.failed THEN {c.err}
  ELSE CASE f \in {"value_key", "value_struct_length"} -> {"0"}
         [] f = "node_get_value" -> {e, "0"}
         [] f \in {"value_string", "value_multiple_strings"} -> {e, "E2BIG"}
         [] OTHER -> {e}

-----------------------------------------------------------------------------
(* Rows of the tables.  The result is an error if it                       *)
(*   "minus1"        is -1,                                                *)
(*   "zero"          is 0 or NULL,                                         *)
(*   "zero_errno"    is 0 and errno, which was cleared, is set; it stands  *)
(*                   for "not found" if it is 0 and errno is not set,      *)
(*   "minus1_errno"  is -1 and errno, which was cleared, is set.           *)

Row(test, conv) == [test |-> test, conv |-> conv]

Unit == Row("minus1", "unit")
Text == Row("zero", "string")
Lists == Row("zero", "list")

ocaml_nodes ==
  [root |-> Row("zero", "int"), last_modified |-> Row("minus1_errno", "int"),
   node_name |-> Text, node_timestamp |-> Row("minus1_errno", "int")]

ocaml_links ==
  [node_children |-> Lists, node_get_child |-> Row("zero_errno", "int"),
   node_parent |-> Row("zero", "int"), node_values |-> Lists]

ocaml_keys ==
  [node_get_value |-> Row("zero", "int"), value_key_len |-> Row("zero", "int"),
   value_key |-> Text, value_type |-> Row("minus1", "type")]

ocaml_values ==
  [node_struct_length |-> Row("zero", "int"),
   value_struct_length |-> Row("zero", "int"),
   value_value |-> Row("zero", "value"), value_string |-> Text]

ocaml_numbers ==
  [value_multiple_strings |-> Row("zero", "strings"),
   value_dword |-> Row("minus1_errno", "int"),
   value_qword |-> Row("minus1_errno", "int"), commit |-> Unit]

ocaml_changes ==
  [node_add_child |-> Row("zero", "int"), node_delete_child |-> Unit]

ocaml_sets == [node_set_values |-> Unit, node_set_value |-> Unit]

py_nodes ==
  [root |-> Row("zero", "int"), last_modified |-> Row("minus1_errno", "int"),
   node_name |-> Text, node_timestamp |-> Row("minus1_errno", "int"),
   node_children |-> Lists, node_get_child |-> Row("zero_errno", "int")]

py_keys ==
  [node_parent |-> Row("zero", "int"), node_values |-> Lists,
   node_get_value |-> Row("zero", "int"), value_key_len |-> Row("zero", "int"),
   value_key |-> Text, value_type |-> Row("minus1", "type")]

py_values ==
  [node_struct_length |-> Row("zero", "int"),
   value_struct_length |-> Row("zero", "int"),
   value_value |-> Row("zero", "value"), value_string |-> Text,
   value_multiple_strings |-> Row("zero", "strings"),
   value_dword |-> Row("minus1_errno", "int")]

py_changes ==
  [value_qword |-> Row("minus1_errno", "int"), commit |-> Unit,
   node_add_child |-> Row("zero", "int"), node_delete_child |-> Unit]

py_sets == [node_set_values |-> Unit, node_set_value |-> Unit]

ruby_nodes ==
  [root |-> Row("zero", "ull"), last_modified |-> Row("minus1_errno", "ull"),
   node_name |-> Text, node_timestamp |-> Row("minus1_errno", "ull")]

ruby_links ==
  [node_children |-> Lists, node_get_child |-> Row("zero_errno", "ull"),
   node_parent |-> Row("zero", "ull"), node_values |-> Lists]

ruby_keys ==
  [node_get_value |-> Row("zero", "ull"), value_key_len |-> Row("zero", "ull"),
   value_key |-> Text, value_type |-> Row("minus1", "type")]

ruby_values ==
  [node_struct_length |-> Row("zero", "ull"),
   value_struct_length |-> Row("zero", "ull"),
   value_value |-> Row("zero", "value"), value_string |-> Text]

ruby_numbers ==
  [value_multiple_strings |-> Row("zero", "strings"),
   value_dword |-> Row("minus1_errno", "int"),
   value_qword |-> Row("minus1_errno", "ull")]

ruby_changes ==
  [commit |-> Unit, node_add_child |-> Row("zero", "ull"),
   node_delete_child |-> Unit]

ruby_sets == [node_set_values |-> Unit, node_set_value |-> Unit]

perl_nodes ==
  [root |-> Row("zero", "int"), last_modified |-> Row("minus1_errno", "int"),
   node_name |-> Text, node_timestamp |-> Row("minus1_errno", "int"),
   node_children |-> Lists, node_get_child |-> Row("zero_errno", "int"),
   node_parent |-> Row("zero", "int"), node_values |-> Lists]

perl_values ==
  [node_get_value |-> Row("zero", "int"), value_key_len |-> Row("zero", "int"),
   value_key |-> Text, value_type |-> Row("minus1", "type"),
   node_struct_length |-> Row("zero", "int"),
   value_struct_length |-> Row("zero", "int"),
   value_value |-> Row("zero", "value"), value_string |-> Text]

perl_changes ==
  [value_multiple_strings |-> Row("zero", "strings"),
   value_dword |-> Row("minus1_errno", "int"),
   value_qword |-> Row("minus1_errno", "int"), commit |-> Unit,
   node_add_child |-> Row("zero", "int"), node_delete_child |-> Unit,
   node_set_values |-> Unit, node_set_value |-> Unit]

(* Two parts of a table as one. *)
t ++ u == [f \in DOMAIN t \cup DOMAIN u |-> IF f \in DOMAIN t THEN t[f] ELSE u[f]]

(* The methods of an object, besides close and its finalizer. *)
Wrappers ==
  [ocaml |-> ocaml_nodes ++ ocaml_links ++ ocaml_keys ++ ocaml_values
             ++ ocaml_numbers ++ ocaml_changes ++ ocaml_sets,
   python |-> py_nodes ++ py_keys ++ py_values ++ py_changes ++ py_sets,
   ruby |-> ruby_nodes ++ ruby_links ++ ruby_keys ++ ruby_values
            ++ ruby_numbers ++ ruby_changes ++ ruby_sets,
   perl |-> perl_nodes ++ perl_values ++ perl_changes]

Functions == DOMAIN Wrappers["ocaml"]

(* Mutant: errno is not cleared before the call. *)
Clear_Not(test) == errno

(* errno = 0 before the calls whose error value may also be a result *)
Clear(test) == IF test \in {"zero_errno", "minus1_errno"} THEN "0" ELSE errno

IsError(test, r, e) ==
  CASE test = "minus1" -> r = -1
    [] test = "zero" -> r = 0
    [] test = "zero_errno" -> r = 0 /\ e # "0"
    [] test = "minus1_errno" -> r = -1 /\ e # "0"

-----------------------------------------------------------------------------
(* Conversions *)

Signed(n, bits) == IF n >= 2^(bits - 1) THEN n - 2^bits ELSE n

(* Mutant: a type without a constant is given one. *)
Val_hive_type_OneMore(t) ==
  IF t <= 12 THEN [unknown |-> FALSE, n |-> t]
             ELSE [unknown |-> TRUE, n |-> Signed(t, IntBits)]

(* Val_hive_type: a constant constructor, or REG_UNKNOWN of an int32 *)
Val_hive_type(t) ==
  IF t <= 11 THEN [unknown |-> FALSE, n |-> t]
             ELSE [unknown |-> TRUE, n |-> Signed(t, IntBits)]

(* INT2NUM of a hive_type takes it as an int; newSViv and PyLong_FromLong  *)
(* as a longer type.                                                       *)
TypeOut(t) ==
  CASE lang = "ocaml" -> Val_hive_type(t)
    [] lang = "ruby" -> [unknown |-> FALSE, n |-> Signed(t, IntBits)]
    [] OTHER -> [unknown |-> FALSE, n |-> t]

(* HiveType_val, PyLong_AsLong, SvIV and NUM2ULL, assigned to a hive_type  *)
TypeIn(v) == (v.n % 2^LongBits) % 2^IntBits

(* A number as the application sees it. *)
Number(conv, r) == IF conv = "ull" THEN r % 2^LongBits ELSE r

(* HiveOpenFlags_val of a list, and the += of the other bindings: an       *)
(* application names a flag by its bit.                                    *)
OpenFlags(fs) ==
  LET bits == {fs[i] : i \in DOMAIN fs}
  IN  (IF 0 \in bits THEN 1 ELSE 0) + (IF 1 \in bits THEN 2 ELSE 0)
      + (IF 2 \in bits THEN 4 ELSE 0)

(* The flags that an application can pass: a list in OCaml, where a flag   *)
(* may be repeated, otherwise each is given or not.                        *)
FlagLists ==
  IF lang = "ocaml"
    THEN UNION {[1 .. n -> 0 .. 2] : n \in 0 .. 2}
    ELSE {<<>>, <<0>>, <<1>>, <<2>>, <<0, 1>>, <<1, 2>>, <<0, 1, 2>>}

-----------------------------------------------------------------------------
NoCall == <<>>
Nothing == [kind |-> "none"]

Init ==
  /\ lang \in Langs
  /\ obj = [o \in Objs |-> "new"]
  /\ ptr = [o \in Objs |-> NULL]
  /\ open = {}
  /\ errno = "0"
  /\ call = NoCall
  /\ out = Nothing

Idle == call = NoCall

(* The library has returned c: the wrapper goes on, and saves errno if it  *)
(* raises an exception, before it allocates anything.  The arguments were  *)
(* plain, or objects with code of their own; and an exception may be       *)
(* pending from them already.                                              *)
Running(f, c, test, err, plain, pending) ==
  call' = <<[f |-> f, c |-> c, raise |-> IsError(test, c.r, err), err |-> err,
             plain |-> plain, pending |-> pending]>>

(* hivex_open from the application. *)
Open(o, fs) ==
  /\ Idle /\ obj[o] = "new"
  /\ \/ \E h \in Hives \ open :
          /\ open' = open \cup {h}
          /\ obj' = [obj EXCEPT ![o] = "live"]
          /\ ptr' = [ptr EXCEPT ![o] = h]
          /\ out' = [kind |-> "opened", flags |-> OpenFlags(fs), asked |-> fs]
          /\ UNCHANGED errno
     \/ \E e \in Errors :
          /\ errno' = e
          /\ out' = [kind |-> "error", f |-> "open", c |-> [Ok(0) EXCEPT !.failed = TRUE, !.err = e],
                     err |-> e, plain |-> TRUE]
          /\ UNCHANGED <<open, obj, ptr>>
  /\ UNCHANGED <<lang, call>>

HasClose == lang \in {"ocaml", "ruby"}

(* Mutant: the pointer is cleared only if closing succeeds. *)
ClosePtr_OnSuccess(o, c) ==
  ptr' = IF c.failed THEN ptr ELSE [ptr EXCEPT ![o] = NULL]

ClosePtr(o, c) == ptr' = [ptr EXCEPT ![o] = NULL]

(* close, which OCaml and Ruby have: hivex_close frees the handle also     *)
(* when it fails.                                                          *)
Close(o) ==
  /\ HasClose /\ Idle /\ obj[o] = "live" /\ ptr[o] # NULL
  /\ \E c \in {Ok(0)} \cup Fails(-1) : \E e \in ErrnoAfter("close", c, errno) :
       /\ open' = open \ {ptr[o]}
       /\ ClosePtr(o, c)
       /\ errno' = e
       /\ Running("close", c, "minus1", e, TRUE, FALSE)
  /\ out' = Nothing
  /\ UNCHANGED <<lang, obj>>

(* raise_closed, and the ArgumentError of Ruby. *)
UseClosed(o, f) ==
  /\ HasClose /\ Idle /\ obj[o] = "live" /\ ptr[o] = NULL
  /\ out' = [kind |-> "closed", f |-> f]
  /\ UNCHANGED <<lang, obj, ptr, open, errno, call>>

(* The arguments besides the handle: root and last_modified have none.     *)
HasArguments(f) == f \notin {"root", "last_modified"}

(* Python clears errno before PyArg_ParseTuple, which takes a number out   *)
(* of any object that has an __index__ method, and runs it; the others     *)
(* clear it after that.                                                    *)
MayRunCode(f) == lang = "python" /\ HasArguments(f)

(* errno when the library is called. *)
ErrnoBefore(test, plain) ==
  {Clear(test)} \cup (IF plain THEN {} ELSE Errors)

SetCalls == {"node_set_values", "node_set_value"}

(* What applications put into a value: a hash or dictionary of key, type   *)
(* and value.                                                              *)
Values ==
  {"good", "no_key", "no_type", "no_value", "bad_key", "bad_type", "bad_value"}

(* get_value of Python and Ruby, unpack_pl_set_values and unpack_set_value *)
(* of Perl, HiveSetValue_val of OCaml, whose compiler admits only what is  *)
(* good: what may become of a call with value v.                           *)
(*   "raises"   the converter raises an exception,                         *)
(*   "calls"    the library is called, with what was converted,            *)
(*   "fails"    the library is called with a key of NULL or a length of    *)
(*              -1, and can only fail,                                     *)
(*   "crashes"  NULL, or memory that is no string, is dereferenced.        *)
(* Perl makes a string or a number of anything.  Python does not look at   *)
(* the results of its conversions, nor Ruby at the class of "value".       *)
python_get_value(v) ==
  CASE v \in {"good", "bad_type"} -> {"calls"}
    [] v \in {"no_key", "no_type", "no_value"} -> {"raises"}
    [] v \in {"bad_key", "bad_value"} -> {"fails", "crashes"}

ruby_get_value(v) ==
  CASE v = "good" -> {"calls"}
    [] v \in {"no_key", "no_type", "bad_key", "bad_type"} -> {"raises"}
    [] v = "no_value" -> {"crashes"}
    [] v = "bad_value" -> {"calls", "crashes"}

unpack_set_value(v) ==
  IF v \in {"no_key", "no_type", "no_value"} THEN {"raises"} ELSE {"calls"}

Taken(f, v) ==
  CASE f \notin SetCalls \/ lang = "ocaml" -> IF v = "good" THEN {"calls"} ELSE {}
    [] f \in SetCalls /\ lang = "python" -> python_get_value(v)
    [] f \in SetCalls /\ lang = "ruby" -> ruby_get_value(v)
    [] f \in SetCalls /\ lang = "perl" -> unpack_set_value(v)

(* The wrapper of f on object o, up to the test of the result. *)
Call(o, f) ==
  /\ Idle /\ obj[o] = "live" /\ ptr[o] \in open
  /\ \E v \in Values, how \in {"calls", "fails"}, plain \in BOOLEAN :
       /\ how \in Taken(f, v)
       /\ plain \/ MayRunCode(f)
       /\ LET test == Wrappers[lang][f].test
          IN \E c \in Library(f) : \E before \in ErrnoBefore(test, plain) :
             \E e \in ErrnoAfter(f, c, before) :
               /\ how = "fails" => c.failed
               /\ errno' = e
               /\ Running(f, c, test, e, plain, lang = "python" /\ v # "good")
  /\ out' = Nothing
  /\ UNCHANGED <<lang, obj, ptr, open>>

(* The wrapper raises before it calls the library: Python and Ruby because *)
(* an argument is no number or string, or for the value, as Perl does.     *)
CallMalformed(o, f) ==
  /\ Idle /\ obj[o] = "live" /\ ptr[o] \in open
  /\ \/ lang \in {"python", "ruby"} /\ HasArguments(f)
     \/ \E v \in Values : "raises" \in Taken(f, v)
  /\ errno' \in {errno, Clear(Wrappers[lang][f].test)} \cup Errors
  /\ out' = [kind |-> "malformed", f |-> f]
  /\ UNCHANGED <<lang, obj, ptr, open, call>>

(* The process ends, and with it all it had; the application starts again. *)
CallCrashes(o, f) ==
  /\ Idle /\ obj[o] = "live" /\ ptr[o] \in open
  /\ \E v \in Values : "crashes" \in Taken(f, v)
  /\ obj' = [q \in Objs |-> "new"]
  /\ ptr' = [q \in Objs |-> NULL]
  /\ open' = {}
  /\ errno' = "0"
  /\ out' = [kind |-> "crashed", f |-> f]
  /\ UNCHANGED <<lang, call>>

RaisedErrno(k) == k.err

(* Ruby: rb_raise; OCaml: raise_error, raise_closed; Python: PyErr_SetString *)
Raise ==
  /\ ~Idle /\ call[1].raise
  /\ out' = [kind |-> "error", f |-> call[1].f, c |-> call[1].c,
             err |-> RaisedErrno(call[1]), plain |-> call[1].plain]
  /\ call' = NoCall
  /\ UNCHANGED <<lang, obj, ptr, open, errno>>

(* What a wrapper gives that has found no error: nothing (None, nil), the  *)
(* result, or a result with the exception of a conversion still pending.   *)
Given(k, row) ==
  CASE k.pending -> [kind |-> "pending", f |-> k.f, c |-> k.c]
    [] ~k.pending /\ row.test = "zero_errno" /\ k.c.r = 0 ->
         [kind |-> "not_found", f |-> k.f, c |-> k.c]
    [] OTHER -> [kind |-> "result", f |-> k.f, c |-> k.c,
                 n |-> Number(row.conv, k.c.r), t |-> TypeOut(k.c.t)]

Return ==
  /\ ~Idle /\ ~call[1].raise
  /\ LET f == call[1].f
     IN out' = Given(call[1], IF f = "close" THEN Unit ELSE Wrappers[lang][f])
  /\ call' = NoCall
  /\ UNCHANGED <<lang, obj, ptr, open, errno>>

(* The application loses its last reference to the object. *)
Drop(o) ==
  /\ Idle /\ obj[o] = "live"
  /\ obj' = [obj EXCEPT ![o] = "dropped"]
  /\ out' = Nothing
  /\ UNCHANGED <<lang, ptr, open, errno, call>>

(* hivex_finalize, __del__, ruby_hivex_free and DESTROY close the handle   *)
(* unless close has done so.  Perl counts references and runs DESTROY when *)
(* one is lost; the others may do so when a wrapper allocates memory.      *)
Finalize(o) ==
  /\ obj[o] = "dropped" /\ (Idle \/ lang # "perl")
  /\ obj' = [obj EXCEPT ![o] = "gone"]
  /\ open' = open \ {ptr[o]}
  /\ ptr' = [ptr EXCEPT ![o] = NULL]
  /\ errno' \in IF ptr[o] = NULL THEN {errno} ELSE {errno} \cup Errors
  /\ out' = Nothing
  /\ UNCHANGED <<lang, call>>

(* The garbage is gone: the application may make a new object. *)
Forget(o) ==
  /\ Idle /\ obj[o] = "gone"
  /\ obj' = [obj EXCEPT ![o] = "new"]
  /\ out' = Nothing
  /\ UNCHANGED <<lang, ptr, open, errno, call>>

Next ==
  \/ \E o \in Objs :
       \/ \E fs \in FlagLists : Open(o, fs)
       \/ Close(o)
       \/ \E f \in Functions \cup {"close"} : UseClosed(o, f)
       \/ \E f \in Functions : 
            Call(o, f) \/ CallMalformed(o, f) \/ CallCrashes(o, f)
       \/ Drop(o) \/ Finalize(o) \/ Forget(o)
  \/ Raise \/ Return

Spec == Init /\ [][Next]_vars

-----------------------------------------------------------------------------
(* Properties *)

(* A hive that is open has exactly one object that points to it, and an    *)
(* object never points to one that was closed: close, failing closes,      *)
(* finalizers that run in the middle of other calls and addresses that     *)
(* malloc hands out again never lead to a use after free, a double free    *)
(* or a lost hive.                                                         *)
HandlesSound ==
  /\ \A o \in Objs : ptr[o] # NULL => ptr[o] \in open
  /\ \A h \in open : \E o \in Objs : ptr[o] = h
  /\ \A o, p \in Objs : ptr[o] = ptr[p] /\ ptr[o] # NULL => o = p

(* Calls that take every 0 for an error, although it may be a result.      *)
ZeroMayBeResult == {"value_key_len", "node_get_value"}

(* An exception is raised for a library call if and only if it failed:     *)
(* errors are not lost, and a -1 that is the value of a DWORD, or a child  *)
(* that does not exist, is not taken for an error that some earlier call   *)
(* or finalizer left in errno.  The exception names the error of the call  *)
(* that failed, not one that a finalizer has set since.                    *)
(* In three cases it is otherwise.  Two wrappers take the result 0 for an  *)
(* error (ZeroMayBeResult).  Python, given a node or value as an object    *)
(* whose own code converts it, may find the errno that this code has left. *)
(* And Python returns "pending" from a call that succeeded, with a type    *)
(* that could not be converted: the value is stored, as of type -1, and    *)
(* the interpreter raises an exception all the same.                       *)
ErrorsReported ==
  /\ out.kind = "error" =>
       \/ out.c.failed
       \/ out.f \in ZeroMayBeResult
       \/ lang = "python" /\ ~out.plain
  /\ out.kind = "error" /\ out.c.failed => out.err = out.c.err
  /\ out.kind \in {"result", "not_found", "pending"} => ~out.c.failed
  /\ out.kind = "pending" => lang = "python" /\ out.f \in SetCalls

(* The application sees the numbers of the library, but for negative       *)
(* qwords in Ruby, which are converted as unsigned.  A type it reads is a  *)
(* value of the language's type and can be stored again unchanged.         *)
(* hivex_open gets the flags that the application has named, once each: a  *)
(* repeated OPEN_DEBUG never opens a hive for writing.                     *)
ResultsExact ==
  /\ out.kind = "opened" =>
       \A b \in 0 .. 2 :
         (out.flags \div 2^b) % 2 = 1 <=> \E i \in DOMAIN out.asked : out.asked[i] = b
  /\ out.kind = "result" =>
    /\ out.n = out.c.r \/ (lang = "ruby" /\ out.f = "value_qword" /\ out.c.r < 0)
    /\ TypeIn(out.t) = out.c.t
    /\ lang = "ocaml" /\ ~out.t.unknown => out.t.n \in 0 .. 11

=============================================================================
