----------------------------- MODULE HiveVisit -----------------------------
(***************************************************************************)
(* hivex_visit and hivex_visit_node of lib/hivex.c, with the reading and   *)
(* converting of values that they do: the recursion over the nodes of a    *)
(* hive, the callbacks of the application's hivex_visitor, and the flag    *)
(* HIVEX_VISIT_SKIP_BAD.  A hive here is what the calls that read it       *)
(* return, which may be an error for any record.                           *)
(*                                                                         *)
(* A byte of data is 0, 1 (any character), 2 (in the second place of a     *)
(* pair: a unit that iconv refuses) or 255.                                *)
(***************************************************************************)
EXTENDS Integers, Sequences, FiniteSets, SequencesExt

CONSTANTS
  Hives,        \* the hives that are visited
  Visitors,     \* what applications pass as visitor and len
  MaxValueLen,  \* HIVEX_MAX_VALUE_LEN
  MaxFaults     \* bound: so many allocations fail during a visit

NoCall == <<>>  \* no callback is running

VARIABLES
  hive,       \* the hive that is visited
  vtor,       \* struct hivex_visitor: the callbacks that are not NULL
  skip_bad,   \* flags & HIVEX_VISIT_SKIP_BAD
  state,      \* "idle" before the visit, "visiting", "done" after it
  frames,     \* the calls of hivex__visit_node, innermost first
  unvisited,  \* the bitmap of nodes not yet visited
  call,       \* the callback that is running: a sequence of at most one
  ret,        \* what hivex_visit has returned
  log,        \* history: the callbacks made, in order
  rejected,   \* history: a callback has returned -1
  faults      \* history: so many allocations have failed

visitVars == <<hive, vtor, skip_bad, state, frames, unvisited, call, ret,
               log, rejected, faults>>

-----------------------------------------------------------------------------
(* hivex_value_value and the conversions of what it returns *)

Failed(e) == [ok |-> FALSE, errno |-> e]
Got(d) == [ok |-> TRUE, data |-> d]

(* hivex_value_value.  A value is a vk record with its data: 4 bytes in    *)
(* the record itself, or the bytes of a block, if the offset is that of    *)
(* one; they may be fewer than the length in the record.                   *)
ValueValue(v) ==
  IF v.inline /\ v.len > 4 THEN Failed("ENOTSUP")
  ELSE IF v.len > MaxValueLen THEN Failed("ERANGE")
  ELSE IF ~v.inline /\ ~v.block THEN Failed("EFAULT")
  ELSE Got(SubSeq(v.bytes, 1, Min({v.len, Len(v.bytes)})))

IsNul(s, i) == s[2 * i + 1] = 0 /\ s[2 * i + 2] = 0

(* Mutant: a \0\0 that is not aligned to a pair counts as well. *)
Utf16Len_Unaligned(s) ==
  Min({Len(s)} \cup {i - 1 : i \in {j \in 1 .. (Len(s) - 1) :
                                      s[j] = 0 /\ s[j + 1] = 0}})

(* utf16_string_len_in_bytes_max: up to the first pair \0\0 *)
Utf16Len(s) ==
  LET pairs == Len(s) \div 2
  IN  2 * Min({pairs} \cup {i \in 0 .. (pairs - 1) : IsNul(s, i)})

(* windows_utf16_to_utf8: iconv, in a buffer that is doubled until the     *)
(* result fits.  The string is known by its UTF-16 units.                  *)
ToUtf8(s) ==
  IF \E i \in 1 .. (Len(s) \div 2) : s[2 * i] = 2
    THEN Failed("EILSEQ") ELSE Got(s)

(* hivex_node_timestamp, hivex_last_modified and timestamp_check *)
Timestamp(ticks) == IF ticks < 0 THEN -1 ELSE ticks

(* hive_type *)
HiveTypes ==
  {"none", "string", "expand_string", "binary", "dword", "dword_be", "link",
   "multiple_strings", "resource_list", "full_resource_description",
   "resource_requirements_list", "qword"}

StringTypes == {"string", "expand_string", "link"}

(* hivex_value_string *)
ValueString(v) ==
  LET r == ValueValue(v)
  IN  IF ~r.ok THEN r
      ELSE IF v.t \notin StringTypes THEN Failed("EINVAL")
      ELSE ToUtf8(SubSeq(r.data, 1, Utf16Len(r.data)))

(* hivex_value_multiple_strings, from byte p of the data on. *)
ValueMultipleStrings(v) ==
  LET r == ValueValue(v)
      rest(p) == SubSeq(r.data, p + 1, Len(r.data))
      plen(p) == Utf16Len(rest(p))
      split[p \in 0 .. (Len(r.data) + 2)] ==
        IF p >= Len(r.data) \/ plen(p) = 0 THEN Got(<<>>)
        ELSE LET str == ToUtf8(SubSeq(rest(p), 1, plen(p)))
                 more == split[p + plen(p) + 2]
             IN  IF ~str.ok THEN str
                 ELSE IF ~more.ok THEN more
                 ELSE Got(<<str.data>> \o more.data)
  IN  IF ~r.ok THEN r
      ELSE IF v.t # "multiple_strings" THEN Failed("EINVAL")
      ELSE split[0]

(* hivex_value_dword and hivex_value_qword: a number is its bytes, the     *)
(* lowest first, and -1 stands for an error.                               *)
Minus1(n) == [i \in 1 .. n |-> 255]

ValueDword(v) ==
  LET r == ValueValue(v)
  IN  IF ~r.ok \/ v.t \notin {"dword", "dword_be"} THEN Minus1(4)
      ELSE IF Len(r.data) # 4 THEN Minus1(4)
      ELSE IF v.t = "dword" THEN r.data ELSE Reverse(r.data)

ValueQword(v) ==
  LET r == ValueValue(v)
  IN  IF ~r.ok \/ v.t # "qword" THEN Minus1(8)
      ELSE IF Len(r.data) # 8 THEN Minus1(8) ELSE r.data

-----------------------------------------------------------------------------
(* What the visitor does with a value *)

(* The fields of struct hivex_visitor. *)
Fields == <<"node_start", "node_end", "value_string",
            "value_multiple_strings", "value_string_invalid_utf16",
            "value_dword", "value_qword", "value_binary", "value_none",
            "value_other", "value_any">>

(* The callback to make with data d, unless reading has failed. *)
Offer(cb, r) ==
  IF r.ok THEN [ok |-> TRUE, cb |-> cb, data |-> r.data] ELSE r

(* The same for a string: data that are not UTF-16 are passed as they are. *)
OfferString(cb, r, v) ==
  IF ~r.ok /\ r.errno \in {"EILSEQ", "EINVAL"}
    THEN Offer("value_string_invalid_utf16", ValueValue(v))
    ELSE Offer(cb, r)

(* The switch in hivex__visit_node.  It does not look at the errors of     *)
(* hivex_value_dword and hivex_value_qword.                                *)
Reading(v) ==
  CASE "value_any" \in vtor -> Offer("value_any", ValueValue(v))
    [] OTHER ->
  CASE v.t = "none" -> Offer("value_none", ValueValue(v))
    [] v.t \in StringTypes -> OfferString("value_string", ValueString(v), v)
    [] v.t \in {"dword", "dword_be"} -> Offer("value_dword", Got(ValueDword(v)))
    [] v.t = "qword" -> Offer("value_qword", Got(ValueQword(v)))
    [] v.t = "binary" -> Offer("value_binary", ValueValue(v))
    [] v.t = "multiple_strings" ->
         OfferString("value_multiple_strings", ValueMultipleStrings(v), v)
    [] OTHER -> Offer("value_other", ValueValue(v))

(* hivex_value_type and hivex_value_key succeed. *)
HasKey(v) == v.vk /\ v.keyOK

-----------------------------------------------------------------------------
(* hivex_visit *)

VisitInit ==
  /\ hive \in Hives
  /\ vtor = {} /\ skip_bad = FALSE
  /\ state = "idle" /\ frames = <<>> /\ unvisited = {} /\ call = NoCall
  /\ ret = 0 /\ log = <<>> /\ rejected = FALSE /\ faults = 0

Frame(n) == [node |-> n, at |-> "enter", rest |-> <<>>]

(* The visitor is copied as far as len says, the other callbacks are NULL. *)
Visit(visitor, skip) ==
  /\ state = "idle"
  /\ vtor' = {f \in visitor.set :
               \E i \in 1 .. visitor.len : i <= Len(Fields) /\ Fields[i] = f}
  /\ skip_bad' = skip
  /\ state' = "visiting"
  /\ frames' = <<Frame(hive.root)>>
  /\ unvisited' = DOMAIN hive.nodes
  /\ UNCHANGED <<hive, call, ret, log, rejected, faults>>

Finish(r) ==
  /\ state' = "done" /\ ret' = r
  /\ frames' = <<>> /\ call' = NoCall

(* There is no memory for the bitmap. *)
VisitNoMemory ==
  /\ state = "idle" /\ faults < MaxFaults
  /\ Finish(-1) /\ faults' = faults + 1
  /\ UNCHANGED <<hive, vtor, skip_bad, unvisited, log, rejected>>

Running == state = "visiting" /\ call = NoCall

Top == Head(frames)
Node == hive.nodes[Top.node]

(* hivex__visit_node returns 0 to its caller. *)
Leave ==
  IF Len(frames) = 1 THEN Finish(0)
  ELSE frames' = Tail(frames) /\ UNCHANGED <<state, ret, call>>

(* Mutant: what is bad is tried again. *)
BadRecord_Again ==
  IF skip_bad THEN UNCHANGED <<frames, state, ret, call>> ELSE Finish(-1)

(* ret = skip_bad ? 0 : -1: the errors of the callers are their callees'.  *)
BadRecord == IF skip_bad THEN Leave ELSE Finish(-1)

(* The innermost call goes on at "at" with "rest" still to be done.        *)
GoOn(at, rest) ==
  frames' = <<[Top EXCEPT !.at = at, !.rest = rest]>> \o Tail(frames)

(* The callback is made if there is one. *)
CallBack(cb, d) ==
  LET c == [cb |-> cb, node |-> Top.node, data |-> d,
            t |-> IF Top.at = "value" THEN Head(Top.rest).t ELSE "node"]
  IN  IF cb \in vtor THEN call' = <<c>> /\ log' = Append(log, c)
                     ELSE UNCHANGED <<call, log>>

(* A node that has been visited already. *)
EnterAgain ==
  /\ Running /\ Top.at = "enter" /\ Top.node \notin unvisited
  /\ BadRecord
  /\ UNCHANGED <<hive, vtor, skip_bad, unvisited, log, rejected, faults>>

(* Mutant: the bit of the node is not cleared. *)
Mark_Not == UNCHANGED unvisited

(* BITMAP_CLR (unvisited, node) *)
Mark == unvisited' = unvisited \ {Top.node}

EnterNameless ==
  /\ Running /\ Top.at = "enter" /\ Top.node \in unvisited
  /\ ~Node.nameOK
  /\ Mark
  /\ BadRecord
  /\ UNCHANGED <<hive, vtor, skip_bad, log, rejected, faults>>

Enter ==
  /\ Running /\ Top.at = "enter" /\ Top.node \in unvisited
  /\ Node.nameOK
  /\ Mark
  /\ CallBack("node_start", <<>>)
  /\ GoOn("values", <<>>)
  /\ UNCHANGED <<hive, vtor, skip_bad, state, ret, rejected, faults>>

GetValues ==
  /\ Running /\ Top.at = "values" /\ Node.valuesOK
  /\ GoOn("value", Node.values)
  /\ UNCHANGED <<hive, vtor, skip_bad, state, unvisited, call, ret, log,
                 rejected, faults>>

VisitValue ==
  LET v == Head(Top.rest) IN
  /\ Running /\ Top.at = "value" /\ Top.rest # <<>>
  /\ HasKey(v) /\ Reading(v).ok
  /\ CallBack(Reading(v).cb, Reading(v).data)
  /\ GoOn("value", Tail(Top.rest))
  /\ UNCHANGED <<hive, vtor, skip_bad, state, unvisited, ret, rejected,
                 faults>>

GetChildren ==
  /\ Running /\ Top.at = "value" /\ Top.rest = <<>> /\ Node.childrenOK
  /\ GoOn("child", Node.children)
  /\ UNCHANGED <<hive, vtor, skip_bad, state, unvisited, call, ret, log,
                 rejected, faults>>

VisitChild ==
  /\ Running /\ Top.at = "child" /\ Top.rest # <<>>
  /\ frames' = <<Frame(Head(Top.rest)), [Top EXCEPT !.rest = Tail(@)]>>
               \o Tail(frames)
  /\ UNCHANGED <<hive, vtor, skip_bad, state, unvisited, call, ret, log,
                 rejected, faults>>

EndNode ==
  /\ Running /\ Top.at = "child" /\ Top.rest = <<>>
  /\ CallBack("node_end", <<>>)
  /\ GoOn("leave", <<>>)
  /\ UNCHANGED <<hive, vtor, skip_bad, state, unvisited, ret, rejected,
                 faults>>

LeaveNode ==
  /\ Running /\ Top.at = "leave"
  /\ Leave
  /\ UNCHANGED <<hive, vtor, skip_bad, unvisited, log, rejected, faults>>

(* The values, one of them, or the children cannot be read. *)
Unreadable ==
  /\ Running
  /\ \/ Top.at = "values" /\ ~Node.valuesOK
     \/ /\ Top.at = "value" /\ Top.rest # <<>>
        /\ HasKey(Head(Top.rest)) => ~Reading(Head(Top.rest)).ok
     \/ Top.at = "value" /\ Top.rest = <<>> /\ ~Node.childrenOK
  /\ BadRecord
  /\ UNCHANGED <<hive, vtor, skip_bad, unvisited, log, rejected, faults>>

(* Any of the allocations may fail, which is an internal error ... *)
AllocationFails ==
  /\ Running /\ faults < MaxFaults
  /\ \/ /\ Top.at = "enter" /\ Top.node \in unvisited
        /\ Mark
     \/ /\ Top.at \in {"values", "value"}
        /\ UNCHANGED unvisited
  /\ BadRecord
  /\ faults' = faults + 1
  /\ UNCHANGED <<hive, vtor, skip_bad, log, rejected>>

(* ... except in hivex_value_dword and hivex_value_qword, and when the     *)
(* data that are not UTF-16 are read again, for value_string_invalid_utf16 *)
(* (an empty sequence stands for NULL).                                    *)
AllocationIgnored ==
  LET v == Head(Top.rest) IN
  /\ Running /\ Top.at = "value" /\ Top.rest # <<>> /\ faults < MaxFaults
  /\ HasKey(v) /\ Reading(v).ok
  /\ \/ Reading(v).cb = "value_dword" /\ CallBack("value_dword", Minus1(4))
     \/ Reading(v).cb = "value_qword" /\ CallBack("value_qword", Minus1(8))
     \/ /\ Reading(v).cb = "value_string_invalid_utf16"
        /\ CallBack("value_string_invalid_utf16", <<>>)
  /\ GoOn("value", Tail(Top.rest))
  /\ faults' = faults + 1
  /\ UNCHANGED <<hive, vtor, skip_bad, state, unvisited, ret, rejected>>

(* The application's callback returns r. *)
CallbackReturns(r) ==
  /\ state = "visiting" /\ call # NoCall
  /\ IF r = -1
       THEN Finish(-1) /\ rejected' = TRUE
       ELSE call' = NoCall /\ UNCHANGED <<frames, state, ret, rejected>>
  /\ UNCHANGED <<hive, vtor, skip_bad, unvisited, log, faults>>

VisitStep ==
  \/ EnterAgain \/ EnterNameless \/ Enter
  \/ GetValues \/ VisitValue \/ GetChildren \/ VisitChild
  \/ EndNode \/ LeaveNode
  \/ Unreadable \/ AllocationFails \/ AllocationIgnored

-----------------------------------------------------------------------------
(* Properties *)

(* The data of v, which are in its record or in a block of the hive, and   *)
(* not too long.                                                           *)
DataThere(v) ==
  /\ v.len <= MaxValueLen
  /\ IF v.inline THEN v.len <= 4 ELSE v.block

DataOf(v) == SubSeq(v.bytes, 1, Min({v.len, Len(v.bytes)}))

NumberTypes == {"dword", "dword_be", "qword"}

(* The records of a node can be read, with the keys and the data of its    *)
(* values; but the visitor asks for the data of a number only with         *)
(* value_any: otherwise -1 is as good.                                     *)
Whole(n) ==
  LET node == hive.nodes[n] IN
  /\ node.nameOK /\ node.valuesOK /\ node.childrenOK
  /\ \A v \in ToSet(node.values) :
       /\ HasKey(v)
       /\ v.t \notin NumberTypes \/ "value_any" \in vtor => DataThere(v)

(* The nodes that can be reached from the root through nodes that can be   *)
(* read.                                                                   *)
Reached ==
  LET step(ns) == ns \cup UNION {ToSet(hive.nodes[n].children) :
                                   n \in {m \in ns : Whole(m)}}
      in[k \in 0 .. Cardinality(DOMAIN hive.nodes)] ==
        IF k = 0 THEN {hive.root} ELSE step(in[k - 1])
  IN  in[Cardinality(DOMAIN hive.nodes)]

Calls(cb) == SelectSeq(log, LAMBDA c : c.cb = cb)
NodesOf(cs) == {cs[i].node : i \in DOMAIN cs}

(* What the callbacks have been told of the values of n. *)
ToldOf(n) ==
  SelectSeq(log, LAMBDA c : c.node = n /\ c.cb \notin {"node_start", "node_end"})

(* A unit of the strings in v is none: of the one string, which ends with  *)
(* the first pair \0\0, or of the strings up to the first empty one.       *)
IllFormed(v) ==
  LET d == DataOf(v)
      ends(i) == /\ IsNul(d, i)
                 /\ v.t = "multiple_strings" /\ i > 0 => IsNul(d, i - 1)
  IN  \E k \in 0 .. (Len(d) \div 2 - 1) :
        d[2 * k + 2] = 2 /\ \A i \in 0 .. k : ~ends(i)

(* The callback that belongs to v, by its type and its text.               *)
KindOf(v) ==
  LET text == v.t \in StringTypes \cup {"multiple_strings"}
  IN  CASE "value_any" \in vtor -> "value_any"
        [] "value_any" \notin vtor /\ text ->
             IF IllFormed(v) THEN "value_string_invalid_utf16"
             ELSE IF v.t \in StringTypes THEN "value_string"
             ELSE "value_multiple_strings"
        [] "value_any" \notin vtor /\ v.t \in NumberTypes ->
             IF v.t = "qword" THEN "value_qword" ELSE "value_dword"
        [] "value_any" \notin vtor /\ v.t \in {"none", "binary"} ->
             IF v.t = "none" THEN "value_none" ELSE "value_binary"
        [] OTHER -> "value_other"

(* The callbacks that are due for the values of n, in the order of these.  *)
DueFor(n) ==
  LET values == hive.nodes[n].values
  IN  SelectSeq([i \in DOMAIN values |-> KindOf(values[i])],
                LAMBDA cb : cb \in vtor)

(* "This returns 0 if the whole recursive visit was completed              *)
(* successfully": every node that can be reached has been started once,    *)
(* and ended once if all of it can be read, and each of its values has     *)
(* been reported in order, with the callback that belongs to it.  Without  *)
(* HIVEX_VISIT_SKIP_BAD there is then nothing bad but numbers without data *)
(* and no node was met twice.  The exception is the code's, which ignores  *)
(* the errors of hivex_value_dword and hivex_value_qword; the manual says  *)
(* that without the flag "a bad registry causes the function to return an  *)
(* error immediately".  With it, the visit goes round what is bad ("on     *)
(* internal errors, check if skip_bad is set and suppress those errors")   *)
(* and fails only when a callback does.                                    *)
VisitComplete ==
  /\ state = "done" /\ ret = -1 /\ skip_bad => rejected
  /\ state = "done" /\ ret = 0 /\ faults = 0 =>
    /\ ~skip_bad => \A n \in Reached : Whole(n)
    /\ "node_start" \in vtor =>
         /\ NodesOf(Calls("node_start")) =
              {n \in Reached : hive.nodes[n].nameOK}
         /\ Len(Calls("node_start")) = Cardinality(NodesOf(Calls("node_start")))
    /\ "node_end" \in vtor =>
         /\ NodesOf(Calls("node_end")) = {n \in Reached : Whole(n)}
         /\ Len(Calls("node_end")) = Cardinality(NodesOf(Calls("node_end")))
    /\ \A n \in {m \in Reached : Whole(m)} :
         /\ Len(ToldOf(n)) = Len(DueFor(n))
         /\ \A i \in DOMAIN ToldOf(n) : ToldOf(n)[i].cb = DueFor(n)[i]

(* A string of the units of d: no \0\0, and all of d up to the first.     *)
IsStringOf(s, d) ==
  LET pairs == Len(s) \div 2 IN
  /\ IsPrefix(s, d) /\ Len(s) % 2 = 0
  /\ \A i \in 0 .. (pairs - 1) : ~IsNul(s, i)
  /\ Len(s) + 1 < Len(d) => IsNul(d, pairs)

(* The strings ss, each with the \0\0 that ends it, are what d begins      *)
(* with, up to the empty string at its end, or to the end of d.            *)
AreStringsOf(ss, d) ==
  LET all == FlattenSeq([i \in DOMAIN ss |-> ss[i] \o <<0, 0>>]) IN
  /\ \A i \in DOMAIN ss :
       /\ ss[i] # <<>> /\ Len(ss[i]) % 2 = 0
       /\ \A j \in 0 .. (Len(ss[i]) \div 2 - 1) : ~IsNul(ss[i], j)
  /\ \/ /\ IsPrefix(all, d)
        /\ Len(all) + 1 < Len(d) => IsNul(SubSeq(d, Len(all) + 1, Len(d)), 0)
     \/ /\ ss # <<>> /\ Len(all) > Len(d)
        /\ IsPrefix(SubSeq(all, 1, Len(all) - 2), d)
        /\ Len(d) - (Len(all) - 2) < 2

(* The value whose callback is running.                                    *)
CallValue ==
  Node.values[Len(Node.values) - Len(Top.rest)]

(* The conversions: a string is the data up to the first \0\0 of a pair,   *)
(* "stop after we find the first \0\0"; the strings of a list are those    *)
(* before the first empty one; numbers have the byte order of their type,  *)
(* -1 where they cannot be read; and data are passed on no further than    *)
(* the block goes.                                                         *)
ConvertsFaithfully ==
  state = "visiting" /\ call # NoCall /\ Top.at = "value" /\ faults = 0 =>
    LET c == Head(call)
        v == CallValue
        d == DataOf(v)
    IN
    CASE c.cb = "value_string" -> IsStringOf(c.data, d)
      [] c.cb = "value_multiple_strings" -> AreStringsOf(c.data, d)
      [] c.cb = "value_dword" ->
           IF Len(d) = 4 /\ (v.inline \/ v.block)
             THEN \A i \in 1 .. 4 :
                    c.data[i] = IF v.t = "dword" THEN d[i] ELSE d[5 - i]
             ELSE c.data = Minus1(4)
      [] c.cb = "value_qword" ->
           c.data = IF Len(d) = 8 /\ v.block THEN d ELSE Minus1(8)
      [] OTHER -> c.data = d

=============================================================================
