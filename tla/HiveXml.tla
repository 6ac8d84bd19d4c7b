------------------------------ MODULE HiveXml ------------------------------
(***************************************************************************)
(* Applications of hivex_visit: hivexml (xml/hivexml.c), which writes a    *)
(* hive as an XML document from the callbacks, and any other, whose        *)
(* callbacks return what they like.                                        *)
(***************************************************************************)
EXTENDS HiveVisit

CONSTANTS
  Tick,     \* WINDOWS_TICK
  Epoch     \* SEC_TO_UNIX_EPOCH

VARIABLES
  app,      \* which application this is: "hivexml" or "other"
  exit,     \* "running", "success", "failure" (exit) or "aborted" (abort)
  els,      \* the open elements of the XML writer, innermost first
  doc       \* the elements of the document, in the order of their starts

vars == <<visitVars, app, exit, els, doc>>

Init ==
  /\ VisitInit
  /\ app \in {"hivexml", "other"}
  /\ exit = "running" /\ els = <<>> /\ doc = <<>>

-----------------------------------------------------------------------------
(* Another application *)

OtherVisits(visitor, skip) ==
  /\ app = "other"
  /\ Visit(visitor, skip)
  /\ UNCHANGED <<app, exit, els, doc>>

OtherReturns(r) ==
  /\ app = "other"
  /\ CallbackReturns(r)
  /\ UNCHANGED <<app, exit, els, doc>>

-----------------------------------------------------------------------------
(* hivexml *)

(* The callbacks of hivexml: all but value_any. *)
visitor == [set |-> ToSet(Fields) \ {"value_any"}, len |-> Len(Fields)]

(* An element of the document: what it is, of which node, and inside       *)
(* which element it stands.                                                *)
Element(el, n, x) ==
  [el |-> el, node |-> n, x |-> x,
   in |-> IF els = <<>> THEN 0 ELSE Head(els)]

(* filetime_to_8601 and the test of the time stamp before it: the mtime    *)
(* element, if there is one.                                               *)
Mtime(n, ticks, in) ==
  IF Timestamp(ticks) <= 0 THEN <<>>
  ELSE <<[el |-> "mtime", node |-> n, x |-> <<ticks \div Tick - Epoch>>,
          in |-> in]>>

Exit(how) ==
  /\ exit' = how
  /\ UNCHANGED <<visitVars, app, els, doc>>

Working == app = "hivexml" /\ exit = "running"

(* main up to hivex_visit.  The element of the hive is known by 0.         *)
StartDocument(skip) ==
  /\ Working
  /\ Visit(visitor, skip)
  /\ els' = <<0>>
  /\ doc' = <<Element("hive", 0, <<>>)>> \o Mtime(0, hive.last_modified, 0)
  /\ UNCHANGED <<app, exit>>

(* The options, hivex_open or the making of the XML writer fail. *)
CannotStart ==
  /\ Working /\ state = "idle"
  /\ Exit("failure")

Called(cb) == Working /\ state = "visiting" /\ call # NoCall /\ Head(call).cb = cb

(* Mutant: an element is ended also where no mtime has been started. *)
node_start_EndsTwice ==
  LET n == Head(call).node IN
  /\ Called("node_start")
  /\ els' = IF Mtime(n, hive.nodes[n].timestamp, n) = <<>>
              THEN els ELSE <<n>> \o els
  /\ doc' = doc \o <<Element("node", n, <<>>)>> \o
            Mtime(n, hive.nodes[n].timestamp, n)
  /\ CallbackReturns(0)
  /\ UNCHANGED <<app, exit>>

node_start ==
  LET n == Head(call).node IN
  /\ Called("node_start")
  /\ els' = <<n>> \o els
  /\ doc' = doc \o <<Element("node", n, <<>>)>> \o
            Mtime(n, hive.nodes[n].timestamp, n)
  /\ CallbackReturns(0)
  /\ UNCHANGED <<app, exit>>

(* Mutant: the element is not ended. *)
node_end_Open ==
  /\ Called("node_end")
  /\ CallbackReturns(0)
  /\ UNCHANGED <<app, exit, els, doc>>

node_end ==
  /\ Called("node_end")
  /\ els' = Tail(els)
  /\ CallbackReturns(0)
  /\ UNCHANGED <<app, exit, doc>>

(* start_value and end_value, with the value between them. *)
WriteValue(type) ==
  /\ doc' = Append(doc, Element("value", Head(call).node,
                                <<type, Head(call).data>>))
  /\ CallbackReturns(0)
  /\ UNCHANGED <<app, exit, els>>

ListTypes == {"resource_list", "full_resource_description",
              "resource_requirements_list"}

(* The switch of a callback: the types that belong there, "unknown" for    *)
(* numbers that are no hive_type, and abort for the rest.                  *)
WriteTyped(types) ==
  LET t == Head(call).t
  IN  IF t \in HiveTypes \ types THEN Exit("aborted")
      ELSE WriteValue(IF t \in types THEN t ELSE "unknown")

value_string == Called("value_string") /\ WriteTyped(StringTypes)

value_string_invalid_utf16 ==
  /\ Called("value_string_invalid_utf16")
  /\ WriteTyped(StringTypes \cup {"multiple_strings"})

value_other == Called("value_other") /\ WriteTyped(ListTypes)

value_multiple_strings ==
  Called("value_multiple_strings") /\ WriteValue("string-list")

value_dword == Called("value_dword") /\ WriteValue("int32")

value_qword == Called("value_qword") /\ WriteValue("int64")

value_binary == Called("value_binary") /\ WriteValue("binary")

value_none == Called("value_none") /\ WriteValue("none")

(* XML_CHECK: the document cannot be written. *)
WriteFails ==
  /\ Working /\ state = "visiting" /\ call # NoCall
  /\ Exit("failure")

VisitFails ==
  /\ Working /\ state = "done" /\ ret = -1
  /\ Exit("failure")

(* hivex_close or the writing of the end of the document fails. *)
CannotEnd ==
  /\ Working /\ state = "done" /\ ret = 0
  /\ Exit("failure")

(* main ends one element, "hive", and xmlTextWriterEndDocument those that  *)
(* are still open.                                                         *)
EndDocument ==
  /\ Working /\ state = "done" /\ ret = 0
  /\ exit' = "success"
  /\ doc' = Append(doc, [Element("end", Head(els), <<>>) EXCEPT !.in = Len(els)])
  /\ els' = <<>>
  /\ UNCHANGED <<visitVars, app>>

Callbacks ==
  \/ node_start \/ node_end \/ value_string \/ value_string_invalid_utf16
  \/ value_other \/ value_multiple_strings \/ value_dword \/ value_qword
  \/ value_binary \/ value_none

Next ==
  \/ /\ VisitStep \/ VisitNoMemory
     /\ exit = "running"
     /\ UNCHANGED <<app, exit, els, doc>>
  \/ \E v \in Visitors, skip \in BOOLEAN : OtherVisits(v, skip)
  \/ \E r \in {0, -1} : OtherReturns(r)
  \/ \E skip \in BOOLEAN : StartDocument(skip)
  \/ CannotStart \/ Callbacks \/ WriteFails
  \/ VisitFails \/ CannotEnd \/ EndDocument

(* A visit is one call: the thread that makes it goes on until it returns. *)
Spec == Init /\ [][Next]_vars /\ WF_vars(Next)
-----------------------------------------------------------------------------
(* Properties *)

NodeElements == {i \in DOMAIN doc : doc[i].el = "node"}

(* A document that hivexml has written without -k mirrors the hive: there  *)
(* is one element for each node that can be reached, inside the element of *)
(* a node that lists it, and what main ends last is the hive element.  The *)
(* aborts in its callbacks ("internal error - should not happen") are not  *)
(* reached, whatever the types of the values.                              *)
XmlMirrorsHive ==
  /\ exit # "aborted"
  /\ exit = "success" /\ ~skip_bad /\ faults = 0 =>
    /\ {doc[i].node : i \in NodeElements} = Reached
    /\ Cardinality(NodeElements) = Cardinality(Reached)
    /\ \A i \in NodeElements :
         IF doc[i].in = 0 THEN doc[i].node = hive.root
         ELSE doc[i].node \in ToSet(hive.nodes[doc[i].in].children)
    /\ Last(doc).node = 0

(* "Keep going even if we find errors" (hivexml -k): a node that is given  *)
(* up half way is not ended, and those after it stand inside its element.  *)
(* But a value or a time never stands in the element of another node, and  *)
(* the elements of the nodes that are being visited are open, the inner    *)
(* ones inside the outer ones.                                             *)
ElementsKeepPlace ==
  /\ \A i \in DOMAIN doc : doc[i].el \in {"value", "mtime"} => doc[i].in = doc[i].node
  /\ app = "hivexml" /\ state = "visiting" /\ call = NoCall =>
       LET begun == SelectSeq(frames, LAMBDA f : f.at \notin {"enter", "leave"})
           place(n) == SelectInSeq(els, LAMBDA e : e = n)
       IN  \A i \in DOMAIN begun :
             /\ place(begun[i].node) > 0
             /\ i > 1 => place(begun[i - 1].node) < place(begun[i].node)

Over == IF app = "hivexml" THEN exit # "running" ELSE state = "done"

(* "This function is robust if the registry contains cycles or pointers    *)
(* which are invalid": every visit comes to an end.                        *)
VisitEnds == <>Over
=============================================================================
