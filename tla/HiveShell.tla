----------------------------- MODULE HiveShell -----------------------------
(***************************************************************************)
(* hivexsh (sh/hivexsh.c): the loop over the lines of a terminal or a      *)
(* script, the commands, and the reading of key and value lines by setval. *)
(* The hive that is loaded is the registry of module Registry; node        *)
(* handles are paths.  A path that cd is given is a record: abs if it      *)
(* starts with '\', doubled if with two, and the elements between the '\'. *)
(***************************************************************************)
EXTENDS Integers, Sequences, FiniteSets, SequencesExt, Strtol

CONSTANTS
  Files,       \* the files that load and commit are given
  Disks,       \* what may be on the disk at the start
  Names,       \* the names given to add
  Fold(_),     \* place of a name or key in strcasecmp's order
  Paths,       \* the paths given to cd
  Counts,      \* the numbers given to setval, as texts
  KeyLines,    \* the key lines given to setval
  ValueLines,  \* the value lines: a form and what follows it
  MaxSubkeys,  \* HIVEX_MAX_SUBKEYS
  MaxValues,   \* HIVEX_MAX_VALUES
  LongBits,    \* the width of long
  DwordBits,   \* the width of uint32_t, half of that of uint64_t
  MaxKeys,     \* bound: so many keys in a hive
  MaxCommands, \* bound: so many commands in a session
  SetvalCost   \* bound: a setval counts as so many commands

VARIABLES
  is_tty,    \* the lines come from a terminal
  writable,  \* open_flags has HIVEX_OPEN_WRITE
  disk,      \* the files: whether hivex_open accepts one, whether it is sound
  loaded,    \* the file of h and loaded; "" if h is NULL
  keys,      \* the hive in memory
  broken,    \* it is damaged
  cwd,       \* the current node: a path, in a set; {} is 0
  prompt,    \* prompt_string: the file and the path in it
  mode,      \* "loop", "key" or "value" (setval reads lines), "exited" (0),
             \* "failure" (exit with an error), "aborted" (an assert failed),
             \* "overflow" (the stack is used up)
  nrvals,    \* setval: how many values to read
  key,       \* setval: the key read last
  values,    \* setval: the values parsed so far
  typed,     \* history: the lines that setval has read
  r,         \* what the last command returned
  failed,    \* history: a command has failed
  stale,     \* history: the last load has failed
  commands   \* how many commands have been given

hiveVars == <<loaded, keys, broken, cwd, prompt, stale>>
setvalVars == <<nrvals, key, values>>
startVars == <<is_tty, writable>>
vars == <<startVars, disk, hiveVars, mode, setvalVars, typed, r, failed, commands>>

R == INSTANCE Registry WITH Values <- {}, ValueLists <- {}

NoPrompt == [file |-> "", path |-> <<>>]
NoKeys == [p \in {} |-> <<>>]

Text == STRING

(* Paths are sequences of names.  Of a file that is damaged nothing else   *)
(* is known; the keys in one that is sound make up a registry.             *)
ASSUME ShellAssumption ==
  /\ "" \notin Files /\ Names \subseteq Text /\ MaxValues \in Nat
  /\ \A p \in Paths : p.elems \in Seq(Text)
  /\ \A line \in ValueLines : line.text \in Seq(Text)
  /\ \A d \in Disks :
       /\ d = [f \in Files |-> [valid |-> d[f].valid, sound |-> d[f].sound,
                                keys |-> d[f].keys]]
       /\ \A f \in Files :
            /\ \A q \in DOMAIN d[f].keys : q \in Seq(Text)
            /\ d[f].sound => R!IsRegistry(d[f].keys)

Init ==
  /\ is_tty \in BOOLEAN /\ writable \in BOOLEAN
  /\ disk \in Disks
  /\ loaded = "" /\ keys = NoKeys /\ broken = FALSE /\ cwd = {}
  /\ prompt = NoPrompt /\ stale = FALSE
  /\ mode = "loop" /\ nrvals = 0 /\ key = "" /\ values = <<>> /\ typed = <<>>
  /\ r = 0 /\ failed = FALSE /\ commands = 0

(* The hive file or the script named on the command line cannot be opened. *)
CannotStart ==
  /\ mode = "loop" /\ commands = 0
  /\ mode' = "failure" /\ r' = -1 /\ failed' = TRUE
  /\ UNCHANGED <<startVars, disk, hiveVars, setvalVars, typed, commands>>

-----------------------------------------------------------------------------
(* A line that is a command, which counts as so many of the bound. *)
Counted(cost) ==
  /\ mode = "loop" /\ commands + cost <= MaxCommands              \* bound
  /\ commands' = commands + cost
  /\ typed' = <<>>

Command == Counted(1)

(* Mutant: a script goes on after an error. *)
Return_GoesOn(ok) ==
  /\ mode' = "loop"
  /\ r' = IF ok THEN 0 ELSE -1
  /\ failed' = (failed \/ ~ok)
  /\ UNCHANGED startVars

(* The command returns 0 or -1; an error ends a script. *)
Return(ok) ==
  /\ mode' = IF ok \/ is_tty THEN "loop" ELSE "failure"
  /\ r' = IF ok THEN 0 ELSE -1
  /\ failed' = (failed \/ ~ok)
  /\ UNCHANGED startVars

(* What print_node_path has in place of a name that hivex_node_name does   *)
(* not give, for want of memory or because the record is damaged.          *)
Missing == ""

Named(p) == {s \in [DOMAIN p -> ToSet(p) \cup {Missing}] :
               \A i \in DOMAIN p : s[i] \in {p[i], Missing}}

(* Where hivex_node_parent leads from p.  In a damaged hive it may fail,   *)
(* and print_node_path then prints nothing of this node and those above,   *)
(* or give any node, and the walk goes on from there.                      *)
Walks(p) ==
  IF ~broken \/ p = <<>> THEN {p}
  ELSE {<<>>} \cup {Append(up, Last(p)) :
                     up \in UNION {Suffixes(q) : q \in DOMAIN keys \cup {Front(p)}}}

(* Exit without a change of the prompt. *)
NoPromptMade == UNCHANGED <<prompt, startVars>>

(* open_memstream fails. *)
NoMemstream == mode' = "failure" /\ r' = -1 /\ failed' = TRUE /\ NoPromptMade

(* set_prompt_string with a hive, which asserts that there is a current    *)
(* node, and calls print_node_path: up to the root, which a cycle of       *)
(* parents never reaches, and back.                                        *)
set_prompt_string(file, node) ==
  \/ NoMemstream
  \/ node = {} /\ mode' = "aborted" /\ UNCHANGED <<r, failed>> /\ NoPromptMade
  \/ /\ \E p \in node : broken /\ p # <<>>
     /\ mode' = "overflow" /\ UNCHANGED <<r, failed>> /\ NoPromptMade
  \/ /\ \E p \in node : \E walk \in Walks(p) : \E path \in Named(walk) :
          prompt' = [file |-> file, path |-> path]
     /\ Return(TRUE)

(* The command fails and changes nothing. *)
Fail == Return(FALSE) /\ UNCHANGED <<disk, hiveVars, setvalVars>>

(* help, and ls, lsval and cd when they print something *)
Shown ==
  /\ Command
  /\ Return(TRUE)
  /\ UNCHANGED <<disk, hiveVars, setvalVars>>

(* An unknown command, arguments for ls, close or del, no name for load,   *)
(* anything else than load, help and quit when no hive is loaded, ls or    *)
(* lsval for what is not there or cannot be read                           *)
Refused == Command /\ Fail

cmd_load(f) ==
  /\ Command
  /\ \/ /\ disk[f].valid
        /\ loaded' = f /\ keys' = disk[f].keys /\ broken' = ~disk[f].sound
        /\ cwd' = {<<>>}
        /\ set_prompt_string(f, {<<>>})
        /\ stale' = FALSE
     \/ /\ loaded' = "" /\ keys' = NoKeys /\ broken' = FALSE /\ cwd' = {}
        /\ Return(FALSE)
        /\ stale' = TRUE
        /\ UNCHANGED prompt
  /\ UNCHANGED <<disk, setvalVars>>

cmd_close ==
  /\ Command /\ loaded # ""
  /\ loaded' = "" /\ keys' = NoKeys /\ broken' = FALSE /\ cwd' = {}
  /\ stale' = FALSE
  /\ \/ Return(TRUE) /\ prompt' = NoPrompt
     \/ NoMemstream
  /\ UNCHANGED <<disk, setvalVars>>

(* hivex_commit, to the file it was loaded from or another one.  A failure *)
(* may leave half a file.                                                  *)
cmd_commit(f) ==
  /\ Command /\ loaded # "" /\ writable
  /\ \/ /\ disk' = [disk EXCEPT ![f] = [valid |-> TRUE, sound |-> ~broken, keys |-> keys]]
        /\ Return(TRUE)
     \/ /\ disk' = [disk EXCEPT ![f].valid = FALSE]
        /\ Return(FALSE)
  /\ UNCHANGED <<hiveVars, setvalVars>>

(* hivex_node_parent, which fails for the root and returns 0.  In a        *)
(* damaged hive it may fail for others, or give any node.                  *)
Parents(node) ==
  {{Front(p)} : p \in {q \in node : q # <<>>}}
    \cup (IF broken \/ node \subseteq {<<>>} THEN {{}} ELSE {})
    \cup (IF broken THEN {{q} : q \in DOMAIN keys} ELSE {})

(* hivex_node_get_child: a key of that name, or an error.  In a damaged    *)
(* hive it may fail although the key is there, and there may be several.   *)
ChildOf(node, elem) ==
  LET found == UNION {R!FindKey(keys, p, elem) : p \in node}
  IN  {[node |-> {q}, error |-> FALSE] : q \in found}
        \cup (IF found = {} \/ broken THEN {[node |-> {}, error |-> TRUE]} ELSE {})

(* Mutant: the parent of the root is asked for. *)
CdElem_AboveRoot(to, elem) ==
  IF to.error \/ elem \in {"", "."} THEN {to}
  ELSE IF elem = ".." THEN {[to EXCEPT !.node = n] : n \in Parents(to.node)}
  ELSE ChildOf(to.node, elem)

(* Mutant: ".." leads back to the root. *)
CdElem_ToRoot(to, elem) ==
  IF to.error \/ elem \in {"", "."} THEN {to}
  ELSE IF elem = ".." THEN {[to EXCEPT !.node = {<<>>}]}
  ELSE ChildOf(to.node, elem)

(* What one element of a path leads to. *)
CdElem(to, elem) ==
  IF to.error \/ elem \in {"", "."} THEN {to}
  ELSE IF elem = ".."
    THEN IF to.node = {<<>>} THEN {to}
         ELSE {[to EXCEPT !.node = n] : n \in Parents(to.node)}
  ELSE ChildOf(to.node, elem)

(* Where the loop over the elements of a path can be after i of them. *)
CdPath(path) ==
  LET at[i \in 0 .. Len(path.elems)] ==
        IF i = 0 THEN {[node |-> IF path.abs THEN {<<>>} ELSE cwd, error |-> FALSE]}
        ELSE UNION {CdElem(to, path.elems[i]) : to \in at[i - 1]}
  IN  at[Len(path.elems)]

cmd_cd(path) ==
  /\ Command /\ loaded # ""
  /\ \/ /\ path.doubled
        /\ Fail
     \/ /\ ~path.doubled
        /\ \E to \in CdPath(path) :
             \/ /\ to.error
                /\ Fail
             \/ /\ ~to.error /\ to.node = cwd
                /\ Return(TRUE)
                /\ UNCHANGED <<disk, hiveVars, setvalVars>>
             \/ /\ ~to.error /\ to.node # cwd
                /\ cwd' = to.node
                /\ set_prompt_string(loaded, to.node)
                /\ UNCHANGED <<disk, loaded, keys, broken, stale, setvalVars>>

Here == CHOOSE p \in cwd : TRUE

(* hivex_node_add_child *)
cmd_add(name) ==
  /\ Command /\ loaded # ""
  /\ \/ /\ writable /\ Here \in DOMAIN keys /\ R!CanAdd(keys, Here, name)
        /\ Cardinality(DOMAIN keys) < MaxKeys                    \* bound
        /\ keys' = R!Added(keys, Here, name)
        /\ Return(TRUE)
        /\ UNCHANGED <<disk, loaded, broken, cwd, prompt, stale, setvalVars>>
     \/ Fail    \* refused, or out of memory

(* Mutant: the prompt is forgotten. *)
cmd_del_NoPrompt ==
  /\ Command /\ loaded # "" /\ cwd # {<<>>}
  /\ \E parent \in Parents(cwd) :
       /\ writable
       /\ keys' = R!Deleted(keys, Here)
       /\ cwd' = parent
       /\ Return(TRUE)
       /\ UNCHANGED <<disk, loaded, broken, prompt, stale, setvalVars>>

(* hivex_node_delete_child, which may fail at once or half way. *)
cmd_del ==
  /\ Command /\ loaded # ""
  /\ \/ /\ cwd # {<<>>} /\ writable
        /\ \E parent \in Parents(cwd) :
             /\ keys' = R!Deleted(keys, Here)
             /\ cwd' = parent
             /\ set_prompt_string(loaded, parent)
        /\ UNCHANGED <<disk, loaded, broken, stale, setvalVars>>
     \/ /\ cwd # {<<>>} /\ writable
        /\ broken' = TRUE
        /\ Return(FALSE)
        /\ UNCHANGED <<disk, loaded, keys, cwd, prompt, stale, setvalVars>>
     \/ Fail

(* exit, q, quit, or the end of the input *)
Quit ==
  /\ mode = "loop"
  /\ mode' = "exited"
  /\ loaded' = ""
  /\ UNCHANGED <<startVars, disk, keys, broken, cwd, prompt, stale, setvalVars,
                 typed, r, failed, commands>>

-----------------------------------------------------------------------------
(* cmd_setval *)

(* The locals are gone. *)
Freed == nrvals' = 0 /\ key' = "" /\ values' = <<>>

(* hivex_node_set_values, which may fail at once or half way. *)
StoreValues(vs) ==
  \/ /\ writable /\ Here \in DOMAIN keys
     /\ \/ /\ keys[Here].ok
           /\ keys' = R!WithValues(keys, Here, vs)
           /\ Return(TRUE)
        \/ /\ keys' \in {[keys EXCEPT ![Here] = left] :
                           left \in {R!Readable(<<>>), R!Unreadable}}
           /\ Return(FALSE)
     /\ UNCHANGED <<disk, loaded, broken, cwd, prompt, stale>>
  \/ Return(FALSE) /\ UNCHANGED <<disk, hiveVars>>

cmd_setval(text) ==
  LET n == xstrtol(text, {}, LongBits)
      valid == n.err = OK /\ n.val \in 0 .. MaxValues
  IN
  /\ Counted(SetvalCost) /\ loaded # ""
  /\ \/ ~valid /\ Fail
     \/ valid /\ n.val = 0 /\ StoreValues(<<>>) /\ UNCHANGED setvalVars
     \/ /\ valid /\ n.val > 0
        /\ mode' = "key" /\ nrvals' = n.val
        /\ UNCHANGED <<startVars, disk, hiveVars, key, values, r, failed>>

(* The end of the input where a key or a value is expected: quit is set. *)
EndOfInput ==
  /\ mode \in {"key", "value"}
  /\ mode' = IF is_tty THEN "exited" ELSE "failure"
  /\ r' = -1 /\ failed' = TRUE
  /\ loaded' = IF is_tty THEN "" ELSE loaded
  /\ Freed
  /\ UNCHANGED <<startVars, disk, keys, broken, cwd, prompt, stale, typed, commands>>

(* There is no memory for the values, a key or a value. *)
NoMemory ==
  /\ mode \in {"key", "value"}
  /\ mode' = "failure" /\ r' = -1 /\ failed' = TRUE
  /\ Freed
  /\ UNCHANGED <<startVars, disk, hiveVars, typed, commands>>

ReadKey(line) ==
  /\ mode = "key"
  /\ mode' = "value"
  /\ key' = IF line = "@" THEN "" ELSE line
  /\ typed' = Append(typed, [key |-> line, value |-> <<>>])
  /\ UNCHANGED <<startVars, disk, hiveVars, nrvals, values, r, failed, commands>>

(* A string of 7 bit characters as UTF-16LE with its end, or nothing. *)
Utf16(text) ==
  IF \E i \in DOMAIN text : text[i] = "8bit" THEN {}
  ELSE {FlattenSeq([i \in DOMAIN text |-> <<text[i], "nul">>]) \o <<"nul", "nul">>}

(* Mutant: the range is not checked. *)
Dword_NoRange(text) ==
  LET n == xstrtol(text, {}, LongBits)
  IN  IF n.err # OK THEN {} ELSE {n.val % (2^DwordBits)}

(* A 32 bit number or nothing; the range is checked if long is wider. *)
Dword(text) ==
  LET n == xstrtol(text, {}, LongBits)
  IN  IF n.err # OK THEN {}
      ELSE IF LongBits > DwordBits /\ n.val \notin 0 .. (2^DwordBits - 1) THEN {}
      ELSE {n.val % (2^DwordBits)}

(* Four bytes of the number are copied, and the other four of the value    *)
(* stay as malloc has left them.                                           *)
Qword(text) ==
  LET n == xstrtol(text, {}, 2 * DwordBits)
  IN  IF n.err # OK THEN {}
      ELSE {<<n.val % (2^DwordBits), junk>> : junk \in 0 .. (2^DwordBits - 1)}

(* Bytes of two hex digits each; other characters are passed over. *)
Hex(text) ==
  LET ds == SelectSeq(text, LAMBDA c : IsDigit(c, 16))
  IN  IF Len(ds) % 2 = 1 THEN {}
      ELSE {[i \in 1 .. (Len(ds) \div 2) |-> DigitOf[ds[2 * i - 1]] * 16 + DigitOf[ds[2 * i]]]}

(* The values a line can stand for: more than one only where part of it is *)
(* undefined, none if there is an error.                                   *)
Parsed(line) ==
  CASE line.form = "none" -> {[t |-> "none", data |-> <<>>]}
    [] line.form \in {"string", "expandstring"} ->
         {[t |-> line.form, data |-> d] : d \in Utf16(line.text)}
    [] line.form = "dword" -> {[t |-> "dword", data |-> <<d>>] : d \in Dword(line.text)}
    [] line.form = "qword" -> {[t |-> "qword", data |-> d] : d \in Qword(line.text)}
    [] line.form = "hex" ->
         UNION {{[t |-> "hex", data |-> <<t, d>>] : d \in Hex(line.text)} :
                  t \in Dword(line.type)}
    [] OTHER -> {}

(* Mutant: what has been read up to a wrong line is stored. *)
ReadValue_Partly(line) ==
  /\ mode = "value" /\ Parsed(line) = {}
  /\ typed' = [typed EXCEPT ![Len(typed)].value = <<line>>]
  /\ StoreValues(values)
  /\ Freed
  /\ UNCHANGED commands

ReadValue(line) ==
  /\ mode = "value"
  /\ typed' = [typed EXCEPT ![Len(typed)].value = <<line>>]
  /\ UNCHANGED commands
  /\ \/ /\ Parsed(line) = {}
        /\ Return(FALSE)
        /\ Freed
        /\ UNCHANGED <<disk, hiveVars>>
     \/ \E v \in Parsed(line) :
          LET vs == Append(values, [key |-> key, t |-> v.t, data |-> v.data])
          IN  \/ /\ Len(vs) < nrvals
                 /\ mode' = "key" /\ values' = vs
                 /\ UNCHANGED <<startVars, disk, hiveVars, nrvals, key, r, failed>>
              \/ /\ Len(vs) = nrvals
                 /\ StoreValues(vs)
                 /\ Freed

-----------------------------------------------------------------------------
Next ==
  \/ CannotStart \/ Shown \/ Refused \/ Quit \/ EndOfInput \/ NoMemory
  \/ \E f \in Files : cmd_load(f) \/ cmd_commit(f)
  \/ cmd_close \/ cmd_del
  \/ \E p \in Paths : cmd_cd(p)
  \/ \E n \in Names : cmd_add(n)
  \/ \E t \in Counts : cmd_setval(t)
  \/ \E k \in KeyLines : ReadKey(k)
  \/ \E v \in ValueLines : ReadValue(v)

Spec == Init /\ [][Next]_vars
-----------------------------------------------------------------------------
(* Properties *)

(* "This is called whenever it could change, eg. after loading a file or   *)
(* changing directory" (set_prompt_string): whenever a line is read the    *)
(* prompt shows the hive that is loaded and "the \full\path" of the        *)
(* current node, from the root down, but for names that could not be read. *)
(* In a damaged hive it shows at least the name of the current node itself, or  *)
(* no path at all.  The exception is a load that has failed: no hive is    *)
(* loaded then, and the prompt still shows the one before.                 *)
PathShown(p) ==
  IF broken
    THEN prompt.path = <<>> \/ (p # <<>> /\ Last(prompt.path) \in {Last(p), Missing})
    ELSE Len(prompt.path) = Len(p) /\ \A i \in DOMAIN p : prompt.path[i] \in {p[i], Missing}

PromptTrue ==
  mode \in {"loop", "key", "value"} =>
    IF loaded = "" THEN prompt = NoPrompt \/ stale
    ELSE prompt.file = loaded /\ \E p \in cwd : PathShown(p)

(* assert (cwd != 0) in set_prompt_string: "cd" and "del" never leave the  *)
(* shell without a current node, unless the hive was damaged when it was   *)
(* loaded or by a "del" that failed half way.  Until then the current node *)
(* is a key of the hive, through every load, del, cd and setval.           *)
AssertsHold ==
  /\ mode = "aborted" => broken
  /\ loaded # "" /\ mode \in {"loop", "key", "value"} => cwd # {}
  /\ loaded # "" /\ ~broken => cwd \subseteq DOMAIN keys /\ R!IsRegistry(keys)

(* A script that had a command fail writes no file any more: what a later  *)
(* commit would save could lack the changes that failed.                   *)
ScriptStops == [][~is_tty /\ failed => UNCHANGED disk]_vars

(* The key that a path names: "" and "." stand for nothing, ".." takes     *)
(* away the element before it, and above the root there is only the root.  *)
Lexical(start, path) ==
  LET step(p, e) ==
        IF e \in {"", "."} \/ (e = ".." /\ p = <<>>) THEN p
        ELSE IF e = ".." THEN Front(p) ELSE Append(p, e)
      at[i \in 0 .. Len(path.elems)] ==
        IF i = 0 THEN (IF path.abs THEN <<>> ELSE start)
        ELSE step(at[i - 1], path.elems[i])
  IN  at[Len(path.elems)]

SamePath(p, q) ==
  Len(p) = Len(q) /\ \A i \in DOMAIN p : Fold(p[i]) = Fold(q[i])

(* In a sound hive "cd" ends at the key that the path names, whatever the  *)
(* case it is written in, or does not move at all.                         *)
Moves == ~broken /\ cwd' # cwd /\ keys' = keys /\ loaded' = loaded

MovesTo(path) == \E p \in cwd' : SamePath(p, Lexical(Here, path))

CdMeansPath ==
  [][Moves => \A path \in Paths : cmd_cd(path) => MovesTo(path)]_vars

(* The bytes bs are those of the text: its hex digits in order, the first  *)
(* of each two being the upper half of a byte.                             *)
HexSays(text, bs) ==
  LET digit(i) == IsDigit(text[i], 16)
      nth(i) == Cardinality({j \in 1 .. i : digit(j)})
      half(k) == IF k % 2 = 1 THEN bs[(k + 1) \div 2] \div 16 ELSE bs[k \div 2] % 16
  IN  /\ nth(Len(text)) = 2 * Len(bs)
      /\ \A i \in DOMAIN text : digit(i) => half(nth(i)) = DigitOf[text[i]]

(* The data are the characters of the text and a nul, 16 bits each.        *)
StringSays(text, data) ==
  /\ Len(data) = 2 * (Len(text) + 1)
  /\ \A i \in DOMAIN text : text[i] # "8bit" /\ data[2 * i - 1] = text[i]
  /\ data[Len(data) - 1] = "nul"
  /\ \A i \in 1 .. (Len(text) + 1) : data[2 * i] = "nul"

(* What a value line says, read without regard to how it is parsed.  A     *)
(* line that is wrong says nothing.                                        *)
Says(line, v) ==
  LET long == IF LongBits > DwordBits THEN 0 .. (2^DwordBits - 1)
                                      ELSE LongMin(LongBits) .. LongMax(LongBits)
      longlong == LongMin(2 * DwordBits) .. LongMax(2 * DwordBits)
      low(t, range) == {n % (2^DwordBits) : n \in TextNumbers(t, {}) \cap range}
  IN  /\ v.t = line.form
      /\ CASE line.form = "none" -> v.data = <<>>
           [] line.form = "dword" -> low(line.text, long) = {v.data[1]}
           [] line.form = "qword" -> low(line.text, longlong) = {v.data[1]}
           [] line.form = "hex" -> /\ low(line.type, long) = {v.data[1]}
                                   /\ HexSays(line.text, v.data[2])
           [] line.form \in {"string", "expandstring"} ->
                StringSays(line.text, v.data)
           [] OTHER -> FALSE

KeyOf(typedLine) == IF typedLine.key = "@" THEN "" ELSE typedLine.key

(* The values of the current node change while setval reads its lines.     *)
SetvalChanges == mode \in {"key", "value"} /\ keys' # keys

(* The values that setval stores are those that were typed, in their order *)
(* and as the lines say: each byte of a hex line, each character of a      *)
(* string and its end, numbers whatever their base and sign, and nothing   *)
(* for a line that says nothing.  The exception is the upper half of a     *)
(* qword, which is not copied.                                             *)
StoresTyped ==
  LET vs == keys'[Here].list
  IN  /\ Len(typed') = nrvals /\ Len(vs) = nrvals
      /\ \A i \in 1 .. nrvals :
           vs[i].key = KeyOf(typed'[i]) /\ Says(typed'[i].value[1], vs[i])

SetvalStores == [][SetvalChanges /\ r' = 0 => StoresTyped]_vars

(* setval is all or nothing: a line that cannot be parsed, the end of the  *)
(* input or an exit leaves all values as they were.  The values of the     *)
(* current node, and of no other, change only when as many keys and values *)
(* have been read as were announced and each could be parsed; and then all *)
(* are stored, each under its own key, unless hivex_node_set_values itself *)
(* fails half way.                                                         *)
ParsedAs(line, v) == [t |-> v.t, data |-> v.data] \in Parsed(line)

StoresAll ==
  /\ Len(typed') = nrvals
  /\ \A i \in 1 .. nrvals : Parsed(typed'[i].value[1]) # {}
  /\ DOMAIN keys' = DOMAIN keys
  /\ \A q \in DOMAIN keys \ {Here} : keys'[q] = keys[q]
  /\ r' = 0 =>
       /\ Len(keys'[Here].list) = nrvals
       /\ \A i \in 1 .. nrvals :
            /\ keys'[Here].list[i].key = KeyOf(typed'[i])
            /\ ParsedAs(typed'[i].value[1], keys'[Here].list[i])

SetvalWhole == [][SetvalChanges => StoresAll]_vars
=============================================================================
