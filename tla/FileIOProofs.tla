---------------------------- MODULE FileIOProofs ----------------------------
(***************************************************************************)
(* Proofs about FileIO, for any set of threads and any bounds: the five    *)
(* safety properties that its run checks, from one inductive invariant.    *)
(* IndInv joins what the fields of a hive_h have to do with each other     *)
(* (TypeInv), who holds which descriptor (FdsInv), what an undisturbed     *)
(* thread knows of the file (ImageInv) and FailureHasErrno, which needs    *)
(* ImageInv to rule out full_read's end of file.                           *)
(***************************************************************************)
EXTENDS FileIO, FiniteSetTheorems, SequenceTheorems, WellFoundedInduction,
        TLAPS

-----------------------------------------------------------------------------
(* The inductive invariant *)

(* Where a call is by what it holds: a descriptor of hivex_open, one of    *)
(* hivex_commit, or none.                                                  *)
Opening == {"fstat", "mmap", "malloc", "reading", "read"}
Writing == {"writing", "written"}
Where == {"closed", "name", "check", "open", "reclose"} \cup Opening \cup Writing
Outcomes == {"none", "NULL", "handle", "closed", "edited", "refused", "0", "-1"}

HandleType ==
    [pc : Where, last : Outcomes, fd : Int, writable : BOOLEAN,
     addr : Seq(Int), size : Nat, mem : {"none", "map", "malloc"},
     winmap : BOOLEAN, total : Nat, req : Nat, wfd : Int]

\* What the fields of a hive_h have to do with each other.
FieldsOk(r) ==
    /\ r.pc = "mmap" => ~r.writable
    /\ r.pc \in {"malloc", "reading", "read", "reclose"} \cup Writing => r.writable
    /\ r.mem = "map" => r.pc \in {"check", "open"} /\ ~r.writable /\ r.size # 0
    /\ r.pc \in {"check", "open"} => (r.mem = "map" <=> ~r.writable)
    /\ r.winmap => r.mem = "map"
    /\ r.pc \in Opening => r.fd >= 0
    /\ r.pc \in {"check", "open"} /\ ~r.writable => r.fd >= 0
    /\ r.pc \in {"check", "open"} \cup Writing /\ r.writable => r.fd < 0
    /\ r.pc \in Writing => r.wfd >= 0
    /\ r.pc \in {"open"} \cup Writing => r.size > 0
    /\ r.pc \in {"reading", "read", "reclose", "check", "open"} \cup Writing /\ r.writable
          => Len(r.addr) = r.size
    /\ r.pc \in {"reading", "writing"} => r.req \in 1..(r.size - r.total)
    /\ r.pc \notin {"reading", "writing"} => r.total = 0
    /\ r.pc \in {"name", "fstat", "malloc", "mmap"} => r.mem = "none"
    /\ r.last \in {"0", "-1", "handle"} => r.pc = "open"
    /\ r.last \in {"0", "-1"} => r.writable

HandleOk(r) == r \in HandleType /\ FieldsOk(r)

TypeInv ==
    /\ file \in Seq(Int)
    /\ DOMAIN h = Handles /\ \A t \in Handles : HandleOk(h[t])
    /\ alone \subseteq Handles
    /\ DOMAIN errno = Handles
    /\ DOMAIN fds \subseteq Nat
    /\ fds \in [DOMAIN fds -> Handles \cup {"stdin"}]

\* The descriptors that a thread has opened and not closed.
Holds(r) ==
    IF r.pc \in Opening \/ (r.pc \in {"check", "open"} /\ ~r.writable) THEN {r.fd}
    ELSE IF r.pc \in Writing THEN {r.wfd} ELSE {}

\* Some thread's descriptor was closed by one of hivex_open's two slips.
Robbed == \E s \in stolen : s[1] \in Handles /\ s[2] # "exit"

\* Threads own no descriptor but those they hold, and until a thread is
\* robbed they own all of these.  Nobody holds standard input.
FdsInv ==
    /\ \A n \in DOMAIN fds : fds[n] \in Handles => n \in Holds(h[fds[n]])
    /\ \A n \in DOMAIN fds : fds[n] = "stdin" => n = 0
    /\ 0 \in DOMAIN fds /\ fds[0] = "stdin" =>
          \A t \in Handles : /\ 0 \notin Holds(h[t])
                             /\ h[t].pc = "reclose" => h[t].fd # 0
    /\ Robbed \/ \A t \in Handles : \A n \in Holds(h[t]) :
                                        n \in DOMAIN fds /\ fds[n] = t
    /\ ClosesOnlyItsOwn

\* f is the beginning of the image in memory.
Begins(f, a, n) == \A i \in 1..n : a[i] = f[i]

\* What a thread that no other has disturbed knows of the file f.
ImageOk(r, f) ==
    /\ r.pc \in {"mmap", "malloc", "reading", "read", "reclose", "check"}
          => r.size = Len(f)
    /\ r.pc = "reading" => Begins(f, r.addr, r.total)
    /\ r.pc \in {"read", "reclose", "check"} /\ r.writable => r.addr = f
    /\ r.pc = "open" /\ ~r.writable => r.size = Len(f)
    /\ r.pc = "open" /\ r.writable /\ r.last = "handle" => r.addr = f
    /\ r.pc = "writing" => Len(f) = r.total /\ Begins(f, r.addr, r.total)
    /\ r.pc = "written" => r.addr = f
    /\ r.last = "0" => r.addr = f
    /\ r.last = "-1" => Len(f) <= Len(r.addr) /\ Begins(f, r.addr, Len(f))

ImageInv == \A t \in alone : ImageOk(h[t], file)

IndInv == TypeInv /\ FdsInv /\ ImageInv /\ FailureHasErrno

-----------------------------------------------------------------------------
(* Each step leaves the hive_h of its thread in order *)

LEMMA Places ==
    /\ \A p \in {"closed", "name", "check", "open", "reclose", "fstat", "mmap",
               "malloc", "reading", "read", "writing", "written"} : p \in Where
    /\ \A l \in {"none", "NULL", "handle", "closed", "edited", "refused", "0",
               "-1"} : l \in Outcomes
BY DEF Where, Opening, Writing, Outcomes

LEMMA ClosedType == Closed \in HandleType
<1>1. "closed" \in Where /\ "none" \in Outcomes
  BY Places
<1>2. NoFd \in Int
  BY DEF NoFd
<1>3. <<>> \in Seq(Int)
  OBVIOUS
<1>4. /\ FALSE \in BOOLEAN /\ 0 \in Nat /\ 0 \in Int
      /\ "none" \in {"none", "map", "malloc"}
  OBVIOUS
<1> QED
  BY <1>1, <1>2, <1>3, <1>4 DEF HandleType, Closed

\* The calls that end with a hive_h that is gone.
LEMMA ClosedOk ==
    ASSUME NEW l \in {"none", "NULL", "closed"}, NEW m \in {"none", "malloc"}
    PROVE  /\ HandleOk([Closed EXCEPT !.last = l, !.mem = m, !.winmap = FALSE])
           /\ HandleOk([Closed EXCEPT !.last = l])
<1>1. [Closed EXCEPT !.last = l, !.mem = m, !.winmap = FALSE] \in HandleType
  BY ClosedType, Places DEF HandleType
<1>2. FieldsOk([Closed EXCEPT !.last = l, !.mem = m, !.winmap = FALSE])
  BY DEF FieldsOk, Closed, Opening, Writing
<1>3. [Closed EXCEPT !.last = l] \in HandleType
  BY ClosedType, Places DEF HandleType
<1>4. FieldsOk([Closed EXCEPT !.last = l])
  BY DEF FieldsOk, Closed, Opening, Writing
<1> QED
  BY <1>1, <1>2, <1>3, <1>4 DEF HandleOk

LEMMA OpenOk ==
    ASSUME NEW w \in BOOLEAN
    PROVE  HandleOk([Closed EXCEPT !.pc = "name", !.writable = w])
<1>1. [Closed EXCEPT !.pc = "name", !.writable = w] \in HandleType
  BY ClosedType, Places DEF HandleType
<1>2. FieldsOk([Closed EXCEPT !.pc = "name", !.writable = w])
  BY DEF FieldsOk, Closed, Opening, Writing
<1> QED
  BY <1>1, <1>2 DEF HandleOk

LEMMA OpenFileOk ==
    ASSUME NEW r, HandleOk(r), r.pc = "name", NEW n \in Nat
    PROVE  HandleOk([r EXCEPT !.pc = "fstat", !.fd = n])
<1>1. [r EXCEPT !.pc = "fstat", !.fd = n] \in HandleType
  <2>1. "fstat" \in Where /\ n \in Int
    BY Places
  <2> QED
    BY <2>1 DEF HandleOk, HandleType
<1>2. FieldsOk([r EXCEPT !.pc = "fstat", !.fd = n])
  BY DEF HandleOk, HandleType, FieldsOk, Opening, Writing
<1> QED
  BY <1>1, <1>2 DEF HandleOk

LEMMA FstatOk ==
    ASSUME NEW r, HandleOk(r), r.pc = "fstat", NEW n \in Nat
    PROVE  HandleOk([r EXCEPT !.pc = IF r.writable THEN "malloc" ELSE "mmap",
                              !.size = n])
<1> DEFINE p == IF r.writable THEN "malloc" ELSE "mmap"
<1>1. [r EXCEPT !.pc = p, !.size = n] \in HandleType
  <2>1. p \in Where
    BY Places
  <2> HIDE DEF p
  <2> QED
    BY <2>1 DEF HandleOk, HandleType
<1>2. FieldsOk([r EXCEPT !.pc = p, !.size = n])
  BY DEF HandleOk, HandleType, FieldsOk, Opening, Writing
<1> QED
  BY <1>1, <1>2 DEF HandleOk

LEMMA MmapOk ==
    ASSUME NEW r, HandleOk(r), r.pc = "mmap", r.size > 0
    PROVE  /\ HandleOk([r EXCEPT !.pc = "check", !.mem = "map"])
           /\ HandleOk([r EXCEPT !.pc = "check", !.mem = "map", !.winmap = TRUE])
<1>1. [r EXCEPT !.pc = "check", !.mem = "map"] \in HandleType
  BY Places DEF HandleOk, HandleType
<1>2. FieldsOk([r EXCEPT !.pc = "check", !.mem = "map"])
  BY DEF HandleOk, HandleType, FieldsOk, Opening, Writing
<1>3. [r EXCEPT !.pc = "check", !.mem = "map", !.winmap = TRUE] \in HandleType
  BY Places DEF HandleOk, HandleType
<1>4. FieldsOk([r EXCEPT !.pc = "check", !.mem = "map", !.winmap = TRUE])
  BY DEF HandleOk, HandleType, FieldsOk, Opening, Writing
<1> QED
  BY <1>1, <1>2, <1>3, <1>4 DEF HandleOk

LEMMA MallocOk ==
    ASSUME NEW r, HandleOk(r), r.pc = "malloc"
    PROVE  HandleOk([r EXCEPT !.pc = IF r.size = 0 THEN "read" ELSE "reading",
                              !.mem = "malloc", !.req = r.size,
                              !.addr = [i \in 1..r.size |-> Hole]])
<1> DEFINE p == IF r.size = 0 THEN "read" ELSE "reading"
           a == [i \in 1..r.size |-> Hole]
<1>1. r.size \in Nat
  BY DEF HandleOk, HandleType
<1>2. a \in Seq(Int) /\ Len(a) = r.size
  BY <1>1 DEF Hole
<1>3. p \in Where /\ (r.size = 0 <=> p = "read") /\ p \in {"read", "reading"}
  BY Places
<1> HIDE DEF p, a
<1>4. [r EXCEPT !.pc = p, !.mem = "malloc", !.req = r.size, !.addr = a] \in HandleType
  BY <1>1, <1>2, <1>3 DEF HandleOk, HandleType
<1>5. FieldsOk([r EXCEPT !.pc = p, !.mem = "malloc", !.req = r.size, !.addr = a])
  BY <1>1, <1>2, <1>3 DEF HandleOk, HandleType, FieldsOk, Opening, Writing
<1> QED
  BY <1>4, <1>5 DEF HandleOk, p, a

LEMMA ReadDoneOk ==
    ASSUME NEW r, HandleOk(r), r.pc = "read"
    PROVE  /\ HandleOk([r EXCEPT !.pc = "check", !.fd = NoFd])
           /\ HandleOk([r EXCEPT !.pc = "reclose"])
<1>1. [r EXCEPT !.pc = "check", !.fd = NoFd] \in HandleType
  <2>1. "check" \in Where /\ NoFd \in Int
    BY Places DEF NoFd
  <2> QED
    BY <2>1 DEF HandleOk, HandleType
<1>2. FieldsOk([r EXCEPT !.pc = "check", !.fd = NoFd])
  BY DEF HandleOk, HandleType, FieldsOk, Opening, Writing, NoFd
<1>3. [r EXCEPT !.pc = "reclose"] \in HandleType
  BY Places DEF HandleOk, HandleType
<1>4. FieldsOk([r EXCEPT !.pc = "reclose"])
  BY DEF HandleOk, HandleType, FieldsOk, Opening, Writing
<1> QED
  BY <1>1, <1>2, <1>3, <1>4 DEF HandleOk

LEMMA CheckOk ==
    ASSUME NEW r, HandleOk(r), r.pc = "check", r.size > 0
    PROVE  HandleOk([r EXCEPT !.pc = "open", !.last = "handle"])
<1>1. [r EXCEPT !.pc = "open", !.last = "handle"] \in HandleType
  BY Places DEF HandleOk, HandleType
<1>2. FieldsOk([r EXCEPT !.pc = "open", !.last = "handle"])
  BY DEF HandleOk, HandleType, FieldsOk, Opening, Writing
<1> QED
  BY <1>1, <1>2 DEF HandleOk

\* full_rw, with or without new cells in memory.
MovedOf(r, n) ==
    IF r.total + n < r.size
      THEN [r EXCEPT !.total = r.total + n, !.req = r.size - (r.total + n)]
      ELSE [r EXCEPT !.total = 0, !.req = 0,
                     !.pc = IF @ = "reading" THEN "read" ELSE "written"]

LEMMA MovedOk ==
    ASSUME NEW r, HandleOk(r), r.pc \in {"reading", "writing"},
           NEW n \in Nat \ {0}, n <= r.req
    PROVE  HandleOk(MovedOf(r, n))
<1>1. CASE r.total + n < r.size
  <2>1. r.total + n \in Nat /\ r.size - (r.total + n) \in Nat
    BY <1>1 DEF HandleOk, HandleType
  <2>2. MovedOf(r, n) = [r EXCEPT !.total = r.total + n,
                                  !.req = r.size - (r.total + n)]
    BY <1>1 DEF MovedOf
  <2>3. MovedOf(r, n) \in HandleType
    BY <2>1, <2>2 DEF HandleOk, HandleType
  <2>4. FieldsOk(MovedOf(r, n))
    BY <1>1, <2>1, <2>2, SMTT(60) DEF HandleOk, HandleType, FieldsOk, Opening, Writing
  <2> QED
    BY <2>3, <2>4 DEF HandleOk
<1>2. CASE ~(r.total + n < r.size)
  <2> DEFINE p == IF r.pc = "reading" THEN "read" ELSE "written"
  <2>1. p \in Where /\ p \in {"read", "written"} /\ (p = "read" <=> r.pc = "reading")
    BY Places
  <2>2. MovedOf(r, n) = [r EXCEPT !.total = 0, !.req = 0, !.pc = p]
    BY <1>2 DEF MovedOf, HandleOk, HandleType
  <2> HIDE DEF p
  <2>3. MovedOf(r, n) \in HandleType
    <3>1. 0 \in Nat
      OBVIOUS
    <3> QED
      BY <2>1, <2>2, <3>1 DEF HandleOk, HandleType
  <2>4. FieldsOk(MovedOf(r, n))
    BY <2>1, <2>2, SMTT(60) DEF HandleOk, HandleType, FieldsOk, Opening, Writing
  <2> QED
    BY <2>3, <2>4 DEF HandleOk
<1> QED
  BY <1>1, <1>2

LEMMA FilledOk ==
    ASSUME NEW r, HandleOk(r), NEW a \in Seq(Int), Len(a) = Len(r.addr)
    PROVE  HandleOk([r EXCEPT !.addr = a])
<1>1. [r EXCEPT !.addr = a] \in HandleType
  BY DEF HandleOk, HandleType
<1>2. FieldsOk([r EXCEPT !.addr = a])
  BY DEF HandleOk, HandleType, FieldsOk, Opening, Writing
<1> QED
  BY <1>1, <1>2 DEF HandleOk

LEMMA TooMuchOk ==
    ASSUME NEW r, HandleOk(r), r.pc \in {"reading", "writing"},
           r.req > BUGGY_READ_MAXIMUM
    PROVE  HandleOk([r EXCEPT !.req = BUGGY_READ_MAXIMUM])
<1>1. BUGGY_READ_MAXIMUM \in Nat \ {0}
  BY FileIOAssumption
<1>2. [r EXCEPT !.req = BUGGY_READ_MAXIMUM] \in HandleType
  BY <1>1 DEF HandleOk, HandleType
<1>3. FieldsOk([r EXCEPT !.req = BUGGY_READ_MAXIMUM])
  BY <1>1 DEF HandleOk, HandleType, FieldsOk, Opening, Writing
<1> QED
  BY <1>2, <1>3 DEF HandleOk

\* hivex_commit and the edits.
EditOf(a, i, c) == [j \in 1..Len(a) \cup {i} |-> IF j = i THEN c ELSE a[j]]

LEMMA EditSeq ==
    ASSUME NEW a \in Seq(Int), NEW c \in Int, NEW i \in Nat \ {0},
           i <= Len(a) + 1
    PROVE  /\ EditOf(a, i, c) \in Seq(Int)
           /\ Len(EditOf(a, i, c)) = IF i > Len(a) THEN i ELSE Len(a)
<1>1. CASE i <= Len(a)
  <2>1. 1..Len(a) \cup {i} = 1..Len(a)
    BY <1>1
  <2>2. EditOf(a, i, c) = [j \in 1..Len(a) |-> IF j = i THEN c ELSE a[j]]
    BY <2>1 DEF EditOf
  <2> QED
    BY <1>1, <2>2
<1>2. CASE i = Len(a) + 1
  <2>1. 1..Len(a) \cup {i} = 1..(Len(a) + 1)
    BY <1>2
  <2>2. EditOf(a, i, c) = [j \in 1..(Len(a) + 1) |-> IF j = i THEN c ELSE a[j]]
    BY <2>1 DEF EditOf
  <2>3. \A j \in 1..(Len(a) + 1) : (IF j = i THEN c ELSE a[j]) \in Int
    BY <1>2
  <2> QED
    BY <1>2, <2>2, <2>3
<1> QED
  BY <1>1, <1>2

LEMMA EditOk ==
    ASSUME NEW r, HandleOk(r), r.pc = "open", r.writable,
           NEW i \in Nat \ {0}, i <= r.size + 1, NEW c \in Int
    PROVE  HandleOk([r EXCEPT !.addr = EditOf(r.addr, i, c),
                              !.size = IF i > r.size THEN i ELSE r.size,
                              !.last = "edited"])
<1> DEFINE a == EditOf(r.addr, i, c)
           n == IF i > r.size THEN i ELSE r.size
<1>1. r.size \in Nat /\ r.addr \in Seq(Int) /\ Len(r.addr) = r.size
  BY DEF HandleOk, HandleType, FieldsOk
<1>2. n \in Nat /\ a \in Seq(Int) /\ Len(a) = n /\ n > 0
  BY <1>1, EditSeq
<1> HIDE DEF a, n
<1>3. [r EXCEPT !.addr = a, !.size = n, !.last = "edited"] \in HandleType
  BY <1>2, Places DEF HandleOk, HandleType
<1>4. FieldsOk([r EXCEPT !.addr = a, !.size = n, !.last = "edited"])
  BY <1>2 DEF HandleOk, HandleType, FieldsOk, Opening, Writing
<1> QED
  BY <1>3, <1>4 DEF HandleOk, a, n

LEMMA RefusedOk ==
    ASSUME NEW r, HandleOk(r), r.pc = "open"
    PROVE  HandleOk([r EXCEPT !.last = "refused"])
<1>1. [r EXCEPT !.last = "refused"] \in HandleType
  BY Places DEF HandleOk, HandleType
<1>2. FieldsOk([r EXCEPT !.last = "refused"])
  BY DEF HandleOk, HandleType, FieldsOk, Opening, Writing
<1> QED
  BY <1>1, <1>2 DEF HandleOk

LEMMA CommitOk ==
    ASSUME NEW r, HandleOk(r), r.pc = "open", r.writable, NEW n \in Nat
    PROVE  HandleOk([r EXCEPT !.pc = "writing", !.wfd = n, !.last = "none",
                              !.addr[1] = @ + 1, !.total = 0, !.req = r.size])
<1> DEFINE a == [r.addr EXCEPT ![1] = @ + 1]
<1>1. r.size \in Nat /\ r.addr \in Seq(Int) /\ Len(r.addr) = r.size /\ r.size > 0
  BY DEF HandleOk, HandleType, FieldsOk
<1>2. a \in Seq(Int) /\ Len(a) = r.size
  BY <1>1
<1>3. [r EXCEPT !.pc = "writing", !.wfd = n, !.last = "none",
                !.addr[1] = @ + 1, !.total = 0, !.req = r.size]
      = [r EXCEPT !.pc = "writing", !.wfd = n, !.last = "none",
                  !.addr = a, !.total = 0, !.req = r.size]
  BY DEF HandleOk, HandleType
<1> HIDE DEF a
<1>4. [r EXCEPT !.pc = "writing", !.wfd = n, !.last = "none",
                !.addr = a, !.total = 0, !.req = r.size] \in HandleType
  <2>1. "writing" \in Where /\ "none" \in Outcomes /\ n \in Int /\ 0 \in Nat
    BY Places
  <2> QED
    BY <1>1, <1>2, <2>1 DEF HandleOk, HandleType
<1>5. FieldsOk([r EXCEPT !.pc = "writing", !.wfd = n, !.last = "none",
                         !.addr = a, !.total = 0, !.req = r.size])
  BY <1>1, <1>2 DEF HandleOk, HandleType, FieldsOk, Opening, Writing
<1> QED
  BY <1>3, <1>4, <1>5 DEF HandleOk

LEMMA CommittedOk ==
    ASSUME NEW r, HandleOk(r), r.pc \in Writing, NEW l \in {"0", "-1"}
    PROVE  /\ HandleOk([r EXCEPT !.pc = "open", !.last = l, !.wfd = NoFd,
                                 !.total = 0, !.req = 0])
           /\ r.pc = "written" =>
                 HandleOk([r EXCEPT !.pc = "open", !.last = l, !.wfd = NoFd])
<1>0. "open" \in Where /\ l \in Outcomes /\ NoFd \in Int /\ 0 \in Nat
  BY Places DEF NoFd
<1>1. [r EXCEPT !.pc = "open", !.last = l, !.wfd = NoFd, !.total = 0, !.req = 0]
      \in HandleType
  BY <1>0 DEF HandleOk, HandleType
<1>2. FieldsOk([r EXCEPT !.pc = "open", !.last = l, !.wfd = NoFd,
                         !.total = 0, !.req = 0])
  BY DEF HandleOk, HandleType, FieldsOk, Opening, Writing, NoFd
<1>3. [r EXCEPT !.pc = "open", !.last = l, !.wfd = NoFd] \in HandleType
  BY <1>0 DEF HandleOk, HandleType
<1>4. r.pc = "written" =>
        FieldsOk([r EXCEPT !.pc = "open", !.last = l, !.wfd = NoFd])
  BY DEF HandleOk, HandleType, FieldsOk, Opening, Writing, NoFd
<1> QED
  BY <1>1, <1>2, <1>3, <1>4 DEF HandleOk

-----------------------------------------------------------------------------
(* Descriptors *)

LEMMA LeastNat ==
    ASSUME NEW T \in SUBSET Nat, T # {}
    PROVE  \E x \in T : \A y \in T : x <= y
<1> DEFINE R == OpToRel(<, Nat)
<1>1. IsWellFoundedOn(R, Nat)
  BY NatLessThanWellFounded
<1>2. \A x, y \in Nat : y < x => <<y, x>> \in R
  BY DEF OpToRel
<1> HIDE DEF R
<1>3. \E x \in T : \A y \in T : <<y, x>> \notin R
  BY <1>1, WFMin
<1>4. PICK x \in T : \A y \in T : <<y, x>> \notin R
  BY <1>3
<1>5. \A y \in T : ~(y < x)
  BY <1>2, <1>4
<1>6. \A y \in T : x <= y
  BY <1>5
<1> QED
  BY <1>6

\* A thread holds one descriptor at a time, so that a number is free.
LEMMA FreeDescriptor ==
    ASSUME TypeInv, FdsInv
    PROVE  LowestFree \in Nat /\ LowestFree \notin DOMAIN fds
<1> DEFINE D == DOMAIN fds
           T == Handles \cup {"stdin"}
           c == Cardinality(Handles)
           U == 0..(c * 2 + 1)
<1>1. IsFiniteSet(T) /\ Cardinality(T) = c + 1 /\ c \in Nat
  BY FileIOAssumption, FS_AddElement, FS_CardinalityType
<1>2. fds \in [D -> T]
  BY DEF TypeInv
<1>3. \A m, n \in D : fds[m] = fds[n] => m = n
  BY <1>2 DEF FdsInv, Holds
<1>4. fds \in Injection(D, T)
  BY <1>2, <1>3 DEF Injection, IsInjective
<1>5. IsFiniteSet(D) /\ Cardinality(D) <= c + 1
  BY <1>1, <1>4, FS_Injection
<1>6. IsFiniteSet(U) /\ Cardinality(U) = c * 2 + 2
  BY <1>1, FS_Interval, SMTT(60)
<1>7. ASSUME U \subseteq D PROVE FALSE
  <2>1. Cardinality(U) <= Cardinality(D)
    <3> HIDE DEF U, D
    <3> QED
      BY <1>5, <1>7, FS_Subset
  <2>2. Cardinality(D) \in Nat
    BY <1>5, FS_CardinalityType
  <2> QED
    BY <1>1, <1>5, <1>6, <2>1, <2>2
<1>8. PICK n \in U \ D : \A y \in U \ D : n <= y
  <2>1. U \ D # {} /\ U \ D \subseteq Nat
    BY <1>1, <1>7
  <2> HIDE DEF U, D
  <2> QED
    BY <2>1, LeastNat
<1>9. \A i \in 0..(n - 1) : i \in D
  BY <1>1, <1>8
<1>10. \E m \in U : m \notin D /\ \A i \in 0..(m - 1) : i \in D
  BY <1>8, <1>9
<1>11. LowestFree \in U /\ LowestFree \notin D
  BY <1>10 DEF LowestFree
<1> QED
  BY <1>1, <1>11

\* A step that opens and closes nothing.
LEMMA FdsStays ==
    ASSUME TypeInv, FdsInv, NEW t \in Handles, NEW r,
           Go(t, r), fds' = fds, stolen' = stolen,
           Holds(r) = Holds(h[t]),
           r.pc = "reclose" => h[t].pc = "reclose" /\ r.fd = h[t].fd
    PROVE  FdsInv'
<1>1. \A u \in Handles : Holds(h'[u]) = Holds(h[u])
  BY DEF TypeInv, Go
<1>2. \A u \in Handles : h'[u].pc = "reclose" => h[u].pc = "reclose" /\ h'[u].fd = h[u].fd
  BY DEF TypeInv, Go
<1>3. DOMAIN fds' = DOMAIN fds /\ \A n \in DOMAIN fds : fds[n] \in Handles \cup {"stdin"}
  BY DEF TypeInv
<1> QED
  BY <1>1, <1>2, <1>3 DEF FdsInv, Robbed, ClosesOnlyItsOwn

\* A step that opens a descriptor.
LEMMA FdsOpens ==
    ASSUME TypeInv, FdsInv, NEW t \in Handles, NEW r,
           Go(t, r), FdOpen(t), stolen' = stolen,
           Holds(h[t]) = {}, Holds(r) = {LowestFree}, r.pc # "reclose"
    PROVE  FdsInv'
<1> DEFINE n == LowestFree
<1>1. n \in Nat /\ n \notin DOMAIN fds
  BY FreeDescriptor
<1>2. /\ DOMAIN fds' = DOMAIN fds \cup {n}
      /\ fds'[n] = t
      /\ \A m \in DOMAIN fds : fds'[m] = fds[m] /\ m # n
  BY <1>1 DEF FdOpen
<1> HIDE DEF n
<1>3. /\ h'[t] = r
      /\ \A u \in Handles \ {t} : h'[u] = h[u]
  BY DEF TypeInv, Go
<1>4. Holds(h'[t]) = {n}
  BY <1>3 DEF n
<1>5. t # "stdin" /\ \A m \in DOMAIN fds : fds[m] # t
  BY FileIOAssumption DEF FdsInv
<1>6. \A m \in DOMAIN fds' : fds'[m] \in Handles => m \in Holds(h'[fds'[m]])
  BY <1>2, <1>3, <1>4, <1>5 DEF FdsInv
<1>7. \A m \in DOMAIN fds' : fds'[m] = "stdin" => m = 0
  BY <1>2, <1>5 DEF FdsInv
<1>8. 0 \in DOMAIN fds' /\ fds'[0] = "stdin" =>
        \A u \in Handles : 0 \notin Holds(h'[u]) /\ (h'[u].pc = "reclose" => h'[u].fd # 0)
  BY <1>1, <1>2, <1>3, <1>4, <1>5 DEF FdsInv
<1>9. Robbed' \/ \A u \in Handles : \A m \in Holds(h'[u]) : m \in DOMAIN fds' /\ fds'[m] = u
  BY <1>2, <1>3, <1>4 DEF FdsInv, Robbed
<1>10. ClosesOnlyItsOwn'
  BY DEF FdsInv, ClosesOnlyItsOwn
<1> QED
  BY <1>6, <1>7, <1>8, <1>9, <1>10 DEF FdsInv

\* What every close does, and what a theft adds to the history.
LEMMA Closing ==
    ASSUME TypeInv, NEW t \in Handles, NEW r, Go(t, r), NEW n, NEW cause,
           FdClose(t, n, cause)
    PROVE  /\ h'[t] = r /\ \A u \in Handles \ {t} : h'[u] = h[u]
           /\ DOMAIN fds' = DOMAIN fds \ {n}
           /\ \A m \in DOMAIN fds' : fds'[m] = fds[m]
           /\ \/ stolen' = stolen /\ (n \in DOMAIN fds => fds[n] = t)
              \/ /\ stolen' = stolen \cup {<<fds[n], cause>>}
                 /\ n \in DOMAIN fds /\ fds[n] # t
                 /\ fds[n] \in Handles \cup {"stdin"}
BY DEF TypeInv, Go, FdClose

\* A close of a descriptor that the thread holds: if it is not the
\* thread's own any more, a thread has been robbed before.
LEMMA FdsCloses ==
    ASSUME TypeInv, FdsInv, NEW t \in Handles, NEW r, NEW n,
           Go(t, r), FdClose(t, n, "exit"),
           Holds(h[t]) = {n}, Holds(r) = {}, r.pc = "reclose" => r.fd = n
    PROVE  FdsInv'
<1>1. /\ h'[t] = r /\ \A u \in Handles \ {t} : h'[u] = h[u]
      /\ DOMAIN fds' = DOMAIN fds \ {n}
      /\ \A m \in DOMAIN fds' : fds'[m] = fds[m]
  BY Closing
<1>2. \A m \in DOMAIN fds' : fds'[m] \in Handles => m \in Holds(h'[fds'[m]])
  BY <1>1 DEF FdsInv
<1>3. \A m \in DOMAIN fds' : fds'[m] = "stdin" => m = 0
  BY <1>1 DEF FdsInv
<1>4. 0 \in DOMAIN fds' /\ fds'[0] = "stdin" =>
        \A u \in Handles : 0 \notin Holds(h'[u]) /\ (h'[u].pc = "reclose" => h'[u].fd # 0)
  BY <1>1 DEF FdsInv
<1>5. CASE stolen' = stolen /\ (n \in DOMAIN fds => fds[n] = t)
  <2>1. Robbed' \/ \A u \in Handles : \A m \in Holds(h'[u]) : m \in DOMAIN fds' /\ fds'[m] = u
    <3> SUFFICES ASSUME ~Robbed, NEW u \in Handles, NEW m \in Holds(h'[u])
                 PROVE  m \in DOMAIN fds' /\ fds'[m] = u
      BY <1>5 DEF Robbed
    <3>1. u # t /\ m \in Holds(h[u])
      BY <1>1
    <3>2. m \in DOMAIN fds /\ fds[m] = u /\ n \in DOMAIN fds
      BY <3>1 DEF FdsInv
    <3> QED
      BY <1>1, <1>5, <3>1, <3>2
  <2>2. ClosesOnlyItsOwn'
    BY <1>5 DEF FdsInv, ClosesOnlyItsOwn
  <2> QED
    BY <1>2, <1>3, <1>4, <2>1, <2>2 DEF FdsInv
<1>6. CASE /\ stolen' = stolen \cup {<<fds[n], "exit">>}
           /\ n \in DOMAIN fds /\ fds[n] # t
           /\ fds[n] \in Handles \cup {"stdin"}
  <2>1. Robbed
    BY <1>6 DEF FdsInv
  <2>2. fds[n] # "stdin"
    BY <1>6 DEF FdsInv
  <2>3. Robbed'
    BY <1>6, <2>1 DEF Robbed
  <2>4. ClosesOnlyItsOwn'
    BY <1>6, <2>2, <2>3 DEF FdsInv, ClosesOnlyItsOwn, Robbed
  <2> QED
    BY <1>2, <1>3, <1>4, <2>3, <2>4 DEF FdsInv
<1>7. \/ stolen' = stolen /\ (n \in DOMAIN fds => fds[n] = t)
      \/ /\ stolen' = stolen \cup {<<fds[n], "exit">>}
         /\ n \in DOMAIN fds /\ fds[n] # t
         /\ fds[n] \in Handles \cup {"stdin"}
  BY Closing
<1> QED
  BY <1>5, <1>6, <1>7

\* A close of a number that the thread does not hold: the two slips.
LEMMA FdsSlips ==
    ASSUME TypeInv, FdsInv, NEW t \in Handles, NEW r, NEW n,
           NEW cause \in {"strdup", "reclose"},
           Go(t, r), FdClose(t, n, cause),
           Holds(h[t]) = {}, Holds(r) = {}, r.pc # "reclose",
           cause = "reclose" => h[t].pc = "reclose" /\ n = h[t].fd
    PROVE  FdsInv'
<1>1. /\ h'[t] = r /\ \A u \in Handles \ {t} : h'[u] = h[u]
      /\ DOMAIN fds' = DOMAIN fds \ {n}
      /\ \A m \in DOMAIN fds' : fds'[m] = fds[m]
  BY Closing
<1>2. \A m \in DOMAIN fds' : fds'[m] \in Handles => m \in Holds(h'[fds'[m]])
  BY <1>1 DEF FdsInv
<1>3. \A m \in DOMAIN fds' : fds'[m] = "stdin" => m = 0
  BY <1>1 DEF FdsInv
<1>4. 0 \in DOMAIN fds' /\ fds'[0] = "stdin" =>
        \A u \in Handles : 0 \notin Holds(h'[u]) /\ (h'[u].pc = "reclose" => h'[u].fd # 0)
  BY <1>1 DEF FdsInv
<1>5. ~(n \in DOMAIN fds /\ fds[n] = t)
  BY DEF FdsInv
<1>6. CASE stolen' = stolen /\ n \notin DOMAIN fds
  <2>1. Robbed' \/ \A u \in Handles : \A m \in Holds(h'[u]) : m \in DOMAIN fds' /\ fds'[m] = u
    BY <1>1, <1>6 DEF FdsInv, Robbed
  <2>2. ClosesOnlyItsOwn'
    BY <1>6 DEF FdsInv, ClosesOnlyItsOwn
  <2> QED
    BY <1>2, <1>3, <1>4, <2>1, <2>2 DEF FdsInv
<1>7. CASE /\ stolen' = stolen \cup {<<fds[n], cause>>}
           /\ n \in DOMAIN fds /\ fds[n] # t
           /\ fds[n] \in Handles \cup {"stdin"}
  <2>1. fds[n] = "stdin" => cause = "strdup"
    BY <1>7 DEF FdsInv
  <2>2. ClosesOnlyItsOwn'
    BY <1>7, <2>1 DEF FdsInv, ClosesOnlyItsOwn
  <2>3. CASE fds[n] \in Handles
    <3>1. Robbed'
      <4> DEFINE s == <<fds[n], cause>>
      <4>1. s \in stolen' /\ s[1] \in Handles /\ s[2] # "exit"
        BY <1>7, <2>3
      <4> QED
        BY <4>1 DEF Robbed
    <3> QED
      BY <1>2, <1>3, <1>4, <2>2, <3>1 DEF FdsInv
  <2>4. CASE fds[n] = "stdin"
    <3>1. n = 0 /\ \A u \in Handles : 0 \notin Holds(h[u])
      BY <1>7, <2>4 DEF FdsInv
    <3>2. Robbed' \/ \A u \in Handles : \A m \in Holds(h'[u]) : m \in DOMAIN fds' /\ fds'[m] = u
      BY <1>1, <1>7, <3>1 DEF FdsInv, Robbed
    <3> QED
      BY <1>2, <1>3, <1>4, <2>2, <3>2 DEF FdsInv
  <2> QED
    BY <1>7, <2>3, <2>4
<1> QED
  BY <1>5, <1>6, <1>7, Closing

-----------------------------------------------------------------------------
(* The file and its images *)

LEMMA ImageStep ==
    ASSUME TypeInv, ImageInv, NEW t \in Handles, NEW r, Go(t, r),
           \/ file' = file /\ alone' \subseteq alone \cup {t}
           \/ alone' \subseteq {t},
           t \in alone' => ImageOk(r, file')
    PROVE  ImageInv'
<1>1. h'[t] = r /\ \A u \in Handles \ {t} : h'[u] = h[u]
  BY DEF TypeInv, Go
<1> SUFFICES ASSUME NEW u \in alone' PROVE ImageOk(h'[u], file')
  BY DEF ImageInv, ImageOk, Begins
<1>2. CASE u = t
  BY <1>1, <1>2
<1>3. CASE u # t
  <2>1. u \in alone /\ u \in Handles /\ file' = file
    BY <1>3 DEF TypeInv
  <2> QED
    BY <1>1, <1>3, <2>1 DEF ImageInv
<1> QED
  BY <1>2, <1>3

\* Calls that have learned nothing of the file yet, or are over.
LEMMA ImageFresh ==
    ASSUME NEW r, NEW f, r.pc \in {"closed", "name", "fstat"},
           r.last \notin {"0", "-1"}
    PROVE  ImageOk(r, f)
BY DEF ImageOk

LEMMA FstatImage ==
    ASSUME NEW r, HandleOk(r), r.pc = "fstat", NEW f \in Seq(Int)
    PROVE  ImageOk([r EXCEPT !.pc = IF r.writable THEN "malloc" ELSE "mmap",
                             !.size = Len(f)], f)
BY DEF HandleOk, HandleType, FieldsOk, ImageOk

LEMMA MmapImage ==
    ASSUME NEW r, HandleOk(r), r.pc = "mmap", NEW f, ImageOk(r, f)
    PROVE  /\ ImageOk([r EXCEPT !.pc = "check", !.mem = "map"], f)
           /\ ImageOk([r EXCEPT !.pc = "check", !.mem = "map", !.winmap = TRUE], f)
BY DEF HandleOk, HandleType, FieldsOk, ImageOk

\* Two images of the same length with the same cells are the same.
LEMMA SameImage ==
    ASSUME NEW a \in Seq(Int), NEW f \in Seq(Int), Len(a) = Len(f),
           Begins(f, a, Len(f))
    PROVE  a = f
BY SMTT(60) DEF Begins

LEMMA MallocImage ==
    ASSUME NEW r, HandleOk(r), r.pc = "malloc", NEW f \in Seq(Int), ImageOk(r, f)
    PROVE  ImageOk([r EXCEPT !.pc = IF r.size = 0 THEN "read" ELSE "reading",
                             !.mem = "malloc", !.req = r.size,
                             !.addr = [i \in 1..r.size |-> Hole]], f)
<1> DEFINE p == IF r.size = 0 THEN "read" ELSE "reading"
           a == [i \in 1..r.size |-> Hole]
           q == [r EXCEPT !.pc = p, !.mem = "malloc", !.req = r.size, !.addr = a]
<1>1. r.size = Len(f) /\ r.size \in Nat /\ r.total = 0 /\ r.last \notin {"0", "-1"}
  BY DEF HandleOk, HandleType, FieldsOk, ImageOk
<1>2. a \in Seq(Int) /\ Len(a) = Len(f)
  BY <1>1 DEF Hole
<1>3. p = "read" => a = f
  BY <1>1, <1>2
<1>4. p \in {"read", "reading"}
  OBVIOUS
<1>5. q.pc = p /\ q.addr = a /\ q.size = r.size /\ q.total = 0 /\ q.last = r.last
  BY <1>1 DEF HandleOk, HandleType
<1>6. Begins(f, a, 0)
  BY DEF Begins
<1> HIDE DEF p, a, q
<1>7. ImageOk(q, f)
  BY <1>1, <1>3, <1>4, <1>5, <1>6 DEF ImageOk
<1> QED
  BY <1>7 DEF p, a, q

LEMMA ReadDoneImage ==
    ASSUME NEW r, HandleOk(r), r.pc = "read", NEW f, ImageOk(r, f)
    PROVE  /\ ImageOk([r EXCEPT !.pc = "check", !.fd = NoFd], f)
           /\ ImageOk([r EXCEPT !.pc = "reclose"], f)
BY DEF HandleOk, HandleType, FieldsOk, ImageOk

LEMMA CheckImage ==
    ASSUME NEW r, HandleOk(r), r.pc = "check", NEW f, ImageOk(r, f)
    PROVE  ImageOk([r EXCEPT !.pc = "open", !.last = "handle"], f)
BY DEF HandleOk, HandleType, FieldsOk, ImageOk

\* The cells that read or write has moved.
FilledBy(a, f, from, n) ==
    [i \in DOMAIN a |-> IF i \in (from + 1)..(from + n) THEN f[i] ELSE a[i]]

LEMMA FilledSeq ==
    ASSUME NEW a \in Seq(Int), NEW f \in Seq(Int), NEW from \in Nat, NEW n \in Nat,
           from + n <= Len(f)
    PROVE  /\ FilledBy(a, f, from, n) \in Seq(Int)
           /\ Len(FilledBy(a, f, from, n)) = Len(a)
           /\ from + n <= Len(a) /\ Begins(f, a, from) =>
                 Begins(f, FilledBy(a, f, from, n), from + n)
<1> DEFINE b == FilledBy(a, f, from, n)
<1>1. b = [i \in 1..Len(a) |-> IF i \in (from + 1)..(from + n) THEN f[i] ELSE a[i]]
  BY DEF FilledBy
<1>2. \A i \in 1..Len(a) : (IF i \in (from + 1)..(from + n) THEN f[i] ELSE a[i]) \in Int
  OBVIOUS
<1>3. b \in Seq(Int) /\ Len(b) = Len(a)
  BY <1>1, <1>2
<1>4. from + n <= Len(a) /\ Begins(f, a, from) => Begins(f, b, from + n)
  BY <1>1 DEF Begins
<1> QED
  BY <1>3, <1>4

LEMMA ReadSomeImage ==
    ASSUME NEW r, HandleOk(r), r.pc = "reading", NEW f \in Seq(Int), ImageOk(r, f),
           NEW n \in Nat \ {0}, n <= r.req, r.total + n <= Len(f)
    PROVE  ImageOk([MovedOf(r, n) EXCEPT !.addr = FilledBy(r.addr, f, r.total, n)], f)
<1> DEFINE a == FilledBy(r.addr, f, r.total, n)
           q == [MovedOf(r, n) EXCEPT !.addr = a]
<1>1. /\ r.addr \in Seq(Int) /\ r.total \in Nat /\ r.size \in Nat /\ r.req \in Nat
      /\ Len(r.addr) = r.size /\ r.size = Len(f) /\ Begins(f, r.addr, r.total)
      /\ r.last \notin {"0", "-1"}
      /\ r.writable /\ r.req <= r.size - r.total
  BY DEF HandleOk, HandleType, FieldsOk, ImageOk
<1>2. a \in Seq(Int) /\ Len(a) = Len(f) /\ Begins(f, a, r.total + n)
  BY <1>1, FilledSeq, ZenonT(60)
<1> HIDE DEF a
<1>3. CASE r.total + n < r.size
  <2>1. q.pc = "reading" /\ q.addr = a /\ q.size = r.size /\ q.total = r.total + n
        /\ q.last = r.last
    BY <1>3 DEF MovedOf, HandleOk, HandleType
  <2> HIDE DEF q
  <2> QED
    BY <1>1, <1>2, <2>1 DEF ImageOk, q, a
<1>4. CASE ~(r.total + n < r.size)
  <2>1. q.pc = "read" /\ q.addr = a /\ q.size = r.size /\ q.last = r.last
    BY <1>4 DEF MovedOf, HandleOk, HandleType
  <2>2. a = f
    <3>1. r.total + n = Len(f)
      BY <1>1, <1>4, SMTT(60)
    <3> QED
      BY <1>2, <3>1, SameImage
  <2> HIDE DEF q
  <2> QED
    BY <1>1, <2>1, <2>2 DEF ImageOk, q, a
<1> QED
  BY <1>3, <1>4

WrittenTo(f, a, from, n) ==
    [i \in 1..(IF from + n > Len(f) THEN from + n ELSE Len(f)) |->
        IF i \in (from + 1)..(from + n) THEN a[i]
        ELSE IF i <= Len(f) THEN f[i] ELSE Hole]

LEMMA WrittenSeq ==
    ASSUME NEW a \in Seq(Int), NEW f \in Seq(Int), NEW from \in Nat, NEW n \in Nat,
           from + n <= Len(a)
    PROVE  /\ WrittenTo(f, a, from, n) \in Seq(Int)
           /\ Len(f) = from /\ Begins(f, a, from) =>
                 /\ Len(WrittenTo(f, a, from, n)) = from + n
                 /\ Begins(WrittenTo(f, a, from, n), a, from + n)
<1> DEFINE len == IF from + n > Len(f) THEN from + n ELSE Len(f)
           cell(i) == IF i \in (from + 1)..(from + n) THEN a[i]
                      ELSE IF i <= Len(f) THEN f[i] ELSE Hole
           w == WrittenTo(f, a, from, n)
<1>1. len \in Nat /\ \A i \in 1..len : cell(i) \in Int
  BY DEF Hole
<1>2. w = [i \in 1..len |-> cell(i)]
  BY DEF WrittenTo
<1>3. w \in Seq(Int) /\ Len(w) = len
  <2> HIDE DEF len, cell, w
  <2> QED
    BY <1>1, <1>2
<1>4. ASSUME Len(f) = from, Begins(f, a, from)
      PROVE  Len(w) = from + n /\ Begins(w, a, from + n)
  <2>1. len = from + n
    BY <1>4
  <2>2. \A i \in 1..(from + n) : cell(i) = a[i]
    BY <1>4 DEF Begins
  <2> HIDE DEF cell, len
  <2> QED
    BY <1>2, <1>3, <2>1, <2>2 DEF Begins
<1> QED
  BY <1>3, <1>4

LEMMA WriteSomeImage ==
    ASSUME NEW r, HandleOk(r), r.pc = "writing", NEW f \in Seq(Int),
           NEW n \in Nat \ {0}, n <= r.req
    PROVE  /\ WrittenTo(f, r.addr, r.total, n) \in Seq(Int)
           /\ ImageOk(r, f) =>
                 ImageOk(MovedOf(r, n), WrittenTo(f, r.addr, r.total, n))
<1> DEFINE w == WrittenTo(f, r.addr, r.total, n)
           q == MovedOf(r, n)
<1>1. /\ r.addr \in Seq(Int) /\ r.total \in Nat /\ r.size \in Nat /\ r.req \in Nat
      /\ Len(r.addr) = r.size
      /\ r.last \notin {"0", "-1"}
      /\ r.writable /\ r.req <= r.size - r.total
  BY DEF HandleOk, HandleType, FieldsOk, Writing
<1>0. r.total + n \in Nat /\ r.total + n <= Len(r.addr)
  BY <1>1, SMTT(60)
<1>2. w \in Seq(Int)
  BY <1>0, <1>1, WrittenSeq
<1>3. ASSUME ImageOk(r, f) PROVE ImageOk(q, w)
  <2>1. Len(f) = r.total /\ Begins(f, r.addr, r.total)
    BY <1>3 DEF ImageOk
  <2>2. Len(w) = r.total + n /\ Begins(w, r.addr, r.total + n)
    BY <1>0, <1>1, <2>1, WrittenSeq
  <2> HIDE DEF w
  <2>3. CASE r.total + n < r.size
    <3>1. /\ q.pc = "writing" /\ q.addr = r.addr /\ q.total = r.total + n
          /\ q.last = r.last
      BY <2>3 DEF MovedOf, HandleOk, HandleType
    <3> HIDE DEF q
    <3> QED
      BY <1>1, <2>2, <3>1 DEF ImageOk
  <2>4. CASE ~(r.total + n < r.size)
    <3>1. q.pc = "written" /\ q.addr = r.addr /\ q.last = r.last
      BY <2>4 DEF MovedOf, HandleOk, HandleType
    <3>2. r.addr = w
      <4>1. r.total + n = Len(r.addr)
        BY <1>0, <1>1, <2>4
      <4> QED
        BY <1>1, <1>2, <2>2, <4>1, SameImage
    <3> HIDE DEF q
    <3> QED
      BY <1>1, <3>1, <3>2 DEF ImageOk
  <2> QED
    BY <2>3, <2>4
<1> QED
  BY <1>2, <1>3

LEMMA CommitImage ==
    ASSUME NEW r, HandleOk(r), r.pc = "open", NEW n
    PROVE  ImageOk([r EXCEPT !.pc = "writing", !.wfd = n, !.last = "none",
                             !.addr[1] = @ + 1, !.total = 0, !.req = r.size], <<>>)
<1> DEFINE q == [r EXCEPT !.pc = "writing", !.wfd = n, !.last = "none",
                          !.addr[1] = @ + 1, !.total = 0, !.req = r.size]
<1>1. q.pc = "writing" /\ q.last = "none" /\ q.total = 0
  BY DEF HandleOk, HandleType
<1> HIDE DEF q
<1>2. ImageOk(q, <<>>)
  BY <1>1 DEF ImageOk, Begins
<1> QED
  BY <1>2 DEF q

\* A commit ends: the whole image is in the file, or a beginning of it.
LEMMA CommittedImage ==
    ASSUME NEW r, HandleOk(r), NEW f \in Seq(Int), ImageOk(r, f)
    PROVE  /\ \A l \in {"0", "-1"} : r.pc = "written" =>
                 ImageOk([r EXCEPT !.pc = "open", !.last = l, !.wfd = NoFd], f)
           /\ r.pc = "writing" =>
                 ImageOk([r EXCEPT !.pc = "open", !.last = "-1", !.wfd = NoFd,
                                   !.total = 0, !.req = 0], f)
<1>1. ASSUME NEW l \in {"0", "-1"}, r.pc = "written"
      PROVE  ImageOk([r EXCEPT !.pc = "open", !.last = l, !.wfd = NoFd], f)
  <2> DEFINE q == [r EXCEPT !.pc = "open", !.last = l, !.wfd = NoFd]
  <2>1. q.pc = "open" /\ q.last = l /\ q.addr = r.addr /\ q.writable = r.writable
    BY DEF HandleOk, HandleType
  <2>2. r.addr = f /\ r.writable
    BY <1>1 DEF ImageOk, HandleOk, FieldsOk, Writing
  <2> HIDE DEF q
  <2>3. ImageOk(q, f)
    BY <2>1, <2>2 DEF ImageOk, Begins
  <2> QED
    BY <2>3 DEF q
<1>2. ASSUME r.pc = "writing"
      PROVE  ImageOk([r EXCEPT !.pc = "open", !.last = "-1", !.wfd = NoFd,
                               !.total = 0, !.req = 0], f)
  <2> DEFINE q == [r EXCEPT !.pc = "open", !.last = "-1", !.wfd = NoFd,
                            !.total = 0, !.req = 0]
  <2>1. q.pc = "open" /\ q.last = "-1" /\ q.addr = r.addr /\ q.writable = r.writable
    BY DEF HandleOk, HandleType
  <2>2. Len(f) = r.total /\ Begins(f, r.addr, r.total) /\ r.writable
    BY <1>2 DEF ImageOk, HandleOk, FieldsOk, Writing
  <2>3. r.total <= Len(r.addr)
    BY <1>2 DEF HandleOk, HandleType, FieldsOk, Writing
  <2> HIDE DEF q
  <2>4. ImageOk(q, f)
    BY <2>1, <2>2, <2>3 DEF ImageOk
  <2> QED
    BY <2>4 DEF q
<1> QED
  BY <1>1, <1>2

LEMMA RefusedImage ==
    ASSUME NEW r, HandleOk(r), r.pc = "open", NEW f, ImageOk(r, f)
    PROVE  ImageOk([r EXCEPT !.last = "refused"], f)
BY DEF HandleOk, HandleType, ImageOk

LEMMA EditImage ==
    ASSUME NEW r, HandleOk(r), r.pc = "open", r.writable, NEW f, NEW a, NEW n
    PROVE  ImageOk([r EXCEPT !.addr = a, !.size = n, !.last = "edited"], f)
BY DEF HandleOk, HandleType, ImageOk

LEMMA TooMuchImage ==
    ASSUME NEW r, HandleOk(r), NEW f, ImageOk(r, f), NEW n
    PROVE  ImageOk([r EXCEPT !.req = n], f)
BY DEF HandleOk, HandleType, ImageOk

-----------------------------------------------------------------------------
(* One step at a time *)

LEMMA TypeStep ==
    ASSUME TypeInv, NEW t \in Handles, NEW r, Go(t, r), HandleOk(r),
           file' \in Seq(Int), alone' \subseteq Handles,
           errno' = errno \/ \E e : errno' = [errno EXCEPT ![t] = e],
           \/ fds' = fds
           \/ FdOpen(t) /\ LowestFree \in Nat
           \/ \E n, cause : FdClose(t, n, cause)
    PROVE  TypeInv'
<1>1. DOMAIN h' = Handles /\ \A u \in Handles : HandleOk(h'[u])
  BY DEF TypeInv, Go
<1>2. DOMAIN errno' = Handles
  BY DEF TypeInv
<1>3. DOMAIN fds' \subseteq Nat /\ fds' \in [DOMAIN fds' -> Handles \cup {"stdin"}]
  <2>1. CASE fds' = fds
    BY <2>1 DEF TypeInv
  <2>2. CASE FdOpen(t) /\ LowestFree \in Nat
    BY <2>2 DEF TypeInv, FdOpen
  <2>3. CASE \E n, cause : FdClose(t, n, cause)
    BY <2>3 DEF TypeInv, FdClose
  <2> QED
    BY <2>1, <2>2, <2>3
<1>4. \A u \in Handles : HandleOk(h[u])'
  BY <1>1 DEF HandleOk, HandleType, FieldsOk
<1> QED
  BY <1>1, <1>2, <1>3, <1>4 DEF TypeInv

\* The outcomes that must come with an errno.
Bad == {"NULL", "-1", "refused"}

LEMMA ErrnoStep ==
    ASSUME TypeInv, FailureHasErrno, NEW t \in Handles, NEW r, Go(t, r),
           rpl' = rpl, alone' \subseteq alone \cup {t},
           errno' = errno \/ \E e : errno' = [errno EXCEPT ![t] = e],
           \/ r.pc \notin {"closed", "open"}
           \/ r.last \notin Bad
           \/ errno'[t] # "0"
           \/ t \notin alone'
           \/ rpl
    PROVE  FailureHasErrno'
<1>1. h'[t] = r /\ \A u \in Handles \ {t} : h'[u] = h[u] /\ errno'[u] = errno[u]
  BY DEF TypeInv, Go
<1> QED
  BY <1>1 DEF FailureHasErrno, InCall, Bad

\* The error exit of hivex_open, wherever it is taken from.
LEMMA OpenFailsStep ==
    ASSUME IndInv, NEW t \in Handles, NEW err, NEW cause,
           OpenFails(t, err, cause), UNCHANGED <<file, rpl, alone>>,
           err # "0" \/ rpl \/ t \notin alone,
           \/ /\ cause = "exit"
              /\ h[t].pc \in {"fstat", "mmap", "malloc", "reading", "check"}
           \/ cause = "strdup" /\ h[t].pc = "name"
           \/ cause = "reclose" /\ h[t].pc = "reclose"
    PROVE  IndInv'
<1> DEFINE r == h[t]
           gone == r.mem # "none" /\ r.size # 0
           m == IF gone THEN "none" ELSE r.mem
           q == [Closed EXCEPT !.last = "NULL", !.mem = m, !.winmap = FALSE]
<1>1. HandleOk(r)
  BY DEF IndInv, TypeInv
<1>2. m \in {"none", "malloc"} /\ (r.winmap /\ ~gone) = FALSE
  BY <1>1 DEF HandleOk, HandleType, FieldsOk
<1>3. Go(t, q) /\ errno' = [errno EXCEPT ![t] = err]
  BY <1>2 DEF OpenFails
<1>4. HandleOk(q)
  BY <1>2, ClosedOk
<1>5. q.pc = "closed" /\ q.last = "NULL"
  BY DEF Closed
<1>6. IF r.fd >= 0 THEN FdClose(t, r.fd, cause) ELSE fds' = fds /\ stolen' = stolen
  BY DEF OpenFails
<1> HIDE DEF m, q
<1>7. TypeInv'
  <2>1. fds' = fds \/ \E n, c : FdClose(t, n, c)
    BY <1>6
  <2> QED
    BY <1>3, <1>4, <2>1, TypeStep DEF IndInv, TypeInv
<1>8. Holds(q) = {}
  BY <1>5 DEF Holds, Opening, Writing
<1>9. FdsInv'
  <2>1. CASE /\ cause = "exit"
             /\ h[t].pc \in {"fstat", "mmap", "malloc", "reading", "check"}
    <3>1. CASE r.fd >= 0
      <4>1. Holds(h[t]) = {r.fd}
        BY <1>1, <2>1, <3>1 DEF HandleOk, HandleType, FieldsOk, Holds, Opening, Writing
      <4> QED
        BY <1>3, <1>5, <1>6, <1>8, <2>1, <3>1, <4>1, FdsCloses DEF IndInv
    <3>2. CASE ~(r.fd >= 0)
      <4>1. Holds(h[t]) = {}
        BY <1>1, <2>1, <3>2 DEF HandleOk, HandleType, FieldsOk, Holds, Opening, Writing
      <4> QED
        BY <1>3, <1>5, <1>6, <1>8, <3>2, <4>1, FdsStays DEF IndInv
    <3> QED
      BY <3>1, <3>2
  <2>2. CASE \/ cause = "strdup" /\ h[t].pc = "name"
             \/ cause = "reclose" /\ h[t].pc = "reclose"
    <3>1. Holds(h[t]) = {}
      BY <2>2 DEF Holds, Opening, Writing
    <3>2. CASE r.fd >= 0
      BY <1>3, <1>5, <1>6, <1>8, <2>2, <3>1, <3>2, FdsSlips DEF IndInv
    <3>3. CASE ~(r.fd >= 0)
      BY <1>3, <1>5, <1>6, <1>8, <3>1, <3>3, FdsStays DEF IndInv
    <3> QED
      BY <3>2, <3>3
  <2> QED
    BY <2>1, <2>2
<1>10. ImageInv'
  <2>1. ImageOk(q, file')
    BY <1>5, ImageFresh
  <2> QED
    BY <1>3, <2>1, ImageStep DEF IndInv
<1>11. FailureHasErrno'
  <2>1. errno'[t] = err
    BY <1>3 DEF IndInv, TypeInv
  <2> QED
    BY <1>3, <2>1, ErrnoStep DEF IndInv
<1> QED
  BY <1>7, <1>9, <1>10, <1>11 DEF IndInv

\* A step that touches no descriptor, no errno and not the file.
LEMMA QuietStep ==
    ASSUME IndInv, NEW t \in Handles, NEW r, Go(t, r), HandleOk(r),
           UNCHANGED <<file, fds, errno, rpl, alone, stolen>>,
           Holds(r) = Holds(h[t]), r.pc # "reclose",
           ImageOk(h[t], file) => ImageOk(r, file),
           r.pc \notin {"closed", "open"} \/ r.last \notin Bad
    PROVE  IndInv'
<1>1. TypeInv'
  BY TypeStep DEF IndInv, TypeInv
<1>2. FdsInv'
  BY FdsStays DEF IndInv
<1>3. ImageInv'
  <2>1. t \in alone' => ImageOk(r, file')
    BY DEF IndInv, ImageInv
  <2> QED
    BY <2>1, ImageStep DEF IndInv
<1>4. FailureHasErrno'
  BY ErrnoStep DEF IndInv
<1> QED
  BY <1>1, <1>2, <1>3, <1>4 DEF IndInv

LEMMA IndInit == Init => IndInv
<1> SUFFICES ASSUME Init PROVE IndInv
  OBVIOUS
<1>1. TypeInv
  <2>1. (CHOOSE c \in Cells : TRUE) \in Int
    <3>1. PICK c \in Cells : TRUE
      BY FileIOAssumption
    <3>2. (CHOOSE x \in Cells : TRUE) \in Cells
      BY <3>1, Zenon
    <3>3. \A x \in Cells : x \in Int
      BY FileIOAssumption
    <3> QED
      BY <3>2, <3>3, Zenon
  <2>2. file \in Seq(Int)
    BY <2>1 DEF Init, Regf
  <2>3. FieldsOk(Closed)
    BY DEF FieldsOk, Closed, Opening, Writing
  <2>4. HandleOk(Closed)
    BY <2>3, ClosedType DEF HandleOk
  <2> QED
    BY <2>2, <2>4 DEF Init, TypeInv
<1>2. FdsInv
  <2>1. Holds(Closed) = {} /\ Closed.pc = "closed"
    BY DEF Holds, Closed, Opening, Writing
  <2> QED
    BY <2>1, FileIOAssumption DEF Init, FdsInv, ClosesOnlyItsOwn
<1>3. ImageInv
  BY DEF Init, ImageInv
<1>4. FailureHasErrno
  BY DEF Init, FailureHasErrno, Closed
<1> QED
  BY <1>1, <1>2, <1>3, <1>4 DEF IndInv

LEMMA OpenInv ==
    ASSUME IndInv, NEW t \in Handles, NEW w \in BOOLEAN, Open(t, w)
    PROVE  IndInv'
<1> DEFINE q == [Closed EXCEPT !.pc = "name", !.writable = w]
<1>1. Go(t, q) /\ HandleOk(q) /\ h[t].pc = "closed"
  BY OpenOk DEF Open
<1>2. q.pc = "name" /\ q.last = "none"
  BY DEF Closed
<1> HIDE DEF q
<1>3. Holds(q) = Holds(h[t])
  BY <1>1, <1>2 DEF Holds, Opening, Writing
<1>4. TypeInv'
  BY <1>1, TypeStep DEF IndInv, TypeInv, Open
<1>5. FdsInv'
  BY <1>1, <1>2, <1>3, FdsStays DEF IndInv, Open
<1>6. ImageInv'
  <2>1. ImageOk(q, file')
    BY <1>2, ImageFresh
  <2> QED
    BY <1>1, <2>1, ImageStep DEF IndInv, Open
<1>7. FailureHasErrno'
  BY <1>1, <1>2, ErrnoStep DEF IndInv, Open
<1> QED
  BY <1>4, <1>5, <1>6, <1>7 DEF IndInv

LEMMA OpenFileInv ==
    ASSUME IndInv, NEW t \in Handles, OpenFile(t)
    PROVE  IndInv'
<1> DEFINE n == LowestFree
           q == [h[t] EXCEPT !.pc = "fstat", !.fd = n]
<1>1. HandleOk(h[t]) /\ h[t].pc = "name" /\ n \in Nat
  BY FreeDescriptor DEF IndInv, TypeInv, OpenFile
<1>2. Go(t, q) /\ HandleOk(q)
  <2> HIDE DEF n
  <2> QED
    BY <1>1, OpenFileOk DEF OpenFile, n
<1>3. q.pc = "fstat" /\ q.fd = n /\ q.last = h[t].last
  BY <1>1 DEF HandleOk, HandleType
<1> HIDE DEF q
<1>4. Holds(h[t]) = {} /\ Holds(q) = {n}
  BY <1>1, <1>3 DEF Holds, Opening, Writing
<1>5. TypeInv'
  BY <1>1, <1>2, TypeStep DEF IndInv, TypeInv, OpenFile
<1>6. FdsInv'
  BY <1>2, <1>3, <1>4, FdsOpens DEF IndInv, OpenFile
<1>7. ImageInv'
  <2>1. q.last \notin {"0", "-1"}
    BY <1>1, <1>3 DEF HandleOk, FieldsOk
  <2>2. ImageOk(q, file')
    BY <1>3, <2>1, ImageFresh
  <2> QED
    BY <1>2, <2>2, ImageStep DEF IndInv, OpenFile
<1>8. FailureHasErrno'
  BY <1>2, <1>3, ErrnoStep DEF IndInv, OpenFile
<1> QED
  BY <1>5, <1>6, <1>7, <1>8 DEF IndInv

LEMMA CannotOpenInv ==
    ASSUME IndInv, NEW t \in Handles, CannotOpen(t)
    PROVE  IndInv'
<1> DEFINE q == [Closed EXCEPT !.last = "NULL"]
<1>1. Go(t, q) /\ HandleOk(q) /\ h[t].pc = "name"
  BY ClosedOk DEF CannotOpen
<1>2. q.pc = "closed" /\ q.last = "NULL"
  BY DEF Closed
<1> HIDE DEF q
<1>3. Holds(q) = Holds(h[t])
  BY <1>1, <1>2 DEF Holds, Opening, Writing
<1>4. TypeInv'
  BY <1>1, TypeStep DEF IndInv, TypeInv, CannotOpen
<1>5. FdsInv'
  BY <1>1, <1>2, <1>3, FdsStays DEF IndInv, CannotOpen
<1>6. ImageInv'
  <2>1. ImageOk(q, file')
    BY <1>2, ImageFresh
  <2> QED
    BY <1>1, <2>1, ImageStep DEF IndInv, CannotOpen
<1>7. FailureHasErrno'
  <2>1. errno'[t] = "EMFILE"
    BY DEF CannotOpen, IndInv, TypeInv
  <2> QED
    BY <1>1, <2>1, ErrnoStep DEF IndInv, CannotOpen
<1> QED
  BY <1>4, <1>5, <1>6, <1>7 DEF IndInv

\* The steps of hivex_open that go well and touch no descriptor.
LEMMA FstatInv ==
    ASSUME IndInv, NEW t \in Handles, Fstat(t)
    PROVE  IndInv'
<1> DEFINE p == IF h[t].writable THEN "malloc" ELSE "mmap"
           q == [h[t] EXCEPT !.pc = p, !.size = Len(file)]
<1>1. HandleOk(h[t]) /\ h[t].pc = "fstat" /\ file \in Seq(Int) /\ Len(file) \in Nat
  BY DEF IndInv, TypeInv, Fstat
<1>2. Go(t, q) /\ HandleOk(q) /\ ImageOk(q, file)
  BY <1>1, FstatOk, FstatImage DEF Fstat
<1>3. q.pc \in {"malloc", "mmap"} /\ q.fd = h[t].fd
  BY <1>1 DEF HandleOk, HandleType
<1> HIDE DEF q
<1>4. Holds(q) = Holds(h[t])
  BY <1>1, <1>3 DEF Holds, Opening
<1> QED
  BY <1>2, <1>3, <1>4, QuietStep DEF Fstat

LEMMA MmapInv ==
    ASSUME IndInv, NEW t \in Handles, Mmap(t) \/ RplMmap(t)
    PROVE  IndInv'
<1>1. HandleOk(h[t]) /\ h[t].pc = "mmap" /\ h[t].size > 0
  BY DEF IndInv, TypeInv, Mmap, RplMmap
<1>2. PICK q \in {[h[t] EXCEPT !.pc = "check", !.mem = "map"],
                  [h[t] EXCEPT !.pc = "check", !.mem = "map", !.winmap = TRUE]} :
        Go(t, q)
  BY SMTT(60) DEF Mmap, RplMmap
<1>3. HandleOk(q) /\ (ImageOk(h[t], file) => ImageOk(q, file))
  BY <1>1, MmapOk, MmapImage
<1>4. q.pc = "check" /\ q.fd = h[t].fd /\ q.writable = FALSE
  BY <1>1 DEF HandleOk, HandleType, FieldsOk
<1>5. Holds(q) = Holds(h[t])
  BY <1>1, <1>4 DEF Holds, Opening
<1> QED
  BY <1>2, <1>3, <1>4, <1>5, QuietStep DEF Mmap, RplMmap

LEMMA MallocInv ==
    ASSUME IndInv, NEW t \in Handles, Malloc(t)
    PROVE  IndInv'
<1> DEFINE q == [h[t] EXCEPT !.pc = IF h[t].size = 0 THEN "read" ELSE "reading",
                             !.mem = "malloc", !.req = h[t].size,
                             !.addr = [i \in 1..h[t].size |-> Hole]]
<1>1. HandleOk(h[t]) /\ h[t].pc = "malloc" /\ file \in Seq(Int)
  BY DEF IndInv, TypeInv, Malloc
<1>2. Go(t, q) /\ HandleOk(q) /\ (ImageOk(h[t], file) => ImageOk(q, file))
  BY <1>1, MallocOk, MallocImage DEF Malloc
<1>3. q.pc \in {"read", "reading"} /\ q.fd = h[t].fd
  BY <1>1 DEF HandleOk, HandleType
<1> HIDE DEF q
<1>4. Holds(q) = Holds(h[t])
  BY <1>1, <1>3 DEF Holds, Opening
<1> QED
  BY <1>2, <1>3, <1>4, QuietStep DEF Malloc

LEMMA TooMuchInv ==
    ASSUME IndInv, NEW t \in Handles, TooMuch(t)
    PROVE  IndInv'
<1> DEFINE q == [h[t] EXCEPT !.req = BUGGY_READ_MAXIMUM]
<1>1. HandleOk(h[t]) /\ h[t].pc \in {"reading", "writing"}
  BY DEF IndInv, TypeInv, TooMuch, Transferring
<1>2. Go(t, q) /\ HandleOk(q) /\ (ImageOk(h[t], file) => ImageOk(q, file))
  BY <1>1, TooMuchOk, TooMuchImage DEF TooMuch
<1>3. /\ q.pc = h[t].pc /\ q.fd = h[t].fd /\ q.wfd = h[t].wfd
      /\ q.writable = h[t].writable
  BY <1>1 DEF HandleOk, HandleType
<1> HIDE DEF q
<1>4. Holds(q) = Holds(h[t])
  BY <1>1, <1>3 DEF Holds
<1> QED
  BY <1>1, <1>2, <1>3, <1>4, QuietStep DEF TooMuch

\* The transfers.
LEMMA ReadSomeInv ==
    ASSUME IndInv, NEW t \in Handles, NEW n \in 1..MaxSize, ReadSome(t, n)
    PROVE  IndInv'
<1> DEFINE m == MovedOf(h[t], n)
           a == FilledBy(h[t].addr, file, h[t].total, n)
           q == [m EXCEPT !.addr = a]
<1>1. /\ HandleOk(h[t]) /\ h[t].pc = "reading" /\ file \in Seq(Int)
      /\ n <= h[t].req /\ h[t].total + n <= Len(file)
  BY DEF IndInv, TypeInv, ReadSome
<1>2. n \in Nat \ {0} /\ h[t].addr \in Seq(Int) /\ h[t].total \in Nat
  BY <1>1, FileIOAssumption, SMTT(60) DEF HandleOk, HandleType
<1>3. Moved(t, n) = m
  BY DEF Moved, MovedOf
<1>4. HandleOk(m) /\ m.addr = h[t].addr
  BY <1>1, <1>2, MovedOk DEF MovedOf, HandleOk, HandleType
<1>5. Go(t, q)
  <2>1. q = [Moved(t, n) EXCEPT
                 !.addr = [i \in DOMAIN @ |->
                               IF i \in (h[t].total + 1)..(h[t].total + n)
                                 THEN file[i] ELSE @[i]]]
    <3> HIDE DEF m
    <3> QED
      BY <1>3, <1>4 DEF FilledBy, HandleOk, HandleType
  <2> QED
    BY <2>1 DEF ReadSome
<1>6. a \in Seq(Int) /\ Len(a) = Len(h[t].addr)
  BY <1>1, <1>2, FilledSeq
<1>7. HandleOk(q)
  <2> HIDE DEF m, a
  <2> QED
    BY <1>4, <1>6, FilledOk
<1>8. ImageOk(h[t], file) => ImageOk(q, file)
  BY <1>1, <1>2, ReadSomeImage
<1>9. q.pc \in {"read", "reading"} /\ q.fd = h[t].fd
  BY <1>1 DEF MovedOf, HandleOk, HandleType
<1> HIDE DEF q
<1>10. Holds(q) = Holds(h[t])
  BY <1>1, <1>9 DEF Holds, Opening
<1> QED
  BY <1>5, <1>7, <1>8, <1>9, <1>10, QuietStep DEF ReadSome

LEMMA WriteSomeInv ==
    ASSUME IndInv, NEW t \in Handles, NEW n \in 1..MaxSize, WriteSome(t, n)
    PROVE  IndInv'
<1> DEFINE q == MovedOf(h[t], n)
           w == WrittenTo(file, h[t].addr, h[t].total, n)
<1>1. /\ HandleOk(h[t]) /\ h[t].pc = "writing" /\ file \in Seq(Int)
      /\ n <= h[t].req
  BY DEF IndInv, TypeInv, WriteSome
<1>2. n \in Nat \ {0}
  BY FileIOAssumption
<1>3. Go(t, q) /\ HandleOk(q)
  <2>1. Moved(t, n) = q
    BY DEF Moved, MovedOf
  <2> QED
    BY <1>1, <1>2, <2>1, MovedOk DEF WriteSome
<1>4. file' = w
  BY DEF WriteSome, WrittenTo
<1>5. w \in Seq(Int) /\ (ImageOk(h[t], file) => ImageOk(q, w))
  BY <1>1, <1>2, WriteSomeImage
<1>6. q.pc \in {"writing", "written"} /\ q.wfd = h[t].wfd
  BY <1>1 DEF MovedOf, HandleOk, HandleType
<1> HIDE DEF q, w
<1>7. alone' = alone \cap {t}
  BY DEF WriteSome, Disturb
<1>8. Holds(q) = Holds(h[t])
  BY <1>1, <1>6 DEF Holds, Opening, Writing
<1>9. TypeInv'
  BY <1>3, <1>4, <1>5, <1>7, TypeStep DEF IndInv, TypeInv, WriteSome
<1>10. FdsInv'
  BY <1>3, <1>6, <1>8, FdsStays DEF IndInv, WriteSome
<1>11. ImageInv'
  <2>1. t \in alone' => ImageOk(q, file')
    BY <1>4, <1>5, <1>7 DEF IndInv, ImageInv
  <2> QED
    BY <1>3, <1>7, <2>1, ImageStep DEF IndInv
<1>12. FailureHasErrno'
  BY <1>3, <1>6, <1>7, ErrnoStep DEF IndInv, WriteSome
<1> QED
  BY <1>9, <1>10, <1>11, <1>12 DEF IndInv

LEMMA WriteFailsInv ==
    ASSUME IndInv, NEW t \in Handles, NEW err \in {"EIO", "ENOSPC"},
           WriteFails(t, err)
    PROVE  IndInv'
<1> DEFINE q == [h[t] EXCEPT !.pc = "open", !.last = "-1", !.wfd = NoFd,
                             !.total = 0, !.req = 0]
<1>1. HandleOk(h[t]) /\ h[t].pc = "writing" /\ file \in Seq(Int)
  BY SMTT(60) DEF IndInv, TypeInv, WriteFails
<1>2. Go(t, q) /\ HandleOk(q) /\ (ImageOk(h[t], file) => ImageOk(q, file))
  <2>1. h[t].pc \in Writing
    BY <1>1 DEF Writing
  <2> QED
    BY <1>1, <2>1, CommittedOk, CommittedImage DEF WriteFails
<1>3. q.pc = "open" /\ q.writable = TRUE
  BY <1>1 DEF HandleOk, HandleType, FieldsOk, Writing
<1> HIDE DEF q
<1>4. Holds(h[t]) = {h[t].wfd} /\ Holds(q) = {}
  BY <1>1, <1>3 DEF Holds, Opening, Writing
<1>5. FdClose(t, h[t].wfd, "exit")
  BY DEF WriteFails
<1>6. TypeInv'
  BY <1>2, <1>5, TypeStep DEF IndInv, TypeInv, WriteFails
<1>7. FdsInv'
  BY <1>2, <1>3, <1>4, <1>5, FdsCloses DEF IndInv
<1>8. ImageInv'
  <2>1. t \in alone' => ImageOk(q, file')
    BY <1>2 DEF IndInv, ImageInv, WriteFails
  <2> QED
    BY <1>2, <2>1, ImageStep DEF IndInv, WriteFails
<1>9. FailureHasErrno'
  <2>1. errno'[t] # "0"
    BY DEF WriteFails, IndInv, TypeInv
  <2> QED
    BY <1>2, <2>1, ErrnoStep DEF IndInv, WriteFails
<1> QED
  BY <1>6, <1>7, <1>8, <1>9 DEF IndInv

LEMMA CommitDoneInv ==
    ASSUME IndInv, NEW t \in Handles, CommitDone(t)
    PROVE  IndInv'
<1>1. HandleOk(h[t]) /\ h[t].pc = "written" /\ file \in Seq(Int)
  BY DEF IndInv, TypeInv, CommitDone
<1>2. PICK l \in {"0", "-1"} :
        /\ Go(t, [h[t] EXCEPT !.pc = "open", !.last = l, !.wfd = NoFd])
        /\ l = "0" => errno' = errno
        /\ l = "-1" => errno' = [errno EXCEPT ![t] = "EIO"]
  BY SMTT(60) DEF CommitDone
<1> DEFINE q == [h[t] EXCEPT !.pc = "open", !.last = l, !.wfd = NoFd]
<1>3. HandleOk(q) /\ (ImageOk(h[t], file) => ImageOk(q, file))
  <2>1. h[t].pc \in Writing
    BY <1>1 DEF Writing
  <2> QED
    BY <1>1, <2>1, CommittedOk, CommittedImage
<1>4. q.pc = "open" /\ q.last = l /\ q.writable = TRUE
  BY <1>1 DEF HandleOk, HandleType, FieldsOk, Writing
<1>5. Go(t, q)
  BY <1>2
<1> HIDE DEF q
<1>6. Holds(h[t]) = {h[t].wfd} /\ Holds(q) = {}
  BY <1>1, <1>4 DEF Holds, Opening, Writing
<1>7. FdClose(t, h[t].wfd, "exit")
  BY SMTT(60) DEF CommitDone
<1>8. errno' = errno \/ \E e : errno' = [errno EXCEPT ![t] = e]
  BY <1>2
<1>9. TypeInv'
  BY <1>3, <1>5, <1>7, <1>8, TypeStep DEF IndInv, TypeInv, CommitDone
<1>10. FdsInv'
  BY <1>4, <1>5, <1>6, <1>7, FdsCloses DEF IndInv
<1>11. ImageInv'
  <2>1. t \in alone' => ImageOk(q, file')
    BY <1>3 DEF IndInv, ImageInv, CommitDone
  <2> QED
    BY <1>5, <2>1, ImageStep DEF IndInv, CommitDone
<1>12. FailureHasErrno'
  <2>1. q.last \notin Bad \/ errno'[t] # "0"
    BY <1>2, <1>4 DEF Bad, IndInv, TypeInv
  <2> QED
    BY <1>5, <1>8, <2>1, ErrnoStep DEF IndInv, CommitDone
<1> QED
  BY <1>9, <1>10, <1>11, <1>12 DEF IndInv

\* The image has been read: the descriptor is closed, well or not.
LEMMA ReadDoneInv ==
    ASSUME IndInv, NEW t \in Handles, ReadDone(t) \/ ReadDoneCloseFails(t)
    PROVE  IndInv'
<1>1. HandleOk(h[t]) /\ h[t].pc = "read" /\ h[t].writable = TRUE
  BY DEF IndInv, TypeInv, ReadDone, ReadDoneCloseFails, HandleOk, HandleType, FieldsOk
<1>2. PICK q \in {[h[t] EXCEPT !.pc = "check", !.fd = NoFd],
                  [h[t] EXCEPT !.pc = "reclose"]} : Go(t, q)
  BY DEF ReadDone, ReadDoneCloseFails
<1>3. HandleOk(q) /\ (ImageOk(h[t], file) => ImageOk(q, file))
  BY <1>1, ReadDoneOk, ReadDoneImage
<1>4. /\ q.pc \in {"check", "reclose"} /\ q.writable = TRUE
      /\ q.pc = "reclose" => q.fd = h[t].fd
  BY <1>1 DEF HandleOk, HandleType
<1>5. Holds(h[t]) = {h[t].fd} /\ Holds(q) = {}
  BY <1>1, <1>4 DEF Holds, Opening, Writing
<1>6. FdClose(t, h[t].fd, "exit") /\ UNCHANGED <<file, errno, rpl, alone>>
  BY DEF ReadDone, ReadDoneCloseFails
<1>7. TypeInv'
  BY <1>2, <1>3, <1>6, TypeStep DEF IndInv, TypeInv
<1>8. FdsInv'
  BY <1>2, <1>4, <1>5, <1>6, FdsCloses DEF IndInv
<1>9. ImageInv'
  <2>1. t \in alone' => ImageOk(q, file')
    BY <1>3, <1>6 DEF IndInv, ImageInv
  <2> QED
    BY <1>2, <1>6, <2>1, ImageStep DEF IndInv
<1>10. FailureHasErrno'
  BY <1>2, <1>4, <1>6, ErrnoStep DEF IndInv
<1> QED
  BY <1>7, <1>8, <1>9, <1>10 DEF IndInv

LEMMA CheckInv ==
    ASSUME IndInv, NEW t \in Handles, Check(t)
    PROVE  IndInv'
<1>1. HandleOk(h[t]) /\ h[t].pc = "check"
  BY DEF IndInv, TypeInv, Check
<1>2. CASE IsHive(SubSeq(View(t), 1, h[t].size))
  <2> DEFINE q == [h[t] EXCEPT !.pc = "open", !.last = "handle"]
  <2>1. h[t].size > 0
    <3>1. h[t].size \in Nat /\ View(t) \in Seq(Int)
      BY <1>1 DEF IndInv, TypeInv, View, HandleOk, HandleType
    <3>2. h[t].size = 0 => Len(SubSeq(View(t), 1, h[t].size)) = 0
      BY <3>1
    <3> QED
      BY <1>2, <3>1, <3>2 DEF IsHive
  <2>2. Go(t, q) /\ UNCHANGED <<file, fds, errno, rpl, alone, stolen>>
    BY <1>2 DEF Check
  <2>3. HandleOk(q) /\ (ImageOk(h[t], file) => ImageOk(q, file))
    BY <1>1, <2>1, CheckOk, CheckImage
  <2>4. /\ q.pc = "open" /\ q.last = "handle"
        /\ q.fd = h[t].fd /\ q.writable = h[t].writable
    BY <1>1 DEF HandleOk, HandleType
  <2> HIDE DEF q
  <2>5. Holds(q) = Holds(h[t])
    BY <1>1, <2>4 DEF Holds, Opening, Writing
  <2> QED
    BY <2>2, <2>3, <2>4, <2>5, QuietStep DEF Bad
<1>3. CASE ~IsHive(SubSeq(View(t), 1, h[t].size))
  <2>1. OpenFails(t, "ENOTSUP", "exit") /\ UNCHANGED <<file, rpl, alone>>
    BY <1>3 DEF Check
  <2> QED
    BY <1>1, <2>1, OpenFailsStep
<1> QED
  BY <1>2, <1>3

\* Every other way out of hivex_open that fails.
LEMMA FailuresInv ==
    ASSUME IndInv, NEW t \in Handles,
           \/ NoName(t) \/ FstatFails(t) \/ MmapFails(t) \/ RplMmapFails(t)
           \/ MallocFails(t) \/ ReadEof(t) \/ ReadFails(t) \/ ReadReclose(t)
    PROVE  IndInv'
<1>1. CASE NoName(t)
  BY <1>1, OpenFailsStep DEF NoName
<1>2. CASE FstatFails(t)
  BY <1>2, OpenFailsStep DEF FstatFails
<1>3. CASE MmapFails(t)
  <2> DEFINE e == IF h[t].size = 0 THEN "EINVAL" ELSE "ENOMEM"
  <2>1. e # "0" /\ OpenFails(t, e, "exit") /\ h[t].pc = "mmap"
    BY <1>3 DEF MmapFails
  <2> HIDE DEF e
  <2> QED
    BY <1>3, <2>1, OpenFailsStep DEF MmapFails
<1>4. CASE RplMmapFails(t)
  BY <1>4, OpenFailsStep DEF RplMmapFails
<1>5. CASE MallocFails(t)
  BY <1>5, OpenFailsStep DEF MallocFails
<1>6. CASE ReadEof(t)
  <2>1. t \notin alone
    <3>1. ASSUME t \in alone PROVE FALSE
      <4>1. HandleOk(h[t]) /\ ImageOk(h[t], file) /\ h[t].pc = "reading"
        BY <1>6, <3>1 DEF IndInv, TypeInv, ImageInv, ReadEof
      <4>2. h[t].size = Len(file) /\ h[t].total < h[t].size
        BY <4>1 DEF ImageOk, HandleOk, HandleType, FieldsOk
      <4> QED
        BY <1>6, <4>1, <4>2 DEF ReadEof, HandleOk, HandleType
    <3> QED
      BY <3>1
  <2> QED
    BY <1>6, <2>1, OpenFailsStep DEF ReadEof
<1>7. CASE ReadFails(t)
  BY <1>7, OpenFailsStep DEF ReadFails
<1>8. CASE ReadReclose(t)
  BY <1>8, OpenFailsStep DEF ReadReclose
<1> QED
  BY <1>1, <1>2, <1>3, <1>4, <1>5, <1>6, <1>7, <1>8

LEMMA EditInv ==
    ASSUME IndInv, NEW t \in Handles, NEW i \in 2..MaxSize, NEW c \in Cells,
           Edit(t, i, c)
    PROVE  IndInv'
<1> DEFINE q == [h[t] EXCEPT !.addr = EditOf(h[t].addr, i, c),
                             !.size = IF i > h[t].size THEN i ELSE h[t].size,
                             !.last = "edited"]
<1>1. /\ HandleOk(h[t]) /\ h[t].pc = "open" /\ h[t].writable
      /\ i <= h[t].size + 1
  BY DEF IndInv, TypeInv, Edit
<1>2. i \in Nat \ {0} /\ c \in Int
  BY FileIOAssumption
<1>3. Go(t, q)
  <2>1. [h[t] EXCEPT !.addr = [j \in 1..Len(@) \cup {i} |->
                                        IF j = i THEN c ELSE @[j]],
                     !.size = IF i > @ THEN i ELSE @,
                     !.last = "edited"] = q
    BY <1>1 DEF EditOf, HandleOk, HandleType
  <2> QED
    BY <2>1 DEF Edit
<1>4. HandleOk(q)
  BY <1>1, <1>2, EditOk
<1>5. ImageOk(q, file)
  BY <1>1, EditImage
<1>6. /\ q.pc = "open" /\ q.last = "edited" /\ q.fd = h[t].fd
      /\ q.writable = h[t].writable
  BY <1>1 DEF HandleOk, HandleType
<1> HIDE DEF q
<1>7. Holds(q) = Holds(h[t])
  BY <1>1, <1>6 DEF Holds, Opening, Writing
<1> QED
  BY <1>3, <1>4, <1>5, <1>6, <1>7, QuietStep DEF Edit, Bad

\* hivex_commit gives up before it has touched the file.
LEMMA CommitRefusedInv ==
    ASSUME IndInv, NEW t \in Handles, CommitRefused(t) \/ CommitCannotOpen(t)
    PROVE  IndInv'
<1> DEFINE q == [h[t] EXCEPT !.last = "refused"]
<1>1. HandleOk(h[t]) /\ h[t].pc = "open"
  BY DEF IndInv, TypeInv, CommitRefused, CommitCannotOpen
<1>2. Go(t, q) /\ UNCHANGED <<file, fds, rpl, alone, stolen>>
  BY DEF CommitRefused, CommitCannotOpen
<1>3. HandleOk(q) /\ (ImageOk(h[t], file) => ImageOk(q, file))
  BY <1>1, RefusedOk, RefusedImage
<1>4. q.pc = "open" /\ q.fd = h[t].fd /\ q.writable = h[t].writable
  BY <1>1 DEF HandleOk, HandleType
<1> HIDE DEF q
<1>5. Holds(q) = Holds(h[t])
  BY <1>1, <1>4 DEF Holds, Opening, Writing
<1>6. PICK e \in {"EROFS", "EMFILE"} : errno' = [errno EXCEPT ![t] = e]
  BY DEF CommitRefused, CommitCannotOpen
<1>7. TypeInv'
  BY <1>2, <1>3, <1>6, TypeStep DEF IndInv, TypeInv
<1>8. FdsInv'
  BY <1>2, <1>4, <1>5, FdsStays DEF IndInv
<1>9. ImageInv'
  <2>1. t \in alone' => ImageOk(q, file')
    BY <1>2, <1>3 DEF IndInv, ImageInv
  <2> QED
    BY <1>2, <2>1, ImageStep DEF IndInv
<1>10. FailureHasErrno'
  <2>1. errno'[t] # "0"
    BY <1>6 DEF IndInv, TypeInv
  <2> QED
    BY <1>2, <1>6, <2>1, ErrnoStep DEF IndInv
<1> QED
  BY <1>7, <1>8, <1>9, <1>10 DEF IndInv

LEMMA CommitInv ==
    ASSUME IndInv, NEW t \in Handles, Commit(t)
    PROVE  IndInv'
<1> DEFINE n == LowestFree
           q == [h[t] EXCEPT !.pc = "writing", !.wfd = n, !.last = "none",
                             !.addr[1] = @ + 1, !.total = 0, !.req = h[t].size]
<1>1. HandleOk(h[t]) /\ h[t].pc = "open" /\ h[t].writable /\ n \in Nat
  BY FreeDescriptor DEF IndInv, TypeInv, Commit
<1>2. Go(t, q) /\ HandleOk(q) /\ ImageOk(q, <<>>)
  <2> HIDE DEF n
  <2> QED
    BY <1>1, CommitOk, CommitImage DEF Commit, n
<1>3. q.pc = "writing" /\ q.wfd = n
  BY <1>1 DEF HandleOk, HandleType
<1> HIDE DEF q
<1>4. Holds(h[t]) = {} /\ Holds(q) = {n}
  BY <1>1, <1>3 DEF Holds, Opening, Writing
<1>5. file' = <<>> /\ FdOpen(t) /\ alone' = {t} /\ UNCHANGED <<errno, rpl, stolen>>
  BY DEF Commit
<1>6. TypeInv'
  <2>1. <<>> \in Seq(Int)
    OBVIOUS
  <2> QED
    BY <1>1, <1>2, <1>5, <2>1, TypeStep DEF IndInv
<1>7. FdsInv'
  BY <1>2, <1>3, <1>4, <1>5, FdsOpens DEF IndInv
<1>8. ImageInv'
  BY <1>2, <1>5, ImageStep DEF IndInv
<1>9. FailureHasErrno'
  BY <1>2, <1>3, <1>5, ErrnoStep DEF IndInv
<1> QED
  BY <1>6, <1>7, <1>8, <1>9 DEF IndInv

LEMMA CloseInv ==
    ASSUME IndInv, NEW t \in Handles, Close(t)
    PROVE  IndInv'
<1> DEFINE q == [Closed EXCEPT !.last = "closed"]
<1>1. HandleOk(h[t]) /\ h[t].pc = "open"
  BY DEF IndInv, TypeInv, Close
<1>2. Go(t, q) /\ HandleOk(q)
  BY ClosedOk DEF Close
<1>3. q.pc = "closed" /\ q.last = "closed"
  BY DEF Closed
<1> HIDE DEF q
<1>4. Holds(q) = {}
  BY <1>3 DEF Holds, Opening, Writing
<1>5. UNCHANGED <<file, errno, rpl, alone>>
  BY DEF Close
<1>6. ImageInv'
  <2>1. ImageOk(q, file')
    BY <1>3, ImageFresh
  <2> QED
    BY <1>2, <1>5, <2>1, ImageStep DEF IndInv
<1>7. FailureHasErrno'
  BY <1>2, <1>3, <1>5, ErrnoStep DEF IndInv, Bad
<1>8. CASE h[t].fd >= 0
  <2>1. FdClose(t, h[t].fd, "exit")
    BY <1>8 DEF Close
  <2>2. Holds(h[t]) = {h[t].fd}
    BY <1>1, <1>8 DEF Holds, HandleOk, HandleType, FieldsOk, Opening, Writing
  <2>3. TypeInv'
    BY <1>2, <1>5, <2>1, TypeStep DEF IndInv, TypeInv
  <2>4. FdsInv'
    BY <1>2, <1>3, <1>4, <2>1, <2>2, FdsCloses DEF IndInv
  <2> QED
    BY <1>6, <1>7, <2>3, <2>4 DEF IndInv
<1>9. CASE ~(h[t].fd >= 0)
  <2>1. fds' = fds /\ stolen' = stolen
    BY <1>9 DEF Close
  <2>2. Holds(h[t]) = {}
    BY <1>1, <1>9 DEF Holds, HandleOk, HandleType, FieldsOk, Opening, Writing
  <2>3. TypeInv'
    BY <1>2, <1>5, <2>1, TypeStep DEF IndInv, TypeInv
  <2>4. FdsInv'
    BY <1>2, <1>3, <1>4, <2>1, <2>2, FdsStays DEF IndInv
  <2> QED
    BY <1>6, <1>7, <2>3, <2>4 DEF IndInv
<1> QED
  BY <1>8, <1>9

\* A step that the invariant does not see: a signal, or the end of the
\* process.
LEMMA UnseenInv ==
    ASSUME IndInv, UNCHANGED <<file, fds, h, errno, rpl, alone, stolen>>
    PROVE  IndInv'
<1>1. TypeInv'
  BY DEF IndInv, TypeInv
<1>2. FdsInv'
  BY DEF IndInv, FdsInv, Robbed, ClosesOnlyItsOwn
<1>3. ImageInv'
  BY DEF IndInv, ImageInv
<1>4. FailureHasErrno'
  BY DEF IndInv, FailureHasErrno, InCall
<1> QED
  BY <1>1, <1>2, <1>3, <1>4 DEF IndInv

LEMMA IndNext == IndInv /\ [Next]_vars => IndInv'
<1> SUFFICES ASSUME IndInv, [Next]_vars PROVE IndInv'
  OBVIOUS
<1>1. CASE UNCHANGED vars
  BY <1>1, UnseenInv DEF vars
<1>2. ASSUME NEW t \in Handles, OpenStep(t) PROVE IndInv'
  <2>1. CASE Sigbus(t)
    BY <2>1, UnseenInv DEF Sigbus
  <2> QED
    BY <1>2, <2>1, OpenFileInv, FstatInv, MmapInv, FailuresInv, MallocInv,
       ReadDoneInv, CheckInv DEF OpenStep
<1>3. ASSUME NEW t \in Handles, TransferStep(t) PROVE IndInv'
  BY <1>3, ReadSomeInv, WriteSomeInv, FailuresInv, TooMuchInv DEF TransferStep
<1>4. ASSUME NEW t \in Handles, Fault(t) PROVE IndInv'
  <2>1. CASE Interrupted(t)
    BY <2>1, UnseenInv DEF Interrupted
  <2> QED
    BY <1>4, <2>1, FailuresInv, CannotOpenInv, ReadDoneInv, WriteFailsInv DEF Fault
<1>5. ASSUME NEW t \in Handles, Call(t) PROVE IndInv'
  BY <1>5, OpenInv, EditInv, CommitRefusedInv, CommitInv, CloseInv DEF Call
<1> QED
  BY <1>1, <1>2, <1>3, <1>4, <1>5, CommitDoneInv DEF Next, Step

-----------------------------------------------------------------------------
(* What the invariant says of the calls *)

LEMMA IndTransfersWhole == IndInv => TransfersWhole
<1> SUFFICES ASSUME IndInv PROVE TransfersWhole
  OBVIOUS
<1>1. \A t \in Handles : Transferring(t) => h[t].req \in 1..(h[t].size - h[t].total)
  BY DEF IndInv, TypeInv, HandleOk, FieldsOk, Transferring
<1>2. ASSUME NEW t \in alone
      PROVE  /\ h[t].pc = "open" /\ h[t].last = "handle" =>
                   SubSeq(View(t), 1, h[t].size) = file /\ h[t].size = Len(file)
             /\ h[t].last = "0" => file = h[t].addr
             /\ h[t].pc = "open" /\ h[t].writable /\ h[t].last = "-1" =>
                   IsPrefix(file, h[t].addr)
  <2>1. HandleOk(h[t]) /\ ImageOk(h[t], file) /\ file \in Seq(Int)
    BY <1>2 DEF IndInv, TypeInv, ImageInv
  <2>2. SubSeq(file, 1, Len(file)) = file
    BY <2>1, SubSeqFull
  <2>3. ASSUME h[t].pc = "open", h[t].last = "handle"
        PROVE  SubSeq(View(t), 1, h[t].size) = file /\ h[t].size = Len(file)
    <3>1. h[t].size = Len(file)
      BY <2>1, <2>3 DEF ImageOk, HandleOk, HandleType, FieldsOk
    <3>2. View(t) = file
      BY <2>1, <2>3 DEF View, ImageOk, HandleOk, HandleType, FieldsOk
    <3> QED
      BY <2>2, <3>1, <3>2
  <2>4. h[t].last = "0" => file = h[t].addr
    BY <2>1 DEF ImageOk
  <2>5. ASSUME h[t].last = "-1" PROVE IsPrefix(file, h[t].addr)
    <3> DEFINE a == h[t].addr
               s == SubSeq(a, 1, Len(file))
    <3>1. /\ a \in Seq(Int) /\ Len(file) <= Len(a) /\ Len(file) \in Nat
          /\ \A i \in 1..Len(file) : a[i] = file[i]
      BY <2>1, <2>5 DEF ImageOk, Begins, HandleOk, HandleType
    <3>2. \A i \in 1..Len(file) : a[i] \in Int
      BY <2>1, <3>1
    <3> HIDE DEF a
    <3>3. /\ s \in Seq(Int) /\ Len(s) = Len(file)
          /\ \A i \in 1..Len(file) : s[i] = a[i]
      <4>1. /\ s \in Seq(Int)
            /\ Len(s) = IF 1 <= Len(file) THEN Len(file) - 1 + 1 ELSE 0
            /\ \A i \in 1..(Len(file) - 1 + 1) : s[i] = a[1 + i - 1]
        BY <3>1, <3>2, SubSeqProperties
      <4> HIDE DEF s
      <4> QED
        BY <3>1, <4>1
    <3> HIDE DEF s
    <3>4. s = file
      BY <2>1, <3>1, <3>3, SeqEqual
    <3> QED
      BY <2>2, <3>1, <3>4 DEF IsPrefix, s, a
  <2> QED
    BY <2>3, <2>4, <2>5
<1> QED
  BY <1>1, <1>2 DEF TransfersWhole

LEMMA IndNothingLeft == IndInv => NothingLeft
<1> SUFFICES ASSUME IndInv, NEW t \in Handles
             PROVE  /\ h[t].pc = "closed" => /\ h[t].mem # "map" /\ ~h[t].winmap
                                             /\ \A n \in DOMAIN fds : fds[n] # t
                    /\ h[t].pc = "open" =>
                          Cardinality({n \in DOMAIN fds : fds[n] = t})
                             <= IF h[t].writable THEN 0 ELSE 1
  BY DEF NothingLeft
<1> DEFINE D == {n \in DOMAIN fds : fds[n] = t}
<1>1. HandleOk(h[t]) /\ D \subseteq Holds(h[t])
  BY DEF IndInv, TypeInv, FdsInv
<1>2. ASSUME h[t].pc = "closed"
      PROVE  h[t].mem # "map" /\ ~h[t].winmap /\ \A n \in DOMAIN fds : fds[n] # t
  <2>1. Holds(h[t]) = {}
    BY <1>2 DEF Holds, Opening, Writing
  <2> QED
    BY <1>1, <1>2, <2>1 DEF HandleOk, FieldsOk
<1>3. ASSUME h[t].pc = "open"
      PROVE  Cardinality(D) <= IF h[t].writable THEN 0 ELSE 1
  <2> HIDE DEF D
  <2>1. CASE h[t].writable
    <3>1. Holds(h[t]) = {}
      BY <1>3, <2>1 DEF Holds, Opening, Writing
    <3>2. D = {}
      BY <1>1, <3>1
    <3> QED
      BY <2>1, <3>2, FS_EmptySet
  <2>2. CASE ~h[t].writable
    <3>1. Holds(h[t]) = {h[t].fd}
      BY <1>3, <2>2 DEF Holds, Opening, Writing
    <3>2. Cardinality(D) <= Cardinality({h[t].fd}) /\ Cardinality({h[t].fd}) = 1
      BY <1>1, <3>1, FS_Singleton, FS_Subset
    <3> QED
      BY <2>2, <3>2
  <2> QED
    BY <2>1, <2>2
<1> QED
  BY <1>2, <1>3

\* A page past the end of the file is touched only by a thread that another
\* one's commit has disturbed.
LEMMA FaultNext ==
    IndInv /\ FaultNeedsCommit /\ [Next]_vars => FaultNeedsCommit'
<1> SUFFICES ASSUME IndInv, FaultNeedsCommit, [Next]_vars PROVE FaultNeedsCommit'
  OBVIOUS
<1>1. CASE UNCHANGED vars
  BY <1>1 DEF vars, FaultNeedsCommit
<1>2. ASSUME NEW t \in Handles, Sigbus(t) PROVE FaultNeedsCommit'
  <2>1. h[t].mem = "map" /\ Len(file) < h[t].size /\ HandleOk(h[t])
    BY <1>2 DEF Sigbus, Touches, IndInv, TypeInv, HandleOk, HandleType
  <2>2. h[t].pc \in {"check", "open"} /\ ~h[t].writable
    BY <2>1 DEF HandleOk, FieldsOk
  <2>3. ASSUME t \in alone PROVE FALSE
    <3>1. ImageOk(h[t], file)
      BY <2>3 DEF IndInv, ImageInv
    <3>2. h[t].size = Len(file)
      BY <2>2, <3>1 DEF ImageOk
    <3>3. Len(file) \in Nat
      BY DEF IndInv, TypeInv
    <3> QED
      BY <2>1, <3>2, <3>3
  <2> QED
    BY <1>2, <2>1, <2>2, <2>3 DEF FaultNeedsCommit, Sigbus
<1>3. ASSUME NEW t \in Handles, ~killed, Step(t) \/ Fault(t) \/ Call(t), ~Sigbus(t)
      PROVE  ~killed'
  <2>1. CASE OpenStep(t)
    BY <1>3, <2>1 DEF OpenStep, OpenFile, Fstat, Mmap, MmapFails, RplMmap,
       RplMmapFails, Malloc, ReadDone, ReadReclose, Check
  <2>2. CASE TransferStep(t) \/ CommitDone(t)
    BY <1>3, <2>2 DEF TransferStep, ReadSome, WriteSome, ReadEof, TooMuch, CommitDone
  <2>3. CASE Fault(t)
    BY <1>3, <2>3 DEF Fault, NoName, CannotOpen, FstatFails, MallocFails, ReadFails,
       ReadDoneCloseFails, Interrupted, WriteFails
  <2>4. CASE Call(t)
    BY <1>3, <2>4 DEF Call, Open, Edit, CommitRefused, Commit, CommitCannotOpen, Close
  <2> QED
    BY <1>3, <2>1, <2>2, <2>3, <2>4 DEF Step
<1> QED
  BY <1>1, <1>2, <1>3 DEF Next, FaultNeedsCommit

LEMMA IndCorrect == Spec => []IndInv
<1>1. IndInv /\ [Next]_vars => IndInv'
  BY IndNext
<1> QED
  BY <1>1, IndInit, PTL DEF Spec

\* However read and write are cut short, interrupted or refused, and however
\* the threads interleave: a handle that hivex_open returns shows the whole
\* file, a commit that returns 0 has left the whole image in the file and one
\* that fails a beginning of it, unless another thread committed meanwhile;
\* no call of safe_rw asks for more than is left.
THEOREM TransfersCorrect == Spec => []TransfersWhole
BY IndCorrect, IndTransfersWhole, PTL

\* SIGBUS hits the reader of a mapped file only after another thread's
\* hivex_commit has truncated that file, and never a writable handle.
THEOREM FaultCorrect == Spec => []FaultNeedsCommit
<1>1. Init => FaultNeedsCommit
  BY DEF Init, FaultNeedsCommit
<1>2. IndInv /\ FaultNeedsCommit /\ [Next]_vars => FaultNeedsCommit'
  BY FaultNext
<1> QED
  BY <1>1, <1>2, IndCorrect, PTL DEF Spec

\* Every failing return of hivex_open and hivex_commit has set errno, but
\* for the end of file that full_read reports as 0 after another thread's
\* commit and the mmap replacement, which sets none.
THEOREM ErrnoCorrect == Spec => []FailureHasErrno
<1>1. IndInv => FailureHasErrno
  BY DEF IndInv
<1> QED
  BY <1>1, IndCorrect, PTL

\* With any number of threads: hivex_open closes a descriptor it does not
\* own only where the file name could not be copied (standard input) and
\* where the close of the file failed (the same number again); every other
\* theft follows one of these.
THEOREM DescriptorsCorrect == Spec => []ClosesOnlyItsOwn
<1>1. IndInv => ClosesOnlyItsOwn
  BY DEF IndInv, FdsInv
<1> QED
  BY <1>1, IndCorrect, PTL

\* Whichever exit hivex_open, hivex_commit or hivex_close takes, a closed
\* handle has no descriptor, no mapping and no mapping object left, an open
\* one at most the descriptor of a read-only open.
THEOREM NothingLeftCorrect == Spec => []NothingLeft
BY IndCorrect, IndNothingLeft, PTL

=============================================================================
