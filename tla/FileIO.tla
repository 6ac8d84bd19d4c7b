------------------------------- MODULE FileIO -------------------------------
(***************************************************************************)
(* How a hive gets into memory and back to its file: the first half of     *)
(* hivex_open, hivex_commit and hivex_close (lib/hivex.c) on top of        *)
(* gnulib's full_read, full_write and safe_rw, of the mmap replacement for *)
(* mingw (lib/mmap.c) and of the system calls.  The threads of one process *)
(* each use a handle on the same file, so that opens, commits and closes   *)
(* interleave at every system call.                                        *)
(*                                                                         *)
(* A file is a sequence of cells.  Its first cell is the header, the       *)
(* sequence number marked by Regf; a cell that was never written is a      *)
(* Hole.  What hivex_open does with the blocks once the bytes are in       *)
(* memory is HiveBlocks; here it is the action Check.                      *)
(***************************************************************************)
EXTENDS Integers, Sequences, SequencesExt, FiniteSets

CONSTANTS Handles,             \* the threads, each with its handle
          Cells,               \* what a cell that is not the header may hold
          MaxSize,             \* bound: cells of an image
          MaxCommits,          \* bound: calls of hivex_commit
          MaxOpens,            \* bound: calls of hivex_open
          MaxEdits,            \* bound: changes of an image
          MaxInterrupts,       \* bound: system calls cut short by a signal
          BUGGY_READ_MAXIMUM   \* cells the kernel surely takes in one call

ASSUME FileIOAssumption ==
    /\ IsFiniteSet(Handles) /\ "stdin" \notin Handles
    /\ MaxSize \in Nat \ {0}
    /\ Cells \subseteq 1..9 /\ Cells # {}
    /\ BUGGY_READ_MAXIMUM \in Nat \ {0}

VARIABLES
    file,      \* the cells of the file
    fds,       \* who opened each open descriptor of the process
    h,         \* the hive_h of each thread, with the locals of its call
    errno,     \* the errno of each thread
    bounds,    \* the calls and interrupts so far
    rpl,       \* whether this build uses the mmap replacement
    killed,    \* SIGBUS: a mapped page of the file is gone
    alone,     \* threads that no other thread's commit has disturbed
    stolen     \* <<owner, cause>>: descriptors closed by a thread that
               \* does not own them

vars == <<file, fds, h, errno, bounds, rpl, killed, alone, stolen>>

Hole == 0
Regf == 10
NoFd == -1
\* pc: where the call is; last: what the last call returned ("refused": -1
\* before the file was touched); fd, writable,
\* addr, size: the fields of hive_h; mem: what addr points to; winmap: the
\* file mapping object of the replacement; total and req: the locals of
\* full_rw and safe_rw; wfd: hivex_commit's descriptor.
Closed ==
    [pc |-> "closed", last |-> "none", fd |-> 0, writable |-> FALSE,
     addr |-> <<>>, size |-> 0, mem |-> "none", winmap |-> FALSE,
     total |-> 0, req |-> 0, wfd |-> NoFd]

Init ==
    /\ file = <<Regf, CHOOSE c \in Cells : TRUE>>
    /\ fds = [n \in {0} |-> "stdin"]
    /\ h = [t \in Handles |-> Closed]
    /\ errno = [t \in Handles |-> "0"]
    /\ bounds = [opens |-> 0, commits |-> 0, edits |-> 0, interrupts |-> 0]
    /\ rpl \in BOOLEAN
    /\ killed = FALSE
    /\ alone = {}
    /\ stolen = {}

-----------------------------------------------------------------------------
(* Descriptors: open takes the lowest number that is free, close gives it *)
(* up whatever it returns.                                                *)

LowestFree == CHOOSE n \in 0..(Cardinality(Handles) * 2 + 1) :
                  /\ n \notin DOMAIN fds
                  /\ \A i \in 0..(n - 1) : i \in DOMAIN fds

FdOpen(t) == fds' = [n \in DOMAIN fds \cup {LowestFree} |->
                         IF n \in DOMAIN fds THEN fds[n] ELSE t]

\* Thread t closes descriptor n (nothing happens if no file is open there).
FdClose(t, n, cause) ==
    /\ fds' = [i \in DOMAIN fds \ {n} |-> fds[i]]
    /\ stolen' = IF n \in DOMAIN fds /\ fds[n] # t
                     THEN stolen \cup {<<fds[n], cause>>}
                     ELSE stolen

\* The file changes under every other thread.
Disturb(t) == alone' = alone \cap {t}

Count(what) == bounds' = [bounds EXCEPT ![what] = @ + 1]

Go(t, fields) == h' = [h EXCEPT ![t] = fields]

-----------------------------------------------------------------------------
(* hivex_open. *)

\* The error exit: errno is kept, the mapping or the memory given up and
\* h->fd closed if it is not negative.
OpenFails(t, err, cause) ==
    LET r == h[t]
        gone == r.mem # "none" /\ r.size # 0
    IN  /\ errno' = [errno EXCEPT ![t] = err]
        /\ Go(t, [Closed EXCEPT !.last = "NULL",
                                !.mem = IF gone THEN "none" ELSE r.mem,
                                !.winmap = r.winmap /\ ~gone])
        /\ IF r.fd >= 0
             THEN FdClose(t, r.fd, cause)
             ELSE UNCHANGED <<fds, stolen>>

\* The call starts: a zeroed hive_h, and the file name copied.
Open(t, write) ==
    /\ h[t].pc = "closed"
    /\ bounds.opens < MaxOpens
    /\ Count("opens")
    /\ Go(t, [Closed EXCEPT !.pc = "name", !.writable = write])
    /\ alone' = alone \cup {t}
    /\ UNCHANGED <<file, fds, errno, rpl, killed, stolen>>

NoName(t) ==
    /\ h[t].pc = "name"
    /\ OpenFails(t, "ENOMEM", "strdup")
    /\ UNCHANGED <<file, bounds, rpl, killed, alone>>

OpenFile(t) ==
    /\ h[t].pc = "name"
    /\ FdOpen(t)
    /\ Go(t, [h[t] EXCEPT !.pc = "fstat", !.fd = LowestFree])
    /\ UNCHANGED <<file, errno, bounds, rpl, killed, alone, stolen>>

\* open fails: h->fd is -1.
CannotOpen(t) ==
    /\ h[t].pc = "name"
    /\ errno' = [errno EXCEPT ![t] = "EMFILE"]
    /\ Go(t, [Closed EXCEPT !.last = "NULL"])
    /\ UNCHANGED <<file, fds, bounds, rpl, killed, alone, stolen>>

\* Slip: the size is rounded up past the end of the file.
Fstat_Rounds(t) ==
    /\ h[t].pc = "fstat"
    /\ Go(t, [h[t] EXCEPT !.pc = IF h[t].writable THEN "malloc" ELSE "mmap",
                          !.size = Len(file) + 1])
    /\ UNCHANGED <<file, fds, errno, bounds, rpl, killed, alone, stolen>>

\* fstat gives the size of the file as it is now.
Fstat(t) ==
    /\ h[t].pc = "fstat"
    /\ Go(t, [h[t] EXCEPT !.pc = IF h[t].writable THEN "malloc" ELSE "mmap",
                          !.size = Len(file)])
    /\ UNCHANGED <<file, fds, errno, bounds, rpl, killed, alone, stolen>>

FstatFails(t) ==
    /\ h[t].pc = "fstat"
    /\ OpenFails(t, "EIO", "exit")
    /\ UNCHANGED <<file, bounds, rpl, killed, alone>>

\* Read-only: the file itself is mapped, shared.
Mmap(t) ==
    /\ h[t].pc = "mmap"
    /\ h[t].size > 0
    /\ ~rpl
    /\ Go(t, [h[t] EXCEPT !.pc = "check", !.mem = "map"])
    /\ UNCHANGED <<file, fds, errno, bounds, rpl, killed, alone, stolen>>

MmapFails(t) ==
    /\ h[t].pc = "mmap"
    /\ ~rpl
    /\ OpenFails(t, IF h[t].size = 0 THEN "EINVAL" ELSE "ENOMEM", "exit")
    /\ UNCHANGED <<file, bounds, rpl, killed, alone>>

\* hivex__rpl_mmap: a file mapping object, then a view of it, which must
\* lie within the file.
RplMmap(t) ==
    /\ h[t].pc = "mmap"
    /\ rpl
    /\ h[t].size \in 1..Len(file)
    /\ Go(t, [h[t] EXCEPT !.pc = "check", !.mem = "map", !.winmap = TRUE])
    /\ UNCHANGED <<file, fds, errno, bounds, rpl, killed, alone, stolen>>

\* Without an object or a view nothing is left behind; errno is not set.
RplMmapFails(t) ==
    /\ h[t].pc = "mmap"
    /\ rpl
    /\ OpenFails(t, errno[t], "exit")
    /\ UNCHANGED <<file, bounds, rpl, killed, alone>>

\* Writable: a private copy, which full_read fills.
Malloc(t) ==
    /\ h[t].pc = "malloc"
    /\ Go(t, [h[t] EXCEPT !.pc = IF h[t].size = 0 THEN "read" ELSE "reading",
                          !.mem = "malloc", !.req = h[t].size,
                          !.addr = [i \in 1..h[t].size |-> Hole]])
    /\ UNCHANGED <<file, fds, errno, bounds, rpl, killed, alone, stolen>>

MallocFails(t) ==
    /\ h[t].pc = "malloc"
    /\ OpenFails(t, "ENOMEM", "exit")
    /\ UNCHANGED <<file, bounds, rpl, killed, alone>>

\* Slip: h->fd is not set to -1.
ReadDone_KeepsFd(t) ==
    /\ h[t].pc = "read"
    /\ FdClose(t, h[t].fd, "exit")
    /\ Go(t, [h[t] EXCEPT !.pc = "check"])
    /\ UNCHANGED <<file, errno, bounds, rpl, killed, alone>>

\* The copy is complete: the descriptor is not needed any more.
ReadDone(t) ==
    /\ h[t].pc = "read"
    /\ FdClose(t, h[t].fd, "exit")
    /\ Go(t, [h[t] EXCEPT !.pc = "check", !.fd = NoFd])
    /\ UNCHANGED <<file, errno, bounds, rpl, killed, alone>>

\* close gives the descriptor up and fails; the error exit comes next, with
\* h->fd as it was.
ReadDoneCloseFails(t) ==
    /\ h[t].pc = "read"
    /\ FdClose(t, h[t].fd, "exit")
    /\ Go(t, [h[t] EXCEPT !.pc = "reclose"])
    /\ UNCHANGED <<file, errno, bounds, rpl, killed, alone>>

ReadReclose(t) ==
    /\ h[t].pc = "reclose"
    /\ OpenFails(t, "EIO", "reclose")
    /\ UNCHANGED <<file, bounds, rpl, killed, alone>>

\* The image a handle sees: its own copy, or the mapped file, of which the
\* pages past the end cannot be touched.
View(t) == IF h[t].mem = "map" THEN file ELSE h[t].addr

Touches(t) == h[t].mem = "map" => Len(file) >= h[t].size

\* The rest of hivex_open reads every block: it accepts an image that has a
\* header and, after it, no cell that was never written.
IsHive(image) ==
    Len(image) > 1 /\ image[1] >= Regf /\ \A i \in 2..Len(image) : image[i] \in Cells

Check(t) ==
    /\ h[t].pc = "check"
    /\ Touches(t)
    /\ IF IsHive(SubSeq(View(t), 1, h[t].size))
         THEN /\ Go(t, [h[t] EXCEPT !.pc = "open", !.last = "handle"])
              /\ UNCHANGED <<fds, errno, stolen>>
         ELSE OpenFails(t, "ENOTSUP", "exit")
    /\ UNCHANGED <<file, bounds, rpl, killed, alone>>

Sigbus(t) ==
    /\ h[t].pc \in {"check", "open"}
    /\ ~Touches(t)
    /\ killed' = TRUE
    /\ UNCHANGED <<file, fds, h, errno, bounds, rpl, alone, stolen>>

-----------------------------------------------------------------------------
(* full_rw and safe_rw. *)

Transferring(t) == h[t].pc \in {"reading", "writing"}

\* What full_rw does with the n > 0 cells that safe_rw moved.
Moved(t, n) ==
    LET r == h[t]
        total == r.total + n
    IN  IF total < r.size
          THEN [r EXCEPT !.total = total, !.req = r.size - total]
          ELSE [r EXCEPT !.total = 0, !.req = 0,
                         !.pc = IF @ = "reading" THEN "read" ELSE "written"]

ReadSome(t, n) ==
    /\ h[t].pc = "reading"
    /\ n <= h[t].req
    /\ h[t].total + n <= Len(file)
    /\ Go(t, [Moved(t, n) EXCEPT
                  !.addr = [i \in DOMAIN @ |->
                                IF i \in (h[t].total + 1)..(h[t].total + n)
                                  THEN file[i] ELSE @[i]]])
    /\ UNCHANGED <<file, fds, errno, bounds, rpl, killed, alone, stolen>>

\* Slip: nothing read is not taken for the end.
ReadEof_Again(t) ==
    /\ h[t].pc = "reading"
    /\ Len(file) <= h[t].total
    /\ UNCHANGED vars

\* read gives nothing at the end of the file: full_read sets errno to 0.
ReadEof(t) ==
    /\ h[t].pc = "reading"
    /\ Len(file) <= h[t].total
    /\ OpenFails(t, "0", "exit")
    /\ UNCHANGED <<file, bounds, rpl, killed, alone>>

ReadFails(t) ==
    /\ h[t].pc = "reading"
    /\ OpenFails(t, "EIO", "exit")
    /\ UNCHANGED <<file, bounds, rpl, killed, alone>>

\* Slip: ptr is not advanced.
WriteSome_SamePtr(t, n) ==
    /\ h[t].pc = "writing"
    /\ n <= h[t].req
    /\ LET from == h[t].total
           len == IF from + n > Len(file) THEN from + n ELSE Len(file)
       IN  file' = [i \in 1..len |->
                        IF i \in (from + 1)..(from + n) THEN h[t].addr[i - from]
                        ELSE IF i <= Len(file) THEN file[i] ELSE Hole]
    /\ Go(t, Moved(t, n))
    /\ Disturb(t)
    /\ UNCHANGED <<fds, errno, bounds, rpl, killed, stolen>>

\* A write past the end, after another thread has truncated the file,
\* leaves a hole.
WriteSome(t, n) ==
    /\ h[t].pc = "writing"
    /\ n <= h[t].req
    /\ LET from == h[t].total
           len == IF from + n > Len(file) THEN from + n ELSE Len(file)
       IN  file' = [i \in 1..len |->
                        IF i \in (from + 1)..(from + n) THEN h[t].addr[i]
                        ELSE IF i <= Len(file) THEN file[i] ELSE Hole]
    /\ Go(t, Moved(t, n))
    /\ Disturb(t)
    /\ UNCHANGED <<fds, errno, bounds, rpl, killed, stolen>>

\* Slip: the descriptor is not closed.
WriteFails_KeepsFd(t, err) ==
    /\ h[t].pc = "writing"
    /\ errno' = [errno EXCEPT ![t] = err]
    /\ Go(t, [h[t] EXCEPT !.pc = "open", !.last = "-1", !.wfd = NoFd,
                          !.total = 0, !.req = 0])
    /\ UNCHANGED <<file, fds, stolen, bounds, rpl, killed, alone>>

\* write fails, or takes nothing, which full_write reports as ENOSPC:
\* hivex_commit closes the file and keeps errno.
WriteFails(t, err) ==
    /\ h[t].pc = "writing"
    /\ errno' = [errno EXCEPT ![t] = err]
    /\ FdClose(t, h[t].wfd, "exit")
    /\ Go(t, [h[t] EXCEPT !.pc = "open", !.last = "-1", !.wfd = NoFd,
                          !.total = 0, !.req = 0])
    /\ UNCHANGED <<file, bounds, rpl, killed, alone>>

\* A signal: safe_rw calls again.
Interrupted(t) ==
    /\ Transferring(t)
    /\ bounds.interrupts < MaxInterrupts
    /\ Count("interrupts")
    /\ UNCHANGED <<file, fds, h, errno, rpl, killed, alone, stolen>>

\* The kernel refuses so large a transfer: safe_rw asks for less.
TooMuch(t) ==
    /\ Transferring(t)
    /\ h[t].req > BUGGY_READ_MAXIMUM
    /\ Go(t, [h[t] EXCEPT !.req = BUGGY_READ_MAXIMUM])
    /\ UNCHANGED <<file, fds, errno, bounds, rpl, killed, alone, stolen>>

-----------------------------------------------------------------------------
(* hivex_commit, hivex_close and the edits between them. *)

\* Allocating grows the image, every other edit changes cells of it.
Edit(t, i, c) ==
    /\ h[t].pc = "open"
    /\ h[t].writable
    /\ i <= h[t].size + 1
    /\ bounds.edits < MaxEdits
    /\ Count("edits")
    /\ Go(t, [h[t] EXCEPT !.addr = [j \in 1..Len(@) \cup {i} |->
                                        IF j = i THEN c ELSE @[j]],
                          !.size = IF i > @ THEN i ELSE @,
                          !.last = "edited"])
    /\ UNCHANGED <<file, fds, errno, rpl, killed, alone, stolen>>

\* Slip: errno is not set.
CommitRefused_Silent(t) ==
    /\ h[t].pc = "open"
    /\ ~h[t].writable
    /\ Go(t, [h[t] EXCEPT !.last = "refused"])
    /\ UNCHANGED <<file, fds, errno, bounds, rpl, killed, alone, stolen>>

CommitRefused(t) ==
    /\ h[t].pc = "open"
    /\ ~h[t].writable
    /\ errno' = [errno EXCEPT ![t] = "EROFS"]
    /\ Go(t, [h[t] EXCEPT !.last = "refused"])
    /\ UNCHANGED <<file, fds, bounds, rpl, killed, alone, stolen>>

\* The file is truncated first, then the header of the image is updated.
Commit(t) ==
    /\ h[t].pc = "open"
    /\ h[t].writable
    /\ bounds.commits < MaxCommits
    /\ Count("commits")
    /\ file' = <<>>
    /\ FdOpen(t)
    /\ Go(t, [h[t] EXCEPT !.pc = "writing", !.wfd = LowestFree,
                          !.last = "none", !.addr[1] = @ + 1,
                          !.total = 0, !.req = h[t].size])
    /\ alone' = {t}
    /\ UNCHANGED <<errno, rpl, killed, stolen>>

CommitCannotOpen(t) ==
    /\ h[t].pc = "open"
    /\ h[t].writable
    /\ bounds.commits < MaxCommits
    /\ Count("commits")
    /\ errno' = [errno EXCEPT ![t] = "EMFILE"]
    /\ Go(t, [h[t] EXCEPT !.last = "refused"])
    /\ UNCHANGED <<file, fds, rpl, killed, alone, stolen>>

CommitDone(t) ==
    /\ h[t].pc = "written"
    /\ FdClose(t, h[t].wfd, "exit")
    /\ \/ /\ Go(t, [h[t] EXCEPT !.pc = "open", !.last = "0", !.wfd = NoFd])
          /\ UNCHANGED errno
       \/ /\ Go(t, [h[t] EXCEPT !.pc = "open", !.last = "-1", !.wfd = NoFd])
          /\ errno' = [errno EXCEPT ![t] = "EIO"]
    /\ UNCHANGED <<file, bounds, rpl, killed, alone>>

\* munmap or free, close of a descriptor that is still there.
Close(t) ==
    /\ h[t].pc = "open"
    /\ Go(t, [Closed EXCEPT !.last = "closed"])
    /\ IF h[t].fd >= 0
         THEN FdClose(t, h[t].fd, "exit")
         ELSE UNCHANGED <<fds, stolen>>
    /\ UNCHANGED <<file, errno, bounds, rpl, killed, alone>>

-----------------------------------------------------------------------------

OpenStep(t) ==
    \/ OpenFile(t) \/ Fstat(t) \/ Mmap(t) \/ MmapFails(t) \/ RplMmap(t)
    \/ RplMmapFails(t) \/ Malloc(t) \/ ReadDone(t) \/ ReadReclose(t)
    \/ Check(t) \/ Sigbus(t)

TransferStep(t) ==
    \/ \E n \in 1..MaxSize : ReadSome(t, n) \/ WriteSome(t, n)
    \/ ReadEof(t) \/ TooMuch(t)

Step(t) == OpenStep(t) \/ TransferStep(t) \/ CommitDone(t)

\* What may go wrong and need not.
Fault(t) ==
    \/ NoName(t) \/ CannotOpen(t) \/ FstatFails(t) \/ MallocFails(t)
    \/ ReadFails(t) \/ ReadDoneCloseFails(t) \/ Interrupted(t)
    \/ \E err \in {"EIO", "ENOSPC"} : WriteFails(t, err)

Call(t) ==
    \/ \E write \in BOOLEAN : Open(t, write)
    \/ \E i \in 2..MaxSize, c \in Cells : Edit(t, i, c)
    \/ CommitRefused(t) \/ Commit(t) \/ CommitCannotOpen(t) \/ Close(t)

Next == ~killed /\ \E t \in Handles : Step(t) \/ Fault(t) \/ Call(t)

\* A thread inside a call goes on: the scheduler runs it and the kernel
\* answers.  No failure is ever relied upon.
Fairness == \A t \in Handles : WF_vars(~killed /\ Step(t))

Spec == Init /\ [][Next]_vars /\ Fairness

-----------------------------------------------------------------------------
(* Properties. *)

InCall(t) == h[t].pc \notin {"closed", "open"}

\* However reads and writes are cut short, interrupted or refused as too
\* large, what hivex_open gives is the whole file and what a commit that
\* returns 0 leaves behind is the whole image, and a commit that failed
\* leaves a beginning of it, so long as no other thread committed meanwhile
\* and no descriptor was closed under the thread.  No call asks for more
\* than is left of the image.
TransfersWhole ==
  /\ \A t \in Handles : Transferring(t) => h[t].req \in 1..(h[t].size - h[t].total)
  /\ \A t \in alone : (\A s \in stolen : s[1] \notin Handles) =>
        /\ h[t].pc = "open" /\ h[t].last = "handle" =>
               SubSeq(View(t), 1, h[t].size) = file /\ h[t].size = Len(file)
        /\ h[t].last = "0" => file = h[t].addr
        /\ h[t].pc = "open" /\ h[t].writable /\ h[t].last = "-1" =>
               IsPrefix(file, h[t].addr)

\* A mapped file is gone under its reader only when another thread's commit
\* has truncated it: no other sequence of calls ends in SIGBUS, and nothing
\* of a commit reaches a handle that was opened for writing.
FaultNeedsCommit ==
    killed => \E t \in Handles : t \notin alone /\ h[t].mem = "map" /\ ~h[t].writable

\* "On error this returns NULL and sets errno" (hivex_open), "-1 is
\* returned and errno is set" (hivex_commit): so it is, except that
\* full_read's 0 at an unexpected end of file gets through when another
\* commit shortened the file after fstat, and that the mmap replacement
\* sets no errno.
FailureHasErrno ==
    \A t \in Handles : h[t].last \in {"NULL", "-1", "refused"} /\ ~InCall(t) =>
        errno[t] # "0" \/ t \notin alone \/ rpl

\* The library goes wrong about descriptors in two places only: hivex_open
\* closes standard input when the file name cannot be copied, because the
\* zeroed hive_h says that descriptor 0 is open; and when the close of the
\* file that was read fails, the error exit closes the same number again,
\* by then possibly another thread's.  Only after one of these has hit a
\* thread does an ordinary close hit another.
ClosesOnlyItsOwn ==
    \A s \in stolen :
        /\ s[1] = "stdin" => s[2] = "strdup"
        /\ s[2] = "exit" => \E r \in stolen : r[1] \in Handles /\ r[2] # "exit"

\* Every way out of hivex_open, hivex_commit and hivex_close gives back the
\* descriptors and the mapping.  (The block that malloc (0) gives for an
\* empty file is not freed; an open handle that can write has no descriptor.)
NothingLeft ==
    \A t \in Handles :
        /\ h[t].pc = "closed" => /\ h[t].mem # "map" /\ ~h[t].winmap
                                 /\ \A n \in DOMAIN fds : fds[n] # t
        /\ h[t].pc = "open" =>
               Cardinality({n \in DOMAIN fds : fds[n] = t}) <= IF h[t].writable THEN 0 ELSE 1

\* Every call returns (or the process dies): the loops of full_rw and
\* safe_rw come to an end when signals do.
CallsReturn == \A t \in Handles : InCall(t) ~> (~InCall(t) \/ killed)
=============================================================================
