---------------------------- MODULE HiveBlocks ----------------------------
(***************************************************************************)
(* The block store of lib/hivex.c: how a hive file is opened (its hbin     *)
(* pages and the blocks in them are scanned into a bitmap of valid block   *)
(* offsets), how blocks are allocated at the end of the last page and      *)
(* marked unused, and how the image in memory is committed back to a file  *)
(* by a truncating, non-atomic write.                                      *)
(*                                                                         *)
(* A file image keeps the header fields the code reads or writes, the      *)
(* hbin page headers (offset |-> page_size) and the block headers          *)
(* (offset |-> seg_len, negative for a used block).  Offsets and lengths   *)
(* are the real ones, in bytes.  The bytes inside blocks are left out.     *)
(***************************************************************************)
EXTENDS Integers

CONSTANTS
  Files,            \* file names
  InitialDisks,     \* possible initial contents: a set of [Files -> image]
  Requests,         \* the seg_len arguments given to allocate_block
  Checksum(_,_,_),  \* header_checksum, of sequence1, sequence2 and blocks
  Word,             \* 2^32: the header's fields are uint32_t
  Stops,            \* the offsets where a write that fails may stop
  Stray,            \* what bytes that are no header are taken for
  MaxSize,          \* bound: no hive grows past this many bytes
  LastSequence      \* bound: a handle at this sequence number commits no more

FirstPage == 4096        \* the header occupies 0x1000 bytes
PageHeader == 32         \* sizeof (struct ntreg_hbin_page)
PageSizeEnd == 12        \* where its page_size ends
LengthEnd == 4           \* where the seg_len of a block ends
IdEnd == 6               \* where its id ends
MAX_ALLOCATION == 1000000

ASSUME ConstantsAssumption ==
  /\ Word \in Nat /\ Word > 0
  /\ MaxSize \in Nat /\ MaxSize <= Word
  /\ LastSequence \in Nat
  /\ Requests \subseteq Nat
  /\ Stops \subseteq Nat /\ Stray \subseteq Int

VARIABLES
  disk,        \* the files
  provenance,  \* history: how each file's present content came about
  pc,          \* what the process is doing with its one hive handle
  ret,         \* errno of the last call, "ok" if it succeeded
  filename,    \* h->filename
  target,      \* the file a commit is writing
  writable,    \* h->writable
  sound,       \* history: the file was well formed when it was opened
  size,        \* h->size
  hdr,         \* *h->hdr
  page,        \* page headers in memory: offset |-> page_size
  seg,         \* block headers in memory: offset |-> seg_len
  bitmap,      \* the offsets set in h->bitmap
  endpages,    \* h->endpages
  endblocks,   \* h->endblocks
  off,         \* hivex_open: the page being scanned
  blkoff,      \* hivex_open: the block being scanned
  seen_root,   \* hivex_open: seen_root_block
  bad_root     \* hivex_open: bad_root_block

fileVars == <<disk, provenance>>
openVars == <<filename, writable, sound>>
memVars  == <<size, hdr, page, seg, bitmap, endpages, endblocks>>
scanVars == <<off, blkoff, seen_root, bad_root>>
vars == <<fileVars, pc, ret, target, openVars, memVars, scanVars>>

-----------------------------------------------------------------------------
(* Headers and images *)

Empty == [x \in {} |-> 0]

(* Memory after writing v at offset k. *)
Put(f, k, v) == [x \in DOMAIN f \cup {k} |-> IF x = k THEN v ELSE f[x]]

UInt32 == 0 .. (Word - 1)

(* The header fields the code uses; csum is whatever Checksum returns.     *)
(* "nk" tells whether the block at the root offset has the id "nk".        *)
IsHeader(h) ==
  h \in [magic : BOOLEAN, major_ver : UInt32, sequence1 : UInt32,
         sequence2 : UInt32, offset : UInt32, blocks : UInt32,
         csum : {h.csum}, nk : BOOLEAN]

IsImage(im) ==
  /\ im \in [size : Nat, hdr : {im.hdr}, page : {im.page}, seg : {im.seg}]
  /\ IsHeader(im.hdr)
  /\ DOMAIN im.page \subseteq Nat /\ im.page \in [DOMAIN im.page -> Nat]
  /\ DOMAIN im.seg \subseteq Nat /\ im.seg \in [DOMAIN im.seg -> Int]

ASSUME DisksAssumption ==
  \A d \in InitialDisks :
    d = [f \in Files |-> d[f]] /\ \A f \in Files : IsImage(d[f])

NoHeader == [magic |-> FALSE, major_ver |-> 0, sequence1 |-> 0,
             sequence2 |-> 0, offset |-> 0, blocks |-> 0, csum |-> 0,
             nk |-> FALSE]

(* A file that does not exist, or that O_TRUNC has just emptied. *)
EmptyImage == [size |-> 0, hdr |-> NoHeader, page |-> Empty, seg |-> Empty]

header_checksum(h) == Checksum(h.sequence1, h.sequence2, h.blocks)

Regf(h) == h.magic /\ h.major_ver = 1

HeaderOK(h) == Regf(h) /\ h.csum = header_checksum(h)

rootoffs == hdr.offset + FirstPage

Length(n) == IF n < 0 THEN -n ELSE n

block_len(b) == Length(seg[b])

-----------------------------------------------------------------------------
(* A well-formed hive: what the images in the wild look like.  Pages tile  *)
(* [0x1000, endpages), blocks tile every page behind its header, the root  *)
(* is a used nk block.                                                     *)

PagesTile(sz, ep, pg) ==
  /\ ep <= sz /\ ep % 4096 = 0
  /\ FirstPage \in DOMAIN pg
  /\ \A p \in DOMAIN pg :
       /\ p >= FirstPage
       /\ pg[p] > PageHeader /\ pg[p] % 4096 = 0
       /\ p + pg[p] = ep \/ (p + pg[p] \in DOMAIN pg /\ p + pg[p] < ep)
  /\ \A p, q \in DOMAIN pg : p < q => p + pg[p] <= q

InPage(pg, b, len, p) == p + PageHeader <= b /\ b + len <= p + pg[p]

BlocksTile(pg, sg) ==
  /\ \A p \in DOMAIN pg : p + PageHeader \in DOMAIN sg
  /\ \A b \in DOMAIN sg :
       /\ Length(sg[b]) > 4 /\ Length(sg[b]) % 4 = 0
       /\ \E p \in DOMAIN pg :
            /\ InPage(pg, b, Length(sg[b]), p)
            /\ b + Length(sg[b]) = p + pg[p] \/ b + Length(sg[b]) \in DOMAIN sg
  /\ \A b, c \in DOMAIN sg : b < c => b + Length(sg[b]) <= c

RootUsed(h, sg) ==
  /\ h.nk
  /\ h.offset + FirstPage \in DOMAIN sg
  /\ sg[h.offset + FirstPage] < 0

Layout(sz, ep, h, pg, sg) ==
  PagesTile(sz, ep, pg) /\ BlocksTile(pg, sg) /\ RootUsed(h, sg)

WellFormed(im) ==
  /\ HeaderOK(im.hdr)
  /\ Layout(im.size, im.hdr.blocks + FirstPage, im.hdr, im.page, im.seg)

-----------------------------------------------------------------------------
Init ==
  /\ disk \in InitialDisks
  /\ provenance = [f \in Files |-> IF WellFormed(disk[f]) THEN "sound"
                                                          ELSE "other"]
  /\ pc = "closed" /\ ret = "ok"
  /\ filename \in Files /\ target = filename
  /\ writable = FALSE /\ sound = FALSE
  /\ size = 0 /\ hdr = NoHeader /\ page = Empty /\ seg = Empty
  /\ bitmap = {} /\ endpages = 0 /\ endblocks = 0
  /\ off = 0 /\ blkoff = 0 /\ seen_root = FALSE /\ bad_root = FALSE

(* free (h->bitmap), free or munmap (h->addr), free (h) *)
FreeHandle ==
  /\ writable' = FALSE /\ sound' = FALSE
  /\ size' = 0 /\ hdr' = NoHeader /\ page' = Empty /\ seg' = Empty
  /\ bitmap' = {} /\ endpages' = 0 /\ endblocks' = 0

EndScan == off' = 0 /\ blkoff' = 0 /\ seen_root' = FALSE /\ bad_root' = FALSE

(* hivex_open's error exit, or the end of the process in hivex_open. *)
Reject(f, e) ==
  /\ pc' = "rejected" /\ ret' = e
  /\ filename' = f
  /\ FreeHandle /\ EndScan
  /\ UNCHANGED <<fileVars, target>>

-----------------------------------------------------------------------------
(* hivex_open: read or map the file, check the header, then scan. *)

OpenMayFail(f) ==
  /\ pc \in {"closed", "rejected"}
  /\ Reject(f, "ENOMEM")

OpenEmpty(f) ==
  /\ pc \in {"closed", "rejected"}
  /\ disk[f].size = 0
  /\ \E e \in {"ENOENT", "EINVAL"} : Reject(f, e)

OpenBadHeader(f) ==
  /\ pc \in {"closed", "rejected"}
  /\ disk[f].size > 0
  /\ ~HeaderOK(disk[f].hdr)
  /\ Reject(f, IF Regf(disk[f].hdr) THEN "EINVAL" ELSE "ENOTSUP")

OpenHeader(f, w) ==
  /\ pc \in {"closed", "rejected"}
  /\ disk[f].size > 0
  /\ HeaderOK(disk[f].hdr)
  /\ pc' = "pages" /\ ret' = "ok"
  /\ filename' = f /\ writable' = w /\ sound' = WellFormed(disk[f])
  /\ size' = disk[f].size /\ hdr' = disk[f].hdr
  /\ page' = disk[f].page /\ seg' = disk[f].seg
  /\ bitmap' = {}
  /\ endpages' = disk[f].hdr.blocks + FirstPage /\ endblocks' = 0
  /\ off' = FirstPage /\ blkoff' = 0
  /\ seen_root' = FALSE /\ bad_root' = FALSE
  /\ UNCHANGED <<fileVars, target>>

LastPageScanned == off >= size \/ off >= endpages

(* Mutant: the check that page_size exceeds the page header is dropped. *)
PageOK_AnySize(n) == n % 4096 = 0

PageOK(n) == n > PageHeader /\ n % 4096 = 0

(* What is read as the page_size of an hbin header at p.  A header that    *)
(* the end of the file cuts off is read from the memory behind the file.   *)
PageSizes(p) ==
  IF p \in DOMAIN page THEN {page[p]}
  ELSE IF p + PageSizeEnd > size THEN {Length(g) : g \in Stray} ELSE {}

(* One turn of the outer loop.  Nothing compares the end of the page with  *)
(* h->size; a read behind the end of the file may end the process.         *)
ScanPage ==
  /\ pc = "pages" /\ ~LastPageScanned
  /\ \/ /\ off \in DOMAIN page => ~PageOK(page[off])
        /\ Reject(filename, "ENOTSUP")
     \/ /\ off + PageSizeEnd > size
        /\ Reject(filename, "SIGSEGV")
     \/ \E n \in PageSizes(off) :
          /\ PageOK(n)
          /\ pc' = "blocks"
          /\ page' = Put(page, off, n)
          /\ blkoff' = off + PageHeader
          /\ UNCHANGED <<fileVars, ret, target, openVars, size, hdr, seg, bitmap,
                         endpages, endblocks, off, seen_root, bad_root>>

(* What is read as the seg_len of a block at b, in the file or behind it,  *)
(* and whether the two bytes after it are "nk" if it is the root.          *)
SegLens(b) == IF b \in DOMAIN seg THEN {seg[b]} ELSE Stray

RootIds(b) == IF b + IdEnd <= size THEN {hdr.nk} ELSE BOOLEAN

BlockOK(g) == Length(g) > 4 /\ Length(g) % 4 = 0

(* One turn of the inner loop.  Nothing compares blkoff with h->size: past *)
(* the end of the file the block is read and BITMAP_SET writes outside the *)
(* file and the bitmap, which may end the process.                         *)
ScanBlock ==
  /\ pc = "blocks" /\ blkoff < off + page[off]
  /\ \/ /\ \E g \in SegLens(blkoff) : ~BlockOK(g)
        /\ Reject(filename, "ENOTSUP")
     \/ /\ blkoff + LengthEnd > size
        /\ Reject(filename, "SIGSEGV")
     \/ \E g \in SegLens(blkoff), nk \in RootIds(blkoff) :
          /\ BlockOK(g)
          /\ seg' = Put(seg, blkoff, g)
          /\ seen_root' = (seen_root \/ blkoff = rootoffs)
          /\ bad_root' = (bad_root \/ (blkoff = rootoffs /\ ~(g < 0 /\ nk)))
          /\ bitmap' = IF g < 0 THEN bitmap \cup {blkoff} ELSE bitmap
          /\ blkoff' = blkoff + Length(g)
          /\ UNCHANGED <<fileVars, pc, ret, target, openVars, size, hdr, page,
                         endpages, endblocks, off>>

EndOfPage ==
  /\ pc = "blocks" /\ blkoff >= off + page[off]
  /\ pc' = "pages"
  /\ off' = off + page[off]
  /\ UNCHANGED <<fileVars, ret, target, openVars, memVars, blkoff, seen_root,
                 bad_root>>

(* The checks behind the loops. *)
FinishOpen ==
  /\ pc = "pages" /\ LastPageScanned
  /\ \/ /\ ~seen_root \/ bad_root
        /\ Reject(filename, "ENOTSUP")
     \/ /\ seen_root /\ ~bad_root
        /\ pc' = "open"
        /\ EndScan
        /\ UNCHANGED <<fileVars, ret, target, openVars, memVars>>

Scan == ScanPage \/ ScanBlock \/ EndOfPage \/ FinishOpen

hivex_close ==
  /\ pc = "open"
  /\ pc' = "closed" /\ ret' = "ok"
  /\ FreeHandle
  /\ UNCHANGED <<fileVars, filename, target, scanVars>>

(* Freeing h->addr a second time: the allocator stops the process. *)
CloseDangling ==
  /\ pc = "dangling"
  /\ pc' = "closed" /\ ret' = "SIGABRT"
  /\ FreeHandle
  /\ UNCHANGED <<fileVars, filename, target, scanVars>>

-----------------------------------------------------------------------------
(* allocate_block, and the allocate_page it calls when the last page is    *)
(* full or the handle has not allocated anything yet.                      *)

(* Mutant: blocks are rounded up to 4 bytes only. *)
RoundUp_Four(n) == 4 * ((n + 3) \div 4)

(* seg_len = (seg_len + 7) & ~7 *)
RoundUp(n) == 8 * ((n + 7) \div 8)

(* Mutant: the page header is not counted. *)
PageExtent_NoHeader(len) == 4096 * (1 + (len - 1) \div 4096)

(* nr_4k_pages * 4096 *)
PageExtent(len) == 4096 * (1 + (len + PageHeader - 1) \div 4096)

NeedsPage(len) == endblocks = 0 \/ endblocks + len > endpages

Refused(n) == ~writable \/ n < 4 \/ n > MAX_ALLOCATION

AllocateRefused(n) ==
  /\ pc = "open" /\ Refused(n)
  /\ ret' = IF ~writable THEN "EROFS" ELSE "ERANGE"
  /\ UNCHANGED <<fileVars, pc, target, openVars, memVars, scanVars>>

(* The block's header, then a free header for what is left of the page. *)
WriteHeaders(sg, b, len, ep) ==
  LET s == Put(sg, b, -len)
  IN  IF b + len < ep THEN Put(s, b + len, ep - (b + len)) ELSE s

(* Mutant: BITMAP_SET after h->endblocks has been advanced. *)
SetBit_Advanced(bits, b, len) == bits \cup {b + len}

(* BITMAP_SET for a new block of len bytes at b. *)
SetBit(bits, b, len) == bits \cup {b}

AllocateInPage(n) ==
  LET len == RoundUp(n) IN
  /\ pc = "open" /\ ~Refused(n) /\ ~NeedsPage(len)
  /\ seg' = WriteHeaders(seg, endblocks, len, endpages)
  /\ bitmap' = SetBit(bitmap, endblocks, len)
  /\ endblocks' = endblocks + len
  /\ ret' = "ok"
  /\ UNCHANGED <<fileVars, pc, target, openVars, size, hdr, page, endpages,
                 scanVars>>

(* The memory between the old and the new end of the file is zeroed, and   *)
(* so is the bitmap behind its old end: what hivex_open has read from      *)
(* there is gone.  x + at is where the field of the header at x stands.    *)
Zeroed(f, at, newend) ==
  [x \in DOMAIN f |-> IF size <= x + at /\ x + at < newend THEN 0 ELSE f[x]]

BitsKept(newend) ==
  {b \in bitmap : newend > size => b \div 32 <= size \div 32}

(* The slack between endpages and the end of the file is used first. *)
AllocateInNewPage(n) ==
  LET len == RoundUp(n)
      newend == endpages + PageExtent(len)
      b == endpages + PageHeader
  IN
  /\ pc = "open" /\ ~Refused(n) /\ NeedsPage(len)
  /\ newend <= MaxSize                                      \* bound
  /\ size' = IF newend > size THEN newend ELSE size
  /\ endpages' = newend
  /\ page' = Put(Zeroed(page, PageSizeEnd - 4, newend), endpages, PageExtent(len))
  /\ seg' = WriteHeaders(Zeroed(seg, 0, newend), b, len, newend)
  /\ bitmap' = SetBit(BitsKept(newend), b, len)
  /\ endblocks' = b + len
  /\ ret' = "ok"
  /\ UNCHANGED <<fileVars, pc, target, openVars, hdr, scanVars>>

(* Either realloc may fail when the file has to grow.  When the second    *)
(* one fails, allocate_page frees the memory h->addr still points to.     *)
AllocateFails(n) ==
  /\ pc = "open" /\ ~Refused(n) /\ NeedsPage(RoundUp(n))
  /\ endpages + PageExtent(RoundUp(n)) > size
  /\ pc' \in {"open", "dangling"}
  /\ ret' = "ENOMEM"
  /\ UNCHANGED <<fileVars, target, openVars, memVars, scanVars>>

(* Mutant: BITMAP_CLR is missing. *)
mark_block_unused_KeepBit(b) ==
  /\ pc = "open" /\ writable
  /\ b \in bitmap /\ b < size
  /\ seg' = Put(seg, b, block_len(b))
  /\ ret' = "ok"
  /\ UNCHANGED <<fileVars, pc, target, openVars, size, hdr, page, bitmap,
                 endpages, endblocks, scanVars>>

(* Mutant: the freed block is handed to the next allocation. *)
mark_block_unused_Rewind(b) ==
  /\ pc = "open" /\ writable
  /\ b \in bitmap /\ b < size
  /\ seg' = Put(seg, b, block_len(b))
  /\ bitmap' = bitmap \ {b}
  /\ endblocks' = b
  /\ ret' = "ok"
  /\ UNCHANGED <<fileVars, pc, target, openVars, size, hdr, page, endpages,
                 scanVars>>

(* It asserts that the handle is writable and that the block is valid. *)
mark_block_unused(b) ==
  /\ pc = "open" /\ writable
  /\ b \in bitmap /\ b < size
  /\ seg' = Put(seg, b, block_len(b))
  /\ bitmap' = bitmap \ {b}
  /\ ret' = "ok"
  /\ UNCHANGED <<fileVars, pc, target, openVars, size, hdr, page, endpages,
                 endblocks, scanVars>>

-----------------------------------------------------------------------------
(* hivex_commit: open the target with O_TRUNC, bring the header up to      *)
(* date, write the whole image.                                            *)

CommitRefused ==
  /\ pc = "open"
  /\ ret' \in {"EINVAL", IF writable THEN "EACCES" ELSE "EROFS"}
  /\ UNCHANGED <<fileVars, pc, target, openVars, memVars, scanVars>>

NextSequence == (hdr.sequence1 + 1) % Word

CommittedHeader ==
  [hdr EXCEPT !.sequence1 = NextSequence,
              !.sequence2 = NextSequence,
              !.blocks = (endpages - FirstPage) % Word,
              !.csum = Checksum(NextSequence, NextSequence,
                                (endpages - FirstPage) % Word)]

CommitOpen(f) ==
  /\ pc = "open" /\ writable
  /\ hdr.sequence1 # LastSequence                           \* bound
  /\ pc' = "writing"
  /\ target' = f
  /\ disk' = [disk EXCEPT ![f] = EmptyImage]
  /\ provenance' = [provenance EXCEPT ![f] = "other"]
  /\ hdr' = CommittedHeader
  /\ UNCHANGED <<ret, openVars, size, page, seg, bitmap, endpages, endblocks,
                 scanVars>>

Image == [size |-> size, hdr |-> hdr, page |-> page, seg |-> seg]

(* The fields of the header that are whole in its first c bytes; the rest  *)
(* reads as zero.                                                          *)
CutHeader(c) ==
  LET kept(end, v) == IF end <= c THEN v ELSE 0
  IN  [hdr EXCEPT !.magic = IF 4 <= c THEN @ ELSE FALSE,
                  !.sequence1 = kept(8, @),
                  !.sequence2 = kept(12, @), !.major_ver = kept(24, @),
                  !.offset = kept(40, @), !.blocks = kept(44, @),
                  !.csum = kept(512, @)]

(* The first c bytes of the image: the headers that are whole in them. *)
Cut(c) ==
  IF c = 0 THEN EmptyImage
  ELSE [size |-> c, hdr |-> CutHeader(c),
        page |-> [p \in {q \in DOMAIN page : q + PageSizeEnd <= c} |-> page[p]],
        seg |-> [b \in {d \in DOMAIN seg : d + LengthEnd <= c} |-> seg[b]]]

(* h->size bytes are written.  The result of close does not change that. *)
CommitWrite ==
  /\ pc = "writing"
  /\ disk' = [disk EXCEPT ![target] = Cut(size)]
  /\ provenance' = [provenance EXCEPT ![target] =
                      IF sound THEN "sound" ELSE "saved"]
  /\ pc' = "open"
  /\ ret' \in {"ok", "EIO"}
  /\ UNCHANGED <<target, openVars, memVars, scanVars>>

(* A full disk or a crash stops full_write behind any byte. *)
CutPoints == {c \in Stops : c < size}

ShortWrite ==
  /\ pc = "writing"
  /\ \E c \in CutPoints : disk' = [disk EXCEPT ![target] = Cut(c)]
  /\ pc' = "open"
  /\ ret' = "EIO"
  /\ UNCHANGED <<provenance, target, openVars, memVars, scanVars>>

Crash ==
  /\ pc = "writing"
  /\ \E c \in CutPoints : disk' = [disk EXCEPT ![target] = Cut(c)]
  /\ pc' = "closed" /\ ret' = "ok"
  /\ FreeHandle
  /\ UNCHANGED <<provenance, filename, target, scanVars>>

-----------------------------------------------------------------------------
(* No caller marks the root unused: hivex_node_delete_child refuses it. *)
Next ==
  \/ \E f \in Files :
       \/ OpenMayFail(f)
       \/ OpenEmpty(f)
       \/ OpenBadHeader(f)
       \/ \E w \in BOOLEAN : OpenHeader(f, w)
       \/ CommitOpen(f)
  \/ ScanPage \/ ScanBlock \/ EndOfPage \/ FinishOpen
  \/ \E n \in Requests :
       \/ AllocateRefused(n)
       \/ AllocateInPage(n)
       \/ AllocateInNewPage(n)
       \/ AllocateFails(n)
  \/ \E b \in bitmap \ {rootoffs} : mark_block_unused(b)
  \/ CommitRefused \/ CommitWrite \/ ShortWrite \/ Crash
  \/ hivex_close \/ CloseDangling

(* hivex_open runs to its end once called: nothing in it waits. *)
Spec == Init /\ [][Next]_vars /\ WF_vars(Scan)

-----------------------------------------------------------------------------
(* Properties *)

Returns == {"ok", "ENOMEM", "ENOENT", "EINVAL", "ENOTSUP", "EROFS", "ERANGE",
            "EACCES", "EIO", "SIGABRT", "SIGSEGV"}

(* The types of the handle's fields, of hivex_open's locals and of the     *)
(* files; every offset in the bitmap is the offset of a block header.      *)
TypeOK ==
  /\ disk = [f \in Files |-> disk[f]]
  /\ \A f \in Files : IsImage(disk[f])
  /\ provenance \in [Files -> {"sound", "saved", "other"}]
  /\ pc \in {"closed", "rejected", "pages", "blocks", "open", "writing",
             "dangling"}
  /\ ret \in Returns
  /\ filename \in Files /\ target \in Files
  /\ writable \in BOOLEAN /\ sound \in BOOLEAN
  /\ IsImage(Image)
  /\ bitmap \subseteq DOMAIN seg
  /\ endpages \in Nat /\ endblocks \in Nat
  /\ off \in Nat /\ blkoff \in Nat
  /\ seen_root \in BOOLEAN /\ bad_root \in BOOLEAN
  /\ pc = "blocks" => off \in DOMAIN page

(* Parts of the inductive invariant that the proofs rest on. *)

UsedBelow(x) == {b \in DOMAIN seg : seg[b] < 0 /\ b < x}

(* What provenance "sound" says of a file. *)
FilesSound == \A f \in Files : provenance[f] = "sound" => WellFormed(disk[f])

(* A sound handle's memory is laid out as its file was. *)
MemorySound ==
  sound /\ pc \in {"pages", "blocks", "open", "writing"} =>
    /\ Regf(hdr)
    /\ endpages >= FirstPage /\ endpages - FirstPage < Word
    /\ Layout(size, endpages, hdr, page, seg)

(* The scan stands at a page, at a block, or at the end of one, and has    *)
(* put into the bitmap exactly the used blocks it has passed.              *)
ScanSound ==
  /\ sound /\ pc = "pages" =>
       /\ off = endpages \/ off \in DOMAIN page
       /\ bitmap = UsedBelow(off)
       /\ seen_root <=> rootoffs < off
       /\ ~bad_root
  /\ sound /\ pc = "blocks" =>
       /\ off + PageHeader <= blkoff /\ blkoff <= off + page[off]
       /\ blkoff = off + page[off] \/ blkoff \in DOMAIN seg
       /\ bitmap = UsedBelow(blkoff)
       /\ seen_root <=> rootoffs < blkoff
       /\ ~bad_root

(* hivex_open scans a sound file with a sound handle. *)
ScansItsFile ==
  pc \in {"pages", "blocks"} /\ provenance[filename] = "sound" => sound

(* Nothing has been allocated while hivex_open scans. *)
NothingAllocated == pc \in {"pages", "blocks"} => endblocks = 0

(* What is left of the last page is one free block, of a multiple of 8     *)
(* bytes: allocate_block can always put a legal header there.              *)
TailFree ==
  sound /\ pc \in {"open", "writing"} =>
    \/ endblocks = 0
    \/ /\ endblocks <= endpages
       /\ (endpages - endblocks) % 8 = 0
       /\ endblocks < endpages => /\ endblocks \in DOMAIN seg
                                  /\ seg[endblocks] = endpages - endblocks

(* A commit writes a header that describes the pages in memory, and until  *)
(* it has written all of it the file counts as damaged.                    *)
CommitUnderWay ==
  pc = "writing" =>
    /\ provenance[target] = "other"
    /\ sound => HeaderOK(hdr) /\ hdr.blocks + FirstPage = endpages

Ready == pc \in {"open", "writing"}

(* The bitmap of an open hive holds exactly the offsets of its used        *)
(* blocks, however many blocks were allocated or marked unused since the   *)
(* scan: IS_VALID_BLOCK is the only check the library makes of a handle    *)
(* or of an offset it reads from the file.                                 *)
BitmapExact ==
  Ready /\ sound => bitmap = {b \in DOMAIN seg : seg[b] < 0}

(* allocate_block and allocate_page keep the pages tiling the file up to   *)
(* endpages and the blocks tiling the pages: no two blocks overlap, no     *)
(* gap opens, and the root stays a used block.                             *)
LayoutKept == Ready /\ sound => Layout(size, endpages, hdr, page, seg)

(* A file that was well formed, or was written in full by a commit of a    *)
(* handle that was opened on a well-formed file, is never refused by       *)
(* hivex_open, whatever was allocated, freed and committed in between, and *)
(* the scan of it, whose reads are not checked, never leaves the file.     *)
SoundFilesReopen ==
  pc = "rejected" /\ ret # "ENOMEM" => provenance[filename] # "sound"

(* The inductive invariant. *)
Inv ==
  /\ TypeOK /\ FilesSound /\ MemorySound /\ ScansItsFile /\ ScanSound
  /\ NothingAllocated /\ BitmapExact /\ TailFree /\ CommitUnderWay /\ SoundFilesReopen

(* No block moves or changes its length, and a free one stays free,        *)
(* except the free tail at endblocks that allocate_block cuts blocks from. *)
KeepsBlocks ==
  pc = "open" /\ pc' = "open" /\ sound =>
    \A b \in DOMAIN seg \ {endblocks} :
      /\ b \in DOMAIN seg'
      /\ Length(seg'[b]) = Length(seg[b])
      /\ seg[b] > 0 => seg'[b] > 0

(* "never reuses these unused blocks" (hivex.pod): what was freed, by      *)
(* this handle or before the file was opened, is never allocated again.    *)
NeverReusesBlocks == [][KeepsBlocks]_vars

(* "we make sure the loops always make forward progress" (hivex_open):     *)
(* the scan of any image ends.                                             *)
ScanTerminates == pc \in {"pages", "blocks"} ~> pc \in {"open", "rejected"}

(* What the header says of a file a commit has reported as written: its    *)
(* "blocks" field points after the last hbin in the file, so hivex_open    *)
(* can read it back.                                                       *)
CommittedFilesReopen ==
  pc = "rejected" /\ ret # "ENOMEM" => provenance[filename] = "other"

(* "Registry file, memory mapped if read-only, or malloc'd if writing"     *)
(* (hivex-internal.h): h->addr of an open handle points to live memory.    *)
AddrIsLive == pc # "dangling"

=============================================================================
