------------------------- MODULE HiveBlocksProofs -------------------------
(***************************************************************************)
(* Proofs about HiveBlocks: the types, and that a handle opened on a       *)
(* well-formed file keeps an exact bitmap and a gapless layout, and that   *)
(* what it commits in full is well formed and is not refused by            *)
(* hivex_open.                                                             *)
(***************************************************************************)
EXTENDS HiveBlocks, TLAPS

-----------------------------------------------------------------------------
(* Arithmetic and memory *)

(* A uint32_t that wraps stays a uint32_t. *)
LEMMA WrapType == \A x \in Int : x % Word \in UInt32
  BY ConstantsAssumption DEF UInt32

(* allocate_block rounds a length up to a positive multiple of 8. *)
LEMMA RoundUpType ==
  ASSUME NEW n \in Nat, n >= 4
  PROVE  /\ RoundUp(n) \in Nat /\ RoundUp(n) >= 8 /\ RoundUp(n) % 8 = 0
  BY DEF RoundUp

(* Differences of multiples of 8. *)
LEMMA MultipleOf8 ==
  ASSUME NEW x \in Int, NEW y \in Int, NEW z \in Int,
         (x - y) % 8 = 0, z % 8 = 0
  PROVE  (x - (y + z)) % 8 = 0
  OBVIOUS

(* allocate_page makes room for the page header and for the block. *)
LEMMA PageExtentType ==
  ASSUME NEW len \in Nat, len % 8 = 0
  PROVE  /\ PageExtent(len) \in Nat
         /\ PageExtent(len) % 4096 = 0
         /\ PageExtent(len) >= len + PageHeader
         /\ (PageExtent(len) - PageHeader - len) % 8 = 0
  BY DEF PageExtent, PageHeader

(* Memory w is memory sg with the two headers allocate_block writes. *)
HeadersWritten(sg, b, len, ep, w) ==
  /\ DOMAIN w = DOMAIN sg \cup {b} \cup
                (IF b + len < ep THEN {b + len} ELSE {})
  /\ DOMAIN w \subseteq Nat
  /\ w \in [DOMAIN w -> Int]
  /\ w[b] = -len
  /\ b + len < ep => w[b + len] = ep - (b + len)
  /\ \A x \in DOMAIN sg \ {b, b + len} : w[x] = sg[x]
  /\ b + len >= ep => \A x \in DOMAIN sg \ {b} : w[x] = sg[x]

(* What WriteHeaders computes. *)
LEMMA WriteHeadersType ==
  ASSUME NEW sg, DOMAIN sg \subseteq Nat, sg \in [DOMAIN sg -> Int],
         NEW b \in Nat, NEW len \in Nat, len > 0, NEW ep \in Nat
  PROVE  HeadersWritten(sg, b, len, ep, WriteHeaders(sg, b, len, ep))
<1> DEFINE s == Put(sg, b, -len)
           w == WriteHeaders(sg, b, len, ep)
<1>1. /\ DOMAIN s = DOMAIN sg \cup {b} /\ DOMAIN s \subseteq Nat
      /\ s \in [DOMAIN s -> Int]
      /\ s[b] = -len /\ \A x \in DOMAIN sg \ {b} : s[x] = sg[x]
  BY DEF Put
<1>2. CASE b + len < ep
  <2>1. ep - (b + len) \in Int /\ b + len \in Nat
    OBVIOUS
  <2>2. w = Put(s, b + len, ep - (b + len))
    BY <1>2 DEF WriteHeaders
  <2> HIDE DEF s, w
  <2>3. /\ DOMAIN w = DOMAIN s \cup {b + len} /\ DOMAIN w \subseteq Nat
        /\ w \in [DOMAIN w -> Int]
        /\ w[b + len] = ep - (b + len)
        /\ \A x \in DOMAIN s \ {b + len} : w[x] = s[x]
    BY <1>1, <2>1, <2>2 DEF Put
  <2>4. HeadersWritten(sg, b, len, ep, w)
    BY <1>1, <1>2, <2>3 DEF HeadersWritten
  <2> QED BY <2>4 DEF w
<1>3. CASE ~(b + len < ep)
  <2>1. w = s
    BY <1>3 DEF WriteHeaders
  <2> HIDE DEF s
  <2>2. HeadersWritten(sg, b, len, ep, s)
    BY <1>1, <1>3 DEF HeadersWritten
  <2> QED BY <2>1, <2>2
<1> QED BY <1>2, <1>3

(* Growing the image changes no type. *)
LEMMA ZeroedType ==
  ASSUME NEW f, NEW T, 0 \in T, f \in [DOMAIN f -> T], NEW at, NEW n
  PROVE  /\ DOMAIN Zeroed(f, at, n) = DOMAIN f
         /\ Zeroed(f, at, n) \in [DOMAIN f -> T]
  BY DEF Zeroed

(* Growing the image changes no header that lies in the file. *)
LEMMA ZeroedSame ==
  ASSUME NEW f, f \in [DOMAIN f -> Int], DOMAIN f \subseteq Nat, NEW at \in Nat,
         NEW n, size \in Nat, \A x \in DOMAIN f : x + at < size
  PROVE  Zeroed(f, at, n) = f
<1>1. \A x \in DOMAIN f : ~(size <= x + at)
  OBVIOUS
<1>2. \A x \in DOMAIN f : Zeroed(f, at, n)[x] = f[x]
  BY <1>1 DEF Zeroed
<1> QED BY <1>2 DEF Zeroed

(* Growing the bitmap changes no bit that stands for an offset in the file. *)
LEMMA BitsKeptSame ==
  ASSUME NEW n, size \in Nat, bitmap \subseteq Nat, \A b \in bitmap : b < size
  PROVE  BitsKept(n) = bitmap
<1>1. \A b \in bitmap : b \div 32 <= size \div 32
  <2> SUFFICES ASSUME NEW b \in bitmap PROVE b \div 32 <= size \div 32
    OBVIOUS
  <2>1. b \in Nat /\ b < size
    OBVIOUS
  <2> QED BY <2>1
<1> QED BY <1>1 DEF BitsKept

(* Writing what is already there changes nothing. *)
LEMMA PutSame ==
  ASSUME NEW f, f = [x \in DOMAIN f |-> f[x]], NEW k \in DOMAIN f
  PROVE  Put(f, k, f[k]) = f
  BY DEF Put

-----------------------------------------------------------------------------
(* Types *)

(* Before the first hivex_open every variable is well typed. *)
LEMMA InitTypeOK == Init => TypeOK
<1> SUFFICES ASSUME Init PROVE TypeOK
  OBVIOUS
<1>1. /\ disk = [f \in Files |-> disk[f]]
      /\ \A f \in Files : IsImage(disk[f])
  BY DisksAssumption DEF Init
<1>2. IsImage(Image)
  BY ConstantsAssumption
  DEF Init, IsImage, Image, IsHeader, NoHeader, Empty, UInt32
<1>3. provenance \in [Files -> {"sound", "saved", "other"}]
  BY DEF Init
<1> QED BY <1>1, <1>2, <1>3 DEF Init, TypeOK, Returns, Empty

(* Closing or refusing a file leaves a typed, empty handle. *)
LEMMA FreeHandleType ==
  ASSUME FreeHandle
  PROVE  /\ IsImage(Image)' /\ (bitmap \subseteq DOMAIN seg)'
         /\ writable' \in BOOLEAN /\ sound' \in BOOLEAN
         /\ endpages' \in Nat /\ endblocks' \in Nat
<1>1. IsImage(Image)'
  BY ConstantsAssumption
  DEF FreeHandle, IsImage, Image, IsHeader, NoHeader, Empty, UInt32
<1> QED BY <1>1 DEF FreeHandle

(* hivex_open's error exit preserves the types. *)
LEMMA RejectType ==
  ASSUME TypeOK, NEW f \in Files, NEW e \in Returns, Reject(f, e)
  PROVE  TypeOK'
<1>1. FreeHandle
  BY DEF Reject
<1>2. UNCHANGED <<disk, provenance, target>>
  BY DEF Reject, fileVars
<1> QED BY <1>1, <1>2, FreeHandleType DEF TypeOK, Reject, EndScan

(* An allocation of len bytes at b keeps the memory typed. *)
LEMMA PlaceType ==
  ASSUME NEW b \in Nat, NEW len \in Nat, len > 0, NEW ep \in Nat,
         NEW sg, DOMAIN sg \subseteq Nat, sg \in [DOMAIN sg -> Int],
         NEW bits, bits \subseteq DOMAIN sg,
         seg' = WriteHeaders(sg, b, len, ep), bitmap' = SetBit(bits, b, len)
  PROVE  /\ DOMAIN seg' \subseteq Nat /\ seg' \in [DOMAIN seg' -> Int]
         /\ bitmap' \subseteq DOMAIN seg'
<1>1. HeadersWritten(sg, b, len, ep, seg')
  BY WriteHeadersType
<1> QED BY <1>1 DEF SetBit, HeadersWritten

(* A header with other values in its fields. *)
HeaderWith(h, m, s1, s2, v, o, b, sum) ==
  [h EXCEPT !.magic = m, !.sequence1 = s1, !.sequence2 = s2, !.major_ver = v,
            !.offset = o, !.blocks = b, !.csum = sum]

(* It is a header if the values have the types of the fields. *)
LEMMA HeaderWithType ==
  ASSUME NEW h, IsHeader(h), NEW m \in BOOLEAN, NEW s1 \in UInt32, NEW s2 \in UInt32,
         NEW v \in UInt32, NEW o \in UInt32, NEW b \in UInt32, NEW sum
  PROVE  IsHeader(HeaderWith(h, m, s1, s2, v, o, b, sum))
  BY DEF IsHeader, HeaderWith

(* Wherever a write stops, an image is left in the file. *)
LEMMA CutType ==
  ASSUME TypeOK, NEW c \in Nat
  PROVE  IsImage(Cut(c))
<1>1. IsImage(EmptyImage)
  BY ConstantsAssumption
  DEF EmptyImage, IsImage, IsHeader, NoHeader, Empty, UInt32
<1>2. CASE c # 0
  <2> DEFINE pg == [p \in {q \in DOMAIN page : q + PageSizeEnd <= c} |-> page[p]]
             sg == [b \in {d \in DOMAIN seg : d + LengthEnd <= c} |-> seg[b]]
  <2>1. /\ IsHeader(hdr)
        /\ DOMAIN page \subseteq Nat /\ page \in [DOMAIN page -> Nat]
        /\ DOMAIN seg \subseteq Nat /\ seg \in [DOMAIN seg -> Int]
    BY DEF TypeOK, IsImage, Image
  <2>2. IsHeader(CutHeader(c))
    <3> DEFINE kept(end, v) == IF end <= c THEN v ELSE 0
               m == IF 4 <= c THEN hdr.magic ELSE FALSE
    <3>1. \A end, v : v \in UInt32 => kept(end, v) \in UInt32
      BY ConstantsAssumption DEF UInt32
    <3>2. m \in BOOLEAN
      BY <2>1 DEF IsHeader
    <3>3. CutHeader(c) =
            HeaderWith(hdr, m, kept(8, hdr.sequence1), kept(12, hdr.sequence2),
                       kept(24, hdr.major_ver), kept(40, hdr.offset),
                       kept(44, hdr.blocks), kept(512, hdr.csum))
      BY DEF CutHeader, HeaderWith
    <3>4. /\ kept(8, hdr.sequence1) \in UInt32 /\ kept(12, hdr.sequence2) \in UInt32
          /\ kept(24, hdr.major_ver) \in UInt32 /\ kept(40, hdr.offset) \in UInt32
          /\ kept(44, hdr.blocks) \in UInt32
      BY <2>1, <3>1 DEF IsHeader
    <3> HIDE DEF kept, m
    <3> QED BY <2>1, <3>2, <3>3, <3>4, HeaderWithType
  <2>3. DOMAIN pg \subseteq Nat /\ pg \in [DOMAIN pg -> Nat]
    BY <2>1
  <2>4. DOMAIN sg \subseteq Nat /\ sg \in [DOMAIN sg -> Int]
    BY <2>1
  <2>5. Cut(c) = [size |-> c, hdr |-> CutHeader(c), page |-> pg, seg |-> sg]
    BY <1>2 DEF Cut
  <2> HIDE DEF pg, sg
  <2> QED BY <2>2, <2>3, <2>4, <2>5 DEF IsImage
<1> QED BY <1>1, <1>2 DEF Cut

(* Every step keeps the types. *)
LEMMA NextTypeOK == TypeOK /\ [Next]_vars => TypeOK'
<1> SUFFICES ASSUME TypeOK, [Next]_vars PROVE TypeOK'
  OBVIOUS
<1> USE DEF Returns
<1>1. ASSUME NEW f \in Files, OpenMayFail(f) PROVE TypeOK'
  BY <1>1, RejectType DEF OpenMayFail
<1>2. ASSUME NEW f \in Files, OpenEmpty(f) PROVE TypeOK'
  BY <1>2, RejectType DEF OpenEmpty
<1>3. ASSUME NEW f \in Files, OpenBadHeader(f) PROVE TypeOK'
  BY <1>3, RejectType DEF OpenBadHeader
<1>4. ASSUME NEW f \in Files, NEW w \in BOOLEAN, OpenHeader(f, w) PROVE TypeOK'
  <2>1. IsImage(disk[f]) /\ UNCHANGED <<disk, provenance, target>>
    BY <1>4 DEF TypeOK, OpenHeader, fileVars
  <2>2. IsImage(Image)'
    BY <1>4, <2>1 DEF OpenHeader, IsImage, Image
  <2>3. endpages' \in Nat
    BY <1>4, <2>1, ConstantsAssumption
    DEF OpenHeader, IsImage, IsHeader, UInt32, FirstPage
  <2>4. sound' \in BOOLEAN
    BY <1>4 DEF OpenHeader, WellFormed, HeaderOK
  <2>5. /\ pc' = "pages" /\ ret' = "ok" /\ filename' = f /\ writable' = w
        /\ bitmap' = {} /\ endblocks' = 0 /\ off' = 4096 /\ blkoff' = 0
        /\ seen_root' = FALSE /\ bad_root' = FALSE
    BY <1>4 DEF OpenHeader, FirstPage
  <2>6. /\ writable' \in BOOLEAN /\ seen_root' \in BOOLEAN
        /\ bad_root' \in BOOLEAN /\ bitmap' \subseteq DOMAIN seg'
    BY <2>5
  <2> QED BY <2>1, <2>2, <2>3, <2>4, <2>5, <2>6 DEF TypeOK
<1>5. CASE ScanPage
  <2>1. ASSUME NEW e \in Returns, Reject(filename, e) PROVE TypeOK'
    BY <2>1, RejectType DEF TypeOK
  <2>2. ASSUME NEW n \in PageSizes(off), PageOK(n), pc' = "blocks",
               page' = Put(page, off, n), blkoff' = off + PageHeader,
               UNCHANGED <<fileVars, ret, target, openVars, size, hdr, seg, bitmap,
                           endpages, endblocks, off, seen_root, bad_root>>
        PROVE  TypeOK'
    <3>1. /\ DOMAIN page \subseteq Nat /\ page \in [DOMAIN page -> Nat]
          /\ off \in Nat
      BY DEF TypeOK, IsImage, Image
    <3>2. n \in Nat
      BY <3>1, ConstantsAssumption DEF PageSizes, Length
    <3>3. /\ DOMAIN page' \subseteq Nat /\ page' \in [DOMAIN page' -> Nat]
          /\ off \in DOMAIN page'
      BY <2>2, <3>1, <3>2 DEF Put
    <3>4. IsImage(Image)'
      BY <2>2, <3>3 DEF TypeOK, IsImage, Image
    <3> QED BY <2>2, <3>1, <3>3, <3>4
            DEF TypeOK, fileVars, openVars, PageHeader
  <2> QED BY <1>5, <2>1, <2>2 DEF ScanPage
<1>6. CASE ScanBlock
  <2>1. ASSUME NEW e \in Returns, Reject(filename, e) PROVE TypeOK'
    BY <2>1, RejectType DEF TypeOK
  <2>2. ASSUME NEW g \in SegLens(blkoff), NEW nk \in RootIds(blkoff), BlockOK(g),
               seg' = Put(seg, blkoff, g),
               seen_root' = (seen_root \/ blkoff = rootoffs),
               bad_root' = (bad_root \/ (blkoff = rootoffs /\ ~(g < 0 /\ nk))),
               bitmap' = IF g < 0 THEN bitmap \cup {blkoff} ELSE bitmap,
               blkoff' = blkoff + Length(g),
               UNCHANGED <<fileVars, pc, ret, target, openVars, size, hdr, page,
                           endpages, endblocks, off>>
        PROVE  TypeOK'
    <3>1. /\ DOMAIN seg \subseteq Nat /\ seg \in [DOMAIN seg -> Int]
          /\ blkoff \in Nat /\ bitmap \subseteq DOMAIN seg
      BY DEF TypeOK, IsImage, Image
    <3>2. g \in Int /\ Length(g) \in Nat
      BY <3>1, ConstantsAssumption DEF SegLens, Length
    <3>3. /\ DOMAIN seg' \subseteq Nat /\ seg' \in [DOMAIN seg' -> Int]
          /\ DOMAIN seg' = DOMAIN seg \cup {blkoff}
      BY <2>2, <3>1, <3>2 DEF Put
    <3>4. blkoff' \in Nat /\ bitmap' \subseteq DOMAIN seg'
      BY <2>2, <3>1, <3>2, <3>3
    <3>5. seen_root' \in BOOLEAN /\ bad_root' \in BOOLEAN
      BY <2>2 DEF TypeOK
    <3>6. IsImage(Image)'
      BY <2>2, <3>3 DEF TypeOK, Image, IsImage
    <3> QED BY <2>2, <3>4, <3>5, <3>6 DEF TypeOK, fileVars, openVars
  <2> QED BY <1>6, <2>1, <2>2 DEF ScanBlock
<1>7. CASE EndOfPage
  BY <1>7 DEF EndOfPage, TypeOK, fileVars, openVars, memVars, IsImage, Image
<1>8. CASE FinishOpen
  <2>1. CASE Reject(filename, "ENOTSUP")
    BY <2>1, RejectType DEF TypeOK
  <2>2. CASE ~Reject(filename, "ENOTSUP")
    <3>1. /\ pc' = "open" /\ EndScan
          /\ UNCHANGED <<disk, provenance, ret, target, filename, writable,
                         sound, size, hdr, page, seg, bitmap, endpages,
                         endblocks>>
      BY <1>8, <2>2 DEF FinishOpen, fileVars, openVars, memVars
    <3>2. IsImage(Image)'
      BY <3>1 DEF TypeOK, IsImage, Image
    <3> QED BY <3>1, <3>2 DEF EndScan, TypeOK
  <2> QED BY <2>1, <2>2
<1>9. ASSUME NEW n \in Requests, AllocateRefused(n) PROVE TypeOK'
  BY <1>9 DEF AllocateRefused, TypeOK, fileVars, openVars, memVars, scanVars,
              IsImage, Image
<1>10. ASSUME NEW n \in Requests, AllocateInPage(n) PROVE TypeOK'
  <2>1. n \in Nat /\ n >= 4
    BY <1>10, ConstantsAssumption DEF AllocateInPage, Refused
  <2>2. RoundUp(n) \in Nat /\ RoundUp(n) > 0
    BY <2>1, RoundUpType
  <2>3. /\ seg' = WriteHeaders(seg, endblocks, RoundUp(n), endpages)
        /\ bitmap' = SetBit(bitmap, endblocks, RoundUp(n))
        /\ endblocks' = endblocks + RoundUp(n)
        /\ ret' = "ok"
        /\ UNCHANGED <<disk, provenance, pc, target, filename, writable,
                       sound, size, hdr, page, endpages, off, blkoff,
                       seen_root, bad_root>>
    BY <1>10 DEF AllocateInPage, fileVars, openVars, scanVars
  <2>4. /\ endblocks \in Nat /\ endpages \in Nat
        /\ DOMAIN seg \subseteq Nat /\ seg \in [DOMAIN seg -> Int]
        /\ bitmap \subseteq DOMAIN seg
    BY DEF TypeOK, IsImage, Image
  <2>5. /\ DOMAIN seg' \subseteq Nat /\ seg' \in [DOMAIN seg' -> Int]
        /\ bitmap' \subseteq DOMAIN seg'
    BY <2>2, <2>3, <2>4, PlaceType
  <2>6. IsImage(Image)'
    BY <2>3, <2>5 DEF TypeOK, IsImage, Image
  <2>7. endblocks' \in Nat
    BY <2>2, <2>3, <2>4
  <2> QED BY <2>3, <2>5, <2>6, <2>7 DEF TypeOK
<1>11. ASSUME NEW n \in Requests, AllocateInNewPage(n) PROVE TypeOK'
  <2> DEFINE len == RoundUp(n)
             ext == PageExtent(len)
  <2>1. n \in Nat /\ n >= 4
    BY <1>11, ConstantsAssumption DEF AllocateInNewPage, Refused
  <2>2. len \in Nat /\ len > 0 /\ len % 8 = 0
    BY <2>1, RoundUpType
  <2>3. ext \in Nat
    BY <2>2, PageExtentType
  <2> DEFINE pg == Zeroed(page, PageSizeEnd - 4, endpages + ext)
             sg == Zeroed(seg, 0, endpages + ext)
             bits == BitsKept(endpages + ext)
  <2>4. /\ seg' = WriteHeaders(sg, endpages + PageHeader, len, endpages + ext)
        /\ bitmap' = SetBit(bits, endpages + PageHeader, len)
        /\ endblocks' = endpages + PageHeader + len
        /\ endpages' = endpages + ext
        /\ size' = IF endpages + ext > size THEN endpages + ext ELSE size
        /\ page' = Put(pg, endpages, ext)
        /\ ret' = "ok"
        /\ UNCHANGED <<disk, provenance, pc, target, filename, writable,
                       sound, hdr, off, blkoff, seen_root, bad_root>>
    BY <1>11 DEF AllocateInNewPage, fileVars, openVars, scanVars
  <2> HIDE DEF len, ext
  <2>5. /\ endpages \in Nat /\ size \in Nat
        /\ endpages + PageHeader \in Nat /\ endpages + ext \in Nat
        /\ DOMAIN page \subseteq Nat /\ page \in [DOMAIN page -> Nat]
        /\ DOMAIN seg \subseteq Nat /\ seg \in [DOMAIN seg -> Int]
        /\ bitmap \subseteq DOMAIN seg
    BY <2>3 DEF TypeOK, PageHeader, IsImage, Image
  <2>g. /\ DOMAIN pg \subseteq Nat /\ pg \in [DOMAIN pg -> Nat]
        /\ DOMAIN sg \subseteq Nat /\ sg \in [DOMAIN sg -> Int]
        /\ bits \subseteq DOMAIN sg
    <3>1. DOMAIN pg = DOMAIN page /\ pg \in [DOMAIN page -> Nat]
      BY <2>5, ZeroedType
    <3>2. DOMAIN sg = DOMAIN seg /\ sg \in [DOMAIN seg -> Int]
      BY <2>5, ZeroedType
    <3>3. bits \subseteq bitmap
      BY DEF BitsKept
    <3> HIDE DEF pg, sg, bits
    <3> QED BY <2>5, <3>1, <3>2, <3>3
  <2> HIDE DEF pg, sg, bits
  <2>6. /\ DOMAIN seg' \subseteq Nat /\ seg' \in [DOMAIN seg' -> Int]
        /\ bitmap' \subseteq DOMAIN seg'
    BY <2>2, <2>4, <2>5, <2>g, PlaceType
  <2>7. DOMAIN page' \subseteq Nat /\ page' \in [DOMAIN page' -> Nat]
    BY <2>3, <2>4, <2>5, <2>g DEF Put
  <2>8. size' \in Nat /\ endpages' \in Nat /\ endblocks' \in Nat
    BY <2>2, <2>4, <2>5
  <2>9. IsImage(Image)'
    BY <2>4, <2>6, <2>7, <2>8 DEF TypeOK, IsImage, Image
  <2>10. pc # "blocks"
    BY <1>11 DEF AllocateInNewPage
  <2> QED BY <2>4, <2>6, <2>8, <2>9, <2>10 DEF TypeOK
<1>12. ASSUME NEW n \in Requests, AllocateFails(n) PROVE TypeOK'
  BY <1>12 DEF AllocateFails, TypeOK, fileVars, openVars, memVars, scanVars,
               IsImage, Image
<1>13. ASSUME NEW b \in bitmap, mark_block_unused(b) PROVE TypeOK'
  <2>1. /\ seg' = Put(seg, b, block_len(b)) /\ bitmap' = bitmap \ {b}
        /\ ret' = "ok" /\ pc = "open"
        /\ UNCHANGED <<disk, provenance, pc, target, filename, writable, sound,
                       size, hdr, page, endpages, endblocks, off, blkoff,
                       seen_root, bad_root>>
    BY <1>13 DEF mark_block_unused, fileVars, openVars, scanVars
  <2>2. /\ DOMAIN seg \subseteq Nat /\ seg \in [DOMAIN seg -> Int]
        /\ b \in DOMAIN seg /\ block_len(b) \in Int
    BY DEF TypeOK, IsImage, Image, block_len, Length
  <2>3. DOMAIN seg' = DOMAIN seg /\ seg' \in [DOMAIN seg -> Int]
    BY <2>1, <2>2 DEF Put
  <2>4. IsImage(Image)'
    BY <2>1, <2>2, <2>3 DEF TypeOK, IsImage, Image
  <2> QED BY <2>1, <2>3, <2>4 DEF TypeOK
<1>14. CASE CommitRefused
  BY <1>14 DEF CommitRefused, TypeOK, fileVars, openVars, memVars, scanVars,
               IsImage, Image
<1>15. ASSUME NEW f \in Files, CommitOpen(f) PROVE TypeOK'
  <2>1. /\ hdr' = CommittedHeader /\ target' = f /\ pc' = "writing"
        /\ disk' = [disk EXCEPT ![f] = EmptyImage]
        /\ provenance' = [provenance EXCEPT ![f] = "other"]
        /\ UNCHANGED <<ret, filename, writable, sound, size, page, seg, bitmap,
                       endpages, endblocks, off, blkoff, seen_root, bad_root>>
    BY <1>15 DEF CommitOpen, openVars, scanVars
  <2>2. IsImage(EmptyImage)
    BY ConstantsAssumption
    DEF EmptyImage, IsImage, IsHeader, NoHeader, Empty, UInt32
  <2>3. IsHeader(hdr) /\ endpages \in Nat
    BY DEF TypeOK, IsImage, Image
  <2>4. NextSequence \in UInt32 /\ (endpages - FirstPage) % Word \in UInt32
    <3>1. hdr.sequence1 + 1 \in Int /\ endpages - FirstPage \in Int
      BY <2>3 DEF IsHeader, UInt32, FirstPage
    <3> QED BY <3>1, WrapType DEF NextSequence
  <2>5. IsHeader(CommittedHeader)
    BY <2>3, <2>4 DEF IsHeader, CommittedHeader
  <2>6. IsImage(Image)'
    BY <2>1, <2>5 DEF TypeOK, IsImage, Image
  <2>7. disk' = [g \in Files |-> disk'[g]] /\ \A g \in Files : IsImage(disk'[g])
    BY <2>1, <2>2 DEF TypeOK
  <2> QED BY <2>1, <2>6, <2>7 DEF TypeOK
<1>16. CASE CommitWrite
  <2>1. IsImage(Image)'
    BY <1>16 DEF CommitWrite, memVars, TypeOK, IsImage, Image
  <2>2. size \in Nat
    BY DEF TypeOK, IsImage, Image
  <2>3. disk' = [g \in Files |-> disk'[g]] /\ \A g \in Files : IsImage(disk'[g])
    BY <1>16, <2>2, CutType DEF CommitWrite, TypeOK
  <2> QED BY <1>16, <2>1, <2>3
          DEF CommitWrite, TypeOK, openVars, memVars, scanVars
<1>17. ASSUME NEW c \in CutPoints PROVE IsImage(Cut(c))
  BY <1>17, ConstantsAssumption, CutType DEF CutPoints
<1>18. CASE ShortWrite
  <2>1. IsImage(Image)'
    BY <1>18 DEF ShortWrite, memVars, TypeOK, IsImage, Image
  <2>2. disk' = [g \in Files |-> disk'[g]] /\ \A g \in Files : IsImage(disk'[g])
    BY <1>17, <1>18 DEF ShortWrite, TypeOK
  <2> QED BY <1>18, <2>1, <2>2
          DEF ShortWrite, TypeOK, openVars, memVars, scanVars
<1>19. CASE Crash
  <2>1. disk' = [g \in Files |-> disk'[g]] /\ \A g \in Files : IsImage(disk'[g])
    BY <1>17, <1>19 DEF Crash, TypeOK
  <2> QED BY <1>19, <2>1, FreeHandleType DEF Crash, TypeOK, scanVars
<1>20. CASE hivex_close
  BY <1>20, FreeHandleType DEF hivex_close, TypeOK, fileVars, scanVars
<1>21. CASE CloseDangling
  BY <1>21, FreeHandleType DEF CloseDangling, TypeOK, fileVars, scanVars
<1>22. CASE UNCHANGED vars
  BY <1>22 DEF vars, fileVars, openVars, memVars, scanVars, TypeOK, IsImage,
               Image
<1> QED
  BY <1>1, <1>2, <1>3, <1>4, <1>5, <1>6, <1>7, <1>8, <1>9, <1>10, <1>11,
     <1>12, <1>13, <1>14, <1>15, <1>16, <1>18, <1>19, <1>20, <1>21, <1>22
  DEF Next

(* The types hold in every reachable state. *)
THEOREM TypeCorrect == Spec => []TypeOK
<1> QED BY InitTypeOK, NextTypeOK, PTL DEF Spec

-----------------------------------------------------------------------------
(* Layout *)

(* The types of what is in memory. *)
LEMMA MemoryTypes ==
  ASSUME TypeOK
  PROVE  /\ size \in Nat /\ endpages \in Nat /\ endblocks \in Nat
         /\ off \in Nat /\ blkoff \in Nat
         /\ IsHeader(hdr) /\ hdr.offset \in Nat
         /\ DOMAIN page \subseteq Nat /\ page \in [DOMAIN page -> Nat]
         /\ DOMAIN seg \subseteq Nat /\ seg \in [DOMAIN seg -> Int]
         /\ bitmap \subseteq DOMAIN seg
  BY ConstantsAssumption DEF TypeOK, IsImage, Image, IsHeader, UInt32

(* Two pages of a tiling that share an offset are the same page. *)
LEMMA SamePage ==
  ASSUME NEW sz \in Nat, NEW ep \in Nat, NEW pg,
         DOMAIN pg \subseteq Nat, pg \in [DOMAIN pg -> Nat],
         PagesTile(sz, ep, pg),
         NEW p \in DOMAIN pg, NEW q \in DOMAIN pg, NEW b \in Nat,
         p <= b, b < p + pg[p], q <= b, b < q + pg[q]
  PROVE  p = q
<1>1. p \in Nat /\ q \in Nat /\ pg[p] \in Nat /\ pg[q] \in Nat
  OBVIOUS
<1>2. (p < q => p + pg[p] <= q) /\ (q < p => q + pg[q] <= p)
  BY DEF PagesTile
<1> QED BY <1>1, <1>2

(* Every block of a tiling ends at or before endpages. *)
LEMMA BlockBelowEnd ==
  ASSUME NEW sz \in Nat, NEW ep \in Nat, NEW pg, NEW sg,
         DOMAIN pg \subseteq Nat, pg \in [DOMAIN pg -> Nat],
         DOMAIN sg \subseteq Nat, sg \in [DOMAIN sg -> Int],
         PagesTile(sz, ep, pg), BlocksTile(pg, sg), NEW b \in DOMAIN sg
  PROVE  /\ b + Length(sg[b]) <= ep /\ b < ep
         /\ Length(sg[b]) \in Nat /\ Length(sg[b]) > 4
<1>1. Length(sg[b]) \in Nat /\ Length(sg[b]) > 4
  BY DEF BlocksTile, Length
<1>2. PICK p \in DOMAIN pg : InPage(pg, b, Length(sg[b]), p)
  BY DEF BlocksTile
<1>3. p + pg[p] <= ep
  BY DEF PagesTile
<1> QED BY <1>1, <1>2, <1>3 DEF InPage

(* Writing a block of len bytes and the header of the rest over the free   *)
(* block that ends at endpages keeps the blocks tiling.                    *)
LEMMA CutTail ==
  ASSUME NEW sz \in Nat, NEW ep \in Nat, NEW pg, NEW sg,
         DOMAIN pg \subseteq Nat, pg \in [DOMAIN pg -> Nat],
         DOMAIN sg \subseteq Nat, sg \in [DOMAIN sg -> Int],
         PagesTile(sz, ep, pg), BlocksTile(pg, sg),
         NEW b \in DOMAIN sg, sg[b] = ep - b,
         NEW len \in Nat, len >= 8, len % 8 = 0, b + len <= ep,
         (ep - b) % 8 = 0
  PROVE  BlocksTile(pg, WriteHeaders(sg, b, len, ep))
<1> DEFINE w == WriteHeaders(sg, b, len, ep)
<1>1. b \in Nat /\ len > 0
  OBVIOUS
<1>2a. HeadersWritten(sg, b, len, ep, w)
  BY <1>1, WriteHeadersType
<1> HIDE DEF w
<1>2. /\ DOMAIN w = DOMAIN sg \cup {b} \cup
                    (IF b + len < ep THEN {b + len} ELSE {})
      /\ w \in [DOMAIN w -> Int]
      /\ w[b] = -len
      /\ b + len < ep => w[b + len] = ep - (b + len)
      /\ \A x \in DOMAIN sg \ {b, b + len} : w[x] = sg[x]
      /\ b + len >= ep => \A x \in DOMAIN sg \ {b} : w[x] = sg[x]
  BY <1>2a DEF HeadersWritten
<1>3. Length(sg[b]) = ep - b /\ ep - b > 0
  BY <1>1 DEF Length
<1>4. \A c \in DOMAIN sg : c > b => c >= ep
  BY <1>3 DEF BlocksTile
<1>5. \A c \in DOMAIN sg : c < ep
  BY BlockBelowEnd
<1>6. \A c \in DOMAIN sg : c = b \/ c < b
  BY <1>4, <1>5, <1>1
<1>7. \A c \in DOMAIN sg : c # b => w[c] = sg[c] /\ c + Length(sg[c]) <= b
  <2> SUFFICES ASSUME NEW c \in DOMAIN sg, c # b
               PROVE  w[c] = sg[c] /\ c + Length(sg[c]) <= b
    OBVIOUS
  <2>1. c < b
    BY <1>6
  <2>2. c \in DOMAIN sg \ {b, b + len}
    BY <2>1, <1>1
  <2> QED BY <2>1, <2>2, <1>2 DEF BlocksTile
<1>8. PICK p \in DOMAIN pg : p + PageHeader <= b /\ p + pg[p] = ep
  <2>1. PICK p \in DOMAIN pg : InPage(pg, b, Length(sg[b]), p)
    BY DEF BlocksTile
  <2>2. p + pg[p] <= ep
    BY DEF PagesTile
  <2> QED BY <2>1, <2>2, <1>3, <1>1 DEF InPage, PageHeader
<1>9. \A q \in DOMAIN pg : q + PageHeader \in DOMAIN w
  BY <1>2 DEF BlocksTile
<1>10. ASSUME NEW c \in DOMAIN w
       PROVE /\ Length(w[c]) > 4 /\ Length(w[c]) % 4 = 0
             /\ \E q \in DOMAIN pg :
                  /\ InPage(pg, c, Length(w[c]), q)
                  /\ \/ c + Length(w[c]) = q + pg[q]
                     \/ c + Length(w[c]) \in DOMAIN w
  <2>1. CASE c = b
    <3>1. Length(w[c]) = len
      BY <2>1, <1>2, <1>1 DEF Length
    <3>2. InPage(pg, c, len, p)
      BY <1>8, <2>1 DEF InPage
    <3>3. c + len = p + pg[p] \/ c + len \in DOMAIN w
      BY <1>2, <1>8, <2>1, <1>1
    <3> QED BY <3>1, <3>2, <3>3
  <2>2. CASE c # b /\ c \in DOMAIN sg
    <3>1. w[c] = sg[c]
      BY <2>2, <1>7
    <3> QED BY <3>1, <2>2, <1>2 DEF BlocksTile
  <2>3. CASE c = b + len /\ b + len < ep
    <3>1. Length(w[c]) = ep - (b + len)
      BY <2>3, <1>2, <1>1 DEF Length
    <3>2. (ep - (b + len)) % 8 = 0 /\ ep - (b + len) > 0
      BY <2>3, <1>1
    <3>3. ep - (b + len) > 4 /\ (ep - (b + len)) % 4 = 0
      BY <3>2, <1>1
    <3>4. InPage(pg, c, ep - (b + len), p) /\ c + (ep - (b + len)) = p + pg[p]
      BY <1>8, <2>3, <1>1 DEF InPage, PageHeader
    <3> QED BY <3>1, <3>3, <3>4
  <2> QED BY <1>2, <2>1, <2>2, <2>3
<1>11. ASSUME NEW c \in DOMAIN w, NEW d \in DOMAIN w, c < d
       PROVE  c + Length(w[c]) <= d
  <2>1. CASE c \in DOMAIN sg /\ c # b /\ d \in DOMAIN sg
    BY <2>1, <1>7, <1>11 DEF BlocksTile
  <2>2. CASE c \in DOMAIN sg /\ c # b /\ d = b + len
    <3>1. w[c] = sg[c] /\ c + Length(sg[c]) <= b
      BY <2>2, <1>7
    <3>2. Length(sg[c]) \in Nat
      BY <2>2 DEF Length
    <3> QED BY <3>1, <3>2, <2>2, <1>1
  <2>3. CASE c = b
    <3>1. d = b + len
      BY <2>3, <1>2, <1>6, <1>11, <1>1
    <3> QED BY <3>1, <2>3, <1>2, <1>1 DEF Length
  <2>4. CASE c = b + len
    BY <2>4, <1>2, <1>6, <1>11, <1>1
  <2> QED BY <1>2, <2>1, <2>2, <2>3, <2>4
<1>12. BlocksTile(pg, w)
  BY <1>9, <1>10, <1>11 DEF BlocksTile
<1> QED BY <1>12 DEF w

(* allocate_page adds a page at endpages; seen as one free block behind    *)
(* its header, the page keeps both tilings.                                *)
LEMMA AddPage ==
  ASSUME NEW sz \in Nat, NEW ep \in Nat, NEW pg, NEW sg,
         DOMAIN pg \subseteq Nat, pg \in [DOMAIN pg -> Nat],
         DOMAIN sg \subseteq Nat, sg \in [DOMAIN sg -> Int],
         PagesTile(sz, ep, pg), BlocksTile(pg, sg),
         NEW ext \in Nat, ext % 4096 = 0, ext > PageHeader,
         NEW nsz \in Nat, ep + ext <= nsz
  PROVE  /\ PagesTile(nsz, ep + ext, Put(pg, ep, ext))
         /\ BlocksTile(Put(pg, ep, ext),
                       Put(sg, ep + PageHeader, ext - PageHeader))
<1> DEFINE np == Put(pg, ep, ext)
           b == ep + PageHeader
           ns == Put(sg, b, ext - PageHeader)
<1>1. /\ DOMAIN np = DOMAIN pg \cup {ep} /\ np[ep] = ext
      /\ \A p \in DOMAIN pg \ {ep} : np[p] = pg[p]
  BY DEF Put
<1>2. /\ DOMAIN ns = DOMAIN sg \cup {b} /\ ns[b] = ext - PageHeader
      /\ \A c \in DOMAIN sg \ {b} : ns[c] = sg[c]
  BY DEF Put
<1>3. b \in Nat /\ b > ep /\ ext - 32 > 0 /\ ext - PageHeader = ext - 32
      /\ b = ep + 32
  BY DEF PageHeader
<1> HIDE DEF np, ns, b
<1>4. \A p \in DOMAIN pg : p < ep /\ np[p] = pg[p] /\ p + pg[p] <= ep
  <2> SUFFICES ASSUME NEW p \in DOMAIN pg
               PROVE  p < ep /\ np[p] = pg[p] /\ p + pg[p] <= ep
    OBVIOUS
  <2>1. p + pg[p] <= ep /\ pg[p] > 32
    BY DEF PagesTile, PageHeader
  <2>2. p < ep
    BY <2>1
  <2> QED BY <2>1, <2>2, <1>1
<1>5. ep > 4096
  BY <1>4 DEF PagesTile, FirstPage
<1>6. PagesTile(nsz, ep + ext, np)
  <2>1. (ep + ext) % 4096 = 0
    <3>1. ep % 4096 = 0
      BY DEF PagesTile
    <3> QED BY <3>1
  <2>2. FirstPage \in DOMAIN np
    BY <1>1 DEF PagesTile
  <2>3. ASSUME NEW p \in DOMAIN np
        PROVE  /\ p >= FirstPage
               /\ np[p] > PageHeader /\ np[p] % 4096 = 0
               /\ \/ p + np[p] = ep + ext
                  \/ p + np[p] \in DOMAIN np /\ p + np[p] < ep + ext
    <3>1. CASE p = ep
      BY <3>1, <1>1, <1>5 DEF FirstPage
    <3>2. CASE p \in DOMAIN pg
      <4>1. np[p] = pg[p] /\ pg[p] \in Nat
        BY <3>2, <1>4
      <4>2. /\ p >= FirstPage /\ pg[p] > PageHeader /\ pg[p] % 4096 = 0
            /\ p + pg[p] = ep \/ (p + pg[p] \in DOMAIN pg /\ p + pg[p] < ep)
        BY <3>2 DEF PagesTile
      <4>3. ep < ep + ext
        BY <1>3
      <4> QED BY <4>1, <4>2, <4>3, <1>1
    <3> QED BY <3>1, <3>2, <1>1
  <2>4. ASSUME NEW p \in DOMAIN np, NEW q \in DOMAIN np, p < q
        PROVE  p + np[p] <= q
    <3>1. p \in DOMAIN pg
      BY <2>4, <1>1, <1>4
    <3>2. CASE q = ep
      BY <3>1, <3>2, <1>4
    <3>3. CASE q \in DOMAIN pg
      BY <3>1, <3>3, <1>4, <2>4 DEF PagesTile
    <3> QED BY <3>2, <3>3, <1>1
  <2> QED BY <2>1, <2>2, <2>3, <2>4 DEF PagesTile
<1>7. \A c \in DOMAIN sg : /\ ns[c] = sg[c] /\ c < ep
                           /\ c + Length(sg[c]) <= ep
                           /\ Length(sg[c]) \in Nat
  <2> SUFFICES ASSUME NEW c \in DOMAIN sg
               PROVE  /\ ns[c] = sg[c] /\ c < ep
                      /\ c + Length(sg[c]) <= ep /\ Length(sg[c]) \in Nat
    OBVIOUS
  <2>1. c < ep /\ c + Length(sg[c]) <= ep /\ Length(sg[c]) \in Nat
    BY BlockBelowEnd
  <2>2. c # b
    BY <2>1, <1>3
  <2> QED BY <2>1, <2>2, <1>2
<1>8. BlocksTile(np, ns)
  <2>1. \A p \in DOMAIN np : p + PageHeader \in DOMAIN ns
    BY <1>1, <1>2 DEF BlocksTile, b
  <2>2. ASSUME NEW c \in DOMAIN ns
        PROVE  /\ Length(ns[c]) > 4 /\ Length(ns[c]) % 4 = 0
               /\ \E p \in DOMAIN np :
                    /\ InPage(np, c, Length(ns[c]), p)
                    /\ \/ c + Length(ns[c]) = p + np[p]
                       \/ c + Length(ns[c]) \in DOMAIN ns
    <3>1. CASE c = b
      <4>1. Length(ns[c]) = ext - 32
        BY <3>1, <1>2, <1>3 DEF Length
      <4>2. ext - 32 > 4 /\ (ext - 32) % 4 = 0
        BY <1>3
      <4>3. InPage(np, c, ext - 32, ep) /\ c + (ext - 32) = ep + np[ep]
        BY <3>1, <1>1, <1>3 DEF InPage, PageHeader
      <4> QED BY <4>1, <4>2, <4>3, <1>1
    <3>2. CASE c \in DOMAIN sg
      <4>1. ns[c] = sg[c]
        BY <3>2, <1>7
      <4>2. PICK p \in DOMAIN pg :
              /\ InPage(pg, c, Length(sg[c]), p)
              /\ c + Length(sg[c]) = p + pg[p] \/ c + Length(sg[c]) \in DOMAIN sg
        BY <3>2 DEF BlocksTile
      <4>3. InPage(np, c, Length(sg[c]), p) /\ np[p] = pg[p] /\ p \in DOMAIN np
        BY <4>2, <1>4, <1>1 DEF InPage
      <4>4. Length(sg[c]) > 4 /\ Length(sg[c]) % 4 = 0
        BY <3>2 DEF BlocksTile
      <4> QED BY <4>1, <4>2, <4>3, <4>4, <1>2
    <3> QED BY <3>1, <3>2, <1>2
  <2>3. ASSUME NEW c \in DOMAIN ns, NEW d \in DOMAIN ns, c < d
        PROVE  c + Length(ns[c]) <= d
    <3>1. c \in DOMAIN sg
      BY <2>3, <1>2, <1>3, <1>7
    <3>2. CASE d = b
      BY <3>1, <3>2, <1>3, <1>7
    <3>3. CASE d \in DOMAIN sg
      BY <3>1, <3>3, <1>7, <2>3 DEF BlocksTile
    <3> QED BY <3>2, <3>3, <1>2
  <2> QED BY <2>1, <2>2, <2>3 DEF BlocksTile
<1> QED BY <1>6, <1>8 DEF np, ns, b

(* A block written behind every other block, over a free one or over       *)
(* nothing, becomes used; no other block changes.                          *)
LEMMA PlaceUsed ==
  ASSUME NEW sg, DOMAIN sg \subseteq Nat, sg \in [DOMAIN sg -> Int],
         NEW b \in Nat, NEW len \in Nat, len > 0, NEW ep \in Nat, NEW w,
         HeadersWritten(sg, b, len, ep, w),
         \A c \in DOMAIN sg : c < b \/ (c = b /\ sg[c] > 0)
  PROVE  /\ {c \in DOMAIN w : w[c] < 0} = {c \in DOMAIN sg : sg[c] < 0} \cup {b}
         /\ \A c \in DOMAIN sg \ {b} : c \in DOMAIN w /\ w[c] = sg[c]
<1>1. \A c \in DOMAIN sg \ {b} : c \in DOMAIN w /\ w[c] = sg[c]
  <2> SUFFICES ASSUME NEW c \in DOMAIN sg \ {b}
               PROVE  c \in DOMAIN w /\ w[c] = sg[c]
    OBVIOUS
  <2>1. c \in DOMAIN sg \ {b, b + len}
    OBVIOUS
  <2> QED BY <2>1 DEF HeadersWritten
<1>2. b \in DOMAIN w /\ w[b] < 0 /\ w[b] \in Int
  BY DEF HeadersWritten
<1>3. ASSUME NEW c \in DOMAIN w, w[c] < 0 PROVE c \in DOMAIN sg \cup {b}
  BY <1>3 DEF HeadersWritten
<1>4. ~(b \in DOMAIN sg /\ sg[b] < 0)
  OBVIOUS
<1> QED BY <1>1, <1>2, <1>3, <1>4

-----------------------------------------------------------------------------
(* Opening *)

(* The invariant holds before anything is opened. *)
LEMMA InitInv == Init => Inv
<1> SUFFICES ASSUME Init PROVE Inv
  OBVIOUS
<1>1. TypeOK
  BY InitTypeOK
<1>2. FilesSound
  BY DEF Init, FilesSound
<1> QED BY <1>1, <1>2
        DEF Init, Inv, MemorySound, ScansItsFile, ScanSound, BitmapExact,
            Ready, TailFree, CommitUnderWay, SoundFilesReopen,
            NothingAllocated

(* hivex_open's error exit, of a file that is not sound or for want of     *)
(* memory.                                                                 *)
LEMMA RejectInv ==
  ASSUME Inv, NEW f \in Files, NEW e \in Returns, Reject(f, e),
         e = "ENOMEM" \/ provenance[f] # "sound"
  PROVE  Inv'
<1>1. TypeOK'
  BY RejectType DEF Inv
<1>2. FilesSound'
  BY DEF Reject, fileVars, Inv, FilesSound
<1>3. SoundFilesReopen'
  BY DEF Reject, fileVars, SoundFilesReopen
<1> QED BY <1>1, <1>2, <1>3
        DEF Reject, Inv, MemorySound, ScansItsFile, ScanSound, BitmapExact,
            Ready, TailFree, CommitUnderWay, NothingAllocated

(* A well-formed image is larger than its header. *)
LEMMA WellFormedSize ==
  ASSUME NEW im, IsImage(im), WellFormed(im)
  PROVE  im.size > FirstPage
<1>1. PagesTile(im.size, im.hdr.blocks + FirstPage, im.page)
  BY DEF WellFormed, Layout
<1>2. /\ im.size \in Nat /\ im.hdr.blocks \in Nat
      /\ DOMAIN im.page \subseteq Nat /\ im.page \in [DOMAIN im.page -> Nat]
  BY ConstantsAssumption DEF IsImage, IsHeader, UInt32
<1>3. /\ FirstPage \in DOMAIN im.page
      /\ im.page[FirstPage] > PageHeader
      /\ FirstPage + im.page[FirstPage] <= im.hdr.blocks + FirstPage
      /\ im.hdr.blocks + FirstPage <= im.size
  BY <1>1, <1>2 DEF PagesTile, FirstPage, PageHeader
<1> QED BY <1>2, <1>3 DEF FirstPage, PageHeader

(* The header has been read: the scan starts at the first page. *)
LEMMA OpenHeaderInv ==
  ASSUME Inv, TypeOK', NEW f \in Files, NEW w \in BOOLEAN, OpenHeader(f, w)
  PROVE  Inv'
<1>1. /\ pc' = "pages" /\ filename' = f /\ sound' = WellFormed(disk[f])
      /\ size' = disk[f].size /\ hdr' = disk[f].hdr
      /\ page' = disk[f].page /\ seg' = disk[f].seg
      /\ bitmap' = {}
      /\ endpages' = disk[f].hdr.blocks + FirstPage
      /\ off' = FirstPage /\ endblocks' = 0
      /\ seen_root' = FALSE /\ bad_root' = FALSE
      /\ UNCHANGED <<disk, provenance>>
  BY DEF OpenHeader, fileVars
<1>2. FilesSound'
  BY <1>1 DEF Inv, FilesSound
<1>3. ScansItsFile'
  BY <1>1 DEF Inv, FilesSound, ScansItsFile
<1>4. IsImage(disk[f])
  BY DEF Inv, TypeOK
<1>5. MemorySound'
  <2> SUFFICES ASSUME WellFormed(disk[f])
               PROVE  /\ Regf(hdr')
                      /\ endpages' >= FirstPage /\ endpages' - FirstPage < Word
                      /\ Layout(size', endpages', hdr', page', seg')
    BY <1>1 DEF MemorySound, Layout, PagesTile, BlocksTile, RootUsed, Regf,
                InPage
  <2>1. Regf(hdr') /\ Layout(size', endpages', hdr', page', seg')
    BY <1>1 DEF WellFormed, HeaderOK
  <2>2. disk[f].hdr.blocks \in 0 .. (Word - 1)
    BY <1>4 DEF IsImage, IsHeader, UInt32
  <2> QED BY <2>1, <2>2, <1>1, ConstantsAssumption DEF FirstPage
<1>6. ScanSound'
  <2> SUFFICES ASSUME sound'
               PROVE  /\ off' = endpages' \/ off' \in DOMAIN page'
                      /\ bitmap' = UsedBelow(off)'
                      /\ seen_root' <=> rootoffs' < off'
                      /\ ~bad_root'
    BY <1>1 DEF ScanSound
  <2>1. Layout(size', endpages', hdr', page', seg')
    BY <1>1, <1>5 DEF MemorySound, Layout, PagesTile, BlocksTile, RootUsed,
                      InPage
  <2>2. PagesTile(size', endpages', page') /\ BlocksTile(page', seg')
    BY <2>1 DEF Layout
  <2>3. /\ DOMAIN page' \subseteq Nat /\ page' \in [DOMAIN page' -> Nat]
        /\ DOMAIN seg' \subseteq Nat /\ seg' \in [DOMAIN seg' -> Int]
    BY <1>1, <1>4 DEF IsImage
  <2>4. \A b \in DOMAIN seg' : b >= FirstPage
    <3> SUFFICES ASSUME NEW b \in DOMAIN seg' PROVE b >= FirstPage
      OBVIOUS
    <3>1. PICK p \in DOMAIN page' : InPage(page', b, Length(seg'[b]), p)
      BY <2>2 DEF BlocksTile
    <3>2. p >= FirstPage
      BY <2>2 DEF PagesTile
    <3> QED BY <3>1, <3>2, <2>3 DEF InPage, PageHeader, FirstPage
  <2>5. UsedBelow(off)' = {}
    BY <1>1, <2>3, <2>4 DEF UsedBelow, FirstPage
  <2>6. ~(rootoffs' < off')
    <3>1. hdr'.offset \in Nat
      BY <1>1, <1>4, ConstantsAssumption DEF IsImage, IsHeader, UInt32
    <3> QED BY <3>1, <1>1 DEF rootoffs, FirstPage
  <2>7. FirstPage \in DOMAIN page'
    BY <2>2 DEF PagesTile
  <2> QED BY <1>1, <2>5, <2>6, <2>7
<1> QED BY <1>1, <1>2, <1>3, <1>5, <1>6
        DEF Inv, BitmapExact, Ready, TailFree, CommitUnderWay, SoundFilesReopen,
            NothingAllocated

(* The facts a sound handle's memory gives. *)
LEMMA SoundMemory ==
  ASSUME Inv, sound, pc \in {"pages", "blocks", "open", "writing"}
  PROVE  /\ PagesTile(size, endpages, page) /\ BlocksTile(page, seg)
         /\ rootoffs \in DOMAIN seg /\ seg[rootoffs] < 0 /\ hdr.nk
         /\ endpages >= FirstPage /\ endpages - FirstPage < Word /\ Regf(hdr)
  BY DEF Inv, MemorySound, Layout, RootUsed, rootoffs

(* Every header of a sound handle lies in the file. *)
LEMMA SoundInside ==
  ASSUME Inv, sound, pc \in {"pages", "blocks", "open", "writing"}
  PROVE  /\ size >= 4096
         /\ \A p \in DOMAIN page : p + 32 <= size
         /\ \A b \in DOMAIN seg : b + 6 <= size
<1>1. PagesTile(size, endpages, page) /\ BlocksTile(page, seg)
  BY SoundMemory
<1>2. /\ DOMAIN page \subseteq Nat /\ page \in [DOMAIN page -> Nat]
      /\ DOMAIN seg \subseteq Nat /\ seg \in [DOMAIN seg -> Int]
      /\ size \in Nat /\ endpages \in Nat
  BY MemoryTypes DEF Inv
<1>3. \A p \in DOMAIN page : p + 32 <= size
  BY <1>1, <1>2 DEF PagesTile, PageHeader
<1>4. ASSUME NEW b \in DOMAIN seg PROVE b + 6 <= size
  <2>1. /\ b + Length(seg[b]) <= endpages
        /\ Length(seg[b]) \in Nat /\ Length(seg[b]) > 4
    BY <1>1, <1>2, BlockBelowEnd
  <2>2. Length(seg[b]) >= 6
    BY <1>1, <2>1 DEF BlocksTile
  <2>3. endpages <= size
    BY <1>1 DEF PagesTile
  <2> QED BY <1>2, <2>1, <2>2, <2>3
<1>5. size >= 4096
  BY <1>1, <1>2, <1>3 DEF PagesTile, FirstPage
<1> QED BY <1>3, <1>4, <1>5

(* No block header lies in the header of a page. *)
LEMMA NoBlockInHeader ==
  ASSUME NEW sz \in Nat, NEW ep \in Nat, NEW pg, NEW sg,
         DOMAIN pg \subseteq Nat, pg \in [DOMAIN pg -> Nat],
         DOMAIN sg \subseteq Nat, sg \in [DOMAIN sg -> Int],
         PagesTile(sz, ep, pg), BlocksTile(pg, sg),
         NEW p \in DOMAIN pg, NEW b \in DOMAIN sg, b < p + PageHeader
  PROVE  b < p
<1>1. PICK q \in DOMAIN pg : InPage(pg, b, Length(sg[b]), q)
  BY DEF BlocksTile
<1>2. b + Length(sg[b]) <= q + pg[q] /\ q + PageHeader <= b
  BY <1>1 DEF InPage
<1>3. Length(sg[b]) \in Nat /\ Length(sg[b]) > 4
  BY DEF BlocksTile, Length
<1>4. p \in Nat /\ q \in Nat /\ pg[q] \in Nat /\ b \in Nat
  OBVIOUS
<1>5. q < p
  BY <1>2, <1>4 DEF PageHeader
<1>6. q + pg[q] <= p
  BY <1>5 DEF PagesTile
<1> QED BY <1>2, <1>3, <1>4, <1>6

(* A step of the scan that enters a page. *)
LEMMA ScanPageInv ==
  ASSUME Inv, TypeOK', ScanPage
  PROVE  Inv'
<1>0. pc = "pages" /\ ~LastPageScanned /\ filename \in Files
  BY DEF ScanPage, Inv, TypeOK
<1>1. ASSUME sound
      PROVE  off \in DOMAIN page /\ PageOK(page[off]) /\ off + PageSizeEnd <= size
  <2>1. off \in DOMAIN page
    BY <1>0, <1>1, MemoryTypes DEF Inv, ScanSound, LastPageScanned
  <2>2. off + 32 <= size /\ off \in Nat /\ size \in Nat
    BY <1>0, <1>1, <2>1, SoundInside, MemoryTypes DEF Inv
  <2> QED BY <1>0, <1>1, <2>1, <2>2, SoundMemory DEF PageOK, PagesTile, PageSizeEnd
<1>2. ASSUME NEW e \in Returns, Reject(filename, e), ~sound PROVE Inv'
  <2>1. provenance[filename] # "sound"
    BY <1>0, <1>2 DEF Inv, ScansItsFile
  <2> QED BY <1>0, <1>2, <2>1, RejectInv
<1>3. ASSUME NEW n \in PageSizes(off), PageOK(n), pc' = "blocks",
             page' = Put(page, off, n), blkoff' = off + PageHeader,
             UNCHANGED <<fileVars, ret, target, openVars, size, hdr, seg, bitmap,
                         endpages, endblocks, off, seen_root, bad_root>>
      PROVE  Inv'
  <2>1. /\ pc' = "blocks" /\ blkoff' = off + PageHeader
        /\ UNCHANGED <<disk, provenance, filename, sound, size, hdr, seg,
                       bitmap, endpages, endblocks, off, seen_root, bad_root>>
    BY <1>3 DEF fileVars, openVars
  <2>p. sound => page' = page
    <3> SUFFICES ASSUME sound PROVE page' = page
      OBVIOUS
    <3>1. off \in DOMAIN page /\ n = page[off]
      BY <1>1 DEF PageSizes
    <3>2. page = [x \in DOMAIN page |-> page[x]]
      BY MemoryTypes DEF Inv
    <3> QED BY <1>3, <3>1, <3>2, PutSame
  <2>2. FilesSound' /\ ScansItsFile'
    BY <1>0, <2>1 DEF Inv, FilesSound, ScansItsFile
  <2>3. MemorySound'
    BY <1>0, <2>1, <2>p DEF Inv, MemorySound
  <2>4. ScanSound'
    <3> SUFFICES ASSUME sound
                 PROVE  /\ off + PageHeader <= blkoff'
                        /\ blkoff' <= off + page[off]
                        /\ blkoff' = off + page[off] \/ blkoff' \in DOMAIN seg
                        /\ bitmap = UsedBelow(blkoff')
                        /\ seen_root <=> rootoffs < blkoff'
                        /\ ~bad_root
      BY <2>1, <2>p DEF ScanSound, UsedBelow, rootoffs
    <3>1. PagesTile(size, endpages, page) /\ BlocksTile(page, seg)
          /\ rootoffs \in DOMAIN seg
      BY <1>0, SoundMemory
    <3>2. off \in DOMAIN page /\ page[off] > PageHeader
      BY <1>1 DEF PageOK
    <3>3. /\ DOMAIN page \subseteq Nat /\ page \in [DOMAIN page -> Nat]
          /\ DOMAIN seg \subseteq Nat /\ seg \in [DOMAIN seg -> Int]
          /\ size \in Nat /\ endpages \in Nat
      BY MemoryTypes DEF Inv
    <3>4. \A b \in DOMAIN seg : b < off + PageHeader <=> b < off
      <4>1. \A b \in DOMAIN seg : b < off + PageHeader => b < off
        BY <3>1, <3>2, <3>3, NoBlockInHeader
      <4> QED BY <4>1, <3>2, <3>3 DEF PageHeader
    <3>5. bitmap = UsedBelow(off) /\ (seen_root <=> rootoffs < off) /\ ~bad_root
      BY <1>0 DEF Inv, ScanSound
    <3>6. off + PageHeader \in DOMAIN seg
      BY <3>1, <3>2 DEF BlocksTile
    <3>7. off + PageHeader <= off + page[off]
      BY <3>2, <3>3 DEF PageHeader
    <3>8. off + PageHeader <= off + PageHeader
      BY <3>2, <3>3 DEF PageHeader
    <3> QED BY <2>1, <3>1, <3>4, <3>5, <3>6, <3>7, <3>8 DEF UsedBelow
  <2> QED BY <1>0, <2>1, <2>2, <2>3, <2>4
          DEF Inv, BitmapExact, Ready, TailFree, CommitUnderWay, SoundFilesReopen,
              NothingAllocated
<1>4. ~sound \/ (off \in DOMAIN page /\ PageOK(page[off])
                  /\ ~(off + PageSizeEnd > size))
  BY <1>1, MemoryTypes DEF Inv, PageSizeEnd
<1> QED BY <1>2, <1>3, <1>4 DEF ScanPage, Returns

(* A step of the scan that passes a block. *)
LEMMA ScanBlockInv ==
  ASSUME Inv, TypeOK', ScanBlock
  PROVE  Inv'
<1>0. /\ pc = "blocks" /\ blkoff < off + page[off] /\ filename \in Files
      /\ off \in DOMAIN page
  BY DEF ScanBlock, Inv, TypeOK
<1>t. /\ DOMAIN page \subseteq Nat /\ page \in [DOMAIN page -> Nat]
      /\ DOMAIN seg \subseteq Nat /\ seg \in [DOMAIN seg -> Int]
      /\ size \in Nat /\ endpages \in Nat /\ off \in Nat /\ blkoff \in Nat
  BY MemoryTypes DEF Inv
<1>1. ASSUME sound
      PROVE  blkoff \in DOMAIN seg /\ BlockOK(seg[blkoff]) /\ blkoff + IdEnd <= size
  <2>1. blkoff \in DOMAIN seg
    BY <1>0, <1>1, <1>t DEF Inv, ScanSound
  <2>2. blkoff + 6 <= size
    BY <1>0, <1>1, <2>1, SoundInside
  <2> QED BY <1>0, <1>1, <2>1, <2>2, SoundMemory DEF BlockOK, BlocksTile, IdEnd
<1>2. ASSUME NEW e \in Returns, Reject(filename, e), ~sound PROVE Inv'
  <2>1. provenance[filename] # "sound"
    BY <1>0, <1>2 DEF Inv, ScansItsFile
  <2> QED BY <1>0, <1>2, <2>1, RejectInv
<1>3. ASSUME NEW g \in SegLens(blkoff), NEW nk \in RootIds(blkoff), BlockOK(g),
             seg' = Put(seg, blkoff, g),
             seen_root' = (seen_root \/ blkoff = rootoffs),
             bad_root' = (bad_root \/ (blkoff = rootoffs /\ ~(g < 0 /\ nk))),
             bitmap' = IF g < 0 THEN bitmap \cup {blkoff} ELSE bitmap,
             blkoff' = blkoff + Length(g),
             UNCHANGED <<fileVars, pc, ret, target, openVars, size, hdr, page,
                         endpages, endblocks, off>>
      PROVE  Inv'
  <2>s. sound => seg' = seg /\ g = seg[blkoff] /\ nk = hdr.nk
    <3> SUFFICES ASSUME sound
                 PROVE  seg' = seg /\ g = seg[blkoff] /\ nk = hdr.nk
      OBVIOUS
    <3>1. blkoff \in DOMAIN seg /\ g = seg[blkoff]
      BY <1>1 DEF SegLens
    <3>2. seg = [x \in DOMAIN seg |-> seg[x]]
      BY <1>t
    <3>3. nk = hdr.nk
      BY <1>1 DEF RootIds
    <3> QED BY <1>3, <3>1, <3>2, <3>3, PutSame
  <2>1. /\ blkoff' = blkoff + Length(g)
        /\ seen_root' = (seen_root \/ blkoff = rootoffs)
        /\ bad_root' = (bad_root \/ (blkoff = rootoffs /\ ~(g < 0 /\ nk)))
        /\ bitmap' = IF g < 0 THEN bitmap \cup {blkoff} ELSE bitmap
        /\ UNCHANGED <<disk, provenance, pc, filename, sound, size, hdr, page,
                       endpages, endblocks, off>>
    BY <1>3 DEF fileVars, openVars
  <2>2. FilesSound' /\ ScansItsFile'
    BY <2>1 DEF Inv, FilesSound, ScansItsFile
  <2>3. MemorySound'
    BY <2>1, <2>s DEF Inv, MemorySound
  <2>4. ScanSound'
    <3> DEFINE len == Length(seg[blkoff])
    <3> SUFFICES ASSUME sound
                 PROVE  /\ off + PageHeader <= blkoff'
                        /\ blkoff' <= off + page[off]
                        /\ blkoff' = off + page[off] \/ blkoff' \in DOMAIN seg
                        /\ bitmap' = UsedBelow(blkoff')
                        /\ seen_root' <=> rootoffs < blkoff'
                        /\ ~bad_root'
      BY <1>0, <2>1, <2>s DEF ScanSound, UsedBelow, rootoffs
    <3>1. /\ PagesTile(size, endpages, page) /\ BlocksTile(page, seg)
          /\ rootoffs \in DOMAIN seg /\ seg[rootoffs] < 0 /\ hdr.nk
      BY <1>0, SoundMemory
    <3>2. /\ off + PageHeader <= blkoff
          /\ bitmap = UsedBelow(blkoff)
          /\ (seen_root <=> rootoffs < blkoff) /\ ~bad_root
          /\ blkoff \in DOMAIN seg
      BY <1>0, <1>1 DEF Inv, ScanSound
    <3>3. blkoff' = blkoff + len /\ len \in Nat /\ len > 4
      BY <1>t, <2>1, <2>s, <3>1, <3>2 DEF BlocksTile, Length
    <3>4. PICK p \in DOMAIN page :
            /\ InPage(page, blkoff, len, p)
            /\ blkoff + len = p + page[p] \/ blkoff + len \in DOMAIN seg
      BY <3>1, <3>2 DEF BlocksTile
    <3> HIDE DEF len
    <3>5. p + PageHeader <= blkoff /\ blkoff + len <= p + page[p]
      BY <3>4 DEF InPage
    <3>6. p <= blkoff /\ blkoff < p + page[p] /\ off <= blkoff
      BY <1>t, <3>2, <3>3, <3>5 DEF PageHeader
    <3>7. p = off
      BY <1>0, <1>t, <3>1, <3>6, SamePage
    <3>8. \A c \in DOMAIN seg : c < blkoff + len <=> c < blkoff \/ c = blkoff
      <4>1. \A c \in DOMAIN seg : blkoff < c => blkoff + len <= c
        BY <3>1, <3>2 DEF BlocksTile, len
      <4> QED BY <4>1, <1>t, <3>3
    <3>9. bitmap' = UsedBelow(blkoff')
      BY <2>1, <2>s, <3>2, <3>3, <3>8 DEF UsedBelow
    <3>10. (seen_root' <=> rootoffs < blkoff') /\ ~bad_root'
      BY <2>1, <2>s, <3>1, <3>2, <3>3, <3>8
    <3>11. off + PageHeader <= blkoff'
      BY <1>t, <3>2, <3>3 DEF PageHeader
    <3> QED BY <2>s, <3>3, <3>4, <3>5, <3>7, <3>9, <3>10, <3>11
  <2> QED BY <1>0, <2>1, <2>2, <2>3, <2>4
          DEF Inv, BitmapExact, Ready, TailFree, CommitUnderWay, SoundFilesReopen,
              NothingAllocated
<1>4. /\ \A g \in SegLens(blkoff) : ~sound \/ BlockOK(g)
      /\ ~sound \/ ~(blkoff + LengthEnd > size)
  BY <1>1, <1>t DEF SegLens, IdEnd, LengthEnd
<1> QED BY <1>2, <1>3, <1>4 DEF ScanBlock, Returns

(* A step of the scan that leaves a page. *)
LEMMA EndOfPageInv ==
  ASSUME Inv, TypeOK', EndOfPage
  PROVE  Inv'
<1>0. /\ pc = "blocks" /\ blkoff >= off + page[off] /\ pc' = "pages"
      /\ off' = off + page[off] /\ off \in DOMAIN page
      /\ UNCHANGED <<disk, provenance, filename, sound, size, hdr, page, seg,
                     bitmap, endpages, endblocks, seen_root, bad_root>>
  BY DEF EndOfPage, fileVars, openVars, memVars, Inv, TypeOK
<1>1. FilesSound' /\ ScansItsFile'
  BY <1>0 DEF Inv, FilesSound, ScansItsFile
<1>2. MemorySound'
  BY <1>0 DEF Inv, MemorySound
<1>3. ScanSound'
  <2> SUFFICES ASSUME sound
               PROVE  /\ off' = endpages \/ off' \in DOMAIN page
                      /\ bitmap = UsedBelow(off')
                      /\ seen_root <=> rootoffs < off'
                      /\ ~bad_root
    BY <1>0 DEF ScanSound, UsedBelow, rootoffs
  <2>1. /\ blkoff <= off + page[off]
        /\ bitmap = UsedBelow(blkoff)
        /\ (seen_root <=> rootoffs < blkoff) /\ ~bad_root
    BY <1>0 DEF Inv, ScanSound
  <2>2. off \in Nat /\ page[off] \in Nat /\ blkoff \in Nat
    BY <1>0, MemoryTypes DEF Inv
  <2>3. off' = blkoff
    BY <1>0, <2>1, <2>2
  <2>4. off' = endpages \/ off' \in DOMAIN page
    BY <1>0, SoundMemory DEF PagesTile
  <2> QED BY <2>1, <2>3, <2>4
<1> QED BY <1>0, <1>1, <1>2, <1>3
        DEF Inv, BitmapExact, Ready, TailFree, CommitUnderWay, SoundFilesReopen,
              NothingAllocated

(* The scan is over: the bitmap is complete and the root was seen. *)
LEMMA FinishOpenInv ==
  ASSUME Inv, TypeOK', FinishOpen
  PROVE  Inv'
<1>0. pc = "pages" /\ LastPageScanned /\ filename \in Files
  BY DEF FinishOpen, Inv, TypeOK
<1>t. /\ DOMAIN page \subseteq Nat /\ page \in [DOMAIN page -> Nat]
      /\ DOMAIN seg \subseteq Nat /\ seg \in [DOMAIN seg -> Int]
      /\ size \in Nat /\ endpages \in Nat /\ off \in Nat
  BY MemoryTypes DEF Inv
<1>1. ASSUME sound
      PROVE  /\ bitmap = {b \in DOMAIN seg : seg[b] < 0}
             /\ seen_root /\ ~bad_root
  <2>1. PagesTile(size, endpages, page) /\ BlocksTile(page, seg)
        /\ rootoffs \in DOMAIN seg
    BY <1>0, <1>1, SoundMemory
  <2>2. \A b \in DOMAIN seg : b < endpages
    BY <1>t, <2>1, BlockBelowEnd
  <2>3. off = endpages
    <3>1. off = endpages \/ off \in DOMAIN page
      BY <1>0, <1>1 DEF Inv, ScanSound
    <3>2. off \in DOMAIN page => off < endpages
      BY <1>t, <2>1 DEF PagesTile, PageHeader
    <3>3. endpages <= size
      BY <2>1 DEF PagesTile
    <3> QED BY <1>0, <1>t, <3>1, <3>2, <3>3 DEF LastPageScanned
  <2>4. bitmap = UsedBelow(off) /\ (seen_root <=> rootoffs < off) /\ ~bad_root
    BY <1>0, <1>1 DEF Inv, ScanSound
  <2> QED BY <2>1, <2>2, <2>3, <2>4 DEF UsedBelow
<1>2. CASE Reject(filename, "ENOTSUP") /\ (~seen_root \/ bad_root)
  <2>1. provenance[filename] # "sound"
    BY <1>0, <1>1, <1>2 DEF Inv, ScansItsFile
  <2> QED BY <1>0, <1>2, <2>1, RejectInv DEF Returns
<1>3. CASE seen_root /\ ~bad_root
  <2>1. /\ pc' = "open"
        /\ UNCHANGED <<disk, provenance, filename, sound, size, hdr, page, seg,
                       bitmap, endpages, endblocks>>
    BY <1>3 DEF FinishOpen, fileVars, openVars, memVars
  <2>2. FilesSound' /\ ScansItsFile'
    BY <2>1 DEF Inv, FilesSound, ScansItsFile
  <2>3. MemorySound'
    BY <1>0, <2>1 DEF Inv, MemorySound
  <2>4. BitmapExact'
    BY <1>1, <2>1 DEF BitmapExact
  <2>5. TailFree'
    BY <1>0, <2>1 DEF Inv, NothingAllocated, TailFree
  <2> QED BY <2>1, <2>2, <2>3, <2>4, <2>5
          DEF Inv, ScanSound, CommitUnderWay, SoundFilesReopen, NothingAllocated
<1> QED BY <1>2, <1>3 DEF FinishOpen

-----------------------------------------------------------------------------
(* Allocating, freeing, committing *)

(* Placing a block of len bytes at b, behind every other block and over    *)
(* nothing or over the free tail, keeps the invariant when both tilings    *)
(* hold of the new memory.                                                 *)
LEMMA PlaceInv ==
  ASSUME Inv, TypeOK', pc = "open", pc' = "open",
         UNCHANGED <<disk, provenance, filename, sound, hdr>>,
         NEW b \in Nat, NEW len \in Nat, len > 0, len % 8 = 0,
         seg' = WriteHeaders(seg, b, len, endpages'),
         bitmap' = bitmap \cup {b}, endblocks' = b + len,
         sound => /\ \A c \in DOMAIN seg : c < b \/ (c = b /\ seg[c] > 0)
                  /\ PagesTile(size', endpages', page')
                  /\ BlocksTile(page', seg')
                  /\ endpages' >= FirstPage /\ endpages' - FirstPage < Word
                  /\ b + len <= endpages' /\ (endpages' - b) % 8 = 0
  PROVE  Inv'
<1>1. FilesSound' /\ ScansItsFile' /\ ScanSound' /\ NothingAllocated'
      /\ CommitUnderWay' /\ SoundFilesReopen'
  BY DEF Inv, FilesSound, ScansItsFile, ScanSound, NothingAllocated,
         CommitUnderWay, SoundFilesReopen
<1>2. CASE ~sound
  BY <1>1, <1>2 DEF Inv, MemorySound, BitmapExact, TailFree
<1>3. CASE sound
  <2>1. DOMAIN seg \subseteq Nat /\ seg \in [DOMAIN seg -> Int]
    BY MemoryTypes DEF Inv
  <2>2. endpages' \in Nat
    BY DEF TypeOK
  <2>3. HeadersWritten(seg, b, len, endpages', seg')
    BY <2>1, <2>2, WriteHeadersType
  <2>4. /\ {c \in DOMAIN seg' : seg'[c] < 0}
             = {c \in DOMAIN seg : seg[c] < 0} \cup {b}
        /\ \A c \in DOMAIN seg \ {b} : c \in DOMAIN seg' /\ seg'[c] = seg[c]
    BY <1>3, <2>1, <2>2, <2>3, PlaceUsed
  <2>5. BitmapExact'
    <3>1. bitmap = {c \in DOMAIN seg : seg[c] < 0}
      BY <1>3 DEF Inv, BitmapExact, Ready
    <3> QED BY <2>4, <3>1 DEF BitmapExact
  <2>6. MemorySound'
    <3>1. /\ rootoffs \in DOMAIN seg /\ seg[rootoffs] < 0 /\ hdr.nk /\ Regf(hdr)
      BY <1>3, SoundMemory
    <3>2. rootoffs # b
      BY <1>3, <2>1, <3>1
    <3>3. RootUsed(hdr', seg') /\ Regf(hdr')
      BY <2>4, <3>1, <3>2 DEF RootUsed, rootoffs
    <3> QED BY <1>3, <3>3 DEF MemorySound, Layout
  <2>7. TailFree'
    <3>1. (endpages' - (b + len)) % 8 = 0
      <4>1. (endpages' - b) % 8 = 0
        BY <1>3
      <4>2. b \in Int /\ len \in Int /\ endpages' \in Int /\ len % 8 = 0
        BY <2>2
      <4> QED BY ONLY <4>1, <4>2, MultipleOf8
    <3>2. b + len < endpages' =>
            b + len \in DOMAIN seg' /\ seg'[b + len] = endpages' - (b + len)
      BY <2>3 DEF HeadersWritten
    <3> QED BY <1>3, <3>1, <3>2 DEF TailFree
  <2> QED BY <1>1, <2>5, <2>6, <2>7 DEF Inv
<1> QED BY <1>2, <1>3

(* allocate_block in the last page. *)
LEMMA AllocateInPageInv ==
  ASSUME Inv, TypeOK', NEW n \in Requests, AllocateInPage(n)
  PROVE  Inv'
<1> DEFINE len == RoundUp(n)
<1>1. n \in Nat /\ n >= 4
  BY ConstantsAssumption DEF AllocateInPage, Refused
<1>2. len \in Nat /\ len >= 8 /\ len % 8 = 0
  BY <1>1, RoundUpType
<1>3. /\ pc = "open" /\ pc' = "open" /\ ~NeedsPage(len)
      /\ UNCHANGED <<disk, provenance, filename, sound, hdr>>
      /\ seg' = WriteHeaders(seg, endblocks, len, endpages)
      /\ bitmap' = bitmap \cup {endblocks} /\ endblocks' = endblocks + len
      /\ UNCHANGED <<size, page, endpages>>
  BY DEF AllocateInPage, fileVars, openVars, SetBit
<1> HIDE DEF len
<1>4. /\ DOMAIN page \subseteq Nat /\ page \in [DOMAIN page -> Nat]
      /\ DOMAIN seg \subseteq Nat /\ seg \in [DOMAIN seg -> Int]
      /\ size \in Nat /\ endpages \in Nat /\ endblocks \in Nat
  BY MemoryTypes DEF Inv
<1>5. ASSUME sound
      PROVE  /\ \A c \in DOMAIN seg : c < endblocks \/
                                      (c = endblocks /\ seg[c] > 0)
             /\ PagesTile(size', endpages', page')
             /\ BlocksTile(page', seg')
             /\ endpages' >= FirstPage /\ endpages' - FirstPage < Word
             /\ endblocks + len <= endpages'
             /\ (endpages' - endblocks) % 8 = 0
  <2>1. /\ PagesTile(size, endpages, page) /\ BlocksTile(page, seg)
        /\ endpages >= FirstPage /\ endpages - FirstPage < Word
    BY <1>3, <1>5, SoundMemory
  <2>2. endblocks # 0 /\ endblocks + len <= endpages
    BY <1>2, <1>3, <1>4 DEF NeedsPage
  <2>3. /\ (endpages - endblocks) % 8 = 0
        /\ endblocks < endpages
        /\ endblocks \in DOMAIN seg /\ seg[endblocks] = endpages - endblocks
    BY <1>2, <1>3, <1>4, <1>5, <2>2 DEF Inv, TailFree
  <2>4. BlocksTile(page, WriteHeaders(seg, endblocks, len, endpages))
    BY <1>2, <1>4, <2>1, <2>2, <2>3, CutTail
  <2>5. \A c \in DOMAIN seg : c < endblocks \/ (c = endblocks /\ seg[c] > 0)
    <3> SUFFICES ASSUME NEW c \in DOMAIN seg, c > endblocks PROVE FALSE
      BY <1>4, <2>3
    <3>1. c < endpages
      BY <1>4, <2>1, BlockBelowEnd
    <3>2. endblocks + Length(seg[endblocks]) <= c
      BY <2>1, <2>3 DEF BlocksTile
    <3>3. Length(seg[endblocks]) = endpages - endblocks
      BY <1>4, <2>3 DEF Length
    <3> QED BY <1>4, <3>1, <3>2, <3>3
  <2> QED BY <1>3, <2>1, <2>2, <2>3, <2>4, <2>5
<1>6. len > 0 /\ seg' = WriteHeaders(seg, endblocks, len, endpages')
  BY <1>2, <1>3
<1> QED BY <1>2, <1>3, <1>4, <1>5, <1>6, PlaceInv

(* allocate_block in a page of its own. *)
LEMMA AllocateInNewPageInv ==
  ASSUME Inv, TypeOK', NEW n \in Requests, AllocateInNewPage(n)
  PROVE  Inv'
<1> DEFINE len == RoundUp(n)
           ext == PageExtent(len)
           b == endpages + PageHeader
<1>1. n \in Nat /\ n >= 4
  BY ConstantsAssumption DEF AllocateInNewPage, Refused
<1>2. len \in Nat /\ len >= 8 /\ len % 8 = 0
  BY <1>1, RoundUpType
<1>3. /\ ext \in Nat /\ ext % 4096 = 0 /\ ext >= len + PageHeader
      /\ (ext - PageHeader - len) % 8 = 0
  BY <1>2, PageExtentType
<1>u. CASE ~sound
  <2>1. /\ pc = "open" /\ pc' = "open" /\ UNCHANGED <<disk, provenance, sound>>
    BY DEF AllocateInNewPage, fileVars, openVars
  <2> QED BY <1>u, <2>1
          DEF Inv, FilesSound, MemorySound, ScansItsFile, ScanSound, NothingAllocated,
              BitmapExact, TailFree, CommitUnderWay, SoundFilesReopen
<1> SUFFICES ASSUME sound PROVE Inv'
  BY <1>u
<1>g. /\ Zeroed(page, PageSizeEnd - 4, endpages + ext) = page
      /\ Zeroed(seg, 0, endpages + ext) = seg
      /\ BitsKept(endpages + ext) = bitmap
  <2>1. /\ size \in Nat
        /\ DOMAIN page \subseteq Nat /\ page \in [DOMAIN page -> Int]
        /\ DOMAIN seg \subseteq Nat /\ seg \in [DOMAIN seg -> Int]
        /\ bitmap \subseteq DOMAIN seg
    BY MemoryTypes DEF Inv
  <2>2. /\ \A p \in DOMAIN page : p + 32 <= size
        /\ \A c \in DOMAIN seg : c + 6 <= size
    BY SoundInside DEF AllocateInNewPage
  <2>3. /\ \A p \in DOMAIN page : p + (PageSizeEnd - 4) < size
        /\ PageSizeEnd - 4 \in Nat
    BY <2>1, <2>2 DEF PageSizeEnd
  <2>4. \A c \in DOMAIN seg : c + 0 < size
    BY <2>1, <2>2
  <2>5. bitmap \subseteq Nat /\ \A c \in bitmap : c < size
    BY <2>1, <2>2
  <2>6. Zeroed(page, PageSizeEnd - 4, endpages + ext) = page
    BY <2>1, <2>3, ZeroedSame
  <2>7. Zeroed(seg, 0, endpages + ext) = seg
    BY <2>1, <2>4, ZeroedSame
  <2>8. BitsKept(endpages + ext) = bitmap
    BY <2>1, <2>5, BitsKeptSame
  <2> QED BY <2>6, <2>7, <2>8
<1>4. /\ pc = "open" /\ pc' = "open"
      /\ UNCHANGED <<disk, provenance, filename, sound, hdr>>
      /\ seg' = WriteHeaders(seg, b, len, endpages + ext)
      /\ bitmap' = bitmap \cup {b} /\ endblocks' = b + len
      /\ endpages' = endpages + ext /\ endpages + ext <= MaxSize
      /\ size' = IF endpages + ext > size THEN endpages + ext ELSE size
      /\ page' = Put(page, endpages, ext)
  BY <1>g DEF AllocateInNewPage, fileVars, openVars, SetBit
<1> HIDE DEF len, ext
<1>5. /\ DOMAIN page \subseteq Nat /\ page \in [DOMAIN page -> Nat]
      /\ DOMAIN seg \subseteq Nat /\ seg \in [DOMAIN seg -> Int]
      /\ size \in Nat /\ endpages \in Nat
  BY MemoryTypes DEF Inv
<1>6. b \in Nat /\ b = endpages + 32 /\ ext >= len + 32
      /\ ext - PageHeader = ext - 32
  BY <1>3, <1>5 DEF PageHeader
<1>7. ASSUME sound
      PROVE  /\ \A c \in DOMAIN seg : c < b \/ (c = b /\ seg[c] > 0)
             /\ PagesTile(size', endpages', page')
             /\ BlocksTile(page', seg')
             /\ endpages' >= FirstPage /\ endpages' - FirstPage < Word
             /\ b + len <= endpages'
             /\ (endpages' - b) % 8 = 0
  <2>1. /\ PagesTile(size, endpages, page) /\ BlocksTile(page, seg)
        /\ endpages >= FirstPage
    BY <1>4, <1>7, SoundMemory
  <2> DEFINE s1 == Put(seg, b, ext - PageHeader)
  <2>2. size' \in Nat /\ endpages + ext <= size' /\ endpages + ext \in Nat
    BY <1>3, <1>4, <1>5
  <2>3. ext > PageHeader
    BY <1>2, <1>3 DEF PageHeader
  <2>4. PagesTile(size', endpages + ext, page') /\ BlocksTile(page', s1)
    BY <1>3, <1>4, <1>5, <2>1, <2>2, <2>3, AddPage
  <2>5. /\ DOMAIN page' \subseteq Nat /\ page' \in [DOMAIN page' -> Nat]
    BY <1>3, <1>4, <1>5 DEF Put
  <2>6. /\ DOMAIN s1 = DOMAIN seg \cup {b} /\ DOMAIN s1 \subseteq Nat
        /\ s1 \in [DOMAIN s1 -> Int] /\ s1[b] = ext - 32
    BY <1>3, <1>5, <1>6 DEF Put
  <2>7. WriteHeaders(s1, b, len, endpages + ext) = seg'
    <3>1. Put(s1, b, -len) = Put(seg, b, -len)
      BY DEF Put
    <3> QED BY <3>1, <1>4 DEF WriteHeaders
  <2> HIDE DEF s1
  <2>8. (ext - 32) % 8 = 0
    BY <1>3
  <2>9. /\ s1[b] = (endpages + ext) - b /\ ((endpages + ext) - b) % 8 = 0
        /\ b + len <= endpages + ext
    BY <1>2, <1>3, <1>5, <1>6, <2>6, <2>8
  <2>10. BlocksTile(page', seg')
    BY <1>2, <2>2, <2>4, <2>5, <2>6, <2>7, <2>9, CutTail
  <2>11. \A c \in DOMAIN seg : c < b
    <3>1. \A c \in DOMAIN seg : c < endpages
      BY <1>5, <2>1, BlockBelowEnd
    <3> QED BY <1>5, <1>6, <3>1
  <2>12. endpages' >= FirstPage /\ endpages' - FirstPage < Word
    BY <1>3, <1>4, <1>5, <2>1, ConstantsAssumption DEF FirstPage
  <2> QED BY <1>4, <2>4, <2>9, <2>10, <2>11, <2>12
<1>8. len > 0 /\ seg' = WriteHeaders(seg, b, len, endpages')
  BY <1>2, <1>4
<1> HIDE DEF b
<1> QED BY <1>2, <1>4, <1>6, <1>7, <1>8, PlaceInv

(* mark_block_unused flips the sign of one used block, not of the root. *)
LEMMA MarkInv ==
  ASSUME Inv, TypeOK', NEW b \in bitmap \ {rootoffs}, mark_block_unused(b)
  PROVE  Inv'
<1>1. /\ pc = "open" /\ pc' = "open" /\ b # rootoffs
      /\ seg' = Put(seg, b, block_len(b)) /\ bitmap' = bitmap \ {b}
      /\ UNCHANGED <<disk, provenance, filename, sound, size, hdr, page,
                     endpages, endblocks>>
  BY DEF mark_block_unused, fileVars, openVars
<1>2. FilesSound' /\ ScansItsFile' /\ ScanSound' /\ NothingAllocated'
      /\ CommitUnderWay' /\ SoundFilesReopen'
  BY <1>1 DEF Inv, FilesSound, ScansItsFile, ScanSound, NothingAllocated,
              CommitUnderWay, SoundFilesReopen
<1>3. CASE ~sound
  BY <1>1, <1>2, <1>3 DEF Inv, MemorySound, BitmapExact, TailFree
<1>4. CASE sound
  <2>1. /\ DOMAIN seg \subseteq Nat /\ seg \in [DOMAIN seg -> Int]
        /\ b \in DOMAIN seg /\ endblocks \in Nat /\ endpages \in Nat
    BY MemoryTypes DEF Inv
  <2>2. bitmap = {c \in DOMAIN seg : seg[c] < 0}
    BY <1>1, <1>4 DEF Inv, BitmapExact, Ready
  <2>3. seg[b] < 0 /\ block_len(b) = -seg[b]
    BY <2>2 DEF block_len, Length
  <2>4. /\ DOMAIN seg' = DOMAIN seg
        /\ seg'[b] = -seg[b]
        /\ \A c \in DOMAIN seg \ {b} : seg'[c] = seg[c]
    BY <1>1, <2>1, <2>3 DEF Put
  <2>5. \A c \in DOMAIN seg : Length(seg'[c]) = Length(seg[c])
    BY <2>1, <2>3, <2>4 DEF Length
  <2>6. BitmapExact'
    <3>1. ~(seg'[b] < 0)
      BY <2>1, <2>3, <2>4
    <3> QED BY <1>1, <2>2, <2>4, <3>1 DEF BitmapExact
  <2>7. MemorySound'
    <3>1. /\ PagesTile(size, endpages, page) /\ BlocksTile(page, seg)
          /\ rootoffs \in DOMAIN seg /\ seg[rootoffs] < 0 /\ hdr.nk
          /\ endpages >= FirstPage /\ endpages - FirstPage < Word /\ Regf(hdr)
      BY <1>1, <1>4, SoundMemory
    <3>2. BlocksTile(page, seg')
      BY <2>4, <2>5, <3>1 DEF BlocksTile
    <3>3. RootUsed(hdr, seg')
      BY <1>1, <2>4, <3>1 DEF RootUsed, rootoffs
    <3> QED BY <1>1, <3>1, <3>2, <3>3 DEF MemorySound, Layout
  <2>8. TailFree'
    <3>1. \/ endblocks = 0
          \/ /\ endblocks <= endpages
             /\ (endpages - endblocks) % 8 = 0
             /\ endblocks < endpages => /\ endblocks \in DOMAIN seg
                                        /\ seg[endblocks] = endpages - endblocks
      BY <1>1, <1>4 DEF Inv, TailFree
    <3>2. endblocks < endpages /\ endblocks \in DOMAIN seg
          /\ seg[endblocks] = endpages - endblocks
            => seg'[endblocks] = endpages - endblocks
      BY <2>1, <2>3, <2>4
    <3> QED BY <1>1, <2>4, <3>1, <3>2 DEF TailFree
  <2> QED BY <1>2, <2>6, <2>7, <2>8 DEF Inv
<1> QED BY <1>3, <1>4

(* hivex_commit truncates its target and updates the header. *)
LEMMA CommitOpenInv ==
  ASSUME Inv, TypeOK', NEW f \in Files, CommitOpen(f)
  PROVE  Inv'
<1>1. /\ pc = "open" /\ pc' = "writing" /\ hdr' = CommittedHeader
      /\ disk' = [disk EXCEPT ![f] = EmptyImage]
      /\ provenance' = [provenance EXCEPT ![f] = "other"]
      /\ target' = f
      /\ UNCHANGED <<filename, sound, size, page, seg, bitmap, endpages,
                     endblocks>>
  BY DEF CommitOpen, openVars
<1>2. FilesSound'
  <2> SUFFICES ASSUME NEW g \in Files, provenance'[g] = "sound"
               PROVE  WellFormed(disk'[g])
    BY DEF FilesSound, WellFormed, Layout, PagesTile, BlocksTile, RootUsed,
           HeaderOK, Regf, header_checksum, InPage
  <2>1. g # f /\ provenance[g] = "sound"
    BY <1>1 DEF Inv, TypeOK
  <2>2. disk'[g] = disk[g]
    BY <1>1, <2>1 DEF Inv, TypeOK
  <2> QED BY <2>1, <2>2 DEF Inv, FilesSound
<1>3. /\ IsHeader(hdr) /\ endpages \in Nat
  BY MemoryTypes DEF Inv
<1>4. /\ hdr'.magic = hdr.magic /\ hdr'.major_ver = hdr.major_ver
      /\ hdr'.offset = hdr.offset /\ hdr'.nk = hdr.nk
      /\ hdr'.blocks = (endpages - FirstPage) % Word
      /\ hdr'.csum = Checksum(hdr'.sequence1, hdr'.sequence2, hdr'.blocks)
  BY <1>1, <1>3 DEF CommittedHeader, IsHeader
<1>5. ASSUME sound
      PROVE  /\ ((endpages - FirstPage) % Word) + FirstPage = endpages
             /\ Regf(hdr) /\ Layout(size, endpages, hdr, page, seg)
             /\ endpages >= FirstPage /\ endpages - FirstPage < Word
  <2>1. /\ Regf(hdr) /\ Layout(size, endpages, hdr, page, seg)
        /\ endpages >= FirstPage /\ endpages - FirstPage < Word
    BY <1>1, <1>5 DEF Inv, MemorySound
  <2>2. endpages - FirstPage \in 0 .. (Word - 1)
    BY <1>3, <2>1, ConstantsAssumption DEF FirstPage
  <2>3. (endpages - FirstPage) % Word = endpages - FirstPage
    BY <2>2, ConstantsAssumption
  <2> QED BY <1>3, <2>1, <2>3 DEF FirstPage
<1>6. MemorySound'
  BY <1>1, <1>4, <1>5 DEF MemorySound, Layout, RootUsed, Regf
<1>7. CommitUnderWay'
  <2>1. provenance'[target'] = "other"
    BY <1>1 DEF Inv, TypeOK
  <2> QED BY <1>1, <1>4, <1>5, <2>1
          DEF CommitUnderWay, HeaderOK, Regf, header_checksum
<1>8. BitmapExact' /\ TailFree'
  BY <1>1 DEF Inv, BitmapExact, Ready, TailFree
<1> QED BY <1>1, <1>2, <1>6, <1>7, <1>8
        DEF Inv, ScansItsFile, ScanSound, NothingAllocated, SoundFilesReopen

(* All the headers of a sound handle lie in the h->size bytes it writes. *)
LEMMA CutWhole ==
  ASSUME Inv, sound, pc = "writing"
  PROVE  WellFormed(Cut(size))
<1>1. /\ size >= 4096
      /\ \A p \in DOMAIN page : p + 32 <= size
      /\ \A b \in DOMAIN seg : b + 6 <= size
  BY SoundInside
<1>2. /\ DOMAIN page \subseteq Nat /\ page \in [DOMAIN page -> Nat]
      /\ DOMAIN seg \subseteq Nat /\ seg \in [DOMAIN seg -> Int]
      /\ size \in Nat /\ endpages \in Nat /\ IsHeader(hdr)
  BY MemoryTypes DEF Inv
<1> DEFINE h == CutHeader(size)
           pg == [p \in {q \in DOMAIN page : q + PageSizeEnd <= size} |-> page[p]]
           sg == [b \in {d \in DOMAIN seg : d + LengthEnd <= size} |-> seg[b]]
<1>3. /\ h.major_ver = hdr.major_ver /\ h.sequence1 = hdr.sequence1
      /\ h.sequence2 = hdr.sequence2 /\ h.offset = hdr.offset
      /\ h.blocks = hdr.blocks /\ h.csum = hdr.csum /\ h.nk = hdr.nk
  BY <1>1, <1>2 DEF CutHeader, IsHeader
<1>m. hdr.magic => h.magic
  BY <1>1, <1>2 DEF CutHeader, IsHeader
<1>4. pg = page
  <2>1. \A q \in DOMAIN page : q + PageSizeEnd <= size
    BY <1>1, <1>2 DEF PageSizeEnd
  <2>2. {q \in DOMAIN page : q + PageSizeEnd <= size} = DOMAIN page
    BY <2>1
  <2> QED BY <1>2, <2>2
<1>5. sg = seg
  <2>1. \A d \in DOMAIN seg : d + LengthEnd <= size
    BY <1>1, <1>2 DEF LengthEnd
  <2>2. {d \in DOMAIN seg : d + LengthEnd <= size} = DOMAIN seg
    BY <2>1
  <2> QED BY <1>2, <2>2
<1>6. Cut(size) = [size |-> size, hdr |-> h, page |-> page, seg |-> seg]
  <2>1. size # 0
    BY <1>1, <1>2
  <2> QED BY <1>4, <1>5, <2>1 DEF Cut
<1> HIDE DEF h, pg, sg
<1>7. HeaderOK(hdr) /\ hdr.blocks + FirstPage = endpages
      /\ Layout(size, endpages, hdr, page, seg)
  BY DEF Inv, CommitUnderWay, MemorySound
<1>8. HeaderOK(h)
  BY <1>3, <1>m, <1>7 DEF HeaderOK, Regf, header_checksum
<1>9. Layout(size, h.blocks + FirstPage, h, page, seg)
  BY <1>3, <1>7 DEF Layout, RootUsed
<1> QED BY <1>6, <1>8, <1>9 DEF WellFormed

(* The whole image is written: a sound handle leaves a sound file. *)
LEMMA CommitWriteInv ==
  ASSUME Inv, TypeOK', CommitWrite
  PROVE  Inv'
<1>1. /\ pc = "writing" /\ pc' = "open"
      /\ disk' = [disk EXCEPT ![target] = Cut(size)]
      /\ provenance' = [provenance EXCEPT ![target] =
                          IF sound THEN "sound" ELSE "saved"]
      /\ UNCHANGED <<filename, sound, size, hdr, page, seg, bitmap, endpages,
                     endblocks>>
  BY DEF CommitWrite, openVars, memVars
<1>2. sound => WellFormed(Cut(size))
  BY <1>1, CutWhole
<1>3. FilesSound'
  <2> SUFFICES ASSUME NEW g \in Files, provenance'[g] = "sound"
               PROVE  WellFormed(disk'[g])
    BY DEF FilesSound, WellFormed, Layout, PagesTile, BlocksTile, RootUsed,
           HeaderOK, Regf, header_checksum, InPage
  <2>1. CASE g = target
    <3>1. sound /\ disk'[g] = Cut(size)
      BY <1>1, <2>1 DEF Inv, TypeOK
    <3> QED BY <1>2, <3>1
  <2>2. CASE g # target
    <3>1. disk'[g] = disk[g] /\ provenance[g] = "sound"
      BY <1>1, <2>2 DEF Inv, TypeOK
    <3> QED BY <3>1 DEF Inv, FilesSound
  <2> QED BY <2>1, <2>2
<1>4. MemorySound' /\ BitmapExact' /\ TailFree'
  BY <1>1 DEF Inv, MemorySound, BitmapExact, Ready, TailFree
<1> QED BY <1>1, <1>3, <1>4
        DEF Inv, ScansItsFile, ScanSound, NothingAllocated, SoundFilesReopen,
            CommitUnderWay

(* A file a write stopped in was truncated first, so it is not sound. *)
LEMMA CutInv ==
  ASSUME Inv, TypeOK', pc = "writing", NEW im,
         disk' = [disk EXCEPT ![target] = im], UNCHANGED provenance
  PROVE  FilesSound'
<1> SUFFICES ASSUME NEW g \in Files, provenance[g] = "sound"
             PROVE  WellFormed(disk'[g])
  BY DEF FilesSound, WellFormed, Layout, PagesTile, BlocksTile, RootUsed,
         HeaderOK, Regf, header_checksum, InPage
<1>1. g # target
  BY DEF Inv, CommitUnderWay
<1>2. disk'[g] = disk[g]
  BY <1>1 DEF Inv, TypeOK
<1> QED BY <1>2 DEF Inv, FilesSound

(* An action that only reports an error. *)
LEMMA RefusalInv ==
  ASSUME Inv, TypeOK', pc = "open", pc' \in {"open", "dangling"},
         UNCHANGED <<fileVars, target, openVars, memVars, scanVars>>
  PROVE  Inv'
<1>1. UNCHANGED <<disk, provenance, target, filename, sound, size, hdr, page,
                  seg, bitmap, endpages, endblocks>>
  BY DEF fileVars, openVars, memVars
<1>2. FilesSound'
  BY <1>1 DEF Inv, FilesSound
<1>3. MemorySound' /\ BitmapExact' /\ TailFree'
  BY <1>1 DEF Inv, MemorySound, BitmapExact, Ready, TailFree
<1> QED BY <1>2, <1>3
        DEF Inv, ScansItsFile, ScanSound, NothingAllocated, CommitUnderWay,
            SoundFilesReopen

(* The handle is gone. *)
LEMMA ClosedInv ==
  ASSUME Inv, TypeOK', FilesSound', pc' = "closed"
  PROVE  Inv'
  BY DEF Inv, MemorySound, ScansItsFile, ScanSound, NothingAllocated,
         BitmapExact, Ready, TailFree, CommitUnderWay, SoundFilesReopen

(* Every step keeps the invariant. *)
LEMMA NextInv == Inv /\ [Next]_vars => Inv'
<1> SUFFICES ASSUME Inv, [Next]_vars PROVE Inv'
  OBVIOUS
<1>t. TypeOK'
  BY NextTypeOK DEF Inv
<1>1. ASSUME NEW f \in Files, OpenMayFail(f) PROVE Inv'
  BY <1>1, RejectInv DEF OpenMayFail, Returns
<1>2. ASSUME NEW f \in Files, OpenEmpty(f) PROVE Inv'
  <2>1. IsImage(disk[f]) /\ disk[f].size = 0
    BY <1>2 DEF Inv, TypeOK, OpenEmpty
  <2>2. ~WellFormed(disk[f])
    BY <2>1, WellFormedSize DEF FirstPage
  <2>3. provenance[f] # "sound"
    BY <2>2 DEF Inv, FilesSound
  <2> QED BY <1>2, <2>3, RejectInv DEF OpenEmpty, Returns
<1>3. ASSUME NEW f \in Files, OpenBadHeader(f) PROVE Inv'
  <2>1. provenance[f] # "sound"
    BY <1>3 DEF Inv, FilesSound, WellFormed, OpenBadHeader
  <2> QED BY <1>3, <2>1, RejectInv DEF OpenBadHeader, Returns
<1>4. ASSUME NEW f \in Files, NEW w \in BOOLEAN, OpenHeader(f, w) PROVE Inv'
  BY <1>4, <1>t, OpenHeaderInv
<1>5. CASE ScanPage
  BY <1>5, <1>t, ScanPageInv
<1>6. CASE ScanBlock
  BY <1>6, <1>t, ScanBlockInv
<1>7. CASE EndOfPage
  BY <1>7, <1>t, EndOfPageInv
<1>8. CASE FinishOpen
  BY <1>8, <1>t, FinishOpenInv
<1>9. ASSUME NEW n \in Requests, AllocateRefused(n) PROVE Inv'
  BY <1>9, <1>t, RefusalInv DEF AllocateRefused
<1>10. ASSUME NEW n \in Requests, AllocateInPage(n) PROVE Inv'
  BY <1>10, <1>t, AllocateInPageInv
<1>11. ASSUME NEW n \in Requests, AllocateInNewPage(n) PROVE Inv'
  BY <1>11, <1>t, AllocateInNewPageInv
<1>12. ASSUME NEW n \in Requests, AllocateFails(n) PROVE Inv'
  BY <1>12, <1>t, RefusalInv DEF AllocateFails
<1>13. ASSUME NEW b \in bitmap \ {rootoffs}, mark_block_unused(b) PROVE Inv'
  BY <1>13, <1>t, MarkInv
<1>14. CASE CommitRefused
  BY <1>14, <1>t, RefusalInv DEF CommitRefused
<1>15. ASSUME NEW f \in Files, CommitOpen(f) PROVE Inv'
  BY <1>15, <1>t, CommitOpenInv
<1>16. CASE CommitWrite
  BY <1>16, <1>t, CommitWriteInv
<1>17. CASE ShortWrite
  <2>1. PICK c \in CutPoints : disk' = [disk EXCEPT ![target] = Cut(c)]
    BY <1>17 DEF ShortWrite
  <2>2. /\ pc = "writing" /\ pc' = "open"
        /\ UNCHANGED <<provenance, filename, sound, size, hdr, page, seg,
                       bitmap, endpages, endblocks>>
    BY <1>17 DEF ShortWrite, openVars, memVars
  <2>3. FilesSound'
    BY <1>t, <2>1, <2>2, CutInv
  <2>4. MemorySound' /\ BitmapExact' /\ TailFree'
    BY <2>2 DEF Inv, MemorySound, BitmapExact, Ready, TailFree
  <2> QED BY <1>t, <2>2, <2>3, <2>4
          DEF Inv, ScansItsFile, ScanSound, NothingAllocated, CommitUnderWay,
              SoundFilesReopen
<1>18. CASE Crash
  <2>1. PICK c \in CutPoints : disk' = [disk EXCEPT ![target] = Cut(c)]
    BY <1>18 DEF Crash
  <2>2. pc = "writing" /\ pc' = "closed" /\ UNCHANGED provenance
    BY <1>18 DEF Crash
  <2>3. FilesSound'
    BY <1>t, <2>1, <2>2, CutInv
  <2> QED BY <1>t, <2>2, <2>3, ClosedInv
<1>19. CASE hivex_close \/ CloseDangling
  <2>1. pc' = "closed" /\ UNCHANGED <<disk, provenance>>
    BY <1>19 DEF hivex_close, CloseDangling, fileVars
  <2>2. FilesSound'
    BY <2>1 DEF Inv, FilesSound
  <2> QED BY <1>t, <2>1, <2>2, ClosedInv
<1>20. CASE UNCHANGED vars
  BY <1>20, <1>t DEF vars, fileVars, openVars, memVars, scanVars, Inv,
     FilesSound, MemorySound, ScansItsFile, ScanSound, UsedBelow, rootoffs,
     NothingAllocated, BitmapExact, Ready, TailFree, CommitUnderWay,
     SoundFilesReopen
<1> QED
  BY <1>1, <1>2, <1>3, <1>4, <1>5, <1>6, <1>7, <1>8, <1>9, <1>10, <1>11,
     <1>12, <1>13, <1>14, <1>15, <1>16, <1>17, <1>18, <1>19, <1>20
  DEF Next

(* The inductive invariant holds in every reachable state. *)
THEOREM InvCorrect == Spec => []Inv
<1> QED BY InitInv, NextInv, PTL DEF Spec

(* allocate_block, mark_block_unused, commits that fail and commits that   *)
(* succeed keep the bitmap of a soundly opened hive exact, for every       *)
(* number and size of requests and every well-formed file.                 *)
THEOREM BitmapCorrect == Spec => []BitmapExact
<1>1. Inv => BitmapExact
  BY DEF Inv
<1> QED BY <1>1, InvCorrect, PTL

(* No sequence of allocations opens a gap, overlaps two blocks or frees    *)
(* the root.                                                               *)
THEOREM LayoutCorrect == Spec => []LayoutKept
<1>1. Inv => LayoutKept
  BY DEF Inv, MemorySound, LayoutKept, Ready
<1> QED BY <1>1, InvCorrect, PTL

(* hivex_open never refuses a well-formed file, nor one that a soundly     *)
(* opened handle has written in full.                                      *)
THEOREM ReopenCorrect == Spec => []SoundFilesReopen
<1>1. Inv => SoundFilesReopen
  BY DEF Inv
<1> QED BY <1>1, InvCorrect, PTL

(* A block placed behind every other block moves none of them. *)
LEMMA PlaceKeeps ==
  ASSUME Inv, NEW b \in Nat, NEW len \in Nat, len > 0, NEW ep \in Nat,
         seg' = WriteHeaders(seg, b, len, ep),
         \A c \in DOMAIN seg : c < b \/ (c = b /\ c = endblocks /\ seg[c] > 0)
  PROVE  KeepsBlocks
<1>1. DOMAIN seg \subseteq Nat /\ seg \in [DOMAIN seg -> Int]
  BY MemoryTypes DEF Inv
<1>2. HeadersWritten(seg, b, len, ep, seg')
  BY <1>1, WriteHeadersType
<1>3. \A c \in DOMAIN seg : c < b \/ (c = b /\ seg[c] > 0)
  OBVIOUS
<1>4. \A c \in DOMAIN seg \ {b} : c \in DOMAIN seg' /\ seg'[c] = seg[c]
  BY <1>1, <1>2, <1>3, PlaceUsed
<1>5. \A c \in DOMAIN seg \ {endblocks} : c \in DOMAIN seg \ {b}
  BY <1>1
<1> QED BY <1>4, <1>5 DEF KeepsBlocks

(* Freed blocks are never reused: for every instance, not only the small   *)
(* ones TLC explores.                                                      *)
THEOREM NeverReusesCorrect == Spec => NeverReusesBlocks
<1>1. Inv /\ [Next]_vars => [KeepsBlocks]_vars
  <2> SUFFICES ASSUME Inv, Next, pc = "open", pc' = "open", sound
               PROVE  KeepsBlocks
    BY DEF KeepsBlocks
  <2>1. CASE seg' = seg
    BY <2>1 DEF KeepsBlocks
  <2>2. ASSUME NEW n \in Requests, AllocateInPage(n) PROVE KeepsBlocks
    <3> DEFINE len == RoundUp(n)
    <3>1. len \in Nat /\ len >= 8
      BY <2>2, RoundUpType, ConstantsAssumption DEF AllocateInPage, Refused
    <3>2. seg' = WriteHeaders(seg, endblocks, len, endpages) /\ ~NeedsPage(len)
      BY <2>2 DEF AllocateInPage
    <3> HIDE DEF len
    <3>3. /\ DOMAIN page \subseteq Nat /\ page \in [DOMAIN page -> Nat]
          /\ DOMAIN seg \subseteq Nat /\ seg \in [DOMAIN seg -> Int]
          /\ size \in Nat /\ endpages \in Nat /\ endblocks \in Nat
      BY MemoryTypes DEF Inv
    <3>4. /\ endblocks \in DOMAIN seg /\ seg[endblocks] = endpages - endblocks
          /\ endpages - endblocks > 0
      BY <3>1, <3>2, <3>3 DEF Inv, TailFree, NeedsPage
    <3>5. PagesTile(size, endpages, page) /\ BlocksTile(page, seg)
      BY SoundMemory
    <3>6. \A c \in DOMAIN seg : c < endblocks \/ c = endblocks
      <4> SUFFICES ASSUME NEW c \in DOMAIN seg, c > endblocks PROVE FALSE
        BY <3>3
      <4>1. c < endpages
        BY <3>3, <3>5, BlockBelowEnd
      <4>2. endblocks + Length(seg[endblocks]) <= c
        BY <3>4, <3>5 DEF BlocksTile
      <4>3. Length(seg[endblocks]) = endpages - endblocks
        BY <3>3, <3>4 DEF Length
      <4> QED BY <3>3, <4>1, <4>2, <4>3
    <3> QED BY <3>1, <3>2, <3>3, <3>4, <3>6, PlaceKeeps
  <2>3. ASSUME NEW n \in Requests, AllocateInNewPage(n) PROVE KeepsBlocks
    <3> DEFINE len == RoundUp(n)
               ep == endpages + PageExtent(len)
    <3>1. len \in Nat /\ len >= 8 /\ len % 8 = 0
      BY <2>3, RoundUpType, ConstantsAssumption DEF AllocateInNewPage, Refused
    <3>2. PageExtent(len) \in Nat
      BY <3>1, PageExtentType
    <3>3. seg' = WriteHeaders(seg, endpages + PageHeader, len, ep)
      <4>1. /\ size \in Nat /\ DOMAIN seg \subseteq Nat
            /\ seg \in [DOMAIN seg -> Int]
        BY MemoryTypes DEF Inv
      <4>2. \A c \in DOMAIN seg : c + 0 < size
        BY <4>1, SoundInside
      <4>3. Zeroed(seg, 0, ep) = seg
        BY <4>1, <4>2, ZeroedSame
      <4> QED BY <2>3, <4>3 DEF AllocateInNewPage
    <3> HIDE DEF len
    <3>4. /\ DOMAIN page \subseteq Nat /\ page \in [DOMAIN page -> Nat]
          /\ DOMAIN seg \subseteq Nat /\ seg \in [DOMAIN seg -> Int]
          /\ size \in Nat /\ endpages \in Nat
          /\ endpages + PageHeader \in Nat /\ ep \in Nat
      BY <3>2, MemoryTypes DEF Inv, PageHeader
    <3> HIDE DEF ep
    <3>5. \A c \in DOMAIN seg : c < endpages + PageHeader
      <4>1. \A c \in DOMAIN seg : c < endpages
        BY <3>4, SoundMemory, BlockBelowEnd
      <4> QED BY <3>4, <4>1 DEF PageHeader
    <3> QED BY <3>1, <3>3, <3>4, <3>5, PlaceKeeps
  <2>4. ASSUME NEW b \in bitmap \ {rootoffs}, mark_block_unused(b) PROVE KeepsBlocks
    <3>1. DOMAIN seg \subseteq Nat /\ seg \in [DOMAIN seg -> Int]
          /\ b \in DOMAIN seg
      BY MemoryTypes DEF Inv
    <3>2. seg[b] < 0
      BY DEF Inv, BitmapExact, Ready
    <3>3. seg' = Put(seg, b, block_len(b)) /\ block_len(b) = -seg[b]
      BY <2>4, <3>2 DEF mark_block_unused, block_len, Length
    <3>4. /\ DOMAIN seg' = DOMAIN seg /\ seg'[b] = -seg[b]
          /\ \A c \in DOMAIN seg \ {b} : seg'[c] = seg[c]
      BY <3>1, <3>3 DEF Put
    <3> QED BY <3>1, <3>2, <3>4 DEF KeepsBlocks, Length
  <2>5. CASE CommitRefused \/ (\E n \in Requests : AllocateRefused(n) \/
                                                   AllocateFails(n))
    BY <2>1, <2>5 DEF CommitRefused, AllocateRefused, AllocateFails, memVars
  <2> QED BY <2>2, <2>3, <2>4, <2>5
          DEF Next, OpenMayFail, OpenEmpty, OpenBadHeader, OpenHeader, ScanPage,
              ScanBlock, EndOfPage, FinishOpen, CommitOpen, CommitWrite,
              ShortWrite, Crash, hivex_close, CloseDangling
<1> QED BY <1>1, InvCorrect, PTL DEF Spec, NeverReusesBlocks
=============================================================================
