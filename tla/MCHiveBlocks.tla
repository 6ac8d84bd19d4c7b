--------------------------- MODULE MCHiveBlocks ---------------------------
(***************************************************************************)
(* Small instances of HiveBlocks: one hive file and one name to commit to. *)
(* The images follow images/minimal and the ways it can be damaged.        *)
(***************************************************************************)
EXTENDS HiveBlocks, Bitwise, TLC

CONSTANTS hive, copy

(* header_checksum: the xor of the header's dwords. *)
MCChecksum(s1, s2, b) == (s1 ^^ s2) ^^ b

(* No legal length, a used and a free block.  *)
MCStray == {0, -4096}

(* In the header, in and behind the root block, between and in two pages. *)
MCStops == {0, 44, 4132, 4300, 8192, 8200}

MCWord == 65536
MCSequence == MCWord - 1       \* the first commit wraps to 0

RegfHeader(blocks) ==
  [magic |-> TRUE, major_ver |-> 1, sequence1 |-> MCSequence,
   sequence2 |-> MCSequence, offset |-> 32, blocks |-> blocks,
   csum |-> MCChecksum(MCSequence, MCSequence, blocks), nk |-> TRUE]

Pages == 4096 :> 4096
Blocks == (4128 :> -96) @@ (4224 :> -312) @@ (4536 :> 3656)

Minimal == [size |-> 8192, hdr |-> RegfHeader(4096),
            page |-> Pages, seg |-> Blocks]

(* Slack between endpages and the end of the file. *)
Slack == [Minimal EXCEPT !.size = 12288]

(* A second page of two 4KB units that holds one large block. *)
LargePage ==
  [size |-> 16384, hdr |-> RegfHeader(12288),
   page |-> Pages @@ (8192 :> 8192),
   seg |-> Blocks @@ (8224 :> -8160)]

Damaged ==
  { [Minimal EXCEPT !.hdr.magic = FALSE],
    [Minimal EXCEPT !.hdr.csum = 1],
    [Minimal EXCEPT !.hdr.nk = FALSE],
    [Minimal EXCEPT !.hdr.offset = 36],           \* root in no block
    [Minimal EXCEPT !.page = 4096 :> 0],
    [Minimal EXCEPT !.page = 4096 :> 4100],
    [Minimal EXCEPT !.seg[4224] = 4],
    [Minimal EXCEPT !.seg[4224] = -310],
    [Minimal EXCEPT !.seg[4128] = 96],            \* root free
    [Minimal EXCEPT !.seg[4536] = 4000],          \* block overruns its page
    [Minimal EXCEPT !.size = 12288, !.hdr = RegfHeader(8192)] }

DiskOf(im) == [f \in Files |-> IF f = hive THEN im ELSE EmptyImage]

SoundDisks == {DiskOf(im) : im \in {Minimal, Slack}}
AllDisks == {DiskOf(im) : im \in {Minimal, Slack, LargePage} \cup Damaged}
=============================================================================
