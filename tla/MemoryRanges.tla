---------------------------- MODULE MemoryRanges ----------------------------
(***************************************************************************)
(* Who serves which address: the interleaved address ranges that           *)
(* setup_memory_controllers(), the L2 caches of MOESI_CMP_directory, the   *)
(* home nodes of CHI and the classic config_mem() give their controllers,  *)
(* and the bit from which banked caches index their sets.                  *)
(***************************************************************************)
EXTENDS Integers, Sequences, FiniteSets, SequencesExt, RubyProtocols

Bit(a, i) == (a \div pow2[i]) % 2

(* gem5's AddrRange: the address bits whose parity is bit i of the match.  *)
(* The mutant takes the highest bit for all of them.                       *)
MasksUnshifted(high, xorHigh, bits) ==
  [i \in 1 .. bits |-> {high} \cup (IF xorHigh = 0 THEN {} ELSE {xorHigh})]
Masks(high, xorHigh, bits) ==
  [i \in 1 .. bits |-> {high - bits + i}
                         \cup (IF xorHigh = 0 THEN {} ELSE {xorHigh - bits + i})]

AddrRange(r, high, xorHigh, bits, match) ==
  [start |-> r.start, size |-> r.size, masks |-> Masks(high, xorHigh, bits), match |-> match]
Whole(r) == AddrRange(r, 0, 0, 0, 0)

Covers(r, a) ==
  /\ r.start <= a /\ a < r.start + r.size
  /\ \A i \in DOMAIN r.masks :
       Cardinality({b \in r.masks[i] : Bit(a, b) = 1}) % 2 = Bit(r.match, i - 1)

(* gem5 refuses a match that the interleaving bits cannot have. *)
Accepted(r) == r.match < pow2[Len(r.masks)]

(* create_mem_intf(): the bits above the interleaving size, or above the   *)
(* row buffer of an interface (buffer # 0) that maps channels there.       *)
CreateMemIntf(c, r, match, bits, low, buffer) ==
  AddrRange(r, (IF buffer # 0 THEN buffer ELSE low) + bits - 1,
            IF c.xor_low_bit # 0 THEN c.xor_low_bit + bits - 1 ELSE 0, bits, match)

RangesOf(c) == {c.ranges[k] : k \in 1 .. Len(c.ranges)}
WithBoot(c) == RangesOf(c) \cup (IF c.boot THEN {c.bootRange} ELSE {})

(* setup_memory_controllers(), and the directory of the boot memory. *)
DirectoryRanges(c) ==
  LET bits == Log2(c.dirs)
      low  == IF c.numa_high_bit # 0 THEN c.numa_high_bit - bits + 1 ELSE c.block
  IN [i \in 1 .. c.dirs |->
        {CreateMemIntf(c, r, i - 1, bits, low, c.buffer.DRAM) : r \in RangesOf(c)}]
       \o (IF c.boot THEN <<{Whole(c.bootRange)}>> ELSE <<>>)

(* n banks interleaved by cache lines over all memories. *)
BankRanges(c, n) ==
  [i \in 1 .. n |-> {AddrRange(r, c.block + Log2(n) - 1, 0, Log2(n), i - 1) : r \in WithBoot(c)}]

(* config_mem(): ranges go to DRAM and NVM in turn if there are both, and  *)
(* with hybrid channels an NVM interface shares a controller of a DRAM.    *)
IntfKind(c, k) == IF c.dram /\ (~c.nvm \/ k % 2 = 1) THEN "DRAM" ELSE "NVM"

Interface(c, k, i) ==
  CreateMemIntf(c, c.ranges[k], i - 1, Log2(c.channels), c.intlv, c.buffer[IntfKind(c, k)])

(* Ranges whose interfaces have controllers of their own, or share one.    *)
OwnController(c) == {k \in 1 .. Len(c.ranges) : IntfKind(c, k) = "DRAM" \/ ~c.hybrid}
SharedNvm(c)     == (1 .. Len(c.ranges)) \ OwnController(c)

(* The place at which mem_ctrls or nvm_intfs gets the i-th interface of    *)
(* range k: the interfaces of earlier ranges come first.                   *)
PlaceOf(c, k, i) ==
  LET list == IF k \in OwnController(c) THEN OwnController(c) ELSE SharedNvm(c)
  IN Cardinality({j \in list : j < k}) * c.channels + i

ClassicRefused(c) ==
  \/ ~c.dram /\ ~c.nvm
  \/ pow2[Log2(c.channels)] # c.channels
  \/ Cardinality(SharedNvm(c)) > Cardinality(OwnController(c))

ClassicRanges(c) ==
  [p \in 1 .. Cardinality(OwnController(c)) * c.channels |->
     {Interface(c, q[1], q[2]) :
        q \in {x \in (1 .. Len(c.ranges)) \X (1 .. c.channels) : PlaceOf(c, x[1], x[2]) = p}}]

(* All families of controllers among which the addresses are divided. *)
Homes(c) ==
  CASE c.protocol = "classic" -> [channel |-> ClassicRanges(c)]
    [] c.protocol = "MOESI_CMP_directory" ->
         [memory |-> DirectoryRanges(c), cache |-> BankRanges(c, c.l2s)]
    [] c.protocol = "CHI" -> [memory |-> DirectoryRanges(c), cache |-> BankRanges(c, c.l3s)]
    [] OTHER -> [memory |-> DirectoryRanges(c)]

HomesOf(family, a) == {i \in DOMAIN family : \E r \in family[i] : Covers(r, a)}

(* How many controllers of a family each memory range is divided among. *)
Ways(c) ==
  [channel |-> c.channels, memory |-> c.dirs,
   cache   |-> IF c.protocol = "CHI" THEN c.l3s ELSE c.l2s]

(* The first addresses of the cache lines of a range, and of all memories. *)
LinesOf(c, r) == {a \in r.start .. r.start + r.size - 1 : a % pow2[c.block] = 0}
Lines(c) == UNION {LinesOf(c, r) : r \in WithBoot(c)}
-----------------------------------------------------------------------------
(* Banks of the shared caches: their number as a power of two, the first   *)
(* bit of the set index, and the bank of an address where the protocol     *)
(* selects it by the bits above the block offset (external: SLICC).        *)
BankBits(c) ==
  CASE c.protocol \in {"MESI_Two_Level", "MOESI_CMP_directory", "MOESI_CMP_token"} -> Log2(c.l2s)
    [] c.protocol \in {"MESI_Three_Level", "MESI_Three_Level_HTM"} -> Log2(c.l2s \div c.clusters)
    [] c.protocol = "CHI" -> Log2(c.l3s)
    [] c.protocol = "GPU_VIPER" -> Log2(c.tccs)
    [] c.protocol = "MOESI_hammer" -> Log2(c.dirs)
    [] OTHER -> 0

(* Probe filters of MOESI_hammer are banked with their directories.  The   *)
(* mutant indexes the sets right above the block offset.                   *)
IndexStartAtBlock(c) == c.block
IndexStart(c) ==
  IF c.protocol = "MOESI_hammer" THEN
    IF c.numa_high_bit # 0 \/ BankBits(c) = 0 THEN c.block ELSE BankBits(c) + c.block - 1
  ELSE c.block + BankBits(c)

SetOf(c, a) == (a \div pow2[IndexStart(c)]) % pow2[c.setBits]
SelectedBank(c, a) == ((a \div pow2[c.block]) % pow2[BankBits(c)]) + 1
=============================================================================
