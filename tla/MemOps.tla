------------------------------- MODULE MemOps -------------------------------
(***************************************************************************)
(* A warp's memory instruction and what its lanes do, one after another in *)
(* ascending lane order, to a memory of words.                             *)
(***************************************************************************)
EXTENDS Integers, Sequences, FiniteSetsExt

CONSTANTS
  NL,           \* lanes
  NW,           \* warps
  V,            \* word values 0..V-1
  Words,        \* words of the global memory: 0..Words-1
  ScrWords,     \* words of one warp's scratchpad
  BLK,          \* warps per block
  OpLib,        \* memory instructions the warps issue
  MaxOps,       \* bound: instructions issued in all
  LD_MAX        \* loads a warp may have outstanding

Lane  == 1 .. NL
Warp  == 0 .. NW - 1
Val   == 0 .. V - 1
None  == -1

(* kind "load", "store", "amo"; scratch and shared select the scratchpad   *)
(* and its block-wide view; wb: the destination register is not x0.        *)
Op == [w : Warp, kind : {"load", "store", "amo"}, fn : {"add", "swap", "minu", "maxu"},
       scratch : BOOLEAN, shared : BOOLEAN, wb : BOOLEAN,
       mask : SUBSET Lane, addr : [Lane -> 0 .. Words - 1], data : [Lane -> Val]]

ASSUME SizeAssumption == {NL, NW, V, Words, ScrWords, BLK, MaxOps, LD_MAX} \subseteq Nat \ {0}
(* blk_lg: blocks are powers of two of warps, within as many warp slots.   *)
ASSUME BlockAssumption == NW % BLK = 0
ASSUME OpAssumption   == \A p \in OpLib : p \in Op /\ p.mask # {}

amo_alu(fn, m, v) ==
  CASE fn = "add"  -> (m + v) % V
    [] fn = "swap" -> v
    [] fn = "minu" -> IF m < v THEN m ELSE v
    [] fn = "maxu" -> IF m < v THEN v ELSE m

(* The instruction writes its destination register.                        *)
Returns(p) == p.wb /\ p.kind # "store"

(* Scratch word of a lane: in the warp's own region or, in the shared      *)
(* view, in the region of the block's warps that the address names.        *)
sc_a(p, l) ==
  LET field == IF p.shared THEN (p.w \div BLK) * BLK + ((p.addr[l] \div ScrWords) % BLK)
               ELSE p.w
  IN field * ScrWords + (p.addr[l] % ScrWords)
At(p, l)   == IF p.scratch THEN sc_a(p, l) ELSE p.addr[l]

(* Contents the memories start with.                                       *)
MemInit == [x \in 0 .. Words - 1 |-> x % V]
ScrInit == [x \in 0 .. NW * ScrWords - 1 |-> x % V]

(* Lanes S of p executed in order from memory m: the memory each lane      *)
(* finds, the last entry being the memory they leave.                      *)
Found(p, S, m) ==
  LET f[l \in 0 .. NL] ==
        IF l \notin S \/ p.kind = "load" THEN (IF l = 0 THEN m ELSE f[l - 1])
        ELSE LET x == At(p, l)
             IN [f[l - 1] EXCEPT ![x] = IF p.kind = "store" THEN p.data[l]
                                        ELSE amo_alu(p.fn, f[l - 1][x], p.data[l])]
  IN f
After(p, S, m)    == Found(p, S, m)[NL]
Result(p, l, S, m) == Found(p, S, m)[l - 1][At(p, l)]
=============================================================================
