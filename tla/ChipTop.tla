------------------------------ MODULE ChipTop ------------------------------
(***************************************************************************)
(* The block diagram of chip_top, drawn by                                 *)
(* docs/figs/chip_top_tikz/gen_chip_top.py, on the ticks of FigEngine.     *)
(* Texts are their number of columns after plain().                        *)
(***************************************************************************)
EXTENDS FigEngine

Hm(v) == 10 * v
Pt(x, y) == <<Mm(x), Mm(y)>>
BoxMm(name, x, y, w, h) == box(name, Mm(x), Mm(y), Mm(w), Mm(h), FALSE)

ChipGroups ==
  [i \in 1..5 |-> LET g == <<<<4, 4, 290, 182>>, <<9, 86, 78, 134>>, <<152, 46, 286, 176>>,
                             <<156, 52, 282, 136>>, <<60, 8, 286, 40>>>>[i]
                  IN  <<Mm(g[1]), Mm(g[2]), Mm(g[3]), Mm(g[4])>>]
GroupTitles ==
  <<GroupLabel(ChipGroups[1], 30, TRUE, TRUE, 16), GroupLabel(ChipGroups[2], 31, TRUE, FALSE, 14),
    GroupLabel(ChipGroups[3], 27, TRUE, TRUE, 15), GroupLabel(ChipGroups[4], 40, TRUE, FALSE, 14),
    GroupLabel(ChipGroups[5], 130, FALSE, TRUE, 13)>>

(* Host CPU and its ROM. *)
ROM == BoxMm("rom", 9, 148, 69, 18)
Stages == <<"IF", "ID", "EX", "MEM", "WB">>
STG == [i \in 1..5 |-> BoxMm(Stages[i], 13 + 13 * (i - 1), 100, 9, 14)]
HostWires ==
  [i \in 1..4 |-> wire("pipe_" \o Stages[i], <<R(STG[i], Mm(107)), L(STG[i + 1], Mm(107))>>)]
  \o <<wire("pcf", <<T(STG[1], Mm(15)), B(ROM, Mm(15))>>),
       wire("instrf", <<B(ROM, Mm(20)), T(STG[1], Mm(20))>>),
       StubWire("memready", T(STG[4], Hm(113)), "up", Hm(9))>>

(* Address decode, result register, weight store, read multiplexer. *)
MMIO == BoxMm("mmio", 158, 144, 42, 24)
DISP == BoxMm("disp", 214, 144, 60, 24)
DEC == BoxMm("dec", 98, 146, 38, 22)
RES == reg("res", Mm(106), Mm(115), Mm(26), Mm(11))
WROM == BoxMm("wrom", 100, 82, 40, 16)
RMuxYs == <<Mm(106), Mm(92), Mm(86)>>
RMUX == mux("rmux", Mm(82), RMuxYs, Mm(6), 52, TRUE)
RMuxSel == MuxSel(RMUX, MuxD(RMuxYs, 52), TRUE)
RMuxOut == MuxOut(RMUX, TRUE)
BusWires ==
  <<StubWire("rmux_s", RMuxSel, "up", 64),
    wire("hbus", <<B(STG[4], Hm(109)), <<Hm(109), Mm(78)>>, Pt(146, 78), Pt(146, 158), L(MMIO, Mm(158))>>),
    wire("hbus", <<Pt(146, 156), R(DEC, Mm(156))>>),
    wire("hbus", <<<<Mm(146), Hm(241)>>, R(RES, Hm(241))>>),
    wire("hbus", <<Pt(118, 78), B(WROM, Mm(118))>>),
    wire("rd_mmio", <<L(MMIO, Mm(149)), Pt(150, 149), Pt(150, 106), MuxIn(RMUX, RMuxYs[1], TRUE)>>),
    wire("rd_wrom", <<L(WROM, Mm(92)), MuxIn(RMUX, RMuxYs[2], TRUE)>>),
    wire("rdata", <<RMuxOut, <<Hm(117), RMuxOut[2]>>, B(STG[4], Hm(117))>>),
    wire("p_result", <<L(RES, Hm(237)), <<Mm(91), Hm(237)>>, Pt(91, 190)>>),
    wire("p_done", <<L(RES, Mm(123)), Pt(94, 123), Pt(94, 190)>>),
    wire("clk", <<Pt(-8, 60), Pt(4, 60)>>),
    wire("go", <<R(MMIO, Mm(163)), L(DISP, Mm(163))>>),
    wire("status", <<L(DISP, Mm(149)), R(MMIO, Mm(149))>>)>>

(* The SIMT engine. *)
SCH == BoxMm("sch", 160, 104, 22, 20)
FD == BoxMm("fd", 187, 104, 20, 20)
RF == BoxMm("rf", 212, 104, 22, 20)
EX == box("ex", Mm(239), Mm(104), Mm(40), Mm(20), TRUE)
WB == BoxMm("wb", 210, 78, 22, 18)
ENG == BoxMm("eng", 236, 78, 20, 18)
MEME == BoxMm("meme", 260, 78, 22, 18)
EngineWires ==
  <<wire("w_sf", <<R(SCH, Mm(114)), L(FD, Mm(114))>>),
    wire("w_fr", <<R(FD, Mm(114)), L(RF, Mm(114))>>),
    wire("w_re", <<R(RF, Mm(114)), L(EX, Mm(114))>>),
    wire("w_park", <<B(EX, Mm(246)), T(ENG, Mm(246))>>),
    wire("w_ldst", <<B(EX, Mm(271)), T(MEME, Mm(271))>>),
    wire("w_eng", <<L(ENG, Mm(87)), R(WB, Mm(87))>>),
    wire("w_mem", <<B(MEME, Mm(263)), Pt(263, 72), Pt(221, 72), B(WB, Mm(221))>>),
    wire("w_wb", <<T(WB, Mm(221)), B(RF, Mm(221))>>),
    wire("args", <<B(MMIO, Mm(170)), T(SCH, Mm(170))>>),
    wire("start", <<B(DISP, Mm(220)), Pt(220, 129), Pt(177, 129), T(SCH, Mm(177))>>),
    wire("pdone", <<Pt(262, 136), B(DISP, Mm(262))>>)>>

(* Shared memory. *)
PCPU == BoxMm("pcpu", 66, 28, 32, 8)
PIF == BoxMm("pif", 186, 28, 22, 8)
PLN == BoxMm("pln", 250, 28, 32, 8)
Banks == [b \in 1..8 |-> box("bank" \o ToString(b - 1), Mm(66) + 544 * (b - 1), Mm(15), Mm(24), Mm(9), FALSE)]
MemWires ==
  <<wire("hbus", <<Pt(70, 78), T(PCPU, Mm(70))>>),
    wire("rd_shared", <<T(PCPU, Mm(93)), Pt(93, 86), MuxIn(RMUX, RMuxYs[3], TRUE)>>),
    wire("imem_a", <<B(FD, Mm(192)), T(PIF, Mm(192))>>),
    wire("imem_d", <<T(PIF, Mm(201)), B(FD, Mm(201))>>),
    wire("line_w", <<B(MEME, Mm(270)), T(PLN, Mm(270))>>),
    wire("line_r", <<T(PLN, Mm(277)), B(MEME, Mm(277))>>)>>

ChipLabels ==
  GroupTitles
  \o <<label(2, 1, Hm(29), Mm(131), "mid", "east", 13), label(5, 1, Hm(41), Mm(131), "mid", "west", 13),
       StubLabel(T(STG[4], Hm(113)), "up", Hm(9), 16, 12), StubLabel(RMuxSel, "up", 64, 3, 12),
       label(38, 1, Mm(120), Mm(78) - 8, "north", "mid", 13),
       label(10, 1, Mm(124), Mm(106) + 7, "south", "mid", 12),
       label(5, 1, Mm(70), RMuxOut[2] + 7, "south", "mid", 13),
       label(12, 1, Hm(181), Mm(190) + 6, "south", "east", 14),
       label(4, 1, Hm(189), Mm(190) + 6, "south", "west", 14),
       label(8, 1, Mm(-8) - 6, Mm(60), "mid", "east", 14),
       label(2, 1, Mm(207), Mm(163) + 7, "south", "mid", 12),
       label(6, 1, Mm(207), Mm(149) - 8, "north", "mid", 12),
       label(4, 1, Hm(493), Mm(100), "mid", "west", 12), label(5, 1, Hm(543), Mm(100), "mid", "west", 12),
       label(10, 1, Hm(443), Mm(100), "mid", "west", 12), label(15, 1, Hm(341), Mm(139), "mid", "west", 12),
       label(5, 1, Mm(198), Mm(129) + 7, "south", "mid", 12), label(4, 1, Hm(525), Hm(279), "mid", "west", 12),
       label(10, 1, Hm(383), Mm(55), "mid", "east", 12), label(5, 1, Hm(403), Mm(55), "mid", "west", 12),
       label(12, 1, Hm(539), Mm(55), "mid", "east", 12)>>

ChipFig ==
  Fig(<<ROM>> \o STG \o <<MMIO, DISP, DEC, RES, WROM, RMUX, SCH, FD, RF, EX, WB, ENG, MEME, PCPU, PIF, PLN>> \o Banks,
      HostWires \o BusWires \o EngineWires \o MemWires, ChipLabels, ChipGroups)
=============================================================================
