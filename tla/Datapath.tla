------------------------------ MODULE Datapath ------------------------------
(***************************************************************************)
(* The datapath figure of the warp pool, drawn by                          *)
(* docs/figs/datapath_tikz/gen_datapath_tikz.py, on the ticks of           *)
(* FigEngine: shapes, wires and labels in the order the script draws them. *)
(* Coordinates are in tenths of a millimetre (D converts); the two heights *)
(* between tenths are taken from the shapes that define them.              *)
(***************************************************************************)
EXTENDS FigEngine

D(v) == 2 * v
At(x, y) == <<D(x), D(y)>>
Box(name, x, y, w, h) == box(name, D(x), D(y), D(w), D(h), FALSE)
RepBox(name, x, y, w, h) == box(name, D(x), D(y), D(w), D(h), TRUE)
Reg(name, x, y, w, h) == reg(name, D(x), D(y), D(w), D(h))
Mux(name, x, ys, w, pad) == mux(name, D(x), [i \in DOMAIN ys |-> D(ys[i])], D(w), D(pad), FALSE)
And(name, x, ya, yb) == gate(name, "and", D(x), <<D(ya), D(yb)>>, D(60), D(16))
PL(s, y) == L(s, D(y))
PR(s, y) == R(s, D(y))
PT(s, x) == T(s, D(x))
PB(s, x) == B(s, D(x))
Out(s) == MuxOut(s, FALSE)
SlantOf(s) == s.poly[2][2] - s.poly[1][2]
Sel(s, top) == MuxSel(s, SlantOf(s), top)
(* A caption just above a wire at height y (in ticks) or on a shape. *)
Above(cols, x, y) == label(cols, 1, D(x), y + 7, "south", "mid", 11)
Stub(net, p, direction, length) == StubWire(net, p, direction, D(length))
StubText(p, direction, length, cols) == StubLabel(p, direction, D(length), cols, 11)
------------------------------------------------------------------------------
(* Fetch. *)
WST == Box("wst", 30, 1760, 190, 160)
RRP == Reg("rrp", 30, 1550, 170, 80)
INC == circ("inc", D(115), D(1390), D(29))
PE == Box("pe", 270, 1440, 90, 520)
STK == Box("stk", 410, 1420, 240, 580)
IMEM == Box("imem", 680, 1390, 130, 140)
BFX == bar("bfx", D(860), D(1000), D(35), D(990), TRUE)
FetchShapes == <<WST, RRP, INC, PE, STK, IMEM, BFX>>
FetchWires ==
  <<wire("runnable", <<PR(WST, 1840), PL(PE, 1840)>>), wire("rr", <<PR(RRP, 1590), PL(PE, 1590)>>),
    wire("fetch_w", <<PR(PE, 1690), At(385, 1690), PL(STK, 1690)>>),
    wire("fetch_w", <<At(385, 1690), At(385, 1220), PL(BFX, 1220)>>),
    wire("fetch_w", <<At(385, 1390), At(144, 1390)>>), wire("rr_inc", <<At(115, 1419), PB(RRP, 115)>>),
    wire("stk_sp", <<PR(STK, 1960), PL(BFX, 1960)>>), wire("stk_rpc", <<PR(STK, 1920), PL(BFX, 1920)>>),
    wire("stk_mask", <<PR(STK, 1850), PL(BFX, 1850)>>), wire("fetch_pc", <<PR(STK, 1680), PL(BFX, 1680)>>),
    wire("fetch_pc", <<At(745, 1680), PT(IMEM, 745)>>), wire("instr_f", <<PR(IMEM, 1460), PL(BFX, 1460)>>)>>
FetchLabels ==
  <<Above(6, 620, D(1220)), Above(2, 755, D(1960)), Above(3, 755, D(1920)), Above(4, 755, D(1850)),
    Above(7, 695, D(1680))>>

(* Issue and execute: decode, register files, operand muxes, ALU. *)
DEC == Box("dec", 1140, 1100, 150, 420)
VRF == RepBox("vrf", 1380, 1140, 220, 320)
FRF == RepBox("frf", 1380, 600, 220, 320)
SEED == Box("seed", 1640, 1240, 120, 140)
M1 == Mux("m1", 1800, <<1420, 1340>>, 50, 26)
M2 == Mux("m2", 1800, <<1270, 1190>>, 50, 26)
MA == Mux("ma", 2020, <<1460, 1420, 1380>>, 50, 26)
MB == Mux("mb", 2020, <<1230, 1180>>, 50, 26)
ALU == alu("alu", D(2130), D(1420), D(1205), D(130), TRUE)
ALUOut == <<D(2260), (D(1420) + D(1205)) \div 2>>
WBM == mux("wbm", D(2340), <<D(1390), D(1350), ALUOut[2]>>, D(50), D(26), FALSE)
ExecShapes == <<DEC, VRF, FRF, SEED, M1, M2, MA, MB, ALU, WBM>>
ExecWires ==
  <<wire("instr", <<PR(BFX, 1460), PL(DEC, 1460)>>), wire("issue_w", <<PR(BFX, 1220), PL(DEC, 1220)>>),
    wire("raddr_v", <<PR(DEC, 1400), PL(VRF, 1400)>>),
    wire("raddr_f", <<PB(DEC, 1210), At(1210, 840), PL(FRF, 840)>>),
    wire("vrd1", <<PR(VRF, 1420), PL(M1, 1420)>>), wire("vrd2", <<PR(VRF, 1190), PL(M2, 1190)>>),
    wire("seed1", <<PR(SEED, 1340), PL(M1, 1340)>>), wire("seed2", <<PR(SEED, 1270), PL(M2, 1270)>>),
    Stub("wr1", Sel(M1, TRUE), "up", 30), Stub("wr2", Sel(M2, FALSE), "down", 30),
    wire("rv1", <<Out(M1), PL(MA, 1380)>>), wire("rv2", <<Out(M2), PL(MB, 1230)>>),
    wire("opa", <<Out(MA), At(2130, 1420)>>), wire("opb", <<Out(MB), At(2130, 1205)>>),
    Stub("ma_pc", PL(MA, 1460), "left", 24), Stub("ma_0", PL(MA, 1420), "left", 24),
    Stub("opa_s", Sel(MA, FALSE), "down", 26), Stub("opb_s", Sel(MB, FALSE), "down", 26),
    wire("imm", <<PB(DEC, 1250), At(1250, 1040), At(1960, 1040), At(1960, 1180), PL(MB, 1180)>>),
    wire("alu_y", <<ALUOut, L(WBM, ALUOut[2])>>),
    wire("link", <<At(2320, 1458), At(2320, 1390), PL(WBM, 1390)>>),
    wire("tidv", <<At(2300, 1458), At(2300, 1350), PL(WBM, 1350)>>),
    Stub("wbm_s", Sel(WBM, FALSE), "down", 26)>>
ExecLabels ==
  <<Above(5, 1080, D(1460)), Above(6, 1080, D(1220)),
    label(4, 1, D(1325), D(1404), "south", "mid", 11), label(4, 1, D(1255), D(844), "south", "mid", 11),
    StubText(Sel(M1, TRUE), "up", 30, 2), StubText(Sel(M2, FALSE), "down", 30, 2),
    Above(3, 1955, D(1380)), Above(3, 1955, D(1230)),
    StubText(PL(MA, 1460), "left", 24, 2), StubText(PL(MA, 1420), "left", 24, 1),
    StubText(Sel(MA, FALSE), "down", 26, 4), StubText(Sel(MB, FALSE), "down", 26, 4), Above(3, 1760, D(1040)),
    label(4, 1, D(2324), D(1459), "south", "west", 11), label(3, 1, D(2296), D(1459), "south", "east", 11),
    StubText(Sel(WBM, FALSE), "down", 26, 4)>>

(* The control row: pop check, next-PC candidates, branch resolve, stack   *)
(* update.                                                                 *)
EQP == circ("eqp", D(1230), D(1920), D(24))
NZ == gate("nz", "or", D(1120), <<D(1960)>>, D(55), D(18))
ANDP == And("andp", 1300, 1960, 1920)
AI == circ("ai", D(1370), D(1610), D(28))
A4 == circ("a4", D(1500), D(1740), D(28))
NPC == Mux("npc", 2040, <<1740, 1675, 1610>>, 50, 24)
BCMP == Box("bcmp", 1830, 1530, 130, 65)
ANDT == And("andt", 2220, 1885, 1850)
ANDN == And("andn", 2220, 1800, 1765)
PUSH == Box("push", 2360, 1580, 190, 400)
BCmpY == (BCMP.bb[2] + BCMP.bb[4]) \div 2
And2(s, x) == GateOut(s, D(x), D(60))
ControlShapes == <<EQP, NZ, ANDP, AI, A4, NPC, BCMP, ANDT, ANDN, PUSH>>
ControlWires ==
  <<wire("cur_sp", <<PR(BFX, 1960), <<D(1120) + 10, D(1960)>>>>), wire("cur_rpc", <<PR(BFX, 1920), At(1206, 1920)>>),
    wire("nz", <<At(1175, 1960), At(1300, 1960)>>), wire("eqp", <<At(1254, 1920), At(1300, 1920)>>),
    wire("cur_pc", <<PR(BFX, 1680), At(1500, 1680), At(1500, 1712)>>), wire("cur_pc", <<At(1230, 1680), At(1230, 1896)>>),
    wire("cur_pc", <<At(1370, 1680), At(1370, 1638)>>), wire("imm", <<PT(DEC, 1260), At(1260, 1610), At(1342, 1610)>>),
    wire("fallthru", <<At(1528, 1740), PL(NPC, 1740)>>), wire("target", <<At(1398, 1610), PL(NPC, 1610)>>),
    Stub("jalr", PL(NPC, 1675), "left", 26), Stub("npc_s", Sel(NPC, TRUE), "up", 24),
    wire("rv2", <<At(1880, 1230), PB(BCMP, 1880)>>), wire("rv1", <<At(1920, 1380), PB(BCMP, 1920)>>),
    Stub("f3", L(BCMP, BCmpY), "left", 30),
    wire("t", <<R(BCMP, BCmpY), <<D(2180), BCmpY>>, At(2180, 1885), At(2220, 1885)>>),
    wire("t", <<At(2180, 1765), <<D(2220) - 28, D(1765)>>>>),
    wire("cur_mask", <<PR(BFX, 1850), At(2220, 1850)>>),
    wire("cur_mask", <<At(2200, 1850), At(2200, 1800), At(2220, 1800)>>)>>
  \o [i \in 1..4 |-> LET o == <<And2(ANDT, 2220), And2(ANDN, 2220), Out(NPC), And2(ANDP, 1300)>>[i]
                     IN  wire(<<"taken", "ntaken", "npc", "do_pop">>[i], <<o, L(PUSH, o[2])>>)]
ControlLabels ==
  <<label(2, 1, D(1146), D(1980), "south", "mid", 11), Above(5, 960, D(1680)), Above(12, 1750, D(1740)),
    Above(19, 1680, D(1610)), StubText(PL(NPC, 1675), "left", 26, 4), StubText(Sel(NPC, TRUE), "up", 24, 4),
    StubText(L(BCMP, BCmpY), "left", 30, 6), Above(1, 2130, BCmpY), Above(7, 1600, D(1850)),
    Above(5, 2320, And2(ANDT, 2220)[2]), Above(6, 2320, And2(ANDN, 2220)[2]), Above(3, 2320, Out(NPC)[2]),
    Above(5, 1750, And2(ANDP, 1300)[2])>>

(* The FP datapath: the FPU, and the shared divider behind a lane mux. *)
C_FPU == Reg("c_fpu", 1720, 670, 60, 250)
U_FPU == RepBox("u_fpu", 1840, 695, 240, 210)
H_FPU == Reg("h_fpu", 2150, 730, 50, 140)
C_SFU == Reg("c_sfu", 1720, 400, 60, 140)
LM == Mux("lm", 1830, <<520, 490, 460, 430>>, 60, 18)
LSEQ == Box("lseq", 1805, 570, 110, 60)
DSQ == Box("dsq", 1940, 410, 160, 120)
H_SFU == Reg("h_sfu", 2150, 410, 50, 120)
FpShapes == <<C_FPU, U_FPU, H_FPU, C_SFU, LM, LSEQ, DSQ, H_SFU>>
FpWires ==
  [i \in 1..3 |-> wire(<<"frv3", "frv2", "frv1">>[i], <<PR(FRF, 880 - 80 * (i - 1)), PL(C_FPU, 880 - 80 * (i - 1))>>)]
  \o <<wire("fpu_c", <<PR(C_FPU, 800), PL(U_FPU, 800)>>), wire("fpu_r", <<PR(U_FPU, 800), PL(H_FPU, 800)>>),
       Stub("fpu_x", PB(C_FPU, 1731), "down", 30),
       wire("frv1", <<At(1690, 720), At(1690, 500), PL(C_SFU, 500)>>),
       wire("frv2", <<At(1660, 800), At(1660, 440), PL(C_SFU, 440)>>)>>
  \o [i \in 1..3 |-> LET y == <<520, 490, 430>>[i] IN wire(<<"sfu_l0", "sfu_l1", "sfu_l7">>[i], <<PR(C_SFU, y), PL(LM, y)>>)]
  \o <<wire("lane", <<B(LSEQ, Sel(LM, TRUE)[1]), Sel(LM, TRUE)>>), wire("sfu_a", <<Out(LM), L(DSQ, Out(LM)[2])>>),
       wire("sfu_r", <<PR(DSQ, 470), PL(H_SFU, 470)>>)>>
FpLabels ==
  <<StubText(PB(C_FPU, 1731), "down", 30, 3), Above(7, 1750, D(920)), Above(3, 2175, D(870)),
    Above(5, 1750, D(540)), Above(4, 2175, D(530))>>
------------------------------------------------------------------------------
(* The parked engines: a capture register, a unit and a hold register      *)
(* around a centre line, fed from the operand rails.                       *)
Engine(name, ycen, h, ins, cols) ==
  LET C == Reg("c_" \o name, 2920, ycen - h \div 2, 50, h)
      U == RepBox("u_" \o name, 3020, ycen - h \div 2 - 5, 240, h + 10)
      H == Reg("h_" \o name, 3320, ycen - h \div 2, 50, h)
  IN  [shapes |-> <<C, U, H>>,
       wires  |-> [i \in DOMAIN ins |-> wire(ins[i][3], <<At(ins[i][1], ins[i][2]), PL(C, ins[i][2])>>)]
                  \o <<wire(name \o "_c", <<PR(C, ycen), PL(U, ycen)>>), wire(name \o "_r", <<PR(U, ycen), PL(H, ycen)>>)>>,
       labels |-> <<Above(1, 2945, D(ycen + h \div 2)), Above(cols, 3345, D(ycen + h \div 2))>>]
MUL == Engine("mul", 1440, 90, <<<<2700, 1470, "rv1">>, <<2740, 1415, "rv2">>>>, 3)
DOT == Engine("dot", 1250, 90, <<<<2700, 1280, "rv1">>, <<2740, 1225, "rv2">>>>, 3)
RailWires ==
  <<wire("rv1", <<At(1920, 1496), At(2700, 1496), At(2700, 1280)>>),
    wire("rv2", <<At(1880, 1516), At(2740, 1516), At(2740, 740)>>)>>

(* The memory engine: addresses, lead lane, pending mask, line port. *)
C_A == Reg("c_a", 2920, 1040, 50, 120)
LAM == Mux("lam", 3070, <<1130, 1100, 1070, 1040>>, 60, 18)
TAG == Box("tag", 3210, 1020, 80, 175)
ANDG == And("andg", 3360, 1130, 1080)
PMUX == Mux("pmux", 2850, <<970, 910>>, 50, 26)
C_P == Reg("c_p", 2920, 890, 50, 100)
PEL == Box("pel", 3040, 880, 110, 110)
ANDPN == And("andpn", 3490, 1105, 1040)
SDM == Mux("sdm", 2850, <<740, 680>>, 50, 26)
C_D == Reg("c_d", 2920, 650, 50, 120)
LINE == Box("line", 3040, 580, 160, 160)
DMEM == Box("dmem", 3300, 560, 180, 180)
SCR == Box("scr", 3220, 380, 160, 100)
RMUX == Mux("rmux", 3560, <<510, 430>>, 50, 26)
MemShapes == <<C_A, LAM, TAG, ANDG, PMUX, C_P, PEL, ANDPN, SDM, C_D, LINE, DMEM, SCR, RMUX>>
MaskWires ==
  <<wire("alu_y", <<<<D(2280), ALUOut[2]>>, At(2280, 1100), At(2920, 1100)>>),
    wire("a_vec", <<PR(C_A, 1100), At(3035, 1100)>>), wire("a_vec", <<At(3035, 1100), PL(LAM, 1100)>>),
    wire("a_vec", <<At(3035, 1100), At(3035, 1130), PL(LAM, 1130)>>),
    wire("a_vec", <<At(3035, 1100), At(3035, 1040), PL(LAM, 1040)>>), wire("lead_a", <<Out(LAM), L(TAG, Out(LAM)[2])>>),
    wire("a_vec", <<At(3000, 1100), At(3000, 1170), PL(TAG, 1170)>>), wire("eq", <<PR(TAG, 1130), PL(ANDG, 1130)>>),
    Stub("pm_m", PL(PMUX, 970), "left", 26), Stub("pm_s", Sel(PMUX, FALSE), "down", 26),
    wire("pmux_o", <<Out(PMUX), L(C_P, Out(PMUX)[2])>>), wire("pend", <<PR(C_P, 940), PL(PEL, 940)>>),
    wire("lead", <<T(PEL, Sel(LAM, FALSE)[1]), Sel(LAM, FALSE)>>),
    wire("pend", <<At(3005, 940), At(3005, 845), At(3330, 845), At(3330, 1080), PL(ANDG, 1080)>>),
    wire("grp", <<And2(ANDG, 3360), <<D(3490) - 28, D(1105)>>>>), wire("pend", <<At(3330, 1040), PL(ANDPN, 1040)>>),
    wire("pnext", <<And2(ANDPN, 3490), <<D(3580), And2(ANDPN, 3490)[2]>>, At(3580, 810), At(2820, 810), At(2820, 910), PL(PMUX, 910)>>)>>
DataWires ==
  <<wire("rv2", <<At(2740, 740), PL(SDM, 740)>>), Stub("sdm_f", PL(SDM, 680), "left", 26),
    Stub("sdm_s", Sel(SDM, FALSE), "down", 26), wire("sd", <<Out(SDM), L(C_D, Out(SDM)[2])>>),
    wire("sd_q", <<PR(C_D, 710), PL(LINE, 710)>>), wire("lead_a", <<<<D(3168), Out(LAM)[2]>>, PT(LINE, 3168)>>),
    wire("grp", <<At(3460, 1105), At(3460, 780), At(3190, 780), PT(LINE, 3190)>>),
    wire("wline", <<PR(LINE, 690), PL(DMEM, 690)>>), wire("rline", <<PL(DMEM, 620), PR(LINE, 620)>>),
    Stub("scr_i", PL(SCR, 430), "left", 30), wire("ld", <<PB(LINE, 3120), At(3120, 510), PL(RMUX, 510)>>),
    wire("scrd", <<PR(SCR, 430), PL(RMUX, 430)>>), Stub("rm_s", Sel(RMUX, TRUE), "up", 24)>>
MemLabels ==
  <<Above(4, 2500, D(1100)), Above(4, 2945, D(1160)), Above(3, 3150, Out(LAM)[2]),
    StubText(PL(PMUX, 970), "left", 26, 4), StubText(Sel(PMUX, FALSE), "down", 26, 5), Above(4, 2945, D(990)),
    label(4, 1, Sel(LAM, FALSE)[1] + 10, D(1016), "mid", "west", 11), Above(3, 3448, D(1105)),
    StubText(PL(SDM, 680), "left", 26, 4), StubText(Sel(SDM, FALSE), "down", 26, 3), Above(4, 2945, D(770)),
    StubText(PL(SCR, 430), "left", 30, 9), StubText(Sel(RMUX, TRUE), "up", 24, 7)>>

(* Write-back, the register-file write ports, resume and stack update. *)
VWB == Mux("vwb", 3840, <<1180, 1130, 1080, 1030, 980>>, 70, 26)
FWB == Mux("fwb", 3840, <<400, 330, 270>>, 70, 28)
RES == Box("res", 3720, 1580, 220, 140)
ARB == Box("arb", 3820, 1270, 120, 80)
WbShapes == <<VWB, FWB, RES, ARB>>
WbWires ==
  <<wire("mul_o", <<At(3370, 1440), At(3800, 1440), At(3800, 1180), PL(VWB, 1180)>>),
    wire("wbv", <<Out(WBM), <<D(3770), Out(WBM)[2]>>, At(3770, 1130), PL(VWB, 1130)>>),
    wire("dot_o", <<At(3370, 1250), At(3740, 1250), At(3740, 1080), PL(VWB, 1080)>>),
    wire("mem_o", <<Out(RMUX), <<D(3660), Out(RMUX)[2]>>, At(3660, 1030), PL(VWB, 1030)>>),
    wire("mem_o", <<<<D(3660), Out(RMUX)[2]>>, At(3660, 400), PL(FWB, 400)>>),
    wire("fpc_o", <<PR(H_FPU, 800), At(2240, 800), At(2240, 330), PL(FWB, 330)>>),
    wire("fpc_o", <<At(3700, 330), At(3700, 980), PL(VWB, 980)>>),
    wire("sfu_o", <<PR(H_SFU, 470), At(2210, 470), At(2210, 270), PL(FWB, 270)>>), Stub("fwb_s", Sel(FWB, TRUE), "up", 24),
    wire("vrf_w", <<Out(VWB), <<D(3950), Out(VWB)[2]>>, At(3950, 180), At(1330, 180), At(1330, 1180), PL(VRF, 1180)>>),
    wire("frf_w", <<Out(FWB), <<D(3925), Out(FWB)[2]>>, At(3925, 215), At(1355, 215), At(1355, 640), PL(FRF, 640)>>),
    wire("vsel", <<B(ARB, Sel(VWB, TRUE)[1]), Sel(VWB, TRUE)>>), wire("wbfire", <<PT(ARB, 3880), PB(RES, 3880)>>),
    wire("stk_upd", <<PT(PUSH, 2455), At(2455, 2040), At(600, 2040), PT(STK, 600)>>),
    wire("resume", <<PT(RES, 3830), At(3830, 2075), At(480, 2075), PT(STK, 480)>>),
    wire("resume", <<At(480, 2075), At(120, 2075), PT(WST, 120)>>)>>
WbLabels ==
  <<Above(5, 2500, Out(WBM)[2]), Above(3, 3000, D(330)), Above(3, 3000, D(270)),
    label(5, 2, D(3916), Out(VWB)[2] + D(25), "south", "west", 11), label(5, 2, D(3834), FWB.bb[4] + 4, "south", "east", 11),
    StubText(Sel(FWB, TRUE), "up", 24, 4), Above(41, 2500, D(180)), Above(41, 2500, D(215)),
    label(9, 2, D(3885), D(1460), "mid", "west", 11), Above(34, 1600, D(2040)), Above(20, 3000, D(2075))>>
------------------------------------------------------------------------------
DatapathFig ==
  Fig(FetchShapes \o ExecShapes \o ControlShapes \o FpShapes \o MUL.shapes \o DOT.shapes \o MemShapes \o WbShapes,
      FetchWires \o ExecWires \o ControlWires \o FpWires \o RailWires \o MUL.wires \o DOT.wires
        \o MaskWires \o DataWires \o WbWires,
      FetchLabels \o ExecLabels \o ControlLabels \o FpLabels \o MUL.labels \o DOT.labels \o MemLabels \o WbLabels,
      <<>>)

(* The corridors taken out: between the stack update and the rails, then   *)
(* between the F/X register and the decoder.                               *)
DatapathCuts == <<<<Mm(262), -Mm(8)>>, <<Mm(100), -Mm(12)>>>>
=============================================================================
