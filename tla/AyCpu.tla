--------------------------------- MODULE AyCpu ---------------------------------
(***************************************************************************)
(* The Spectrum's and Amstrad's Z80: Ay_Cpu.cpp has the text of            *)
(* Kss_Cpu.cpp with 16 bits where that has more, one flat memory and no    *)
(* use for RST 38 as a program's end (its test for it can never hold in 16 *)
(* bits).  Kss_Cpu's actions with Wide = FALSE are grouped as its switch   *)
(* is; an instruction with a prefix is the one without on other operands.  *)
(***************************************************************************)
EXTENDS KssCpu

Common == LoadA \/ Exchange
Relative == JumpsRelative
JumpCallReturn == Jumps \/ Rst
PushAndPop == PushPop
AddSubtract == Adc
Compare == Cp
AddWords == Add16 \/ Daa
IncrementDecrement == IncDec \/ IncDec16
AndOrXor == Logic
Load == LoadR \/ StoreR \/ StoreImm \/ Load16 \/ LoadSP
RotateAcc == RotateA
Misc == Complement \/ ExchangeSP \/ Halt
CBRotates == Rotate
CBBits == BitTest \/ SetRes
EDArithmetic == Adc16 \/ Neg \/ Digits
EDBlocks == CPI \/ LDI \/ BlockPorts
EDPorts == Ports \/ Return \/ Special
IndexHalves == LoadHalf
IndexJumps == JumpTo

AyInstruction ==
    \/ Common \/ Relative \/ JumpCallReturn \/ PushAndPop \/ AddSubtract \/ Compare
    \/ AddWords \/ IncrementDecrement \/ AndOrXor \/ Load \/ RotateAcc \/ Misc
    \/ CBRotates \/ CBBits \/ EDArithmetic \/ EDBlocks \/ EDPorts
    \/ IndexHalves \/ IndexJumps
AyNext == executed < MaxInstructions /\ AyInstruction
=============================================================================
