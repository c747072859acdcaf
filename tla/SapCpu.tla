-------------------------------- MODULE SapCpu --------------------------------
(***************************************************************************)
(* The Atari's 6502: Sap_Cpu.cpp has the text of Nes_Cpu.cpp, in another   *)
(* order and without most unofficial instructions.  It differs in BRK,     *)
(* which is also how a routine's end is noticed.                           *)
(***************************************************************************)
EXTENDS NesCpu

idle_addr == 65279

OftenUsed == Branches \/ Jsr \/ Rts
StoreA == Sta
LoadA == Lda
LoadStore == Ldx \/ Ldy \/ Stx \/ Sty
CompareXY == CpxCpy
Logical == Cmp \/ BitTest
AddSubtract == Arith
ShiftRotate == Modify \/ ModifyA
Transfers == Transfer \/ IncDec
StackJump == Stack \/ Rti \/ Jmp
SkipBytes == Skips

\* BRK, the end of a routine from idle_addr on.  It also ends decimal mode.
Brk ==
    /\ r.pc < idle_addr
    /\ \E in \in Operands :
        LET pc == Word(r.pc + 2)
            sp == (r.sp - 3) | 256
        IN  Jumped("BRK", in, [r EXCEPT !.sp = sp, !.status = (@ & st_v) | st_i], in.ptr,
                   <<<<256 | (r.sp - 1), pc \div 256>>, <<256 | (r.sp - 2), Byte(pc)>>,
                     <<sp, CALC_STATUS | 48>>>>, <<>>)
IdleDone == r.pc >= idle_addr /\ Rerun

SapInstruction ==
    \/ OftenUsed \/ StoreA \/ LoadA \/ LoadStore \/ CompareXY \/ Logical \/ AddSubtract
    \/ ShiftRotate \/ Transfers \/ StackJump \/ Flags \/ SkipBytes \/ Brk \/ IdleDone
SapNext == executed < MaxInstructions /\ SapInstruction

Atari == INSTANCE Mos6502 WITH reg <- Decoded, PageClock <- 1, NotTaken <- -1,
                               Unused <- 32, BreakClearsD <- TRUE

\* Whatever instructions left in nz, c and sp, the next one does what the
\* processor would, but for BRK, which does what a later 6502's does.
SapImplements6502 == [Atari!Next]_<<Decoded, bus>>
=============================================================================
