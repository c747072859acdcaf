-------------------------------- MODULE HesCpu --------------------------------
(***************************************************************************)
(* The PC Engine's CPU as Hes_Cpu::run() computes it: the registers and    *)
(* flags of Nes_Cpu, whose macros it shares, with every integer as wide as *)
(* the machine's.  Only the lower 16 bits of c and nz are ever looked at;  *)
(* pc and addresses are not cut to them.  Time, the interrupt flag's       *)
(* effect on it and interrupts are in HesIrq.                              *)
(***************************************************************************)
EXTENDS NesCpu, TLC

idle_addr == 8191   \* 0x1FFF
ram_addr == 8192

Modes == Reading \cup {"ind"}   \* those of arithmetic

HesAddress(mode, in) ==
    CASE mode \in {"abs", "absx", "absy"} -> Data(mode, in) + 256 * in.hi
      [] mode = "indy" -> in.ptr + r.y
      [] mode \in {"indx", "ind"} -> in.ptr
      [] mode \in {"zp", "zpx", "zpy"} -> Data(mode, in)
      [] OTHER -> -1
HesPointer(mode, in) == IF mode = "ind" THEN <<in.lo, Byte(in.lo + 1)>>
                        ELSE PointerAt(mode, in)
HesPc(mode) == r.pc + CASE mode = "imp" -> 1 [] mode \in {"abs", "absx", "absy"} -> 3
                        [] OTHER -> 2

\* pc is at an instruction of the 64K.
HesDid(op, mode, in, next, pc, out, extra, addr, at) ==
    /\ r.pc < 65536
    /\ Did(op, mode, in, [next EXCEPT !.pc = pc], out, extra, addr, at)
Reads(op, mode, in, next) ==
    HesDid(op, mode, in, next, HesPc(mode), <<>>, 0, HesAddress(mode, in),
           HesPointer(mode, in))
Writes(op, mode, in, next, val) ==
    HesDid(op, mode, in, next, HesPc(mode), <<<<HesAddress(mode, in), val>>>>, 0,
           HesAddress(mode, in), HesPointer(mode, in))
Implied(op, next) == HesDid(op, "imp", [lo |-> 0], next, r.pc + 1, <<>>, 0, -1, <<>>)
Goes(op, in, next, pc, out, at) == HesDid(op, "imp", in, next, pc, out, 0, -1, at)

-----------------------------------------------------------------------------
(***************************************************************************)
(* Loads, stores and bits.                                                 *)
(***************************************************************************)
HesLoad == \E in \in Operands :
    \/ \E mode \in Modes : Reads("LDA", mode, in, [r EXCEPT !.a = in.val, !.nz = in.val])
    \/ \E mode \in {"imm", "zp", "zpy", "abs", "absy"} :
         Reads("LDX", mode, in, [r EXCEPT !.x = in.val, !.nz = in.val])
    \/ \E mode \in {"imm", "zp", "zpx", "abs", "absx"} :
         Reads("LDY", mode, in, [r EXCEPT !.y = in.val, !.nz = in.val])
StoreAcc == \E mode \in Modes \ {"imm"}, in \in Operands : Writes("STA", mode, in, r, r.a)
HesStore == \E in \in Operands :
    \/ \E mode \in {"zp", "zpx", "abs", "absx"} : Writes("STZ", mode, in, r, 0)
    \/ \E mode \in {"zp", "zpy", "abs"} : Writes("STX", mode, in, r, r.x)
    \/ \E mode \in {"zp", "zpx", "abs"} : Writes("STY", mode, in, r, r.y)

\* As BitNz, with any mask.
MaskedNz(mask, val) == IF (mask & val) # 0 THEN val ELSE val * 256
HesBit == \E mode \in {"imm", "zp", "zpx", "abs", "absx"}, in \in Operands :
    Reads("BIT", mode, in, [r EXCEPT !.status = (@ & (st_d + st_i)) | (in.val & st_v),
                                     !.nz = MaskedNz(r.a, in.val)])
Tst == \E mode \in {"zp", "zpx", "abs", "absx"}, in \in Operands :
    LET wide == mode \in {"abs", "absx"}
        at   == in.hi + (IF mode \in {"zpx", "absx"} THEN r.x ELSE 0)
    IN  HesDid("TST", mode, in,
               [r EXCEPT !.status = (@ & (st_d + st_i)) | (in.val & st_v),
                         !.nz = MaskedNz(in.lo, in.val)],
               r.pc + IF wide THEN 4 ELSE 3, <<>>, 0,
               IF wide THEN at + 256 * in.third ELSE Byte(at), <<>>)
TsbTrb == \E mode \in {"zp", "abs"}, in \in Operands :
    LET addr == IF mode = "zp" THEN in.lo + ram_addr ELSE GET_ADDR(in)
        Does(op, nz) == HesDid(op, mode, in,
                               [r EXCEPT !.nz = nz,
                                         !.status = (@ & (st_d + st_i)) | (nz & st_v)],
                               HesPc(mode), <<<<addr, nz>>>>, 0, addr, <<>>)
    IN  \/ Does("TSB", r.a | in.val)
        \/ Does("TRB", (r.a | in.val) ^^ r.a)
RmbSmb == \E in \in Operands :
    \/ Writes("RMB", "zp", in, r, in.val & (255 - 2^in.bit))
    \/ Writes("SMB", "zp", in, r, in.val | (2^in.bit))

-----------------------------------------------------------------------------
(***************************************************************************)
(* Arithmetic.                                                             *)
(***************************************************************************)
HesCompare == \E in \in Operands :
    \/ \E mode \in {"imm", "zp", "abs"} :
         \/ Reads("CPX", mode, in, Compare(r, r.x, in.val))
         \/ Reads("CPY", mode, in, Compare(r, r.y, in.val))
HesLogical == \E mode \in Modes, in \in Operands :
    \/ Reads("CMP", mode, in, Compare(r, r.a, in.val))
    \/ LET and == r.a & in.val  eor == r.a ^^ in.val  ora == r.a | in.val
       IN  \/ Reads("AND", mode, in, [r EXCEPT !.a = and, !.nz = and])
           \/ Reads("EOR", mode, in, [r EXCEPT !.a = eor, !.nz = eor])
           \/ Reads("ORA", mode, in, [r EXCEPT !.a = ora, !.nz = ora])
\* Decimal mode is not supported.
HesAdc == \E mode \in Modes, in \in Operands :
    \E f \in {<<"SBC", in.val ^^ 255>>, <<"ADC", in.val>>} :
        LET ov == (r.a ^^ 128) + Carry + IF f[2] > 127 THEN f[2] - 256 ELSE f[2]
            nz == r.a + f[2] + Carry
        IN  Reads(f[1], mode, in,
                  [r EXCEPT !.status = (@ & (st_d + st_i)) | ((Word(ov) \div 4) & st_v),
                            !.c = nz, !.nz = nz, !.a = Byte(nz)])

HesShift ==
    \/ \E op \in {"ROR", "LSR", "ROL", "ASL"} :
         LET s == Shift(op, r.a)
         IN  Implied(op, [r EXCEPT !.nz = s.nz, !.c = s.c, !.a = Byte(s.nz)])
    \/ \E op \in {"ROR", "LSR", "ROL", "ASL"}, mode \in {"zp", "zpx", "abs", "absx"},
          in \in Operands :
         LET s == Shift(op, in.val)
         IN  Writes(op, mode, in, [r EXCEPT !.nz = s.nz, !.c = s.c], Byte(s.nz))
HesIncDec ==
    \/ \E f \in {<<"INC", "a", 1>>, <<"INX", "x", 1>>, <<"INY", "y", 1>>,
                 <<"DEC", "a", -1>>, <<"DEX", "x", -1>>, <<"DEY", "y", -1>>} :
         Implied(f[1], [r EXCEPT ![f[2]] = Byte(@ + f[3]), !.nz = Word(r[f[2]] + f[3])])
    \/ \E mode \in {"zp", "zpx", "abs", "absx"}, in \in Operands :
         \/ Writes("INC", mode, in, [r EXCEPT !.nz = 1 + in.val], Byte(1 + in.val))
         \/ Writes("DEC", mode, in, [r EXCEPT !.nz = Word(in.val - 1)], Byte(in.val - 1))

HesTransfer ==
    \/ \E f \in {<<"TAX", "a", "x">>, <<"TXA", "x", "a">>, <<"TAY", "a", "y">>,
                 <<"TYA", "y", "a">>} :
         Implied(f[1], [r EXCEPT ![f[3]] = r[f[2]], !.nz = r[f[2]]])
    \/ Implied("TSX", [r EXCEPT !.x = GET_SP, !.nz = GET_SP])
    \/ Implied("TXS", [r EXCEPT !.sp = SET_SP(r.x)])
    \/ \E f \in {<<"SWXY", "x", "y">>, <<"SWAX", "a", "x">>, <<"SWAY", "a", "y">>} :
         Implied(f[1], [r EXCEPT ![f[2]] = r[f[3]], ![f[3]] = r[f[2]]])
    \/ \E f \in {<<"CLA", "a">>, <<"CLX", "x">>, <<"CLY", "y">>} :
         Implied(f[1], [r EXCEPT ![f[2]] = 0])

HesFlags ==
    \/ Implied("SEC", [r EXCEPT !.c = 65535]) \/ Implied("CLC", [r EXCEPT !.c = 0])
    \/ Implied("CLV", [r EXCEPT !.status = @ & (st_d + st_i)])
    \/ Implied("CLD", [r EXCEPT !.status = @ & (st_v + st_i)])
    \/ Implied("SED", [r EXCEPT !.status = @ | st_d])
    \/ Implied("CLI", [r EXCEPT !.status = @ & (st_v + st_d)])
    \/ Implied("SEI", [r EXCEPT !.status = @ | st_i])

-----------------------------------------------------------------------------
(***************************************************************************)
(* Flow and stack.                                                         *)
(***************************************************************************)
HesBranch(op, mode, in, next, past, data, cond, out, addr) ==
    HesDid(op, mode, in, next,
           IF cond THEN Word(past + IF data > 127 THEN data - 256 ELSE data) ELSE past,
           out, IF cond THEN 0 ELSE -2, addr, <<>>)
HesBranches == \E in \in Operands :
    \E f \in {<<"BNE", Byte(r.nz) # 0>>, <<"BEQ", Byte(r.nz) = 0>>, <<"BPL", ~IS_NEG>>,
              <<"BMI", IS_NEG>>, <<"BVC", (r.status & st_v) = 0>>,
              <<"BVS", (r.status & st_v) # 0>>, <<"BCS", Carry = 1>>, <<"BCC", Carry = 0>>,
              <<"BRA", TRUE>>} :
        HesBranch(f[1], "rel", in, r, r.pc + 2, in.lo, f[2], <<>>, -1)
\* Bit n of the byte's complement, or n + 8 of the byte in the high half.
\* BBS7 (0xFF) at idle_addr is the end of a routine.
BranchBits == \E in \in Operands :
    LET t == (257 * in.val) ^^ 255
    IN  \/ HesBranch("BBR", "zp", in, r, r.pc + 3, in.hi, (t & (2^in.bit)) # 0, <<>>, in.lo)
        \/ /\ ~(in.bit = 7 /\ r.pc = idle_addr)
           /\ HesBranch("BBS", "zp", in, r, r.pc + 3, in.hi, (t & (2^(in.bit + 8))) # 0,
                        <<>>, in.lo)
HesJmp == \E in \in Operands :
    \/ Goes("JMP", in, r, GET_ADDR(in), <<>>, <<>>)
    \/ Goes("JMPP", in, r, in.ptr, <<>>, <<GET_ADDR(in), GET_ADDR(in) + 1>>)
    \/ Goes("JMPX", in, r, in.ptr, <<>>, <<GET_ADDR(in) + r.x, GET_ADDR(in) + r.x + 1>>)
HesCall == \E in \in Operands :
    LET sp == (r.sp - 2) | 256
        Return(temp) == <<<<256 | (r.sp - 1), Byte(temp \div 256)>>, <<sp, Byte(temp)>>>>
    IN  \/ Goes("JSR", in, [r EXCEPT !.sp = sp], GET_ADDR(in), Return(r.pc + 2), <<>>)
        \/ HesBranch("BSR", "imp", in, [r EXCEPT !.sp = sp], r.pc + 2, in.lo, TRUE,
                     Return(r.pc + 1), -1)
HesRts == \E in \in Operands :
    Goes("RTS", in, [r EXCEPT !.sp = Pulled(2)], in.ptr + 1, <<>>, <<r.sp, Pulled(1)>>)
HesBrk == \E in \in Operands :
    LET pc == r.pc + 2
        sp == (r.sp - 3) | 256
    IN  Goes("BRK", in, [r EXCEPT !.sp = sp, !.status = (@ & st_v) | st_i], in.ptr,
             <<<<256 | (r.sp - 1), Byte(pc \div 256)>>, <<256 | (r.sp - 2), Byte(pc)>>,
               <<sp, CALC_STATUS | 16>>>>, <<>>)
HesStack == \E in \in Operands :
    \/ \E f \in {<<"PHA", r.a>>, <<"PHX", r.x>>, <<"PHY", r.y>>, <<"PHP", CALC_STATUS | 16>>} :
         LET sp == (r.sp - 1) | 256
         IN  Goes(f[1], in, [r EXCEPT !.sp = sp], r.pc + 1, <<<<sp, f[2]>>>>, <<>>)
    \/ \E f \in {<<"PLA", "a">>, <<"PLX", "x">>, <<"PLY", "y">>} :
         Goes(f[1], in, [r EXCEPT ![f[2]] = in.val, !.nz = in.val, !.sp = Pulled(1)],
              r.pc + 1, <<>>, <<r.sp>>)
    \/ Goes("PLP", in, SET_STATUS([r EXCEPT !.sp = Pulled(1)], in.val), r.pc + 1, <<>>,
            <<r.sp>>)
    \/ Goes("RTI", in, SET_STATUS([r EXCEPT !.sp = Pulled(3)], in.val), in.ptr, <<>>,
            <<r.sp, Pulled(1), Pulled(2)>>)

\* TAM, TMA, ST0 to ST2, and CSH and NOP.
HesSpecial == \E in \in Operands :
    \/ Reads("TAM", "imm", in,
             [r EXCEPT !.mmr = [k \in 0..7 |-> IF (in.lo & (2^k)) # 0 THEN r.a ELSE @[k]]])
    \/ LET set == {k \in 0..7 : (in.lo & (2^k)) # 0}
       IN  Reads("TMA", "imm", in,
                 [r EXCEPT !.a = IF set = {} THEN @
                                 ELSE r.mmr[CHOOSE k \in set : \A n \in set : n <= k]])
    \/ \E f \in {<<"ST0", 0>>, <<"ST1", 2>>, <<"ST2", 3>>} :
         HesDid(f[1], "imm", in, r, HesPc("imm"), <<<<"vdp", f[2], in.lo>>>>, 0, -1, <<>>)
    \/ Implied("NOP", r)

\* The loop of a block transfer: how often each address was moved, and where.
Increments(op) ==
    CASE op = "TII" -> [in_inc |-> 1, out_inc |-> 1, in_alt |-> 0, out_alt |-> 0]
      [] op = "TDD" -> [in_inc |-> -1, out_inc |-> -1, in_alt |-> 0, out_alt |-> 0]
      [] op = "TIN" -> [in_inc |-> 1, out_inc |-> 0, in_alt |-> 0, out_alt |-> 0]
      [] op = "TIA" -> [in_inc |-> 1, out_inc |-> 0, in_alt |-> 0, out_alt |-> 1]
      [] op = "TAI" -> [in_inc |-> 0, out_inc |-> 1, in_alt |-> 1, out_alt |-> 0]
Walked(from, inc, alt, k) == \* alternating: inc, -inc, inc, ...
    Word(from + IF alt = 1 THEN inc * (k % 2) ELSE inc * k)
BlockTransfer == \E op \in {"TII", "TDD", "TIN", "TIA", "TAI"}, in \in Operands :
    LET i     == Increments(op)
        count == IF in.count = 0 THEN 65536 ELSE in.count
    IN  HesDid(op, "imp", in, r, r.pc + 7,
               <<<<256 | (r.sp - 1), r.y>>, <<256 | (r.sp - 2), r.a>>, <<256 | (r.sp - 3), r.x>>>>
               \o [k \in 1..count |-> <<Walked(in.to, i.out_inc, i.out_alt, k - 1), in.val>>],
               6 * count, -1,
               [k \in 1..count |-> Walked(in.from, i.in_inc, i.in_alt, k - 1)])

-----------------------------------------------------------------------------
HesInit ==
    /\ \E s \in Registers :
         r = SET_STATUS([a |-> s.a, x |-> s.x, y |-> s.y, sp |-> SET_SP(s.sp), pc |-> s.pc,
                         status |-> 0, c |-> 0, nz |-> 0, mmr |-> s.mmr], s.status)
    /\ bus = [op |-> "run"]
    /\ executed = 0

HesInstruction ==
    \/ HesLoad \/ StoreAcc \/ HesStore \/ HesBit \/ Tst \/ TsbTrb \/ RmbSmb \/ HesCompare
    \/ HesLogical \/ HesAdc \/ HesShift \/ HesIncDec \/ HesTransfer \/ HesFlags
    \/ HesBranches \/ BranchBits \/ HesJmp \/ HesCall \/ HesRts \/ HesBrk \/ HesStack
    \/ HesSpecial \/ BlockTransfer \/ Rerun
HesNext == executed < MaxInstructions /\ HesInstruction

HesDecoded == [Decoded EXCEPT !.pc = Word(@)] @@ [mmr |-> r.mmr]
PcEngine == INSTANCE HuC6280 WITH reg <- HesDecoded, PageClock <- 0, NotTaken <- -2,
                                  Unused <- 0, BreakClearsD <- TRUE

\* Every instruction does what the processor's does, for operands that do not
\* reach past the last address, but for the two alternating block transfers.
HesImplementsHuC6280 ==
    bus'.op \in {"TIA", "TAI"} \/ [PcEngine!HuCNext]_<<HesDecoded, bus>>

\* TIA and TAI also do: one of their addresses alternates.
HesAlternates == [PcEngine!HuCNext]_<<HesDecoded, bus>>
=============================================================================
