-------------------------------- MODULE NesCpu --------------------------------
(***************************************************************************)
(* The NES's 6502 as Nes_Cpu::run() keeps it: zero and negative are in nz, *)
(* the result of some instruction in 16 bits; carry is bit 8 of c, which   *)
(* holds whatever had the carry there; only v, d and i are in status.  The *)
(* stack pointer is one above the real one, in page one.                   *)
(*                                                                         *)
(* Opcodes, minimum clocks and the fetch are left out: an instruction is a *)
(* name and an addressing mode.  No IRQ time is ever set for this CPU, so  *)
(* that the time is only the sum of clocks.                                *)
(***************************************************************************)
EXTENDS Integers, Sequences, Bitwise

CONSTANTS
    Operands,   \* what an instruction may find: the bytes after the opcode (lo,
                \* hi), the word it reads as a pointer (ptr), the byte at its
                \* address (val)
    Registers,  \* registers when run() is called: a, x, y, sp, pc, status
    MaxInstructions

VARIABLES
    r,        \* registers and encoded flags
    bus,      \* what the last instruction did (see Mos6502)
    executed  \* instructions so far, bounded by MaxInstructions

vars == <<r, bus, executed>>

Byte(n) == n % 256
Word(n) == n % 65536
st_v == 64
st_d == 8
st_i == 4
st_z == 2
st_c == 1

IS_NEG == (r.nz & 32896) # 0
Carry == (r.c \div 256) % 2   \* c >> 8 & 1
GET_SP == Byte(r.sp - 1)

CALC_STATUS == (((r.status & (st_v + st_d + st_i))
                | (((r.nz \div 256) | r.nz) & 128))
                | ((r.c \div 256) & st_c))
               | (IF Byte(r.nz) = 0 THEN st_z ELSE 0)

SET_STATUS(regs, in) ==
    LET nz == Word(in * 256)
    IN  [regs EXCEPT !.status = in & (st_v + st_d + st_i), !.c = nz,
                     !.nz = nz | ((255 - in) & st_z)]

SET_SP(v) == (v + 1) | 256

-----------------------------------------------------------------------------
(***************************************************************************)
(* Addressing modes.  `data' is the byte after the opcode, which indexing  *)
(* may take beyond a byte.                                                 *)
(***************************************************************************)
Reading == {"imm", "zp", "zpx", "abs", "absx", "absy", "indx", "indy"}

Data(mode, in) ==
    CASE mode = "zpx" -> Byte(in.lo + r.x)
      [] mode = "zpy" -> Byte(in.lo + r.y)
      [] mode = "absx" -> in.lo + r.x
      [] mode = "absy" -> in.lo + r.y
      [] mode = "indx" -> in.lo + r.x
      [] mode = "indy" -> Byte(in.ptr) + r.y
      [] OTHER -> in.lo

\* ADD_PAGE, IND_Y and IND_X.
EffectiveAddress(mode, in) ==
    CASE mode \in {"abs", "absx", "absy"} -> Word(Data(mode, in) + 256 * in.hi)
      [] mode = "indy" -> Word(Data(mode, in) + 256 * (in.ptr \div 256))
      [] mode = "indx" -> in.ptr
      [] mode \in {"zp", "zpx", "zpy"} -> Data(mode, in)
      [] OTHER -> -1
PointerAt(mode, in) ==
    CASE mode = "indx" -> <<Byte(Data(mode, in)), Byte(Data(mode, in) + 1)>>
      [] mode = "indy" -> <<in.lo, Byte(in.lo + 1)>>
      [] OTHER -> <<>>

HANDLE_PAGE_CROSSING(mode, in) ==
    IF mode \in {"absx", "absy", "indy"} THEN Data(mode, in) \div 256 ELSE 0

PcAfter(mode) == Word(r.pc + 1 + CASE mode = "imp" -> 0
                                   [] mode \in {"abs", "absx", "absy"} -> 2
                                   [] OTHER -> 1)

\* One instruction: the registers after it, the stores it made and its clocks.
Did(op, mode, in, next, out, extra, addr, at) ==
    /\ executed' = executed + 1
    /\ r' = next
    /\ bus' = [op |-> op, mode |-> mode, in |-> in, out |-> out,
               extra |-> extra, addr |-> addr, at |-> at]

Simple(op, next) ==
    Did(op, "imp", [lo |-> 0], [next EXCEPT !.pc = PcAfter("imp")], <<>>, 0, -1, <<>>)

\* An instruction that reads its operand.
Read(op, mode, in, next) ==
    Did(op, mode, in, [next EXCEPT !.pc = PcAfter(mode)], <<>>,
        HANDLE_PAGE_CROSSING(mode, in), EffectiveAddress(mode, in),
        PointerAt(mode, in))

\* One that writes it.
Write(op, mode, in, next, val) ==
    LET addr == EffectiveAddress(mode, in)
    IN  Did(op, mode, in, [next EXCEPT !.pc = PcAfter(mode)], <<<<addr, val>>>>,
            0, addr, PointerAt(mode, in))

-----------------------------------------------------------------------------
(***************************************************************************)
(* Loads and stores.                                                       *)
(***************************************************************************)
Lda == \E mode \in Reading : \E in \in Operands :
    Read("LDA", mode, in, [r EXCEPT !.a = in.val, !.nz = in.val])
Ldx == \E mode \in {"imm", "zp", "zpy", "abs", "absy"} : \E in \in Operands :
    Read("LDX", mode, in, [r EXCEPT !.x = in.val, !.nz = in.val])
Ldy == \E mode \in {"imm", "zp", "zpx", "abs", "absx"} : \E in \in Operands :
    Read("LDY", mode, in, [r EXCEPT !.y = in.val, !.nz = in.val])
Lax == \E in \in Operands :
    Read("LAX", "indy", in, [r EXCEPT !.a = in.val, !.x = in.val, !.nz = in.val])

Sta == \E mode \in Reading \ {"imm"} : \E in \in Operands :
    Write("STA", mode, in, r, r.a)
Stx == \E mode \in {"zp", "zpy", "abs"} : \E in \in Operands :
    Write("STX", mode, in, r, r.x)
Sty == \E mode \in {"zp", "zpx", "abs"} : \E in \in Operands :
    Write("STY", mode, in, r, r.y)
Sax == \E in \in Operands : Write("SAX", "abs", in, r, r.a & r.x)

Transfer ==
    \/ Simple("TAX", [r EXCEPT !.x = r.a, !.nz = r.a])
    \/ Simple("TXA", [r EXCEPT !.a = r.x, !.nz = r.x])
    \/ Simple("TAY", [r EXCEPT !.y = r.a, !.nz = r.a])
    \/ Simple("TYA", [r EXCEPT !.a = r.y, !.nz = r.y])
    \/ Simple("TSX", [r EXCEPT !.x = GET_SP, !.nz = GET_SP])
    \/ Simple("TXS", [r EXCEPT !.sp = SET_SP(r.x)])

-----------------------------------------------------------------------------
(***************************************************************************)
(* Arithmetic.                                                             *)
(***************************************************************************)
Logic(op, mode, in) ==
    LET a == CASE op = "AND" -> r.a & in.val
               [] op = "EOR" -> r.a ^^ in.val
               [] op = "ORA" -> r.a | in.val
    IN  Read(op, mode, in, [r EXCEPT !.a = a, !.nz = a])

\* Bit 8 of the biased sum is set when it is not a signed byte.
Adc(op, mode, in) ==
    LET data == IF op = "SBC" THEN in.val ^^ 255 ELSE in.val
        ov   == (r.a ^^ 128) + Carry + IF data > 127 THEN data - 256 ELSE data
        nz   == r.a + data + Carry
    IN  Read(op, mode, in,
             [r EXCEPT !.status = (@ & (st_d + st_i)) | (((Word(ov) \div 4)) & st_v),
                       !.c = nz, !.nz = nz, !.a = Byte(nz)])

Compare(regs, left, m) ==
    LET nz == Word(left - m)
    IN  [regs EXCEPT !.c = 65535 - nz, !.nz = Byte(nz)]
Cmp == \E mode \in Reading : \E in \in Operands :
    Read("CMP", mode, in, Compare(r, r.a, in.val))
CpxCpy == \E mode \in {"imm", "zp", "abs"} : \E in \in Operands :
    \/ Read("CPX", mode, in, Compare(r, r.x, in.val))
    \/ Read("CPY", mode, in, Compare(r, r.y, in.val))
Sbx == \E in \in Operands :
    Read("SBX", "imm", in,
         [Compare(r, r.a & r.x, in.val) EXCEPT !.x = Byte((r.a & r.x) - in.val)])

Arith == \E mode \in Reading : \E in \in Operands :
    \/ \E op \in {"AND", "EOR", "ORA"} : Logic(op, mode, in)
    \/ \E op \in {"ADC", "SBC"} : Adc(op, mode, in)

\* n and v are bits of the operand; when the result is zero but n is set, the
\* operand is moved to the high byte of nz.
BitNz_faulty(val) == val \* mutant: left where it is
BitNz(val) == IF (r.a & val) # 0 THEN val ELSE val * 256
BitTest == \E mode \in {"zp", "abs"} : \E in \in Operands :
    Read("BIT", mode, in,
         [r EXCEPT !.status = (@ & (st_d + st_i)) | (in.val & st_v),
                   !.nz = BitNz(in.val)])

\* Shift right and left; LSR and ASL are ROR and ROL after c = 0.
Ror(c, m) == [nz |-> ((c \div 2) & 128) | (m \div 2), c |-> m * 256]
Rol(c, m) == [nz |-> (2 * m) | ((c \div 256) % 2), c |-> 2 * m]
Shift(op, m) ==
    CASE op = "ROR" -> Ror(r.c, m)
      [] op = "LSR" -> Ror(0, m)
      [] op = "ROL" -> Rol(r.c, m)
      [] op = "ASL" -> Rol(0, m)
      [] op = "INC" -> [nz |-> 1 + m, c |-> r.c]
      [] op = "DEC" -> [nz |-> Word(65535 + m), c |-> r.c]

Modify ==
    \E op \in {"ROR", "LSR", "ROL", "ASL", "INC", "DEC"} :
    \E mode \in {"zp", "zpx", "abs", "absx"} : \E in \in Operands :
        LET s == Shift(op, in.val)
        IN  Write(op, mode, in, [r EXCEPT !.nz = s.nz, !.c = s.c], Byte(s.nz))
ModifyA ==
    \E op \in {"ROR", "LSR", "ROL", "ASL"} :
        LET s == Shift(op, r.a)
        IN  Simple(op, [r EXCEPT !.nz = s.nz, !.c = s.c, !.a = Byte(s.nz)])

INC_DEC_XY(op, name, n) ==
    Simple(op, [r EXCEPT ![name] = Byte(@ + n), !.nz = Word(r[name] + n)])
IncDec == \/ INC_DEC_XY("INX", "x", 1) \/ INC_DEC_XY("DEX", "x", -1)
          \/ INC_DEC_XY("INY", "y", 1) \/ INC_DEC_XY("DEY", "y", -1)

Flags ==
    \/ Simple("SEC", [r EXCEPT !.c = 65535])
    \/ Simple("CLC", [r EXCEPT !.c = 0])
    \/ Simple("CLV", [r EXCEPT !.status = @ & (st_d + st_i)])
    \/ Simple("CLD", [r EXCEPT !.status = @ & (st_v + st_i)])
    \/ Simple("SED", [r EXCEPT !.status = @ | st_d])
    \/ Simple("CLI", [r EXCEPT !.status = @ & (st_v + st_d)])
    \/ Simple("SEI", [r EXCEPT !.status = @ | st_i])

\* NOP and the unofficial instructions that skip a byte or a word.
Skips == \E mode \in {"imp", "imm", "abs", "absx"} : \E in \in Operands :
    Did("NOP", mode, in, [r EXCEPT !.pc = PcAfter(mode)], <<>>,
        HANDLE_PAGE_CROSSING(mode, in),
        IF mode \in {"abs", "absx"} THEN EffectiveAddress(mode, in) ELSE -1, <<>>)

-----------------------------------------------------------------------------
(***************************************************************************)
(* Branches, calls and the stack.                                          *)
(***************************************************************************)
Jumped(op, in, next, pc, out, at) ==
    Did(op, "imp", in, [next EXCEPT !.pc = pc], out, 0, -1, at)

BRANCH(op, cond) ==
    \E in \in Operands :
        LET offset == IF in.lo > 127 THEN in.lo - 256 ELSE in.lo
            pc     == Word(r.pc + 2)
            extra  == (Word(Byte(pc) + offset) \div 256) % 2
        IN  Did(op, "rel", in,
                [r EXCEPT !.pc = IF cond THEN Word(pc + offset) ELSE pc],
                <<>>, IF cond THEN extra ELSE -1, -1, <<>>)

Branches ==
    \/ BRANCH("BNE", Byte(r.nz) # 0) \/ BRANCH("BEQ", Byte(r.nz) = 0)
    \/ BRANCH("BPL", ~IS_NEG) \/ BRANCH("BMI", IS_NEG)
    \/ BRANCH("BVC", (r.status & st_v) = 0) \/ BRANCH("BVS", (r.status & st_v) # 0)
    \/ BRANCH("BCS", Carry = 1) \/ BRANCH("BCC", Carry = 0)

GET_ADDR(in) == in.lo + 256 * in.hi

Jmp == \E in \in Operands :
    \/ Jumped("JMP", in, r, GET_ADDR(in), <<>>, <<>>)
    \/ Jumped("JMPI", in, r, in.ptr, <<>>,
              <<GET_ADDR(in), (GET_ADDR(in) - in.lo) | Byte(GET_ADDR(in) + 1)>>)

Jsr == \E in \in Operands :
    LET temp == Word(r.pc + 1 + 1)
        sp   == (r.sp - 2) | 256
    IN  Jumped("JSR", in, [r EXCEPT !.sp = sp], GET_ADDR(in),
               <<<<256 | (r.sp - 1), temp \div 256>>, <<sp, Byte(temp)>>>>, <<>>)

\* Where the stack pointer is after n bytes were pulled.
Pulled(n) == (r.sp - (256 - n)) | 256

Rts == \E in \in Operands :
    Jumped("RTS", in, [r EXCEPT !.sp = Pulled(2)], Word(1 + in.ptr), <<>>,
           <<r.sp, Pulled(1)>>)

Rti == \E in \in Operands :
    Jumped("RTI", in, SET_STATUS([r EXCEPT !.sp = Pulled(3)], in.val), in.ptr, <<>>,
           <<r.sp, Pulled(1), Pulled(2)>>)

PUSH(op, v) ==
    LET sp == (r.sp - 1) | 256
    IN  Jumped(op, [lo |-> 0], [r EXCEPT !.sp = sp], Word(r.pc + 1), <<<<sp, v>>>>, <<>>)

Stack ==
    \/ PUSH("PHA", r.a)
    \/ PUSH("PHP", CALC_STATUS | 48)
    \/ \E in \in Operands :
          \/ Jumped("PLA", in, [r EXCEPT !.a = in.val, !.nz = in.val, !.sp = Pulled(1)],
                    Word(r.pc + 1), <<>>, <<r.sp>>)
          \/ Jumped("PLP", in, SET_STATUS([r EXCEPT !.sp = Pulled(1)], in.val),
                    Word(r.pc + 1), <<>>, <<r.sp>>)

\* BRK: handle_brk and interrupt, with result_ 4.
Interrupt == \E in \in Operands :
    LET pc == Word(r.pc + 2)
        sp == (r.sp - 3) | 256
    IN  Jumped("BRK", in, [r EXCEPT !.sp = sp, !.status = @ | st_i], in.ptr,
               <<<<256 | (r.sp - 1), pc \div 256>>, <<256 | (r.sp - 2), Byte(pc)>>,
                 <<sp, CALC_STATUS | 48>>>>, <<>>)

\* run() returns and is called again.
Rerun == Did("run", "imp", [lo |-> 0],
             SET_STATUS([r EXCEPT !.sp = SET_SP(GET_SP)], CALC_STATUS),
             <<>>, 0, -1, <<>>)

-----------------------------------------------------------------------------
Init ==
    /\ \E s \in Registers :
         r = SET_STATUS([a |-> s.a, x |-> s.x, y |-> s.y, sp |-> SET_SP(s.sp),
                         pc |-> s.pc, status |-> 0, c |-> 0, nz |-> 0], s.status)
    /\ bus = [op |-> "run"]
    /\ executed = 0

Instruction ==
    \/ Lda \/ Ldx \/ Ldy \/ Lax \/ Sta \/ Stx \/ Sty \/ Sax \/ Transfer
    \/ Arith \/ Cmp \/ CpxCpy \/ Sbx \/ BitTest \/ Modify \/ ModifyA \/ IncDec
    \/ Flags \/ Skips
    \/ Branches \/ Jmp \/ Jsr \/ Rts \/ Rti \/ Stack \/ Interrupt \/ Rerun

Next == executed < MaxInstructions /\ Instruction


-----------------------------------------------------------------------------
(***************************************************************************)
(* Properties                                                              *)
(***************************************************************************)

\* The checks of the loop: registers are bytes, encodings 16 bits, and the
\* stack pointer stays in page one.
TypeOK ==
    /\ {r.a, r.x, r.y} \subseteq 0..255
    /\ r.sp \in 256..511 /\ r.pc \in 0..65535
    /\ r.status & (st_v + st_d + st_i) = r.status
    /\ r.c \in 0..65535 /\ r.nz \in 0..65535

Decoded == [a |-> r.a, x |-> r.x, y |-> r.y, s |-> GET_SP, pc |-> r.pc,
            n |-> IS_NEG, z |-> Byte(r.nz) = 0, c |-> Carry = 1,
            v |-> (r.status & st_v) # 0, d |-> (r.status & st_d) # 0,
            i |-> (r.status & st_i) # 0]


Arch == INSTANCE Mos6502 WITH reg <- Decoded, PageClock <- 1, NotTaken <- -1,
                              Unused <- 32, BreakClearsD <- FALSE

\* Whatever instructions left in nz, c and sp, the next one does what the
\* processor would: every branch, pushed status, address and store is right.
Implements6502 == [Arch!Next]_<<Decoded, bus>>
=============================================================================
