-------------------------------- MODULE SpcCpu --------------------------------
(***************************************************************************)
(* The SPC-700 as Spc_Cpu.h computes it: zero and negative are in nz, the  *)
(* result of some instruction; carry is bit 8 of c, whatever had the carry *)
(* there; the direct page flag is its address, dp; only v, b, h and i are  *)
(* up to date in psw.  The code is included in Snes_Spc::run_until_().     *)
(*                                                                         *)
(* An access to memory happens some clocks before the end of its           *)
(* instruction.  Opcodes and the table of clocks are left out: an          *)
(* instruction is a name and an addressing mode.                           *)
(***************************************************************************)
EXTENDS Integers, Sequences, Bitwise

CONSTANTS
    Operands,   \* lo, hi: the bytes after the opcode; ptr: the word a pointer
                \* or the stack gives; val, val2: the bytes read, in order;
                \* rel: the branch's; bit: a bit's number
    Registers,  \* registers when run_until_() is called
    MaxInstructions

VARIABLES r, bus, executed
vars == <<r, bus, executed>>

v40 == 64
p20 == 32
b10 == 16
h08 == 8
i04 == 4
z02 == 2
c01 == 1
nz_neg_mask == 2176

Byte(n) == n % 256
Word(n) == n % 65536
Signed(b) == IF b > 127 THEN b - 256 ELSE b
Inverted(n) == 65535 - Word(n)
CarryIn == (r.c \div 256) % 2   \* c >> 8 & 1

GET_PSW == (((r.psw & (((v40 | b10) | h08) | i04)) | CarryIn)
            | ((r.dp \div 8) & p20))
           | ((((r.nz \div 16) | r.nz) & 128) | (IF Byte(r.nz) = 0 THEN z02 ELSE 0))
SET_PSW(regs, in) ==
    [regs EXCEPT !.psw = in, !.c = in * 256, !.dp = (in * 8) & 256,
                 !.nz = ((in * 16) & 2048) | ((255 - in) & z02)]

READ(t, addr) == <<Word(addr), -1, t>>
WRITE(t, addr, val) == <<Word(addr), Byte(val), t>>
DP_ADDR(addr) == r.dp + addr
READ_PC16(in) == in.lo + 256 * in.hi

\* One instruction: what it was, the registers after it, its accesses, pushes
\* and pulls, pointers, and clocks taken back.
Did(op, mode, in, next, pc, acc, stack, ptr, less) ==
    /\ executed' = executed + 1
    /\ r' = [next EXCEPT !.pc = Word(pc)]
    /\ bus' = [op |-> op, mode |-> mode, in |-> in, acc |-> acc, stack |-> stack,
               ptr |-> ptr, less |-> less]
Does(op, mode, in, next, pc, acc) == Did(op, mode, in, next, pc, acc, <<>>, <<>>, 0)
Simple(op, next) == Does(op, "", [lo |-> 0], next, r.pc + 1, <<>>)
SimpleReg(op, name, next) == Does(op, "", [name |-> name], next, r.pc + 1, <<>>)

-----------------------------------------------------------------------------
(***************************************************************************)
(* ADDR_MODES: data becomes the address.                                   *)
(***************************************************************************)
Indexed == {"(X)", "dp+X", "abs", "abs+X", "abs+Y", "(dp+X)", "(dp)+Y"}
PointerAt(mode, in) ==
    CASE mode = "(dp+X)" -> <<Byte(in.lo + r.x) + r.dp>>
      [] mode = "(dp)+Y" -> <<in.lo + r.dp>>
      [] OTHER -> <<>>
Data(mode, in) ==
    CASE mode \in {"(X)", "(X)+"} -> r.x + r.dp
      [] mode = "(dp)+Y" -> in.ptr + r.y
      [] mode = "(dp+X)" -> in.ptr
      [] mode = "abs" -> READ_PC16(in)
      [] mode = "abs+X" -> in.lo + r.x + 256 * in.hi
      [] mode = "abs+Y" -> in.lo + r.y + 256 * in.hi
      [] mode = "dp+X" -> Byte(in.lo + r.x) + r.dp
      [] mode = "dp+Y" -> Byte(in.lo + r.y) + r.dp
      [] mode = "dp" -> in.lo + r.dp
PcAfter(mode) == r.pc + CASE mode \in {"(X)", "(X)+"} -> 1
                          [] mode \in {"abs", "abs+X", "abs+Y"} -> 3
                          [] OTHER -> 2

Reads(op, mode, in, next) ==
    Did(op, mode, in, next, PcAfter(mode),
        IF mode = "imm" THEN <<>> ELSE <<READ(0, Data(mode, in))>>, <<>>,
        PointerAt(mode, in), 0)
Value(mode, in) == IF mode = "imm" THEN in.lo ELSE in.val
Writes(op, mode, in, next, val) ==
    Did(op, mode, in, next, PcAfter(mode), <<WRITE(0, Data(mode, in), val)>>, <<>>,
        PointerAt(mode, in), 0)
\* One that reads and then writes back.
Modifies(op, mode, in, next, t, val) ==
    Does(op, mode, in, next, PcAfter(mode),
         <<READ(t, Data(mode, in)), WRITE(0, Data(mode, in), val)>>)

-----------------------------------------------------------------------------
(***************************************************************************)
(* 8-bit transmission.                                                     *)
(***************************************************************************)
MovA == \E mode \in Indexed \cup {"dp", "imm"}, in \in Operands :
    LET val == Value(mode, in)
    IN  Reads("MOVA", mode, in, [r EXCEPT !.a = val, !.nz = val])
MovAInc == \E in \in Operands :
    Does("MOVA", "(X)+", in, [r EXCEPT !.x = Byte(@ + 1), !.a = in.val, !.nz = in.val],
         r.pc + 1, <<READ(-1, Data("(X)+", in))>>)
MovX == \E mode \in {"dp", "dp+Y", "abs", "imm"}, in \in Operands :
    LET val == Value(mode, in)
    IN  Reads("MOVX", mode, in, [r EXCEPT !.x = val, !.nz = val])
MovY == \E mode \in {"dp", "dp+X", "abs", "imm"}, in \in Operands :
    LET val == Value(mode, in)
    IN  Reads("MOVY", mode, in, [r EXCEPT !.y = val, !.nz = val])

StoreA == \E mode \in Indexed \cup {"dp"}, in \in Operands : Writes("STA", mode, in, r, r.a)
StoreAInc == \E in \in Operands :
    Writes("STA", "(X)+", in, [r EXCEPT !.x = Byte(@ + 1)], r.a)
StoreXY == \E in \in Operands :
    \/ \E mode \in {"dp", "dp+Y", "abs"} : Writes("STX", mode, in, r, r.x)
    \/ \E mode \in {"dp", "dp+X", "abs"} : Writes("STY", mode, in, r, r.y)
MovMem == \E in \in Operands :
    \/ Does("MOV", "dp,dp", in, r, r.pc + 3,
            <<READ(-2, DP_ADDR(in.lo)), WRITE(0, DP_ADDR(in.hi), in.val)>>)
    \/ Does("MOV", "dp,imm", in, r, r.pc + 3, <<WRITE(0, DP_ADDR(in.hi), in.lo)>>)

Transfer ==
    \/ Simple("TXA", [r EXCEPT !.a = r.x, !.nz = r.x])
    \/ Simple("TYA", [r EXCEPT !.a = r.y, !.nz = r.y])
    \/ Simple("TAX", [r EXCEPT !.x = r.a, !.nz = r.a])
    \/ Simple("TAY", [r EXCEPT !.y = r.a, !.nz = r.a])
    \/ Simple("TSX", [r EXCEPT !.x = r.sp, !.nz = r.sp])
    \/ Simple("TXS", [r EXCEPT !.sp = r.x])

-----------------------------------------------------------------------------
(***************************************************************************)
(* Arithmetic and logic.                                                   *)
(***************************************************************************)
LOGICAL_OP(op, left, data) ==
    LET nz == CASE op = "AND" -> data & left [] op = "OR" -> data | left
                [] op = "EOR" -> data ^^ left
    IN  [r EXCEPT !.nz = nz]
Cmp(left, data) == [r EXCEPT !.nz = Byte(left - data), !.c = Inverted(left - data)]

\* adc_data, and the flags the 16-bit operations share.
HV(flags) == ((flags \div 2) & h08) | (((flags + 128) \div 4) & v40)
Adc(op, left, m) ==
    LET data == IF op = "SBC" THEN m ^^ 255 ELSE m
        nz   == left + data + CarryIn
    IN  [r EXCEPT !.nz = nz, !.c = nz,
                  !.psw = (@ & (255 - (v40 + h08))) | HV((data ^^ left) ^^ nz)]
Alu(op, left, data) == CASE op = "CMP" -> Cmp(left, data)
                         [] op \in {"ADC", "SBC"} -> Adc(op, left, data)
                         [] OTHER -> LOGICAL_OP(op, left, data)
AluOps == {"AND", "OR", "EOR", "CMP", "ADC", "SBC"}

WithA == \E op \in AluOps, mode \in Indexed \cup {"dp", "imm"}, in \in Operands :
    LET next == Alu(op, r.a, Value(mode, in))
    IN  Reads(op, mode, in, IF op = "CMP" THEN next ELSE [next EXCEPT !.a = Byte(next.nz)])

\* dp,dp and dp,imm and (X),(Y): the first operand is read, then the second.
InMemory == \E op \in AluOps, in \in Operands :
    \E f \in {<<"dp,dp", <<READ(-3, DP_ADDR(in.lo))>>, DP_ADDR(in.hi), in.val, 3>>,
              <<"dp,imm", <<>>, DP_ADDR(in.hi), in.lo, 3>>,
              <<"(X),(Y)", <<READ(-2, DP_ADDR(r.y))>>, DP_ADDR(r.x), in.val, 1>>} :
        LET next == Alu(op, in.val2, f[4])
        IN  Does(op, f[1], in, next, r.pc + f[5],
                 f[2] \o <<READ(-1, f[3])>>
                 \o (IF op = "CMP" THEN <<>> ELSE <<WRITE(0, f[3], next.nz)>>))

CmpXY == \E mode \in {"dp", "abs", "imm"}, in \in Operands :
    \/ Reads("CPX", mode, in, Cmp(r.x, Value(mode, in)))
    \/ Reads("CPY", mode, in, Cmp(r.y, Value(mode, in)))

INC_DEC_REG == \E name \in {"a", "x", "y"} : \E f \in {<<"INC", 1>>, <<"DEC", -1>>} :
    SimpleReg(f[1], name, [r EXCEPT !.nz = Word(r[name] + f[2]),
                                    ![name] = Byte(@ + f[2])])
IncDec == \E mode \in {"dp", "dp+X", "abs"}, in \in Operands :
    \E f \in {<<"INC", 1>>, <<"DEC", -1>>} :
        Modifies(f[1], mode, in, [r EXCEPT !.nz = Word(in.val + f[2])], -1, in.val + f[2])

\* LSR and ASL are ROR and ROL after c = 0.
Ror(c, m) == [nz |-> ((c \div 2) & 128) | (m \div 2), c |-> m * 256]
Rol(c, m) == [nz |-> (2 * m) | ((c \div 256) % 2), c |-> 2 * m]
Shift(op, m) == CASE op = "ROR" -> Ror(r.c, m) [] op = "LSR" -> Ror(0, m)
                  [] op = "ROL" -> Rol(r.c, m) [] op = "ASL" -> Rol(0, m)
ShiftOps == {"ROR", "LSR", "ROL", "ASL"}
ShiftA == \E op \in ShiftOps :
    LET s == Shift(op, r.a)
    IN  SimpleReg(op, "a", [r EXCEPT !.nz = s.nz, !.c = s.c, !.a = Byte(s.nz)])
ShiftMem == \E op \in ShiftOps, mode \in {"dp", "dp+X", "abs"}, in \in Operands :
    LET s == Shift(op, in.val)
    IN  Modifies(op, mode, in, [r EXCEPT !.nz = s.nz, !.c = s.c], -1, s.nz)
Xcn == LET nz == (r.a \div 16) | Byte(r.a * 16)
       IN  Simple("XCN", [r EXCEPT !.a = nz, !.nz = nz])

-----------------------------------------------------------------------------
(***************************************************************************)
(* 16 bits: the high byte's address wraps in its page; nz has the low      *)
(* byte's bits below bit 7.                                                *)
(***************************************************************************)
HighAt(in) == DP_ADDR(Byte(in.lo + 1))
Fold(n) == ((Word(n) \div 2) | Word(n)) & 127
Movw == \E in \in Operands :
    \/ Does("MOVWYA", "dp", in,
            [r EXCEPT !.a = in.val, !.y = in.val2,
                      !.nz = ((in.val & 127) | (in.val \div 2)) | in.val2],
            r.pc + 2, <<READ(-2, DP_ADDR(in.lo)), READ(0, HighAt(in))>>)
    \/ Does("MOVWM", "dp", in, r, r.pc + 2,
            <<WRITE(-1, DP_ADDR(in.lo), r.a), WRITE(0, HighAt(in), r.y)>>)
IncwDecw == \E in \in Operands : \E f \in {<<"INCW", 1>>, <<"DECW", -1>>} :
    LET low  == in.val + f[2]
        high == Byte((low \div 256) + in.val2)
    IN  Does(f[1], "dp", in, [r EXCEPT !.nz = Fold(low) | high], r.pc + 2,
             <<READ(-3, DP_ADDR(in.lo)), WRITE(-2, DP_ADDR(in.lo), low),
               READ(-1, HighAt(in)), WRITE(0, HighAt(in), high)>>)
AddwSubw == \E in \in Operands, op \in {"ADDW", "SUBW"} :
    LET sub    == op = "SUBW"
        lo     == r.a + IF sub THEN (in.val ^^ 255) + 1 ELSE in.val
        hi     == IF sub THEN in.val2 ^^ 255 ELSE in.val2
        result == r.y + hi + (lo \div 256)
    IN  Does(op, "dp", in,
             [r EXCEPT !.psw = (@ & (255 - (v40 + h08))) | HV((hi ^^ r.y) ^^ result),
                       !.c = result, !.a = Byte(lo), !.y = Byte(result),
                       !.nz = Fold(lo) | Byte(result)],
             r.pc + 2, <<READ(-2, DP_ADDR(in.lo)), READ(0, HighAt(in))>>)
Cmpw == \E in \in Operands :
    LET low  == r.a - in.val
        temp == r.y + (low \div 256) - in.val2
    IN  Does("CMPW", "dp", in, [r EXCEPT !.nz = Byte(Fold(low) | Word(temp)),
                                         !.c = Inverted(temp)],
             r.pc + 2, <<READ(-1, DP_ADDR(in.lo)), READ(0, HighAt(in))>>)
Mul == LET temp == r.y * r.a
       IN  Simple("MUL", [r EXCEPT !.a = Byte(temp), !.y = temp \div 256,
                                   !.nz = Fold(temp) | (temp \div 256)])
Quotient_faulty(ya) == <<ya \div r.x, ya % r.x>> \* mutant: no limit of 9 bits
Quotient(ya) ==
    IF r.y < 2 * r.x THEN <<ya \div r.x, ya % r.x>>
    ELSE <<255 - ((ya - r.x * 512) \div (256 - r.x)),
           r.x + ((ya - r.x * 512) % (256 - r.x))>>
Div == LET q == Quotient(r.y * 256 + r.a)
       IN  Simple("DIV", [r EXCEPT !.psw = ((@ & (255 - (v40 + h08)))
                                            | (IF r.y >= r.x THEN v40 ELSE 0))
                                           | (IF r.y % 16 >= r.x % 16 THEN h08 ELSE 0),
                                   !.nz = Byte(q[1]), !.a = Byte(q[1]), !.y = Byte(q[2])])

\* DAA and DAS; a is a byte between the two corrections.
DaaDas == \E f \in {<<"DAA", 1, 256>>, <<"DAS", -1, 0>>} :
    LET carry == (r.c & 256) = f[3]
        half  == ((r.psw & h08) # 0) = (f[1] = "DAA")
        big   == r.a > 153 \/ carry
        a1    == IF big THEN Byte(r.a + f[2] * 96) ELSE r.a
        a2    == IF (a1 & 15) > 9 \/ half THEN Byte(a1 + f[2] * 6) ELSE a1
    IN  Simple(f[1], [r EXCEPT !.c = IF big THEN f[3] ELSE @, !.a = a2, !.nz = a2])

-----------------------------------------------------------------------------
(***************************************************************************)
(* Branches, jumps and the stack.                                          *)
(***************************************************************************)
\* BRANCH and CBRANCH give two clocks back when not taken.
Branch(op, mode, in, next, len, cond, acc) ==
    Did(op, mode, in, next, r.pc + len + (IF cond THEN Signed(in.rel) ELSE 0), acc,
        <<>>, <<>>, IF cond THEN 0 ELSE 2)
Branches == \E in \in Operands :
    \E f \in {<<"BEQ", Byte(r.nz) = 0>>, <<"BNE", Byte(r.nz) # 0>>,
              <<"BMI", (r.nz & nz_neg_mask) # 0>>, <<"BPL", (r.nz & nz_neg_mask) = 0>>,
              <<"BCS", (r.c & 256) # 0>>, <<"BCC", (r.c & 256) = 0>>,
              <<"BVS", (r.psw & v40) # 0>>, <<"BVC", (r.psw & v40) = 0>>, <<"BRA", TRUE>>} :
        Branch(f[1], "", in, r, 2, f[2], <<>>)
BranchBit == \E in \in Operands :
    LET set == (in.val \div 2^in.bit) % 2 = 1
    IN  \E f \in {<<"BBS", set>>, <<"BBC", ~set>>} :
            Branch(f[1], "dp", in, r, 3, f[2], <<READ(-4, DP_ADDR(in.lo))>>)
Cbne == \E in \in Operands, mode \in {"dp", "dp+X"} :
    Branch("CBNE", mode, in, r, 3, in.val # r.a, <<READ(-4, Data(mode, in))>>)
Dbnz == \E in \in Operands :
    \/ Branch("DBNZ", "dp", in, r, 3, in.val - 1 # 0,
              <<READ(-4, DP_ADDR(in.lo)), WRITE(-3, DP_ADDR(in.lo), in.val - 1)>>)
    \/ LET y == Byte(r.y - 1)
       IN  Branch("DBNZ", "", in, [r EXCEPT !.y = y], 2, y # 0, <<>>)

\* Bytes pushed one after the other, and pulled.
PUSHED(vals) == [k \in DOMAIN vals |-> <<256 + Byte(r.sp - (k - 1)), vals[k]>>]
POPPED(n) == [k \in 1..n |-> <<256 + Byte(r.sp + k), -1>>]
SP(regs, k) == [regs EXCEPT !.sp = Byte(r.sp + k)]
PUSH16(data) == <<Word(data) \div 256, Byte(data)>>

Call(op, in, ret, pc, ptr) ==
    Did(op, "", in, SP(r, -2), pc, <<>>, PUSHED(PUSH16(ret)), ptr, 0)
Jumps == \E in \in Operands :
    \/ Call("CALL", in, r.pc + 1 + 2, READ_PC16(in), <<>>)
    \/ Call("PCALL", in, r.pc + 1 + 1, 65280 | in.lo, <<>>)
    \/ Call("TCALL", in, r.pc + 1, in.ptr, <<65502 - ((16 * in.bit + 1) \div 8)>>)
    \/ Does("JMP", "", in, r, READ_PC16(in), <<>>)
    \/ Did("JMPX", "", in, r, in.ptr, <<>>, <<>>, <<Word(READ_PC16(in) + r.x)>>, 0)
    \/ Did("RET", "", in, SP(r, 2), in.ptr, <<>>, POPPED(2), <<>>, 0)
    \/ Did("RET1", "", in, SP(SET_PSW(r, in.val), 3), in.ptr, <<>>, POPPED(3), <<>>, 0)
    \/ Did("BRK", "", in, [SP(r, -3) EXCEPT !.psw = (@ | b10) & (255 - i04)], in.ptr,
           <<>>, PUSHED(PUSH16(r.pc + 1) \o <<GET_PSW>>), <<65502>>, 0)
Stack == \E name \in {"a", "x", "y", "psw"} :
    \/ Did("PUSH", "", [name |-> name], SP(r, -1), r.pc + 1, <<>>,
           PUSHED(<<IF name = "psw" THEN GET_PSW ELSE r[name]>>), <<>>, 0)
    \/ \E in \in Operands :
         Did("POP", "", [name |-> name, val |-> in.val],
             SP(IF name = "psw" THEN SET_PSW(r, in.val) ELSE [r EXCEPT ![name] = in.val], 1),
             r.pc + 1, <<>>, POPPED(1), <<>>, 0)

-----------------------------------------------------------------------------
(***************************************************************************)
(* Bits and flags.                                                         *)
(***************************************************************************)
BitOps == \E in \in Operands :
    LET bit  == 2^in.bit
        rest == in.val & (255 - bit)
    IN  \/ Modifies("SET1", "dp", in, r, -1, rest | bit)
        \/ Modifies("CLR1", "dp", in, r, -1, rest)
TestBits == \E in \in Operands :
    LET next == [r EXCEPT !.nz = Byte(r.a - in.val)]
        temp == in.val & (255 - r.a)
    IN  \/ Modifies("TSET1", "abs", in, next, -2, temp | r.a)
        \/ Modifies("TCLR1", "abs", in, next, -2, temp)

\* Thirteen bits of address, three of the bit's number.
BitAddr(in) == READ_PC16(in) & 8191
BitNumber(in) == READ_PC16(in) \div 8192
MEM_BIT(in) == ((in.val \div 2^BitNumber(in)) * 256) & 256
CarryBit == \E in \in Operands :
    LET mem == MEM_BIT(in)
    IN  \E f \in {<<"AND1", 0, r.c & mem>>, <<"ANDN1", 0, r.c & Inverted(mem)>>,
                  <<"OR1", -1, r.c | mem>>, <<"ORN1", -1, r.c | Inverted(mem)>>,
                  <<"EOR1", -1, r.c ^^ mem>>, <<"MOV1", 0, mem>>} :
            Does(f[1], "abs", in, [r EXCEPT !.c = f[3]], r.pc + 3,
                 <<READ(f[2], BitAddr(in))>>)
MemBit == \E in \in Operands :
    LET bit == 2^BitNumber(in)
    IN  \E f \in {<<"NOT1", -1, in.val ^^ bit>>,
                  <<"MOV1M", -2, (in.val & (255 - bit)) | (CarryIn * bit)>>} :
            Does(f[1], "abs", in, r, r.pc + 3,
                 <<READ(f[2], BitAddr(in)), WRITE(0, BitAddr(in), f[3])>>)

Flags ==
    \/ Simple("CLRC", [r EXCEPT !.c = 0])
    \/ Simple("SETC", [r EXCEPT !.c = Inverted(0)])
    \/ Simple("NOTC", [r EXCEPT !.c = @ ^^ 256])
    \/ Simple("CLRV", [r EXCEPT !.psw = @ & (255 - (v40 + h08))])
    \/ Simple("CLRP", [r EXCEPT !.dp = 0])
    \/ Simple("SETP", [r EXCEPT !.dp = 256])
    \/ Simple("EI", [r EXCEPT !.psw = @ | i04])
    \/ Simple("DI", [r EXCEPT !.psw = @ & (255 - i04)])
    \/ Simple("NOP", r)

\* STOP and SLEEP end the run on themselves.
Sleep == Does("SLEEP", "", [lo |-> 0], r, r.pc, <<>>)

\* run_until_() returns and is called again.
Rerun == Does("run", "", [lo |-> 0], SET_PSW(r, GET_PSW), r.pc, <<>>)

-----------------------------------------------------------------------------
Init ==
    /\ \E s \in Registers :
         r = SET_PSW([a |-> s.a, x |-> s.x, y |-> s.y, sp |-> s.sp, pc |-> s.pc,
                      psw |-> 0, c |-> 0, nz |-> 0, dp |-> 0], s.psw)
    /\ bus = [op |-> "run"]
    /\ executed = 0

Instruction ==
    \/ MovA \/ MovAInc \/ MovX \/ MovY \/ StoreA \/ StoreAInc \/ StoreXY \/ MovMem
    \/ Transfer \/ WithA \/ InMemory \/ CmpXY \/ INC_DEC_REG \/ IncDec \/ ShiftA
    \/ ShiftMem \/ Xcn \/ Movw \/ IncwDecw \/ AddwSubw \/ Cmpw \/ Mul \/ Div \/ DaaDas
    \/ Branches \/ BranchBit \/ Cbne \/ Dbnz \/ Jumps \/ Stack
    \/ BitOps \/ TestBits \/ CarryBit \/ MemBit \/ Flags \/ Sleep \/ Rerun

Next == executed < MaxInstructions /\ Instruction


-----------------------------------------------------------------------------
(***************************************************************************)
(* Properties                                                              *)
(***************************************************************************)

\* The checks of the loop: registers are bytes; what the flags are taken from
\* is kept in at most 16 bits, and dp is one of two pages.
TypeOK ==
    /\ {r.a, r.x, r.y, r.sp, r.psw} \subseteq 0..255
    /\ r.pc \in 0..65535 /\ r.dp \in {0, 256}
    /\ r.c \in 0..65535 /\ r.nz \in 0..65535

Decoded == [a |-> r.a, x |-> r.x, y |-> r.y, s |-> r.sp, pc |-> r.pc,
            n |-> (r.nz & nz_neg_mask) # 0, z |-> Byte(r.nz) = 0, c |-> CarryIn = 1,
            v |-> (r.psw & v40) # 0, b |-> (r.psw & b10) # 0, h |-> (r.psw & h08) # 0,
            i |-> (r.psw & i04) # 0, p |-> r.dp # 0]

\* What the next instruction depends on (bus only says what the last one did).

Arch == INSTANCE Spc700 WITH reg <- Decoded

\* Whatever instructions left in nz, c, dp and psw, the next one does what the
\* processor would; its accesses are in the processor's order, each in a clock
\* of its own, the last no later than the instruction's end.
ImplementsSpc700 == [Arch!Next]_<<Decoded, bus>>
=============================================================================
