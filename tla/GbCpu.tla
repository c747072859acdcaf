--------------------------------- MODULE GbCpu ---------------------------------
(***************************************************************************)
(* The Game Boy's CPU as Gb_Cpu::run() computes it: one byte of flags, and *)
(* data and op, which hold operands, results and sometimes opcodes, with   *)
(* the flags taken from bits beyond a byte.                                *)
(*                                                                         *)
(* Not modelled: fetching and opcodes (an instruction is a name and its    *)
(* operands), and the clock, which counts instructions.                    *)
(***************************************************************************)
EXTENDS Integers, Sequences, Bitwise, TLC

CONSTANTS
    Operands,   \* lo, hi: bytes after the opcode; val: the byte at an address;
                \* ptr: a word on the stack; rst: an RST address
    Registers,  \* registers when run() is called
    R8s,        \* the byte registers used, of b, c, d, e, h, l, a
    Bits,       \* bit numbers used
    MaxInstructions

VARIABLES r, bus, executed
vars == <<r, bus, executed>>

z_flag == 128
n_flag == 64
h_flag == 32
c_flag == 16

Byte(n) == n % 256
Word(n) == n % 65536

\* The 32 bits of an unsigned that a flag can be taken from; a difference of
\* small numbers may be negative.
Unsigned(n) == n % 1048576

rp(name) == CASE name = "bc" -> 256 * r.b + r.c [] name = "de" -> 256 * r.d + r.e
              [] name = "hl" -> 256 * r.h + r.l [] name = "sp" -> r.sp
SetPair(regs, name, w) ==
    CASE name = "bc" -> [regs EXCEPT !.b = w \div 256, !.c = Byte(w)]
      [] name = "de" -> [regs EXCEPT !.d = w \div 256, !.e = Byte(w)]
      [] name = "hl" -> [regs EXCEPT !.h = w \div 256, !.l = Byte(w)]
      [] name = "sp" -> [regs EXCEPT !.sp = w]

Sources == R8s \cup {"(hl)"}
Data(src, in) == CASE src = "(hl)" -> in.val [] src = "imm" -> in.lo [] OTHER -> r[src]
ReadHL(src) == IF src = "(hl)" THEN <<rp("hl")>> ELSE <<>>
GET_ADDR(in) == in.lo + 256 * in.hi

\* One instruction: what it was, the registers after it, stores and reads.
Did(op, dst, src, in, next, pc, out, at) ==
    /\ executed' = executed + 1
    /\ r' = [next EXCEPT !.pc = Word(pc)]
    /\ bus' = [op |-> op, dst |-> dst, src |-> src, in |-> in, out |-> out, at |-> at]
Simple(op, next) == Did(op, "", "", [lo |-> 0], next, r.pc + 1, <<>>, <<>>)
PcAfter(src) == r.pc + IF src = "imm" THEN 2 ELSE 1

-----------------------------------------------------------------------------
(***************************************************************************)
(* Loads.                                                                  *)
(***************************************************************************)
LoadByte == \E dst \in R8s, src \in Sources \cup {"imm"}, in \in Operands :
    Did("LD", dst, src, in, [r EXCEPT ![dst] = Data(src, in)], PcAfter(src), <<>>,
        ReadHL(src))
StoreByte == \E src \in R8s \cup {"imm"}, in \in Operands :
    Did("LD", "(hl)", src, in, r, PcAfter(src), <<<<rp("hl"), Data(src, in)>>>>, <<>>)

\* ld_a_ind_comm and write_data_rg_a.
Temp(mode, in) == CASE mode = "ff00+imm" -> in.lo | 65280
                    [] mode = "ff00+c" -> r.c | 65280
                    [] mode \in {"hl+", "hl-"} -> rp("hl")
                    [] mode = "ind16" -> GET_ADDR(in)
                    [] OTHER -> rp(mode)
Modes == {"ff00+imm", "ff00+c", "hl+", "hl-", "ind16", "bc", "de"}
AfterMode(mode) == CASE mode = "hl+" -> SetPair(r, "hl", Word(rp("hl") + 1))
                     [] mode = "hl-" -> SetPair(r, "hl", Word(rp("hl") - 1))
                     [] OTHER -> r
PcAfterMode(mode) ==
    r.pc + CASE mode = "ff00+imm" -> 2 [] mode = "ind16" -> 3 [] OTHER -> 1
LoadA == \E mode \in Modes, in \in Operands :
    Did("LDA", "a", mode, in, [AfterMode(mode) EXCEPT !.a = in.val],
        PcAfterMode(mode), <<>>, <<Temp(mode, in)>>)
StoreA == \E mode \in Modes, in \in Operands :
    Did("STA", mode, "a", in, AfterMode(mode), PcAfterMode(mode),
        <<<<Temp(mode, in), r.a>>>>, <<>>)

Load16 == \E in \in Operands :
    \/ \E dst \in {"bc", "hl", "sp"} :
         Did("LD16", dst, "", in, SetPair(r, dst, GET_ADDR(in)), r.pc + 3, <<>>, <<>>)
    \/ Did("STSP", "", "", in, r, r.pc + 3,
           <<<<GET_ADDR(in), Byte(r.sp)>>, <<GET_ADDR(in) + 1, r.sp \div 256>>>>, <<>>)
LoadSP == Simple("LDSP", [r EXCEPT !.sp = rp("hl")])

-----------------------------------------------------------------------------
(***************************************************************************)
(* Arithmetic and logic.  Each takes the operand after add_comm, sub_comm  *)
(* and so on.                                                              *)
(***************************************************************************)
ZeroFlag(n) == IF Byte(n) = 0 THEN z_flag ELSE 0

add_comm(m) ==
    LET data == m + r.a
    IN  [r EXCEPT !.a = Byte(data),
                  !.flags = ((Unsigned((data % 16) - (r.a % 16)) & h_flag)
                            | ((data \div 16) & c_flag)) | ZeroFlag(data)]
sub_set_flags(data) ==
    ((Unsigned((r.a % 16) - (data % 16)) & h_flag)
     | ((data \div 16) & c_flag)) | (n_flag | ZeroFlag(data))
sub_comm(m) == LET data == Unsigned(r.a - m)
               IN  [r EXCEPT !.a = Byte(data), !.flags = sub_set_flags(data)]
cmp_comm(m) == [r EXCEPT !.flags = sub_set_flags(Unsigned(r.a - m))]
WithCarry(m) == Byte(m + ((r.flags \div 16) % 2))

Arith == \E src \in Sources \cup {"imm"}, in \in Operands :
    LET m == Data(src, in)
    IN  \E f \in {<<"ADD", add_comm(m)>>, <<"ADC", add_comm(WithCarry(m))>>,
                  <<"SUB", sub_comm(m)>>, <<"SBC", sub_comm(WithCarry(m))>>,
                  <<"CP", cmp_comm(m)>>} :
            Did(f[1], "a", src, in, f[2], PcAfter(src), <<>>, ReadHL(src))

\* The borrow of a - 1 tells zero.
ZeroByBorrow(a) == (Unsigned(a - 1) \div 2) & z_flag
Logic == \E src \in Sources \cup {"imm"}, in \in Operands :
    LET m   == Data(src, in)
        and == r.a & m
        or  == r.a | m
        xor == r.a ^^ m
    IN  \E f \in {<<"AND", and, h_flag | ZeroByBorrow(and)>>,
                  <<"OR", or, ZeroByBorrow(or)>>, <<"XOR", xor, ZeroByBorrow(xor)>>} :
            Did(f[1], "a", src, in, [r EXCEPT !.a = f[2], !.flags = f[3]],
                PcAfter(src), <<>>, ReadHL(src))

\* Stores a result where the operand came from.
Put(op, src, in, flags, data, pc) ==
    Did(op, "", src, in,
        IF src = "(hl)" THEN [r EXCEPT !.flags = flags]
        ELSE [r EXCEPT ![src] = Byte(data), !.flags = flags],
        pc, IF src = "(hl)" THEN <<<<rp("hl"), Byte(data)>>>> ELSE <<>>, ReadHL(src))

Inc(data) == ((r.flags & c_flag) | (Unsigned((data % 16) - 1) & h_flag))
             | ((data \div 2) & z_flag)
Dec(data) == (((r.flags & c_flag) | n_flag) | (((data % 16) + 49) & h_flag))
             | ZeroFlag(data)
IncDec == \E src \in Sources, in \in Operands :
    \/ LET data == Data(src, in) + 1 IN Put("INC", src, in, Inc(data), data, r.pc + 1)
    \/ LET data == Unsigned(Data(src, in) - 1)
       IN  Put("DEC", src, in, Dec(data), data, r.pc + 1)

IncDec16 == \E dst \in {"bc", "de", "hl", "sp"} :
    \/ Did("INC16", dst, "", [lo |-> 0], SetPair(r, dst, Word(rp(dst) + 1)), r.pc + 1,
           <<>>, <<>>)
    \/ Did("DEC16", dst, "", [lo |-> 0], SetPair(r, dst, Word(rp(dst) - 1)), r.pc + 1,
           <<>>, <<>>)

\* add_16_comm: carry is bit 16 of the sum, also of a negative operand.
Add16Flags(temp, prev) ==
    (((Unsigned(temp) \div 4096) & c_flag)
     | ((Unsigned((temp % 4096) - (prev % 4096)) \div 128) & h_flag))
AddHL == \E src \in {"bc", "de", "hl", "sp"} :
    LET temp == rp(src) + rp("hl")
    IN  Did("ADDHL", "hl", src, [lo |-> 0],
            [SetPair(r, "hl", Word(temp)) EXCEPT
                !.flags = (@ & z_flag) | Add16Flags(temp, rp("hl"))],
            r.pc + 1, <<>>, <<>>)
AddSP == \E op \in {<<"ADDSP", "sp">>, <<"LDHLSP", "hl">>}, in \in Operands :
    LET temp == Unsigned((IF in.lo > 127 THEN in.lo - 256 ELSE in.lo) + r.sp)
    IN  Did(op[1], op[2], "imm", in,
            [SetPair(r, op[2], Word(temp)) EXCEPT !.flags = Add16Flags(temp, r.sp)],
            r.pc + 2, <<>>, <<>>)

\* rl_comm, rr_comm and shift_comm, with the opcode's bits in data.
RlOps == [RLC |-> 0, RL |-> 16, SLA |-> 32]
Rl(data, m) == LET in  == (2 * m) | (((data & r.flags) \div 16) % 2)
               IN  [op |-> IF data < 16 THEN in | (in \div 256) ELSE in,
                    flags |-> (in \div 16) & c_flag]
RrOps == [RRC |-> 8, RR |-> 24, SRA |-> 40, SRL |-> 72]
Rr(data, m) == LET in   == m | ((data & r.flags) * 16)
                   half == (IF data < 16 THEN in | (in * 256) ELSE in) \div 2
               IN  [op |-> IF (data & 32) # 0 THEN half | ((2 * half) & 128) ELSE half,
                    flags |-> (in * 16) & c_flag]
Swap(m) == [op |-> (m \div 16) | (m * 16), flags |-> 0]

Shift(op, src, in, s, pc) ==
    Put(op, src, in, s.flags | ZeroFlag(s.op), s.op, pc)
Rotate == \E src \in Sources, in \in Operands :
    \/ \E op \in DOMAIN RlOps : Shift(op, src, in, Rl(RlOps[op], Data(src, in)), r.pc + 2)
    \/ \E op \in DOMAIN RrOps : Shift(op, src, in, Rr(RrOps[op], Data(src, in)), r.pc + 2)
    \/ Shift("SWAP", src, in, Swap(Data(src, in)), r.pc + 2)
RotateA == \E in \in Operands :
    \/ Shift("RLCA", "a", in, Rl(7, r.a), r.pc + 1)
    \/ Shift("RLA", "a", in, Rl(23, r.a), r.pc + 1)
    \/ Shift("RRCA", "a", in, Rr(15, r.a), r.pc + 1)
    \/ Shift("RRA", "a", in, Rr(31, r.a), r.pc + 1)

\* BIT moves the bit under z_flag.
BitOps == \E src \in Sources, in \in Operands, k \in Bits :
    LET m    == Data(src, in)
        mask == 2^k
    IN  \/ Did("BIT", k, src, in,
               [r EXCEPT !.flags = ((@ & c_flag) | (h_flag | z_flag))
                                   ^^ ((m * 2^(7 - k)) & z_flag)],
               r.pc + 2, <<>>, ReadHL(src))
        \/ \E op \in {<<"SET", m | mask>>, <<"RES", m & (255 - mask)>>} :
              Did(op[1], k, src, in,
                  IF src = "(hl)" THEN r ELSE [r EXCEPT ![src] = op[2]], r.pc + 2,
                  IF src = "(hl)" THEN <<<<rp("hl"), op[2]>>>> ELSE <<>>, ReadHL(src))

Flags == \/ Simple("CPL", [r EXCEPT !.a = 255 - @, !.flags = @ | (n_flag | h_flag)])
         \/ Simple("CCF", [r EXCEPT !.flags = (@ ^^ c_flag) & (z_flag | c_flag)])
         \/ Simple("SCF", [r EXCEPT !.flags = (@ | c_flag) & (z_flag | c_flag)])
         \/ Simple("NOP", r)

-----------------------------------------------------------------------------
(***************************************************************************)
(* Flow and stack.                                                         *)
(***************************************************************************)
Conds == {<<"nz", (r.flags & z_flag) = 0>>, <<"z", (r.flags & z_flag) # 0>>,
          <<"nc", (r.flags & c_flag) = 0>>, <<"c", (r.flags & c_flag) # 0>>,
          <<"", TRUE>>}

\* push: the high byte first.
push(op, dst, src, in, data, pc) ==
    LET hi == Word(r.sp - 1)
        lo == Word(hi - 1)
    IN  Did(op, dst, src, in, [r EXCEPT !.sp = lo], pc,
            <<<<hi, data \div 256>>, <<lo, Byte(data)>>>>, <<>>)
Popped == [r EXCEPT !.sp = Word(@ + 2)]
PopReads == <<r.sp, r.sp + 1>>

Jumps == \E in \in Operands :
    \/ \E cond \in Conds :
        \/ LET offset == IF in.lo > 127 THEN in.lo - 256 ELSE in.lo
           IN  Did("JR", cond[1], "imm", in, r,
                   IF cond[2] THEN r.pc + 2 + offset ELSE r.pc + 2, <<>>, <<>>)
        \/ Did("JP", cond[1], "", in, r, IF cond[2] THEN GET_ADDR(in) ELSE r.pc + 3,
               <<>>, <<>>)
        \/ IF cond[2] THEN push("CALL", cond[1], "", in, Word(r.pc + 1 + 2), GET_ADDR(in))
           ELSE Did("CALL", cond[1], "", in, r, r.pc + 3, <<>>, <<>>)
        \/ IF cond[2] THEN Did("RET", cond[1], "", in, Popped, in.ptr, <<>>, PopReads)
           ELSE Did("RET", cond[1], "", in, r, r.pc + 1, <<>>, <<>>)
    \/ push("RST", "", "", in, Word(r.pc + 1), in.rst)
JumpHL == Did("JPHL", "", "", [lo |-> 0], r, rp("hl"), <<>>, <<>>)

Stack ==
    \/ \E src \in {"bc", "hl"} : push("PUSH", "", src, [lo |-> 0], rp(src), r.pc + 1)
    \/ push("PUSHAF", "", "", [lo |-> 0], (r.a * 256) | r.flags, r.pc + 1)
    \/ \E in \in Operands :
         \/ \E dst \in {"bc", "hl"} :
              Did("POP", dst, "", in, SetPair(Popped, dst, in.ptr), r.pc + 1, <<>>, PopReads)
         \/ Did("POPAF", "", "", in,
                [Popped EXCEPT !.a = in.ptr \div 256, !.flags = Byte(in.ptr) & 240],
                r.pc + 1, <<>>, PopReads)

-----------------------------------------------------------------------------
Init == r \in Registers /\ bus = [op |-> "run"] /\ executed = 0

Instruction ==
    \/ LoadByte \/ StoreByte \/ LoadA \/ StoreA \/ Load16 \/ LoadSP
        \/ Arith \/ Logic \/ IncDec \/ IncDec16 \/ AddHL \/ AddSP
        \/ Rotate \/ RotateA \/ BitOps \/ Flags \/ Jumps \/ JumpHL \/ Stack

Next == executed < MaxInstructions /\ Instruction


-----------------------------------------------------------------------------
(***************************************************************************)
(* Properties                                                              *)
(***************************************************************************)

\* The checks of the loop: pc and sp are words, flags has no low bits, and
\* registers are bytes.
TypeOK ==
    /\ {r.b, r.c, r.d, r.e, r.h, r.l, r.a} \subseteq 0..255
    /\ r.pc \in 0..65535 /\ r.sp \in 0..65535
    /\ r.flags \in 0..255 /\ r.flags % 16 = 0

Decoded == [f \in {"b", "c", "d", "e", "h", "l", "a", "sp", "pc"} |-> r[f]]
           @@ [z |-> (r.flags & z_flag) # 0, n |-> (r.flags & n_flag) # 0,
               cy |-> (r.flags & c_flag) # 0]


Arch == INSTANCE LR35902 WITH reg <- Decoded, Exact <- FALSE
Real == INSTANCE LR35902 WITH reg <- Decoded, Exact <- TRUE

\* Whatever is left in the bits beyond a byte, registers, flags and stores are
\* those of the processor, but for the flags that LR35902 names as open.
ImplementsLR35902 == [Arch!Next]_<<Decoded, bus>>
\* Without that exception.
IsLR35902 == [Real!Next]_<<Decoded, bus>>
=============================================================================
