-------------------------------- MODULE KssCpu --------------------------------
(***************************************************************************)
(* The Z80 as Kss_Cpu::run() computes it, with the flags in one byte and   *)
(* operands in integers wider than the registers.                          *)
(*                                                                         *)
(* The table lookups of opcodes and clocks are left out: an instruction is *)
(* a name and its operands, and only clocks added to a table's entry are   *)
(* counted.  Not modelled: the refresh register, which the code does not   *)
(* support either.                                                         *)
(***************************************************************************)
EXTENDS Integers, Sequences, Bitwise

CONSTANTS
    Operands,   \* lo, hi: the bytes after the opcode (a displacement, then a
                \* value); val: the byte read; ptr: the word read; bit: a bit's
                \* number, or an RST's or mode's; down: an instruction's way
    Registers,  \* registers when run() is called
    R8s,        \* the byte registers used, of b, c, d, e, h, l, a
    Index,      \* the index registers used, of ix and iy
    Wide,       \* pc is kept in more than 16 bits: FALSE for Ay_Cpu only
    MaxInstructions

VARIABLES r, bus, executed
vars == <<r, bus, executed>>

S80 == 128
Z40 == 64
F20 == 32
H10 == 16
F08 == 8
V04 == 4
P04 == 4
N02 == 2
C01 == 1
SZP == (S80 + Z40) + P04
F28 == F20 + F08

Byte(n) == n % 256
Word(n) == n % 65536
Bits(n) == n % 1048576   \* the bits of a wider integer that a flag is taken from
Displacement(n) == IF n > 127 THEN n - 256 ELSE n
When(cond, flag) == IF cond THEN flag ELSE 0

\* The constructor's table of flags for a result and its carry.
even[p \in 0..255] == IF p = 0 THEN 1 ELSE even[p \div 2] ^^ (p % 2)
szpc == [n \in 0..511 |->
    ((n & (S80 + F28)) + P04 * even[Byte(n)]) + When(Byte(n) = 0, Z40) + When(n > 255, C01)]
SZ28P(n) == szpc[n]
SZ28C(n) == szpc[n] & (255 - P04)

-----------------------------------------------------------------------------
(***************************************************************************)
(* Operands: R8, R16, (HL), and the halves and memory of ix and iy.        *)
(***************************************************************************)
rp(name) == CASE name = "bc" -> 256 * r.b + r.c [] name = "de" -> 256 * r.d + r.e
              [] name = "hl" -> 256 * r.h + r.l [] name = "af" -> 256 * r.a + r.f
              [] OTHER -> r[name]
SetPair(regs, name, w) ==
    CASE name = "bc" -> [regs EXCEPT !.b = w \div 256, !.c = Byte(w)]
      [] name = "de" -> [regs EXCEPT !.d = w \div 256, !.e = Byte(w)]
      [] name = "hl" -> [regs EXCEPT !.h = w \div 256, !.l = Byte(w)]
      [] name = "af" -> [regs EXCEPT !.a = w \div 256, !.f = Byte(w)]
      [] OTHER -> [regs EXCEPT ![name] = w]

ixy == [ixh |-> "ix", iyh |-> "iy", ixl |-> "ix", iyl |-> "iy", ixd |-> "ix", iyd |-> "iy"]
Used(names) == {n \in names : ixy[n] \in Index}
HXY == Used({"ixh", "iyh"})
LXY == Used({"ixl", "iyl"})
IXY_DISP == Used({"ixd", "iyd"})
Memory == {"(hl)"} \cup IXY_DISP
Sources == R8s \cup Memory \cup HXY \cup LXY

AddressOf(name, in) == IF name = "(hl)" THEN rp("hl")
                       ELSE Word(r[ixy[name]] + Displacement(in.lo))
Data(name, in) == CASE name \in Memory -> in.val
                    [] name = "imm" -> in.lo
                    [] name \in HXY -> r[ixy[name]] \div 256
                    [] name \in LXY -> Byte(r[ixy[name]])
                    [] OTHER -> r[name]
SetData(regs, name, val) ==
    CASE name \in Memory -> regs
      [] name \in HXY -> [regs EXCEPT ![ixy[name]] = Byte(@) | (val * 256)]
      [] name \in LXY -> [regs EXCEPT ![ixy[name]] = (@ & 65280) | val]
      [] OTHER -> [regs EXCEPT ![name] = val]
READ(name, in) == IF name \in Memory THEN <<AddressOf(name, in)>> ELSE <<>>
WRITE(name, in, val) ==
    IF name \in Memory THEN <<<<AddressOf(name, in), Byte(val)>>>> ELSE <<>>
READ_WORD(addr) == <<addr, addr + 1>>
WRITE_WORD(addr, w) == <<<<addr, Byte(w)>>, <<addr + 1, w \div 256>>>>
GET_ADDR(in) == in.lo + 256 * in.hi

Bytes(name) == CASE name \in IXY_DISP -> 2
                 [] name \in HXY \cup LXY \cup {"imm"} \cup Index -> 1
                 [] OTHER -> 0

\* One instruction: what it was, the registers after it, its accesses.  A wide
\* pc is not cut to 16 bits when it is counted up; beyond them is what idles.
Did(op, dst, src, in, next, pc, at, out, io, extra) ==
    /\ r.pc < 65536
    /\ executed' = executed + 1
    /\ r' = [next EXCEPT !.pc = IF Wide THEN pc ELSE Word(pc)]
    /\ bus' = [op |-> op, dst |-> dst, src |-> src, in |-> in, at |-> at, out |-> out,
               io |-> io, extra |-> extra]
Does(op, dst, src, in, next, len, at, out) ==
    Did(op, dst, src, in, next, r.pc + len, at, out, <<>>, 0)
Simple(op, next) == Does(op, "", "", [lo |-> 0], next, 1, <<>>, <<>>)

-----------------------------------------------------------------------------
(***************************************************************************)
(* Loads and exchanges.                                                    *)
(***************************************************************************)
LoadR == \E dst \in R8s, src \in Sources \cup {"imm"}, in \in Operands :
    Does("LD", dst, src, in, [r EXCEPT ![dst] = Data(src, in)], 1 + Bytes(src),
         READ(src, in), <<>>)
StoreR == \E dst \in Memory, src \in R8s, in \in Operands :
    Does("LD", dst, src, in, r, 1 + Bytes(dst), <<>>, WRITE(dst, in, r[src]))
\* LD (IXY+disp),imm: the value stands behind the displacement.
StoreImm == \E in \in Operands :
    \/ Does("LD", "(hl)", "imm", in, r, 2, <<>>, WRITE("(hl)", in, in.lo))
    \/ \E dst \in IXY_DISP :
         Does("LD", dst, "imm", in, r, 4, <<>>, WRITE(dst, in, in.hi))
LoadHalf == \E dst \in HXY \cup LXY, in \in Operands :
    \/ \E src \in (R8s \ {"h", "l"}) \cup {"imm"} :
         Does("LD", dst, src, in, SetData(r, dst, Data(src, in)), 2 + Bytes(src), <<>>, <<>>)
    \/ \E src \in HXY \cup LXY :
         /\ ixy[src] = ixy[dst]
         /\ Does("LD", dst, src, in, SetData(r, dst, Data(src, in)), 2, <<>>, <<>>)
LoadA == \E in \in Operands :
    \/ Does("LDA", "a", "nn", in, [r EXCEPT !.a = in.val], 3, <<GET_ADDR(in)>>, <<>>)
    \/ Does("STA", "nn", "a", in, r, 3, <<>>, <<<<GET_ADDR(in), r.a>>>>)
    \/ \E p \in {"bc", "de"} :
         \/ Does("LDA", "a", p, in, [r EXCEPT !.a = in.val], 1, <<rp(p)>>, <<>>)
         \/ Does("STA", p, "a", in, r, 1, <<>>, <<<<rp(p), r.a>>>>)
Load16 == \E in \in Operands, p \in {"bc", "de", "hl", "sp"} \cup Index :
    LET len == 3 + IF p = "hl" THEN 0 ELSE 1
    IN  \/ Does("LD16", p, "", in, SetPair(r, p, GET_ADDR(in)), 3 + Bytes(p), <<>>, <<>>)
        \/ Does("LD16M", p, "", in, SetPair(r, p, in.ptr), len, READ_WORD(GET_ADDR(in)), <<>>)
        \/ Does("ST16", "", p, in, r, len, <<>>, WRITE_WORD(GET_ADDR(in), rp(p)))
LoadSP == \E p \in {"hl"} \cup Index :
    Does("LDSP", "", p, [lo |-> 0], [r EXCEPT !.sp = rp(p)], 1 + Bytes(p), <<>>, <<>>)

Exchange ==
    \/ Simple("EXAF", [r EXCEPT !.a = r.alt.a, !.f = r.alt.f, !.alt.a = r.a, !.alt.f = r.f])
    \/ Simple("EXDE", SetPair(SetPair(r, "hl", rp("de")), "de", rp("hl")))
    \/ Simple("EXX", [SetPair(SetPair(SetPair(r, "bc", r.alt.bc), "de", r.alt.de), "hl",
                              r.alt.hl)
                      EXCEPT !.alt.bc = rp("bc"), !.alt.de = rp("de"), !.alt.hl = rp("hl")])
ExchangeSP == \E p \in {"hl"} \cup Index, in \in Operands :
    Does("EXSP", p, "", in, SetPair(r, p, in.ptr), 1 + Bytes(p), READ_WORD(r.sp),
         WRITE_WORD(r.sp, rp(p)))
Special ==
    \/ Simple("NOP", r)
    \/ Simple("DI", [r EXCEPT !.iff1 = 0, !.iff2 = 0])
    \/ Simple("EI", [r EXCEPT !.iff1 = 1, !.iff2 = 1])
    \/ Does("LDIA", "", "", [lo |-> 0], [r EXCEPT !.i = r.a], 2, <<>>, <<>>)
    \/ Does("LDAI", "", "", [lo |-> 0],
            [r EXCEPT !.a = r.i, !.f = ((@ & C01) + SZ28C(r.i)) | ((r.iff2 * 4) & V04)], 2,
            <<>>, <<>>)
    \/ \E in \in Operands :
         in.bit < 3 /\ Does("IM", "", "", in, [r EXCEPT !.im = in.bit], 2, <<>>, <<>>)

-----------------------------------------------------------------------------
(***************************************************************************)
(* Arithmetic and logic.                                                   *)
(***************************************************************************)
adc_data_faulty(a, m, carry, sub) == \* mutant: the carry is not in the half-carry
    LET n      == IF sub THEN N02 ELSE 0
        result == a + IF sub THEN -(m + carry) ELSE m + carry
        data   == ((m + carry) ^^ a) ^^ Bits(result)
    IN  [a |-> Byte(result),
         f |-> ((n | (data & H10)) | ((Bits(data + 128) \div 64) & V04))
               | SZ28C(result % 512)]
adc_data(a, m, carry, sub) ==
    LET n      == IF sub THEN N02 ELSE 0
        result == a + IF sub THEN -(m + carry) ELSE m + carry
        data   == (m ^^ a) ^^ Bits(result)
    IN  [a |-> Byte(result),
         f |-> ((n | (data & H10)) | ((Bits(data + 128) \div 64) & V04))
               | SZ28C(result % 512)]
Adc == \E src \in Sources \cup {"imm"}, in \in Operands :
    \E f \in {<<"ADD", 0, FALSE>>, <<"ADC", r.f & C01, FALSE>>,
              <<"SUB", 0, TRUE>>, <<"SBC", r.f & C01, TRUE>>} :
        LET res == adc_data(r.a, Data(src, in), f[2], f[3])
        IN  Does(f[1], "a", src, in, [r EXCEPT !.a = res.a, !.f = res.f], 1 + Bytes(src),
                 READ(src, in), <<>>)
Neg == LET res == adc_data(0, r.a, 0, TRUE)
       IN  Does("NEG", "a", "", [lo |-> 0], [r EXCEPT !.a = res.a, !.f = res.f], 2, <<>>, <<>>)

cp_data(data) ==
    LET result == Bits(r.a - data)
        xor    == data ^^ r.a
    IN  (((N02 | (data & F28)) | ((result \div 256) & C01))
         | ((((result ^^ r.a) & xor) \div 32) & V04))
        | ((((xor & H10) ^^ result) & (S80 + H10)) | When(Byte(result) = 0, Z40))
Cp == \E src \in Sources \cup {"imm"}, in \in Operands :
    Does("CP", "a", src, in, [r EXCEPT !.f = cp_data(Data(src, in))], 1 + Bytes(src),
         READ(src, in), <<>>)

Logic == \E src \in Sources \cup {"imm"}, in \in Operands :
    LET m == Data(src, in)
    IN  \E f \in {<<"AND", r.a & m, H10>>, <<"OR", r.a | m, 0>>, <<"XOR", r.a ^^ m, 0>>} :
            Does(f[1], "a", src, in, [r EXCEPT !.a = f[2], !.f = SZ28P(f[2]) | f[3]],
                 1 + Bytes(src), READ(src, in), <<>>)

inc_set_flags(data) == ((r.f & C01) | (Bits((data % 16) - 1) & H10))
                       | (SZ28C(Byte(data)) | When(data = 128, V04))
dec_set_flags(data) == ((r.f & C01) | (N02 | (((data % 16) + 1) & H10)))
                       | (SZ28C(Byte(data)) | When(data = 127, V04))
IncDec == \E dst \in Sources, in \in Operands :
    LET m == Data(dst, in)
        up == m + 1
        down == Bits(m - 1)
        Step(op, val, f) == Does(op, dst, "", in, SetData([r EXCEPT !.f = f], dst, Byte(val)),
                                 1 + Bytes(dst), READ(dst, in), WRITE(dst, in, val))
        cut(val) == IF dst \in Memory THEN val ELSE Byte(val)
    IN  \/ Step("INC", up, inc_set_flags(cut(up)))
        \/ Step("DEC", down, dec_set_flags(cut(down)))
IncDec16 == \E p \in {"bc", "de", "hl", "sp"} \cup Index :
    \/ Does("INC16", p, "", [lo |-> 0], SetPair(r, p, Word(rp(p) + 1)), 1 + Bytes(p), <<>>, <<>>)
    \/ Does("DEC16", p, "", [lo |-> 0], SetPair(r, p, Word(rp(p) - 1)), 1 + Bytes(p), <<>>, <<>>)

\* add_hl_data and add_ixy_data.
Add16 == \E dst \in {"hl"} \cup Index, src \in {"bc", "sp"} :
    LET sum == rp(dst) + rp(src)
        xor == (rp(src) ^^ rp(dst)) ^^ sum
    IN  Does("ADD16", dst, src, [lo |-> 0],
             SetPair([r EXCEPT !.f = ((@ & SZP) | (sum \div 65536))
                                     | (((sum \div 256) & F28) | ((xor \div 256) & H10))],
                     dst, Word(sum)), 1 + Bytes(dst), <<>>, <<>>)
Adc16 == \E src \in {"bc", "hl", "sp"} : \E f \in {<<"ADC16", 1, 0>>, <<"SBC16", -1, N02>>} :
    LET sum  == Bits(rp("hl") + f[2] * (rp(src) + (r.f & C01)))
        temp == (rp(src) ^^ rp("hl")) ^^ sum
    IN  Does(f[1], "hl", src, [lo |-> 0],
             SetPair([r EXCEPT !.f = ((f[3] | ((sum \div 65536) & C01))
                          | (((temp \div 256) & H10) | ((sum \div 256) & (S80 + F28))))
                          | (((Bits(temp + 32768) \div 16384) & V04)
                             | When(Word(sum) = 0, Z40))],
                     "hl", Word(sum)), 2, <<>>, <<>>)

Daa == LET flags  == r.f | When(r.a > 153, C01)
           adjust == When((flags & C01) # 0, 96)
                     | When((flags & H10) # 0 \/ (r.a & 15) > 9, 6)
           a      == r.a + IF (flags & N02) # 0 THEN -adjust ELSE adjust
       IN  Simple("DAA", [r EXCEPT !.a = Byte(a),
                              !.f = ((flags & (C01 + N02)) | ((r.a ^^ Bits(a)) & H10))
                                    | SZ28P(Byte(a))])
Complement ==
    \/ LET temp == 255 - r.a
       IN  Simple("CPL", [r EXCEPT !.a = temp, !.f = ((@ & (SZP + C01)) | (temp & F28))
                                                     | (H10 + N02)])
    \/ Simple("CCF", [r EXCEPT !.f = (((@ & (SZP + C01)) ^^ C01) | ((@ * 16) & H10))
                                     | (r.a & F28)])
    \/ Simple("SCF", [r EXCEPT !.f = ((@ & SZP) | C01) | (r.a & F28)])

-----------------------------------------------------------------------------
(***************************************************************************)
(* Rotates and the CB prefix.                                              *)
(***************************************************************************)
RotateA ==
    LET Rotates(op, temp, carry) ==
            Simple(op, [r EXCEPT !.a = Byte(temp), !.f = ((@ & SZP) | (temp & F28)) | carry])
        rlca == (2 * r.a) | (r.a \div 128)
        rla  == (2 * r.a) | (r.f & C01)
    IN  \/ Rotates("RLCA", rlca, rlca & C01)
        \/ Rotates("RRCA", (r.a * 128) | (r.a \div 2), r.a & C01)
        \/ Rotates("RLA", rla, rla \div 256)
        \/ Rotates("RRA", (r.f * 128) | (r.a \div 2), r.a & C01)

\* RLC and so on: the result and its flags.
Right(m, result) == [val |-> result, f |-> SZ28P(result) | (m & C01)]
CBRotate(op, m) ==
    CASE op = "RLC" -> LET result == Byte(2 * m) | (m \div 128)
                       IN  [val |-> result, f |-> SZ28P(result) | (result & C01)]
      [] op = "RL" -> LET result == (2 * m) | (r.f & C01) IN [val |-> result, f |-> szpc[result]]
      [] op = "SLA" -> [val |-> 2 * m, f |-> szpc[2 * m]]
      [] op = "SLL" -> [val |-> (2 * m) | 1, f |-> szpc[(2 * m) | 1]]
      [] op = "RRC" -> Right(m, Byte(m * 128) | (m \div 2))
      [] op = "RR" -> Right(m, Byte(r.f * 128) | (m \div 2))
      [] op = "SRA" -> Right(m, (m & 128) | (m \div 2))
      [] op = "SRL" -> Right(m, m \div 2)

\* The operand of an instruction with the CB prefix, its result, and the clocks
\* (HL) takes more.
CB(op, dst, in, next, val, write, clocks) ==
    Did(op, dst, "", in, SetData(next, dst, Byte(val)), r.pc + 2 + Bytes(dst),
        READ(dst, in), IF write THEN WRITE(dst, in, val) ELSE <<>>, <<>>,
        IF dst = "(hl)" THEN clocks ELSE 0)
Rotate == \E op \in {"RLC", "RL", "SLA", "SLL", "RRC", "RR", "SRA", "SRL"},
             dst \in R8s \cup Memory, in \in Operands :
    LET res == CBRotate(op, Data(dst, in))
    IN  CB(op, dst, in, [r EXCEPT !.f = res.f], res.val, TRUE, 7)
BitTest == \E dst \in R8s \cup Memory, in \in Operands :
    LET temp   == Data(dst, in)
        masked == temp & (2^in.bit)
        kept   == (r.f & C01) | IF dst \in Memory THEN 0 ELSE temp & F28
    IN  CB("BIT", dst, in,
           [r EXCEPT !.f = (kept | (masked & S80))
                           | (H10 | ((Bits(masked - 1) \div 256) & (Z40 + P04)))],
           temp, FALSE, 4)
SetRes == \E dst \in R8s \cup Memory, in \in Operands :
    LET temp == Data(dst, in) | (2^in.bit)
    IN  \/ CB("SET", dst, in, r, temp, TRUE, 7)
        \/ CB("RES", dst, in, r, temp ^^ (2^in.bit), TRUE, 7)

Digits == \E in \in Operands :
    LET Step(op, mem, temp) ==
            Does(op, "", "", in, [r EXCEPT !.a = temp, !.f = (@ & C01) | SZ28P(temp)], 2,
                 <<rp("hl")>>, <<<<rp("hl"), Byte(mem)>>>>)
    IN  \/ Step("RRD", (r.a * 16) | (in.val \div 16), (r.a & 240) | (in.val & 15))
        \/ Step("RLD", (in.val * 16) | (r.a & 15), (r.a & 240) | (in.val \div 16))

-----------------------------------------------------------------------------
(***************************************************************************)
(* Blocks and ports.                                                       *)
(***************************************************************************)
Moved(regs, name, in) == SetPair(regs, name, Word(rp(name) + IF in.down THEN -1 ELSE 1))
Counted(regs) == SetPair(regs, "bc", Word(rp("bc") - 1))
More == rp("bc") # 1
Block(op, in, next, again, at, out, io) ==
    Did(op, "", "", in, next, IF again THEN r.pc ELSE r.pc + 2, at, out, io,
        IF again THEN 5 ELSE 0)

CPI == \E op \in {"CPI", "CPIR"}, in \in Operands :
    LET result == Bits(r.a - in.val)
        flags  == ((r.f & C01) | N02)
                  | (((((in.val ^^ r.a) & H10) ^^ result) & (S80 + H10))
                     | When(Byte(result) = 0, Z40))
        less   == Bits(result - ((flags & H10) \div 16))
        all    == (flags | (less & F08)) | (((less * 16) & F20) | When(More, V04))
    IN  Block(op, in, Counted(Moved([r EXCEPT !.f = all], "hl", in)),
              More /\ (all & Z40) = 0 /\ op = "CPIR", <<rp("hl")>>, <<>>, <<>>)
LDI == \E op \in {"LDI", "LDIR"}, in \in Operands :
    LET temp == in.val + r.a
        all  == ((r.f & ((S80 + Z40) + C01)) | (temp & F08))
                | (((temp * 16) & F20) | When(More, V04))
    IN  Block(op, in, Counted(Moved(Moved([r EXCEPT !.f = all], "hl", in), "de", in)),
              More /\ op = "LDIR", <<rp("hl")>>, <<<<rp("de"), in.val>>>>, <<>>)
BlockPorts == \E in \in Operands :
    LET b == Byte(r.b - 1)
        next == Moved([r EXCEPT !.b = b, !.f = ((in.val \div 64) & N02) | SZ28C(b)], "hl", in)
    IN  \/ \E op \in {"OUTI", "OTIR"} :
             Block(op, in, next, b # 0 /\ op = "OTIR", <<rp("hl")>>, <<>>,
                   <<<<256 * b + r.c, in.val>>>>)
        \/ \E op \in {"INI", "INIR"} :
             Block(op, in, next, b # 0 /\ op = "INIR", <<>>, <<<<rp("hl"), in.val>>>>,
                   <<<<rp("bc"), -1>>>>)
Ports == \E in \in Operands :
    LET Port(op, dst, src, next, io) ==
            Did(op, dst, src, in, next, r.pc + 2, <<>>, <<>>, <<io>>, 0)
    IN  \/ Port("OUTA", "", "", r, <<in.lo + r.a * 256, r.a>>)
        \/ Port("INA", "", "", [r EXCEPT !.a = in.val], <<in.lo + r.a * 256, -1>>)
        \/ \E dst \in R8s \cup {""} :
             LET next == [r EXCEPT !.f = (@ & C01) | SZ28P(in.val)]
             IN  Port("INC_", dst, "", IF dst = "" THEN next ELSE [next EXCEPT ![dst] = in.val],
                      <<rp("bc"), -1>>)
        \/ \E src \in R8s \cup {""} :
             Port("OUTC", "", src, r, <<rp("bc"), IF src = "" THEN 0 ELSE r[src]>>)

-----------------------------------------------------------------------------
(***************************************************************************)
(* Flow and stack.                                                         *)
(***************************************************************************)
Has(flag) == (r.f & flag) # 0
Conds == {<<"nz", ~Has(Z40)>>, <<"z", Has(Z40)>>, <<"nc", ~Has(C01)>>, <<"c", Has(C01)>>,
          <<"po", ~Has(P04)>>, <<"pe", Has(P04)>>, <<"p", ~Has(S80)>>, <<"m", Has(S80)>>,
          <<"", TRUE>>}
Flow(op, src, in, next, pc, at, out, extra) ==
    Did(op, "", src, in, next, pc, at, out, <<>>, extra)

JR(op, src, in, next, cond) ==
    Flow(op, src, in, next, IF cond THEN Word(r.pc + 2 + Displacement(in.lo)) ELSE r.pc + 2,
         <<>>, <<>>, IF cond THEN 0 ELSE -5)
JumpsRelative == \E in \in Operands :
    \/ \E cond \in {c \in Conds : c[1] \in {"nz", "z", "nc", "c", ""}} :
         JR("JR", cond[1], in, r, cond[2])
    \/ JR("DJNZ", "", in, [r EXCEPT !.b = Byte(@ - 1)], r.b - 1 # 0)

push_data(op, src, in, next, data, pc) ==
    LET sp == Word(r.sp - 2)
    IN  Flow(op, src, in, [next EXCEPT !.sp = sp], pc, <<>>, WRITE_WORD(sp, Word(data)), 0)
ret_taken(op, src, in, next) ==
    Flow(op, src, in, [next EXCEPT !.sp = Word(@ + 2)], in.ptr, READ_WORD(r.sp), <<>>, 0)
Jumps == \E in \in Operands, cond \in Conds :
    \/ Flow("JP", cond[1], in, r, IF cond[2] THEN GET_ADDR(in) ELSE r.pc + 3, <<>>, <<>>, 0)
    \/ IF cond[2] THEN push_data("CALL", cond[1], in, r, r.pc + 1 + 2, GET_ADDR(in))
       ELSE Flow("CALL", cond[1], in, r, r.pc + 3, <<>>, <<>>, -7)
    \/ IF cond[2] THEN ret_taken("RET", cond[1], in, r)
       ELSE Flow("RET", cond[1], in, r, r.pc + 1, <<>>, <<>>, -6)
Return == \E in \in Operands : ret_taken("RETN", "", in, [r EXCEPT !.iff1 = r.iff2])
JumpTo == \E p \in {"hl"} \cup Index : Flow("JPR", p, [lo |-> 0], r, rp(p), <<>>, <<>>, 0)
Halt == Flow("HALT", "", [lo |-> 0], r, r.pc, <<>>, <<>>, 0)

\* RST 38 (0xFF) from idle_addr on: the program waits.
idle_addr == 65535
Rst == \E in \in Operands :
    /\ ~(Wide /\ in.bit = 7 /\ r.pc + 1 > idle_addr)
    /\ push_data("RST", "", in, r, r.pc + 1, in.bit * 8)
Idle == /\ Wide /\ r.pc + 1 > idle_addr
        /\ executed' = executed + 1
        /\ bus' = [op |-> "idle"]
        /\ UNCHANGED r

PushPop == \E p \in {"bc", "hl", "af"} \cup Index :
    \/ push_data("PUSH", p, [lo |-> 0], r, rp(p), r.pc + 1 + Bytes(p))
    \/ \E in \in Operands :
         Does("POP", p, "", in, SetPair([r EXCEPT !.sp = Word(@ + 2)], p, in.ptr),
              1 + Bytes(p), READ_WORD(r.sp), <<>>)

-----------------------------------------------------------------------------
Init == r \in Registers /\ bus = [op |-> "idle"] /\ executed = 0

Instruction ==
    \/ LoadR \/ StoreR \/ StoreImm \/ LoadHalf \/ LoadA \/ Load16 \/ LoadSP \/ Exchange
    \/ ExchangeSP \/ Special \/ Adc \/ Neg \/ Cp \/ Logic \/ IncDec \/ IncDec16 \/ Add16
    \/ Adc16 \/ Daa \/ Complement \/ RotateA \/ Rotate \/ BitTest \/ SetRes \/ Digits
    \/ CPI \/ LDI \/ BlockPorts \/ Ports \/ JumpsRelative \/ Jumps \/ Return \/ JumpTo
    \/ Halt \/ Rst \/ Idle \/ PushPop

Next == executed < MaxInstructions /\ Instruction


-----------------------------------------------------------------------------
(***************************************************************************)
(* Properties                                                              *)
(***************************************************************************)

\* The checks of the loop but for pc, which may count past 16 bits.
TypeOK ==
    /\ {r.a, r.b, r.c, r.d, r.e, r.h, r.l, r.f} \subseteq 0..255
    /\ {r.sp, r.ix, r.iy} \subseteq 0..65535 /\ r.pc \in 0..65535 + 4

FlagsOf(f) == LET On(flag) == (f & flag) # 0
              IN  [s |-> On(S80), z |-> On(Z40), y |-> On(F20), h |-> On(H10),
                   x |-> On(F08), p |-> On(V04), n |-> On(N02), c |-> On(C01)]
Decoded == [r EXCEPT !.pc = Word(@), !.f = FlagsOf(@), !.alt.f = FlagsOf(@)]


Arch == INSTANCE Z80 WITH reg <- Decoded

\* However wide the integers are that operands and results pass through, each
\* instruction leaves the registers and all eight flags, and makes the accesses,
\* that the processor would.
ImplementsZ80 == [Arch!Next]_<<Decoded, bus>>
=============================================================================
