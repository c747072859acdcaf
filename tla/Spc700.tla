-------------------------------- MODULE Spc700 --------------------------------
(***************************************************************************)
(* The processor of the SNES's sound module as its programmer sees it:     *)
(* registers, flags, and the reads, writes and pushes of each instruction  *)
(* in their order.  What an instruction reads is any value and comes with  *)
(* it.                                                                     *)
(***************************************************************************)
EXTENDS Integers, Sequences, Bitwise, SequencesExt

VARIABLES
    reg,   \* a, x, y, s, pc, and the flags n, v, p, b, h, i, z, c
    bus    \* the last instruction (op, mode, in), its accesses <<address,
           \* value or -1 for a read, clocks before its end>> (acc), the bytes
           \* it pushed or pulled (stack), where it read a pointer (ptr), and
           \* the clocks it took less than its entry in the table (less)

Bit(n, k) == (n \div 2^k) % 2 = 1
One(b) == IF b THEN 1 ELSE 0
Signed(b) == IF b >= 128 THEN b - 256 ELSE b
Put(val, k, b) == (val - 2^k * One(Bit(val, k))) + 2^k * One(b)

NZ(f, val) == [f EXCEPT !.n = Bit(val, 7), !.z = val = 0]
Set(f, name, val) == NZ([f EXCEPT ![name] = val], val)
Set16(f, w) == [f EXCEPT !.a = w % 256, !.y = w \div 256, !.n = Bit(w, 15), !.z = w = 0]

PSW == 128 * One(reg.n) + 64 * One(reg.v) + 32 * One(reg.p) + 16 * One(reg.b)
       + 8 * One(reg.h) + 4 * One(reg.i) + 2 * One(reg.z) + One(reg.c)
Unpack(f, w) == [f EXCEPT !.n = Bit(w, 7), !.v = Bit(w, 6), !.p = Bit(w, 5),
                          !.b = Bit(w, 4), !.h = Bit(w, 3), !.i = Bit(w, 2),
                          !.z = Bit(w, 1), !.c = Bit(w, 0)]

Is(ops) == bus'.op \in ops
In == bus'.in
Mode == bus'.mode
YA == 256 * reg.y + reg.a
Absolute == In.lo + 256 * In.hi

-----------------------------------------------------------------------------
(***************************************************************************)
(* Operands.                                                               *)
(***************************************************************************)
\* A direct page address.
DP(k) == 256 * One(reg.p) + (k % 256)

Address ==
    CASE Mode \in {"(X)", "(X)+"} -> DP(reg.x)
      [] Mode = "dp" -> DP(In.lo)
      [] Mode = "dp+X" -> DP(In.lo + reg.x)
      [] Mode = "dp+Y" -> DP(In.lo + reg.y)
      [] Mode = "abs" -> Absolute
      [] Mode = "abs+X" -> (Absolute + reg.x) % 65536
      [] Mode = "abs+Y" -> (Absolute + reg.y) % 65536
      [] Mode = "(dp+X)" -> In.ptr
      [] Mode = "(dp)+Y" -> (In.ptr + reg.y) % 65536
      \* two operands: the one that is changed
      [] Mode = "(X),(Y)" -> DP(reg.x)
      [] Mode \in {"dp,dp", "dp,imm"} -> DP(In.hi)
Pointer == CASE Mode = "(dp+X)" -> <<DP(In.lo + reg.x)>>
             [] Mode = "(dp)+Y" -> <<DP(In.lo)>>
             [] OTHER -> <<>>
Length == CASE Mode \in {"", "(X)", "(X)+", "(X),(Y)"} -> 1
            [] Mode \in {"abs", "abs+X", "abs+Y", "dp,dp", "dp,imm"} -> 3
            [] OTHER -> 2

R(addr) == <<addr, -1>>
W(addr, val) == <<addr, val>>

\* An instruction's accesses are those, each in a clock of its own.
Accesses(seq) ==
    /\ [k \in DOMAIN bus'.acc |-> <<bus'.acc[k][1], bus'.acc[k][2]>>] = seq
    /\ \A k \in DOMAIN seq : bus'.acc[k][3] <= k - Len(seq)
    /\ \A k \in 2..Len(seq) : bus'.acc[k - 1][3] < bus'.acc[k][3]

GoTo(next, pc, seq, stack, ptr) ==
    /\ reg' = [next EXCEPT !.pc = pc % 65536]
    /\ Accesses(seq) /\ bus'.stack = stack /\ bus'.ptr = ptr
Effect(next, seq) ==
    GoTo(next, reg.pc + Length, seq, <<>>, Pointer) /\ bus'.less = 0

Immediate == Mode = "imm"
ReadOne == IF Immediate THEN <<>> ELSE <<R(Address)>>
Operand == IF Immediate THEN In.lo ELSE In.val

-----------------------------------------------------------------------------
(***************************************************************************)
(* Bytes.                                                                  *)
(***************************************************************************)
Dest == [MOVA |-> "a", MOVX |-> "x", MOVY |-> "y"]
Load == Is(DOMAIN Dest) /\ LET next == Set(reg, Dest[bus'.op], Operand)
                           IN  Effect(IF Mode = "(X)+"
                                      THEN [next EXCEPT !.x = (reg.x + 1) % 256]
                                      ELSE next, ReadOne)
Source == [STA |-> "a", STX |-> "x", STY |-> "y"]
Store == /\ Is(DOMAIN Source)
         /\ Effect(IF Mode = "(X)+" THEN [reg EXCEPT !.x = (@ + 1) % 256] ELSE reg,
                   <<W(Address, reg[Source[bus'.op]])>>)
Copy == /\ Is({"MOV"})
        /\ Effect(reg, IF Mode = "dp,dp" THEN <<R(DP(In.lo)), W(Address, In.val)>>
                       ELSE <<W(Address, In.lo)>>)
Between == [TAX |-> <<"a", "x">>, TXA |-> <<"x", "a">>, TAY |-> <<"a", "y">>,
            TYA |-> <<"y", "a">>, TSX |-> <<"s", "x">>]
Transfer == \/ /\ Is(DOMAIN Between)
               /\ Effect(Set(reg, Between[bus'.op][2], reg[Between[bus'.op][1]]), <<>>)
            \/ Is({"TXS"}) /\ Effect([reg EXCEPT !.s = reg.x], <<>>)

\* The result of an operation on two bytes, and the flags after it.
Result(left, m) ==
    LET d   == IF bus'.op = "SBC" THEN 255 - m ELSE m
        sum == left + d + One(reg.c)
    IN  CASE bus'.op = "AND" -> [val |-> left & m, f |-> NZ(reg, left & m)]
          [] bus'.op = "OR" -> [val |-> left | m, f |-> NZ(reg, left | m)]
          [] bus'.op = "EOR" -> [val |-> left ^^ m, f |-> NZ(reg, left ^^ m)]
          [] bus'.op \in {"CMP", "CPX", "CPY"} ->
               [val |-> left, f |-> [NZ(reg, (left - m) % 256) EXCEPT !.c = left >= m]]
          [] OTHER ->
               [val |-> sum % 256,
                f |-> [NZ(reg, sum % 256) EXCEPT
                          !.c = sum > 255,
                          !.h = (left % 16) + (d % 16) + One(reg.c) > 15,
                          !.v = Signed(left) + Signed(d) + One(reg.c) \notin -128..127]]
Alu == {"AND", "OR", "EOR", "CMP", "ADC", "SBC"}

\* With the accumulator, or between two bytes in memory.
WithA == /\ Is(Alu) /\ Mode \notin {"(X),(Y)", "dp,dp", "dp,imm"}
         /\ LET res == Result(reg.a, Operand)
            IN  Effect([res.f EXCEPT !.a = res.val], ReadOne)
InMemory ==
    /\ Is(Alu) /\ Mode \in {"(X),(Y)", "dp,dp", "dp,imm"}
    /\ LET m   == IF Mode = "dp,imm" THEN In.lo ELSE In.val
           res == Result(In.val2, m)
       IN  Effect(res.f, (CASE Mode = "(X),(Y)" -> <<R(DP(reg.y))>>
                            [] Mode = "dp,dp" -> <<R(DP(In.lo))>>
                            [] OTHER -> <<>>)
                         \o <<R(Address)>>
                         \o (IF bus'.op = "CMP" THEN <<>> ELSE <<W(Address, res.val)>>))
CompareXY == /\ Is({"CPX", "CPY"})
             /\ Effect(Result(IF bus'.op = "CPX" THEN reg.x ELSE reg.y, Operand).f,
                       ReadOne)

Changed(m) == CASE bus'.op = "INC" -> (m + 1) % 256
                [] bus'.op = "DEC" -> (m - 1) % 256
                [] bus'.op = "ASL" -> (2 * m) % 256
                [] bus'.op = "ROL" -> ((2 * m) % 256) + One(reg.c)
                [] bus'.op = "LSR" -> m \div 2
                [] bus'.op = "ROR" -> (m \div 2) + 128 * One(reg.c)
CarryOut(m) == CASE bus'.op \in {"INC", "DEC"} -> reg.c
                 [] bus'.op \in {"ASL", "ROL"} -> Bit(m, 7)
                 [] OTHER -> Bit(m, 0)
Modify ==
    /\ Is({"INC", "DEC", "ASL", "ROL", "LSR", "ROR"})
    /\ LET m    == IF Mode = "" THEN reg[In.name] ELSE In.val
           next == [NZ(reg, Changed(m)) EXCEPT !.c = CarryOut(m)]
       IN  IF Mode = "" THEN Effect([next EXCEPT ![In.name] = Changed(m)], <<>>)
           ELSE Effect(next, <<R(Address), W(Address, Changed(m))>>)
Exchange == /\ Is({"XCN"})
            /\ Effect(Set(reg, "a", 16 * (reg.a % 16) + (reg.a \div 16)), <<>>)

-----------------------------------------------------------------------------
(***************************************************************************)
(* Words: YA, and two bytes of the direct page, which wraps around.        *)
(***************************************************************************)
Low == DP(In.lo)
High == DP(In.lo + 1)
Memory16 == In.val + 256 * In.val2
Both == <<R(Low), R(High)>>

Words ==
    \/ Is({"MOVWYA"}) /\ Effect(Set16(reg, Memory16), Both)
    \/ Is({"MOVWM"}) /\ Effect(reg, <<W(Low, reg.a), W(High, reg.y)>>)
    \/ /\ Is({"INCW", "DECW"})
       /\ LET w == (Memory16 + IF bus'.op = "INCW" THEN 1 ELSE -1) % 65536
          IN  Effect([reg EXCEPT !.n = Bit(w, 15), !.z = w = 0],
                     <<R(Low), W(Low, w % 256), R(High), W(High, w \div 256)>>)
    \/ /\ Is({"CMPW"})
       /\ LET w == (YA - Memory16) % 65536
          IN  Effect([reg EXCEPT !.n = Bit(w, 15), !.z = w = 0, !.c = YA >= Memory16],
                     Both)
\* Half-carry and overflow are those of the high bytes.
AddWord ==
    /\ Is({"ADDW", "SUBW"})
    /\ LET m    == IF bus'.op = "ADDW" THEN Memory16 ELSE 65535 - Memory16
           cin  == One(bus'.op = "SUBW")
           sum  == YA + m + cin
           sign == [w \in {YA, m} |-> IF w >= 32768 THEN w - 65536 ELSE w]
       IN  Effect([Set16(reg, sum % 65536) EXCEPT
                      !.c = sum > 65535,
                      !.h = (YA % 4096) + (m % 4096) + cin > 4095,
                      !.v = sign[YA] + sign[m] + cin \notin -32768..32767], Both)
\* n is bit 15 and z says whether the product is zero.
Multiply == Is({"MUL"}) /\ Effect(Set16(reg, reg.y * reg.a), <<>>)

\* Nine times: rotate 17 bits left, subtract the divisor if it fits or the top
\* bit came round.
DivideStep(w) ==
    LET top  == 512 * reg.x
        rot  == ((2 * w) % 131072) + (w \div 65536)
        flip == IF rot >= top THEN IF rot % 2 = 1 THEN rot - 1 ELSE rot + 1 ELSE rot
    IN  IF flip % 2 = 1 THEN (flip - top) % 131072 ELSE flip
Divide ==
    /\ Is({"DIV"})
    /\ LET w == FoldLeft(LAMBDA acc, k : DivideStep(acc), YA, <<1, 2, 3, 4, 5, 6, 7, 8, 9>>)
       IN  Effect([Set(reg, "a", w % 256) EXCEPT
                      !.y = w \div 512, !.v = Bit(w, 8),
                      !.h = (reg.y % 16) >= (reg.x % 16)], <<>>)

\* Decimal digits are put right after an addition or a subtraction.
Decimal ==
    LET add   == bus'.op = "DAA"
        sixty == reg.a > 153 \/ reg.c = add
        a1    == (reg.a + IF ~sixty THEN 0 ELSE IF add THEN 96 ELSE -96) % 256
        six   == (a1 % 16) > 9 \/ reg.h = add
        a2    == (a1 + IF ~six THEN 0 ELSE IF add THEN 6 ELSE -6) % 256
    IN  /\ Is({"DAA", "DAS"})
        /\ Effect([Set(reg, "a", a2) EXCEPT !.c = IF sixty THEN add ELSE @], <<>>)

-----------------------------------------------------------------------------
(***************************************************************************)
(* Bits and flags.                                                         *)
(***************************************************************************)
Bits == \/ /\ Is({"SET1", "CLR1"})
           /\ Effect(reg, <<R(Address),
                            W(Address, Put(In.val, In.bit, bus'.op = "SET1"))>>)
        \/ /\ Is({"TSET1", "TCLR1"})
           /\ Effect(NZ(reg, (reg.a - In.val) % 256),
                     <<R(Address), W(Address, IF bus'.op = "TSET1" THEN In.val | reg.a
                                              ELSE In.val & (255 - reg.a))>>)

\* The carry and one bit of the first 8K; In.hi holds the bit's number.
BitAddr == Absolute % 8192
Mem == Bit(In.val, Absolute \div 8192)
CarryBits ==
    \/ /\ Is({"AND1", "ANDN1", "OR1", "ORN1", "EOR1", "MOV1"})
       /\ Effect([reg EXCEPT !.c =
              CASE bus'.op = "AND1" -> @ /\ Mem [] bus'.op = "ANDN1" -> @ /\ ~Mem
                [] bus'.op = "OR1" -> @ \/ Mem [] bus'.op = "ORN1" -> @ \/ ~Mem
                [] bus'.op = "EOR1" -> @ # Mem [] OTHER -> Mem], <<R(BitAddr)>>)
    \/ /\ Is({"NOT1", "MOV1M"})
       /\ Effect(reg, <<R(BitAddr), W(BitAddr, Put(In.val, Absolute \div 8192,
                              IF bus'.op = "NOT1" THEN ~Mem ELSE reg.c))>>)

FlagOps ==
    /\ Is({"CLRC", "SETC", "NOTC", "CLRV", "CLRP", "SETP", "EI", "DI", "NOP"})
    /\ Effect(CASE bus'.op = "CLRC" -> [reg EXCEPT !.c = FALSE]
                [] bus'.op = "SETC" -> [reg EXCEPT !.c = TRUE]
                [] bus'.op = "NOTC" -> [reg EXCEPT !.c = ~@]
                [] bus'.op = "CLRV" -> [reg EXCEPT !.v = FALSE, !.h = FALSE]
                [] bus'.op \in {"CLRP", "SETP"} -> [reg EXCEPT !.p = bus'.op = "SETP"]
                [] bus'.op \in {"EI", "DI"} -> [reg EXCEPT !.i = bus'.op = "EI"]
                [] OTHER -> reg, <<>>)

-----------------------------------------------------------------------------
(***************************************************************************)
(* Jumps, calls and the stack, which is the second page and wraps around.  *)
(***************************************************************************)
\* A branch that is not taken takes two clocks less.
Branch(len, taken, next, seq) ==
    /\ GoTo(next, reg.pc + len + IF taken THEN Signed(In.rel) ELSE 0, seq, <<>>, <<>>)
    /\ bus'.less = IF taken THEN 0 ELSE 2

Condition == CASE bus'.op = "BRA" -> TRUE
               [] bus'.op = "BPL" -> ~reg.n [] bus'.op = "BMI" -> reg.n
               [] bus'.op = "BVC" -> ~reg.v [] bus'.op = "BVS" -> reg.v
               [] bus'.op = "BCC" -> ~reg.c [] bus'.op = "BCS" -> reg.c
               [] bus'.op = "BNE" -> ~reg.z [] bus'.op = "BEQ" -> reg.z
Branches ==
    \/ /\ Is({"BRA", "BPL", "BMI", "BVC", "BVS", "BCC", "BCS", "BNE", "BEQ"})
       /\ Branch(2, Condition, reg, <<>>)
    \/ /\ Is({"BBS", "BBC"})
       /\ Branch(3, Bit(In.val, In.bit) = (bus'.op = "BBS"), reg, <<R(Address)>>)
    \/ Is({"CBNE"}) /\ Branch(3, In.val # reg.a, reg, <<R(Address)>>)
    \/ /\ Is({"DBNZ"})
       /\ LET m == ((IF Mode = "" THEN reg.y ELSE In.val) - 1) % 256
          IN  IF Mode = "" THEN Branch(2, m # 0, [reg EXCEPT !.y = m], <<>>)
              ELSE Branch(3, m # 0, reg, <<R(Address), W(Address, m)>>)

Below(k) == 256 + ((reg.s - k) % 256)
Pushed(vals) == [k \in DOMAIN vals |-> <<Below(k - 1), vals[k]>>]
Pulled(n) == [k \in 1..n |-> <<Below(-k), -1>>]
Moved(f, k) == [f EXCEPT !.s = (reg.s + k) % 256]
Flow(next, pc, stack, ptr) == GoTo(next, pc, <<>>, stack, ptr) /\ bus'.less = 0

Jumps ==
    \/ Is({"JMP"}) /\ Flow(reg, Absolute, <<>>, <<>>)
    \/ Is({"JMPX"}) /\ Flow(reg, In.ptr, <<>>, <<(Absolute + reg.x) % 65536>>)
    \/ /\ Is({"CALL", "PCALL", "TCALL"})
       /\ LET ret == (reg.pc + CASE bus'.op = "CALL" -> 3 [] bus'.op = "PCALL" -> 2
                                 [] OTHER -> 1) % 65536
              to  == CASE bus'.op = "CALL" -> Absolute [] bus'.op = "PCALL" -> 65280 + In.lo
                       [] OTHER -> In.ptr
          IN  Flow(Moved(reg, -2), to, Pushed(<<ret \div 256, ret % 256>>),
                   IF bus'.op = "TCALL" THEN <<65502 - 2 * In.bit>> ELSE <<>>)
    \/ /\ Is({"BRK"})
       /\ LET ret == (reg.pc + 1) % 65536
          IN  Flow([Moved(reg, -3) EXCEPT !.b = TRUE, !.i = FALSE], In.ptr,
                   Pushed(<<ret \div 256, ret % 256, PSW>>), <<65502>>)
    \/ Is({"RET"}) /\ Flow(Moved(reg, 2), In.ptr, Pulled(2), <<>>)
    \/ Is({"RET1"}) /\ Flow(Moved(Unpack(reg, In.val), 3), In.ptr, Pulled(3), <<>>)

Stack ==
    \/ /\ Is({"PUSH"})
       /\ Flow(Moved(reg, -1), reg.pc + 1,
               Pushed(<<IF In.name = "psw" THEN PSW ELSE reg[In.name]>>), <<>>)
    \/ /\ Is({"POP"})
       /\ Flow(Moved(IF In.name = "psw" THEN Unpack(reg, In.val)
                     ELSE [reg EXCEPT ![In.name] = In.val], 1),
               reg.pc + 1, Pulled(1), <<>>)

\* SLEEP and STOP stay where they are; the emulator stops and starts between
\* two instructions.
Pause == Is({"SLEEP", "run"}) /\ UNCHANGED reg

Next == \/ Load \/ Store \/ Copy \/ Transfer \/ WithA \/ InMemory \/ CompareXY
        \/ Modify \/ Exchange \/ Words \/ AddWord \/ Multiply \/ Divide \/ Decimal
        \/ Bits \/ CarryBits \/ FlagOps \/ Branches \/ Jumps \/ Stack \/ Pause

=============================================================================
