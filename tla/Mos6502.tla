------------------------------- MODULE Mos6502 -------------------------------
(***************************************************************************)
(* The 6502 as its programmer sees it: registers, six flags, and what each *)
(* instruction reads, writes and pushes.  The emulated CPUs keep the flags *)
(* in forms that are cheap to compute; this module says what those must    *)
(* amount to.                                                              *)
(*                                                                         *)
(* Memory is not part of it: what an instruction reads is any value and    *)
(* comes with the instruction, in bus.                                     *)
(***************************************************************************)
EXTENDS Integers, Sequences, Bitwise

\* What the members of the family differ in.
CONSTANTS
    PageClock,   \* clocks to carry into another page: 1, or 0 if counted always
    NotTaken,    \* clocks of a branch not taken, less those of one taken
    Unused,      \* pushed flags that have no register: 32, or 0
    BreakClearsD \* an interrupt ends decimal mode

VARIABLES
    reg,   \* a, x, y, s, pc, and the flags n, v, d, i, z, c
    bus    \* the last instruction: its name, addressing mode, operand bytes
           \* and what it read (in); its stores in order (out) and the clocks
           \* it took more than its minimum (extra)

Bit(n, k) == (n \div 2^k) % 2 = 1
One(b) == IF b THEN 1 ELSE 0

NZ(f, val) == [f EXCEPT !.n = val >= 128, !.z = val = 0]
Set(f, name, val) == NZ([f EXCEPT ![name] = val], val)

Flags == 128 * One(reg.n) + 64 * One(reg.v) + 8 * One(reg.d) + 4 * One(reg.i)
         + 2 * One(reg.z) + One(reg.c)
Unpack(f, p) == [f EXCEPT !.n = Bit(p, 7), !.v = Bit(p, 6), !.d = Bit(p, 3),
                          !.i = Bit(p, 2), !.z = Bit(p, 1), !.c = Bit(p, 0)]

-----------------------------------------------------------------------------
(***************************************************************************)
(* Operands.                                                               *)
(***************************************************************************)
Length(mode) == CASE mode \in {"imp"} -> 1
                  [] mode \in {"abs", "absx", "absy"} -> 3
                  [] OTHER -> 2

Base(mode, in) == IF mode = "indy" THEN in.ptr
                  ELSE in.lo + 256 * in.hi
Index(mode) == CASE mode \in {"absx", "zpx"} -> reg.x
                 [] mode \in {"absy", "zpy", "indy"} -> reg.y
                 [] OTHER -> 0

\* Indexing in page zero stays there.
Address(mode, in) ==
    CASE mode \in {"zp", "zpx", "zpy"} -> (in.lo + Index(mode)) % 256
      [] mode \in {"indx", "ind"} -> in.ptr
      [] mode \in {"abs", "absx", "absy", "indy"} ->
            (Base(mode, in) + Index(mode)) % 65536
      [] OTHER -> -1

\* Where the pointer is: two bytes of page zero.
Pointer(mode, in) ==
    LET at == (in.lo + IF mode = "indx" THEN reg.x ELSE 0) % 256
    IN  IF mode \in {"indx", "indy", "ind"} THEN <<at, (at + 1) % 256>> ELSE <<>>

Crosses(mode, in) == mode \in {"absx", "absy", "indy"}
                     /\ (Base(mode, in) % 256) + Index(mode) > 255

\* Writes of an instruction at its address.
Store(mode, in, val) == <<<<Address(mode, in), val>>>>

-----------------------------------------------------------------------------
(***************************************************************************)
(* Instructions.                                                           *)
(***************************************************************************)
Is(ops) == bus'.op \in ops

\* The next state, where the program goes on, and what is seen outside.
Effect(next, out, extra) ==
    /\ reg' = [next EXCEPT !.pc = (reg.pc + Length(bus'.mode)) % 65536]
    /\ bus'.out = out /\ bus'.extra = extra
    /\ bus'.addr = Address(bus'.mode, bus'.in)
    /\ bus'.at = Pointer(bus'.mode, bus'.in)

Read(next) == Effect(next, <<>>, PageClock * One(Crosses(bus'.mode, bus'.in)))

Target == [LDA |-> "a", LDX |-> "x", LDY |-> "y"]
Loads == \/ Is(DOMAIN Target) /\ Read(Set(reg, Target[bus'.op], bus'.in.val))
         \/ Is({"LAX"}) /\ Read(Set(Set(reg, "x", bus'.in.val), "a", bus'.in.val))

Stores == /\ Is({"STA", "STX", "STY", "SAX"})
          /\ LET val == CASE bus'.op = "STA" -> reg.a [] bus'.op = "STX" -> reg.x
                          [] bus'.op = "STY" -> reg.y [] OTHER -> reg.a & reg.x
             IN  Effect(reg, Store(bus'.mode, bus'.in, val), 0)

Logic == /\ Is({"AND", "ORA", "EOR"})
         /\ LET m == bus'.in.val
            IN  Read(Set(reg, "a", CASE bus'.op = "AND" -> reg.a & m
                                     [] bus'.op = "ORA" -> reg.a | m
                                     [] OTHER -> reg.a ^^ m))

Signed(b) == IF b >= 128 THEN b - 256 ELSE b

\* A subtraction adds the complement.
AddSub == /\ Is({"ADC", "SBC"})
          /\ LET m   == IF bus'.op = "ADC" THEN bus'.in.val ELSE 255 - bus'.in.val
                 sum == reg.a + m + One(reg.c)
             IN  Read([Set(reg, "a", sum % 256) EXCEPT
                          !.c = sum > 255,
                          !.v = Signed(reg.a) + Signed(m) + One(reg.c)
                                \notin -128..127])

Compares == /\ Is({"CMP", "CPX", "CPY", "SBX"})
            /\ LET m    == bus'.in.val
                   left == CASE bus'.op = "CMP" -> reg.a [] bus'.op = "CPX" -> reg.x
                             [] bus'.op = "CPY" -> reg.y [] OTHER -> reg.a & reg.x
                   next == [NZ(reg, (left - m) % 256) EXCEPT !.c = left >= m]
               IN  Read(IF bus'.op = "SBX" THEN [next EXCEPT !.x = (left - m) % 256]
                        ELSE next)

BitTest == /\ Is({"BIT"})
           /\ LET m == bus'.in.val
              IN  Read([reg EXCEPT !.n = Bit(m, 7), !.v = Bit(m, 6),
                                   !.z = (reg.a & m) = 0])

Shifted(m) == CASE bus'.op = "ASL" -> (2 * m) % 256
                [] bus'.op = "ROL" -> ((2 * m) % 256) + One(reg.c)
                [] bus'.op = "LSR" -> m \div 2
                [] bus'.op = "ROR" -> (m \div 2) + 128 * One(reg.c)
                [] bus'.op = "INC" -> (m + 1) % 256
                [] bus'.op = "DEC" -> (m - 1) % 256
CarryOut(m) == CASE bus'.op \in {"ASL", "ROL"} -> Bit(m, 7)
                 [] bus'.op \in {"LSR", "ROR"} -> Bit(m, 0)
                 [] OTHER -> reg.c

\* Read-modify-write, or of the accumulator; no clock is saved without a
\* carry, so none is added with one.
Modify == /\ Is({"ASL", "ROL", "LSR", "ROR", "INC", "DEC"})
          /\ LET m    == IF bus'.mode = "imp" THEN reg.a ELSE bus'.in.val
                 next == [NZ(reg, Shifted(m)) EXCEPT !.c = CarryOut(m)]
             IN  IF bus'.mode = "imp"
                 THEN Effect([next EXCEPT !.a = Shifted(m)], <<>>, 0)
                 ELSE Effect(next, Store(bus'.mode, bus'.in, Shifted(m)), 0)

Move == [TAX |-> <<"a", "x">>, TXA |-> <<"x", "a">>, TAY |-> <<"a", "y">>,
         TYA |-> <<"y", "a">>, TSX |-> <<"s", "x">>]
Moves == Is(DOMAIN Move)
         /\ Read(Set(reg, Move[bus'.op][2], reg[Move[bus'.op][1]]))

Counts == /\ Is({"INX", "DEX", "INY", "DEY"})
          /\ LET name == IF bus'.op \in {"INX", "DEX"} THEN "x" ELSE "y"
                 by   == IF bus'.op \in {"INX", "INY"} THEN 1 ELSE -1
             IN  Read(Set(reg, name, (reg[name] + by) % 256))

FlagOps == /\ Is({"SEC", "CLC", "CLV", "CLD", "SED", "CLI", "SEI", "TXS", "NOP"})
           /\ Read(CASE bus'.op \in {"SEC", "CLC"} -> [reg EXCEPT !.c = bus'.op = "SEC"]
                     [] bus'.op \in {"SED", "CLD"} -> [reg EXCEPT !.d = bus'.op = "SED"]
                     [] bus'.op \in {"SEI", "CLI"} -> [reg EXCEPT !.i = bus'.op = "SEI"]
                     [] bus'.op = "CLV" -> [reg EXCEPT !.v = FALSE]
                     [] bus'.op = "TXS" -> [reg EXCEPT !.s = reg.x]
                     [] OTHER -> reg)

-----------------------------------------------------------------------------
(***************************************************************************)
(* The program counter and the stack, a page that is used downwards and    *)
(* wraps around.                                                           *)
(***************************************************************************)
Stack(k) == 256 + ((reg.s - k) % 256)
Pushed(vals) == [k \in DOMAIN vals |-> <<Stack(k - 1), vals[k]>>]
Moved(k) == (reg.s + k) % 256

Jumps(next, pc, out, from, extra) ==
    /\ reg' = [next EXCEPT !.pc = pc]
    /\ bus'.out = out /\ bus'.extra = extra
    /\ bus'.addr = -1 /\ bus'.at = from

Taken(op) == CASE op = "BPL" -> ~reg.n [] op = "BMI" -> reg.n
               [] op = "BVC" -> ~reg.v [] op = "BVS" -> reg.v
               [] op = "BCC" -> ~reg.c [] op = "BCS" -> reg.c
               [] op = "BNE" -> ~reg.z [] op = "BEQ" -> reg.z

\* One clock more when taken (the minimum counts it), one more to another page.
Branches ==
    /\ Is({"BPL", "BMI", "BVC", "BVS", "BCC", "BCS", "BNE", "BEQ"})
    /\ LET next == (reg.pc + 2) % 65536
           to   == (next + Signed(bus'.in.lo)) % 65536
       IN  IF Taken(bus'.op)
           THEN Jumps(reg, to, <<>>, <<>>, PageClock * One(to \div 256 # next \div 256))
           ELSE Jumps(reg, next, <<>>, <<>>, NotTaken)

Jump == /\ Is({"JMP"})
        /\ Jumps(reg, bus'.in.lo + 256 * bus'.in.hi, <<>>, <<>>, 0)

\* The pointer of an indirect jump wraps within its page.
JumpIndirect ==
    /\ Is({"JMPI"})
    /\ Jumps(reg, bus'.in.ptr, <<>>,
             <<bus'.in.lo + 256 * bus'.in.hi,
               ((bus'.in.lo + 1) % 256) + 256 * bus'.in.hi>>, 0)

Call == /\ Is({"JSR"})
        /\ LET ret == (reg.pc + 2) % 65536
           IN  Jumps([reg EXCEPT !.s = Moved(-2)], bus'.in.lo + 256 * bus'.in.hi,
                     Pushed(<<ret \div 256, ret % 256>>), <<>>, 0)

Return == /\ Is({"RTS"})
          /\ Jumps([reg EXCEPT !.s = Moved(2)], (bus'.in.ptr + 1) % 65536, <<>>,
                   <<Stack(-1), Stack(-2)>>, 0)

ReturnFromInterrupt ==
    /\ Is({"RTI"})
    /\ Jumps([Unpack(reg, bus'.in.val) EXCEPT !.s = Moved(3)], bus'.in.ptr, <<>>,
             <<Stack(-1), Stack(-2), Stack(-3)>>, 0)

Pushes == /\ Is({"PHA", "PHP"})
          /\ Jumps([reg EXCEPT !.s = Moved(-1)], (reg.pc + 1) % 65536,
                   Pushed(<<IF bus'.op = "PHA" THEN reg.a ELSE Flags + 16 + Unused>>),
                   <<>>, 0)

Pulls == /\ Is({"PLA", "PLP"})
         /\ LET next == [reg EXCEPT !.s = Moved(1)]
            IN  Jumps(IF bus'.op = "PLA" THEN Set(next, "a", bus'.in.val)
                      ELSE Unpack(next, bus'.in.val),
                      (reg.pc + 1) % 65536, <<>>, <<Stack(-1)>>, 0)

Break == /\ Is({"BRK"})
         /\ LET ret == (reg.pc + 2) % 65536
            IN  Jumps([reg EXCEPT !.s = Moved(-3), !.i = TRUE,
                                     !.d = @ /\ ~BreakClearsD], bus'.in.ptr,
                      Pushed(<<ret \div 256, ret % 256, Flags + 16 + Unused>>), <<>>, 0)

\* The emulator stops and starts between two instructions.
Pause == Is({"run"}) /\ UNCHANGED reg

Next == \/ Loads \/ Stores \/ Logic \/ AddSub \/ Compares \/ BitTest \/ Modify
        \/ Moves \/ Counts \/ FlagOps
        \/ Branches \/ Jump \/ JumpIndirect \/ Call \/ Return
        \/ ReturnFromInterrupt \/ Pushes \/ Pulls \/ Break \/ Pause

=============================================================================
