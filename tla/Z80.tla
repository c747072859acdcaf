---------------------------------- MODULE Z80 ----------------------------------
(***************************************************************************)
(* The Z80 as its programmer sees it: registers, eight flags (two of them, *)
(* y and x, are copies of result bits), and the memory and ports each      *)
(* instruction uses.  What is read is any value and comes with the         *)
(* instruction.                                                            *)
(***************************************************************************)
EXTENDS Integers, Sequences, Bitwise

VARIABLES
    reg,   \* b, c, d, e, h, l, a, ix, iy, sp, pc, f (the flags), alt (the other
           \* bc, de, hl, a, f), iff1, iff2, i, im
    bus    \* the last instruction (op, dst, src, in), memory reads (at) and
           \* writes (out), port accesses (io), clocks beside the tables (extra)

Bit(n, k) == (n \div 2^k) % 2 = 1
One(b) == IF b THEN 1 ELSE 0
Signed(b) == IF b >= 128 THEN b - 256 ELSE b
Parity(n) == LET odd[k \in 0..8] == IF k = 0 THEN FALSE ELSE odd[k - 1] # Bit(n, k - 1)
             IN  ~odd[8]

Is(ops) == bus'.op \in ops
In == bus'.in
Dst == bus'.dst
Src == bus'.src

\* Flags of a result; those that most instructions clear or keep.
SZ(f, val) == [f EXCEPT !.s = Bit(val, 7), !.z = val = 0, !.y = Bit(val, 5),
                        !.x = Bit(val, 3), !.h = FALSE, !.n = FALSE]
SZP(f, val) == [SZ(f, val) EXCEPT !.p = Parity(val)]
YX(f, val) == [f EXCEPT !.y = Bit(val, 5), !.x = Bit(val, 3), !.h = FALSE, !.n = FALSE]
Pack(f) == 128 * One(f.s) + 64 * One(f.z) + 32 * One(f.y) + 16 * One(f.h) + 8 * One(f.x)
           + 4 * One(f.p) + 2 * One(f.n) + One(f.c)
Unpack(w) == [s |-> Bit(w, 7), z |-> Bit(w, 6), y |-> Bit(w, 5), h |-> Bit(w, 4),
              x |-> Bit(w, 3), p |-> Bit(w, 2), n |-> Bit(w, 1), c |-> Bit(w, 0)]

-----------------------------------------------------------------------------
(***************************************************************************)
(* Operands.                                                               *)
(***************************************************************************)
Pair(name) == CASE name = "bc" -> 256 * reg.b + reg.c [] name = "de" -> 256 * reg.d + reg.e
                [] name = "hl" -> 256 * reg.h + reg.l
                [] name = "af" -> 256 * reg.a + Pack(reg.f)
                [] OTHER -> reg[name]
SetPair(m, name, w) ==
    CASE name = "bc" -> [m EXCEPT !.b = w \div 256, !.c = w % 256]
      [] name = "de" -> [m EXCEPT !.d = w \div 256, !.e = w % 256]
      [] name = "hl" -> [m EXCEPT !.h = w \div 256, !.l = w % 256]
      [] name = "af" -> [m EXCEPT !.a = w \div 256, !.f = Unpack(w % 256)]
      [] OTHER -> [m EXCEPT ![name] = w]

Half == [ixh |-> "ix", iyh |-> "iy", ixl |-> "ix", iyl |-> "iy"]
Displaced == [ixd |-> "ix", iyd |-> "iy"]
InMemory(name) == name = "(hl)" \/ name \in DOMAIN Displaced
Address(name) == IF name = "(hl)" THEN Pair("hl")
                 ELSE (reg[Displaced[name]] + Signed(In.lo)) % 65536
Byte(name) ==
    CASE InMemory(name) -> In.val
      [] name = "imm" -> IF Dst \in DOMAIN Displaced THEN In.hi ELSE In.lo
      [] name \in {"ixh", "iyh"} -> reg[Half[name]] \div 256
      [] name \in {"ixl", "iyl"} -> reg[Half[name]] % 256
      [] OTHER -> reg[name]
SetByte(m, name, val) ==
    CASE InMemory(name) -> m
      [] name \in {"ixh", "iyh"} -> [m EXCEPT ![Half[name]] = 256 * val + (@ % 256)]
      [] name \in {"ixl", "iyl"} -> [m EXCEPT ![Half[name]] = (@ - (@ % 256)) + val]
      [] OTHER -> [m EXCEPT ![name] = val]
ReadsOf(name) == IF InMemory(name) THEN <<Address(name)>> ELSE <<>>
WritesOf(name, val) == IF InMemory(name) THEN <<<<Address(name), val>>>> ELSE <<>>

\* How many bytes an operand adds: its prefix, displacement or value.
Size(name) == CASE name \in DOMAIN Displaced -> 2
                [] name \in DOMAIN Half \cup {"imm", "ix", "iy"} -> 1
                [] OTHER -> 0
Immediate == In.lo + 256 * In.hi

\* The second byte of a word at the end of memory is beyond it in the emulator.
SameAddress(real, seen) == seen = real \/ (real = 0 /\ seen = 65536)
Same(real, seen) == /\ Len(real) = Len(seen)
                    /\ \A k \in DOMAIN real : SameAddress(real[k], seen[k])
SameWrites(real, seen) ==
    /\ Len(real) = Len(seen)
    /\ \A k \in DOMAIN real : SameAddress(real[k][1], seen[k][1]) /\ real[k][2] = seen[k][2]

Bus(at, out, io, extra) ==
    Same(at, bus'.at) /\ SameWrites(out, bus'.out) /\ bus'.io = io /\ bus'.extra = extra
Effect(next, len, at, out) ==
    /\ reg' = [next EXCEPT !.pc = (reg.pc + len) % 65536]
    /\ Bus(at, out, <<>>, 0)
Word(at) == <<at, (at + 1) % 65536>>
Wrote(at, w) == <<<<at, w % 256>>, <<(at + 1) % 65536, w \div 256>>>>

-----------------------------------------------------------------------------
(***************************************************************************)
(* Loads and exchanges.                                                    *)
(***************************************************************************)
Load == /\ Is({"LD"})
        /\ Effect(SetByte(reg, Dst, Byte(Src)),
                  1 + IF Dst \in DOMAIN Half /\ Src \in DOMAIN Half THEN 1
                      ELSE Size(Dst) + Size(Src),
                  ReadsOf(Src), WritesOf(Dst, Byte(Src)))
LoadA == \/ /\ Is({"LDA"})
            /\ Effect([reg EXCEPT !.a = In.val], IF Src = "nn" THEN 3 ELSE 1,
                      <<IF Src = "nn" THEN Immediate ELSE Pair(Src)>>, <<>>)
         \/ /\ Is({"STA"})
            /\ Effect(reg, IF Dst = "nn" THEN 3 ELSE 1, <<>>,
                      <<<<IF Dst = "nn" THEN Immediate ELSE Pair(Dst), reg.a>>>>)
\* LD rp,(nn) and LD (nn),rp have a prefix but for HL.
Prefixed(name) == IF name = "hl" THEN 0 ELSE 1
Load16 == \/ Is({"LD16"}) /\ Effect(SetPair(reg, Dst, Immediate), 3 + Size(Dst), <<>>, <<>>)
          \/ /\ Is({"LD16M"})
             /\ Effect(SetPair(reg, Dst, In.ptr), 3 + Prefixed(Dst), Word(Immediate), <<>>)
          \/ /\ Is({"ST16"})
             /\ Effect(reg, 3 + Prefixed(Src), <<>>, Wrote(Immediate, Pair(Src)))
          \/ Is({"LDSP"}) /\ Effect([reg EXCEPT !.sp = Pair(Src)], 1 + Size(Src), <<>>, <<>>)
\* The emulator reads the stack before it writes it, as the processor does.
Exchange ==
    \/ /\ Is({"EXAF"})
       /\ Effect([reg EXCEPT !.a = reg.alt.a, !.f = reg.alt.f, !.alt.a = reg.a,
                             !.alt.f = reg.f], 1, <<>>, <<>>)
    \/ /\ Is({"EXDE"})
       /\ Effect(SetPair(SetPair(reg, "de", Pair("hl")), "hl", Pair("de")), 1, <<>>, <<>>)
    \/ /\ Is({"EXX"})
       /\ Effect([SetPair(SetPair(SetPair(reg, "bc", reg.alt.bc), "de", reg.alt.de), "hl",
                          reg.alt.hl)
                  EXCEPT !.alt.bc = Pair("bc"), !.alt.de = Pair("de"), !.alt.hl = Pair("hl")],
                 1, <<>>, <<>>)
    \/ /\ Is({"EXSP"})
       /\ Effect(SetPair(reg, Dst, In.ptr), 1 + Size(Dst), Word(reg.sp),
                 Wrote(reg.sp, Pair(Dst)))
Special ==
    \/ Is({"LDIA"}) /\ Effect([reg EXCEPT !.i = reg.a], 2, <<>>, <<>>)
    \/ /\ Is({"LDAI"})
       /\ Effect([reg EXCEPT !.a = reg.i, !.f = [SZ(@, reg.i) EXCEPT !.p = reg.iff2 = 1]],
                 2, <<>>, <<>>)
    \/ Is({"DI", "EI"}) /\ LET on == One(bus'.op = "EI")
                           IN  Effect([reg EXCEPT !.iff1 = on, !.iff2 = on], 1, <<>>, <<>>)
    \/ Is({"IM"}) /\ Effect([reg EXCEPT !.im = In.bit], 2, <<>>, <<>>)
    \/ Is({"NOP"}) /\ Effect(reg, 1, <<>>, <<>>)

-----------------------------------------------------------------------------
(***************************************************************************)
(* Arithmetic and logic.                                                   *)
(***************************************************************************)
Sum(left, m, cin) ==
    LET s == left + m + cin
    IN  [val |-> s % 256,
         f |-> [SZ(reg.f, s % 256) EXCEPT
                    !.c = s > 255, !.h = (left % 16) + (m % 16) + cin > 15,
                    !.p = Signed(left) + Signed(m) + cin \notin -128..127]]
Difference(left, m, cin) ==
    LET s == left - m - cin
    IN  [val |-> s % 256,
         f |-> [SZ(reg.f, s % 256) EXCEPT
                    !.n = TRUE, !.c = s < 0, !.h = (left % 16) - (m % 16) - cin < 0,
                    !.p = Signed(left) - Signed(m) - cin \notin -128..127]]
Arith == /\ Is({"ADD", "ADC", "SUB", "SBC", "NEG"})
         /\ LET cin == IF bus'.op \in {"ADC", "SBC"} THEN One(reg.f.c) ELSE 0
                res == CASE bus'.op \in {"ADD", "ADC"} -> Sum(reg.a, Byte(Src), cin)
                         [] bus'.op = "NEG" -> Difference(0, reg.a, 0)
                         [] OTHER -> Difference(reg.a, Byte(Src), cin)
            IN  Effect([reg EXCEPT !.a = res.val, !.f = res.f],
                       1 + Size(Src) + One(bus'.op = "NEG"), ReadsOf(Src), <<>>)
\* A comparison copies bits of its operand.
Compare == /\ Is({"CP"})
           /\ LET f == Difference(reg.a, Byte(Src), 0).f
              IN  Effect([reg EXCEPT !.f = [f EXCEPT !.y = Bit(Byte(Src), 5),
                                                     !.x = Bit(Byte(Src), 3)]],
                         1 + Size(Src), ReadsOf(Src), <<>>)
Logic == /\ Is({"AND", "OR", "XOR"})
         /\ LET val == CASE bus'.op = "AND" -> reg.a & Byte(Src)
                         [] bus'.op = "OR" -> reg.a | Byte(Src)
                         [] OTHER -> reg.a ^^ Byte(Src)
            IN  Effect([reg EXCEPT !.a = val,
                            !.f = [SZP(@, val) EXCEPT !.h = bus'.op = "AND", !.c = FALSE]],
                       1 + Size(Src), ReadsOf(Src), <<>>)
IncDec == /\ Is({"INC", "DEC"})
          /\ LET m   == Byte(Dst)
                 inc == bus'.op = "INC"
                 val == (m + IF inc THEN 1 ELSE -1) % 256
                 f   == [SZ(reg.f, val) EXCEPT
                            !.h = m % 16 = (IF inc THEN 15 ELSE 0), !.n = ~inc,
                            !.p = m = IF inc THEN 127 ELSE 128]
             IN  Effect(SetByte([reg EXCEPT !.f = f], Dst, val), 1 + Size(Dst),
                        ReadsOf(Dst), WritesOf(Dst, val))
IncDec16 == /\ Is({"INC16", "DEC16"})
            /\ Effect(SetPair(reg, Dst,
                        (Pair(Dst) + IF bus'.op = "INC16" THEN 1 ELSE -1) % 65536),
                      1 + Size(Dst), <<>>, <<>>)
Add16 == /\ Is({"ADD16"})
         /\ LET sum == Pair(Dst) + Pair(Src)
            IN  Effect(SetPair([reg EXCEPT !.f = [YX(@, (sum \div 256) % 256) EXCEPT
                                  !.c = sum > 65535,
                                  !.h = (Pair(Dst) % 4096) + (Pair(Src) % 4096) > 4095]],
                               Dst, sum % 65536), 1 + Size(Dst), <<>>, <<>>)
Signed16(w) == IF w >= 32768 THEN w - 65536 ELSE w
AdcSbc16 ==
    /\ Is({"ADC16", "SBC16"})
    /\ LET by  == IF bus'.op = "ADC16" THEN 1 ELSE -1
           m   == Pair(Src)
           cin == One(reg.f.c)
           sum == Pair("hl") + by * (m + cin)
           w   == sum % 65536
       IN  Effect(SetPair([reg EXCEPT !.f = [SZ(@, w \div 256) EXCEPT
                      !.z = w = 0, !.n = by = -1, !.c = sum \notin 0..65535,
                      !.h = (Pair("hl") % 4096) + by * ((m % 4096) + cin) \notin 0..4095,
                      !.p = Signed16(Pair("hl")) + by * (Signed16(m) + cin)
                            \notin -32768..32767]], "hl", w), 2, <<>>, <<>>)
\* After an addition or a subtraction of decimal digits.
DecimalAdjust ==
    /\ Is({"DAA"})
    /\ LET low   == reg.a % 16
           fix   == (IF reg.f.h \/ low > 9 THEN 6 ELSE 0)
                    + (IF reg.f.c \/ reg.a > 153 THEN 96 ELSE 0)
           val   == (reg.a + IF reg.f.n THEN -fix ELSE fix) % 256
       IN  Effect([reg EXCEPT !.a = val, !.f = [SZP(@, val) EXCEPT
                      !.n = reg.f.n, !.c = reg.f.c \/ reg.a > 153,
                      !.h = IF reg.f.n THEN reg.f.h /\ low < 6 ELSE low > 9]], 1, <<>>, <<>>)
Complement ==
    \/ /\ Is({"CPL"})
       /\ Effect([reg EXCEPT !.a = 255 - @, !.f = [YX(@, 255 - reg.a) EXCEPT
                      !.h = TRUE, !.n = TRUE]], 1, <<>>, <<>>)
    \/ Is({"SCF"}) /\ Effect([reg EXCEPT !.f = [YX(@, reg.a) EXCEPT !.c = TRUE]], 1, <<>>, <<>>)
    \/ /\ Is({"CCF"})
       /\ Effect([reg EXCEPT !.f = [YX(@, reg.a) EXCEPT !.c = ~reg.f.c, !.h = reg.f.c]], 1,
                 <<>>, <<>>)

-----------------------------------------------------------------------------
(***************************************************************************)
(* Rotates, shifts and bits; with a prefix, of memory they take longer.    *)
(***************************************************************************)
Rotated(op, m) ==
    CASE op = "RLC" -> ((2 * m) % 256) + (m \div 128)
      [] op = "RL" -> ((2 * m) % 256) + One(reg.f.c)
      [] op = "SLA" -> (2 * m) % 256
      [] op = "SLL" -> ((2 * m) % 256) + 1
      [] op = "RRC" -> (m \div 2) + 128 * (m % 2)
      [] op = "RR" -> (m \div 2) + 128 * One(reg.f.c)
      [] op = "SRA" -> (m \div 2) + (m - (m % 128))
      [] op = "SRL" -> m \div 2
RotatedOut(op, m) == IF op \in {"RLC", "RL", "SLA", "SLL"} THEN Bit(m, 7) ELSE Bit(m, 0)
OfA == [RLCA |-> "RLC", RLA |-> "RL", RRCA |-> "RRC", RRA |-> "RR"]
RotateA == /\ Is(DOMAIN OfA)
           /\ LET op == OfA[bus'.op]
              IN  Effect([reg EXCEPT !.a = Rotated(op, reg.a),
                            !.f = [YX(@, Rotated(op, reg.a)) EXCEPT
                                      !.c = RotatedOut(op, reg.a)]], 1, <<>>, <<>>)
Extra(name, clocks) == IF name = "(hl)" THEN clocks ELSE 0
Prefix(f, name, val, clocks, out) ==
    /\ reg' = [SetByte([reg EXCEPT !.f = f], name, val) EXCEPT
                   !.pc = (reg.pc + 2 + Size(name)) % 65536]
    /\ Bus(ReadsOf(name), IF out THEN WritesOf(name, val) ELSE <<>>, <<>>,
           Extra(name, clocks))
Rotate == /\ Is({"RLC", "RL", "SLA", "SLL", "RRC", "RR", "SRA", "SRL"})
          /\ LET val == Rotated(bus'.op, Byte(Dst))
             IN  Prefix([SZP(reg.f, val) EXCEPT !.c = RotatedOut(bus'.op, Byte(Dst))],
                        Dst, val, 7, TRUE)
SetReset == /\ Is({"SET", "RES"})
            /\ LET m   == Byte(Dst)
                   off == m - 2^In.bit * One(Bit(m, In.bit))
               IN  Prefix(reg.f, Dst, IF bus'.op = "SET" THEN off + 2^In.bit ELSE off, 7, TRUE)
\* The two spare flags are only known of a register.
TestBit ==
    /\ Is({"BIT"})
    /\ LET on == Bit(Byte(Dst), In.bit)
       IN  \E y, x \in BOOLEAN :
               /\ ~InMemory(Dst) => y = Bit(Byte(Dst), 5) /\ x = Bit(Byte(Dst), 3)
               /\ Prefix([reg.f EXCEPT !.s = on /\ In.bit = 7, !.z = ~on, !.p = ~on,
                              !.h = TRUE, !.n = FALSE, !.y = y, !.x = x],
                         Dst, Byte(Dst), 4, FALSE)
Digits == /\ Is({"RLD", "RRD"})
          /\ LET left == bus'.op = "RLD"
                 val  == (reg.a - (reg.a % 16)) + IF left THEN In.val \div 16 ELSE In.val % 16
                 mem  == IF left THEN 16 * (In.val % 16) + (reg.a % 16)
                         ELSE 16 * (reg.a % 16) + (In.val \div 16)
             IN  Effect([reg EXCEPT !.a = val, !.f = SZP(@, val)], 2, <<Pair("hl")>>,
                        <<<<Pair("hl"), mem>>>>)

-----------------------------------------------------------------------------
(***************************************************************************)
(* Blocks and ports.  A repeated instruction goes back to itself.          *)
(***************************************************************************)
Way == IF In.down THEN -1 ELSE 1
Next16(name) == (Pair(name) + Way) % 65536
Repeat(next, again, at, out, io) ==
    /\ reg' = [next EXCEPT !.pc = (reg.pc + IF again THEN 0 ELSE 2) % 65536]
    /\ Bus(at, out, io, IF again THEN 5 ELSE 0)
Left == (Pair("bc") - 1) % 65536
BlockLoad ==
    /\ Is({"LDI", "LDIR"})
    /\ LET t == (In.val + reg.a) % 256
       IN  Repeat(SetPair(SetPair(SetPair([reg EXCEPT !.f = [@ EXCEPT
                      !.n = FALSE, !.h = FALSE, !.p = Left # 0, !.y = Bit(t, 1), !.x = Bit(t, 3)]],
                    "hl", Next16("hl")), "de", Next16("de")), "bc", Left),
                  bus'.op = "LDIR" /\ Left # 0, <<Pair("hl")>>, <<<<Pair("de"), In.val>>>>, <<>>)
BlockCompare ==
    /\ Is({"CPI", "CPIR"})
    /\ LET f == Difference(reg.a, In.val, 0).f
           t == (reg.a - In.val - One(f.h)) % 256
       IN  Repeat(SetPair(SetPair([reg EXCEPT !.f = [f EXCEPT
                      !.c = reg.f.c, !.p = Left # 0, !.y = Bit(t, 1), !.x = Bit(t, 3)]],
                    "hl", Next16("hl")), "bc", Left),
                  bus'.op = "CPIR" /\ Left # 0 /\ ~f.z, <<Pair("hl")>>, <<>>, <<>>)
\* B counts; an input comes before the count, an output after it.  Half-carry,
\* parity and carry are not documented alike anywhere.
BlockPort ==
    /\ Is({"INI", "INIR", "OUTI", "OTIR"})
    /\ LET b == (reg.b - 1) % 256
       IN  \E h, p, c \in BOOLEAN :
           LET next == SetPair([reg EXCEPT !.b = b, !.f = [SZ(@, b) EXCEPT
                           !.n = Bit(In.val, 7), !.h = h, !.p = p, !.c = c]],
                               "hl", Next16("hl"))
               again == bus'.op \in {"INIR", "OTIR"} /\ b # 0
           IN  IF bus'.op \in {"INI", "INIR"}
               THEN Repeat(next, again, <<>>, <<<<Pair("hl"), In.val>>>>,
                           <<<<Pair("bc"), -1>>>>)
               ELSE Repeat(next, again, <<Pair("hl")>>, <<>>,
                           <<<<256 * b + reg.c, In.val>>>>)
Ports ==
    LET Io(next, len, io) == /\ reg' = [next EXCEPT !.pc = (reg.pc + len) % 65536]
                             /\ Bus(<<>>, <<>>, io, 0)
    IN  \/ Is({"OUTA"}) /\ Io(reg, 2, <<<<256 * reg.a + In.lo, reg.a>>>>)
        \/ Is({"INA"}) /\ Io([reg EXCEPT !.a = In.val], 2, <<<<256 * reg.a + In.lo, -1>>>>)
        \/ /\ Is({"INC_"})
           /\ LET next == [reg EXCEPT !.f = SZP(@, In.val)]
              IN  Io(IF Dst = "" THEN next ELSE [next EXCEPT ![Dst] = In.val], 2,
                     <<<<Pair("bc"), -1>>>>)
        \/ /\ Is({"OUTC"})
           /\ Io(reg, 2, <<<<Pair("bc"), IF Src = "" THEN 0 ELSE reg[Src]>>>>)

-----------------------------------------------------------------------------
(***************************************************************************)
(* Flow and stack.                                                         *)
(***************************************************************************)
Holds == CASE Src = "nz" -> ~reg.f.z [] Src = "z" -> reg.f.z [] Src = "nc" -> ~reg.f.c
           [] Src = "c" -> reg.f.c [] Src = "po" -> ~reg.f.p [] Src = "pe" -> reg.f.p
           [] Src = "p" -> ~reg.f.s [] Src = "m" -> reg.f.s [] OTHER -> TRUE
After(len) == (reg.pc + len) % 65536
Sp(k) == (reg.sp + k) % 65536
Pushed(w) == Wrote(Sp(-2), w)
Goes(next, pc, at, out, extra) ==
    reg' = [next EXCEPT !.pc = pc] /\ Bus(at, out, <<>>, extra)

Jumps ==
    \/ /\ Is({"JR"})
       /\ IF Holds THEN Goes(reg, (After(2) + Signed(In.lo)) % 65536, <<>>, <<>>, 0)
          ELSE Goes(reg, After(2), <<>>, <<>>, -5)
    \/ /\ Is({"DJNZ"})
       /\ LET next == [reg EXCEPT !.b = (reg.b - 1) % 256]
          IN  IF reg.b # 1
              THEN Goes(next, (After(2) + Signed(In.lo)) % 65536, <<>>, <<>>, 0)
              ELSE Goes(next, After(2), <<>>, <<>>, -5)
    \/ Is({"JP"}) /\ Goes(reg, IF Holds THEN Immediate ELSE After(3), <<>>, <<>>, 0)
    \/ Is({"JPR"}) /\ Goes(reg, Pair(Src), <<>>, <<>>, 0)
    \/ /\ Is({"CALL"})
       /\ IF Holds THEN Goes([reg EXCEPT !.sp = Sp(-2)], Immediate, <<>>, Pushed(After(3)), 0)
          ELSE Goes(reg, After(3), <<>>, <<>>, -7)
    \/ /\ Is({"RST"})
       /\ Goes([reg EXCEPT !.sp = Sp(-2)], 8 * In.bit, <<>>, Pushed(After(1)), 0)
    \/ /\ Is({"RET"})
       /\ IF Holds THEN Goes([reg EXCEPT !.sp = Sp(2)], In.ptr, Word(reg.sp), <<>>, 0)
          ELSE Goes(reg, After(1), <<>>, <<>>, -6)
    \/ /\ Is({"RETN"})
       /\ Goes([reg EXCEPT !.sp = Sp(2), !.iff1 = reg.iff2], In.ptr, Word(reg.sp), <<>>, 0)
    \/ Is({"HALT"}) /\ Goes(reg, reg.pc, <<>>, <<>>, 0)

Stack ==
    \/ /\ Is({"PUSH"})
       /\ Effect([reg EXCEPT !.sp = Sp(-2)], 1 + Size(Src), <<>>, Pushed(Pair(Src)))
    \/ /\ Is({"POP"})
       /\ Effect(SetPair([reg EXCEPT !.sp = Sp(2)], Dst, In.ptr), 1 + Size(Dst),
                 Word(reg.sp), <<>>)

\* The emulator stops where the program waits for its next call.
Idle == Is({"idle"}) /\ UNCHANGED reg

Next == \/ Load \/ LoadA \/ Load16 \/ Exchange \/ Special \/ Arith \/ Compare \/ Logic
        \/ IncDec \/ IncDec16 \/ Add16 \/ AdcSbc16 \/ DecimalAdjust \/ Complement
        \/ RotateA \/ Rotate \/ SetReset \/ TestBit \/ Digits \/ BlockLoad \/ BlockCompare
        \/ BlockPort \/ Ports \/ Jumps \/ Stack \/ Idle

=============================================================================
