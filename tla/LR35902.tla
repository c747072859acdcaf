-------------------------------- MODULE LR35902 --------------------------------
(***************************************************************************)
(* The Game Boy's processor as its programmer sees it.  Half-carry is not  *)
(* part of the state: only DAA uses it, which is not emulated.             *)
(*                                                                         *)
(* Results and flags are the processor's.  Three kinds of instruction are  *)
(* known to set a flag otherwise when emulated; unless Exact, that flag is *)
(* left open, where it differs, and nothing else is.                       *)
(*                                                                         *)
(* What an instruction reads from memory is any value and comes with it.   *)
(***************************************************************************)
EXTENDS Integers, Sequences, Bitwise

CONSTANT Exact \* no flag is left open

VARIABLES
    reg,   \* b, c, d, e, h, l, a, sp, pc, and flags z, n, cy
    bus    \* the last instruction (op, dst, src, in), the bytes it wrote (out)
           \* and where it read (at)

Bit(n, k) == (n \div 2^k) % 2 = 1
One(b) == IF b THEN 1 ELSE 0
Signed(b) == IF b >= 128 THEN b - 256 ELSE b
Hi(w) == w \div 256
Lo(w) == w % 256

Pair(name) == CASE name = "bc" -> 256 * reg.b + reg.c [] name = "de" -> 256 * reg.d + reg.e
                [] name = "hl" -> 256 * reg.h + reg.l [] name = "sp" -> reg.sp
SetPair(f, name, w) ==
    CASE name = "bc" -> [f EXCEPT !.b = Hi(w), !.c = Lo(w)]
      [] name = "de" -> [f EXCEPT !.d = Hi(w), !.e = Lo(w)]
      [] name = "hl" -> [f EXCEPT !.h = Hi(w), !.l = Lo(w)]
      [] name = "sp" -> [f EXCEPT !.sp = w]

\* A byte operand: a register, what is at HL, or the byte after the opcode.
Operand == CASE bus'.src = "(hl)" -> bus'.in.val [] bus'.src = "imm" -> bus'.in.lo
             [] OTHER -> reg[bus'.src]
Immediate == bus'.in.lo + 256 * bus'.in.hi

Is(ops) == bus'.op \in ops

\* Addresses beyond 0xFFFF go to a page of their own in the emulator.
SameAddress(real, seen) == seen = real \/ (real = 0 /\ seen = 65536)
SameReads(real, seen) == /\ Len(real) = Len(seen)
                         /\ \A k \in DOMAIN real : SameAddress(real[k], seen[k])
SameWrites(real, seen) ==
    /\ Len(real) = Len(seen)
    /\ \A k \in DOMAIN real : /\ SameAddress(real[k][1], seen[k][1])
                              /\ real[k][2] = seen[k][2]

\* open: flags that the emulated CPU may have otherwise.
EffectBut(open, next, len, out, at) ==
    /\ LET after == [next EXCEPT !.pc = (reg.pc + len) % 65536]
       IN  \A f \in DOMAIN after : (f \in open /\ ~Exact) \/ reg'[f] = after[f]
    /\ SameWrites(out, bus'.out) /\ SameReads(at, bus'.at)
Effect(next, len, out, at) == EffectBut({}, next, len, out, at)
Where(differs, flag) == IF differs THEN {flag} ELSE {}

ReadsHL == IF bus'.src = "(hl)" THEN <<Pair("hl")>> ELSE <<>>
LengthOf == IF bus'.src = "imm" THEN 2 ELSE 1

-----------------------------------------------------------------------------
(***************************************************************************)
(* Loads.                                                                  *)
(***************************************************************************)
Load == /\ Is({"LD"}) /\ bus'.dst # "(hl)"
        /\ Effect([reg EXCEPT ![bus'.dst] = Operand], LengthOf, <<>>, ReadsHL)
Store == /\ Is({"LD"}) /\ bus'.dst = "(hl)"
         /\ Effect(reg, LengthOf, <<<<Pair("hl"), Operand>>>>, <<>>)

\* LD A,(...) and LD (...),A, with the address in dst or src.
AddressOf(mode) ==
    CASE mode = "ff00+imm" -> 65280 + bus'.in.lo
      [] mode = "ff00+c" -> 65280 + reg.c
      [] mode \in {"hl+", "hl-"} -> Pair("hl")
      [] mode = "ind16" -> Immediate
      [] OTHER -> Pair(mode)
Stepped(f, mode) ==
    CASE mode = "hl+" -> SetPair(f, "hl", (Pair("hl") + 1) % 65536)
      [] mode = "hl-" -> SetPair(f, "hl", (Pair("hl") - 1) % 65536)
      [] OTHER -> f
Long(mode) == CASE mode = "ff00+imm" -> 2 [] mode = "ind16" -> 3 [] OTHER -> 1
LoadA == /\ Is({"LDA"})
         /\ LET mode == bus'.src
            IN  Effect([Stepped(reg, mode) EXCEPT !.a = bus'.in.val], Long(mode),
                       <<>>, <<AddressOf(mode)>>)
StoreA == /\ Is({"STA"})
          /\ LET mode == bus'.dst
             IN  Effect(Stepped(reg, mode), Long(mode),
                        <<<<AddressOf(mode), reg.a>>>>, <<>>)

Load16 == /\ Is({"LD16"})
          /\ Effect(SetPair(reg, bus'.dst, Immediate), 3, <<>>, <<>>)
LoadSP == Is({"LDSP"}) /\ Effect([reg EXCEPT !.sp = Pair("hl")], 1, <<>>, <<>>)
StoreSP == /\ Is({"STSP"})
           /\ Effect(reg, 3, <<<<Immediate, Lo(reg.sp)>>,
                               <<(Immediate + 1) % 65536, Hi(reg.sp)>>>>, <<>>)

-----------------------------------------------------------------------------
(***************************************************************************)
(* Arithmetic.                                                             *)
(***************************************************************************)
Result(val, n, cy) == [reg EXCEPT !.a = val, !.z = val = 0, !.n = n, !.cy = cy]

\* Open: the carry out of 0xFF and a carry, which are added in a byte first.
Arith ==
    /\ Is({"ADD", "ADC", "SUB", "SBC", "CP"})
    /\ LET cin == IF bus'.op \in {"ADC", "SBC"} THEN One(reg.cy) ELSE 0
           sum == IF bus'.op \in {"ADD", "ADC"} THEN reg.a + Operand + cin
                  ELSE reg.a - Operand - cin
           new == Result(sum % 256, bus'.op \notin {"ADD", "ADC"}, sum \notin 0..255)
       IN  EffectBut(Where(Operand + cin = 256, "cy"),
                     IF bus'.op = "CP" THEN [new EXCEPT !.a = reg.a] ELSE new,
                     LengthOf, <<>>, ReadsHL)

Logic ==
    /\ Is({"AND", "XOR", "OR"})
    /\ Effect(Result(CASE bus'.op = "AND" -> reg.a & Operand
                       [] bus'.op = "XOR" -> reg.a ^^ Operand
                       [] OTHER -> reg.a | Operand, FALSE, FALSE),
              LengthOf, <<>>, ReadsHL)

Put(f, val) == IF bus'.src = "(hl)" THEN f ELSE [f EXCEPT ![bus'.src] = val]
ChangeBut(open, val, z, n, cy, len) ==
    EffectBut(open, [Put(reg, val) EXCEPT !.z = z, !.n = n, !.cy = cy], len,
              IF bus'.src = "(hl)" THEN <<<<Pair("hl"), val>>>> ELSE <<>>, ReadsHL)
Change(val, z, n, cy, len) == ChangeBut({}, val, z, n, cy, len)

IncDec == /\ Is({"INC", "DEC"})
          /\ LET val == (Operand + IF bus'.op = "INC" THEN 1 ELSE -1) % 256
             IN  Change(val, val = 0, bus'.op = "DEC", reg.cy, 1)

IncDec16 ==
    /\ Is({"INC16", "DEC16"})
    /\ Effect(SetPair(reg, bus'.dst,
                 (Pair(bus'.dst) + IF bus'.op = "INC16" THEN 1 ELSE -1) % 65536),
              1, <<>>, <<>>)

AddHL == /\ Is({"ADDHL"})
         /\ LET sum == Pair("hl") + Pair(bus'.src)
            IN  Effect([SetPair(reg, "hl", sum % 65536) EXCEPT !.n = FALSE,
                            !.cy = sum > 65535], 1, <<>>, <<>>)

\* ADD SP,imm and LD HL,SP+imm: carry is that of the low bytes.  Open: where
\* the carry, or the borrow, out of 16 bits differs from it.
AddSP == /\ Is({"ADDSP", "LDHLSP"})
         /\ LET sum   == reg.sp + Signed(bus'.in.lo)
                dst   == IF bus'.op = "ADDSP" THEN "sp" ELSE "hl"
                carry == Lo(reg.sp) + bus'.in.lo > 255
            IN  EffectBut(Where(carry # (sum \notin 0..65535), "cy"),
                          [SetPair(reg, dst, sum % 65536) EXCEPT
                              !.z = FALSE, !.n = FALSE, !.cy = carry], 2, <<>>, <<>>)

Rotated(m) ==
    CASE bus'.op \in {"RLC", "RLCA"} -> ((2 * m) % 256) + One(Bit(m, 7))
      [] bus'.op \in {"RL", "RLA"} -> ((2 * m) % 256) + One(reg.cy)
      [] bus'.op = "SLA" -> (2 * m) % 256
      [] bus'.op \in {"RRC", "RRCA"} -> (m \div 2) + 128 * One(Bit(m, 0))
      [] bus'.op \in {"RR", "RRA"} -> (m \div 2) + 128 * One(reg.cy)
      [] bus'.op = "SRA" -> (m \div 2) + 128 * One(Bit(m, 7))
      [] bus'.op = "SRL" -> m \div 2
      [] bus'.op = "SWAP" -> 16 * (m % 16) + (m \div 16)
RotatedOut(m) == CASE bus'.op \in {"RLC", "RLCA", "RL", "RLA", "SLA"} -> Bit(m, 7)
                   [] bus'.op = "SWAP" -> FALSE
                   [] OTHER -> Bit(m, 0)
\* Those of A alone clear z.  Open: z of a result of 0.
Rotate ==
    /\ Is({"RLC", "RLCA", "RL", "RLA", "SLA", "RRC", "RRCA", "RR", "RRA", "SRA",
           "SRL", "SWAP"})
    /\ LET short == Is({"RLCA", "RLA", "RRCA", "RRA"})
           zero  == Rotated(Operand) = 0
       IN  ChangeBut(Where(short /\ zero, "z"), Rotated(Operand), zero /\ ~short, FALSE,
                     RotatedOut(Operand), IF short THEN 1 ELSE 2)

TestBit == /\ Is({"BIT"})
           /\ Effect([reg EXCEPT !.z = ~Bit(Operand, bus'.dst), !.n = FALSE], 2,
                     <<>>, ReadsHL)
ChangeBit ==
    /\ Is({"SET", "RES"})
    /\ LET mask == 2^bus'.dst
           off  == Operand - IF Bit(Operand, bus'.dst) THEN mask ELSE 0
       IN  Change(IF bus'.op = "SET" THEN off + mask ELSE off,
                  reg.z, reg.n, reg.cy, 2)

FlagOps ==
    /\ Is({"CPL", "CCF", "SCF", "NOP"})
    /\ Effect(CASE bus'.op = "CPL" -> [reg EXCEPT !.a = 255 - @, !.n = TRUE]
                [] bus'.op = "CCF" -> [reg EXCEPT !.cy = ~@, !.n = FALSE]
                [] bus'.op = "SCF" -> [reg EXCEPT !.cy = TRUE, !.n = FALSE]
                [] OTHER -> reg, 1, <<>>, <<>>)

-----------------------------------------------------------------------------
(***************************************************************************)
(* Jumps and the stack.                                                    *)
(***************************************************************************)
Below(k) == (reg.sp - k) % 65536
Pushed(w) == <<<<Below(1), Hi(w)>>, <<Below(2), Lo(w)>>>>
Popped == <<reg.sp, Below(-1)>>
GoTo(next, pc, out, at) == /\ reg' = [next EXCEPT !.pc = pc]
                           /\ SameWrites(out, bus'.out) /\ SameReads(at, bus'.at)

Holds == CASE bus'.dst = "nz" -> ~reg.z [] bus'.dst = "z" -> reg.z
           [] bus'.dst = "nc" -> ~reg.cy [] bus'.dst = "c" -> reg.cy
           [] OTHER -> TRUE

After(len) == (reg.pc + len) % 65536
Jumps ==
    \/ /\ Is({"JR"})
       /\ GoTo(reg, IF Holds THEN (After(2) + Signed(bus'.in.lo)) % 65536 ELSE After(2),
               <<>>, <<>>)
    \/ Is({"JP"}) /\ GoTo(reg, IF Holds THEN Immediate ELSE After(3), <<>>, <<>>)
    \/ Is({"JPHL"}) /\ GoTo(reg, Pair("hl"), <<>>, <<>>)
Calls ==
    \/ /\ Is({"CALL"})
       /\ IF Holds THEN GoTo([reg EXCEPT !.sp = Below(2)], Immediate,
                             Pushed(After(3)), <<>>)
          ELSE GoTo(reg, After(3), <<>>, <<>>)
    \/ /\ Is({"RST"})
       /\ GoTo([reg EXCEPT !.sp = Below(2)], bus'.in.rst, Pushed(After(1)), <<>>)
    \/ /\ Is({"RET"})
       /\ IF Holds THEN GoTo([reg EXCEPT !.sp = Below(-2)], bus'.in.ptr, <<>>, Popped)
          ELSE GoTo(reg, After(1), <<>>, <<>>)

Push == /\ Is({"PUSH"})
        /\ Effect([reg EXCEPT !.sp = Below(2)], 1, Pushed(Pair(bus'.src)), <<>>)
Pop == /\ Is({"POP"})
       /\ Effect(SetPair([reg EXCEPT !.sp = Below(-2)], bus'.dst, bus'.in.ptr), 1,
                 <<>>, Popped)

\* The flags are the high bits of a byte, half-carry is one of them.
PushAF == /\ Is({"PUSHAF"})
          /\ \E h \in {0, 32} :
                Effect([reg EXCEPT !.sp = Below(2)], 1,
                       Pushed(256 * reg.a + 128 * One(reg.z) + 64 * One(reg.n) + h
                              + 16 * One(reg.cy)), <<>>)
PopAF == /\ Is({"POPAF"})
         /\ LET w == bus'.in.ptr
            IN  Effect([reg EXCEPT !.sp = Below(-2), !.a = Hi(w), !.z = Bit(w, 7),
                                   !.n = Bit(w, 6), !.cy = Bit(w, 4)], 1, <<>>, Popped)

Next == \/ Load \/ Store \/ LoadA \/ StoreA \/ Load16 \/ LoadSP \/ StoreSP
        \/ Arith \/ Logic \/ IncDec \/ IncDec16 \/ AddHL \/ AddSP \/ Rotate
        \/ TestBit \/ ChangeBit \/ FlagOps \/ Jumps \/ Calls
        \/ Push \/ Pop \/ PushAF \/ PopAF

=============================================================================
