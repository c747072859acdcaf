------------------------------- MODULE HuC6280 -------------------------------
(***************************************************************************)
(* The PC Engine's CPU, a 6502 with more instructions and a table (mmr)    *)
(* that says which bank each eighth of the addresses is.  Page zero and    *)
(* the stack are in RAM: their addresses are given within it.              *)
(***************************************************************************)
EXTENDS Mos6502

In == bus'.in
Ops == bus'.op

\* TSB, TRB: the flags are left open, references disagree on them.
Ram == 8192
SetBits ==
    /\ Is({"TSB", "TRB"})
    /\ LET at  == Address(bus'.mode, In) + IF bus'.mode = "zp" THEN Ram ELSE 0
           val == IF Ops = "TSB" THEN reg.a | In.val ELSE In.val - (reg.a & In.val)
       IN  /\ reg' = [reg EXCEPT !.pc = (@ + Length(bus'.mode)) % 65536,
                                 !.n = reg'.n, !.v = reg'.v, !.z = reg'.z]
           /\ bus'.out = <<<<at, val>>>> /\ bus'.addr = at
           /\ bus'.at = <<>> /\ bus'.extra = 0

\* One bit of page zero, and a branch on one.
Masked(on) == IF on THEN In.val | (2^In.bit) ELSE In.val - (In.val & (2^In.bit))
OneBit ==
    /\ Is({"RMB", "SMB"})
    /\ Effect(reg, Store("zp", In, Masked(Ops = "SMB")), 0)
BranchOnBit ==
    /\ Is({"BBR", "BBS"})
    /\ LET next == (reg.pc + 3) % 65536
       IN  /\ IF Bit(In.val, In.bit) <=> Ops = "BBS"
              THEN reg' = [reg EXCEPT !.pc = (next + Signed(In.hi)) % 65536] /\ bus'.extra = 0
              ELSE reg' = [reg EXCEPT !.pc = next] /\ bus'.extra = NotTaken
           /\ bus'.out = <<>> /\ bus'.addr = In.lo /\ bus'.at = <<>>

\* TST: BIT with the byte after the opcode for the accumulator; its address
\* comes behind that.
TestMemory ==
    /\ Is({"TST"})
    /\ LET wide == bus'.mode \in {"abs", "absx"}
           from == In.hi + (IF wide THEN 256 * In.third ELSE 0) + Index(bus'.mode)
       IN  /\ reg' = [reg EXCEPT !.n = Bit(In.val, 7), !.v = Bit(In.val, 6),
                                 !.z = (In.lo & In.val) = 0,
                                 !.pc = (@ + IF wide THEN 4 ELSE 3) % 65536]
           /\ bus'.addr = from % (IF wide THEN 65536 ELSE 256)
           /\ bus'.out = <<>> /\ bus'.at = <<>> /\ bus'.extra = 0

StoreZero == Is({"STZ"}) /\ Effect(reg, Store(bus'.mode, In, 0), 0)

Swapped == [SWXY |-> <<"x", "y">>, SWAX |-> <<"a", "x">>, SWAY |-> <<"a", "y">>]
Swaps == Is(DOMAIN Swapped)
         /\ LET one == Swapped[Ops][1]  two == Swapped[Ops][2]
            IN  Read([reg EXCEPT ![one] = reg[two], ![two] = reg[one]])
Clears == \/ Is({"CLA"}) /\ Read([reg EXCEPT !.a = 0])
          \/ Is({"CLX"}) /\ Read([reg EXCEPT !.x = 0])
          \/ Is({"CLY"}) /\ Read([reg EXCEPT !.y = 0])

Always == /\ Is({"BRA"})
          /\ Jumps(reg, (reg.pc + 2 + Signed(In.lo)) % 65536, <<>>, <<>>, 0)
CallRelative ==
    /\ Is({"BSR"})
    /\ LET ret == (reg.pc + 1) % 65536
       IN  Jumps([reg EXCEPT !.s = Moved(-2)], (ret + 1 + Signed(In.lo)) % 65536,
                 Pushed(<<ret \div 256, ret % 256>>), <<>>, 0)
\* The pointer of these jumps does not wrap in its page.
JumpPointer ==
    /\ Is({"JMPP", "JMPX"})
    /\ LET at == (In.lo + 256 * In.hi + IF Ops = "JMPX" THEN reg.x ELSE 0) % 65536
       IN  Jumps(reg, In.ptr, <<>>, <<at, (at + 1) % 65536>>, 0)

PushXY == \/ /\ Is({"PHX", "PHY"})
             /\ Jumps([reg EXCEPT !.s = Moved(-1)], (reg.pc + 1) % 65536,
                      Pushed(<<IF Ops = "PHX" THEN reg.x ELSE reg.y>>), <<>>, 0)
          \/ /\ Is({"PLX", "PLY"})
             /\ Jumps(Set([reg EXCEPT !.s = Moved(1)], IF Ops = "PLX" THEN "x" ELSE "y",
                          In.val),
                      (reg.pc + 1) % 65536, <<>>, <<Stack(-1)>>, 0)

\* Banks: to all that the mask names, from the one it names.
Banks == \/ /\ Is({"TAM"})
            /\ Effect([reg EXCEPT !.mmr = [k \in 0..7 |-> IF Bit(In.lo, k) THEN reg.a
                                                           ELSE @[k]]], <<>>, 0)
         \/ /\ Is({"TMA"})
            /\ Effect([reg EXCEPT !.a = IF \E k \in 0..7 : In.lo = 2^k
                                        THEN reg.mmr[CHOOSE k \in 0..7 : In.lo = 2^k]
                                        ELSE reg'.a], <<>>, 0)
\* The video chip's register, and its two data ports.
Video == /\ Is({"ST0", "ST1", "ST2"})
         /\ Effect(reg, <<<<"vdp", CASE Ops = "ST0" -> 0 [] Ops = "ST1" -> 2
                                     [] Ops = "ST2" -> 3, In.lo>>>>, 0)

\* Block transfers: the addresses count up, count down, stay or alternate.
Ways == [TII |-> <<"up", "up">>, TDD |-> <<"down", "down">>, TIN |-> <<"up", "same">>,
         TIA |-> <<"up", "alternate">>, TAI |-> <<"alternate", "up">>]
Along(way, at, k) == (at + CASE way = "up" -> k [] way = "down" -> -k [] way = "same" -> 0
                             [] way = "alternate" -> k % 2) % 65536
Transfers ==
    /\ Is(DOMAIN Ways)
    /\ LET bytes == 1..(IF In.count = 0 THEN 65536 ELSE In.count)
       IN  /\ reg' = [reg EXCEPT !.pc = (@ + 7) % 65536]
           /\ bus'.at = [k \in bytes |-> Along(Ways[Ops][1], In.from, k - 1)]
           /\ bus'.out = Pushed(<<reg.y, reg.a, reg.x>>)
                         \o [k \in bytes |-> <<Along(Ways[Ops][2], In.to, k - 1), In.val>>]
           /\ bus'.extra = 6 * (IF In.count = 0 THEN 65536 ELSE In.count)
           /\ bus'.addr = -1

HuCNext == \/ Next \/ SetBits \/ OneBit \/ BranchOnBit \/ TestMemory \/ StoreZero \/ Swaps
           \/ Clears \/ Always \/ CallRelative \/ JumpPointer \/ PushXY \/ Banks \/ Video
           \/ Transfers
=============================================================================
