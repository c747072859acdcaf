-------------------------------- MODULE MCCpus --------------------------------
(***************************************************************************)
(* The seven CPU cores, one per behaviour, from registers and with         *)
(* operands at the boundaries of sign, carry, page, stack and memory.      *)
(***************************************************************************)
EXTENDS Integers

VARIABLES core, r, bus, executed
vars == <<core, r, bus, executed>>

Regs6502 == [a : {0, 127, 128, 255}, x : {255}, y : {1}, sp : {0}, pc : {33022},
             status : {0, 203}]
Operands6502 == {
    [lo |-> 0, hi |-> 2, ptr |-> 65535, val |-> 0],
    [lo |-> 254, hi |-> 255, ptr |-> 767, val |-> 195],
    [lo |-> 127, hi |-> 3, ptr |-> 512, val |-> 128] }
Nes == INSTANCE NesCpu WITH Operands <- Operands6502, Registers <- Regs6502,
                            MaxInstructions <- 2
Sap == INSTANCE SapCpu WITH Operands <- Operands6502, MaxInstructions <- 2,
          Registers <- [a : {128}, x : {255}, y : {1}, sp : {0}, pc : {33022, 65279},
                        status : {203}]

Hes == INSTANCE HesCpu WITH MaxInstructions <- 2,
          Registers <- [a : {127, 255}, x : {255}, y : {1}, sp : {0}, pc : {8191, 65533},
                        status : {0, 203}, mmr : {[k \in 0..7 |-> 248 + k]}],
          Operands <- {
              [lo |-> 16, hi |-> 128, third |-> 33, ptr |-> 8447, val |-> 0, bit |-> 7,
               from |-> 65535, to |-> 1, count |-> 3],
              [lo |-> 193, hi |-> 127, third |-> 2, ptr |-> 767, val |-> 195, bit |-> 0,
               from |-> 0, to |-> 65534, count |-> 2] }

Gb == INSTANCE GbCpu WITH MaxInstructions <- 2, R8s <- {"a", "l", "b"}, Bits <- {0, 7},
          Registers <- [b : {255}, c : {255}, d : {0}, e : {128}, h : {255}, l : {128},
                        a : {0, 143, 255}, sp : {65535}, pc : {65534}, flags : {0, 240}],
          Operands <- {
              [lo |-> 255, hi |-> 255, val |-> 0, ptr |-> 65535, rst |-> 56],
              [lo |-> 128, hi |-> 2, val |-> 127, ptr |-> 496, rst |-> 0] }

Spc == INSTANCE SpcCpu WITH MaxInstructions <- 2,
          Registers <- [a : {127, 154}, x : {1, 255}, y : {2, 255}, sp : {0}, pc : {65534},
                        psw : {107}],
          Operands <- {
              [lo |-> 255, hi |-> 255, ptr |-> 65535, val |-> 0, val2 |-> 128,
               rel |-> 128, bit |-> 7],
              [lo |-> 127, hi |-> 33, ptr |-> 496, val |-> 127, val2 |-> 255,
               rel |-> 127, bit |-> 0] }

RegsZ80 == [a : {0, 127, 128, 153}, b : {1}, c : {1, 255}, d : {255}, e : {255},
            h : {255, 127}, l : {255}, f : {0, 255, 17}, sp : {65535}, pc : {65535, 254},
            ix : {65534}, iy : {32767},
            alt : {[bc |-> 1, de |-> 2, hl |-> 3, a |-> 4, f |-> 5]},
            iff1 : {0}, iff2 : {1}, i : {128}, im : {0}]
OperandsZ80 == {
    [lo |-> 128, hi |-> 255, val |-> 0, ptr |-> 65535, bit |-> 7, down |-> TRUE],
    [lo |-> 127, hi |-> 0, val |-> 128, ptr |-> 496, bit |-> 0, down |-> FALSE] }
Kss == INSTANCE KssCpu WITH Operands <- OperandsZ80, Registers <- RegsZ80, Wide <- TRUE,
          R8s <- {"a", "l"}, Index <- {"ix", "iy"}, MaxInstructions <- 1
Ay == INSTANCE AyCpu WITH Operands <- OperandsZ80, Wide <- FALSE, R8s <- {"a"},
          Registers <- {s \in RegsZ80 : s.f = 17 /\ s.c = 1},
          Index <- {"ix"}, MaxInstructions <- 1

Init == \/ core = "nes" /\ Nes!Init
        \/ core = "sap" /\ Sap!Init
        \/ core = "hes" /\ Hes!HesInit
        \/ core = "gb" /\ Gb!Init
        \/ core = "spc" /\ Spc!Init
        \/ core = "kss" /\ Kss!Init
        \/ core = "ay" /\ Ay!Init
Next == /\ UNCHANGED core
        /\ \/ core = "nes" /\ Nes!Next
           \/ core = "sap" /\ Sap!SapNext
           \/ core = "hes" /\ Hes!HesNext
           \/ core = "gb" /\ Gb!Next
           \/ core = "spc" /\ Spc!Next
           \/ core = "kss" /\ Kss!Next
           \/ core = "ay" /\ Ay!AyNext
Spec == Init /\ [][Next]_vars

\* What the next instruction depends on (bus only says what the last one did).
CpuView == <<core, r, executed>>

-----------------------------------------------------------------------------
(***************************************************************************)
(* Properties                                                              *)
(***************************************************************************)

\* The 6502 and its descendants keep zero and negative in one integer and carry
\* in another, both left over from some instruction: whichever it was, the next
\* one branches, pushes, reads, stores and takes time as the processor does.
\* Registers stay bytes and the stack pointer in page one, which the cores' loops
\* check in debug builds.
Family6502 == [][/\ core = "nes" => Nes!Implements6502 /\ Nes!TypeOK'
                 /\ core = "sap" => Sap!SapImplements6502 /\ Sap!TypeOK'
                 /\ core = "hes" => Hes!HesImplementsHuC6280]_vars

\* The same of the SNES's sound CPU, its direct pages and its word instructions.
FamilySpc700 == [][core = "spc" => Spc!ImplementsSpc700 /\ Spc!TypeOK']_vars

\* The Z80 and the Game Boy's CPU take flags from bits of integers wider than
\* the operands: each is the processor's, half-carry, parity and the two
\* undocumented ones of the Z80 included.  On the Game Boy half-carry is left
\* out, and open are the carry of ADC and SBC with 0xFF and a carry, that of
\* ADD SP where it is not the one out of 16 bits, and z of RLCA and its like.
FamilyZ80 == [][/\ core = "gb" => Gb!ImplementsLR35902 /\ Gb!TypeOK'
                /\ core = "kss" => Kss!ImplementsZ80 /\ Kss!TypeOK'
                /\ core = "ay" => Ay!ImplementsZ80 /\ Kss!TypeOK']_vars
\* Those three are not the processor's in the code: this does not hold.
GameBoyIsExact == [][core = "gb" => Gb!IsLR35902]_vars

\* The PC Engine's TIA and TAI alternate between two addresses.
AlternatesAddress == [][core = "hes" => Hes!HesAlternates]_vars
=============================================================================
