------------------------------ MODULE MCFmStream ------------------------------
(* Small instances of FmStream, and one with the rates of the program. *)
EXTENDS FmStream

\* A resampler that does nothing, and two that convert (9/5 has a step and
\* bits in skip_bits).
SmallRatios == {<<1, 1>>, <<3, 2>>, <<9, 5>>}

\* Writes with and without delays between them, delays shorter and longer
\* than a frame; a log that ends, two that loop, and two that break off.
SmallLogs == {
    [cmds |-> <<<<"psg">>, <<"fm">>, <<"delay", 1>>, <<"fm">>, <<"delay", 7>>,
                <<"psg">>, <<"delay", 2>>, <<"end">>>>, loop |-> 0],
    [cmds |-> <<<<"fm">>, <<"delay", 3>>, <<"psg">>, <<"delay", 0>>, <<"fm">>,
                <<"delay", 25>>, <<"end">>>>, loop |-> 4],
    [cmds |-> <<<<"psg">>, <<"delay", 1>>, <<"fm">>, <<"end">>>>, loop |-> 1],
    [cmds |-> <<<<"fm">>, <<"delay", 40>>>>, loop |-> 0],
    [cmds |-> <<<<"delay", 9>>, <<"psg">>>>, loop |-> 1] }

\* One that loops, one that does not, one whose loop is never found.
SmallSongs == {[frames |-> 3, loop_start |-> 2], [frames |-> 2, loop_start |-> 0],
               [frames |-> 2, loop_start |-> 4]}

SmallTempos == {[fm |-> 6, blip |-> 8], [fm |-> 9, blip |-> 12]}

\* 22050 Hz at the normal tempo with a PSG of 3579545 Hz, frames of 33 ms: the
\* numbers set_tempo_() and Blip_Buffer::clock_rate() come to.  The log writes
\* to the PSG at every tick.
RealRatios == {<<1, 1>>}
RealTempos == {[fm |-> 2050, blip |-> 332467]}
RealLogs == {[cmds |-> <<<<"psg">>, <<"delay", 1>>, <<"end">>>>, loop |-> 1]}
=============================================================================
