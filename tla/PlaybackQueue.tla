---------------------------- MODULE PlaybackQueue ----------------------------
(***************************************************************************)
(* What the look-ahead of Music_Emu promises its client, without clocks,   *)
(* silence detection or loops: a queue of samples between the emulator and *)
(* the client.  The emulator is run ahead only behind silence, what the    *)
(* client gets is the front of the queue and then what the emulator        *)
(* generates, in order and each sample once, and the track does not end    *)
(* while a sound is queued, unless it has been faded out.                  *)
(***************************************************************************)
EXTENDS Naturals, Sequences

CONSTANT BufSize    \* samples the emulator generates ahead at a time

VARIABLES
    queue,  \* samples generated ahead, TRUE where there is sound
    dry,    \* the emulator generates nothing more
    ended,  \* the client has been told that the track ended
    out,    \* what the running or the last play() gave to the client
    faded   \* the fade has begun

queueVars == <<queue, dry, ended, out, faded>>

Quiet(samples)   == \A i \in 1..Len(samples) : ~samples[i]
Front(samples, n) == SubSeq(samples, 1, n)
Rest(samples, n)  == SubSeq(samples, n + 1, Len(samples))

Init ==
    /\ queue = <<>> /\ out = <<>>
    /\ dry = TRUE /\ ended = TRUE /\ faded = FALSE

\* A track is started, or none can be.
Restart ==
    /\ queue' = <<>>
    /\ ended' \in BOOLEAN /\ dry' = ended'
    /\ ~faded'
    /\ UNCHANGED out

\* The emulator is run ahead: only behind silence.
GetAhead ==
    /\ ~dry /\ ~ended
    /\ Quiet(queue)
    /\ \E block \in [1..BufSize -> BOOLEAN] : queue' = queue \o block
    /\ dry' \in BOOLEAN
    /\ UNCHANGED <<ended, out, faded>>

\* Silence at the beginning of a track is not played.
Trim ==
    /\ \E n \in 0..Len(queue) :
         /\ Quiet(Front(queue, n))
         /\ queue' = Rest(queue, n)
    /\ UNCHANGED <<dry, ended, out, faded>>

BeginPlay == out' = <<>> /\ ~ended /\ UNCHANGED <<queue, dry, ended, faded>>

\* The client gets the front of the queue; the track may end if the queue
\* is silent.
Deliver ==
    /\ ~ended
    /\ \E n \in 0..Len(queue) :
         /\ out' = Front(queue, n)
         /\ \/ queue' = Rest(queue, n) /\ UNCHANGED <<dry, ended>>
            \/ Quiet(queue) /\ queue' = <<>> /\ dry' /\ ended'
    /\ UNCHANGED faded

\* The client gets more than was queued: straight from the emulator, or
\* silence if that has nothing more, and then the track has ended.
Generate ==
    /\ queue = <<>>
    /\ out' \in Seq(BOOLEAN) /\ Len(out') > Len(out)
    /\ Front(out', Len(out)) = out
    /\ dry => Quiet(Rest(out', Len(out)))
    /\ dry' \in BOOLEAN /\ (dry => dry')
    /\ ended' = dry'
    /\ UNCHANGED <<queue, faded>>

PlayEnded ==
    /\ ended
    /\ out' \in Seq(BOOLEAN) \ {<<>>} /\ Quiet(out')
    /\ faded' \in BOOLEAN
    /\ UNCHANGED <<queue, dry, ended>>

\* The fade is over: the track ends with whatever is still queued.
FadeOut ==
    /\ faded
    /\ queue' = <<>> /\ dry' /\ ended'
    /\ faded' \in BOOLEAN
    /\ UNCHANGED out

\* The client moves its clock or the fade.
MoveFade ==
    /\ faded' \in BOOLEAN
    /\ UNCHANGED <<queue, dry, ended, out>>

\* The client skips samples: the front of the queue, and then others that
\* were never queued.
Skip ==
    /\ \E n \in 0..Len(queue) : queue' = Rest(queue, n)
    /\ ended' \in BOOLEAN /\ (ended => ended')
    /\ ended' # ended => queue' = <<>> /\ dry
    /\ faded' \in BOOLEAN
    /\ UNCHANGED <<dry, out>>

\* While samples are skipped the emulator may reach its end.
RunDry ==
    /\ queue = <<>>
    /\ dry'
    /\ UNCHANGED <<queue, ended, out, faded>>

Next ==
    \/ Restart \/ GetAhead \/ Trim \/ BeginPlay \/ Deliver \/ Generate
    \/ PlayEnded \/ FadeOut \/ MoveFade \/ Skip \/ RunDry

Spec == Init /\ [][Next]_queueVars
=============================================================================
