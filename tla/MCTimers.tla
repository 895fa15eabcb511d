------------------------------ MODULE MCTimers ------------------------------
(***************************************************************************)
(* The instance of Timer0 and Tone for TLC.  Timers 0 and 2 share nothing  *)
(* but the processor: a behaviour is that of one of them.                  *)
(*                                                                         *)
(* A millisecond of Timer0 is 6 microseconds, a tick 2 and an overflow 8:  *)
(* the remainder carries every third overflow.  All the counters and       *)
(* micros() wrap within the bound on ticks.                                *)
(***************************************************************************)
EXTENDS Timer0, Tone

VARIABLE which

DelayArguments == {0, 1, 3}

TwoPins == {8, 9}

\* No toggle at all, some, and a tone without an end.
ShortTones == {[frequency |-> 1, duration |-> 1], [frequency |-> 3, duration |-> 2],
               [frequency |-> 2, duration |-> 0]}

MCInit == Init /\ ToneInit /\ which \in {"clock", "tone"}

MCNext ==
  \/ which = "clock" /\ Next /\ UNCHANGED <<toneVars, which>>
  \/ which = "tone" /\ ToneNext /\ UNCHANGED <<vars, which>>

\* FairSpec of the one and ToneFairSpec of the other.
MCSpec ==
  /\ MCInit /\ [][MCNext]_<<vars, toneVars, which>>
  /\ WF_vars(which = "clock" /\ Tick)
  /\ SF_vars(which = "clock" /\ OverflowInterrupt)
  /\ WF_vars(which = "clock" /\ SketchStep)
  /\ WF_toneVars(which = "tone" /\ Running)
  /\ WF_toneVars(which = "tone" /\ Handler)
=============================================================================
