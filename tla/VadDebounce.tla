----------------------------- MODULE VadDebounce -----------------------------
(* AppleVADAnalyzer: native speech scores become QUIET, STARTING, SPEAKING and
   STOPPING.  A score is a truth value, speech or not (confidence and volume
   reached their thresholds), and carries the time of its audio; duplicates and
   older ones are ignored.  reset() starts a new timeline. *)
EXTENDS Integers

CONSTANTS
    StartFrames, StopFrames,  \* round(start_secs / 0.1), round(stop_secs / 0.1)
    Times                     \* the timestamps of a native timeline

ASSUME VadAssumption == StartFrames \in Nat /\ StopFrames \in Nat /\ Times \subseteq Nat

VARIABLES vad,      \* the state and the two counters
          last,     \* _last_timestamp, -1 for None
          highs,    \* scores of speech in a row that were not ignored
          lows      \* scores of no speech in a row

vadVars == <<vad, last, highs, lows>>

States == {"QUIET", "STARTING", "SPEAKING", "STOPPING"}

Vad(state, starting, stopping) ==
    [state |-> state, starting |-> starting, stopping |-> stopping]

Quiet == Vad("QUIET", 0, 0)

\* _update_vad_state: one observation.
Observe(v, speaking) ==
    CASE speaking /\ v.state = "QUIET" -> Vad("STARTING", 1, v.stopping)
      [] speaking /\ v.state = "STARTING" -> Vad("STARTING", v.starting + 1, v.stopping)
      [] speaking /\ v.state = "STOPPING" -> Vad("SPEAKING", v.starting, 0)
      [] ~speaking /\ v.state = "STARTING" -> Vad("QUIET", 0, v.stopping)
      [] ~speaking /\ v.state = "SPEAKING" -> Vad("STOPPING", v.starting, 1)
      [] ~speaking /\ v.state = "STOPPING" -> Vad("STOPPING", v.starting, v.stopping + 1)
      [] OTHER -> v

\* Mutant: a transition is confirmed one score late.
ConfirmLate(v) ==
    CASE v.state = "STARTING" /\ v.starting > StartFrames ->
            Vad("SPEAKING", 0, v.stopping)
      [] v.state = "STOPPING" /\ v.stopping > StopFrames ->
            Vad("QUIET", v.starting, 0)
      [] OTHER -> v

\* _finalize_vad_state: a pending transition is confirmed.
Confirm(v) ==
    CASE v.state = "STARTING" /\ v.starting >= StartFrames ->
            Vad("SPEAKING", 0, v.stopping)
      [] v.state = "STOPPING" /\ v.stopping >= StopFrames ->
            Vad("QUIET", v.starting, 0)
      [] OTHER -> v

VadInit == vad = Quiet /\ last = -1 /\ highs = 0 /\ lows = 0

\* Mutant: a duplicate or older score advances the counters.
ScoreTakesStale(time, speaking) ==
    /\ last' = IF time <= last THEN last ELSE time
    /\ vad' = Confirm(Observe(vad, speaking))
    /\ IF time <= last THEN UNCHANGED <<highs, lows>>
       ELSE /\ highs' = IF speaking THEN highs + 1 ELSE 0
            /\ lows' = IF speaking THEN 0 ELSE lows + 1

\* analyze_confidence.
Score(time, speaking) ==
    IF time <= last THEN UNCHANGED vadVars
    ELSE /\ last' = time
         /\ vad' = Confirm(Observe(vad, speaking))
         /\ highs' = IF speaking THEN highs + 1 ELSE 0
         /\ lows' = IF speaking THEN 0 ELSE lows + 1

Reset == vad' = Quiet /\ last' = -1 /\ highs' = 0 /\ lows' = 0

VadNext == Reset \/ \E time \in Times, speaking \in BOOLEAN : Score(time, speaking)

VadSpec == VadInit /\ [][VadNext]_vadVars

-----------------------------------------------------------------------------
(* Properties.                                                               *)

\* The states the service takes for speech.
Speech == vad.state \in {"SPEAKING", "STOPPING"}

\* A pending transition has counted exactly the scores since it began, which are
\* all the scores in a row that ask for it, and is never due; no other state
\* counts anything.
Counted ==
    /\ vad.state = "STARTING" =>
          vad.starting = highs /\ vad.stopping = 0 /\ highs \in 1..(StartFrames - 1)
    /\ vad.state = "STOPPING" =>
          vad.stopping = lows /\ vad.starting = 0 /\ lows \in 1..(StopFrames - 1)
    /\ vad.state \in {"QUIET", "SPEAKING"} => vad.starting = 0 /\ vad.stopping = 0
    /\ vad.state = "QUIET" => highs = 0
    /\ vad.state = "SPEAKING" => lows = 0

\* A spike of noise is not speech and a pause inside a sentence does not end it:
\* speech starts after StartFrames scores of speech in a row and, unless the
\* timeline restarts, ends after StopFrames scores of silence in a row.
TransitionsNeedRuns ==
    [][/\ ~Speech /\ Speech' => highs' >= StartFrames
       /\ Speech /\ ~Speech' => lows' >= StopFrames \/ last' = -1]_vadVars

AtLeastOne(n) == IF n = 0 THEN 1 ELSE n

\* The scores against the current opinion: of speech while it is quiet, of silence
\* while there is speech.
Run == CASE vad.state = "STARTING" -> vad.starting
         [] vad.state = "STOPPING" -> vad.stopping
         [] OTHER -> 0

Span == INSTANCE SpeechSpan WITH speech <- Speech, run <- Run,
            Start <- AtLeastOne(StartFrames), Stop <- AtLeastOne(StopFrames)

\* The analyzer is a debouncer; a run of zero scores asks for one.
ImplementsSpan == Span!Spec
=============================================================================
