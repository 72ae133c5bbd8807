----------------------------- MODULE PwmProofs -----------------------------
(***************************************************************************)
(* What holds of the PWM programs for any sample rate and any samples, and *)
(* whichever of them are run: Ctrl-C leaves the channel turned off.        *)
(***************************************************************************)
EXTENDS PwmPrograms, TLAPS

Fields == {"exported", "taken", "period", "duty_cycle", "enable"}
Files  == {"export", "unexport", "period", "duty_cycle", "enable"}

\* A channel that is on has been given a period and can be reached.
ChanInv(chan) ==
    /\ chan = [f \in Fields |-> chan[f]]
    /\ chan.exported \in BOOLEAN
    /\ chan.enable \in {0, 1}
    /\ chan.enable = 1 => chan.exported /\ chan.period > 0 /\ chan.duty_cycle <= chan.period

\* The values written to enable are 0 and 1.
Sound(w) == w.file \in Files /\ (w.file = "enable" => w.value \in {0, 1})

MainInv ==
    /\ step = "turn_off" => i \in 1..4
    /\ pending = NoWrite \/ MainWrites(pending)
    /\ program = "none" => step = "none" /\ pending = NoWrite /\ hstep = 0 /\ hpending = NoWrite

\* The channel is off when it is given back, and given back when the handler exits.
TurnedOff ==
    /\ hstep \in 0..5
    /\ hpending = NoWrite \/ (hstep \in 1..4 /\ hpending = HandlerWrites[hstep])
    /\ hstep = 4 => pwm0.enable = 0
    /\ hstep = 5 => ~pwm0.exported
    /\ step = "turn_off" /\ i = 4 => pwm0.enable = 0
    /\ step = "exit" => ~pwm0.exported

PwmInv == ChanInv(pwm0) /\ MainInv /\ TurnedOff /\ InterruptSilences

\* The kernel lets no write turn a channel on that has no period or is not
\* exported; only an unexport has to be looked at.
LEMMA WrittenKeeps ==
    ASSUME NEW chan, ChanInv(chan), NEW w, w = NoWrite \/ Sound(w),
           w.file = "unexport" => chan.enable = 0
    PROVE  ChanInv(Written(chan, w))
<1>1. CASE ~Accepts(chan, w)
  BY <1>1 DEF Written
<1>2. CASE Accepts(chan, w) /\ w.file \in {"export", "unexport"}
  BY <1>2 DEF Written, ChanInv, Fields
<1>3. CASE Accepts(chan, w) /\ w.file \notin {"export", "unexport"}
  <2>1. w.file \in {"period", "duty_cycle", "enable"}
    BY <1>3 DEF Accepts, NoWrite, Sound, Files
  <2>2. w.file = "enable" => w.value \in {0, 1}
    BY <2>1 DEF NoWrite, Sound
  <2> DEFINE s == [chan EXCEPT ![w.file] = w.value]
  <2>3. chan.exported /\ s.period > 0 /\ s.duty_cycle <= s.period
    BY <1>3, <2>1 DEF Accepts
  <2>4. Written(chan, w) = s
    BY <1>3 DEF Written
  <2>5. s = [f \in Fields |-> s[f]] /\ s.exported = chan.exported /\ s.enable \in {0, 1}
    BY <2>1, <2>2 DEF ChanInv, Fields
  <2>6. QED
    BY <2>3, <2>4, <2>5 DEF ChanInv
<1>4. QED
  BY <1>1, <1>2, <1>3

\* What is written to a channel that is not exported leaves it turned off.
LEMMA UnexportedStaysOff ==
    ASSUME NEW chan, ChanInv(chan), ~chan.exported, NEW w, w = NoWrite \/ Sound(w)
    PROVE  Written(chan, w).enable = 0 /\ chan.enable = 0
<1>1. chan.enable = 0
  BY DEF ChanInv
<1>2. CASE ~Accepts(chan, w)
  BY <1>1, <1>2 DEF Written
<1>3. CASE Accepts(chan, w)
  <2>1. w.file = "export"
    BY <1>3 DEF Accepts, NoWrite, Sound, Files
  <2>2. QED
    BY <1>1, <1>3, <2>1 DEF Written, ChanInv, Fields
<1>4. QED
  BY <1>1, <1>2, <1>3

\* The writes of the handler: none turns the channel on, the third turns it
\* off, the fourth gives it back.
LEMMA HandlerWritesSound ==
    /\ DOMAIN HandlerWrites = 1..4 /\ Len(HandlerWrites) = 4
    /\ HandlerWrites[1] = Put("duty_cycle", 0) /\ HandlerWrites[2] = Put("period", 0)
    /\ HandlerWrites[3] = Put("enable", 0) /\ HandlerWrites[4] = Put("unexport", 0)
BY DEF HandlerWrites

LEMMA TurnOffStep ==
    ASSUME NEW chan, ChanInv(chan), NEW n \in 1..4, n = 4 => chan.enable = 0
    PROVE  /\ ChanInv(Written(chan, HandlerWrites[n]))
           /\ chan.enable = 0 => Written(chan, HandlerWrites[n]).enable = 0
           /\ ~chan.exported => ~Written(chan, HandlerWrites[n]).exported
           /\ n = 3 => Written(chan, HandlerWrites[n]).enable = 0
           /\ n = 4 => ~Written(chan, HandlerWrites[n]).exported
<1> DEFINE w == HandlerWrites[n]
<1>1. Sound(w) /\ (w.file = "unexport" => n = 4) /\ w.value = 0
      /\ (n = 3 => w.file = "enable") /\ (n = 4 => w.file = "unexport") /\ w.file # "export"
      /\ w.file # "none"
  BY HandlerWritesSound DEF Put, Sound, Files
<1>2. ChanInv(Written(chan, w))
  BY <1>1, WrittenKeeps
<1>3. CASE ~Accepts(chan, w)
  <2>1. Written(chan, w) = chan
    BY <1>3 DEF Written
  <2>2. n = 4 => ~chan.exported
    BY <1>1, <1>3 DEF Accepts, ChanInv
  <2>3. n = 3 => chan.enable = 0
    <3> SUFFICES ASSUME n = 3, chan.enable = 1 PROVE FALSE
      BY DEF ChanInv
    <3>1. [chan EXCEPT ![w.file] = w.value].period = chan.period
          /\ [chan EXCEPT ![w.file] = w.value].duty_cycle = chan.duty_cycle
      BY <1>1 DEF ChanInv, Fields
    <3>2. QED
      BY <1>1, <1>3, <3>1 DEF Accepts, ChanInv
  <2>4. QED
    BY <1>2, <2>1, <2>2, <2>3
<1>4. CASE Accepts(chan, w) /\ n = 4
  BY <1>1, <1>2, <1>4 DEF Written, ChanInv, Fields
<1>5. CASE Accepts(chan, w) /\ n # 4
  <2>1. w.file \in {"period", "duty_cycle", "enable"}
    BY <1>1, <1>5 DEF Sound, Files
  <2>2. Written(chan, w) = [chan EXCEPT ![w.file] = 0]
    BY <1>1, <1>5, <2>1 DEF Written
  <2>3. QED
    BY <1>1, <1>2, <1>5, <2>1, <2>2 DEF ChanInv, Fields
<1>6. QED
  BY <1>3, <1>4, <1>5

LEMMA MainWritesSound ==
    ASSUME MainInv, NEW w, MainWrites(w)
    PROVE  /\ Sound(w)
           /\ w.file = "unexport" => step = "turn_off" /\ i = 4
           /\ step = "turn_off" => w = HandlerWrites[i]
<1>1. CASE step = "turn_off"
  <2>1. i \in 1..4 /\ w = HandlerWrites[i]
    BY <1>1 DEF MainInv, MainWrites
  <2>2. QED
    BY <1>1, <2>1, HandlerWritesSound DEF Put, Sound, Files
<1>2. CASE step # "turn_off"
  BY <1>2 DEF MainWrites, Put, Sound, Files, Switch
<1>3. QED
  BY <1>1, <1>2

LEMMA PendingSound ==
    ASSUME PwmInv
    PROVE  /\ pending = NoWrite \/ Sound(pending)
           /\ pending.file = "unexport" => pwm0.enable = 0
           /\ ChanInv(Written(pwm0, pending))
<1>1. CASE pending = NoWrite
  BY <1>1, WrittenKeeps DEF PwmInv, NoWrite
<1>2. CASE MainWrites(pending)
  <2>1. Sound(pending) /\ (pending.file = "unexport" => pwm0.enable = 0)
    BY <1>2, MainWritesSound DEF PwmInv, TurnedOff
  <2>2. QED
    BY <2>1, WrittenKeeps DEF PwmInv
<1>3. QED
  BY <1>1, <1>2 DEF PwmInv, MainInv

\* The end of a process, if it was the handler that ended it or a file that
\* was not there, finds the channel given back.
LEMMA EndKeeps ==
    ASSUME PwmInv, NEW how, End(how),
           how \in {"turned_off", "cannot_open"} => ~pwm0.exported
    PROVE  PwmInv'
<1>1. ChanInv(pwm0)'
  BY PendingSound DEF End, PwmInv
<1>2. MainInv'
  BY DEF End, Go, MainInv, NoWrite
<1>3. TurnedOff'
  BY DEF End, Go, TurnedOff
<1>4. InterruptSilences'
  BY PendingSound, UnexportedStaysOff DEF End, PwmInv, InterruptSilences
<1>5. QED
  BY <1>1, <1>2, <1>3, <1>4 DEF PwmInv

LEMMA AfterWriteKeeps ==
    ASSUME AfterWrite, step = "turn_off" => i \in 1..4
    PROVE  /\ step' = "turn_off" => i' \in 1..4 /\ (i' = 4 => step = "turn_off" /\ i = 3)
           /\ step' = "exit" => step = "turn_off" /\ i = 4
<1>1. CASE AfterWriteLed
  BY <1>1 DEF AfterWriteLed, Go
<1>2. CASE AfterWritePlay
  BY <1>2 DEF AfterWritePlay, Go
<1>3. CASE AfterWriteMono /\ step = "turn_off"
  BY <1>3, HandlerWritesSound DEF AfterWriteMono, TurnOffNext, Go
<1>4. CASE AfterWriteMono /\ step # "turn_off"
  BY <1>4 DEF AfterWriteMono, BeginNote, Go
<1>5. QED
  BY <1>1, <1>2, <1>3, <1>4 DEF AfterWrite

\* What main writes depends on where it is, and on nothing else.
LEMMA MainWritesStays ==
    ASSUME UNCHANGED <<program, step, i>>, NEW w, MainWrites(w)
    PROVE  MainWrites(w)'
BY SMT DEF MainWrites, Switch, Period, Duties, Note, NoteDuty

\* A write of main takes place.
LEMMA CloseFileKeeps ==
    ASSUME PwmInv, CloseFile
    PROVE  PwmInv'
<1>1. MainInv /\ TurnedOff /\ ChanInv(pwm0) /\ MainWrites(pending)
  <2>1. MainInv /\ TurnedOff /\ ChanInv(pwm0)
    BY DEF PwmInv
  <2>2. pending # NoWrite
    BY DEF CloseFile
  <2>3. QED
    BY <2>1, <2>2 DEF MainInv
<1>2. ChanInv(pwm0)'
  BY PendingSound DEF CloseFile
<1>3. /\ step' = "turn_off" => i' \in 1..4 /\ (i' = 4 => step = "turn_off" /\ i = 3)
      /\ step' = "exit" => step = "turn_off" /\ i = 4
  BY <1>1, AfterWriteKeeps DEF MainInv, CloseFile
<1>4. step = "turn_off" =>
        /\ i = 3 => pwm0'.enable = 0
        /\ i = 4 => ~pwm0'.exported
  <2> SUFFICES ASSUME step = "turn_off" PROVE (i = 3 => pwm0'.enable = 0) /\ (i = 4 => ~pwm0'.exported)
    OBVIOUS
  <2>1. i \in 1..4 /\ pwm0' = Written(pwm0, HandlerWrites[i]) /\ (i = 4 => pwm0.enable = 0)
    BY <1>1, MainWritesSound DEF MainInv, TurnedOff, CloseFile
  <2>2. QED
    BY <1>1, <2>1, TurnOffStep
<1>5. MainInv'
  BY <1>1, <1>3 DEF MainInv, CloseFile
<1>6. TurnedOff'
  BY <1>1, <1>3, <1>4 DEF TurnedOff, CloseFile, handlerVars, NoWrite
<1>7. InterruptSilences'
  BY DEF InterruptSilences, CloseFile, AfterWrite
<1>8. QED
  BY <1>2, <1>5, <1>6, <1>7 DEF PwmInv

\* A write of the handler takes place.
LEMMA HandlerClosesKeeps ==
    ASSUME PwmInv, HandlerCloses
    PROVE  PwmInv'
<1>1. MainInv /\ TurnedOff /\ ChanInv(pwm0)
  BY DEF PwmInv
<1>2. hstep \in 1..4 /\ pwm0' = Written(pwm0, HandlerWrites[hstep]) /\ (hstep = 4 => pwm0.enable = 0)
  BY <1>1 DEF TurnedOff, HandlerCloses
<1>3. /\ ChanInv(pwm0)'
      /\ pwm0.enable = 0 => pwm0'.enable = 0
      /\ ~pwm0.exported => ~pwm0'.exported
      /\ hstep = 3 => pwm0'.enable = 0
      /\ hstep = 4 => ~pwm0'.exported
  BY <1>1, <1>2, TurnOffStep
<1>4. MainInv'
  BY <1>1, MainWritesStays, SMT DEF MainInv, HandlerCloses, mainVars
<1>5. TurnedOff'
  BY <1>1, <1>2, <1>3 DEF TurnedOff, HandlerCloses, mainVars
<1>6. InterruptSilences'
  BY <1>3 DEF PwmInv, InterruptSilences, HandlerCloses, mainVars
<1>7. QED
  BY <1>3, <1>4, <1>5, <1>6 DEF PwmInv

\* pwm_play_music: at any sample rate up to 1 GHz every sample gives a duty cycle
\* between nothing and the whole period, which the kernel accepts.
LEMMA SampleDutyFits ==
    ASSUME NEW sample \in Samples
    PROVE  SamplePeriod \in Nat \ {0} /\ SampleDuty(sample) \in 0..SamplePeriod
<1>1. SamplePeriod \in Nat \ {0}
  BY PwmAssumption, SMT DEF SamplePeriod
<1> DEFINE k == sample + 1 + 32768
<1>2. k \in Nat /\ k <= 65536
  BY PwmAssumption, SMT
<1>3. ASSUME NEW P \in Nat, NEW n \in Nat, NEW m \in Nat, n <= m
      PROVE  n * P \in Nat /\ n * P <= m * P
  <2>1. (m - n) * P >= 0
    BY <1>3, SMT
  <2>2. QED
    BY <1>3, <2>1, SMT
<1>4. ASSUME NEW P \in Nat, NEW m \in Nat, m <= 65536 * P
      PROVE  m \div 65536 \in 0..P
  <2> DEFINE q == m \div 65536
  <2>1. q \in Nat /\ 65536 * q <= m
    BY SMT
  <2>2. 65536 * q <= 65536 * P
    BY <1>4, <2>1, SMT
  <2> HIDE DEF q
  <2>3. q <= P
    BY <2>1, <2>2, SMT
  <2>4. QED
    BY <2>1, <2>3 DEF q
<1>5. SampleDuty(sample) = (k * SamplePeriod) \div 65536
  BY DEF SampleDuty
<1> HIDE DEF k
<1>6. QED
  BY <1>1, <1>2, <1>3, <1>4, <1>5, SMT

LEMMA PwmInit == Init => PwmInv
BY DEF Init, PwmInv, ChanInv, Fields, MainInv, TurnedOff, InterruptSilences

LEMMA PwmStep ==
    ASSUME PwmInv, [Next]_vars
    PROVE  PwmInv'
<1>1. ASSUME NEW p \in Programs, Start(p) PROVE PwmInv'
  <2>1. p # "none"
    BY ProgramsAssumption
  <2>2. QED
    BY <1>1, <2>1 DEF Start, Go, PwmInv, MainInv, TurnedOff, handlerVars,
       InterruptSilences
<1>2. CASE OpenFile
  <2>1. MainInv'
    <3>1. MainWrites(pending)'
      BY <1>2, SMT DEF OpenFile, MainWrites, Switch, Period, Duties, Note, NoteDuty
    <3>2. QED
      BY <1>2, <3>1 DEF PwmInv, MainInv, OpenFile, handlerVars, MainWrites
  <2>2. QED
    BY <1>2, <2>1 DEF PwmInv, OpenFile, handlerVars, TurnedOff, InterruptSilences
<1>3. CASE CannotOpen
  BY <1>3, EndKeeps DEF CannotOpen, CanOpen
<1>4. CASE CloseFile
  BY <1>4, CloseFileKeeps
<1>5. CASE LoadWav
  <2>1. pending = NoWrite
    BY <1>5 DEF LoadWav, PwmInv, MainInv, MainWrites
  <2>2. QED
    BY <1>5, <2>1 DEF LoadWav, Go, PwmInv, MainInv, TurnedOff, handlerVars, InterruptSilences
<1>6. CASE LoadFails
  BY <1>6, EndKeeps DEF LoadFails
<1>7. CASE Return
  BY <1>7, EndKeeps DEF Return, PwmInv, TurnedOff
<1>8. CASE HandlerOpens
  <2>1. MainInv'
    BY <1>8, MainWritesStays, HandlerWritesSound, SMT DEF PwmInv, MainInv, HandlerOpens, mainVars
  <2>2. QED
    BY <1>8, <2>1, HandlerWritesSound DEF PwmInv, HandlerOpens, mainVars, TurnedOff,
       InterruptSilences
<1>9. CASE HandlerCannotOpen
  BY <1>9, EndKeeps DEF HandlerCannotOpen, CanOpen
<1>10. CASE HandlerCloses
  BY <1>10, HandlerClosesKeeps
<1>11. CASE HandlerExits
  BY <1>11, EndKeeps, HandlerWritesSound DEF HandlerExits, PwmInv, TurnedOff
<1>12. CASE Interrupt
  <2>1. MainInv'
    BY <1>12, MainWritesStays, SMT DEF PwmInv, MainInv, Interrupt, mainVars, NoWrite
  <2>2. QED
    BY <1>12, <2>1 DEF PwmInv, Interrupt, mainVars, TurnedOff, InterruptSilences, NoWrite
<1>13. CASE UNCHANGED vars
  <2>1. MainInv'
    BY <1>13, MainWritesStays, SMT DEF PwmInv, MainInv, vars
  <2>2. QED
    BY <1>13, <2>1 DEF PwmInv, vars, TurnedOff, InterruptSilences
<1>14. QED
  BY <1>1, <1>2, <1>3, <1>4, <1>5, <1>6, <1>7, <1>8, <1>9, <1>10, <1>11, <1>12, <1>13
     DEF Next, Process

\* A channel that is on is exported: its sysfs files are there to turn it off.
OnCanBeTurnedOff == pwm0.enable = 1 => pwm0.exported

\* Ctrl-C leaves the channel off, for any sample rate, samples and programs; with
\* it goes that a channel that is on can be reached.
THEOREM InterruptSilencesHolds == Spec => [](InterruptSilences /\ OnCanBeTurnedOff)
<1>1. PwmInv => InterruptSilences /\ OnCanBeTurnedOff
  BY DEF PwmInv, ChanInv, OnCanBeTurnedOff
<1>2. QED
  BY <1>1, PwmInit, PwmStep, PTL DEF Spec

-----------------------------------------------------------------------------
(* Where main is and what the channel holds. *)

\* Where main can be in each of the programs.
Place ==
    /\ program \in Programs \cup {"none"}
    /\ program = "none" => step = "none" /\ i = 0
    /\ program = "led_brightness" =>
         /\ step \in {"export", "enable", "period", "duty_cycle"}
         /\ i \in 0..(RampLength - 1)
    /\ program = "mono_music" =>
         /\ step \in {"export", "period", "duty_cycle", "enable", "disable", "turn_off", "exit"}
         /\ step \in {"period", "duty_cycle", "enable", "disable"} => i \in 1..Len(Melody)
         /\ step \in {"period", "duty_cycle"} => Note # R
         /\ step = "export" => i = 0
         /\ step = "exit" => i = 5
    /\ program = "pwm_play_music" =>
         /\ step \in {"export", "enable", "load", "period", "duty_cycle", "return"}
         /\ i = 0

\* The channel holds numbers that pwm_apply_state has accepted.
Numbers(chan) ==
    /\ chan.taken \in BOOLEAN
    /\ chan.period \in Nat /\ chan.duty_cycle \in Nat
    /\ chan.duty_cycle <= chan.period

TypeInv ==
    /\ PwmInv /\ Place /\ Numbers(pwm0)
    /\ ended \in {"never", "turned_off", "cannot_open", "returned", "no_wav"}

\* Main has not yet written the period of its program, or it plays samples.
BeforePeriod ==
    \/ program = "none"
    \/ program = "pwm_play_music"
    \/ (program = "led_brightness" /\ step # "duty_cycle")
    \/ (program = "mono_music" /\ (step = "export" \/ (step = "period" /\ i = 1)))

\* The only duty cycle that survives its program is that of a sample.
LeftOver ==
    /\ ~pwm0.exported \/ BeforePeriod => pwm0.duty_cycle <= SamplePeriod
    /\ hstep > 1 \/ (step = "turn_off" /\ i > 1) \/ step = "exit" => pwm0.duty_cycle = 0
    /\ hpending # NoWrite /\ hstep < 4 => pwm0.exported

\* The longest duty cycle is that of the lowest note, the shortest period that of
\* the highest.
LongestDuty == 500000000 \div G
ShortestPeriod == 1000000000 \div C

NotePeriod == 1000000000 \div Note

SoundsNote ==
    /\ Note # R
    /\ pwm0.period = NotePeriod
    /\ pwm0.duty_cycle = NoteDuty

\* What a main that has not been interrupted has achieved when it comes to a step.
Achieved ==
    /\ pending # NoWrite /\ NeedsChannel => pwm0.exported
    /\ program = "led_brightness" /\ step = "duty_cycle" => pwm0.exported /\ pwm0.period = PERIOD
    /\ program = "pwm_play_music" /\ step = "duty_cycle" =>
         pwm0.exported /\ pwm0.period = SamplePeriod
    /\ program = "mono_music" =>
         /\ step = "period" /\ i > 1 =>
              pwm0.exported /\ pwm0.enable = 0 /\ pwm0.duty_cycle <= LongestDuty
         /\ step = "duty_cycle" =>
              pwm0.exported /\ (i > 1 => pwm0.enable = 0) /\ pwm0.period = NotePeriod
         /\ step = "enable" =>
              /\ pwm0.exported /\ pwm0.period > 0 /\ pwm0.duty_cycle <= LongestDuty
              /\ SoundsNote \/ (Note = R /\ pwm0.enable = 0)
         /\ step = "disable" =>
              /\ pwm0.exported /\ pwm0.period > 0 /\ pwm0.duty_cycle <= LongestDuty
              /\ SoundsNote \/ pwm0.enable = 0

EffectInv == TypeInv /\ LeftOver /\ (hstep = 0 => Achieved)

\* What is left of a sample fits into the periods of the other programs.
SamplesFit ==
    /\ "led_brightness" \in Programs => SamplePeriod <= PERIOD
    /\ "mono_music" \in Programs => SamplePeriod <= ShortestPeriod

LEMMA Concatenated ==
    ASSUME NEW S, NEW s \in Seq(S), NEW t \in Seq(S), Len(s) \in Nat \ {0}
    PROVE  /\ s \o t \in Seq(S)
           /\ Len(s \o t) \in Nat \ {0}
           /\ Len(s \o t) = Len(s) + Len(t)
           /\ (s \o t)[1] = s[1]
BY SMT

\* The melody is 58 notes long and does not begin with a rest.
LEMMA MelodyNotes ==
    /\ Len(Melody) = 58
    /\ \A n \in 1..Len(Melody) : Melody[n] \in {C, D, E, F, G, R}
    /\ Melody[1] = E
<1> DEFINE P == {C, D, E, F, G, R}
           S1 == <<F, F, F, F, F, E, E, E, E, D, D, E, D, R, G, R>>
           S2 == <<F, F, F, F, F, E, E, E, G, G, F, D, C, R>>
           M2 == Bars \o S1
           M3 == M2 \o Bars
<1>1. Bars \in Seq(P) /\ Len(Bars) = 14 /\ Bars[1] = E
  BY DEF Bars
<1>2. S1 \in Seq(P) /\ Len(S1) = 16
  OBVIOUS
<1>3. S2 \in Seq(P) /\ Len(S2) = 14
  OBVIOUS
<1>4. Melody = M3 \o S2
  BY DEF Melody
<1>5. Len(Bars) \in Nat \ {0}
  BY <1>1
<1> HIDE DEF P, S1, S2
<1>6. M2 \in Seq(P) /\ Len(M2) \in Nat \ {0} /\ Len(M2) = Len(Bars) + Len(S1) /\ M2[1] = E
  BY <1>1, <1>2, <1>5, Concatenated, Zenon
<1> HIDE DEF M2
<1>7. M3 \in Seq(P) /\ Len(M3) \in Nat \ {0} /\ Len(M3) = Len(M2) + Len(Bars) /\ M3[1] = E
  BY <1>1, <1>6, Concatenated, Zenon
<1> HIDE DEF M3
<1>8. Melody \in Seq(P) /\ Len(Melody) = Len(M3) + Len(S2) /\ Melody[1] = E
  BY <1>3, <1>4, <1>7, Concatenated, Zenon
<1>9. Len(Melody) = 58
  BY <1>1, <1>2, <1>3, <1>6, <1>7, <1>8, SMT
<1>10. \A n \in 1..Len(Melody) : Melody[n] \in P
  BY <1>8, SMT
<1>11. QED
  BY <1>8, <1>9, <1>10, Zenon DEF P

\* The periods and duty cycles of the notes: every duty cycle fits into every period.
LEMMA NoteNumbers ==
    ASSUME i \in 1..Len(Melody), Note # R
    PROVE  /\ NotePeriod \in Nat /\ NoteDuty \in Nat
           /\ NoteDuty <= NotePeriod /\ NoteDuty <= LongestDuty
           /\ ShortestPeriod <= NotePeriod /\ LongestDuty <= NotePeriod
<1>1. Note \in {2100, 1870, 1670, 1580, 1400}
  <2>1. Note \in {C, D, E, F, G}
    BY MelodyNotes DEF Note
  <2>2. QED
    BY <2>1, SMT DEF C, D, E, F, G
<1>2. QED
  BY <1>1, SMT DEF LongestDuty, ShortestPeriod, NotePeriod, NoteDuty, C, G

LEMMA LimitNumbers == LongestDuty \in Nat /\ ShortestPeriod \in Nat /\ ShortestPeriod > 0
BY SMT DEF LongestDuty, ShortestPeriod, C, G

LEMMA RampNumbers ==
    /\ RampLength = 202 /\ PERIOD \in Nat /\ PERIOD > 0
    /\ \A n \in 0..201 : Ramp(n) \in 0..PERIOD
<1>1. RampLength = 202 /\ PERIOD = 100 * 1000
  BY SMT DEF RampLength, PERIOD
<1>2. PERIOD \in Nat
  BY SMT DEF PERIOD
<1>3. ASSUME NEW m \in Nat, m <= 100 PROVE 1000 * m \in Nat /\ 1000 * m <= PERIOD
  BY <1>1, <1>3, SMT
<1>4. ASSUME NEW n \in 0..201, 2 * n < 202 PROVE Ramp(n) \in 0..PERIOD
  <2>1. Ramp(n) = 1000 * n /\ n \in Nat /\ n <= 100
    BY <1>1, <1>4, SMT DEF Ramp
  <2>2. QED
    BY <1>2, <1>3, <2>1, SMT
<1>5. ASSUME NEW n \in 0..201, ~(2 * n < 202) PROVE Ramp(n) \in 0..PERIOD
  <2>1. 202 - 1 - n \in Nat /\ 202 - 1 - n <= 100
    BY <1>5, SMT
  <2>2. Ramp(n) = 1000 * (202 - 1 - n)
    BY <1>1, <1>5, SMT DEF Ramp
  <2>3. QED
    BY <1>2, <1>3, <2>1, <2>2, SMT
<1>6. ASSUME NEW n \in 0..201 PROVE Ramp(n) \in 0..PERIOD
  BY <1>4, <1>5
<1>7. PERIOD > 0
  BY SMT DEF PERIOD
<1>8. QED
  BY <1>1, <1>2, <1>6, <1>7

-----------------------------------------------------------------------------
(* What a write does to the channel. *)

LEMMA WrittenNumbers ==
    ASSUME NEW chan, ChanInv(chan), Numbers(chan), NEW w, w = NoWrite \/ Sound(w), w.value \in Int
    PROVE  Numbers(Written(chan, w))
<1>1. CASE ~Accepts(chan, w)
  BY <1>1 DEF Written
<1>2. CASE Accepts(chan, w) /\ w.file \in {"export", "unexport"}
  BY <1>2 DEF Written, ChanInv, Fields, Numbers
<1>3. CASE Accepts(chan, w) /\ w.file \notin {"export", "unexport"}
  <2>1. w.file \in {"period", "duty_cycle", "enable"} /\ w.value \in Nat
    BY <1>3 DEF Accepts, NoWrite, Sound, Files
  <2> DEFINE s == [chan EXCEPT ![w.file] = w.value]
  <2>2. s.period > 0 /\ s.duty_cycle <= s.period
    BY <1>3, <2>1 DEF Accepts
  <2>3. Written(chan, w) = s
    BY <1>3 DEF Written
  <2>4. s.taken = chan.taken /\ s.period \in Nat /\ s.duty_cycle \in Nat
    BY <2>1 DEF ChanInv, Fields, Numbers
  <2>5. QED
    BY <2>2, <2>3, <2>4 DEF Numbers
<1>4. QED
  BY <1>1, <1>2, <1>3

\* A period that the duty cycle fits into is taken over.
LEMMA PeriodWritten ==
    ASSUME NEW chan, ChanInv(chan), Numbers(chan), chan.exported,
           NEW p \in Nat, p > 0, chan.duty_cycle <= p
    PROVE  /\ Written(chan, Put("period", p)).period = p
           /\ \A f \in Fields \ {"period"} : Written(chan, Put("period", p))[f] = chan[f]
<1>1. Accepts(chan, Put("period", p))
  BY DEF Accepts, Put, ChanInv, Fields
<1>2. Written(chan, Put("period", p)) = [chan EXCEPT !["period"] = p]
  BY <1>1 DEF Written, Put
<1>3. QED
  BY <1>2 DEF ChanInv, Fields

LEMMA DutyWritten ==
    ASSUME NEW chan, ChanInv(chan), Numbers(chan), chan.exported, chan.period > 0,
           NEW d \in 0..chan.period
    PROVE  /\ Written(chan, Put("duty_cycle", d)).duty_cycle = d
           /\ \A f \in Fields \ {"duty_cycle"} : Written(chan, Put("duty_cycle", d))[f] = chan[f]
<1>1. Accepts(chan, Put("duty_cycle", d))
  BY DEF Accepts, Put, ChanInv, Fields, Numbers
<1>2. Written(chan, Put("duty_cycle", d)) = [chan EXCEPT !["duty_cycle"] = d]
  BY <1>1 DEF Written, Put
<1>3. QED
  BY <1>2 DEF ChanInv, Fields

LEMMA EnableWritten ==
    ASSUME NEW chan, ChanInv(chan), Numbers(chan), NEW v \in {0, 1}
    PROVE  /\ chan.exported /\ chan.period > 0 => Written(chan, Put("enable", v)).enable = v
           /\ \A f \in Fields \ {"enable"} : Written(chan, Put("enable", v))[f] = chan[f]
<1>1. CASE Accepts(chan, Put("enable", v))
  <2>1. Written(chan, Put("enable", v)) = [chan EXCEPT !["enable"] = v]
    BY <1>1 DEF Written, Put
  <2>2. QED
    BY <2>1 DEF ChanInv, Fields
<1>2. CASE ~Accepts(chan, Put("enable", v))
  <2>1. Written(chan, Put("enable", v)) = chan
    BY <1>2 DEF Written
  <2>2. ~(chan.exported /\ chan.period > 0)
    BY <1>2 DEF Accepts, Put, ChanInv, Fields, Numbers
  <2>3. QED
    BY <2>1, <2>2
<1>3. QED
  BY <1>1, <1>2

\* Export and unexport change nothing else.
LEMMA ExportWritten ==
    ASSUME NEW chan, ChanInv(chan), NEW file \in {"export", "unexport"}, NEW v
    PROVE  \A f \in Fields \ {"exported"} : Written(chan, Put(file, v))[f] = chan[f]
<1>1. CASE ~Accepts(chan, Put(file, v))
  BY <1>1 DEF Written
<1>2. CASE Accepts(chan, Put(file, v))
  <2>1. Written(chan, Put(file, v)) = [chan EXCEPT !.exported = file = "export"]
    BY <1>2 DEF Written, Put
  <2>2. QED
    BY <2>1 DEF ChanInv, Fields
<1>3. QED
  BY <1>1, <1>2

-----------------------------------------------------------------------------
(* The type invariant. *)

LEMMA PlaceAfterWrite ==
    ASSUME Place, AfterWrite, program' = program, step = "turn_off" => i \in 1..4
    PROVE  Place'
<1>1. program \in Programs /\ program # "none"
  BY ProgramsAssumption DEF AfterWrite, Place
<1>2. CASE program = "led_brightness"
  <2>1. AfterWriteLed /\ RampLength = 202
    BY <1>2, RampNumbers DEF AfterWrite
  <2>2. i \in 0..201
    BY <1>2, <2>1 DEF Place
  <2>3. (i + 1) % 202 \in 0..201
    BY <2>2, SMT
  <2>4. step' \in {"export", "enable", "period", "duty_cycle"} /\ i' \in 0..201
    BY <2>1, <2>2, <2>3 DEF AfterWriteLed, Go
  <2>5. QED
    BY <1>1, <1>2, <2>1, <2>4 DEF Place
<1>3. CASE program = "pwm_play_music"
  BY <1>1, <1>3 DEF AfterWrite, AfterWritePlay, Go, Place
<1>4. CASE program = "mono_music"
  <2>1. AfterWriteMono
    BY <1>4 DEF AfterWrite
  <2>2. ASSUME NEW n \in 1..Len(Melody), BeginNote(n) PROVE Place'
    <3>1. step' \in {"enable", "period"} /\ i' = n /\ (step' = "period" => Note' # R)
      BY <2>2 DEF BeginNote, Go, Note
    <3>2. QED
      BY <1>1, <1>4, <3>1 DEF Place
  <2>3. CASE step = "export"
    BY <2>1, <2>2, <2>3, MelodyNotes DEF AfterWriteMono
  <2>4. CASE step \in {"period", "duty_cycle", "enable"}
    <3>1. i \in 1..Len(Melody) /\ i' = i /\ step' \in {"duty_cycle", "enable", "disable"}
          /\ (step' = "duty_cycle" => Note # R)
      BY <1>4, <2>1, <2>4 DEF AfterWriteMono, Go, Place
    <3>2. Note' = Note
      BY <3>1 DEF Note
    <3>3. QED
      BY <1>1, <1>4, <3>1, <3>2 DEF Place
  <2>5. CASE step = "disable" /\ i < Len(Melody)
    <3>1. i + 1 \in 1..Len(Melody)
      BY <1>4, <2>5, MelodyNotes DEF Place
    <3>2. BeginNote(i + 1)
      BY <2>1, <2>5, MelodyNotes DEF AfterWriteMono
    <3>3. QED
      BY <2>2, <3>1, <3>2
  <2>6. CASE step = "disable" /\ ~(i < Len(Melody))
    BY <1>1, <1>4, <2>1, <2>6 DEF AfterWriteMono, Go, Place
  <2>7. CASE step = "turn_off"
    <3>1. (step' = "turn_off" /\ i < 4) \/ (step' = "exit" /\ i' = i + 1 /\ i >= 4)
      BY <2>1, <2>7, HandlerWritesSound, SMT DEF AfterWriteMono, TurnOffNext, Go
    <3>2. step' = "turn_off" \/ (step' = "exit" /\ i' = 5)
      BY <2>7, <3>1
    <3>3. QED
      BY <1>1, <1>4, <3>2 DEF Place
  <2>8. QED
    BY <2>1, <2>3, <2>4, <2>5, <2>6, <2>7 DEF AfterWriteMono
<1>5. QED
  BY <1>2, <1>3, <1>4 DEF AfterWrite

\* Main stays where it is, or ends, or goes on from a write or from loading its file.
LEMMA PlaceStep ==
    ASSUME Place, MainInv, [Next]_vars
    PROVE  Place'
<1>1. CASE UNCHANGED <<program, step, i>>
  BY <1>1 DEF Place, Note
<1>2. CASE program' = "none" /\ step' = "none" /\ i' = 0
  BY <1>2, ProgramsAssumption DEF Place
<1>3. ASSUME NEW p \in Programs, Start(p) PROVE Place'
  BY <1>3, ProgramsAssumption, RampNumbers, SMT DEF Start, Go, Place
<1>4. CASE LoadWav
  BY <1>4, ProgramsAssumption DEF LoadWav, Go, Place
<1>5. CASE CloseFile
  BY <1>5, PlaceAfterWrite DEF CloseFile, MainInv
<1>6. ASSUME NEW how, End(how) PROVE Place'
  BY <1>2, <1>6 DEF End, Go
<1>7. QED
  BY <1>1, <1>3, <1>4, <1>5, <1>6 DEF Next, Process, OpenFile, CannotOpen, LoadFails, Return,
     Interrupt, HandlerOpens, HandlerCannotOpen, HandlerCloses, HandlerExits, mainVars, vars

\* The value that main writes is a number.
LEMMA MainWritesNumbers ==
    ASSUME Place, MainInv, NEW w, MainWrites(w)
    PROVE  w.value \in Int
<1>1. CASE step = "period"
  <2>1. w.value = Period
    BY <1>1 DEF MainWrites, Put
  <2>2. program = "mono_music" => NotePeriod \in Nat
    BY <1>1, NoteNumbers DEF Place
  <2>3. SamplePeriod \in Nat /\ PERIOD \in Nat
    BY PwmAssumption, SMT DEF SamplePeriod, PERIOD
  <2>4. QED
    BY <2>1, <2>2, <2>3, SMT DEF Period, NotePeriod
<1>2. CASE step = "duty_cycle"
  <2>1. w.value \in Duties
    BY <1>2 DEF MainWrites, Put
  <2>2. program = "mono_music" => NoteDuty \in Nat
    BY <1>2, NoteNumbers DEF Place
  <2>3. program = "led_brightness" => Ramp(i) \in Int
    BY RampNumbers, SMT DEF Place
  <2>4. \A s \in Samples : SampleDuty(s) \in Int
    BY SampleDutyFits, SMT
  <2>5. QED
    BY <2>1, <2>2, <2>3, <2>4, SMT DEF Duties
<1>3. CASE step = "turn_off"
  BY <1>3, HandlerWritesSound DEF MainWrites, Put, MainInv
<1>4. CASE step \notin {"period", "duty_cycle", "turn_off"}
  BY <1>4 DEF MainWrites, Put, Switch
<1>5. QED
  BY <1>1, <1>2, <1>3, <1>4

\* A step leaves the channel as it is, or is a write of main or of the handler.
LEMMA ChannelStep ==
    ASSUME [Next]_vars
    PROVE  \/ pwm0' = pwm0
           \/ pwm0' = Written(pwm0, pending)
           \/ hpending # NoWrite /\ pwm0' = Written(pwm0, hpending)
<1>1. ASSUME NEW how, End(how) PROVE pwm0' = pwm0 \/ pwm0' = Written(pwm0, pending)
  BY <1>1 DEF End
<1>2. QED
  BY <1>1 DEF Next, Process, Start, OpenFile, CannotOpen, CloseFile, LoadWav, LoadFails, Return,
     Interrupt, HandlerOpens, HandlerCannotOpen, HandlerCloses, HandlerExits, vars

LEMMA HandlerPendingSound ==
    ASSUME TurnedOff, hpending # NoWrite
    PROVE  hstep \in 1..4 /\ hpending = HandlerWrites[hstep] /\ Sound(hpending) /\ hpending.value = 0
BY HandlerWritesSound DEF TurnedOff, Sound, Put, Files

LEMMA TypeStep ==
    ASSUME TypeInv, [Next]_vars
    PROVE  TypeInv'
<1>1. PwmInv'
  BY PwmStep DEF TypeInv
<1>2. Place'
  BY PlaceStep DEF TypeInv, PwmInv
<1>3. Numbers(pwm0)'
  <2>1. Numbers(pwm0) /\ ChanInv(pwm0)
    BY DEF TypeInv, PwmInv
  <2>2. CASE pwm0' = pwm0
    BY <2>1, <2>2
  <2>3. CASE pwm0' = Written(pwm0, pending)
    <3>1. pending.value \in Int
      BY MainWritesNumbers DEF TypeInv, PwmInv, MainInv, NoWrite
    <3>2. QED
      BY <2>1, <2>3, <3>1, PendingSound, WrittenNumbers DEF TypeInv
  <2>4. CASE hpending # NoWrite /\ pwm0' = Written(pwm0, hpending)
    BY <2>1, <2>4, HandlerPendingSound, WrittenNumbers DEF TypeInv, PwmInv
  <2>5. QED
    BY <2>2, <2>3, <2>4, ChannelStep
<1>4. (ended \in {"never", "turned_off", "cannot_open", "returned", "no_wav"})'
  BY DEF TypeInv, Next, Process, Start, OpenFile, CannotOpen, CloseFile, LoadWav, LoadFails, Return,
     Interrupt, HandlerOpens, HandlerCannotOpen, HandlerCloses, HandlerExits, vars, End
<1>5. QED
  BY <1>1, <1>2, <1>3, <1>4 DEF TypeInv

LEMMA TypeInit == Init => TypeInv
<1> SUFFICES ASSUME Init PROVE TypeInv
  OBVIOUS
<1>1. Numbers(pwm0)
  <2>1. MayBeTaken \in BOOLEAN
    BY PwmAssumption, SMT
  <2>2. PICK t \in {FALSE, MayBeTaken} :
          pwm0 = [exported |-> FALSE, taken |-> t, period |-> 0, duty_cycle |-> 0, enable |-> 0]
    BY DEF Init
  <2>3. t \in BOOLEAN
    BY <2>1, <2>2, Zenon
  <2>4. pwm0.taken = t /\ pwm0.period = 0 /\ pwm0.duty_cycle = 0
    BY <2>2
  <2>5. pwm0.taken \in BOOLEAN
    BY <2>3, <2>4, Zenon
  <2>6. QED
    BY <2>4, <2>5 DEF Numbers
<1>2. Place
  BY ProgramsAssumption DEF Init, Place
<1>3. QED
  BY <1>1, <1>2, PwmInit DEF Init, TypeInv

\* Every variable has its type, for any sample rate, samples and programs: the
\* ramp is never left, a negative or missing number never reaches the channel.
THEOREM TypesHold == Spec => []TypeOK
<1>1. TypeInv => TypeOK
  <2> SUFFICES ASSUME TypeInv PROVE TypeOK
    OBVIOUS
  <2>1. pwm0 \in [exported : BOOLEAN, taken : BOOLEAN, period : Nat, duty_cycle : Nat, enable : {0, 1}]
    BY DEF TypeInv, PwmInv, ChanInv, Fields, Numbers
  <2>2. pending \in Write
    <3>1. CASE pending = NoWrite
      BY <3>1 DEF NoWrite, Write
    <3>2. CASE MainWrites(pending)
      <4>1. Sound(pending) /\ pending.value \in Int
        BY <3>2, MainWritesSound, MainWritesNumbers DEF TypeInv, PwmInv
      <4>2. \E f, v : pending = Put(f, v)
        BY <3>2, HandlerWritesSound DEF MainWrites, TypeInv, PwmInv, MainInv
      <4>3. QED
        BY <4>1, <4>2 DEF Put, Sound, Files, Write
    <3>3. QED
      BY <3>1, <3>2 DEF TypeInv, PwmInv, MainInv
  <2>3. hpending \in Write /\ hstep \in 0..5
    BY HandlerWritesSound DEF TypeInv, PwmInv, TurnedOff, NoWrite, Put, Write
  <2>4. /\ program \in Programs \cup {"none"}
        /\ step \in {"none", "export", "enable", "disable", "period", "duty_cycle", "load",
                     "turn_off", "exit", "return"}
    BY ProgramsAssumption DEF TypeInv, Place
  <2>5. i \in 0..(RampLength - 1)
    <3>1. RampLength - 1 = 201 /\ Len(Melody) = 58
      BY RampNumbers, MelodyNotes
    <3>2. CASE program = "none"
      BY <3>1, <3>2 DEF TypeInv, Place
    <3>3. CASE program = "led_brightness"
      BY <3>3 DEF TypeInv, Place
    <3>4. CASE program = "mono_music"
      <4>1. \/ i \in 1..Len(Melody) \/ i = 0 \/ i = 5 \/ i \in 1..4
        BY <3>4 DEF TypeInv, Place, PwmInv, MainInv
      <4>2. QED
        BY <3>1, <4>1
    <3>5. CASE program = "pwm_play_music"
      BY <3>1, <3>5 DEF TypeInv, Place
    <3>6. QED
      BY ProgramsAssumption, <3>2, <3>3, <3>4, <3>5 DEF TypeInv, Place
  <2>6. QED
    BY <2>1, <2>2, <2>3, <2>4, <2>5, HandlerWritesSound DEF TypeOK, TypeInv
<1>2. QED
  BY <1>1, TypeInit, TypeStep, PTL DEF Spec

-----------------------------------------------------------------------------
(* Every period and duty cycle takes effect. *)

\* A channel that is not exported keeps its duty cycle.
LEMMA UnexportedKeepsDuty ==
    ASSUME NEW chan, ChanInv(chan), ~chan.exported, NEW w, w = NoWrite \/ Sound(w)
    PROVE  Written(chan, w).duty_cycle = chan.duty_cycle
<1>1. CASE ~Accepts(chan, w)
  BY <1>1 DEF Written
<1>2. CASE Accepts(chan, w)
  <2>1. w.file = "export"
    BY <1>2 DEF Accepts, NoWrite, Sound, Files
  <2>2. QED
    BY <1>2, <2>1 DEF Written, ChanInv, Fields
<1>3. QED
  BY <1>1, <1>2

\* The first write of the handler sets the duty cycle to 0, where it stays.
LEMMA TurnOffDuty ==
    ASSUME NEW chan, ChanInv(chan), Numbers(chan), NEW n \in 1..4,
           n < 4 => chan.exported, n > 1 => chan.duty_cycle = 0
    PROVE  /\ Written(chan, HandlerWrites[n]).duty_cycle = 0
           /\ n < 4 => Written(chan, HandlerWrites[n]).exported
<1>1. CASE n = 1
  <2>1. HandlerWrites[n] = Put("duty_cycle", 0) /\ chan.exported
    BY <1>1, HandlerWritesSound
  <2>2. CASE chan.period > 0
    <3>1. 0 \in 0..chan.period
      BY <2>2 DEF Numbers
    <3>2. QED
      BY <2>1, <2>2, <3>1, DutyWritten DEF Fields
  <2>3. CASE ~(chan.period > 0)
    <3>1. chan.period = 0 /\ chan.duty_cycle = 0
      BY <2>3 DEF Numbers
    <3>2. ~Accepts(chan, Put("duty_cycle", 0))
      BY <3>1 DEF Accepts, Put, ChanInv, Fields
    <3>3. QED
      BY <2>1, <3>1, <3>2 DEF Written
  <2>4. QED
    BY <2>2, <2>3
<1>2. CASE n = 2
  <2>1. HandlerWrites[n] = Put("period", 0) /\ chan.exported /\ chan.duty_cycle = 0
    BY <1>2, HandlerWritesSound
  <2>2. ~Accepts(chan, Put("period", 0))
    BY DEF Accepts, Put, ChanInv, Fields
  <2>3. QED
    BY <2>1, <2>2 DEF Written
<1>3. CASE n = 3
  <2>1. HandlerWrites[n] = Put("enable", 0) /\ chan.exported /\ chan.duty_cycle = 0
    BY <1>3, HandlerWritesSound
  <2>2. QED
    BY <2>1, EnableWritten DEF Fields
<1>4. CASE n = 4
  <2>1. HandlerWrites[n] = Put("unexport", 0) /\ chan.duty_cycle = 0
    BY <1>4, HandlerWritesSound
  <2>2. QED
    BY <1>4, <2>1, ExportWritten DEF Fields
<1>5. QED
  BY <1>1, <1>2, <1>3, <1>4

\* When main writes its period, the duty cycle of the channel fits into it.
LEMMA PeriodFits ==
    ASSUME EffectInv, SamplesFit, hstep = 0, pending # NoWrite, step = "period"
    PROVE  /\ pwm0.exported /\ pending = Put("period", Period)
           /\ Period \in Nat /\ Period > 0 /\ pwm0.duty_cycle <= Period
<1>1. /\ pwm0.exported /\ pending = Put("period", Period)
      /\ Place /\ Numbers(pwm0) /\ LeftOver /\ Achieved
  BY DEF EffectInv, TypeInv, PwmInv, MainInv, MainWrites, Achieved, NeedsChannel
<1>2. SamplePeriod \in Nat /\ SamplePeriod > 0
  BY PwmAssumption, SMT DEF SamplePeriod
<1>3. CASE program = "led_brightness"
  <2>1. Period = PERIOD /\ SamplePeriod <= PERIOD /\ pwm0.duty_cycle <= SamplePeriod
    BY <1>1, <1>3 DEF Period, SamplesFit, Place, LeftOver, BeforePeriod
  <2>2. QED
    BY <1>1, <1>2, <2>1, RampNumbers, SMT DEF Numbers
<1>4. CASE program = "pwm_play_music"
  <2>1. Period = SamplePeriod /\ pwm0.duty_cycle <= SamplePeriod
    BY <1>1, <1>4 DEF Period, LeftOver, BeforePeriod
  <2>2. QED
    BY <1>1, <1>2, <2>1
<1>5. CASE program = "mono_music"
  <2>1. i \in 1..Len(Melody) /\ Note # R
    BY <1>1, <1>5 DEF Place
  <2>2. Period = NotePeriod
    BY <1>5, SMT DEF Period, NotePeriod
  <2>3. CASE i = 1
    <3>1. pwm0.duty_cycle <= SamplePeriod /\ SamplePeriod <= ShortestPeriod
      BY <1>1, <1>5, <2>3 DEF SamplesFit, Place, LeftOver, BeforePeriod
    <3>2. QED
      BY <1>1, <1>2, <2>1, <2>2, <3>1, NoteNumbers, LimitNumbers, SMT DEF Numbers
  <2>4. CASE i # 1
    <3>1. i > 1
      BY <2>1, <2>4, MelodyNotes
    <3>2. pwm0.duty_cycle <= LongestDuty
      BY <1>1, <1>5, <3>1 DEF Achieved
    <3>3. QED
      BY <1>1, <2>1, <2>2, <3>2, NoteNumbers, LimitNumbers, SMT DEF Numbers
  <2>5. QED
    BY <2>3, <2>4
<1>6. QED
  BY <1>1, <1>3, <1>4, <1>5, ProgramsAssumption DEF Place, EffectInv, TypeInv, PwmInv, MainInv

\* When main writes a duty cycle, it fits into the period of the channel.
LEMMA DutyFits ==
    ASSUME EffectInv, hstep = 0, pending # NoWrite, step = "duty_cycle"
    PROVE  /\ pwm0.exported /\ pwm0.period > 0
           /\ \E d \in 0..pwm0.period :
                /\ pending = Put("duty_cycle", d)
                /\ program = "mono_music" => d = NoteDuty
<1>1. /\ pwm0.exported /\ (\E d \in Duties : pending = Put("duty_cycle", d))
      /\ Place /\ Numbers(pwm0) /\ Achieved
  BY DEF EffectInv, TypeInv, PwmInv, MainInv, MainWrites, Achieved, NeedsChannel
<1>2. PICK d \in Duties : pending = Put("duty_cycle", d)
  BY <1>1
<1>3. CASE program = "led_brightness"
  <2>1. d = Ramp(i) /\ pwm0.period = PERIOD /\ i \in 0..201
    BY <1>1, <1>3, RampNumbers DEF Duties, Achieved, Place
  <2>2. QED
    BY <1>1, <1>2, <1>3, <2>1, RampNumbers
<1>4. CASE program = "pwm_play_music"
  <2>1. pwm0.period = SamplePeriod
    BY <1>1, <1>4 DEF Achieved
  <2>2. PICK sample \in Samples : d = SampleDuty(sample)
    BY <1>4 DEF Duties
  <2>3. SamplePeriod \in Nat \ {0} /\ d \in 0..SamplePeriod
    BY <2>2, SampleDutyFits
  <2>4. QED
    BY <1>1, <1>2, <1>4, <2>1, <2>3
<1>5. CASE program = "mono_music"
  <2>1. i \in 1..Len(Melody) /\ Note # R /\ d = NoteDuty /\ pwm0.period = NotePeriod
    BY <1>1, <1>5 DEF Place, Duties, Achieved
  <2>2. d \in 0..NotePeriod /\ NotePeriod > 0
    BY <2>1, NoteNumbers, LimitNumbers
  <2>3. QED
    BY <1>1, <1>2, <2>1, <2>2
<1>6. QED
  BY <1>1, <1>3, <1>4, <1>5, ProgramsAssumption DEF Place, EffectInv, TypeInv, PwmInv, MainInv

\* What a write of main changes, step by step.
LEMMA MainWriteEffect ==
    ASSUME EffectInv, SamplesFit, CloseFile
    PROVE  /\ step = "export" => pwm0'.duty_cycle = pwm0.duty_cycle
           /\ step = "period" =>
                /\ pwm0'.period = Period /\ pwm0'.exported
                /\ pwm0'.duty_cycle = pwm0.duty_cycle /\ pwm0'.enable = pwm0.enable
           /\ step = "duty_cycle" =>
                /\ pwm0'.period = pwm0.period /\ pwm0'.exported
                /\ pwm0'.enable = pwm0.enable
                /\ program = "mono_music" => pwm0'.duty_cycle = NoteDuty
           /\ step \in {"enable", "disable"} =>
                /\ pwm0'.exported = pwm0.exported /\ pwm0'.period = pwm0.period
                /\ pwm0'.duty_cycle = pwm0.duty_cycle
           /\ step = "enable" /\ pwm0.exported /\ pwm0.period > 0 => pwm0'.enable = Switch
           /\ step = "disable" /\ pwm0.exported /\ pwm0.period > 0 => pwm0'.enable = 0
           /\ step = "turn_off" => pwm0'.duty_cycle = 0
<1>1. /\ ChanInv(pwm0) /\ Numbers(pwm0) /\ hstep = 0 /\ pending # NoWrite
      /\ MainWrites(pending) /\ pwm0' = Written(pwm0, pending) /\ MainInv /\ Achieved /\ LeftOver
  BY DEF EffectInv, TypeInv, PwmInv, MainInv, CloseFile
<1>2. CASE step = "export"
  BY <1>1, <1>2, ExportWritten DEF MainWrites, Fields
<1>3. CASE step = "period"
  <2>1. /\ pwm0.exported /\ pending = Put("period", Period)
        /\ Period \in Nat /\ Period > 0 /\ pwm0.duty_cycle <= Period
    BY <1>1, <1>3, PeriodFits
  <2>2. QED
    BY <1>1, <1>3, <2>1, PeriodWritten DEF Fields
<1>4. CASE step = "duty_cycle"
  <2>1. PICK d \in 0..pwm0.period :
          /\ pending = Put("duty_cycle", d)
          /\ program = "mono_music" => d = NoteDuty
    BY <1>1, <1>4, DutyFits
  <2>2. pwm0.exported /\ pwm0.period > 0
    BY <1>1, <1>4, DutyFits
  <2>3. QED
    BY <1>1, <1>4, <2>1, <2>2, DutyWritten DEF Fields
<1>5. CASE step = "enable"
  <2>1. pending = Put("enable", Switch) /\ Switch \in {0, 1}
    BY <1>1, <1>5 DEF MainWrites, Switch
  <2>2. QED
    BY <1>1, <1>5, <2>1, EnableWritten DEF Fields
<1>6. CASE step = "disable"
  <2>1. pending = Put("enable", 0)
    BY <1>1, <1>6 DEF MainWrites
  <2>2. QED
    BY <1>1, <1>6, <2>1, EnableWritten DEF Fields
<1>7. CASE step = "turn_off"
  <2>1. i \in 1..4 /\ pending = HandlerWrites[i]
    BY <1>1, <1>7 DEF MainWrites, MainInv
  <2>2. i < 4 => pwm0.exported
    BY <1>1, <1>7, <2>1, HandlerWritesSound DEF Achieved, NeedsChannel, Put
  <2>3. i > 1 => pwm0.duty_cycle = 0
    BY <1>1, <1>7 DEF LeftOver
  <2>4. QED
    BY <1>1, <1>7, <2>1, <2>2, <2>3, TurnOffDuty
<1>8. QED
  BY <1>2, <1>3, <1>4, <1>5, <1>6, <1>7

\* A process ends with no more than the duty cycle of a sample on the channel.
LEMMA EndLeftOver ==
    ASSUME EffectInv, NEW how, End(how),
           pwm0.duty_cycle <= SamplePeriod, pending = NoWrite \/ ~pwm0.exported
    PROVE  LeftOver'
<1>1. pwm0'.duty_cycle = pwm0.duty_cycle
  <2>1. ChanInv(pwm0) /\ (pending = NoWrite \/ Sound(pending))
    BY PendingSound DEF EffectInv, TypeInv, PwmInv
  <2>2. CASE pending = NoWrite
    BY <2>2 DEF End, Written, Accepts, NoWrite
  <2>3. CASE ~pwm0.exported
    BY <2>1, <2>3, UnexportedKeepsDuty DEF End
  <2>4. QED
    BY <2>2, <2>3
<1>2. QED
  BY <1>1 DEF End, Go, LeftOver

\* Where a main that has not been interrupted stands without a write under way.
LEMMA NoPendingAt ==
    ASSUME EffectInv, step \in {"load", "return", "exit", "none"}
    PROVE  pending = NoWrite
BY DEF EffectInv, TypeInv, PwmInv, MainInv, MainWrites

LEMMA LeftOverStep ==
    ASSUME EffectInv, SamplesFit, [Next]_vars
    PROVE  LeftOver'
<1>1. /\ LeftOver /\ Place /\ TurnedOff /\ MainInv /\ Numbers(pwm0) /\ ChanInv(pwm0)
      /\ SamplePeriod \in Nat
  <2>1. SamplePeriod \in Nat
    BY PwmAssumption, SMT DEF SamplePeriod
  <2>2. QED
    BY <2>1 DEF EffectInv, TypeInv, PwmInv
<1>2. ASSUME UNCHANGED <<pwm0, program, step, i>>, hstep' = hstep \/ (hstep = 0 /\ hstep' = 1),
             hpending' = hpending \/ (hpending' # NoWrite /\ hstep < 4 => pwm0.exported)
      PROVE LeftOver'
  <2>1. BeforePeriod' = BeforePeriod
    BY <1>2 DEF BeforePeriod
  <2>2. hpending' # NoWrite /\ hstep' < 4 => pwm0.exported
    BY <1>1, <1>2 DEF LeftOver, TurnedOff
  <2>3. QED
    BY <1>1, <1>2, <2>1, <2>2 DEF LeftOver, TurnedOff
<1>3. ASSUME NEW p \in Programs, Start(p) PROVE LeftOver'
  <2>1. pwm0' = pwm0 /\ pwm0.duty_cycle <= SamplePeriod /\ hstep' = 0 /\ hpending' = NoWrite
    BY <1>1, <1>3 DEF Start, LeftOver, BeforePeriod, handlerVars, MainInv
  <2>2. QED
    BY <1>3, <2>1 DEF Start, Go, LeftOver
<1>4. CASE OpenFile
  BY <1>2, <1>4 DEF OpenFile, handlerVars
<1>5. CASE CannotOpen
  BY <1>1, <1>5, EndLeftOver DEF CannotOpen, LeftOver
<1>6. CASE CloseFile
  <2>1. hstep' = 0 /\ hstep = 0 /\ hpending' = NoWrite
    BY <1>1, <1>6 DEF CloseFile, handlerVars, TurnedOff, NoWrite
  <2>2. program' = program /\ AfterWrite /\ pending # NoWrite /\ MainWrites(pending) /\ Achieved
    BY <1>1, <1>6 DEF CloseFile, EffectInv, MainInv
  <2>3. step = "turn_off" => pwm0'.duty_cycle = 0
    BY <1>6, MainWriteEffect
  <2>4. CASE step = "turn_off"
    BY <1>1, <2>1, <2>3, <2>4 DEF LeftOver, SamplePeriod
  <2>5. CASE step # "turn_off"
    <3>1. step' = "turn_off" => i' = 1
      BY <2>2, <2>5 DEF AfterWrite, AfterWriteLed, AfterWriteMono, AfterWritePlay, BeginNote, Go
    <3>2. step' # "exit"
      BY <2>2, <2>5 DEF AfterWrite, AfterWriteLed, AfterWriteMono, AfterWritePlay, BeginNote, Go
    <3>3. ~pwm0'.exported \/ BeforePeriod' => pwm0'.duty_cycle <= SamplePeriod
      <4>1. CASE step = "export"
        <5>1. BeforePeriod
          BY <1>1, <4>1, ProgramsAssumption DEF BeforePeriod, Place
        <5>2. QED
          BY <1>1, <1>6, <4>1, <5>1, MainWriteEffect DEF LeftOver
      <4>2. CASE step = "period"
        <5>1. pwm0'.exported /\ pwm0'.duty_cycle = pwm0.duty_cycle
          BY <1>6, <4>2, MainWriteEffect
        <5>2. BeforePeriod' => program = "pwm_play_music"
          BY <2>2, <4>2 DEF BeforePeriod, AfterWrite, AfterWriteLed, AfterWriteMono, Go
        <5>3. QED
          BY <1>1, <5>1, <5>2 DEF LeftOver, BeforePeriod
      <4>3. CASE step = "duty_cycle"
        <5>1. pwm0'.exported
          BY <1>6, <4>3, MainWriteEffect
        <5>2. BeforePeriod' => program = "pwm_play_music"
          BY <2>2, <4>3 DEF BeforePeriod, AfterWrite, AfterWriteLed, AfterWriteMono, Go
        <5>3. program = "pwm_play_music" => pwm0'.duty_cycle <= SamplePeriod
          <6> SUFFICES ASSUME program = "pwm_play_music" PROVE pwm0'.duty_cycle <= SamplePeriod
            OBVIOUS
          <6>1. pwm0.exported /\ pwm0.period = SamplePeriod /\ pwm0.period > 0
            BY <2>1, <2>2, <4>3, DutyFits DEF Achieved
          <6>2. PICK d \in 0..pwm0.period : pending = Put("duty_cycle", d)
            BY <2>1, <2>2, <4>3, DutyFits
          <6>3. pwm0'.duty_cycle = d
            BY <1>1, <1>6, <6>1, <6>2, DutyWritten DEF CloseFile
          <6>4. QED
            BY <1>1, <6>1, <6>3
        <5>4. QED
          BY <5>1, <5>2, <5>3
      <4>4. CASE step \in {"enable", "disable"}
        <5>1. pwm0'.exported = pwm0.exported /\ pwm0'.duty_cycle = pwm0.duty_cycle
          BY <1>6, <4>4, MainWriteEffect
        <5>2. pwm0.exported
          BY <2>2, <4>4 DEF Achieved, NeedsChannel
        <5>3. program = "mono_music" => ~BeforePeriod'
          <6> SUFFICES ASSUME program = "mono_music" PROVE ~BeforePeriod'
            OBVIOUS
          <6>1. i \in 1..Len(Melody) /\ Len(Melody) = 58
            BY <1>1, <4>4, MelodyNotes DEF Place
          <6>2. step' \in {"disable", "turn_off"} \/ (i' = i + 1)
            BY <2>2, <4>4 DEF AfterWrite, AfterWriteMono, BeginNote, Go
          <6>3. (step' # "export" /\ i' # 1) \/ step' \in {"disable", "turn_off"}
            BY <2>2, <4>4, <6>1, <6>2 DEF AfterWrite, AfterWriteMono, BeginNote, Go
          <6>4. QED
            BY <2>2, <6>3 DEF BeforePeriod
        <5>4. program # "mono_music" => BeforePeriod
          BY <1>1, <2>2, <4>4 DEF BeforePeriod, AfterWrite
        <5>5. QED
          BY <1>1, <5>1, <5>2, <5>3, <5>4 DEF LeftOver
      <4>5. QED
        BY <2>2, <2>5, <4>1, <4>2, <4>3, <4>4 DEF MainWrites
    <3>4. QED
      BY <2>1, <3>1, <3>2, <3>3 DEF LeftOver
  <2>6. QED
    BY <2>4, <2>5
<1>7. CASE LoadWav
  <2>1. program = "pwm_play_music"
    BY <1>1, <1>7, ProgramsAssumption DEF LoadWav, Place
  <2>2. QED
    BY <1>1, <1>7, <2>1 DEF LoadWav, Go, LeftOver, BeforePeriod, handlerVars
<1>8. CASE LoadFails
  <2>1. program = "pwm_play_music"
    BY <1>1, <1>8, ProgramsAssumption DEF LoadFails, Place
  <2>2. QED
    BY <1>1, <1>8, <2>1, EndLeftOver, NoPendingAt DEF LoadFails, LeftOver, BeforePeriod
<1>9. CASE Return
  <2>1. step = "return" => program = "pwm_play_music"
    BY <1>1, <1>9, ProgramsAssumption DEF Place
  <2>2. pwm0.duty_cycle <= SamplePeriod /\ pending = NoWrite
    BY <1>1, <1>9, <2>1, NoPendingAt DEF Return, LeftOver, BeforePeriod
  <2>3. QED
    BY <1>9, <2>2, EndLeftOver DEF Return
<1>10. CASE HandlerOpens
  BY <1>2, <1>10, HandlerWritesSound DEF HandlerOpens, mainVars, CanOpen, Put
<1>11. CASE HandlerCannotOpen
  BY <1>1, <1>11, EndLeftOver DEF HandlerCannotOpen, CanOpen, LeftOver
<1>12. CASE HandlerCloses
  <2>1. hstep \in 1..4 /\ hpending = HandlerWrites[hstep] /\ hpending # NoWrite
    BY <1>1, <1>12, HandlerPendingSound DEF HandlerCloses
  <2>2. (hstep < 4 => pwm0.exported) /\ (hstep > 1 => pwm0.duty_cycle = 0)
    BY <1>1, <2>1 DEF LeftOver
  <2>3. pwm0'.duty_cycle = 0
    BY <1>1, <1>12, <2>1, <2>2, TurnOffDuty DEF HandlerCloses
  <2>4. QED
    BY <1>1, <1>12, <2>3 DEF HandlerCloses, LeftOver
<1>13. CASE HandlerExits
  BY <1>1, <1>13, EndLeftOver, HandlerWritesSound DEF HandlerExits, TurnedOff, LeftOver
<1>14. CASE Interrupt
  BY <1>2, <1>14 DEF Interrupt, mainVars
<1>15. CASE UNCHANGED vars
  BY <1>2, <1>15 DEF vars
<1>16. QED
  BY <1>3, <1>4, <1>5, <1>6, <1>7, <1>8, <1>9, <1>10, <1>11, <1>12, <1>13, <1>14, <1>15
     DEF Next, Process

\* What main has achieved when its write has taken place.
LEMMA AchievedAfterWrite ==
    ASSUME EffectInv, SamplesFit, CloseFile
    PROVE  Achieved'
<1>1. /\ Place /\ Achieved /\ Numbers(pwm0) /\ program' = program /\ pending' = NoWrite
      /\ AfterWrite /\ hstep = 0 /\ pending # NoWrite /\ Place'
  BY TypeStep DEF EffectInv, TypeInv, CloseFile, Next, Process
<1>2. step \in {"enable", "disable", "period", "duty_cycle"} => pwm0.exported
  BY <1>1 DEF Achieved, NeedsChannel
<1>3. CASE program = "led_brightness"
  <2>1. step' = "duty_cycle" => step \in {"period", "duty_cycle"}
    BY <1>1, <1>3 DEF AfterWrite, AfterWriteLed, Go
  <2>2. step' = "duty_cycle" => pwm0'.exported /\ pwm0'.period = PERIOD
    BY <1>1, <1>3, <2>1, MainWriteEffect DEF Achieved, Period
  <2>3. QED
    BY <1>1, <1>3, <2>2 DEF Achieved
<1>4. CASE program = "pwm_play_music"
  <2>1. step' = "duty_cycle" => step \in {"period", "duty_cycle"}
    BY <1>1, <1>4 DEF AfterWrite, AfterWritePlay, Go
  <2>2. step' = "duty_cycle" => pwm0'.exported /\ pwm0'.period = SamplePeriod
    BY <1>1, <1>4, <2>1, MainWriteEffect DEF Achieved, Period
  <2>3. QED
    BY <1>1, <1>4, <2>2 DEF Achieved
<1>5. CASE program = "mono_music"
  <2>1. AfterWriteMono
    BY <1>1, <1>5 DEF AfterWrite
  <2>2. step \in {"period", "duty_cycle", "enable", "disable"} =>
          i \in 1..Len(Melody) /\ Len(Melody) = 58 /\ (Note # R => NotePeriod > 0)
    BY <1>1, <1>5, MelodyNotes, NoteNumbers, LimitNumbers DEF Place
  <2>3. CASE step = "export"
    <3>1. i' = 1 /\ step' = "period"
      BY <2>1, <2>3, MelodyNotes DEF AfterWriteMono, BeginNote, Go, E, R
    <3>2. QED
      BY <1>1, <1>5, <3>1 DEF Achieved
  <2>4. CASE step = "period"
    <3>1. i' = i /\ step' = "duty_cycle" /\ Note' = Note /\ NotePeriod' = NotePeriod
      BY <2>1, <2>4 DEF AfterWriteMono, Go, Note, NotePeriod
    <3>2. pwm0'.exported /\ pwm0'.enable = pwm0.enable /\ pwm0'.period = Period
      BY <2>4, MainWriteEffect
    <3>3. Period = NotePeriod
      BY <1>5, SMT DEF Period, NotePeriod
    <3>4. i > 1 => pwm0.enable = 0
      BY <1>1, <1>5, <2>4 DEF Achieved
    <3>5. QED
      BY <1>1, <1>5, <3>1, <3>2, <3>3, <3>4 DEF Achieved
  <2>5. CASE step = "duty_cycle"
    <3>1. i' = i /\ step' = "enable" /\ Note' = Note /\ NotePeriod' = NotePeriod /\ NoteDuty' = NoteDuty
      BY <2>1, <2>5, SMT DEF AfterWriteMono, Go, Note, NotePeriod, NoteDuty
    <3>2. pwm0'.exported /\ pwm0'.period = NotePeriod /\ pwm0'.duty_cycle = NoteDuty
      BY <1>1, <1>5, <2>5, MainWriteEffect DEF Achieved
    <3>3. Note # R /\ NotePeriod > 0 /\ NoteDuty <= LongestDuty
      BY <1>1, <1>5, <2>2, <2>5, NoteNumbers DEF Place
    <3>4. SoundsNote'
      BY <3>1, <3>2, <3>3 DEF SoundsNote, R
    <3>5. QED
      BY <1>1, <1>5, <3>1, <3>2, <3>3, <3>4 DEF Achieved, LongestDuty, G
  <2>6. CASE step = "enable"
    <3>1. i' = i /\ step' = "disable" /\ Note' = Note /\ NotePeriod' = NotePeriod /\ NoteDuty' = NoteDuty
      BY <2>1, <2>6, SMT DEF AfterWriteMono, Go, Note, NotePeriod, NoteDuty
    <3>2. /\ pwm0.exported /\ pwm0.period > 0 /\ pwm0.duty_cycle <= LongestDuty
          /\ SoundsNote \/ (Note = R /\ pwm0.enable = 0)
      BY <1>1, <1>5, <2>6 DEF Achieved
    <3>3. /\ pwm0'.exported /\ pwm0'.period = pwm0.period /\ pwm0'.duty_cycle = pwm0.duty_cycle
          /\ pwm0'.enable = Switch
      BY <2>6, <3>2, MainWriteEffect
    <3>4. Note = R => Switch = 0
      BY <1>5 DEF Switch
    <3>5. SoundsNote' \/ pwm0'.enable = 0
      BY <3>1, <3>2, <3>3, <3>4 DEF SoundsNote, R
    <3>6. QED
      BY <1>1, <1>5, <3>1, <3>2, <3>3, <3>5 DEF Achieved, LongestDuty, G
  <2>7. CASE step = "disable"
    <3>1. /\ pwm0.exported /\ pwm0.period > 0 /\ pwm0.duty_cycle <= LongestDuty
      BY <1>1, <1>5, <2>7 DEF Achieved
    <3>2. /\ pwm0'.exported /\ pwm0'.period = pwm0.period /\ pwm0'.duty_cycle = pwm0.duty_cycle
          /\ pwm0'.enable = 0
      BY <2>7, <3>1, MainWriteEffect
    <3>3. step' \in {"period", "enable", "turn_off"} /\ (step' = "enable" => Note' = R)
      BY <2>1, <2>7 DEF AfterWriteMono, BeginNote, Go, Note
    <3>4. QED
      BY <1>1, <1>5, <3>1, <3>2, <3>3 DEF Achieved, LongestDuty, G, R
  <2>8. CASE step = "turn_off"
    <3>1. step' \in {"turn_off", "exit"}
      BY <2>1, <2>8 DEF AfterWriteMono, TurnOffNext, Go
    <3>2. QED
      BY <1>1, <1>5, <3>1 DEF Achieved
  <2>9. QED
    BY <2>1, <2>3, <2>4, <2>5, <2>6, <2>7, <2>8 DEF AfterWriteMono
<1>6. QED
  BY <1>1, <1>3, <1>4, <1>5 DEF AfterWrite

LEMMA AchievedStep ==
    ASSUME EffectInv, SamplesFit, [Next]_vars
    PROVE  hstep' = 0 => Achieved'
<1>1. /\ hstep = 0 => Achieved
      /\ MainInv /\ TurnedOff /\ Place
  BY DEF EffectInv, TypeInv, PwmInv
<1>2. ASSUME NEW p \in Programs, Start(p) PROVE Achieved'
  <2>1. step' = "export" /\ pending' = NoWrite
    BY <1>1, <1>2 DEF Start, Go, MainInv
  <2>2. QED
    BY <2>1 DEF Achieved
<1>3. ASSUME NEW how, End(how) PROVE Achieved'
  BY <1>3 DEF End, Achieved
<1>4. CASE OpenFile
  <2>1. Achieved /\ UNCHANGED <<pwm0, program, step, i>> /\ (NeedsChannel => pwm0.exported)
    BY <1>1, <1>4 DEF OpenFile
  <2>2. /\ SoundsNote' = SoundsNote /\ NotePeriod' = NotePeriod /\ Note' = Note
        /\ NeedsChannel' = NeedsChannel
    BY <2>1, SMT DEF SoundsNote, NotePeriod, Note, NoteDuty, NeedsChannel
  <2>3. QED
    BY <2>1, <2>2 DEF Achieved, R, LongestDuty, G
<1>5. CASE LoadWav
  <2>1. program = "pwm_play_music" /\ step' = "period" /\ pending' = NoWrite /\ program' = program
    BY <1>1, <1>5, ProgramsAssumption, NoPendingAt DEF LoadWav, Go, Place
  <2>2. QED
    BY <2>1 DEF Achieved
<1>6. CASE CloseFile
  BY <1>6, AchievedAfterWrite
<1>7. CASE UNCHANGED vars
  <2>1. UNCHANGED <<pwm0, program, step, i, pending, hstep>>
    BY <1>7 DEF vars
  <2>2. /\ SoundsNote' = SoundsNote /\ NotePeriod' = NotePeriod /\ Note' = Note
        /\ NeedsChannel' = NeedsChannel
    BY <2>1, SMT DEF SoundsNote, NotePeriod, Note, NoteDuty, NeedsChannel
  <2>3. QED
    BY <1>1, <2>1, <2>2 DEF Achieved, R, LongestDuty, G
<1>8. HandlerOpens \/ HandlerCloses \/ Interrupt => hstep' # 0
  BY <1>1, HandlerWritesSound DEF HandlerOpens, HandlerCloses, Interrupt, TurnedOff
<1>9. QED
  BY <1>2, <1>3, <1>4, <1>5, <1>6, <1>7, <1>8 DEF Next, Process, CannotOpen, LoadFails, Return,
     HandlerCannotOpen, HandlerExits

LEMMA EffectInit == Init => EffectInv
<1> SUFFICES ASSUME Init PROVE EffectInv
  OBVIOUS
<1>1. SamplePeriod \in Nat
  BY PwmAssumption, SMT DEF SamplePeriod
<1>2. pwm0.duty_cycle = 0
  BY DEF Init
<1>3. LeftOver
  BY <1>1, <1>2 DEF Init, LeftOver
<1>4. Achieved
  BY DEF Init, Achieved
<1>5. QED
  BY <1>3, <1>4, TypeInit DEF EffectInv

LEMMA EffectStep ==
    ASSUME EffectInv, SamplesFit, [Next]_vars
    PROVE  EffectInv'
BY TypeStep, LeftOverStep, AchievedStep DEF EffectInv

\* As long as what is left of a sample fits into the periods of the other
\* programs, no note is played with the period or the duty cycle of another.
THEOREM NotesAreCleanHolds == ASSUME SamplesFit PROVE Spec => []NotesAreClean
<1>1. EffectInv => NotesAreClean
  <2> SUFFICES ASSUME EffectInv, program = "mono_music", hstep = 0, pwm0.enable = 1,
                      i > 1 \/ step = "disable",
                      step \in {"period", "duty_cycle", "enable", "disable"}
               PROVE  SoundsNote
    BY SMT DEF NotesAreClean, SoundsNote, NotePeriod
  <2>1. Achieved
    BY DEF EffectInv
  <2>2. QED
    BY <2>1 DEF Achieved
<1>2. QED
  BY <1>1, EffectInit, EffectStep, PTL DEF Spec

\* Under the same condition the kernel refuses no period and no duty cycle that a
\* main writes.
THEOREM WritesTakeEffectHolds == ASSUME SamplesFit PROVE Spec => WritesTakeEffect
<1> DEFINE TakesEffect ==
      (/\ hstep = 0 /\ program' # "none" /\ step # "turn_off"
       /\ pending.file \in {"period", "duty_cycle"} /\ pending' = NoWrite)
      => pwm0'[pending.file] = pending.value
<1>1. ASSUME EffectInv, [Next]_vars PROVE [TakesEffect]_vars
  <2> SUFFICES ASSUME hstep = 0, program' # "none", step # "turn_off",
                      pending.file \in {"period", "duty_cycle"}, pending' = NoWrite,
                      ~UNCHANGED vars
               PROVE  pwm0'[pending.file] = pending.value
    OBVIOUS
  <2>1. /\ pending # NoWrite /\ MainWrites(pending)
        /\ ChanInv(pwm0) /\ Numbers(pwm0) /\ MainInv
    BY <1>1 DEF NoWrite, EffectInv, TypeInv, PwmInv, MainInv
  <2>2. CloseFile
    BY <1>1, <2>1, HandlerWritesSound DEF Next, Process, Start, MainInv, OpenFile, CannotOpen, LoadWav, LoadFails, Return,
       Interrupt, HandlerOpens, HandlerCannotOpen, HandlerCloses, HandlerExits, End, mainVars
  <2>3. CASE step = "period"
    <3>1. /\ pwm0.exported /\ pending = Put("period", Period)
          /\ Period \in Nat /\ Period > 0 /\ pwm0.duty_cycle <= Period
      BY <1>1, <2>1, <2>3, PeriodFits
    <3>2. QED
      BY <2>1, <2>2, <3>1, PeriodWritten DEF CloseFile, Put
  <2>4. CASE step = "duty_cycle"
    <3>1. pwm0.exported /\ pwm0.period > 0
      BY <1>1, <2>1, <2>4, DutyFits
    <3>2. PICK d \in 0..pwm0.period : pending = Put("duty_cycle", d)
      BY <1>1, <2>1, <2>4, DutyFits
    <3>3. QED
      BY <2>1, <2>2, <3>1, <3>2, DutyWritten DEF CloseFile, Put
  <2>5. QED
    BY <2>1, <2>3, <2>4 DEF MainWrites, Put
<1>2. QED
  <2>1. EffectInv /\ [Next]_vars => [TakesEffect]_vars
    BY <1>1
  <2>2. EffectInv /\ [Next]_vars => EffectInv'
    BY EffectStep
  <2>3. Spec => [][TakesEffect]_vars
    BY <2>1, <2>2, EffectInit, PTL DEF Spec
  <2>4. QED
    BY <2>3 DEF WritesTakeEffect
=============================================================================
