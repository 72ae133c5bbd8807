---------------------------- MODULE PwmPrograms ----------------------------
(***************************************************************************)
(* The three programs of LAB_PWM that drive PWM channel 0 through sysfs:   *)
(* led_brightness (a ramp of the duty cycle), mono_music (notes of a       *)
(* melody) and pwm_play_music (samples of a WAV file).  They are run one   *)
(* after the other, in any order, on a channel that keeps its state from   *)
(* one program to the next; Ctrl-C may come at any moment of each.         *)
(*                                                                         *)
(* A write is fopen, fprintf into the buffer, fclose.  What fprintf has    *)
(* buffered when a signal handler calls exit is written then, behind the   *)
(* handler's own writes.  Nobody looks at the result of a write; the       *)
(* printing of what was written is left out.                               *)
(***************************************************************************)
EXTENDS Integers, Sequences

CONSTANTS
    Programs,      \* those of the three that are run
    SampleRate,    \* of output.wav, in Hz
    Samples,       \* 16 bit samples that occur in output.wav
    WavMayFail,    \* output.wav may be missing or of the wrong format
    MayBeTaken     \* a kernel driver may have the channel, so that it cannot be exported

ASSUME ProgramsAssumption == Programs \subseteq {"led_brightness", "mono_music", "pwm_play_music"}

ASSUME PwmAssumption ==
    /\ SampleRate \in Nat /\ SampleRate > 0 /\ SampleRate <= 1000000000
    /\ \A s \in Samples : s \in Int /\ s + 32768 >= 0 /\ s < 32768
    /\ WavMayFail \in BOOLEAN
    /\ MayBeTaken \in BOOLEAN

VARIABLES
    pwm0,     \* the channel: exported or taken, its period, duty_cycle and enable
    program,  \* the program that runs, "none" between two of them
    step, i,  \* where its main is: what it writes next, and for which note or duty
    pending,  \* what main has printed to an open file and not yet flushed
    hstep,    \* the next write of sigint_handler, 0 when it is not running
    hpending, \* what the handler has printed and not yet flushed
    ended     \* how the last program ended

mainVars    == <<program, step, i, pending>>
handlerVars == <<hstep, hpending>>
vars        == <<pwm0, program, step, i, pending, hstep, hpending, ended>>

NoWrite == [file |-> "none", value |-> 0]

-----------------------------------------------------------------------------
(* The channel: pwm_apply_state and the sysfs class of Linux 5.4. *)

CanOpen(file) == file \in {"export", "unexport"} \/ pwm0.exported

\* A negative number, and a state without a period or with a duty cycle longer
\* than it, is refused.
Accepts(chan, w) ==
    \/ w.file = "export" /\ ~chan.exported /\ ~chan.taken
    \/ w.file = "unexport" /\ chan.exported
    \/ /\ w.file \in {"period", "duty_cycle", "enable"} /\ chan.exported /\ w.value >= 0
       /\ LET s == [chan EXCEPT ![w.file] = w.value]
          IN  s.period > 0 /\ s.duty_cycle <= s.period

\* Neither export nor unexport touches the other three.
Written(chan, w) ==
    IF ~Accepts(chan, w) THEN chan
    ELSE IF w.file \in {"export", "unexport"} THEN [chan EXCEPT !.exported = w.file = "export"]
    ELSE [chan EXCEPT ![w.file] = w.value]

-----------------------------------------------------------------------------
(* What the programs write. *)

PERIOD == 100000

C == 2100
D == 1870
E == 1670
F == 1580
G == 1400
R == 0

Bars   == <<E, E, E, R, E, E, E, R, E, G, C, D, E, R>>
Melody == Bars \o <<F, F, F, F, F, E, E, E, E, D, D, E, D, R, G, R>>
               \o Bars \o <<F, F, F, F, F, E, E, E, G, G, F, D, C, R>>

Note == Melody[i]

\* The i-th duty cycle of the ramp up and down again.
RampLength == 2 * (PERIOD \div 1000 + 1)
Ramp(n) == IF 2 * n < RampLength THEN 1000 * n ELSE 1000 * (RampLength - 1 - n)

SamplePeriod == 1000000000 \div SampleRate

SampleDuty(sample) == ((sample + 1 + 32768) * SamplePeriod) \div 65536

\* Wrong: the duty cycle is nine tenths of the period.
NoteDutyLong == 900000000 \div Note

\* Half of the period.
NoteDuty == 500000000 \div Note

Put(file, value) == [file |-> file, value |-> value]

\* Wrong: the channel stays on.
HandlerWritesOn == <<Put("duty_cycle", 0), Put("period", 0), Put("unexport", 0)>>

\* The body of sigint_handler.
HandlerWrites == <<Put("duty_cycle", 0), Put("period", 0), Put("enable", 0), Put("unexport", 0)>>

Period == IF program = "led_brightness" THEN PERIOD
          ELSE IF program = "mono_music" THEN 1000000000 \div Note ELSE SamplePeriod

Duties == IF program = "led_brightness" THEN {Ramp(i)}
          ELSE IF program = "mono_music" THEN {NoteDuty} ELSE {SampleDuty(s) : s \in Samples}

Switch == IF program = "mono_music" /\ Note = R THEN 0 ELSE 1

\* w is what main writes in its present step.
MainWrites(w) ==
    \/ step = "export" /\ w = Put("export", 0)
    \/ step = "enable" /\ w = Put("enable", Switch)
    \/ step = "disable" /\ w = Put("enable", 0)
    \/ step = "period" /\ w = Put("period", Period)
    \/ step = "duty_cycle" /\ \E d \in Duties : w = Put("duty_cycle", d)
    \/ step = "turn_off" /\ w = HandlerWrites[i]

\* The file of that write is one that only an exported channel has.
NeedsChannel ==
    \/ step \in {"enable", "disable", "period", "duty_cycle"}
    \/ step = "turn_off" /\ HandlerWrites[i].file # "unexport"

-----------------------------------------------------------------------------
(* Where main goes from one write to the next. *)

Go(to, n) == step' = to /\ i' = n

\* Wrong: the ramp goes down one duty too far, below 0.
AfterWriteLedLow ==
    \/ step = "export" /\ Go("enable", 0)
    \/ step = "enable" /\ Go("period", 0)
    \/ step = "period" /\ Go("duty_cycle", 0)
    \/ step = "duty_cycle" /\ Go("duty_cycle", (i + 1) % (RampLength + 1))

\* The ramp is repeated for ever.
AfterWriteLed ==
    \/ step = "export" /\ Go("enable", 0)
    \/ step = "enable" /\ Go("period", 0)
    \/ step = "period" /\ Go("duty_cycle", 0)
    \/ step = "duty_cycle" /\ Go("duty_cycle", (i + 1) % RampLength)

BeginNote(n) == Go(IF Melody[n] = R THEN "enable" ELSE "period", n)

TurnOffNext == Go(IF i < Len(HandlerWrites) THEN "turn_off" ELSE "exit", i + 1)

\* Wrong: the channel stays on between two notes.
AfterWriteMonoLegato ==
    \/ step = "export" /\ BeginNote(1)
    \/ step = "period" /\ Go("duty_cycle", i)
    \/ step = "duty_cycle" /\ Go("enable", i)
    \/ step = "enable" /\ i < Len(Melody) /\ BeginNote(i + 1)
    \/ step = "enable" /\ i = Len(Melody) /\ Go("turn_off", 1)
    \/ step = "turn_off" /\ TurnOffNext

\* Behind the last note main calls sigint_handler like a function.
AfterWriteMono ==
    \/ step = "export" /\ BeginNote(1)
    \/ step = "period" /\ Go("duty_cycle", i)
    \/ step = "duty_cycle" /\ Go("enable", i)
    \/ step = "enable" /\ Go("disable", i)
    \/ step = "disable" /\ i < Len(Melody) /\ BeginNote(i + 1)
    \/ step = "disable" /\ i = Len(Melody) /\ Go("turn_off", 1)
    \/ step = "turn_off" /\ TurnOffNext

\* Before its period is written the WAV file is loaded; behind the last sample
\* main returns.
AfterWritePlay ==
    \/ step = "export" /\ Go("enable", 0)
    \/ step = "enable" /\ Go("load", 0)
    \/ step \in {"period", "duty_cycle"} /\ (Go("duty_cycle", 0) \/ Go("return", 0))

AfterWrite ==
    \/ program = "led_brightness" /\ AfterWriteLed
    \/ program = "mono_music" /\ AfterWriteMono
    \/ program = "pwm_play_music" /\ AfterWritePlay

-----------------------------------------------------------------------------
Init ==
    /\ \E t \in {FALSE, MayBeTaken} :
         pwm0 = [exported |-> FALSE, taken |-> t, period |-> 0, duty_cycle |-> 0, enable |-> 0]
    /\ program = "none"
    /\ step = "none"
    /\ i = 0
    /\ pending = NoWrite
    /\ hstep = 0
    /\ hpending = NoWrite
    /\ ended = "never"

\* A program is started; its first call sets the handler.
Start(p) ==
    /\ program = "none"
    /\ program' = p
    /\ Go("export", 0)
    /\ UNCHANGED <<pwm0, pending, handlerVars, ended>>

\* The process is gone.  Where a write of main was under way, its buffer is
\* flushed, unless the signal hit fclose after it had let go of the file.
End(how) ==
    /\ pwm0' \in {pwm0, Written(pwm0, pending)}
    /\ ended' = how
    /\ program' = "none"
    /\ Go("none", 0)
    /\ pending' = NoWrite
    /\ hstep' = 0
    /\ hpending' = NoWrite

\* main opens the file of its next write and prints the value.
OpenFile ==
    /\ hstep = 0
    /\ pending = NoWrite
    /\ NeedsChannel => pwm0.exported
    /\ MainWrites(pending')
    /\ UNCHANGED <<pwm0, program, step, i, handlerVars, ended>>

CannotOpen ==
    /\ hstep = 0
    /\ pending = NoWrite
    /\ NeedsChannel /\ ~pwm0.exported
    /\ End("cannot_open")

\* fclose: the write takes place.
CloseFile ==
    /\ hstep = 0
    /\ pending # NoWrite
    /\ pwm0' = Written(pwm0, pending)
    /\ pending' = NoWrite
    /\ AfterWrite
    /\ UNCHANGED <<program, handlerVars, ended>>

\* pwm_play_music reads its WAV file, or gives up.
LoadWav ==
    /\ hstep = 0
    /\ step = "load"
    /\ Go("period", 0)
    /\ UNCHANGED <<pwm0, program, pending, handlerVars, ended>>

LoadFails ==
    /\ WavMayFail
    /\ hstep = 0
    /\ step = "load"
    /\ End("no_wav")

\* main returns, or the sigint_handler it has called exits.
Return ==
    /\ hstep = 0
    /\ \/ step = "return" /\ End("returned")
       \/ step = "exit" /\ End("turned_off")

\* SIGINT; it is blocked while its handler runs.
Interrupt ==
    /\ program # "none"
    /\ hstep = 0
    /\ hstep' = 1
    /\ UNCHANGED <<pwm0, mainVars, hpending, ended>>

HandlerOpens ==
    /\ hstep \in DOMAIN HandlerWrites
    /\ hpending = NoWrite
    /\ CanOpen(HandlerWrites[hstep].file)
    /\ hpending' = HandlerWrites[hstep]
    /\ UNCHANGED <<pwm0, mainVars, hstep, ended>>

\* Wrong: the handler tries again until the file is there.
HandlerRetries ==
    /\ hstep \in DOMAIN HandlerWrites
    /\ hpending = NoWrite
    /\ ~CanOpen(HandlerWrites[hstep].file)
    /\ UNCHANGED vars

HandlerCannotOpen ==
    /\ hstep \in DOMAIN HandlerWrites
    /\ hpending = NoWrite
    /\ ~CanOpen(HandlerWrites[hstep].file)
    /\ End("cannot_open")

HandlerCloses ==
    /\ hpending # NoWrite
    /\ pwm0' = Written(pwm0, hpending)
    /\ hpending' = NoWrite
    /\ hstep' = hstep + 1
    /\ UNCHANGED <<mainVars, ended>>

HandlerExits ==
    /\ hstep = Len(HandlerWrites) + 1
    /\ End("turned_off")

Process ==
    \/ OpenFile \/ CannotOpen \/ CloseFile \/ LoadWav \/ LoadFails \/ Return
    \/ HandlerOpens \/ HandlerCannotOpen \/ HandlerCloses \/ HandlerExits

Next ==
    \/ \E p \in Programs : Start(p)
    \/ Process
    \/ Interrupt

Spec == Init /\ [][Next]_vars

\* A program that runs goes on; nobody has to start one or to press Ctrl-C.
FairSpec == Spec /\ WF_vars(Process)
-----------------------------------------------------------------------------
(* Properties. *)

Write == [file : {"none", "export", "unexport", "period", "duty_cycle", "enable"}, value : Int]

\* Every variable has its type; the ramp of led_brightness, the longest sequence
\* of writes, is never left, whatever interrupts it.
TypeOK ==
    /\ pwm0 \in [exported : BOOLEAN, taken : BOOLEAN,
                 period : Nat, duty_cycle : Nat, enable : {0, 1}]
    /\ program \in Programs \cup {"none"}
    /\ step \in {"none", "export", "enable", "disable", "period", "duty_cycle", "load",
                 "turn_off", "exit", "return"}
    /\ i \in 0..(RampLength - 1)
    /\ pending \in Write
    /\ hstep \in 0..(Len(HandlerWrites) + 1)
    /\ hpending \in Write
    /\ ended \in {"never", "turned_off", "cannot_open", "returned", "no_wav"}

\* Whenever Ctrl-C comes, and in whatever state the programs before have left
\* the channel: a program that ends through sigint_handler leaves it turned off,
\* also when the buffer of a write that was under way is flushed behind it.
InterruptSilences ==
    program = "none" /\ ended \in {"turned_off", "cannot_open"} => pwm0.enable = 0

\* Every period and duty cycle that a main writes takes effect: whatever note,
\* duty or sample came before, in this program or in one before it, the kernel
\* never has a reason to refuse the next.
WritesTakeEffect ==
    [][ (/\ hstep = 0 /\ program' # "none" /\ step # "turn_off"
         /\ pending.file \in {"period", "duty_cycle"} /\ pending' = NoWrite)
        => pwm0'[pending.file] = pending.value ]_vars

\* Once mono_music has turned the channel on itself, it is on only with the
\* period and the duty cycle of the note that is being played, never with one
\* of them from the note before.
NotesAreClean ==
    (/\ program = "mono_music" /\ hstep = 0 /\ pwm0.enable = 1
     /\ i > 1 \/ step = "disable"
     /\ step \in {"period", "duty_cycle", "enable", "disable"}) =>
        /\ Note # R
        /\ pwm0.period = 1000000000 \div Note
        /\ pwm0.duty_cycle = NoteDuty

\* Ctrl-C ends the program, also before the channel is exported.
InterruptEnds == hstep > 0 ~> program = "none"
=============================================================================
