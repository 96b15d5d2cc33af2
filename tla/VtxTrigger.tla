----------------------------- MODULE VtxTrigger -----------------------------
(***************************************************************************)
(* The arming loop of main in apps/vtx.c: the pushbutton read through the  *)
(* SARADC, the keyboard of the terminal vtx was started from, and the      *)
(* toggles they cause.  start_pipeline and stop_pipeline are single steps  *)
(* here that take time (the operator acts meanwhile) and may fail;         *)
(* VtxPipeline has their insides.                                          *)
(***************************************************************************)
EXTENDS Naturals

CONSTANTS
    MayHangUp,      \* may the terminal be hung up (the SSH session lost)?
    MaxRequests     \* bound on presses and lines typed

ASSUME TriggerAssumption == MayHangUp \in BOOLEAN /\ MaxRequests \in Nat

VARIABLES
    quit, streaming,
    button,         \* is the button down?
    tty,            \* stdin: "none" (not a terminal), "quiet", "input", "gone"
    adc,            \* could the ADC be opened?
    btn_last_pressed, toggle, ret,   \* locals of the loop; ret: poll saw POLLIN
    mpc,
    requests,       \* presses and lines so far
    toggles,        \* toggles so far, counted until they exceed requests
    lateToggles,    \* toggles since quit was set
    owed            \* requests main can tell apart that no toggle has answered yet

worldVars == <<button, tty, requests>>
countVars == <<toggles, lateToggles, owed>>
loopVars  == <<btn_last_pressed, toggle, ret>>
triggerVars == <<quit, streaming, worldVars, adc, loopVars, mpc, countVars>>

\* A press is told from the one before it only if the last reading that succeeded found
\* the button up; every line can be.
Distinct == adc /\ ~btn_last_pressed

\* Of the requests owed, those the pass main is in has read.
Read == {r \in owed : IF r = "press" THEN btn_last_pressed ELSE tty # "input"}

\* A button held down at power-on counts as a press.
TriggerInit ==
    /\ quit = FALSE /\ streaming = FALSE
    /\ button \in BOOLEAN /\ requests = IF button THEN 1 ELSE 0
    /\ tty \in {"none", "quiet"} /\ adc \in BOOLEAN
    /\ btn_last_pressed = FALSE /\ toggle = FALSE /\ ret = FALSE
    /\ mpc \in {"loop", "start"}    \* "start" when autostart is set
    /\ toggles = 0 /\ lateToggles = 0
    /\ owed = IF button /\ adc THEN {"press"} ELSE {}

----------------------------------------------------------------------------
(* The operator (external)                                                 *)

Press ==
    /\ ~button /\ requests < MaxRequests
    /\ button' = TRUE /\ requests' = requests + 1
    /\ owed' = IF Distinct THEN owed \cup {"press"} ELSE owed
    /\ UNCHANGED <<quit, streaming, tty, adc, loopVars, mpc, toggles, lateToggles>>

\* A press that no reading has seen is taken back.
Release ==
    /\ button
    /\ button' = FALSE
    /\ owed' = IF Distinct THEN owed \ {"press"} ELSE owed
    /\ UNCHANGED <<quit, streaming, tty, requests, adc, loopVars, mpc, toggles, lateToggles>>

Enter ==
    /\ tty \in {"quiet", "input"} /\ requests < MaxRequests
    /\ tty' = "input" /\ requests' = requests + 1
    /\ owed' = owed \cup {"line"}
    /\ UNCHANGED <<quit, streaming, button, adc, loopVars, mpc, toggles, lateToggles>>

\* SIGHUP is ignored, so the program goes on with a terminal that is gone.
HangUp ==
    /\ MayHangUp /\ tty \in {"quiet", "input"}
    /\ tty' = "gone"
    /\ UNCHANGED <<quit, streaming, button, requests, adc, loopVars, mpc, countVars>>

Sigterm ==
    /\ ~quit
    /\ quit' = TRUE
    /\ UNCHANGED <<streaming, worldVars, adc, loopVars, mpc, countVars>>

----------------------------------------------------------------------------
(* main                                                                    *)

Loop ==
    /\ mpc = "loop"
    /\ mpc' = IF quit THEN "leave" ELSE "poll"
    /\ UNCHANGED <<quit, streaming, worldVars, adc, loopVars, countVars>>

\* 100 ms, or less when the terminal is readable, as a hung up one always is; a
\* signal interrupts it.
Poll ==
    /\ mpc = "poll"
    /\ \/ ret' = (tty \in {"input", "gone"})
       \/ ret' = FALSE /\ quit
    /\ toggle' = FALSE
    /\ mpc' = "adc"
    /\ UNCHANGED <<quit, streaming, worldVars, adc, btn_last_pressed, countVars>>

\* Mutant: the level of the last pass is not remembered.
AdcReadNoMemory ==
    /\ mpc = "adc" /\ adc
    /\ toggle' = (toggle \/ (button /\ ~btn_last_pressed))
    /\ mpc' = "stdin"
    /\ UNCHANGED <<quit, streaming, worldVars, adc, btn_last_pressed, ret, countVars>>

AdcRead ==
    /\ mpc = "adc" /\ adc
    /\ toggle' = (toggle \/ (button /\ ~btn_last_pressed))
    /\ btn_last_pressed' = button
    /\ mpc' = "stdin"
    /\ UNCHANGED <<quit, streaming, worldVars, adc, ret, countVars>>

\* There is no ADC, or pread fails.
AdcSkip ==
    /\ mpc = "adc"
    /\ mpc' = "stdin"
    /\ UNCHANGED <<quit, streaming, worldVars, adc, loopVars, countVars>>

\* What there is to read is drained; how much it was does not matter.
Stdin ==
    /\ mpc = "stdin"
    /\ IF ret
       THEN /\ toggle' = TRUE
            /\ tty' = IF tty = "input" THEN "quiet" ELSE tty
       ELSE UNCHANGED <<toggle, tty>>
    /\ mpc' = "act"
    /\ UNCHANGED <<quit, streaming, button, requests, adc, btn_last_pressed, ret, countVars>>

Act ==
    /\ mpc = "act"
    /\ IF toggle
       THEN /\ mpc' = IF streaming THEN "stop" ELSE "start"
            /\ toggles' = IF toggles <= requests THEN toggles + 1 ELSE toggles
            /\ lateToggles' = IF quit THEN lateToggles + 1 ELSE lateToggles
            /\ owed' = owed \ Read
       ELSE mpc' = "loop" /\ UNCHANGED countVars
    /\ UNCHANGED <<quit, streaming, worldVars, adc, loopVars>>

\* Mutant: the button is read again after the start, to let it settle.
StartedSettled ==
    /\ mpc = "start"
    /\ streaming' \in BOOLEAN
    /\ btn_last_pressed' = button
    /\ mpc' = "loop"
    /\ UNCHANGED <<quit, worldVars, adc, toggle, ret, countVars>>

\* start_pipeline returns; its result is ignored.
Started ==
    /\ mpc = "start"
    /\ streaming' \in BOOLEAN
    /\ mpc' = "loop"
    /\ UNCHANGED <<quit, worldVars, adc, loopVars, countVars>>

Stopped ==
    /\ mpc = "stop"
    /\ streaming' = FALSE
    /\ mpc' = "loop"
    /\ UNCHANGED <<quit, worldVars, adc, loopVars, countVars>>

\* Mutant: main returns without stopping the pipeline.
LeaveRunning ==
    /\ mpc = "leave"
    /\ mpc' = "exited"
    /\ UNCHANGED <<quit, streaming, worldVars, adc, loopVars, countVars>>

Leave ==
    /\ mpc = "leave"
    /\ streaming' = FALSE
    /\ mpc' = "exited"
    /\ UNCHANGED <<quit, worldVars, adc, loopVars, countVars>>

Exited == mpc = "exited" /\ UNCHANGED triggerVars

Main == Loop \/ Poll \/ AdcRead \/ AdcSkip \/ Stdin \/ Act \/ Started \/ Stopped \/ Leave
TriggerNext == Press \/ Release \/ Enter \/ HangUp \/ Sigterm \/ Main \/ Exited

TriggerSpec == TriggerInit /\ [][TriggerNext]_triggerVars

\* main is scheduled, and reads of the ADC do not fail for ever.
LiveSpec == TriggerSpec /\ WF_triggerVars(Main) /\ SF_triggerVars(AdcRead)

----------------------------------------------------------------------------
(* Properties                                                              *)

\* "Press Button or [ENTER] in SSH to start/stop" (vtx.c:734): nothing else does.
NoIdleToggle == toggles <= requests

\* The stream is toggled only on request: once for a press however long it is held,
\* at most once for a line, as long as the terminal is there; and after SIGTERM, which
\* takes requests back, at most in the pass of the loop the signal found main in.
ToggleNeedsRequest ==
    /\ tty # "gone" => toggles <= requests
    /\ lateToggles <= 1

\* A request is answered by a toggle that begins after it was made, also when main was
\* starting or stopping the pipeline then or the ADC failed: every line is, and a press
\* held until it is read, if main has seen the button up since the press before.  The
\* code promises no more: of two presses within one start_pipeline, main, which compares
\* levels (vtx.c:763), sees one, and lines typed within one share a toggle.
RequestsAnswered ==
    \A r \in {"press", "line"} : r \in owed ~> (r \notin owed \/ mpc = "exited")

\* SIGTERM is obeyed, and the pipeline is down when main returns.
QuitStops == quit ~> (mpc = "exited" /\ ~streaming)

=============================================================================
