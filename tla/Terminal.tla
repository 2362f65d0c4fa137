------------------------------- MODULE Terminal -------------------------------
(***************************************************************************)
(* Job control of a wrapped command on the terminal                        *)
(* (src/src/terminal_linux.go and the start of the command in              *)
(* src/src/main.go): rclonewatch hands the terminal to the command,        *)
(* mirrors its stops onto its own job and takes the terminal back, while   *)
(* the user presses Ctrl-Z and resumes the job from the shell.             *)
(*                                                                         *)
(* Sending a signal and its effect are separate steps, for Ctrl-Z as for   *)
(* the SIGTSTP of suspend: rclonewatch may still make a system call after  *)
(* the signal that stops it was sent.                                      *)
(*                                                                         *)
(* Simplifications:                                                        *)
(*  - a process group is one process;                                      *)
(*  - the session was started from the prompt, in the foreground; without  *)
(*    the foreground none of this code runs;                               *)
(*  - the shell does job control: in an orphaned process group, as that of *)
(*    the first process of a container, the kernel discards SIGTSTP and    *)
(*    suspend waits for a SIGCONT that nobody sends.                       *)
(***************************************************************************)
EXTENDS Naturals

VARIABLES
    fg,         \* the foreground group: shell, rw (rclonewatch) or cmd
    job,        \* what the shell does: fg (waits for the job) or prompt
    ignores,    \* rclonewatch was started with SIGTSTP ignored
    stopsJob,   \* Ctrl-Z may come while rclonewatch itself has the terminal
    wakesJob,   \* fg may send SIGCONT to a job that is running (a matter of
                \* the shell)
    rw,         \* rclonewatch: running, stopped or exited
    pending,    \* signals on the way: stop and cont to rclonewatch, cmdStop
                \* to the command
    continued,  \* SIGCONT in the channel of suspend
    cmd,        \* the command: none, running, stopped, exited
    news,       \* wait4 has yet to report the stop of the command
    pc,         \* the goroutine that waits for the command: start, wait,
                \* stop or end (what wait4 reported), takeStop, takeEnd,
                \* suspend, notified, blocked, check, give, continue, done,
                \* failed
    seen        \* history: the shell knows of the last stop of suspend

given == <<ignores, stopsJob, wakesJob>>  \* fixed for the session
vars == <<fg, job, given, rw, pending, continued, cmd, news, pc, seen>>
shellVars == <<job, given, seen>>

\* Where suspend has a handler for SIGCONT.
Notified == {"notified", "blocked"}

\* The types; SIGCONT is on its way only while suspend wants it, and wait4
\* reports the stop of a stopped command.
TypeOK ==
    /\ fg \in {"shell", "rw", "cmd"} /\ job \in {"fg", "prompt"}
    /\ rw \in {"running", "stopped", "exited"}
    /\ cmd \in {"none", "running", "stopped", "exited"}
    /\ pending \subseteq {"stop", "cont", "cmdStop"}
    /\ {ignores, stopsJob, wakesJob, continued, news, seen} \subseteq BOOLEAN
    /\ pc \in {"start", "wait", "stop", "end", "takeStop", "takeEnd", "suspend", "check",
               "give", "continue", "done", "failed"} \cup Notified
    /\ continued \/ "cont" \in pending => pc \in Notified
    /\ news => cmd = "stopped"

\* foregroundTerminal has found rclonewatch in the foreground.
Init ==
    /\ ignores \in BOOLEAN /\ stopsJob \in BOOLEAN /\ wakesJob \in BOOLEAN
    /\ fg = "rw" /\ job = "fg"
    /\ rw = "running" /\ pending = {} /\ continued = FALSE
    /\ cmd = "none" /\ news = FALSE
    /\ pc = "start" /\ seen = TRUE

-----------------------------------------------------------------------------
(* The kernel, the command, the user and the shell *)

\* SIGTSTP is sent to rclonewatch: it takes back a SIGCONT on the way, and is
\* not even sent to a process that ignores it.
SigTstp == IF ignores THEN pending ELSE (pending \ {"cont"}) \cup {"stop"}

\* Ctrl-Z goes to the foreground group.  At a stopped one it waits for the
\* SIGCONT that takes it back.
CtrlZ ==
    /\ \/ /\ fg = "cmd" /\ cmd \in {"running", "stopped"}
          /\ pending' = pending \cup {"cmdStop"}
       \/ stopsJob /\ fg = "rw" /\ rw # "exited" /\ pending' = SigTstp
    /\ UNCHANGED <<fg, shellVars, rw, continued, cmd, news, pc>>

\* rclonewatch stops, wherever it is.
Deliver ==
    /\ rw = "running" /\ "stop" \in pending
    /\ rw' = "stopped"
    /\ pending' = pending \ {"stop"}
    /\ UNCHANGED <<fg, shellVars, continued, cmd, news, pc>>

CommandStops ==
    /\ cmd = "running" /\ "cmdStop" \in pending
    /\ cmd' = "stopped" /\ news' = TRUE
    /\ pending' = pending \ {"cmdStop"}
    /\ UNCHANGED <<fg, shellVars, rw, continued, pc>>

\* A command in the background reads from the terminal (SIGTTIN).
BackgroundRead ==
    /\ fg # "cmd" /\ cmd = "running"
    /\ cmd' = "stopped" /\ news' = TRUE
    /\ UNCHANGED <<fg, shellVars, rw, pending, continued, pc>>

\* The command exits, or is killed.
CommandExits ==
    /\ cmd \in {"running", "stopped"}
    /\ cmd' = "exited" /\ news' = FALSE
    /\ pending' = pending \ {"cmdStop"}
    /\ UNCHANGED <<fg, shellVars, rw, continued, pc>>

\* The shell sees that its foreground job has stopped or ended.
ShellReturns ==
    /\ job = "fg" /\ rw # "running"
    /\ job' = "prompt" /\ fg' = "shell" /\ seen' = TRUE
    /\ UNCHANGED <<given, rw, pending, continued, cmd, news, pc>>

\* SIGCONT takes back a stop on the way; without a handler it is discarded.
\* Whoever resumes a stopped job knows that it has stopped.
SigCont ==
    /\ rw' = "running" /\ seen' = (seen \/ rw = "stopped")
    /\ pending' = (pending \ {"stop"}) \cup (IF pc \in Notified THEN {"cont"} ELSE {})

\* The shell commands fg and bg.
ResumeForeground ==
    /\ job = "prompt" /\ fg = "shell" /\ rw # "exited"
    /\ job' = "fg" /\ fg' = "rw"
    /\ \/ (rw = "stopped" \/ wakesJob) /\ SigCont
       \/ rw = "running" /\ UNCHANGED <<rw, seen, pending>>
    /\ UNCHANGED <<given, continued, cmd, news, pc>>

ResumeBackground ==
    /\ job = "prompt" /\ fg = "shell" /\ rw = "stopped"
    /\ SigCont
    /\ UNCHANGED <<fg, job, given, continued, cmd, news, pc>>

\* os/signal puts SIGCONT into the channel of suspend.
Handle ==
    /\ rw = "running" /\ "cont" \in pending
    /\ pending' = pending \ {"cont"}
    /\ continued' = TRUE
    /\ UNCHANGED <<fg, shellVars, rw, cmd, news, pc>>

-----------------------------------------------------------------------------
(* rclonewatch *)

\* The child makes itself the foreground group (configure) before its exec;
\* started and the goroutine of wait follow.  Start may fail, before there is a
\* child or in its exec.
Start ==
    /\ rw = "running" /\ pc = "start"
    /\ \/ cmd' = "running" /\ fg' = "cmd" /\ pc' = "wait"
       \/ fg' \in {fg, "cmd"} /\ pc' = "failed" /\ UNCHANGED cmd
    /\ UNCHANGED <<shellVars, rw, pending, continued, news>>

\* Mutant: wait4 without WUNTRACED.
WaitForExit ==
    /\ rw = "running" /\ pc = "wait"
    /\ cmd = "exited"
    /\ news' = FALSE
    /\ pc' = "end"
    /\ UNCHANGED <<fg, shellVars, rw, pending, continued, cmd>>

\* wait4 with WUNTRACED
Wait ==
    /\ rw = "running" /\ pc = "wait"
    /\ cmd = "exited" \/ news
    /\ news' = FALSE
    /\ pc' = IF cmd = "exited" THEN "end" ELSE "stop"
    /\ UNCHANGED <<fg, shellVars, rw, pending, continued, cmd>>

\* Mutant: the terminal is taken back only when the command has stopped.
reclaimStopped ==
    /\ rw = "running" /\ pc \in {"stop", "end"}
    /\ pc' = IF pc = "end" THEN "done" ELSE IF fg = "cmd" THEN "takeStop" ELSE "suspend"
    /\ UNCHANGED <<fg, shellVars, rw, pending, continued, cmd, news>>

\* reclaim looks whether the command has the terminal,
reclaim ==
    /\ rw = "running" /\ pc \in {"stop", "end"}
    /\ pc' = IF fg = "cmd" THEN IF pc = "end" THEN "takeEnd" ELSE "takeStop"
                           ELSE IF pc = "end" THEN "done" ELSE "suspend"
    /\ UNCHANGED <<fg, shellVars, rw, pending, continued, cmd, news>>

\* and takes it.  SIGTTOU is ignored, so that this never stops rclonewatch.
Take ==
    /\ rw = "running" /\ pc \in {"takeStop", "takeEnd"}
    /\ fg' = "rw"
    /\ pc' = IF pc = "takeEnd" THEN "done" ELSE "suspend"
    /\ UNCHANGED <<shellVars, rw, pending, continued, cmd, news>>

\* suspend installs its handler, unless SIGTSTP is ignored,
suspend ==
    /\ rw = "running" /\ pc = "suspend"
    /\ pc' = IF ignores THEN "check" ELSE "notified"
    /\ UNCHANGED <<fg, shellVars, rw, pending, continued, cmd, news>>

\* Mutant: suspend does not wait for SIGCONT.
KillOnly ==
    /\ rw = "running" /\ pc = "notified"
    /\ pending' = SigTstp
    /\ seen' = FALSE
    /\ continued' = FALSE
    /\ pc' = "check"
    /\ UNCHANGED <<fg, job, given, rw, cmd, news>>

\* and sends SIGTSTP to its own group.
Kill ==
    /\ rw = "running" /\ pc = "notified"
    /\ pending' = SigTstp
    /\ seen' = FALSE
    /\ pc' = "blocked"
    /\ UNCHANGED <<fg, job, given, rw, continued, cmd, news>>

\* Mutant: the handler of suspend is left in place.
ResumedNotifying ==
    /\ rw = "running" /\ pc = "blocked"
    /\ continued
    /\ pc' = "check"
    /\ UNCHANGED <<fg, shellVars, rw, pending, continued, cmd, news>>

\* <-continued, and signal.Stop
Resumed ==
    /\ rw = "running" /\ pc = "blocked"
    /\ continued
    /\ continued' = FALSE
    /\ pending' = pending \ {"cont"}
    /\ pc' = "check"
    /\ UNCHANGED <<fg, shellVars, rw, cmd, news>>

\* "Give the terminal back only if the job was resumed in the foreground."
Check ==
    /\ rw = "running" /\ pc = "check"
    /\ pc' = IF fg = "rw" THEN "give" ELSE "continue"
    /\ UNCHANGED <<fg, shellVars, rw, pending, continued, cmd, news>>

Give ==
    /\ rw = "running" /\ pc = "give"
    /\ fg' = "cmd"
    /\ pc' = "continue"
    /\ UNCHANGED <<shellVars, rw, pending, continued, cmd, news>>

\* Mutant: the command is left stopped.
ContinueNobody ==
    /\ rw = "running" /\ pc = "continue"
    /\ pc' = "wait"
    /\ UNCHANGED <<fg, shellVars, rw, pending, continued, cmd, news>>

\* SIGCONT to the group of the command
Continue ==
    /\ rw = "running" /\ pc = "continue"
    /\ IF cmd = "stopped" THEN cmd' = "running" /\ news' = FALSE
                          ELSE UNCHANGED <<cmd, news>>
    /\ pending' = pending \ {"cmdStop"}
    /\ pc' = "wait"
    /\ UNCHANGED <<fg, shellVars, rw, continued>>

\* The session ends, its final sync included.
Exit ==
    /\ rw = "running" /\ pc \in {"done", "failed"}
    /\ rw' = "exited"
    /\ pending' = pending \ {"stop"}
    /\ UNCHANGED <<fg, shellVars, continued, cmd, news, pc>>

Step ==
    \/ Start \/ Wait \/ reclaim \/ Take \/ suspend \/ Kill \/ Resumed
    \/ Check \/ Give \/ Continue \/ Exit

Next ==
    \/ CtrlZ \/ Deliver \/ CommandStops \/ BackgroundRead \/ CommandExits
    \/ ShellReturns \/ ResumeForeground \/ ResumeBackground \/ Handle
    \/ Step

Spec == Init /\ [][Next]_vars

\* rclonewatch goes on while it is not stopped, its signals arrive and the
\* shell notices that its job has stopped.  The user and the command need not
\* act.
Fairness ==
    WF_vars(Step) /\ WF_vars(Deliver) /\ WF_vars(Handle) /\ WF_vars(ShellReturns)

FairSpec == Spec /\ Fairness

-----------------------------------------------------------------------------
(* Properties *)

\* No stop of the command is lost: while it is stopped, wait4 has yet to report
\* it or rclonewatch is on its way from the report to the SIGCONT, however the
\* two, the user and the shell take turns (the loop of wait).  Otherwise the
\* command would stay stopped behind a job that seems to run.
StopIsHandled ==
    cmd = "stopped" => news \/ pc \notin {"start", "wait", "end", "takeEnd", "done", "failed"}

\* The terminal goes from somebody else to the command, after a stop.
HandsBack == pc # "start" /\ fg # "cmd" /\ fg' = "cmd"

\* Only suspend stops rclonewatch, and a SIGCONT is for a stopped job.
Undisturbed == ~stopsJob /\ ~wakesJob

\* The command gets the terminal again only when the shell has seen the stop
\* ("waiting for SIGCONT keeps the terminal from being handed back before the
\* shell has observed the stop", suspend) and never from a shell at its prompt
\* ("Give the terminal back only if the job was resumed in the foreground",
\* wait).  A SIGCONT that comes between signal.Notify and kill would end the wait
\* too early; a stop that takes effect between tcgetpgrp and tcsetpgrp would give
\* the prompt's terminal away.
HandedBackInTurn ==
    [][HandsBack /\ Undisturbed => job = "fg" /\ (ignores \/ seen)]_vars

\* Ctrl-Z reaches the shell: once the command has stopped the shell gets its
\* terminal back, or the command goes on ("so the shell regains the terminal").
StopIsMirrored == (cmd = "stopped" /\ job = "fg") ~> (fg = "shell" \/ cmd # "stopped")

\* "when the job is continued, the command is continued as well": a SIGCONT to
\* suspend reaches the command, unless the user stops the job again.
ContinueIsMirrored ==
    (cmd = "stopped" /\ (continued \/ "cont" \in pending)) ~> (cmd # "stopped" \/ rw = "stopped")

\* Once the command has ended, its group loses the terminal for good, whatever
\* rclonewatch was doing then, also on the way to hand it over: Ctrl-C reaches
\* rclonewatch during the final sync ("restoring the terminal to rclonewatch
\* afterwards").  A command whose exec fails is not waited for: nothing takes
\* the terminal back from it.
TerminalComesBack == cmd = "exited" ~> [](fg # "cmd")
=============================================================================
