---------------------------- MODULE TerminalProofs ----------------------------
(***************************************************************************)
(* Proofs about Terminal.  In every session, whatever the order of Ctrl-Z, *)
(* fg, bg, the delivery of signals and the end of the command, no stop of  *)
(* the command is lost.  And if the user does not stop rclonewatch itself  *)
(* and fg sends no SIGCONT to a running job, the terminal is handed back   *)
(* only after the shell has seen the stop, and only in the foreground.     *)
(***************************************************************************)
EXTENDS Terminal, TLAPS

\* How far the command is where rclonewatch has not started it or is done with it.
Phases ==
    /\ pc \in {"start", "failed"} => cmd = "none"
    /\ pc \in {"end", "takeEnd", "done"} => cmd = "exited"
    /\ rw = "exited" => pc \in {"done", "failed"}

\* The inductive invariant.
IInv == TypeOK /\ Phases /\ StopIsHandled

\* Without stops from outside, rclonewatch is stopped and resumed only in
\* suspend, first the one and then the other, with the shell in between.
Orderly ==
    /\ "stop" \in pending \/ rw = "stopped" =>
           pc = "blocked" /\ ~continued /\ "cont" \notin pending
    /\ continued \/ "cont" \in pending => pc = "blocked" /\ seen
    /\ ~seen => pc = "blocked"

\* Then the shell is at its prompt only while the terminal is its own, and does
\* not get there while rclonewatch is about to set the foreground group.
Foreground ==
    /\ fg # "shell" => job = "fg"
    /\ pc \in {"start", "takeStop", "takeEnd", "give"} => job = "fg"

-----------------------------------------------------------------------------

LEMMA InitIInv == Init => IInv
  BY DEF Init, IInv, TypeOK, Notified, Phases, StopIsHandled

\* The kernel, the command, the user and the shell.
LEMMA WorldIInv ==
  ASSUME IInv,
         \/ CtrlZ \/ Deliver \/ CommandStops \/ BackgroundRead \/ CommandExits
         \/ ShellReturns \/ ResumeForeground \/ ResumeBackground \/ Handle
  PROVE  IInv'
PROOF
  <1>1. CASE CtrlZ
    BY <1>1 DEF IInv, TypeOK, Notified, Phases, StopIsHandled, CtrlZ, SigTstp,
       shellVars, given
  <1>2. CASE Deliver
    BY <1>2 DEF IInv, TypeOK, Notified, Phases, StopIsHandled, Deliver, shellVars, given
  <1>3. CASE CommandStops
    BY <1>3 DEF IInv, TypeOK, Notified, Phases, StopIsHandled, CommandStops,
       shellVars, given
  <1>4. CASE BackgroundRead
    BY <1>4 DEF IInv, TypeOK, Notified, Phases, StopIsHandled, BackgroundRead,
       shellVars, given
  <1>5. CASE CommandExits
    BY <1>5 DEF IInv, TypeOK, Notified, Phases, StopIsHandled, CommandExits,
       shellVars, given
  <1>6. CASE ShellReturns
    BY <1>6 DEF IInv, TypeOK, Notified, Phases, StopIsHandled, ShellReturns,
       shellVars, given
  <1>7. CASE ResumeForeground
    BY <1>7 DEF IInv, TypeOK, Notified, Phases, StopIsHandled, ResumeForeground,
       SigCont, shellVars, given
  <1>8. CASE ResumeBackground
    BY <1>8 DEF IInv, TypeOK, Notified, Phases, StopIsHandled, ResumeBackground,
       SigCont, shellVars, given
  <1>9. CASE Handle
    BY <1>9 DEF IInv, TypeOK, Notified, Phases, StopIsHandled, Handle, shellVars, given
  <1>10. QED
    BY <1>1, <1>2, <1>3, <1>4, <1>5, <1>6, <1>7, <1>8, <1>9

\* rclonewatch itself.
LEMMA StepIInv ==
  ASSUME IInv, Step
  PROVE  IInv'
PROOF
  <1>1. CASE Start
    BY <1>1 DEF IInv, TypeOK, Notified, Phases, StopIsHandled, Start, shellVars, given
  <1>2. CASE Wait
    BY <1>2 DEF IInv, TypeOK, Notified, Phases, StopIsHandled, Wait, shellVars, given
  <1>3. CASE reclaim
    BY <1>3 DEF IInv, TypeOK, Notified, Phases, StopIsHandled, reclaim, shellVars, given
  <1>4. CASE Take
    BY <1>4 DEF IInv, TypeOK, Notified, Phases, StopIsHandled, Take, shellVars, given
  <1>5. CASE suspend
    BY <1>5 DEF IInv, TypeOK, Notified, Phases, StopIsHandled, suspend, shellVars, given
  <1>6. CASE Kill
    BY <1>6 DEF IInv, TypeOK, Notified, Phases, StopIsHandled, Kill, SigTstp,
       shellVars, given
  <1>7. CASE Resumed
    BY <1>7 DEF IInv, TypeOK, Notified, Phases, StopIsHandled, Resumed, shellVars, given
  <1>8. CASE Check
    BY <1>8 DEF IInv, TypeOK, Notified, Phases, StopIsHandled, Check, shellVars, given
  <1>9. CASE Give
    BY <1>9 DEF IInv, TypeOK, Notified, Phases, StopIsHandled, Give, shellVars, given
  <1>10. CASE Continue
    BY <1>10 DEF IInv, TypeOK, Notified, Phases, StopIsHandled, Continue, shellVars, given
  <1>11. CASE Exit
    BY <1>11 DEF IInv, TypeOK, Notified, Phases, StopIsHandled, Exit, shellVars, given
  <1>12. QED
    BY <1>1, <1>2, <1>3, <1>4, <1>5, <1>6, <1>7, <1>8, <1>9, <1>10, <1>11 DEF Step

LEMMA Inductive == Spec => []IInv
PROOF
  <1>1. IInv /\ [Next]_vars => IInv'
    <2>1. SUFFICES ASSUME IInv, [Next]_vars PROVE IInv'
      OBVIOUS
    <2>2. CASE Next
      BY <2>1, <2>2, WorldIInv, StepIInv DEF Next
    <2>3. CASE UNCHANGED vars
      BY <2>1, <2>3 DEF vars, given, IInv, TypeOK, Notified, Phases, StopIsHandled
    <2>4. QED
      BY <2>1, <2>2, <2>3
  <1>2. QED
    BY InitIInv, <1>1, PTL DEF Spec

\* Every variable keeps its type, SIGCONT is under way only while suspend has a
\* handler for it, and a stop to be reported by wait4 is that of a stopped
\* command.
THEOREM TypeCorrect == Spec => []TypeOK
PROOF
  <1>1. IInv => TypeOK
    BY DEF IInv
  <1>2. QED
    BY Inductive, <1>1, PTL

\* A stopped command is always known to rclonewatch: wait4 will report it, or
\* the loop of wait is between the report and the SIGCONT.
THEOREM StopsHandled == Spec => []StopIsHandled
PROOF
  <1>1. IInv => StopIsHandled
    BY DEF IInv
  <1>2. QED
    BY Inductive, <1>1, PTL

-----------------------------------------------------------------------------

\* The invariant of the hand-over, for a rclonewatch that nobody else stops or
\* wakes.
HandInv == Orderly /\ Foreground

LEMMA InitHandInv == Init => HandInv
  BY DEF Init, HandInv, Orderly, Foreground

LEMMA WorldHandInv ==
  ASSUME Undisturbed, IInv, HandInv,
         \/ CtrlZ \/ Deliver \/ CommandStops \/ BackgroundRead \/ CommandExits
         \/ ShellReturns \/ ResumeForeground \/ ResumeBackground \/ Handle
  PROVE  HandInv'
PROOF
  <1>1. CASE CtrlZ
    BY <1>1 DEF IInv, TypeOK, Notified, Phases, HandInv, Orderly, Foreground,
       Undisturbed, CtrlZ, SigTstp, shellVars, given
  <1>2. CASE Deliver
    BY <1>2 DEF IInv, TypeOK, Notified, Phases, HandInv, Orderly, Foreground,
       Deliver, shellVars, given
  <1>3. CASE CommandStops
    BY <1>3 DEF IInv, TypeOK, Notified, Phases, HandInv, Orderly, Foreground,
       CommandStops, shellVars, given
  <1>4. CASE BackgroundRead
    BY <1>4 DEF IInv, TypeOK, Notified, Phases, HandInv, Orderly, Foreground,
       BackgroundRead, shellVars, given
  <1>5. CASE CommandExits
    BY <1>5 DEF IInv, TypeOK, Notified, Phases, HandInv, Orderly, Foreground,
       CommandExits, shellVars, given
  <1>6. CASE ShellReturns
    BY <1>6 DEF IInv, TypeOK, Notified, Phases, HandInv, Orderly, Foreground,
       ShellReturns, shellVars, given
  <1>7. CASE ResumeForeground
    <2>1. CASE rw = "stopped"
      BY <1>7, <2>1 DEF IInv, TypeOK, Notified, Phases, HandInv, Orderly,
         Foreground, Undisturbed, ResumeForeground, SigCont, shellVars, given
    <2>2. CASE rw = "running"
      <3>1. UNCHANGED <<rw, seen, pending>> /\ job' = "fg"
        BY <1>7, <2>2 DEF Undisturbed, ResumeForeground, SigCont
      <3>2. Orderly'
        BY <1>7, <2>2, <3>1 DEF HandInv, Orderly, ResumeForeground
      <3>3. Foreground'
        BY <3>1 DEF Foreground
      <3>4. QED
        BY <3>2, <3>3 DEF HandInv
    <2>3. QED
      BY <1>7, <2>1, <2>2 DEF IInv, TypeOK, ResumeForeground
  <1>8. CASE ResumeBackground
    BY <1>8 DEF IInv, TypeOK, Notified, Phases, HandInv, Orderly, Foreground,
       ResumeBackground, SigCont, shellVars, given
  <1>9. CASE Handle
    BY <1>9 DEF IInv, TypeOK, Notified, Phases, HandInv, Orderly, Foreground,
       Handle, shellVars, given
  <1>10. QED
    BY <1>1, <1>2, <1>3, <1>4, <1>5, <1>6, <1>7, <1>8, <1>9

LEMMA StepHandInv ==
  ASSUME IInv, HandInv, Step
  PROVE  HandInv'
PROOF
  <1>1. CASE Start
    BY <1>1 DEF IInv, TypeOK, Notified, Phases, HandInv, Orderly, Foreground,
       Start, shellVars, given
  <1>2. CASE Wait
    BY <1>2 DEF IInv, TypeOK, Notified, Phases, HandInv, Orderly, Foreground,
       Wait, shellVars, given
  <1>3. CASE reclaim
    BY <1>3 DEF IInv, TypeOK, Notified, Phases, HandInv, Orderly, Foreground,
       reclaim, shellVars, given
  <1>4. CASE Take
    BY <1>4 DEF IInv, TypeOK, Notified, Phases, HandInv, Orderly, Foreground,
       Take, shellVars, given
  <1>5. CASE suspend
    BY <1>5 DEF IInv, TypeOK, Notified, Phases, HandInv, Orderly, Foreground,
       suspend, shellVars, given
  <1>6. CASE Kill
    BY <1>6 DEF IInv, TypeOK, Notified, Phases, HandInv, Orderly, Foreground,
       Kill, SigTstp, shellVars, given
  <1>7. CASE Resumed
    BY <1>7 DEF IInv, TypeOK, Notified, Phases, HandInv, Orderly, Foreground,
       Resumed, shellVars, given
  <1>8. CASE Check
    BY <1>8 DEF IInv, TypeOK, Notified, Phases, HandInv, Orderly, Foreground,
       Check, shellVars, given
  <1>9. CASE Give
    BY <1>9 DEF IInv, TypeOK, Notified, Phases, HandInv, Orderly, Foreground,
       Give, shellVars, given
  <1>10. CASE Continue
    BY <1>10 DEF IInv, TypeOK, Notified, Phases, HandInv, Orderly, Foreground,
       Continue, shellVars, given
  <1>11. CASE Exit
    BY <1>11 DEF IInv, TypeOK, Notified, Phases, HandInv, Orderly, Foreground,
       Exit, shellVars, given
  <1>12. QED
    BY <1>1, <1>2, <1>3, <1>4, <1>5, <1>6, <1>7, <1>8, <1>9, <1>10, <1>11 DEF Step

\* What the session was given stays.
LEMMA GivenStays == [Next]_vars => UNCHANGED given
  BY DEF Next, Step, vars, shellVars, CtrlZ, Deliver, CommandStops, BackgroundRead,
         CommandExits, ShellReturns, ResumeForeground, ResumeBackground, Handle, Start,
         Wait, reclaim, Take, suspend, Kill, Resumed, Check, Give, Continue, Exit

LEMMA HandInductive == Spec => [](Undisturbed => HandInv)
PROOF
  <1>1. IInv /\ (Undisturbed => HandInv) /\ [Next]_vars => (Undisturbed => HandInv)'
    <2>1. SUFFICES ASSUME IInv, Undisturbed => HandInv, [Next]_vars, Undisturbed'
                   PROVE  HandInv'
      OBVIOUS
    <2>2. Undisturbed /\ HandInv
      BY <2>1, GivenStays DEF Undisturbed, given
    <2>3. CASE Next
      BY <2>1, <2>2, <2>3, WorldHandInv, StepHandInv DEF Next
    <2>4. CASE UNCHANGED vars
      BY <2>2, <2>4 DEF vars, given, HandInv, Orderly, Foreground
    <2>5. QED
      BY <2>1, <2>3, <2>4
  <1>2. QED
    BY InitHandInv, Inductive, <1>1, PTL DEF Spec

\* Only Give hands the terminal back.
LEMMA OnlyGive ==
  ASSUME [Next]_vars, HandsBack
  PROVE  pc = "give"
PROOF
  <1>1. CASE Step
    BY <1>1 DEF HandsBack, Step, Start, Wait, reclaim, Take, suspend, Kill, Resumed,
                Check, Give, Continue, Exit
  <1>2. CASE ~Step
    BY <1>2 DEF HandsBack, Next, vars, CtrlZ, Deliver, CommandStops, BackgroundRead,
                CommandExits, ShellReturns, ResumeForeground, ResumeBackground, Handle
  <1>3. QED
    BY <1>1, <1>2

\* If nobody but suspend stops rclonewatch and fg wakes only a stopped job, the
\* terminal is handed back in turn.  The shell has observed the stop, since the
\* SIGCONT for which suspend waits comes after its SIGTSTP and from a shell that
\* has seen it; and it waits for the job, since from the look at the foreground
\* group to tcsetpgrp nothing can stop rclonewatch.
THEOREM HandedInTurn == Spec => HandedBackInTurn
PROOF
  <1>1. (Undisturbed => HandInv) /\ [Next]_vars
          => [HandsBack /\ Undisturbed => job = "fg" /\ (ignores \/ seen)]_vars
    BY OnlyGive DEF HandInv, Orderly, Foreground
  <1>2. QED
    BY <1>1, HandInductive, PTL DEF Spec, HandedBackInTurn
=============================================================================
