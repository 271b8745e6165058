---------------------------- MODULE MCMLService ----------------------------
(***************************************************************************)
(* What may go wrong in one behaviour: the watcher alone with engines that   *)
(* crash, wedge and are slow, a foreign service and a SIGTERM; the same with *)
(* a reader of the pid file; a command run beside the watcher; or a port     *)
(* and a process table that cannot be inspected beside each of these.       *)
(***************************************************************************)
EXTENDS MLService

Nothing == [what \in Budgeted |-> 0]

Trouble == [Nothing EXCEPT !["slow"] = 1, !["silence"] = 1, !["crash"] = 1,
                           !["visit"] = 1, !["sigterm"] = 1]
ReadBeside == [Trouble EXCEPT !["look"] = 1]
Command == [Nothing EXCEPT !["slow"] = 1, !["command"] = 1]
CommandOverCrash == [Nothing EXCEPT !["crash"] = 1, !["command"] = 1]
CommandOverSilence == [Nothing EXCEPT !["silence"] = 1, !["command"] = 1]
BlindOverCrash == [Nothing EXCEPT !["blind"] = 2, !["crash"] = 1, !["visit"] = 1,
                                  !["sigterm"] = 1]
BlindBesideReader == [Nothing EXCEPT !["blind"] = 1, !["look"] = 1, !["crash"] = 1]
BlindCommand == [Nothing EXCEPT !["blind"] = 1, !["command"] = 1]

MCBounds == {Trouble, ReadBeside, Command, CommandOverCrash, CommandOverSilence,
             BlindOverCrash, BlindBesideReader, BlindCommand}
MCCrash == {[Nothing EXCEPT !["crash"] = 1]}
=============================================================================
