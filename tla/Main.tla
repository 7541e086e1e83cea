-------------------------------- MODULE Main --------------------------------
(***************************************************************************)
(* The main program (src/bin/file-sharing.rs): the node is started, and    *)
(* once it runs main reads and parses the user's lines while the swarm     *)
(* goes on.  What becomes of a command that parses is in module EventLoop. *)
(***************************************************************************)
EXTENDS Startup, CommandParse

allVars == <<vars, lineVars>>

MainInit == Init /\ LineInit

\* new_network before main's loop, and the spawned event loop beside it.
Network == Next /\ UNCHANGED lineVars

\* The loop of main: a line is read only when new_network has succeeded.
ReadLines ==
    /\ phase = "running"
    /\ LineNext
    /\ UNCHANGED vars

MainNext == Network \/ ReadLines

\* Fairness is that of Startup: nobody has to type.
MainSpec == MainInit /\ [][MainNext]_allVars /\ Fairness

=============================================================================
