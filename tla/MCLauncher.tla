------------------------------ MODULE MCLauncher ------------------------------
(* Three programs: one whose file is missing, a deamon that must keep two  *)
(* processes, and one that is looked for and is not a deamon, so that mon  *)
(* waits until it ends.                                                    *)
EXTENDS Launcher

MCNumThread == <<0, 2, 0>>
=============================================================================
