------------------------------ MODULE MCBuffers ------------------------------
(***************************************************************************)
(* What stands between a codec and its caller.  OutputWindow on windows of *)
(* 1 to 3 bytes and blocks of up to 3: enough appended bytes for a frame   *)
(* to outrun its window several times over and for output of an earlier    *)
(* frame to be left in front of it.  And the io adapters, over sinks and   *)
(* sources that fail.  The two share no state: a behaviour is one of them. *)
(***************************************************************************)
EXTENDS OutputWindow, IoAdapters

MCWindows  == {1, 3}
MCOffsets  == 1..6
MCCaps     == {9, None}
MCDictLens == {None, 2}

VARIABLE machine

BuffersInit ==
  /\ Init /\ IoInit
  /\ \/ machine = "window" /\ pledged = Unpledged
     \/ machine = "io" /\ max_output_size = None

BuffersNext ==
  /\ UNCHANGED machine
  /\ \/ machine = "window" /\ Next /\ UNCHANGED ioVars
     \/ machine = "io" /\ IoNext /\ UNCHANGED vars

BuffersSpec ==
  BuffersInit /\ [][BuffersNext]_<<machine, vars, ioVars>> /\ IoFairness
=============================================================================
