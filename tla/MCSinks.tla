------------------------------- MODULE MCSinks -------------------------------
(***************************************************************************)
(* Instances of Sinks for TLC.                                             *)
(***************************************************************************)
EXTENDS Sinks, TLC

CONSTANTS d1, d2, console, console2, file

(* Two callers of a synchronous logger, or two loggers with common sinks.  *)
SharedSinks == (d1 :> {console, file} @@ d2 :> {console, file})

(* Two loggers, each made with a StdoutSink of its own.                    *)
OwnConsoles == (d1 :> {console} @@ d2 :> {console2})

Symmetry == Permutations({d1, d2})

=============================================================================
