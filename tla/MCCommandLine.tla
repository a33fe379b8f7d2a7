--------------------------- MODULE MCCommandLine ---------------------------
(***************************************************************************)
(* The command line on a small instance, for TLC.                          *)
(***************************************************************************)
EXTENDS CommandLine

\* Four ids that share prefixes of every length.
SmallIds == {<<0, 0, 0>>, <<0, 0, 1>>, <<0, 1, 1>>, <<1, 0, 0>>}

\* Bound: jobs and one worker, or all the workers and no job.  An invocation
\* is about one or the other.
JobsOrWorkers == sequence > 0 => \A w \in Worker : Registered(w) => w = <<0, 0, 0>>

SmallCliSpec == CliInit /\ [][CliNext /\ JobsOrWorkers']_cliVars
=============================================================================
