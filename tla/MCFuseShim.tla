----------------------------- MODULE MCFuseShim -----------------------------
(***************************************************************************)
(* Small instances of FuseShim: calls that share a missing directory, that *)
(* repeat a path, and that name a path below a file.                       *)
(***************************************************************************)
EXTENDS FuseShim

CONSTANTS n1, n2

Call(op, path) == [op |-> op, path |-> path]

MCCalls == {Call("file", <<n1, n2>>), Call("symlink", <<n1, n1>>), Call("file", <<n1>>)}
\* Two files below one missing directory.
MCRaceCalls == {Call("file", <<n1, n2>>), Call("file", <<n1, n1>>)}
\* SIGHUP, SIGINT and SIGTERM
MCSignals == {1, 2, 15}
=============================================================================
