-------------------------- MODULE MCVersionedFuse ---------------------------
(***************************************************************************)
(* Small instances of VersionedFuse: two names, paths of at most two names,*)
(* a store with one file in a directory, and one file written under a name *)
(* without leading slash.                                                  *)
(***************************************************************************)
EXTENDS VersionedFuse

CONSTANTS a, b

MCInitFiles == <<<<<<a, b>>, <<1>>>>>>
MCOneFile == <<<<<<a>>, <<1>>>>>>
MCNoFiles == <<>>
MCSlashless == <<<<b>>>>

\* The stores mounted here satisfy the hypothesis of the theorems about files
\* and listings.
ASSUME MountedFilesFormTree == FilesFormTree
=============================================================================
