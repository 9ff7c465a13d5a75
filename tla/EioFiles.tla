----------------------------- MODULE EioFiles ------------------------------
(***************************************************************************)
(* A worker executes one request after the other of the three types that   *)
(* are implemented outside eio_execute "because they are so large".        *)
(***************************************************************************)
EXTENDS EioSendfile, EioScandir, EioRealpath

fileVars == <<sfVars, sdVars, rpVars>>

FilesInit == SfInit /\ SdInit /\ RpInit

Idle == sfpc = "idle" /\ sdpc = "idle" /\ rppc = "idle"

\* eio_execute calls one of the three.
Execute ==
    /\ Idle
    /\ \/ SfStart /\ UNCHANGED <<sdVars, rpVars>>
       \/ ScandirOpen /\ UNCHANGED <<sfVars, rpVars>>
       \/ RealpathStart /\ UNCHANGED <<sfVars, sdVars>>

\* The function that was called goes on.
Work ==
    \/ SfStep /\ UNCHANGED <<sdVars, rpVars>>
    \/ SdStep /\ UNCHANGED <<sfVars, rpVars>>
    \/ RpStep /\ UNCHANGED <<sfVars, sdVars>>

\* The request is finished.
Finish ==
    \/ SfEnd /\ UNCHANGED <<sdVars, rpVars>>
    \/ SdEnd /\ UNCHANGED <<sfVars, rpVars>>
    \/ RpEnd /\ UNCHANGED <<sfVars, sdVars>>

Cancel == SdCancel /\ UNCHANGED <<sfVars, rpVars>>

FilesNext == Execute \/ Work \/ Finish \/ Cancel

\* Every system call returns, directories are finite, and the worker goes on.
FilesSpec ==
    /\ FilesInit /\ [][FilesNext]_fileVars
    /\ WF_fileVars(SfStep /\ UNCHANGED <<sdVars, rpVars>>)
    /\ WF_fileVars(SdStep /\ UNCHANGED <<sfVars, rpVars>>)
    /\ WF_fileVars(RpStep /\ UNCHANGED <<sfVars, sdVars>>)

Executing ==
    \/ sfpc \in {"send", "pread", "write"}
    \/ sdpc \notin {"idle", "segv", "done"}
    \/ rppc = "walk"

\* The worker comes to the end of a request: sendfile through short calls,
\* eio__scandir through its loops that double the buffer of names and that
\* divide and sort the entries, and realpath also on links that form a loop or
\* grow.
RequestEnds == Executing ~> ~Executing
=============================================================================
