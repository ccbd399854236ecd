------------------------------- MODULE MCHost -------------------------------
(***************************************************************************)
(* Small instances of the extensions that share a host and no state of     *)
(* their own: the background runs of pi-agents, the remote of pi-remote,   *)
(* the diagnostics of pi-lsp, and what follows an edit.  A behaviour is    *)
(* one of "system"; the others stay in their first state, so that their    *)
(* states add up and do not multiply.  Of what follows an edit there are   *)
(* two instances: two edits and a call of the format tool with the         *)
(* switches at rest, and one edit while the switches are turned.           *)
(***************************************************************************)
EXTENDS Background, Remote, Diagnostics, EditHooks, TLC

VARIABLE system

hostSystemVars == <<system, backgroundVars, remoteVars, diagnosticsVars, hookVars>>

CONSTANTS a, b, f, g, worse, better, d1, e1, e2, k1, k2

MCWatches == {<<a, f>>, <<b, f>>, <<a, g>>}
MCSeverity == (worse :> 1) @@ (better :> 2)
MCFormatters == <<"prettier">>

HostInit ==
    /\ system \in {"background", "remote", "diagnostics", "hooks", "switches"}
    /\ BackgroundInit /\ RemoteInit /\ DiagnosticsInit /\ HooksInit
    /\ system # "background" => kept = {} /\ lane = [c \in Calls |-> "foreground"]
    /\ system # "remote" => dir = [c \in Connects |-> d1]
    /\ system \notin {"hooks", "switches"} => first = "format" /\ config = Defaults

(* With the switches only the first edit takes place.                      *)
FirstEdit == \A c \in (Edits \cup Formats) \ {e1} : at'[c] = "new"

HostNext ==
    /\ UNCHANGED system
    /\ \/ /\ system = "background" /\ BackgroundNext
          /\ UNCHANGED <<remoteVars, diagnosticsVars, hookVars>>
       \/ /\ system = "remote" /\ RemoteNext
          /\ UNCHANGED <<backgroundVars, diagnosticsVars, hookVars>>
       \/ /\ system = "diagnostics" /\ DiagnosticsNext
          /\ UNCHANGED <<backgroundVars, remoteVars, hookVars>>
       \/ /\ system = "hooks" /\ UNCHANGED switchVars /\ HooksNext
          /\ UNCHANGED <<backgroundVars, remoteVars, diagnosticsVars>>
       \/ /\ system = "switches" /\ HooksNext /\ FirstEdit
          /\ UNCHANGED <<backgroundVars, remoteVars, diagnosticsVars>>

Served == CASE system = "hooks" -> Edits \cup Formats
            [] system = "switches" -> {e1}
            [] OTHER -> {}

(* The fairness of each, where it is the one at work.                      *)
HostFair ==
    /\ WF_backgroundVars(system = "background" /\ RunsGoOn)
    /\ WF_remoteVars(system = "remote" /\ RemoteGoesOn)
    /\ WF_hookVars(HooksGoOn(Served))

HostSpec == HostInit /\ [][HostNext]_hostSystemVars /\ HostFair

(* The shutdown, the n-th connect or the n-th edit: it goes on, and ends.  *)
ConnectN == <<k1, k2>>
EditN == <<e1, e2>>
GoesOn(n) == \/ system = "background" /\ host = "cancelled"
             \/ system = "remote" /\ conn[ConnectN[n]] = "creating"
             \/ system \in {"hooks", "switches"} /\ at[EditN[n]] # "new"
Ends(n) == \/ system = "background" /\ (host = "idle" \/ late # {})
           \/ system = "remote" /\ conn[ConnectN[n]] \in {"done", "failed"}
           \/ system \in {"hooks", "switches"} /\ Ended(EditN[n])

(* The shutdown drains, calls of the remote and hooks return, and a        *)
(* formatter that is off is not begun: Drains, RemoteReturns, HooksEnd and *)
(* OffIsOff, of whichever extension is at work.                            *)
HostSettles ==
    /\ OffIsOff
    /\ \A n \in 1..2 : GoesOn(n) ~> Ends(n)
    /\ session \in Connects ~> session = "ended"
=============================================================================
