---------------------------- MODULE UpdateNotice ----------------------------
(***************************************************************************)
(* What the update notification promises, apart from how releases are      *)
(* looked up: it names a release that is out for this platform and newer   *)
(* than the running version, and once dismissed it stays away until a      *)
(* release above the dismissed one is out.  The one exception: a settings  *)
(* page that was open when it was dismissed puts the dismissal in force    *)
(* when the page opened back, if it is applied.                            *)
(***************************************************************************)
CONSTANTS None, Newer(_, _)    \* Newer(a, b): version a is above version b

VARIABLES
  out,        \* versions released for this platform
  running,    \* the version that runs
  shown,      \* the version the notification names, None without one
  dismissed,  \* the version dismissed last, None before the first
  opened      \* <<the version dismissed last when the open settings page
              \* opened>>, <<>> when none is open

vars == <<out, running, shown, dismissed, opened>>

\* v may be shown to a user of version run who dismissed d.
May(v, run, d, avail) ==
  v \in avail /\ Newer(v, run) /\ (d = None \/ Newer(v, d))

Init == shown = None /\ dismissed = None /\ opened = <<>>

\* More versions come out.
Release == out \subseteq out' /\ UNCHANGED <<running, shown, dismissed, opened>>

Show == /\ shown' # shown
        /\ shown' = None \/ May(shown', running, dismissed, out)
        /\ UNCHANGED <<out, running, dismissed, opened>>

Dismiss == /\ shown # None
           /\ dismissed' = shown
           /\ shown' = None
           /\ UNCHANGED <<out, running, opened>>

\* A settings page opens.
Open == /\ opened' = <<dismissed>>
        /\ UNCHANGED <<out, running, shown, dismissed>>

\* The open page is applied, and puts the dismissal it opened with back.
Apply == /\ opened # <<>>
         /\ dismissed' = opened[1]
         /\ shown' = None \/ May(shown', running, dismissed', out)
         /\ UNCHANGED <<out, running, opened>>

\* The program starts, perhaps in another version; what was dismissed stays
\* dismissed, and no page is open.
Restart == /\ shown' = None \/ May(shown', running', dismissed, out)
           /\ opened' = <<>>
           /\ UNCHANGED <<out, dismissed>>

Next == Release \/ Show \/ Dismiss \/ Open \/ Apply \/ Restart

Spec == Init /\ [][Next]_vars
=============================================================================
