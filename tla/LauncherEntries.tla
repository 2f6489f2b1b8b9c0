--------------------------- MODULE LauncherEntries ---------------------------
(***************************************************************************)
(* The two .desktop entries of an AppImage install (Autostart, MenuEntry)  *)
(* and the stable copy they launch (standalone/desktop_entry.cpp).         *)
(*                                                                         *)
(* Two threads of one process work on the same three files: the GUI        *)
(* thread, in the constructors and in setEnabled(), and the detached       *)
(* worker that ensureStableCopyAsync() starts.  Each runs a sequence of    *)
(* steps, one per access to the files; a step may put others in front of   *)
(* the rest.  The files outlive the process, the steps do not.             *)
(***************************************************************************)
EXTENDS Naturals, Sequences

CONSTANTS
    Builds,      \* the AppImages that can be downloaded, at a path of their own
    Worlds,      \* [racing, untick : BOOLEAN, faults]: see below
    MaxLaunches, \* bound: launches of the program
    MaxToggles,  \* bound: clicks on the two check boxes
    Stable,      \* stableExecPath(), the path of the copy
    Off,         \* no such .desktop entry
    NoFile,      \* no such AppImage
    NoProcess    \* the program does not run

ASSUME LauncherEntriesAssumption ==
    /\ MaxLaunches \in Nat /\ MaxToggles \in Nat
    /\ {Stable, Off, NoFile, NoProcess} \cap Builds = {}
    /\ Stable \notin {Off, NoProcess}
    \* racing: the GUI thread may run while the worker updates the entries, and
    \* a copy may land between two steps of the GUI thread.
    \* untick: the last entry may be turned off in a session run from the copy.
    /\ Worlds \subseteq
         [racing : BOOLEAN, untick : BOOLEAN,
          faults : SUBSET {"kill", "copyFails", "writeFails"}]

VARIABLES
    world,      \* the world of this behaviour, fixed by Init
    downloads,  \* the builds whose downloaded file is there
    copy,       \* the build the stable copy holds
    entry,      \* what the Exec= line of each entry launches
    path,       \* the file the running process was started from ($APPIMAGE)
    build,      \* and the build it runs
    todo,       \* the steps each thread still has to take
    text,       \* the Exec= target each thread has rendered last
    wanted,     \* the entries the user's last click left enabled
    launches,   \* launches so far
    toggles     \* clicks so far

vars == <<world, downloads, copy, entry, path, build, todo, text, wanted,
          launches, toggles>>

Entries == {"autostart", "menu"}
Thread  == {"gui", "worker"}
Targets == Builds \cup {Stable}

Step ==
    ({"start", "render", "look", "write", "remove"} \X Entries)
    \cup ({"ensure", "orphan", "unlink", "copy", "done"} \X {"both"})

TypeOK ==
    /\ world \in Worlds
    /\ downloads \subseteq Builds
    /\ copy \in Builds \cup {NoFile}
    /\ entry \in [Entries -> Targets \cup {Off}]
    /\ path \in Targets \cup {NoProcess}
    /\ build \in Builds \cup {NoProcess}
    /\ todo \in [Thread -> Seq(Step)]
    /\ text \in [Thread -> Targets \cup {Off}]
    /\ wanted \subseteq Entries
    /\ launches \in 0 .. MaxLaunches
    /\ toggles \in 0 .. MaxToggles

Faulty(f) == f \in world.faults

Enabled == {e \in Entries : entry[e] # Off}

\* refreshIfStale(e), the rendering of its argument included.
Refresh(e) == << <<"render", e>>, <<"look", e>> >>

\* The constructors of Autostart and of MenuEntry, in the order of the dialog.
Startup ==
    << <<"start", "autostart">> >> \o Refresh("autostart")
    \o << <<"start", "menu">> >> \o Refresh("menu")

\* setEnabled(e, true) and setEnabled(e, false).
TurnOn(e)  == << <<"ensure", "both">>, <<"render", e>>, <<"write", e>> >>
TurnOff(e) == << <<"remove", e>>, <<"orphan", "both">> >>

\* inFlight.store(false): until then no other worker starts.
Done == << <<"done", "both">> >>

\* Faulty variant: the worker leaves the orphan check to the GUI.
Landed_NoOrphanCheck == Refresh("autostart") \o Refresh("menu") \o Done

\* Faulty variant: the worker leaves the entries to the next launch.
Landed_NoRefresh == << <<"orphan", "both">> >> \o Done

\* What the worker does once the copy is in place.
Landed ==
    Refresh("autostart") \o Refresh("menu") \o << <<"orphan", "both">> >> \o Done

Init ==
    /\ world \in Worlds
    /\ downloads \in SUBSET Builds
    /\ copy = NoFile
    /\ entry = [e \in Entries |-> Off]
    /\ path = NoProcess
    /\ build = NoProcess
    /\ todo = [t \in Thread |-> << >>]
    /\ text = [t \in Thread |-> Off]
    /\ wanted = {}
    /\ launches = 0
    /\ toggles = 0

-----------------------------------------------------------------------------
(***************************************************************************)
(* The user and the session.                                               *)
(***************************************************************************)

\* Upgrades and cleaned-up download folders.  The file a session runs from may
\* be deleted, but does not come back before the session ends: a copy that failed
\* for want of it is only made again by the next click or launch.
Download(b) ==
    /\ downloads' \in {downloads \cup {b}, downloads \ {b}}
    /\ downloads' # downloads
    /\ path = b => b \in downloads
    /\ UNCHANGED <<world, copy, entry, path, build, todo, text, wanted,
                   launches, toggles>>

\* Started by a click on a download, or by an entry that launches the copy.
Launch(b, p) ==
    /\ path = NoProcess
    /\ launches < MaxLaunches
    /\ \/ p = b /\ b \in downloads
       \/ p = Stable /\ b = copy /\ \E e \in Entries : entry[e] = Stable
    /\ path' = p
    /\ build' = b
    /\ todo' = [todo EXCEPT !["gui"] = Startup]
    /\ launches' = launches + 1
    /\ UNCHANGED <<world, downloads, copy, entry, text, wanted, toggles>>

\* In a calm world what follows the landing of a copy takes no time for the
\* user, and a step of the GUI thread takes none for the copy.
Turn(t) ==
    \/ world.racing
    \/ t = "gui" /\ todo["worker"] \in {<< >>, << <<"copy", "both">> >>}
    \/ t = "worker" /\ todo["gui"] = << >>

\* A click on one of the check boxes; without effect on the entry's state the
\* early return of setEnabled() leaves everything alone.
Toggle(e) ==
    /\ path # NoProcess
    /\ todo["gui"] = << >>
    /\ Turn("gui")
    /\ toggles < MaxToggles
    /\ path = Stable /\ Enabled = {e} => world.untick
    /\ todo' = [todo EXCEPT !["gui"] = IF e \in Enabled THEN TurnOff(e) ELSE TurnOn(e)]
    /\ wanted' = IF e \in Enabled THEN wanted \ {e} ELSE wanted \cup {e}
    /\ toggles' = toggles + 1
    /\ UNCHANGED <<world, downloads, copy, entry, path, build, text, launches>>

\* The process ends, and the detached worker with it: after its work, or at
\* any step where sessions get killed.
End ==
    /\ path # NoProcess
    /\ Faulty("kill") \/ \A t \in Thread : todo[t] = << >>
    /\ path' = NoProcess
    /\ build' = NoProcess
    /\ todo' = [t \in Thread |-> << >>]
    /\ text' = [t \in Thread |-> Off]
    /\ UNCHANGED <<world, downloads, copy, entry, wanted, launches, toggles>>

-----------------------------------------------------------------------------
(***************************************************************************)
(* The steps.                                                              *)
(***************************************************************************)

\* Thread t takes its next step, s, and has `more` to do before the rest.
Does(t, s, more) ==
    /\ todo[t] # << >>
    /\ Turn(t)
    /\ Head(todo[t]) = s
    /\ todo' = [todo EXCEPT ![t] = more \o Tail(@)]

\* Faulty variant: what the copy holds is not compared.
StableCopyStale_IfMissing == copy = NoFile

\* stableCopyStale(): a process run from the copy looks for it at its own path.
StableCopyStale == IF path = Stable THEN copy = NoFile ELSE copy # build

\* ensureStableCopyAsync(): one worker at a time, and only for a stale copy.
Start(t, more) ==
    IF StableCopyStale /\ todo["worker"] = << >>
    THEN [todo EXCEPT ![t] = Tail(@), !["worker"] = << <<"copy", "both">> >>]
    ELSE [todo EXCEPT ![t] = Tail(@)]

Ensure ==
    LET t == "gui" IN
    /\ todo[t] # << >>
    /\ Turn(t)
    /\ \/ /\ Head(todo[t]) = <<"ensure", "both">>
          /\ todo' = Start(t, << >>)
       \/ \E e \in Entries :
            /\ Head(todo[t]) = <<"start", e>>
            /\ todo' = IF e \in Enabled THEN Start(t, << >>)
                       ELSE [todo EXCEPT ![t] = Tail(@)]
    /\ UNCHANGED <<world, downloads, copy, entry, path, build, text, wanted,
                   launches, toggles>>

\* Faulty variant: the entries name the copy whether or not it is there.
ExecTarget_Always == Stable

\* execLine(): the copy if there is one.
ExecTarget == IF copy # NoFile THEN Stable ELSE path

RenderEntry(t, e) ==
    /\ Does(t, <<"render", e>>, << >>)
    /\ text' = [text EXCEPT ![t] = ExecTarget]
    /\ UNCHANGED <<world, downloads, copy, entry, path, build, wanted,
                   launches, toggles>>

\* Faulty variant: a missing entry counts as stale.
Look_Blind(t, e) ==
    /\ Does(t, <<"look", e>>, IF entry[e] # text[t] THEN << <<"write", e>> >> ELSE << >>)
    /\ UNCHANGED <<world, downloads, copy, entry, path, build, text, wanted,
                   launches, toggles>>

\* refreshIfStale(): an entry that exists and reads differently is rewritten.
Look(t, e) ==
    /\ Does(t, <<"look", e>>,
            IF entry[e] \notin {Off, text[t]} THEN << <<"write", e>> >> ELSE << >>)
    /\ UNCHANGED <<world, downloads, copy, entry, path, build, text, wanted,
                   launches, toggles>>

\* writeDesktopFile() commits the whole file or leaves it alone.
WriteEntry(t, e) ==
    /\ Does(t, <<"write", e>>, << >>)
    /\ \/ entry' = [entry EXCEPT ![e] = text[t]]
       \/ Faulty("writeFails") /\ UNCHANGED entry
    /\ UNCHANGED <<world, downloads, copy, path, build, text, wanted,
                   launches, toggles>>

RemoveEntry(t, e) ==
    /\ Does(t, <<"remove", e>>, << >>)
    /\ entry' = [entry EXCEPT ![e] = Off]
    /\ UNCHANGED <<world, downloads, copy, path, build, text, wanted,
                   launches, toggles>>

\* removeStableCopyIfOrphaned() looks for the entries ...
Orphan(t) ==
    /\ Does(t, <<"orphan", "both">>,
            IF Enabled = {} THEN << <<"unlink", "both">> >> ELSE << >>)
    /\ UNCHANGED <<world, downloads, copy, entry, path, build, text, wanted,
                   launches, toggles>>

\* ... and removes the copy.
Unlink(t) ==
    /\ Does(t, <<"unlink", "both">>, << >>)
    /\ copy' = NoFile
    /\ UNCHANGED <<world, downloads, entry, path, build, text, wanted,
                   launches, toggles>>

\* writeStableCopy() puts the source in the place of the copy with rename(), or
\* keeps what is there; it fails when the source is gone.
CopyStep ==
    /\ \/ /\ path \in downloads
          /\ Does("worker", <<"copy", "both">>, Landed)
          /\ copy' = build
       \/ /\ Faulty("copyFails") \/ path \notin downloads
          /\ Does("worker", <<"copy", "both">>, Done)
          /\ UNCHANGED copy
    /\ UNCHANGED <<world, downloads, entry, path, build, text, wanted,
                   launches, toggles>>

Finish(t) ==
    /\ Does(t, <<"done", "both">>, << >>)
    /\ UNCHANGED <<world, downloads, copy, entry, path, build, text, wanted,
                   launches, toggles>>

-----------------------------------------------------------------------------

ThreadStep(t) ==
    \/ Finish(t)
    \/ Orphan(t)
    \/ Unlink(t)
    \/ \E e \in Entries :
         RenderEntry(t, e) \/ Look(t, e) \/ WriteEntry(t, e) \/ RemoveEntry(t, e)

Next ==
    \/ \E b \in Builds : Download(b)
    \/ \E b \in Builds, p \in Targets : Launch(b, p)
    \/ \E e \in Entries : Toggle(e)
    \/ End
    \/ Ensure
    \/ CopyStep
    \/ \E t \in Thread : ThreadStep(t)

Spec == Init /\ [][Next]_vars

-----------------------------------------------------------------------------
(***************************************************************************)
(* What the entries are for.                                               *)
(***************************************************************************)

Idle == \A t \in Thread : todo[t] = << >>

\* In the calm worlds an entry that launches the copy finds one, at every step
\* of every thread and after any kill: the copy is in place before an entry
\* names it and goes only after both entries have gone ("it always exists, so
\* login always starts SOME install", desktop_entry.h:41).  The one way to an
\* entry without its copy is to turn the last entry off in a session run from
\* the copy, which goes while the session runs, and one on again; and the first
\* session of a download to come to rest has mended that.
NoDangling ==
    ~world.racing =>
        \A e \in Entries :
            entry[e] = Stable /\ copy = NoFile =>
                /\ world.untick
                /\ Idle => path \in {Stable, NoProcess} \/ Faulty("writeFails")

\* Whatever fails, is upgraded, deleted or killed, a session that has come to
\* rest has pointed its enabled entries at the best there is: the copy, or the
\* running file when there is no copy (#126, #136).
EntriesHealed ==
    /\ ~world.racing
    /\ Idle /\ path # NoProcess
    /\ ~Faulty("writeFails")
    => \A e \in Enabled : entry[e] = IF copy # NoFile THEN Stable ELSE path

\* A session that has come to rest leaves its own build behind the entries, so
\* the next login runs what was launched last (desktop_entry.h:40-42).
CopyIsCurrent ==
    /\ ~world.racing
    /\ Idle /\ path # NoProcess /\ Enabled # {}
    /\ path \in downloads \cup {Stable}
    /\ ~Faulty("copyFails") /\ ~world.untick
    => copy = build

\* With both entries off no copy stays behind: the disable and the worker each
\* check, so that neither order of the two leaks it, whatever they interleave.
NoLeak ==
    Idle /\ ~Faulty("kill") /\ Enabled = {} => copy = NoFile

\* A session that has come to rest has lost no entry that the last click on it
\* left enabled, however its clicks and a landing copy overlap; and where they
\* do not overlap it keeps none that the click turned off.  In a racing world the
\* worker may write an entry that was turned off since refreshIfStale() found it
\* (desktop_entry.cpp:320-332): that revival is not excluded here.
ToggleObeyed ==
    Idle /\ ~Faulty("writeFails") /\ ~Faulty("kill") =>
        /\ wanted \subseteq Enabled
        /\ ~world.racing => Enabled \subseteq wanted

=============================================================================
