------------------------------ MODULE BuildLink ------------------------------
(***************************************************************************)
(* /build, the root-level link to build-data that Immich's plugin paths     *)
(* need.  macOS makes such links from synthetic files under /etc, at boot   *)
(* or when asked to: from a file of ours in /etc/synthetic.d, and from      *)
(* /etc/synthetic.conf, where releases before 1.3.3 wrote.  Both may hold   *)
(* lines of other people, and both are rewritten whole, through sudo.       *)
(*                                                                         *)
(* A file is the set of its lines; a file without lines is not there.       *)
(* setup, start and uninstall run one at a time; a person may edit the      *)
(* files at any moment, and may interrupt a command that asks for a         *)
(* password.                                                               *)
(***************************************************************************)
EXTENDS Naturals

CONSTANTS
  Foreign,      \* lines that are not ours
  MaxEdits,     \* bound: edits by hand
  MaxFaults     \* bound: sudo commands that fail and commands that are interrupted

Assumption == "build" \notin Foreign /\ {MaxEdits, MaxFaults} \subseteq Nat

Lines == Foreign \cup {"build"}

VARIABLES
  conf,        \* SYNTHETIC_CONF
  legacy,      \* LEGACY_SYNTHETIC_CONF
  searchable,  \* /etc/synthetic.d may be searched without being root
  link,        \* /build: "none", "ours", or "other" than our build-data
  step,        \* where the command is
  content,     \* what it has read of the file it is to rewrite
  kept,        \* history: the lines that file held then, if they could be read at all
  clean,       \* history: nothing went wrong in this uninstall
  undone,      \* history: the entry was taken out by hand or by uninstall
  edits, faults

vars == <<conf, legacy, searchable, link, step, content, kept, clean, undone, edits, faults>>

Steps == {"idle", "migrate", "tee", "shed", "ask", "dir", "write", "activate",
          "strip", "legacy", "rid"}

TypeOK ==
  /\ conf \subseteq Lines /\ legacy \subseteq Lines
  /\ searchable \in BOOLEAN /\ link \in {"none", "ours", "other"}
  /\ step \in Steps
  /\ content \subseteq Lines /\ kept \subseteq Lines
  /\ step \in {"tee", "shed"} => "build" \in content
  /\ step \in {"dir", "write"} => "build" \notin content
  /\ clean \in BOOLEAN /\ undone \in BOOLEAN
  /\ edits \in 0..MaxEdits /\ faults \in 0..MaxFaults

Fault   == faults > 0 /\ faults' = faults - 1
NoFault == faults' = faults

\* A sudo command that works, and takes the command on to its next step, or does not.
Sudo(change, next, otherwise, unchanged) ==
  \/ change /\ step' = next /\ NoFault
  \/ unchanged /\ step' = otherwise /\ Fault

HasBuildEntry(lines)   == "build" \in lines
StripBuildEntry(lines) == lines \ {"build"}

Configured == HasBuildEntry(conf) \/ HasBuildEntry(legacy)

\* Mutant of ReadSyntheticConf: the plain read alone.
ReadWithoutSudo(sudo) == IF searchable THEN conf ELSE {}

\* Without root where the directory lets us, else through sudo, which may be refused.
ReadSyntheticConf(sudo) == IF searchable \/ sudo THEN conf ELSE {}

Reading(sudo) ==
  /\ content' = ReadSyntheticConf(sudo)
  /\ kept' = IF searchable \/ sudo THEN conf ELSE {}
  /\ IF sudo THEN NoFault ELSE Fault

-----------------------------------------------------------------------------
(* _ensure_build_link, of setup and of a start at a terminal. *)

\* The link is there, and its entry is still in the shared file.
EnsureMigrates ==
  /\ step = "idle" /\ link = "ours" /\ searchable
  /\ conf = {} /\ HasBuildEntry(legacy)
  /\ step' = "migrate" /\ content' = legacy /\ kept' = legacy
  /\ UNCHANGED <<conf, legacy, searchable, link, clean, undone, edits, faults>>

\* The link is not there, and as far as can be seen without root nobody asked for it.
EnsureAsks ==
  /\ step = "idle" /\ link = "none"
  /\ ~HasBuildEntry(IF searchable THEN conf ELSE {})
  /\ step' = "ask"
  /\ UNCHANGED <<conf, legacy, searchable, link, content, kept, clean, undone, edits, faults>>

MigrateDir ==
  /\ step = "migrate"
  /\ Sudo(searchable' = TRUE, "tee", "idle", UNCHANGED searchable)
  /\ UNCHANGED <<conf, legacy, link, content, kept, clean, undone, edits>>

\* The new file first.
MigrateTee ==
  /\ step = "tee"
  /\ Sudo(conf' = {"build"}, "shed", "idle", UNCHANGED conf)
  /\ UNCHANGED <<legacy, searchable, link, content, kept, clean, undone, edits>>

MigrateShed ==
  /\ step = "shed"
  /\ Sudo(legacy' = StripBuildEntry(content), "idle", "idle", UNCHANGED legacy)
  /\ UNCHANGED <<conf, searchable, link, content, kept, clean, undone, edits>>

\* The answer is yes; the file is read again, now with sudo if need be.
Agreed ==
  /\ step = "ask"
  /\ \E sudo \in BOOLEAN : Reading(sudo)
  /\ step' = IF HasBuildEntry(content') THEN "idle" ELSE "dir"
  /\ UNCHANGED <<conf, legacy, searchable, link, clean, undone, edits>>

Declined ==
  /\ step = "ask" /\ step' = "idle"
  /\ UNCHANGED <<conf, legacy, searchable, link, content, kept, clean, undone, edits, faults>>

MakeDir ==
  /\ step = "dir"
  /\ Sudo(searchable' = TRUE, "write", "idle", UNCHANGED searchable)
  /\ UNCHANGED <<conf, legacy, link, content, kept, clean, undone, edits>>

WriteConf ==
  /\ step = "write"
  /\ Sudo(conf' = content \cup {"build"} /\ undone' = FALSE, "activate", "idle",
          UNCHANGED <<conf, undone>>)
  /\ UNCHANGED <<legacy, searchable, link, content, kept, clean, edits>>

\* apfs.util -t; where it does nothing, the next boot does.
Activate ==
  /\ step = "activate" /\ step' = "idle"
  /\ link' \in {link, IF Configured /\ link = "none" THEN "ours" ELSE link}
  /\ UNCHANGED <<conf, legacy, searchable, content, kept, clean, undone, edits, faults>>

-----------------------------------------------------------------------------
(* _remove_build_link, of uninstall. *)

Uninstall ==
  /\ step = "idle"
  /\ \E sudo \in BOOLEAN : Reading(sudo)
  /\ clean' = (faults' = faults)
  /\ step' = "strip"
  /\ UNCHANGED <<conf, legacy, searchable, link, undone, edits>>

StripConf ==
  /\ step = "strip" /\ step' = "legacy"
  /\ \/ content = {} /\ NoFault /\ UNCHANGED <<conf, clean, undone>>
     \/ /\ content # {} /\ NoFault
        /\ conf' = StripBuildEntry(content) /\ undone' = TRUE /\ UNCHANGED clean
     \/ content # {} /\ Fault /\ clean' = FALSE /\ UNCHANGED <<conf, undone>>
  /\ UNCHANGED <<legacy, searchable, link, content, kept, edits>>

ReadLegacy ==
  /\ step = "legacy"
  /\ content' = legacy /\ kept' = legacy
  /\ step' = "rid"
  /\ UNCHANGED <<conf, legacy, searchable, link, clean, undone, edits, faults>>

StripLegacy ==
  /\ step = "rid" /\ step' = "idle"
  /\ \/ ~HasBuildEntry(content) /\ NoFault /\ UNCHANGED <<legacy, clean, undone>>
     \/ /\ HasBuildEntry(content) /\ NoFault
        /\ legacy' = StripBuildEntry(content) /\ undone' = TRUE /\ UNCHANGED clean
     \/ HasBuildEntry(content) /\ Fault /\ clean' = FALSE /\ UNCHANGED <<legacy, undone>>
  /\ UNCHANGED <<conf, searchable, link, content, kept, edits>>

-----------------------------------------------------------------------------
(* The world. *)

Interrupt ==
  /\ step # "idle" /\ step' = "idle" /\ Fault
  /\ UNCHANGED <<conf, legacy, searchable, link, content, kept, clean, undone, edits>>

\* Files made from the links at boot; a path of somebody else's stays what it is.
Boot ==
  /\ step' = "idle"
  /\ link' = IF link = "other" THEN link ELSE IF Configured THEN "ours" ELSE "none"
  /\ UNCHANGED <<conf, legacy, searchable, content, kept, clean, undone, edits, faults>>

\* A person adds or removes a line of theirs, takes ours out, or another program writes to
\* the shared file; a root umask of 027 leaves the directory unsearchable.
EditByHand ==
  /\ edits > 0 /\ edits' = edits - 1
  /\ \/ /\ \E l \in Foreign : conf' \in {conf \cup {l}, conf \ {l}}
        /\ UNCHANGED <<legacy, searchable, undone>>
     \/ /\ conf' = StripBuildEntry(conf) /\ undone' = TRUE /\ UNCHANGED <<legacy, searchable>>
     \/ /\ \E l \in Foreign : legacy' \in {legacy \cup {l}, legacy \ {l}}
        /\ UNCHANGED <<conf, searchable, undone>>
     \/ searchable' = FALSE /\ UNCHANGED <<conf, legacy, undone>>
  /\ UNCHANGED <<link, step, content, kept, clean, faults>>

\* A new Mac, one with the entry in either place, or with a /build of its own.
Init ==
  /\ conf \in SUBSET Lines /\ legacy \in SUBSET Lines
  /\ searchable \in BOOLEAN
  /\ link \in IF Configured THEN {"ours", "none"} ELSE {"none", "other"}
  /\ step = "idle" /\ content = {} /\ kept = {}
  /\ clean = FALSE /\ undone = FALSE
  /\ edits = MaxEdits /\ faults = MaxFaults

Next ==
  \/ EnsureMigrates \/ EnsureAsks \/ MigrateDir \/ MigrateTee \/ MigrateShed
  \/ Agreed \/ Declined \/ MakeDir \/ WriteConf \/ Activate
  \/ Uninstall \/ StripConf \/ ReadLegacy \/ StripLegacy
  \/ Interrupt \/ Boot \/ EditByHand

Spec == Init /\ [][Next]_vars

-----------------------------------------------------------------------------
(* Properties *)

\* A rewrite keeps every line of somebody else that was in the file when it was read and is
\* still there, in a directory that only root may search too, wherever the reading was not
\* refused (issue #61).
ForeignKept ==
  /\ WriteConf \/ StripConf => StripBuildEntry(conf \cap kept) \subseteq conf'
  /\ MigrateShed \/ StripLegacy => StripBuildEntry(legacy \cap kept) \subseteq legacy'

\* Once the link is there it is there after every reboot, whatever sudo command of a
\* migration failed or was interrupted, until somebody takes the entry out.
LinkSurvivesReboot == Boot /\ link = "ours" => link' = "ours" \/ undone

\* An uninstall in which nothing failed leaves the entry in neither file, be it in both.
UninstallIsClean == StripLegacy /\ clean' => ~HasBuildEntry(conf') /\ ~HasBuildEntry(legacy')

\* No line of somebody else is lost; our entry, which two files may hold at one time or
\* another, stays until somebody takes it out, and then it is out of both.
EntriesKeptOrGone == [][ForeignKept /\ LinkSurvivesReboot /\ UninstallIsClean]_vars

=============================================================================
