----------------------------- MODULE HookAdapters -----------------------------
(***************************************************************************)
(* The hooks of one AI application (adapters.py): its settings file, which *)
(* the user and the application write too, is loaded, changed and replaced,*)
(* and copied once to a backup before that.  The user may save the file,   *)
(* and the command may be killed, between any two steps.                   *)
(*                                                                         *)
(* user is the number of the user's save that the file holds and stands    *)
(* for all that is not EdgeDisco's, 0 for a file the user never saved;     *)
(* bare says that no hook among it is the user's.  A managed hook is its   *)
(* event and the configuration it names.                                   *)
(***************************************************************************)
EXTENDS Naturals

CONSTANTS
    Event,     \* events the application has, in this version or an earlier one
    Wanted,    \* events this version hooks
    Config,    \* configuration paths
    MaxSaves   \* bound on the user's saves

ASSUME HooksAssumption == Wanted \subseteq Event /\ MaxSaves \in Nat

VARIABLES
    own,      \* a file of EdgeDisco's own (GitHub Copilot): deleted without hooks
    file,     \* the settings, or Absent; not ok when not a JSON object
    backup,   \* .edgedisco.bak, or Absent, or Torn: cut short
    step,     \* "idle", "backup", "replace" or "unlink"
    draft,    \* the settings loaded and changed
    saves,    \* saves of the user so far
    first,    \* history: the file as EdgeDisco first replaced it, or Unwritten
    plain,    \* history: the user's last save has no hooks of the user's
    race      \* history: that save and the commands: "none"; "open", it was made under
              \* the command under way; "lost", that command has replaced the file

histories == <<first, plain, race>>
hookFile == <<own, file, backup, step, draft, saves, histories>>

Hook == Event \X Config
Settings == [user : Nat, bare : BOOLEAN, hooks : SUBSET Hook, ok : BOOLEAN]
Absent == [user |-> 0, bare |-> TRUE, hooks |-> {}]
Torn == [user |-> 1, bare |-> TRUE, hooks |-> {}]
Unwritten == [user |-> 2, bare |-> TRUE, hooks |-> {}]

HooksTypeOK ==
    /\ own \in BOOLEAN
    /\ file \in Settings \cup {Absent}
    /\ backup \in Settings \cup {Absent, Torn}
    /\ step \in {"idle", "backup", "replace", "unlink"}
    /\ draft \in Settings \cup {Absent}
    /\ saves \in Nat
    /\ first \in Settings \cup {Absent, Unwritten}
    /\ plain \in BOOLEAN /\ race \in {"none", "open", "lost"}

\* An earlier version may have left hooks for events of its own.
HooksInit ==
    /\ own \in BOOLEAN
    /\ \/ file = Absent
       \/ \E e \in {{}, Event}, c \in Config :
            file = [user |-> 0, bare |-> TRUE, hooks |-> e \X {c}, ok |-> TRUE]
    /\ backup = Absent /\ step = "idle" /\ draft = Absent
    /\ saves = 0 /\ first = Unwritten /\ plain = TRUE /\ race = "none"

Load(changed, next) ==
    /\ step = "idle" /\ (file # Absent => file.ok)
    /\ draft' = changed
    /\ step' = next
    /\ UNCHANGED <<own, file, backup, saves, histories>>

\* The settings with these managed hooks.
Changed(hooks) == [user |-> file.user, bare |-> file.bare, hooks |-> hooks, ok |-> TRUE]

\* install_*: one hook for each event, whatever configuration an older one named.
\* A file that is not a JSON object raises.  For Claude Code, groups of the user's
\* without a hook in them go: they do nothing and are not part of what user stands for.
Install(c) ==
    Load(Changed({h \in file.hooks : h[1] \notin Wanted} \cup (Wanted \X {c})), "backup")

\* uninstall_adapters: every managed hook, of whatever event and configuration.
Uninstall ==
    /\ file.hooks # {}
    /\ Load(Changed({}), IF own /\ file.bare THEN "unlink" ELSE "backup")

\* Mutant: the backup is renewed.
BackupAgain ==
    /\ step = "backup" /\ step' = "replace"
    /\ backup' = file
    /\ UNCHANGED <<own, file, draft, saves, histories>>
\* _write: what the file has now is kept, the first time.
Backup ==
    /\ step = "backup" /\ step' = "replace"
    /\ backup' = IF backup = Absent THEN file ELSE backup
    /\ UNCHANGED <<own, file, draft, saves, histories>>

\* The histories when the file is replaced.  A file that the user made after the
\* command looked for one to keep is none that it found.
Overwrites ==
    LET found == IF race = "open" /\ backup = Absent THEN Absent ELSE file
    IN /\ first' = IF first = Unwritten THEN found ELSE first
       /\ race' = IF race = "open" THEN "lost" ELSE race
       /\ UNCHANGED plain

Replace ==
    /\ step = "replace" /\ step' = "idle"
    /\ file' = draft /\ draft' = Absent
    /\ Overwrites
    /\ UNCHANGED <<own, backup, saves>>

Delete ==
    /\ step = "unlink" /\ step' = "idle"
    /\ file' = Absent /\ draft' = Absent
    /\ Overwrites
    /\ UNCHANGED <<own, backup, saves>>

\* The command is killed; a backup that is being written is cut short for good.
KillCommand ==
    /\ step # "idle" /\ step' = "idle"
    /\ draft' = Absent
    /\ \/ UNCHANGED backup
       \/ step = "backup" /\ backup = Absent /\ file # Absent /\ backup' = Torn
    /\ race' = IF race = "open" THEN "none" ELSE race
    /\ UNCHANGED <<own, file, saves, first, plain>>

\* The user saves the file, with hooks of their own or without, or with an error in it.
Save ==
    /\ saves < MaxSaves
    /\ saves' = saves + 1
    /\ plain' \in BOOLEAN
    /\ \E ok \in BOOLEAN :
         file' = [user |-> saves', bare |-> plain', hooks |-> file.hooks, ok |-> ok]
    /\ race' = IF step = "idle" THEN "none" ELSE "open"
    /\ UNCHANGED <<own, backup, step, draft, first>>

HooksNext ==
    \/ \E c \in Config : Install(c)
    \/ Uninstall \/ Backup \/ Replace \/ Delete \/ KillCommand \/ Save

HooksSpec == HooksInit /\ [][HooksNext]_hookFile

-----------------------------------------------------------------------------
(* Properties. *)

\* The file holds the user's last save, however often hooks are installed and
\* removed and commands killed, in all cases but two: the save was made between load
\* and replace of a command that was not killed then, or the file is EdgeDisco's own
\* and the save put no hooks in it.  A later save is kept again.  And the backup, where
\* there was a file to keep and writing it was not cut short, has the managed hooks that
\* EdgeDisco found, never its own, whatever the user saved meanwhile: it is made once,
\* before the first change (docs/runtime-adapters.md:16).
UserHooksKept ==
    /\ file.user = saves \/ race = "lost" \/ (own /\ plain)
    /\ first \notin {Unwritten, Absent} /\ ~own =>
         backup = Torn \/ (backup # Absent /\ backup.hooks = first.hooks)

=============================================================================
