---------------------------- MODULE Integration ----------------------------
(***************************************************************************)
(* Installation of an editor integration (Install in internal/integration):*)
(* the profile directory with the ssh and scp shims, and the editor's      *)
(* settings, whose remote.SSH.path names the shim.  Every install is a     *)
(* process of its own.  It reads the settings before it takes the lock,    *)
(* any of its steps may fail, those of its rollback too, it may be killed  *)
(* between any two of them, and the editor may save the settings at any    *)
(* time.                                                                   *)
(*                                                                         *)
(* The lock is that of internal/processlock, with its steps: an install    *)
(* that finds it empty or stale removes it, and may so remove that of one  *)
(* that lives.  Then several work on the profile at once.  Pids are not    *)
(* reused.                                                                 *)
(***************************************************************************)
EXTENDS Naturals, FiniteSets

CONSTANTS
  Installs,   \* runs of sshx integrate install
  Mortal,     \* those that may be killed
  MaxEdits,   \* how often the editor saves its settings
  None

VARIABLES
  pc,         \* how far each install is
  dead,       \* the installs that were killed
  lock,       \* the lock file: who created it, and the pid in it
  retried,    \* the installs that removed a lock file once
  settings,   \* settings.json
  profile,    \* the descriptor in the profile directory
  backup,     \* the directory each install moved out of the way
  original,   \* the settings each install has read
  found,      \* history: the profile that was there at that time
  staged,     \* the descriptor in its staging directory
  wrote,      \* settingsCommitted
  touched,    \* history: others changed settings or profile since its read
  botched,    \* history: a step of its rollback failed
  crowd,      \* history: installs that were under way when one of them removed
              \* the lock file of another, and those that began before they ended
  blamed,     \* history: installs that were killed with the profile away, or
              \* rolled back after others had written, or not completely
  edits

locking == <<lock, retried, crowd>>
files == <<settings, profile, backup>>
known == <<original, found, staged>>
past == <<wrote, touched, botched, blamed>>
vars == <<pc, dead, locking, files, known, past, edits>>

(***************************************************************************)
(* The values of remote.SSH.path: none, an ssh of the user's own, the shim *)
(* of another editor, or the shim; and path, the ssh that PATH leads to.   *)
(***************************************************************************)
Clients == {"own", "path"}
Values == {"none", "own", "other", "shim"}
Settings == [exists : BOOLEAN, ssh : Values, rest : 0..MaxEdits]
Descriptors == [ssh : Clients, previous : Values]
Locks == [by : Installs \cup {None}, pid : Installs \cup {None}]

ASSUME IntegrationAssumption ==
  /\ None \notin Installs \cup Descriptors \cup Locks
  /\ Mortal \subseteq Installs /\ MaxEdits \in Nat

Places ==
  {"start", "read", "inspect", "clear", "created", "locked", "staged", "checked", "away", "in",
   "written", "undo", "remove", "restore", "ok", "failed", "refused"}

Over == {"start", "ok", "failed", "refused"}
Active(i) == pc[i] \notin Over /\ i \notin dead

(***************************************************************************)
(* At first there is nothing, or what an earlier installation has left,    *)
(* and perhaps the lock file of a process that was killed.                 *)
(***************************************************************************)
Init ==
  /\ pc = [i \in Installs |-> "start"]
  /\ dead = {} /\ retried = {}
  /\ lock \in {None, [by |-> None, pid |-> None]}
  /\ settings \in [exists : BOOLEAN, ssh : Values, rest : {0}]
  /\ settings.exists <=> settings.ssh # "none"
  /\ profile \in {None, [ssh |-> "path", previous |-> "none"]}
  /\ settings.ssh = "shim" => profile # None
  /\ backup = [i \in Installs |-> None]
  /\ original = [i \in Installs |-> None]
  /\ found = [i \in Installs |-> None]
  /\ staged = [i \in Installs |-> None]
  /\ wrote = {} /\ touched = {} /\ botched = {} /\ crowd = {} /\ blamed = {} /\ edits = 0

-----------------------------------------------------------------------------
Live(i) == i \notin dead
Go(i, place) == pc' = [pc EXCEPT ![i] = place]

(***************************************************************************)
(* What a step of i changes, the others did not expect.                    *)
(***************************************************************************)
Disturb(i) ==
  touched' = IF settings' = settings /\ profile' = profile
             THEN touched ELSE touched \cup {j \in Installs \ {i} : Active(j)}

(***************************************************************************)
(* lock.Release is deferred and removes whatever file is there.            *)
(***************************************************************************)
Returns(i, place) == Go(i, place) /\ lock' = None /\ UNCHANGED retried

(***************************************************************************)
(* The profile is out of the way.                                          *)
(***************************************************************************)
Away(i) == pc[i] \in {"away", "undo", "remove", "restore"}

ReadSettings(i) ==
  /\ Live(i) /\ pc[i] = "start"
  /\ Go(i, "read")
  /\ original' = [original EXCEPT ![i] = settings]
  /\ found' = [found EXCEPT ![i] = profile]
  /\ crowd' = IF \E j \in crowd : Active(j) THEN crowd \cup {i} ELSE crowd
  /\ UNCHANGED <<dead, lock, retried, files, staged, past, edits>>

-----------------------------------------------------------------------------
(***************************************************************************)
(* processlock.Acquire: two attempts to create the file, empty at first.   *)
(* What is written reaches it only if it is still the one at the path.     *)
(***************************************************************************)
CreateLock(i) ==
  /\ Live(i) /\ pc[i] = "read"
  /\ \/ lock = None /\ Go(i, "created") /\ lock' = [by |-> i, pid |-> None]
     \/ lock # None /\ Go(i, "inspect") /\ UNCHANGED lock
     \/ Go(i, "refused") /\ UNCHANGED lock
  /\ UNCHANGED <<dead, retried, crowd, files, known, past, edits>>

CreatedBy(i) == lock # None /\ lock.by = i

WritePid(i) ==
  /\ Live(i) /\ pc[i] = "created"
  /\ \/ /\ Go(i, "locked")
        /\ lock' = IF CreatedBy(i) THEN [lock EXCEPT !.pid = i] ELSE lock
     \/ Go(i, "refused") /\ lock' = None
  /\ UNCHANGED <<dead, retried, crowd, files, known, past, edits>>

HeldByLiving == lock # None /\ \E j \in Installs : lock.pid = j /\ Active(j)

InspectLock(i) ==
  /\ Live(i) /\ pc[i] = "inspect"
  /\ Go(i, IF HeldByLiving THEN "refused" ELSE "clear")
  /\ UNCHANGED <<dead, locking, files, known, past, edits>>

(***************************************************************************)
(* The file that is removed need not be the one that was read.             *)
(***************************************************************************)
RemoveLock(i) ==
  /\ Live(i) /\ pc[i] = "clear"
  /\ \/ /\ Go(i, IF i \in retried THEN "refused" ELSE "read")
        /\ retried' = retried \cup {i} /\ lock' = None
        /\ crowd' = IF \E j \in Installs : CreatedBy(j) /\ Active(j)
                    THEN crowd \cup {j \in Installs : Active(j)} ELSE crowd
     \/ Go(i, "refused") /\ UNCHANGED locking
  /\ UNCHANGED <<dead, files, known, past, edits>>

-----------------------------------------------------------------------------
(***************************************************************************)
(* findOpenSSH: the preferred client, or else the one in PATH.  The shim   *)
(* of another editor is unwrapped to the client behind it.                 *)
(***************************************************************************)
Unwrap(v) == IF v = "other" THEN "path" ELSE v
FindOpenSSH(preferred) == IF Unwrap(preferred) \in Clients THEN Unwrap(preferred) ELSE "path"

OldDescriptor == IF profile = None THEN [ssh |-> "none", previous |-> "none"] ELSE profile

(***************************************************************************)
(* samePath with the path of the shim: two files that exist are compared   *)
(* as files, and the shims of all editors are links to one program.        *)
(***************************************************************************)
IsShim(v) == v = "shim" \/ (v = "other" /\ profile # None)

Descriptor(i) ==
  LET previous == original[i].ssh
  IN IF IsShim(previous)
     THEN [ssh |-> FindOpenSSH(OldDescriptor.ssh),
           previous |-> IF OldDescriptor.previous # "none" THEN OldDescriptor.previous ELSE previous]
     ELSE [ssh |-> FindOpenSSH(previous), previous |-> previous]

Stage(i) ==
  /\ Live(i) /\ pc[i] = "locked"
  /\ \/ Go(i, "staged") /\ staged' = [staged EXCEPT ![i] = Descriptor(i)] /\ UNCHANGED <<lock, retried>>
     \/ Returns(i, "failed") /\ UNCHANGED staged
  /\ UNCHANGED <<dead, crowd, files, original, found, past, edits>>

(***************************************************************************)
(* validateProfile and selfCheck try out the staged shims.                 *)
(***************************************************************************)
Check(i) ==
  /\ Live(i) /\ pc[i] = "staged"
  /\ \/ Go(i, "checked") /\ UNCHANGED <<lock, retried>>
     \/ Returns(i, "failed")
  /\ UNCHANGED <<dead, crowd, files, known, past, edits>>

MoveAway(i) ==
  /\ Live(i) /\ pc[i] = "checked"
  /\ \/ /\ Go(i, "away") /\ UNCHANGED <<lock, retried>>
        /\ backup' = [backup EXCEPT ![i] = profile] /\ profile' = None
     \/ Returns(i, "failed") /\ UNCHANGED <<profile, backup>>
  /\ UNCHANGED <<dead, crowd, settings, known, wrote, botched, blamed, edits>>
  /\ Disturb(i)

(***************************************************************************)
(* A directory is not renamed onto another's profile.                      *)
(***************************************************************************)
MoveIn(i) ==
  /\ Live(i) /\ pc[i] = "away"
  /\ \/ profile = None /\ Go(i, "in") /\ profile' = staged[i]
     \/ Go(i, "undo") /\ UNCHANGED profile
  /\ UNCHANGED <<dead, locking, settings, backup, known, wrote, botched, blamed, edits>>
  /\ Disturb(i)

Patched(i) == [original[i] EXCEPT !.exists = TRUE, !.ssh = "shim"]

WriteSettings(i) ==
  /\ Live(i) /\ pc[i] = "in"
  /\ \/ Go(i, "written") /\ settings' = Patched(i) /\ wrote' = wrote \cup {i}
     \/ Go(i, "undo") /\ UNCHANGED <<settings, wrote>>
  /\ UNCHANGED <<dead, locking, profile, backup, known, botched, blamed, edits>>
  /\ Disturb(i)

(***************************************************************************)
(* The settings are checked, not the profile.                              *)
(***************************************************************************)
Verify(i) ==
  /\ Live(i) /\ pc[i] = "written"
  /\ \/ /\ IsShim(settings.ssh) /\ Returns(i, "ok")
        /\ backup' = [backup EXCEPT ![i] = None]
        /\ IF i \in crowd THEN UNCHANGED <<crowd, blamed>> ELSE crowd' = {} /\ blamed' = {}
     \/ Go(i, "undo") /\ UNCHANGED <<locking, backup, blamed>>
  /\ UNCHANGED <<dead, settings, profile, known, wrote, touched, botched, edits>>

-----------------------------------------------------------------------------
(***************************************************************************)
(* The deferred rollback, which ignores the errors of its steps.           *)
(***************************************************************************)
\* Mutant: a file that was not there stays.
RestoredIfExisted(i) ==
  IF i \in wrote /\ original[i].exists THEN original[i] ELSE settings

Restored(i) == IF i \in wrote THEN original[i] ELSE settings

UndoSettings(i) ==
  /\ Live(i) /\ pc[i] = "undo"
  /\ Go(i, "remove")
  /\ \/ settings' = Restored(i) /\ UNCHANGED botched
     \/ i \in wrote /\ botched' = botched \cup {i} /\ UNCHANGED settings
  /\ UNCHANGED <<dead, locking, profile, backup, known, wrote, blamed, edits>>
  /\ Disturb(i)

(***************************************************************************)
(* The profile that is removed may be another's.                           *)
(***************************************************************************)
RemoveProfile(i) ==
  /\ Live(i) /\ pc[i] = "remove"
  /\ Go(i, "restore")
  /\ \/ profile' = None /\ UNCHANGED botched
     \/ profile # None /\ botched' = botched \cup {i} /\ UNCHANGED profile
  /\ UNCHANGED <<dead, locking, settings, backup, known, wrote, blamed, edits>>
  /\ Disturb(i)

\* Mutant: the old profile stays where it is.
NothingBack(i) == None

MovedBack(i) == backup[i]

RestoreProfile(i) ==
  /\ Live(i) /\ pc[i] = "restore"
  /\ Returns(i, "failed")
  /\ \/ backup[i] = None /\ UNCHANGED <<profile, backup, botched>>
     \/ /\ backup[i] # None /\ profile = None
        /\ profile' = MovedBack(i) /\ backup' = [backup EXCEPT ![i] = None]
        /\ UNCHANGED botched
     \/ backup[i] # None /\ botched' = botched \cup {i} /\ UNCHANGED <<profile, backup>>
  /\ blamed' = IF i \in touched \cup botched' THEN blamed \cup {i} ELSE blamed
  /\ UNCHANGED <<dead, crowd, settings, known, wrote, edits>>
  /\ Disturb(i)

-----------------------------------------------------------------------------
(***************************************************************************)
(* The editor saves its settings, with another ssh or something else in    *)
(* them.                                                                   *)
(***************************************************************************)
Edit ==
  /\ edits < MaxEdits
  /\ edits' = edits + 1
  /\ \E v \in {"none", "own", settings.ssh} :
       settings' = [exists |-> TRUE, ssh |-> v, rest |-> edits + 1]
  /\ touched' = touched \cup {j \in Installs : Active(j)}
  /\ UNCHANGED <<pc, dead, locking, profile, backup, known, wrote, botched, blamed>>

Kill(i) ==
  /\ i \in Mortal /\ Active(i)
  /\ dead' = dead \cup {i}
  /\ blamed' = IF Away(i) THEN blamed \cup {i} ELSE blamed
  /\ UNCHANGED <<pc, locking, files, known, wrote, touched, botched, edits>>

Next ==
  \/ \E i \in Installs :
       \/ ReadSettings(i) \/ CreateLock(i) \/ WritePid(i) \/ InspectLock(i) \/ RemoveLock(i)
       \/ Stage(i) \/ Check(i) \/ MoveAway(i) \/ MoveIn(i) \/ WriteSettings(i) \/ Verify(i)
       \/ UndoSettings(i) \/ RemoveProfile(i) \/ RestoreProfile(i) \/ Kill(i)
  \/ Edit

Spec == Init /\ [][Next]_vars

-----------------------------------------------------------------------------
TypeOK ==
  /\ pc \in [Installs -> Places]
  /\ dead \subseteq Mortal
  /\ lock \in Locks \cup {None}
  /\ retried \subseteq Installs
  /\ settings \in Settings
  /\ profile \in Descriptors \cup {None}
  /\ backup \in [Installs -> Descriptors \cup {None}]
  /\ original \in [Installs -> Settings \cup {None}]
  /\ found \in [Installs -> Descriptors \cup {None}]
  /\ staged \in [Installs -> Descriptors \cup {None}]
  /\ wrote \subseteq Installs /\ touched \subseteq Installs /\ botched \subseteq Installs
  /\ crowd \subseteq Installs /\ blamed \subseteq Installs
  /\ edits \in 0..MaxEdits

(***************************************************************************)
(* An install that fails, wherever it does, and that nobody disturbed,     *)
(* leaves the settings and the profile as it found them, unless a step of  *)
(* its rollback fails too.                                                 *)
(***************************************************************************)
FailureRestores ==
  [][\A i \in Installs :
       pc[i] # "failed" /\ pc'[i] = "failed" /\ i \notin touched \cup botched'
         => settings' = original[i] /\ profile' = found[i]]_vars

(***************************************************************************)
(* The editor is never sent to a shim that is not there, with these        *)
(* exceptions: while an install has the profile out of the way; and after  *)
(* one was killed there, or rolled back after others had written, or could *)
(* not roll back.  An install that succeeds ends the exceptions, but not   *)
(* one that worked while another did, after a lock file was removed that   *)
(* was not stale: its shim may be gone when it returns.                    *)
(***************************************************************************)
NeverDangling ==
  settings.ssh = "shim" /\ profile = None
    => blamed # {} \/ \E i \in Installs : Away(i) /\ Live(i)
=============================================================================
