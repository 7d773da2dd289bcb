----------------------------- MODULE Installer ------------------------------
(***************************************************************************)
(* internal/installer: enroll, local enable and disable, reconnect and     *)
(* uninstall, over four things that cannot be written together: the        *)
(* vendors' files, state.json, managed-settings.json and the keyring.      *)
(*                                                                         *)
(* A command is a process that makes one write at a time.  Each write may  *)
(* fail, and the command then takes back what it did; or the process is    *)
(* killed, and everything stays as it is.  Besides the user's commands the *)
(* daemon runs one of them itself: when it cannot have its port it rewires *)
(* the files to the port it got (daemon/runner.go).                        *)
(***************************************************************************)
EXTENDS VendorConfig, Sequences

CONSTANTS
    Ingest,            \* the bearer of the local receiver
    Ports,             \* loopback ports
    DefaultPort,       \* DefaultLocalPort
    MaxEnrolls,        \* bound: enrolments
    MaxCommands,       \* bound: commands of the user and starts of the daemon
    MaxFaults          \* bound: writes that fail, commands that are killed, and
                       \* changes of the user's own, together

ASSUME PortAssumption == Ports \subseteq Nat \ {0} /\ DefaultPort \in Ports
\* What a key may hold, and what is recorded of a tool's file.
Value == {Absent, Edited, Ingest, TRUE} \cup (BOOLEAN \X Nat) \cup ({"company"} \X Nat)
Record == [leaf : [Leaves("claude") -> Value] \cup [Leaves("codex") -> Value],
           ours : {Absent, "command"} \cup (Nat \X Value), switch : BOOLEAN]

\* What is not there, what the user writes and the receiver's bearer are told
\* apart from all that is written.
ASSUME ValueAssumption ==
    /\ Absent \notin Nat \cup Record \cup [inst : Nat, rec : [Tools -> Record]]
    /\ Absent \notin [inst : Nat, local : BOOLEAN, port : Nat, token : Value]
    /\ {Absent, Ingest} \cap ({"company"} \X Nat) = {}
    /\ Edited \notin {Absent, "command"} \cup (Nat \X Value)
ASSUME InstallerBounds == {MaxEnrolls, MaxCommands, MaxFaults} \subseteq Nat

VARIABLES
    settings,  \* the vendors' files, by tool
    state,     \* state.json: the installation, whether local, and the port
    managed,   \* managed-settings.json: the installation and a record by tool
    stash,     \* keyring, "telemetry": the company's token while local
    cred,      \* keyring, "installation": whose credential it is
    cmd,       \* the commands under way: the user's and the daemon's
    daemon,    \* the daemon: its stage, its copy of the state, its port
    issued,    \* tokens the server has issued
    enrolled,  \* installations the server has made
    spoiled,   \* history: the operations that were killed or stopped half way,
               \* "overlap" for two commands at once and "edit" for a change of
               \* the user's
    spent      \* the bounds used up

disk == <<settings, state, managed, stash, cred>>
installerVars == <<settings, state, managed, stash, cred, cmd, daemon, issued, enrolled,
                   spoiled, spent>>

Runners == {"user", "daemon"}

Order == <<"claude", "codex">>

NoCommand == [pc |-> "idle"]

Quiet == \A p \in Runners : cmd[p].pc = "idle"

Token(n) == <<"company", n>>

InstallerInit ==
    /\ settings = [t \in Tools |-> Untouched(t)]
    /\ state = Absent
    /\ managed = Absent
    /\ stash = Absent
    /\ cred = Absent
    /\ cmd = [p \in Runners |-> NoCommand]
    /\ daemon = [stage |-> "off", mem |-> Absent, port |-> 0]
    /\ issued = 0
    /\ enrolled = 0
    /\ spoiled = {}
    /\ spent = [commands |-> 0, troubles |-> 0]

At(p, pc) == cmd[p].pc = pc

Goto(p, pc) == cmd' = [cmd EXCEPT ![p].pc = pc]

Done(p) == cmd' = [cmd EXCEPT ![p] = NoCommand]

\* Something goes wrong: a write fails, a process is killed, a user interferes.
Fault == spent.troubles < MaxFaults /\ spent' = [spent EXCEPT !.troubles = @ + 1]

\* A new command: what it will have written in the end and the backups of the
\* files.
Command(op, st, to, keep, pc) ==
    [pc |-> pc, op |-> op, st |-> st, to |-> to, keep |-> keep, step |-> 0,
     before |-> settings, old |-> Absent, keys |-> <<Absent, Absent>>]

UserBegins(command) ==
    /\ cmd["user"].pc = "idle"
    /\ spent.commands < MaxCommands
    /\ spent' = [spent EXCEPT !.commands = @ + 1]
    /\ cmd' = [cmd EXCEPT !["user"] = command]
    /\ spoiled' = IF cmd["daemon"].pc = "idle" THEN spoiled ELSE spoiled \cup {"overlap"}

-----------------------------------------------------------------------------
(* The beginnings: what a command reads and refuses before it writes *)

\* Apply, with the ingest token or, when the keyring or the manifest's grpc
\* does not allow it, with the company's endpoint.
Enroll ==
    /\ enrolled < MaxEnrolls
    /\ enrolled' = enrolled + 1
    /\ issued' = issued + 1
    /\ \E local \in BOOLEAN :
         UserBegins(Command("enroll",
            [inst |-> enrolled', local |-> local, port |-> IF local THEN DefaultPort ELSE 0,
             token |-> Token(issued')],
            IF local THEN Local(DefaultPort, Ingest) ELSE Company(Token(issued')),
            FALSE, "merge"))
    /\ UNCHANGED <<disk, daemon>>

\* The state that EnableLocal leaves, and where it begins: the stash is
\* needed only if the files are not local yet.
EnableCommand(port, keep) ==
    Command("enable", [state EXCEPT !.local = TRUE, !.port = port], Local(port, Ingest),
            keep, IF state.local THEN "merge" ELSE "stash")

\* resolveEnablePort: the port of the running daemon before the state's.
EnablePort ==
    IF daemon.stage = "up" THEN daemon.port
    ELSE IF state.port = 0 THEN DefaultPort ELSE state.port

Enable ==
    /\ state # Absent
    /\ UserBegins(EnableCommand(EnablePort, FALSE))
    /\ UNCHANGED <<disk, daemon, issued, enrolled>>

\* Without the company's token it refuses.
Disable ==
    /\ state # Absent
    /\ state.local
    /\ stash # Absent
    /\ UserBegins(Command("disable", [state EXCEPT !.local = FALSE], Company(stash), FALSE, "merge"))
    /\ UNCHANGED <<disk, daemon, issued, enrolled>>

Reconnect ==
    /\ state # Absent
    /\ cred = state.inst
    /\ issued < MaxEnrolls + MaxCommands
    /\ issued' = issued + 1
    /\ UserBegins(Command("reconnect", [state EXCEPT !.token = Token(issued')],
                          Company(Token(issued')), FALSE,
                          IF state.local THEN "restash" ELSE "merge"))
    /\ UNCHANGED <<disk, daemon, enrolled>>

-----------------------------------------------------------------------------
(* EnableLocal, stashTelemetryToken: the first file that still has a token  *)
(* of the company's                                                         *)

Bearers == {t \in Tools : BearerIn(t, settings[t]) \notin {Absent, Ingest}}

FirstBearer == IF "claude" \in Bearers THEN "claude" ELSE "codex"

StashToken(p) ==
    /\ At(p, "stash")
    /\ stash' = IF Bearers = {} THEN stash ELSE BearerIn(FirstBearer, settings[FirstBearer])
    /\ Goto(p, "merge")
    /\ UNCHANGED <<settings, state, managed, cred, daemon, issued, enrolled, spoiled, spent>>

\* Reconnect of a local installation leaves the files alone.
Restash(p) ==
    /\ At(p, "restash")
    /\ stash' = cmd[p].to.token
    /\ Goto(p, "state")
    /\ UNCHANGED <<settings, state, managed, cred, daemon, issued, enrolled, spoiled, spent>>

\* The keyring refuses before anything was written.
KeyringRefuses(p) ==
    /\ At(p, "stash") \/ At(p, "restash")
    /\ Fault
    /\ Done(p)
    /\ UNCHANGED <<disk, daemon, issued, enrolled, spoiled>>

-----------------------------------------------------------------------------
(* The merge, file by file, and the way back *)

AfterMerge(op) == IF op = "enroll" THEN "readkeys" ELSE "managed"

Merge(p) ==
    /\ At(p, "merge")
    /\ LET c == cmd[p]
           t == Order[c.step + 1]
       IN /\ settings' = [settings EXCEPT ![t] = Merged(t, @, c.to, c.keep)]
          /\ cmd' = [cmd EXCEPT ![p].step = c.step + 1,
                                ![p].pc = IF c.step + 1 = Len(Order) THEN AfterMerge(c.op) ELSE "merge"]
    /\ UNCHANGED <<state, managed, stash, cred, daemon, issued, enrolled, spoiled, spent>>

MergeFails(p) ==
    /\ At(p, "merge")
    /\ Fault
    /\ Goto(p, "undo")
    /\ UNCHANGED <<disk, daemon, issued, enrolled, spoiled>>

\* RestoreBackup of what was applied, the last file first.
Undo(p) ==
    /\ At(p, "undo")
    /\ IF cmd[p].step = 0
       THEN Done(p) /\ UNCHANGED settings
       ELSE LET t == Order[cmd[p].step] IN
            /\ settings' = [settings EXCEPT ![t] = cmd[p].before[t]]
            /\ cmd' = [cmd EXCEPT ![p].step = @ - 1]
    /\ UNCHANGED <<state, managed, stash, cred, daemon, issued, enrolled, spoiled, spent>>

-----------------------------------------------------------------------------
(* Apply, between the files and the state: what the keyring held, then the  *)
(* company's token and the credential of the installation                   *)

ReadKeys(p) ==
    /\ At(p, "readkeys")
    /\ cmd' = [cmd EXCEPT ![p].keys = <<stash, cred>>,
                          ![p].pc = IF cmd[p].to.local THEN "keepstash" ELSE "cred"]
    /\ UNCHANGED <<disk, daemon, issued, enrolled, spoiled, spent>>

\* The two errors that return without rollback.
ReadKeysFails(p) ==
    /\ At(p, "readkeys")
    /\ Fault
    /\ spoiled' = spoiled \cup {"enroll"}
    /\ Done(p)
    /\ UNCHANGED <<disk, daemon, issued, enrolled>>

KeepStash(p) ==
    /\ At(p, "keepstash")
    /\ stash' = cmd[p].st.token
    /\ Goto(p, "cred")
    /\ UNCHANGED <<settings, state, managed, cred, daemon, issued, enrolled, spoiled, spent>>

KeepStashFails(p) ==
    /\ At(p, "keepstash")
    /\ Fault
    /\ Goto(p, "undo")
    /\ UNCHANGED <<disk, daemon, issued, enrolled, spoiled>>

\* restoreStash
StashBefore(p) == IF cmd[p].to.local THEN cmd[p].keys[1] ELSE stash

SaveCredential(p) ==
    /\ At(p, "cred")
    /\ cred' = cmd[p].st.inst
    /\ Goto(p, "managed")
    /\ UNCHANGED <<settings, state, managed, stash, daemon, issued, enrolled, spoiled, spent>>

SaveCredentialFails(p) ==
    /\ At(p, "cred")
    /\ Fault
    /\ stash' = StashBefore(p)
    /\ Goto(p, "undo")
    /\ UNCHANGED <<settings, state, managed, cred, daemon, issued, enrolled, spoiled>>

-----------------------------------------------------------------------------
(* SaveState: the record first, then the state; if the state cannot be      *)
(* written the record is taken back                                         *)

\* LoadManaged: a record of another installation is an error.
RecordUsable == managed # Absent /\ state # Absent => managed.inst = state.inst

\* What a failed SaveState leaves to the command: Apply puts both keyring
\* entries back, and whoever merged restores the files.
GiveUp(p) ==
    /\ stash' = IF cmd[p].op = "enroll" THEN StashBefore(p) ELSE stash
    /\ cred' = IF cmd[p].op = "enroll" THEN cmd[p].keys[2] ELSE cred
    /\ Goto(p, "undo")

\* Without a state an orphaned record is not taken over.
OldRecord(t) == IF managed = Absent \/ state = Absent THEN Absent ELSE managed.rec[t]

SaveManaged(p) ==
    /\ At(p, "managed")
    /\ RecordUsable
    /\ managed' = [inst |-> cmd[p].st.inst,
                   rec |-> [t \in Tools |-> Recorded(t, cmd[p].to, cmd[p].keep, OldRecord(t))]]
    /\ cmd' = [cmd EXCEPT ![p].old = managed, ![p].pc = "state"]
    /\ UNCHANGED <<settings, state, stash, cred, daemon, issued, enrolled, spoiled, spent>>

SaveManagedRefused(p) ==
    /\ At(p, "managed")
    /\ ~RecordUsable
    /\ GiveUp(p)
    /\ UNCHANGED <<settings, state, managed, daemon, issued, enrolled, spoiled, spent>>

SaveManagedFails(p) ==
    /\ At(p, "managed")
    /\ Fault
    /\ GiveUp(p)
    /\ UNCHANGED <<settings, state, managed, daemon, issued, enrolled, spoiled>>

WriteState(p) ==
    /\ At(p, "state")
    /\ state' = cmd[p].st
    /\ IF cmd[p].op = "disable" THEN Goto(p, "clear") ELSE Done(p)
    /\ UNCHANGED <<settings, managed, stash, cred, daemon, issued, enrolled, spoiled, spent>>

WriteStateFails(p) ==
    /\ At(p, "state")
    /\ Fault
    /\ managed' = IF cmd[p].op = "reconnect" /\ cmd[p].step = 0 THEN managed ELSE cmd[p].old
    /\ GiveUp(p)
    /\ UNCHANGED <<settings, state, daemon, issued, enrolled, spoiled>>

\* DisableLocal: the token is in the files again.  A failure is reported, but
\* nothing is taken back.
ClearStash(p) ==
    /\ At(p, "clear")
    /\ stash' = Absent
    /\ Done(p)
    /\ UNCHANGED <<settings, state, managed, cred, daemon, issued, enrolled, spoiled, spent>>

ClearStashFails(p) ==
    /\ At(p, "clear")
    /\ Fault
    /\ Done(p)
    /\ UNCHANGED <<disk, daemon, issued, enrolled, spoiled>>

CommandStep(p) ==
    \/ StashToken(p) \/ Restash(p) \/ KeyringRefuses(p)
    \/ Merge(p) \/ MergeFails(p) \/ Undo(p)
    \/ ReadKeys(p) \/ ReadKeysFails(p) \/ KeepStash(p) \/ KeepStashFails(p)
    \/ SaveCredential(p) \/ SaveCredentialFails(p)
    \/ SaveManaged(p) \/ SaveManagedRefused(p) \/ SaveManagedFails(p)
    \/ WriteState(p) \/ WriteStateFails(p) \/ ClearStash(p) \/ ClearStashFails(p)

-----------------------------------------------------------------------------
(* PrepareUninstall and Execute *)

\* Whoever holds the instance lock: the daemon, from the lease to its end, or
\* an uninstallation.
DaemonHasLease == daemon.stage \in {"leased", "rewiring", "up"}
UninstallHasLease == cmd["user"].pc \in {"release", "unrelease", "credgone", "stashgone",
                                          "stategone", "recordgone"}

\* The plan: the files as they are and what each will be.
Uninstall ==
    /\ state # Absent
    /\ managed # Absent
    /\ managed.inst = state.inst
    /\ UserBegins([Command("uninstall", state, Absent, FALSE, "stop") EXCEPT !.old = managed])
    /\ UNCHANGED <<disk, daemon, issued, enrolled>>

\* An earlier one stopped after state.json: only the record is left.
UninstallAgain ==
    /\ state = Absent
    /\ managed # Absent
    /\ UserBegins([Command("uninstall", state, Absent, FALSE, "recordgone") EXCEPT !.old = managed])
    /\ UNCHANGED <<disk, daemon, issued, enrolled>>

\* UninstallPlan.verify: nothing has changed since the plan.
AsPlanned(c) == settings = c.before /\ state = c.st /\ managed = c.old

\* The keyring has to belong to this installation; then the daemon is asked to
\* stop, which it can be only when it is up.
StopDaemon ==
    /\ At("user", "stop")
    /\ cred \in {Absent, cmd["user"].st.inst}
    /\ AsPlanned(cmd["user"])
    /\ daemon' = IF daemon.stage = "up" THEN [daemon EXCEPT !.stage = "off", !.port = 0] ELSE daemon
    /\ Goto("user", "lease")
    /\ UNCHANGED <<disk, issued, enrolled, spoiled, spent>>

StopRefused ==
    /\ At("user", "stop")
    /\ cred \notin {Absent, cmd["user"].st.inst} \/ ~AsPlanned(cmd["user"])
    /\ Done("user")
    /\ UNCHANGED <<disk, daemon, issued, enrolled, spoiled, spent>>

\* instancelock.Acquire does not wait; after it everything is verified again.
TakeLease ==
    /\ At("user", "lease")
    /\ IF ~DaemonHasLease /\ AsPlanned(cmd["user"]) THEN Goto("user", "release") ELSE Done("user")
    /\ UNCHANGED <<disk, daemon, issued, enrolled, spoiled, spent>>

Planned(c, t) == Removed(c.before[t], c.old.rec[t])

\* Mutant: Apply writes without verifying once more.
ReleaseUnverified ==
    /\ At("user", "release")
    /\ LET c == cmd["user"]
           t == Order[c.step + 1]
       IN /\ settings' = [settings EXCEPT ![t] = Planned(c, t)]
          /\ cmd' = [cmd EXCEPT !["user"].step = c.step + 1,
                                !["user"].pc = IF c.step + 1 = Len(Order) THEN "credgone" ELSE "release"]
    /\ UNCHANGED <<state, managed, stash, cred, daemon, issued, enrolled, spoiled, spent>>

\* ManagedEdit.Apply verifies its file once more.
Release ==
    /\ At("user", "release")
    /\ LET c == cmd["user"]
           t == Order[c.step + 1]
       IN /\ settings[t] = c.before[t]
          /\ settings' = [settings EXCEPT ![t] = Planned(c, t)]
          /\ cmd' = [cmd EXCEPT !["user"].step = c.step + 1,
                                !["user"].pc = IF c.step + 1 = Len(Order) THEN "credgone" ELSE "release"]
    /\ UNCHANGED <<state, managed, stash, cred, daemon, issued, enrolled, spoiled, spent>>

ReleaseFails ==
    /\ At("user", "release")
    /\ IF settings[Order[cmd["user"].step + 1]] = cmd["user"].before[Order[cmd["user"].step + 1]]
       THEN Fault ELSE UNCHANGED spent
    /\ Goto("user", "unrelease")
    /\ UNCHANGED <<disk, daemon, issued, enrolled, spoiled>>

\* ManagedEdit.Restore: only what is still as it was written.
Unrelease ==
    /\ At("user", "unrelease")
    /\ LET c == cmd["user"]
           t == Order[c.step]
       IN IF c.step = 0
          THEN Done("user") /\ UNCHANGED settings
          ELSE /\ settings' = [settings EXCEPT ![t] = IF @ = Planned(c, t) THEN c.before[t] ELSE @]
               /\ cmd' = [cmd EXCEPT !["user"].step = @ - 1]
    /\ UNCHANGED <<state, managed, stash, cred, daemon, issued, enrolled, spoiled, spent>>

\* The keyring's entries, then state.json before the record: each may be
\* refused, and then what is left is for the next run.
DropCredential ==
    /\ At("user", "credgone")
    /\ cred' = Absent
    /\ Goto("user", "stashgone")
    /\ UNCHANGED <<settings, state, managed, stash, daemon, issued, enrolled, spoiled, spent>>

DropStash ==
    /\ At("user", "stashgone")
    /\ stash' = Absent
    /\ Goto("user", "stategone")
    /\ UNCHANGED <<settings, state, managed, cred, daemon, issued, enrolled, spoiled, spent>>

\* Mutant: the record goes first.
DropStateLast ==
    /\ At("user", "stategone")
    /\ managed' = Absent
    /\ Goto("user", "recordgone")
    /\ UNCHANGED <<settings, state, stash, cred, daemon, issued, enrolled, spoiled, spent>>

DropState ==
    /\ At("user", "stategone")
    /\ state' = Absent
    /\ Goto("user", "recordgone")
    /\ UNCHANGED <<settings, managed, stash, cred, daemon, issued, enrolled, spoiled, spent>>

DropRecord ==
    /\ At("user", "recordgone")
    /\ managed' = Absent
    /\ Done("user")
    /\ UNCHANGED <<settings, state, stash, cred, daemon, issued, enrolled, spoiled, spent>>

DropFails ==
    /\ cmd["user"].pc \in {"credgone", "stashgone", "stategone", "recordgone"}
    /\ Fault
    /\ spoiled' = spoiled \cup {"uninstall"}
    /\ Done("user")
    /\ UNCHANGED <<disk, daemon, issued, enrolled>>

UninstallStep ==
    \/ StopDaemon \/ StopRefused \/ TakeLease \/ Release \/ ReleaseFails \/ Unrelease
    \/ DropCredential \/ DropStash \/ DropState \/ DropRecord \/ DropFails

-----------------------------------------------------------------------------
(* The daemon: daemon.start, startReceiver, rewireAfterPortFallback *)

DaemonLoads ==
    /\ daemon.stage = "off"
    /\ state # Absent
    /\ spent.commands < MaxCommands
    /\ spent' = [spent EXCEPT !.commands = @ + 1]
    /\ daemon' = [stage |-> "loaded", mem |-> state, port |-> 0]
    /\ UNCHANGED <<disk, cmd, issued, enrolled, spoiled>>

\* The lock does not wait, and the installation has to be the one loaded.
DaemonLeases ==
    /\ daemon.stage = "loaded"
    /\ daemon' = IF ~UninstallHasLease /\ state # Absent /\ state.inst = daemon.mem.inst
                 THEN [daemon EXCEPT !.stage = "leased"]
                 ELSE [stage |-> "off", mem |-> Absent, port |-> 0]
    /\ UNCHANGED <<disk, cmd, issued, enrolled, spoiled, spent>>

Requested == IF daemon.mem.port = 0 THEN DefaultPort ELSE daemon.mem.port

\* The port asked for, or another when that is taken.  The daemon rewires the
\* files then, if its own copy of the state says they are local.
DaemonBinds(port) ==
    /\ daemon.stage = "leased"
    /\ IF port # Requested /\ daemon.mem.local /\ state # Absent
       THEN /\ cmd' = [cmd EXCEPT !["daemon"] = EnableCommand(port, TRUE)]
            /\ spoiled' = IF cmd["user"].pc = "idle" THEN spoiled ELSE spoiled \cup {"overlap"}
            /\ daemon' = [daemon EXCEPT !.stage = "rewiring", !.port = port]
       ELSE /\ daemon' = [daemon EXCEPT !.stage = "up", !.port = port]
            /\ UNCHANGED <<cmd, spoiled>>
    /\ UNCHANGED <<disk, issued, enrolled, spent>>

\* Rewired or not, the start goes on.
DaemonUp ==
    /\ daemon.stage = "rewiring"
    /\ At("daemon", "idle")
    /\ daemon' = [daemon EXCEPT !.stage = "up"]
    /\ UNCHANGED <<disk, cmd, issued, enrolled, spoiled, spent>>

DaemonStops ==
    /\ daemon.stage = "up"
    /\ daemon' = [stage |-> "off", mem |-> Absent, port |-> 0]
    /\ UNCHANGED <<disk, cmd, issued, enrolled, spoiled, spent>>

-----------------------------------------------------------------------------
(* Killed processes, and the user in his own files *)

Killed(p) ==
    /\ ~At(p, "idle")
    /\ Fault
    /\ spoiled' = spoiled \cup {cmd[p].op}
    /\ Done(p)
    /\ daemon' = IF p = "daemon" THEN [stage |-> "off", mem |-> Absent, port |-> 0] ELSE daemon
    /\ UNCHANGED <<disk, issued, enrolled>>

UserEdits(t) ==
    /\ Fault
    /\ spoiled' = spoiled \cup {"edit"}
    /\ \E f \in EditsOf(settings[t]) : settings' = [settings EXCEPT ![t] = f]
    /\ UNCHANGED <<state, managed, stash, cred, cmd, daemon, issued, enrolled>>

InstallerNext ==
    \/ Enroll \/ Enable \/ Disable \/ Reconnect \/ Uninstall \/ UninstallAgain
    \/ \E p \in Runners : CommandStep(p) \/ Killed(p)
    \/ UninstallStep
    \/ DaemonLoads \/ DaemonLeases \/ DaemonUp \/ DaemonStops
    \/ \E port \in Ports : DaemonBinds(port)
    \/ \E t \in Tools : UserEdits(t)

InstallerSpec == InstallerInit /\ [][InstallerNext]_installerVars

-----------------------------------------------------------------------------
(* Properties *)

IsCompanyToken(x) == x \in {Token(n) : n \in 1..issued}

WiredAs(st) == IF st.local THEN {Local(st.port, Ingest)}
               ELSE {Company(Token(n)) : n \in 1..issued}

\* When no command is under way, the vendors' files are exactly what state.json
\* and the record say, whatever writes failed on the way there and were taken
\* back: every managed key, our hook and Codex's switch.
FilesFollowState ==
    Quiet /\ spoiled = {} /\ state # Absent =>
        \E m \in WiredAs(state) : \A t \in Tools :
            /\ \A l \in Leaves(t) : settings[t].leaf[l] = Wanted(t, m, l)
            /\ managed # Absent /\ NoDrift(settings[t], managed.rec[t])

\* local.go, invariant 3: an installation that is wired locally can always go
\* back without the network, since the company's token, and not the receiver's,
\* is in the keyring; an enabling, a disabling and a reconnection that fail or
\* are killed half way included.
EscapeHatch ==
    /\ state # Absent /\ state.local /\ cred = state.inst
    /\ spoiled \cap {"overlap", "edit", "enroll", "uninstall"} = {}
    => IsCompanyToken(stash)

\* An installation that is on disk has its record, so that it can be enrolled
\* over, rewired and removed again, also after an uninstallation that stopped
\* half way; only an enrolment killed between its two writes breaks this.
StillRemovable ==
    state # Absent /\ At("user", "idle") /\ spoiled \cap {"enroll", "overlap"} = {} =>
        managed # Absent /\ managed.inst = state.inst

\* Nobody is left with an installation that cannot be undone.
WayBack == EscapeHatch /\ StillRemovable

\* Uninstalling never takes what the user wrote, also when he writes between
\* the plan and its execution.
TakesOnlyItsOwn ==
    [][cmd["user"].pc \in {"release", "unrelease"} /\ spent' = spent /\ settings' # settings =>
         \A t \in Tools :
            /\ settings'[t].theirs = settings[t].theirs
            /\ \A l \in Leaves(t) :
                 settings[t].leaf[l] = Edited /\ cmd["user"].old.rec[t].leaf[l] # Edited
                   => settings'[t].leaf[l] = Edited
            /\ settings[t].ours = Edited => settings'[t].ours = Edited]_installerVars
=============================================================================
