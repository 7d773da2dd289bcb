--------------------------- MODULE InstallerProofs ---------------------------
(***************************************************************************)
(* Proofs about the installer.  They rest on two invariants.               *)
(*                                                                         *)
(* Orderly and LeaseInv say where everything may stand: the types, which   *)
(* operation has which stages, and who holds the lease.  They are enough   *)
(* for what an uninstallation leaves to the user.                          *)
(*                                                                         *)
(* WholeInv adds what the disk looks like in the middle of a command that  *)
(* is alone: how many of the files are written (Half), whose record is     *)
(* there (Paper), where the company's token is (Way, Tokens), and that     *)
(* state, record and files still agree where they are not yet written or   *)
(* no longer (Follows).  Each part names the troubles that may break it.   *)
(***************************************************************************)
EXTENDS Installer, TLAPS

-----------------------------------------------------------------------------
(* The types                                                                *)

\* The types.
Manifests == [local : BOOLEAN, port : Nat, token : Value]
States == [inst : Nat, local : BOOLEAN, port : Nat, token : Value]

Keys == [Leaves("claude") -> Value] \cup [Leaves("codex") -> Value]
File == [leaf : Keys, ours : {Absent, Edited, "command"} \cup (Nat \X Value),
         theirs : BOOLEAN, switch : {"none", "on"}]

FileOf(t) == {f \in File : f.leaf \in [Leaves(t) -> Value]}
RecordOf(t) == {r \in Record : r.leaf \in [Leaves(t) -> Value]}

Files == {f \in [Tools -> File] : \A t \in Tools : f[t] \in FileOf(t)}
Records == {m \in [inst : Nat, rec : [Tools -> Record]] : \A t \in Tools : m.rec[t] \in RecordOf(t)}

\* The commands that wire the files and the one that removes, which have their
\* own stages.
WiringStages == {"stash", "restash", "merge", "undo", "readkeys", "keepstash", "cred",
                 "managed", "state", "clear"}
RemovalStages == {"stop", "lease", "release", "unrelease", "credgone", "stashgone", "stategone",
                  "recordgone"}

OldKeys == Value \X (Nat \cup {Absent})

Wirings ==
    [pc : WiringStages, op : {"enroll", "enable", "disable", "reconnect"}, st : States,
     to : Manifests, keep : BOOLEAN, step : 0 .. 2, before : Files,
     old : Records \cup {Absent}, keys : OldKeys]

Removals ==
    [pc : RemovalStages, op : {"uninstall"}, st : States \cup {Absent},
     to : {Absent}, keep : {FALSE}, step : 0 .. 2, before : Files,
     old : Records, keys : OldKeys]

Commands == Wirings \cup Removals

DaemonStates == [stage : {"off", "loaded", "leased", "rewiring", "up"},
                 mem : States \cup {Absent}, port : Nat]

InstallerTypes ==
    /\ settings \in Files
    /\ state \in States \cup {Absent}
    /\ managed \in Records \cup {Absent}
    /\ stash \in Value
    /\ cred \in Nat \cup {Absent}
    /\ cmd \in [Runners -> {NoCommand} \cup Commands]
    /\ daemon \in DaemonStates
    /\ issued \in Nat /\ enrolled \in Nat
    /\ spent \in [commands : Nat, troubles : Nat]

Busy(p) == cmd[p].pc # "idle"

-----------------------------------------------------------------------------
(* The files *)

LEMMA ToolValues ==
    /\ "claude" \in Tools /\ "codex" \in Tools
    /\ \A i \in 1 .. 2 : Order[i] \in Tools
    /\ Len(Order) = 2
    /\ Absent \in Value /\ Ingest \in Value /\ Edited \in Value
    /\ \A n \in Nat : Token(n) \in Value /\ Token(n) # Absent /\ Token(n) # Ingest
<1>1. Order[1] = "claude" /\ Order[2] = "codex" /\ Len(Order) = 2  BY DEF Order
<1>2. \A i \in 1 .. 2 : i = 1 \/ i = 2  OBVIOUS
<1>3. \A n \in Nat : Token(n) \in {"company"} \X Nat  BY DEF Token
<1>4. \A i \in 1 .. 2 : Order[i] \in Tools  BY <1>1, <1>2 DEF Tools
<1>. QED  BY <1>1, <1>3, <1>4, ValueAssumption DEF Tools, Value

LEMMA WantedTypes ==
    ASSUME NEW t \in Tools, NEW m \in Manifests, NEW l \in Leaves(t)
    PROVE  /\ Wanted(t, m, l) \in Value
           /\ AuthLeaf(t) \in Leaves(t) /\ Wanted(t, m, AuthLeaf(t)) = m.token
<1>1. m.local \in BOOLEAN /\ m.port \in Nat /\ m.token \in Value  BY DEF Manifests
<1>2. <<m.local, m.port>> \in Value /\ TRUE \in Value /\ Absent \in Value  BY <1>1 DEF Value
<1>3. Wanted(t, m, l) \in {Absent, TRUE, <<m.local, m.port>>, m.token}  BY DEF Wanted
<1>4. AuthLeaf(t) \in Leaves(t) /\ AuthLeaf(t)[2] = "auth"
      /\ AuthLeaf(t) \notin LocalOnly
  BY DEF AuthLeaf, Leaves, LocalOnly, Tools
<1>5. Wanted(t, m, AuthLeaf(t)) = m.token  BY <1>4 DEF Wanted
<1>. QED  BY <1>1, <1>2, <1>3, <1>4, <1>5

LEMMA KeysOfTool ==
    ASSUME NEW t \in Tools
    PROVE  [Leaves(t) -> Value] \subseteq Keys
<1>1. t = "claude" \/ t = "codex"  BY DEF Tools
<1>. QED  BY <1>1 DEF Keys

LEMMA MergedTypes ==
    ASSUME NEW t \in Tools, NEW m \in Manifests, NEW f \in FileOf(t), NEW k \in BOOLEAN
    PROVE  /\ Merged(t, f, m, k) \in FileOf(t)
           /\ \A l \in Leaves(t) : Merged(t, f, m, k).leaf[l] = Wanted(t, m, l)
           /\ BearerIn(t, Merged(t, f, m, k)) = m.token
<1>. DEFINE g == Merged(t, f, m, k)
            leaf == [l \in Leaves(t) |-> Wanted(t, m, l)]
            ours == IF KeepsHooks(t, k) THEN f.ours ELSE HookFor(t, m)
            switch == MergedSwitch(t, f, m, k)
<1>1. leaf \in [Leaves(t) -> Value]  BY WantedTypes
<1>2. leaf \in Keys  BY <1>1, KeysOfTool
<1>3. f.ours \in {Absent, Edited, "command"} \cup (Nat \X Value) /\ f.theirs \in BOOLEAN
      /\ f.switch \in {"none", "on"} /\ m.port \in Nat /\ m.token \in Value
  BY DEF FileOf, File, Manifests
<1>4. HookFor(t, m) \in {Absent, Edited, "command"} \cup (Nat \X Value)  BY <1>3 DEF Hook, HookFor
<1>5. ours \in {Absent, Edited, "command"} \cup (Nat \X Value)  BY <1>3, <1>4
<1>6. switch \in {"none", "on"}
  <2>1. switch \in {f.switch, "on", "none"}  BY DEF MergedSwitch
  <2>. QED  BY <1>3, <2>1
<1>. HIDE DEF leaf, ours, switch
<1>7. g = [leaf |-> leaf, ours |-> ours, theirs |-> f.theirs, switch |-> switch]
  BY DEF Merged, leaf, ours, switch
<1>8. g \in File /\ g.leaf = leaf  BY <1>2, <1>3, <1>5, <1>6, <1>7 DEF File
<1>9. \A l \in Leaves(t) : g.leaf[l] = Wanted(t, m, l)  BY <1>8 DEF leaf
<1>10. BearerIn(t, g) = m.token
  <2>1. \A l \in Leaves(t) : AuthLeaf(t) \in Leaves(t) /\ Wanted(t, m, AuthLeaf(t)) = m.token
    BY WantedTypes
  <2>2. Leaves(t) # {}  BY DEF Leaves
  <2>. QED  BY <1>9, <2>1, <2>2 DEF BearerIn
<1>. QED  BY <1>1, <1>8, <1>9, <1>10 DEF FileOf

LEMMA RecordedTypes ==
    ASSUME NEW t \in Tools, NEW m \in Manifests, NEW k \in BOOLEAN,
           NEW old \in RecordOf(t) \cup {Absent}
    PROVE  Recorded(t, m, k, old) \in RecordOf(t)
<1>. DEFINE r == Recorded(t, m, k, old)
            leaf == [l \in Leaves(t) |-> Wanted(t, m, l)]
            ours == IF ~KeepsHooks(t, k) THEN HookFor(t, m)
                    ELSE IF old = Absent THEN Absent ELSE old.ours
            switch == IF KeepsHooks(t, k) THEN old # Absent /\ old.switch
                      ELSE t = "codex" /\ m.local
<1>1. leaf \in [Leaves(t) -> Value]  BY WantedTypes
<1>2. leaf \in [Leaves("claude") -> Value] \cup [Leaves("codex") -> Value]
  BY <1>1, KeysOfTool DEF Keys
<1>3. m.port \in Nat /\ m.token \in Value /\ m.local \in BOOLEAN  BY DEF Manifests
<1>4. old # Absent => old.ours \in {Absent, "command"} \cup (Nat \X Value) /\ old.switch \in BOOLEAN
  BY DEF RecordOf, Record
<1>5. HookFor(t, m) \in {Absent, "command"} \cup (Nat \X Value)  BY <1>3 DEF Hook, HookFor
<1>6. ours \in {Absent, "command"} \cup (Nat \X Value)  BY <1>4, <1>5
<1>7. switch \in BOOLEAN
  <2>1. CASE KeepsHooks(t, k)  BY <1>4, <2>1
  <2>2. CASE ~KeepsHooks(t, k)  BY <1>3, <2>2
  <2>. QED  BY <2>1, <2>2
<1>. HIDE DEF leaf, ours, switch
<1>8. r = [leaf |-> leaf, ours |-> ours, switch |-> switch]
  BY DEF Recorded, leaf, ours, switch
<1>9. r \in Record /\ r.leaf = leaf  BY <1>2, <1>6, <1>7, <1>8 DEF Record
<1>. QED  BY <1>1, <1>9 DEF RecordOf

\* Removal takes recorded values away and nothing else.
LEMMA RemovedTypes ==
    ASSUME NEW t \in Tools, NEW f \in FileOf(t), NEW r \in RecordOf(t)
    PROVE  /\ Removed(f, r) \in FileOf(t)
           /\ Removed(f, r).theirs = f.theirs
           /\ \A l \in Leaves(t) : Removed(f, r).leaf[l] \in {f.leaf[l], Absent}
           /\ \A l \in Leaves(t) : f.leaf[l] = Edited /\ r.leaf[l] # Edited =>
                  Removed(f, r).leaf[l] = Edited
           /\ Removed(f, r).ours \in {f.ours, Absent}
           /\ f.ours = Edited => Removed(f, r).ours = Edited
<1>. DEFINE g == Removed(f, r)
            leaf == [l \in Leaves(t) |-> IF l \in Removable(f, r) THEN Absent ELSE f.leaf[l]]
            ours == IF HookRemoved(f, r) THEN Absent ELSE f.ours
            switch == IF SwitchRemoved(f, r) THEN "none" ELSE f.switch
<1>1. f.leaf \in [Leaves(t) -> Value] /\ f.ours \in {Absent, Edited, "command"} \cup (Nat \X Value)
      /\ f.theirs \in BOOLEAN /\ f.switch \in {"none", "on"}
  BY DEF FileOf, File
<1>2. DOMAIN f.leaf = Leaves(t)  BY <1>1
<1>3. g = [leaf |-> leaf, ours |-> ours, theirs |-> f.theirs, switch |-> switch]
  BY <1>2 DEF Removed
<1>4. leaf \in [Leaves(t) -> Value] /\ leaf \in Keys
  <2>1. leaf \in [Leaves(t) -> Value]  BY <1>1, ToolValues
  <2>. QED  BY <2>1, KeysOfTool
<1>5. ours \in {f.ours, Absent} /\ switch \in {"none", "on"}  BY <1>1
<1>6. \A l \in Leaves(t) : leaf[l] \in {f.leaf[l], Absent}  OBVIOUS
<1>7. ASSUME NEW l \in Leaves(t), f.leaf[l] = Edited, r.leaf[l] # Edited
      PROVE  leaf[l] = Edited
  <2>1. Edited # Absent  BY ValueAssumption
  <2>2. l \in Removable(f, r) => l \in EntriesOf(r) /\ ~GroupEdited(f, r, GroupKey(l))
    BY DEF Removable
  <2>3. l \in EntriesOf(r) => l \in Group(r, GroupKey(l))  BY DEF Group
  <2>4. l \in Group(r, GroupKey(l)) => GroupEdited(f, r, GroupKey(l))
    BY <1>7, <2>1 DEF GroupEdited
  <2>5. l \notin Removable(f, r)  BY <2>2, <2>3, <2>4
  <2>. QED  BY <1>7, <2>5
<1>8. f.ours = Edited => ours = Edited
  <2>1. r.ours \in {Absent, "command"} \cup (Nat \X Value)  BY DEF RecordOf, Record
  <2>2. r.ours # Edited  BY <2>1, ValueAssumption
  <2>. QED  BY <2>2 DEF HookRemoved
<1>. HIDE DEF leaf, ours, switch
<1>9. g.leaf = leaf /\ g.ours = ours /\ g.theirs = f.theirs /\ g.switch = switch  BY <1>3
<1>10. ours \in {Absent, Edited, "command"} \cup (Nat \X Value)  BY <1>1, <1>5
<1>11. g \in File  BY <1>1, <1>3, <1>4, <1>5, <1>10 DEF File
<1>. QED  BY <1>4, <1>5, <1>6, <1>7, <1>8, <1>9, <1>11 DEF FileOf

-----------------------------------------------------------------------------
(* How an action changes a command                                          *)

LEMMA Doing ==
    ASSUME InstallerTypes, NEW p \in Runners, cmd[p].pc # "idle"
    PROVE  /\ cmd[p] \in Commands
           /\ cmd[p].pc \in RemovalStages => cmd[p] \in Removals
           /\ cmd[p].pc \in WiringStages => cmd[p] \in Wirings
           /\ cmd[p].before \in Files /\ cmd[p].step \in 0 .. 2 /\ cmd[p].keys \in OldKeys
           /\ cmd[p].old \in Records \cup {Absent}
           /\ cmd[p].keys[1] \in Value /\ cmd[p].keys[2] \in Nat \cup {Absent}
<1>1. cmd[p] \in {NoCommand} \cup Commands  BY DEF InstallerTypes
<1>2. NoCommand.pc = "idle"  BY DEF NoCommand
<1>3. cmd[p] \in Commands  BY <1>1, <1>2
<1>4. CASE cmd[p] \in Wirings
  <2>1. cmd[p].pc \in WiringStages /\ cmd[p].before \in Files /\ cmd[p].step \in 0 .. 2
        /\ cmd[p].keys \in OldKeys /\ cmd[p].old \in Records \cup {Absent}
    BY <1>4 DEF Wirings
  <2>2. cmd[p].pc \notin RemovalStages  BY <2>1 DEF WiringStages, RemovalStages
  <2>. QED  BY <1>3, <1>4, <2>1, <2>2 DEF OldKeys
<1>5. CASE cmd[p] \in Removals
  <2>1. cmd[p].pc \in RemovalStages /\ cmd[p].before \in Files /\ cmd[p].step \in 0 .. 2
        /\ cmd[p].keys \in OldKeys /\ cmd[p].old \in Records
    BY <1>5 DEF Removals
  <2>2. cmd[p].pc \notin WiringStages  BY <2>1 DEF WiringStages, RemovalStages
  <2>. QED  BY <1>3, <1>5, <2>1, <2>2 DEF OldKeys
<1>. QED  BY <1>3, <1>4, <1>5 DEF Commands

\* What a step makes of a command: the rest of it stays.
Moves(p, pc, step, old, keys) ==
    /\ cmd'[p] \in Commands
    /\ cmd'[p].pc = pc /\ cmd'[p].step = step /\ cmd'[p].old = old /\ cmd'[p].keys = keys
    /\ cmd'[p].op = cmd[p].op /\ cmd'[p].st = cmd[p].st /\ cmd'[p].to = cmd[p].to
    /\ cmd'[p].keep = cmd[p].keep /\ cmd'[p].before = cmd[p].before

Spares(p) == \A q \in Runners \ {p} : cmd'[q] = cmd[q]

CommandTypes == cmd \in [Runners -> {NoCommand} \cup Commands]

\* A command becomes another one.
LEMMA Replacing ==
    ASSUME CommandTypes, NEW p \in Runners, NEW c \in {NoCommand} \cup Commands,
           cmd' = [cmd EXCEPT ![p] = c]
    PROVE  CommandTypes' /\ cmd'[p] = c /\ Spares(p)
<1>1. DOMAIN cmd = Runners  BY DEF CommandTypes
<1>2. CommandTypes'  BY DEF CommandTypes
<1>3. cmd'[p] = c  BY <1>1
<1>4. Spares(p)  BY <1>1 DEF Spares
<1>. QED  BY <1>2, <1>3, <1>4

LEMMA FieldsOf ==
    ASSUME NEW c \in Commands, NEW pc, NEW step \in 0 .. 2, NEW old, NEW keys \in OldKeys,
           \/ c \in Wirings /\ pc \in WiringStages /\ old \in Records \cup {Absent}
           \/ c \in Removals /\ pc \in RemovalStages /\ old \in Records,
           NEW d,
           d = [pc |-> pc, op |-> c.op, st |-> c.st, to |-> c.to, keep |-> c.keep,
                step |-> step, before |-> c.before, old |-> old, keys |-> keys]
    PROVE  d \in Commands
<1>1. CASE c \in Wirings /\ pc \in WiringStages /\ old \in Records \cup {Absent}
  <2>1. c.op \in {"enroll", "enable", "disable", "reconnect"} /\ c.st \in States
        /\ c.to \in Manifests /\ c.keep \in BOOLEAN /\ c.before \in Files
    BY <1>1 DEF Wirings
  <2>2. d \in Wirings  BY <1>1, <2>1 DEF Wirings
  <2>. QED  BY <2>2 DEF Commands
<1>2. CASE c \in Removals /\ pc \in RemovalStages /\ old \in Records
  <2>1. c.op \in {"uninstall"} /\ c.st \in States \cup {Absent}
        /\ c.to \in {Absent} /\ c.keep \in {FALSE} /\ c.before \in Files
    BY <1>2 DEF Removals
  <2>2. d \in Removals  BY <1>2, <2>1 DEF Removals
  <2>. QED  BY <2>2 DEF Commands
<1>. QED  BY <1>1, <1>2

LEMMA Whole ==
    ASSUME NEW c \in Commands
    PROVE  c = [pc |-> c.pc, op |-> c.op, st |-> c.st, to |-> c.to, keep |-> c.keep,
                step |-> c.step, before |-> c.before, old |-> c.old, keys |-> c.keys]
<1>1. CASE c \in Wirings  BY <1>1 DEF Wirings
<1>2. CASE c \in Removals  BY <1>2 DEF Removals
<1>. QED  BY <1>1, <1>2 DEF Commands

\* The four ways in which an action changes a command under way, and its end.
LEMMA GotoMoves ==
    ASSUME InstallerTypes, NEW p \in Runners, cmd[p].pc # "idle", NEW pc,
           pc \in IF cmd[p] \in Wirings THEN WiringStages ELSE RemovalStages, Goto(p, pc)
    PROVE  CommandTypes' /\ Moves(p, pc, cmd[p].step, cmd[p].old, cmd[p].keys) /\ Spares(p)
<1>. DEFINE c == cmd[p]
            d == [pc |-> pc, op |-> c.op, st |-> c.st, to |-> c.to, keep |-> c.keep,
                  step |-> c.step, before |-> c.before, old |-> c.old, keys |-> c.keys]
<1>1. c \in Commands /\ c.step \in 0 .. 2 /\ c.keys \in OldKeys /\ c.old \in Records \cup {Absent}
      /\ (c \notin Wirings => c \in Removals /\ c.old \in Records)
  BY Doing DEF Commands, Removals
<1>2. d \in Commands  BY <1>1, FieldsOf
<1>3. [c EXCEPT !.pc = pc] = d  BY <1>1, Whole
<1>4. cmd' = [cmd EXCEPT ![p] = d]  BY <1>3 DEF Goto
<1>5. CommandTypes  BY DEF InstallerTypes, CommandTypes
<1>. HIDE DEF d
<1>6. CommandTypes' /\ cmd'[p] = d /\ Spares(p)  BY <1>2, <1>4, <1>5, Replacing
<1>. USE DEF d
<1>. QED  BY <1>2, <1>6 DEF Moves

LEMMA StepMoves ==
    ASSUME InstallerTypes, NEW p \in Runners, cmd[p].pc # "idle", NEW pc, NEW step \in 0 .. 2,
           pc \in IF cmd[p] \in Wirings THEN WiringStages ELSE RemovalStages,
           cmd' = [cmd EXCEPT ![p].step = step, ![p].pc = pc]
    PROVE  CommandTypes' /\ Moves(p, pc, step, cmd[p].old, cmd[p].keys) /\ Spares(p)
<1>. DEFINE c == cmd[p]
            d == [pc |-> pc, op |-> c.op, st |-> c.st, to |-> c.to, keep |-> c.keep,
                  step |-> step, before |-> c.before, old |-> c.old, keys |-> c.keys]
<1>1. c \in Commands /\ c.step \in 0 .. 2 /\ c.keys \in OldKeys /\ c.old \in Records \cup {Absent}
      /\ (c \notin Wirings => c \in Removals /\ c.old \in Records)
  BY Doing DEF Commands, Removals
<1>2. d \in Commands  BY <1>1, FieldsOf
<1>3. [[c EXCEPT !.step = step] EXCEPT !.pc = pc] = d
  <2>. DEFINE e == [pc |-> c.pc, op |-> c.op, st |-> c.st, to |-> c.to, keep |-> c.keep,
                    step |-> step, before |-> c.before, old |-> c.old, keys |-> c.keys]
  <2>1. [c EXCEPT !.step = step] = e  BY <1>1, Whole
  <2>2. [e EXCEPT !.pc = pc] = d  OBVIOUS
  <2>. HIDE DEF d, e
  <2>. QED  BY <2>1, <2>2
<1>5. CommandTypes  BY DEF InstallerTypes, CommandTypes
<1>4. cmd' = [cmd EXCEPT ![p] = d]
  <2>1. [cmd EXCEPT ![p].step = step, ![p].pc = pc]
          = [cmd EXCEPT ![p] = [[c EXCEPT !.step = step] EXCEPT !.pc = pc]]
    BY <1>5 DEF CommandTypes
  <2>. QED  BY <1>3, <2>1
<1>. HIDE DEF d
<1>6. CommandTypes' /\ cmd'[p] = d /\ Spares(p)  BY <1>2, <1>4, <1>5, Replacing
<1>. USE DEF d
<1>. QED  BY <1>2, <1>6 DEF Moves

LEMMA BackMoves ==
    ASSUME InstallerTypes, NEW p \in Runners, cmd[p].pc # "idle", NEW step \in 0 .. 2,
           cmd' = [cmd EXCEPT ![p].step = step]
    PROVE  CommandTypes' /\ Moves(p, cmd[p].pc, step, cmd[p].old, cmd[p].keys) /\ Spares(p)
<1>. DEFINE c == cmd[p]
            d == [pc |-> c.pc, op |-> c.op, st |-> c.st, to |-> c.to, keep |-> c.keep,
                  step |-> step, before |-> c.before, old |-> c.old, keys |-> c.keys]
<1>1. c \in Commands /\ c.step \in 0 .. 2 /\ c.keys \in OldKeys /\ c.old \in Records \cup {Absent}
      /\ (c \in Wirings => c.pc \in WiringStages)
      /\ (c \notin Wirings => c \in Removals /\ c.old \in Records /\ c.pc \in RemovalStages)
  BY Doing DEF Commands, Removals, Wirings
<1>2. d \in Commands  BY <1>1, FieldsOf
<1>3. [c EXCEPT !.step = step] = d  BY <1>1, Whole
<1>4. cmd' = [cmd EXCEPT ![p] = d]  BY <1>3
<1>5. CommandTypes  BY DEF InstallerTypes, CommandTypes
<1>. HIDE DEF d
<1>6. CommandTypes' /\ cmd'[p] = d /\ Spares(p)  BY <1>2, <1>4, <1>5, Replacing
<1>. USE DEF d
<1>. QED  BY <1>2, <1>6 DEF Moves

LEMMA KeysMoves ==
    ASSUME InstallerTypes, NEW p \in Runners, cmd[p] \in Wirings, NEW pc \in WiringStages,
           NEW keys \in OldKeys, cmd' = [cmd EXCEPT ![p].keys = keys, ![p].pc = pc]
    PROVE  CommandTypes' /\ Moves(p, pc, cmd[p].step, cmd[p].old, keys) /\ Spares(p)
<1>. DEFINE c == cmd[p]
            d == [pc |-> pc, op |-> c.op, st |-> c.st, to |-> c.to, keep |-> c.keep,
                  step |-> c.step, before |-> c.before, old |-> c.old, keys |-> keys]
<1>1. c \in Commands /\ c.step \in 0 .. 2 /\ c.old \in Records \cup {Absent}
  BY DEF Commands, Wirings
<1>2. d \in Commands  BY <1>1, FieldsOf
<1>3. [[c EXCEPT !.keys = keys] EXCEPT !.pc = pc] = d
  <2>. DEFINE e == [pc |-> c.pc, op |-> c.op, st |-> c.st, to |-> c.to, keep |-> c.keep,
                    step |-> c.step, before |-> c.before, old |-> c.old, keys |-> keys]
  <2>1. [c EXCEPT !.keys = keys] = e  BY <1>1, Whole
  <2>2. [e EXCEPT !.pc = pc] = d  OBVIOUS
  <2>. HIDE DEF d, e
  <2>. QED  BY <2>1, <2>2
<1>5. CommandTypes  BY DEF InstallerTypes, CommandTypes
<1>4. cmd' = [cmd EXCEPT ![p] = d]
  <2>1. [cmd EXCEPT ![p].keys = keys, ![p].pc = pc]
          = [cmd EXCEPT ![p] = [[c EXCEPT !.keys = keys] EXCEPT !.pc = pc]]
    BY <1>5 DEF CommandTypes
  <2>. QED  BY <1>3, <2>1
<1>. HIDE DEF d
<1>6. CommandTypes' /\ cmd'[p] = d /\ Spares(p)  BY <1>2, <1>4, <1>5, Replacing
<1>. USE DEF d
<1>. QED  BY <1>2, <1>6 DEF Moves

LEMMA RecordMoves ==
    ASSUME InstallerTypes, NEW p \in Runners, cmd[p] \in Wirings, NEW pc \in WiringStages,
           NEW old \in Records \cup {Absent}, cmd' = [cmd EXCEPT ![p].old = old, ![p].pc = pc]
    PROVE  CommandTypes' /\ Moves(p, pc, cmd[p].step, old, cmd[p].keys) /\ Spares(p)
<1>. DEFINE c == cmd[p]
            d == [pc |-> pc, op |-> c.op, st |-> c.st, to |-> c.to, keep |-> c.keep,
                  step |-> c.step, before |-> c.before, old |-> old, keys |-> c.keys]
<1>1. c \in Commands /\ c.step \in 0 .. 2 /\ c.keys \in OldKeys
  BY DEF Commands, Wirings
<1>2. d \in Commands  BY <1>1, FieldsOf
<1>3. [[c EXCEPT !.old = old] EXCEPT !.pc = pc] = d
  <2>. DEFINE e == [pc |-> c.pc, op |-> c.op, st |-> c.st, to |-> c.to, keep |-> c.keep,
                    step |-> c.step, before |-> c.before, old |-> old, keys |-> c.keys]
  <2>1. [c EXCEPT !.old = old] = e  BY <1>1, Whole
  <2>2. [e EXCEPT !.pc = pc] = d  OBVIOUS
  <2>. HIDE DEF d, e
  <2>. QED  BY <2>1, <2>2
<1>5. CommandTypes  BY DEF InstallerTypes, CommandTypes
<1>4. cmd' = [cmd EXCEPT ![p] = d]
  <2>1. [cmd EXCEPT ![p].old = old, ![p].pc = pc]
          = [cmd EXCEPT ![p] = [[c EXCEPT !.old = old] EXCEPT !.pc = pc]]
    BY <1>5 DEF CommandTypes
  <2>. QED  BY <1>3, <2>1
<1>. HIDE DEF d
<1>6. CommandTypes' /\ cmd'[p] = d /\ Spares(p)  BY <1>2, <1>4, <1>5, Replacing
<1>. USE DEF d
<1>. QED  BY <1>2, <1>6 DEF Moves

LEMMA Ending ==
    ASSUME CommandTypes, NEW p \in Runners, Done(p)
    PROVE  CommandTypes' /\ cmd'[p] = NoCommand /\ cmd'[p].pc = "idle" /\ Spares(p)
<1>1. cmd' = [cmd EXCEPT ![p] = NoCommand] /\ NoCommand \in {NoCommand} \cup Commands
  BY DEF Done
<1>2. NoCommand.pc = "idle"  BY DEF NoCommand
<1>. QED  BY <1>1, <1>2, Replacing

-----------------------------------------------------------------------------
(* The stages: the first invariant, one action after the other              *)

\* Where a command stands: which operation has which stages, and how many files
\* it has written there.
Standing(c) ==
    /\ c.pc = "stash" => c.op = "enable" /\ c.step = 0
    /\ c.pc = "restash" => c.op = "reconnect" /\ c.step = 0
    /\ c.pc \in {"readkeys", "keepstash", "cred"} => c.op = "enroll" /\ c.step = 2
    /\ c.pc = "clear" => c.op = "disable" /\ c.step = 2
    /\ c.pc \in {"merge", "release"} => c.step < 2
    /\ c.pc = "managed" => c.step = 2
    /\ c.pc = "state" => c.step = 2 \/ (c.op = "reconnect" /\ c.step = 0)
    /\ c.pc \in {"stop", "lease"} => c.step = 0
    /\ c.pc # "idle" /\ c.keep => c.op = "enable"

Orderly == InstallerTypes /\ \A p \in Runners : Standing(cmd[p])

LEMMA IdleStands == Standing(NoCommand)
BY DEF Standing, NoCommand

\* What is left to show when one command moves on or ends.
LEMMA OrderKept ==
    ASSUME Orderly, CommandTypes', NEW p \in Runners, Spares(p), Standing(cmd[p])',
           settings' \in Files, state' \in States \cup {Absent}, managed' \in Records \cup {Absent},
           stash' \in Value, cred' \in Nat \cup {Absent}, daemon' \in DaemonStates,
           issued' \in Nat, enrolled' \in Nat, spent' \in [commands : Nat, troubles : Nat]
    PROVE  Orderly'
<1>1. InstallerTypes'  BY DEF InstallerTypes, CommandTypes
<1>2. ASSUME NEW q \in Runners  PROVE Standing(cmd[q])'
  <2>1. CASE q = p  BY <2>1
  <2>2. CASE q # p
    <3>1. cmd'[q] = cmd[q]  BY <2>2 DEF Spares
    <3>2. Standing(cmd[q])  BY DEF Orderly
    <3>. QED  BY <3>1, <3>2
  <2>. QED  BY <2>1, <2>2
<1>. QED  BY <1>1, <1>2 DEF Orderly

LEMMA FaultTypes ==
    ASSUME spent \in [commands : Nat, troubles : Nat], Fault
    PROVE  /\ spent' \in [commands : Nat, troubles : Nat]
           /\ spent'.commands = spent.commands /\ spent'.troubles = spent.troubles + 1
           /\ spent' # spent
BY DEF Fault

\* A command of c's operation may stand at pc with so many files written.
MayStand(c, pc, step) ==
    \A d : d.pc = pc /\ d.op = c.op /\ d.step = step /\ d.keep = c.keep => Standing(d)

\* A command that moves on from a stage of its kind to another.
LEMMA GotoKeepsOrder ==
    ASSUME Orderly, NEW p \in Runners, cmd[p].pc # "idle", NEW pc,
           pc \in IF cmd[p] \in Wirings THEN WiringStages ELSE RemovalStages, Goto(p, pc),
           MayStand(cmd[p], pc, cmd[p].step),
           settings' \in Files, state' \in States \cup {Absent}, managed' \in Records \cup {Absent},
           stash' \in Value, cred' \in Nat \cup {Absent}, daemon' \in DaemonStates,
           issued' \in Nat, enrolled' \in Nat, spent' \in [commands : Nat, troubles : Nat]
    PROVE  Orderly'
<1>1. InstallerTypes  BY DEF Orderly
<1>2. CommandTypes' /\ Moves(p, pc, cmd[p].step, cmd[p].old, cmd[p].keys) /\ Spares(p)
  BY <1>1, GotoMoves
<1>4. Standing(cmd[p])'  BY <1>2 DEF Moves, MayStand
<1>. QED  BY <1>2, <1>4, OrderKept

LEMMA EndKeepsOrder ==
    ASSUME Orderly, NEW p \in Runners, Done(p),
           settings' \in Files, state' \in States \cup {Absent}, managed' \in Records \cup {Absent},
           stash' \in Value, cred' \in Nat \cup {Absent}, daemon' \in DaemonStates,
           issued' \in Nat, enrolled' \in Nat, spent' \in [commands : Nat, troubles : Nat]
    PROVE  Orderly'
<1>1. CommandTypes  BY DEF Orderly, InstallerTypes, CommandTypes
<1>2. CommandTypes' /\ cmd'[p] = NoCommand /\ Spares(p)  BY <1>1, Ending
<1>3. Standing(cmd[p])'  BY <1>2, IdleStands
<1>. QED  BY <1>2, <1>3, OrderKept

\* The commands that begin.
LEMMA Beginning ==
    ASSUME Orderly, NEW c \in Commands, Standing(c), UserBegins(c),
           UNCHANGED <<disk, daemon>>, issued' \in Nat, enrolled' \in Nat
    PROVE  Orderly' /\ cmd'["user"] = c /\ Spares("user")
<1>1. CommandTypes /\ "user" \in Runners  BY DEF Orderly, InstallerTypes, CommandTypes, Runners
<1>2. cmd' = [cmd EXCEPT !["user"] = c]  BY DEF UserBegins
<1>3. CommandTypes' /\ cmd'["user"] = c /\ Spares("user")  BY <1>1, <1>2, Replacing
<1>4. spent' \in [commands : Nat, troubles : Nat]
  BY DEF UserBegins, Orderly, InstallerTypes
<1>5. Standing(cmd["user"])'  BY <1>3
<1>6. /\ settings' \in Files /\ state' \in States \cup {Absent}
      /\ managed' \in Records \cup {Absent} /\ stash' \in Value
      /\ cred' \in Nat \cup {Absent} /\ daemon' \in DaemonStates
  BY DEF Orderly, InstallerTypes, disk
<1>. QED  BY <1>1, <1>3, <1>4, <1>5, <1>6, OrderKept

\* The user's command has begun, and nothing else has changed.
Begun(op) ==
    /\ cmd["user"].pc = "idle" /\ Spares("user") /\ UNCHANGED <<disk, daemon>>
    /\ cmd'["user"].op = op /\ cmd'["user"].step = 0 /\ cmd'["user"].before = settings
    /\ cmd'["user"].keep = FALSE /\ cmd'["user"].keys = <<Absent, Absent>>

LEMMA NewWiring ==
    ASSUME InstallerTypes, NEW op \in {"enroll", "enable", "disable", "reconnect"},
           NEW st \in States, NEW to \in Manifests, NEW keep \in BOOLEAN, NEW pc \in WiringStages
    PROVE  LET c == Command(op, st, to, keep, pc) IN
           /\ c \in Wirings /\ c \in Commands
           /\ c.pc = pc /\ c.op = op /\ c.st = st /\ c.to = to /\ c.keep = keep /\ c.step = 0
           /\ c.before = settings /\ c.old = Absent /\ c.keys = <<Absent, Absent>>
<1>. DEFINE c == Command(op, st, to, keep, pc)
<1>1. settings \in Files  BY DEF InstallerTypes
<1>2. <<Absent, Absent>> \in OldKeys  BY ToolValues DEF OldKeys
<1>3. c = [pc |-> pc, op |-> op, st |-> st, to |-> to, keep |-> keep, step |-> 0,
           before |-> settings, old |-> Absent, keys |-> <<Absent, Absent>>]
  BY DEF Command
<1>. HIDE DEF c
<1>4. c \in Wirings  BY <1>1, <1>2, <1>3 DEF Wirings
<1>5. /\ c.pc = pc /\ c.op = op /\ c.st = st /\ c.to = to /\ c.keep = keep /\ c.step = 0
      /\ c.before = settings /\ c.old = Absent /\ c.keys = <<Absent, Absent>>
  BY <1>3
<1>. QED  BY <1>4, <1>5 DEF c, Commands

LEMMA ManifestTypes ==
    /\ \A port \in Nat : Local(port, Ingest) \in Manifests
    /\ \A token \in Value : Company(token) \in Manifests
    /\ DefaultPort \in Nat /\ Ports \subseteq Nat
<1>1. \A port \in Nat : Local(port, Ingest) \in Manifests  BY ToolValues DEF Local, Manifests
<1>2. \A token \in Value : Company(token) \in Manifests  BY DEF Company, Manifests
<1>. QED  BY <1>1, <1>2, PortAssumption

LEMMA EnrollBegins ==
    ASSUME Orderly, Enroll
    PROVE  /\ Orderly' /\ Begun("enroll") /\ issued' = issued + 1
           /\ LET c == cmd'["user"] IN
                /\ c \in Wirings /\ c.pc = "merge" /\ c.st.token = Token(issued')
                /\ c.to = IF c.st.local THEN Local(c.st.port, Ingest) ELSE Company(c.st.token)
<1>1. InstallerTypes  BY DEF Orderly
<1>2. issued' \in Nat /\ enrolled' \in Nat /\ Token(issued') \in Value
  BY <1>1, ToolValues DEF Enroll, InstallerTypes
<1>3. PICK local \in BOOLEAN, no \in BOOLEAN :
        no = FALSE /\ UserBegins(Command("enroll",
            [inst |-> enrolled', local |-> local, port |-> IF local THEN DefaultPort ELSE 0,
             token |-> Token(issued')],
            IF local THEN Local(DefaultPort, Ingest) ELSE Company(Token(issued')),
            no, "merge"))
  BY DEF Enroll
<1>. DEFINE st == [inst |-> enrolled', local |-> local, port |-> IF local THEN DefaultPort ELSE 0,
                   token |-> Token(issued')]
            to == IF local THEN Local(DefaultPort, Ingest) ELSE Company(Token(issued'))
            c == Command("enroll", st, to, no, "merge")
<1>4. st \in States /\ st.token = Token(issued') /\ st.local = local
      /\ st.port = IF local THEN DefaultPort ELSE 0
  BY <1>2, ManifestTypes DEF States
<1>5. to \in Manifests  BY <1>2, ManifestTypes
<1>10. to = IF st.local THEN Local(st.port, Ingest) ELSE Company(st.token)  BY <1>4
<1>. HIDE DEF st, to
<1>6. /\ c \in Commands /\ c \in Wirings /\ c.pc = "merge" /\ c.op = "enroll" /\ c.keep = FALSE
      /\ c.step = 0 /\ c.st = st /\ c.to = to /\ c.before = settings
      /\ c.keys = <<Absent, Absent>>
  <2>1. "merge" \in WiringStages  BY DEF WiringStages
  <2>. QED  BY <1>1, <1>3, <1>4, <1>5, <2>1, NewWiring
<1>. HIDE DEF c
<1>7. Standing(c)  BY <1>6 DEF Standing
<1>8. UserBegins(c)  BY <1>3 DEF c, st, to
<1>9. UNCHANGED <<disk, daemon>> /\ issued' = issued + 1  BY DEF Enroll
<1>11. Orderly' /\ cmd'["user"] = c /\ Spares("user")
  BY <1>2, <1>6, <1>7, <1>8, <1>9, Beginning
<1>12. cmd["user"].pc = "idle"  BY <1>8 DEF UserBegins
<1>. QED  BY <1>4, <1>6, <1>9, <1>10, <1>11, <1>12 DEF Begun

LEMMA EnableCommands ==
    ASSUME InstallerTypes, state # Absent, NEW port \in Nat, NEW keep \in BOOLEAN
    PROVE  LET c == EnableCommand(port, keep) IN
           /\ c \in Wirings /\ c \in Commands /\ Standing(c)
           /\ c.pc = (IF state.local THEN "merge" ELSE "stash")
           /\ c.op = "enable" /\ c.step = 0 /\ c.keep = keep /\ c.before = settings
           /\ c.st = [state EXCEPT !.local = TRUE, !.port = port]
           /\ c.to = Local(port, Ingest) /\ c.old = Absent /\ c.keys = <<Absent, Absent>>
<1>. DEFINE st == [state EXCEPT !.local = TRUE, !.port = port]
            pc == IF state.local THEN "merge" ELSE "stash"
            c == EnableCommand(port, keep)
<1>1. state \in States  BY DEF InstallerTypes
<1>2. st \in States  BY <1>1 DEF States
<1>3. Local(port, Ingest) \in Manifests  BY ManifestTypes
<1>4. pc \in WiringStages /\ pc \in {"merge", "stash"}  BY DEF WiringStages
<1>5. c = Command("enable", st, Local(port, Ingest), keep, pc)  BY DEF EnableCommand
<1>. HIDE DEF c, st, pc
<1>6. /\ c \in Wirings /\ c \in Commands
      /\ c.pc = pc /\ c.op = "enable" /\ c.st = st /\ c.to = Local(port, Ingest)
      /\ c.keep = keep /\ c.step = 0
      /\ c.before = settings /\ c.old = Absent /\ c.keys = <<Absent, Absent>>
  BY <1>2, <1>3, <1>4, <1>5, NewWiring
<1>7. Standing(c)  BY <1>4, <1>6 DEF Standing
<1>. QED  BY <1>6, <1>7 DEF c, st, pc

LEMMA EnableBegins ==
    ASSUME Orderly, Enable
    PROVE  /\ Orderly' /\ Begun("enable") /\ state # Absent
           /\ LET c == cmd'["user"] IN
                /\ c \in Wirings /\ c.pc = (IF state.local THEN "merge" ELSE "stash")
                /\ c.st.local /\ c.st.inst = state.inst /\ c.to = Local(c.st.port, Ingest)
<1>1. InstallerTypes /\ state # Absent  BY DEF Orderly, Enable
<1>2. EnablePort \in Nat
  <2>1. state.port \in Nat /\ daemon.port \in Nat
    BY <1>1 DEF InstallerTypes, States, DaemonStates
  <2>. QED  BY <2>1, ManifestTypes DEF EnablePort
<1>3. PICK no \in BOOLEAN : no = FALSE /\ UserBegins(EnableCommand(EnablePort, no))
  BY DEF Enable
<1>. DEFINE c == EnableCommand(EnablePort, no)
<1>4. /\ c \in Wirings /\ c \in Commands /\ Standing(c)
      /\ c.pc = (IF state.local THEN "merge" ELSE "stash")
      /\ c.op = "enable" /\ c.step = 0 /\ c.keep = no /\ c.before = settings
      /\ c.st = [state EXCEPT !.local = TRUE, !.port = EnablePort]
      /\ c.to = Local(EnablePort, Ingest) /\ c.keys = <<Absent, Absent>>
  BY <1>1, <1>2, <1>3, EnableCommands
<1>5. state \in States  BY <1>1 DEF InstallerTypes
<1>6. c.st.local /\ c.st.inst = state.inst /\ c.st.port = EnablePort
  BY <1>4, <1>5 DEF States
<1>7. UNCHANGED <<disk, daemon>> /\ issued' \in Nat /\ enrolled' \in Nat
  BY <1>1 DEF Enable, InstallerTypes
<1>8. UserBegins(c)  BY <1>3
<1>. HIDE DEF c
<1>9. Orderly' /\ cmd'["user"] = c /\ Spares("user")
  BY <1>4, <1>7, <1>8, Beginning
<1>10. cmd["user"].pc = "idle"  BY <1>8 DEF UserBegins
<1>. QED  BY <1>1, <1>3, <1>4, <1>6, <1>7, <1>9, <1>10 DEF Begun

LEMMA DisableBegins ==
    ASSUME Orderly, Disable
    PROVE  /\ Orderly' /\ Begun("disable") /\ state # Absent /\ state.local /\ stash # Absent
           /\ LET c == cmd'["user"] IN
                /\ c \in Wirings /\ c.pc = "merge"
                /\ ~c.st.local /\ c.st.inst = state.inst /\ c.to = Company(stash)
<1>. DEFINE st == [state EXCEPT !.local = FALSE]
<1>0. PICK no \in BOOLEAN :
        no = FALSE /\ UserBegins(Command("disable", st, Company(stash), no, "merge"))
  BY DEF Disable
<1>. DEFINE c == Command("disable", st, Company(stash), no, "merge")
<1>1. InstallerTypes /\ state # Absent  BY DEF Orderly, Disable
<1>2. st \in States /\ ~st.local /\ st.inst = state.inst  BY <1>1 DEF InstallerTypes, States
<1>3. Company(stash) \in Manifests  BY <1>1, ManifestTypes DEF InstallerTypes
<1>4. UserBegins(c) /\ UNCHANGED <<disk, daemon>> /\ issued' \in Nat /\ enrolled' \in Nat
  BY <1>0, <1>1 DEF Disable, InstallerTypes
<1>. HIDE DEF st
<1>5. /\ c \in Commands /\ c \in Wirings /\ c.pc = "merge" /\ c.op = "disable" /\ c.keep = FALSE
      /\ c.step = 0 /\ c.st = st /\ c.to = Company(stash) /\ c.before = settings
      /\ c.keys = <<Absent, Absent>>
  <2>1. "merge" \in WiringStages  BY DEF WiringStages
  <2>. QED  BY <1>0, <1>1, <1>2, <1>3, <2>1, NewWiring
<1>. HIDE DEF c
<1>6. Standing(c)  BY <1>5 DEF Standing
<1>7. Orderly' /\ cmd'["user"] = c /\ Spares("user")  BY <1>4, <1>5, <1>6, Beginning
<1>8. cmd["user"].pc = "idle" /\ state.local /\ stash # Absent  BY <1>4 DEF UserBegins, Disable
<1>. QED  BY <1>1, <1>2, <1>4, <1>5, <1>7, <1>8 DEF Begun

LEMMA ReconnectBegins ==
    ASSUME Orderly, Reconnect
    PROVE  /\ Orderly' /\ Begun("reconnect") /\ state # Absent /\ issued' = issued + 1
           /\ LET c == cmd'["user"] IN
                /\ c \in Wirings /\ c.pc = (IF state.local THEN "restash" ELSE "merge")
                /\ c.st.token = Token(issued') /\ c.to = Company(c.st.token)
                /\ c.st.inst = state.inst /\ c.st.local = state.local /\ c.st.port = state.port
<1>. DEFINE st == [state EXCEPT !.token = Token(issued')]
            pc == IF state.local THEN "restash" ELSE "merge"
<1>0. PICK no \in BOOLEAN :
        no = FALSE /\ UserBegins(Command("reconnect", st, Company(Token(issued')), no, pc))
  BY DEF Reconnect
<1>. DEFINE c == Command("reconnect", st, Company(Token(issued')), no, pc)
<1>1. InstallerTypes /\ state # Absent  BY DEF Orderly, Reconnect
<1>2. issued' \in Nat /\ enrolled' \in Nat /\ Token(issued') \in Value
  BY <1>1, ToolValues DEF Reconnect, InstallerTypes
<1>3. /\ st \in States /\ st.token = Token(issued') /\ st.inst = state.inst
      /\ st.local = state.local /\ st.port = state.port
  BY <1>1, <1>2 DEF InstallerTypes, States
<1>4. Company(Token(issued')) \in Manifests  BY <1>2, ManifestTypes
<1>5. UserBegins(c) /\ UNCHANGED <<disk, daemon>>  BY <1>0 DEF Reconnect
<1>6. pc \in WiringStages /\ pc \in {"restash", "merge"}  BY DEF WiringStages
<1>. HIDE DEF st, pc
<1>7. /\ c \in Commands /\ c \in Wirings /\ c.pc = pc /\ c.op = "reconnect" /\ c.keep = FALSE
      /\ c.step = 0 /\ c.st = st /\ c.to = Company(Token(issued')) /\ c.before = settings
      /\ c.keys = <<Absent, Absent>>
  BY <1>0, <1>1, <1>3, <1>4, <1>6, NewWiring
<1>. HIDE DEF c
<1>8. Standing(c)  BY <1>6, <1>7 DEF Standing
<1>9. Orderly' /\ cmd'["user"] = c /\ Spares("user")  BY <1>2, <1>5, <1>7, <1>8, Beginning
<1>10. cmd["user"].pc = "idle" /\ issued' = issued + 1  BY <1>5 DEF UserBegins, Reconnect
<1>11. pc = IF state.local THEN "restash" ELSE "merge"  BY DEF pc
<1>. QED  BY <1>1, <1>3, <1>5, <1>7, <1>9, <1>10, <1>11 DEF Begun

\* The plan of a removal.
LEMMA NewRemoval ==
    ASSUME InstallerTypes, managed # Absent, NEW pc \in {"stop", "recordgone"},
           NEW no \in BOOLEAN, no = FALSE
    PROVE  LET c == [Command("uninstall", state, Absent, no, pc) EXCEPT !.old = managed] IN
           /\ c \in Removals /\ c \in Commands /\ Standing(c)
           /\ c.pc = pc /\ c.op = "uninstall" /\ c.st = state /\ c.step = 0 /\ c.keep = FALSE
           /\ c.before = settings /\ c.old = managed /\ c.keys = <<Absent, Absent>>
<1>. DEFINE c == [Command("uninstall", state, Absent, no, pc) EXCEPT !.old = managed]
<1>1. settings \in Files /\ managed \in Records /\ state \in States \cup {Absent}
  BY DEF InstallerTypes
<1>2. <<Absent, Absent>> \in OldKeys  BY ToolValues DEF OldKeys
<1>3. c = [pc |-> pc, op |-> "uninstall", st |-> state, to |-> Absent, keep |-> no,
           step |-> 0, before |-> settings, old |-> managed, keys |-> <<Absent, Absent>>]
  BY DEF Command
<1>. HIDE DEF c
<1>4. c \in Removals
  <2>1. no \in {FALSE} /\ pc \in RemovalStages  BY DEF RemovalStages
  <2>. QED  BY <1>1, <1>2, <1>3, <2>1 DEF Removals
<1>5. /\ c.pc = pc /\ c.op = "uninstall" /\ c.st = state /\ c.step = 0 /\ c.keep = FALSE
      /\ c.before = settings /\ c.old = managed /\ c.keys = <<Absent, Absent>>
  BY <1>3
<1>6. Standing(c)  BY <1>5 DEF Standing
<1>. QED  BY <1>4, <1>5, <1>6 DEF c, Commands

LEMMA UninstallBegins ==
    ASSUME Orderly, Uninstall \/ UninstallAgain
    PROVE  /\ Orderly' /\ Begun("uninstall") /\ managed # Absent
           /\ LET c == cmd'["user"] IN
                /\ c \in Removals /\ c.st = state /\ c.old = managed
                /\ c.pc = (IF state = Absent THEN "recordgone" ELSE "stop")
<1>1. InstallerTypes /\ managed # Absent /\ UNCHANGED <<disk, daemon>>
      /\ issued' \in Nat /\ enrolled' \in Nat
  BY DEF Orderly, Uninstall, UninstallAgain, InstallerTypes
<1>2. PICK pc \in {"stop", "recordgone"}, no \in BOOLEAN :
        /\ no = FALSE /\ pc = (IF state = Absent THEN "recordgone" ELSE "stop")
        /\ UserBegins([Command("uninstall", state, Absent, no, pc) EXCEPT !.old = managed])
  BY DEF Uninstall, UninstallAgain
<1>. DEFINE c == [Command("uninstall", state, Absent, no, pc) EXCEPT !.old = managed]
<1>3. /\ c \in Commands /\ c \in Removals /\ Standing(c) /\ c.pc = pc /\ c.op = "uninstall"
      /\ c.st = state /\ c.step = 0 /\ c.keep = FALSE /\ c.before = settings
      /\ c.old = managed /\ c.keys = <<Absent, Absent>>
  BY <1>1, <1>2, NewRemoval
<1>4. UserBegins(c)  BY <1>2
<1>. HIDE DEF c
<1>5. Orderly' /\ cmd'["user"] = c /\ Spares("user")  BY <1>1, <1>3, <1>4, Beginning
<1>6. cmd["user"].pc = "idle"  BY <1>4 DEF UserBegins
<1>. QED  BY <1>1, <1>2, <1>3, <1>5, <1>6 DEF Begun

\* What a step keeps that leaves all but the commands alone.
LEMMA RestKept ==
    ASSUME InstallerTypes, UNCHANGED <<disk, daemon, issued, enrolled>>
    PROVE  /\ settings' \in Files /\ state' \in States \cup {Absent}
           /\ managed' \in Records \cup {Absent} /\ stash' \in Value
           /\ cred' \in Nat \cup {Absent} /\ daemon' \in DaemonStates
           /\ issued' \in Nat /\ enrolled' \in Nat
BY DEF InstallerTypes, disk

LEMMA BearerTypes ==
    ASSUME NEW t \in Tools, NEW f \in FileOf(t)
    PROVE  BearerIn(t, f) \in Value
<1>1. AuthLeaf(t) \in Leaves(t)  BY DEF AuthLeaf, Leaves, Tools
<1>2. f.leaf \in [Leaves(t) -> Value]  BY DEF FileOf
<1>. QED  BY <1>1, <1>2 DEF BearerIn

LEMMA StashTokenKeepsOrder ==
    ASSUME Orderly, NEW p \in Runners, StashToken(p)
    PROVE  Orderly'
<1>1. InstallerTypes /\ Standing(cmd[p])  BY DEF Orderly
<1>2. cmd[p].pc \in {"stash"} /\ cmd[p] \in Wirings
  BY <1>1, Doing DEF StashToken, At, WiringStages
<1>3. MayStand(cmd[p], "merge", cmd[p].step)  BY <1>1, <1>2 DEF MayStand, Standing
<1>4. stash' \in Value
  <2>1. FirstBearer \in Tools  BY DEF FirstBearer, Tools
  <2>2. settings[FirstBearer] \in FileOf(FirstBearer)  BY <1>1, <2>1 DEF InstallerTypes, Files
  <2>3. BearerIn(FirstBearer, settings[FirstBearer]) \in Value  BY <2>1, <2>2, BearerTypes
  <2>. QED  BY <1>1, <2>3 DEF StashToken, InstallerTypes
<1>5. spent' \in [commands : Nat, troubles : Nat]
  BY <1>1 DEF StashToken, InstallerTypes
<1>6. /\ settings' \in Files /\ state' \in States \cup {Absent}
      /\ managed' \in Records \cup {Absent} /\ stash' \in Value
      /\ cred' \in Nat \cup {Absent} /\ daemon' \in DaemonStates
      /\ issued' \in Nat /\ enrolled' \in Nat
  BY <1>1, <1>4 DEF StashToken, InstallerTypes, disk
<1>7. Goto(p, "merge") /\ "merge" \in WiringStages  BY DEF StashToken, WiringStages
<1>8. cmd[p] \in Wirings  BY <1>1, <1>2 DEF Wirings, WiringStages
<1>. QED  BY <1>2, <1>3, <1>5, <1>6, <1>7, <1>8, GotoKeepsOrder

LEMMA RestashKeepsOrder ==
    ASSUME Orderly, NEW p \in Runners, Restash(p)
    PROVE  Orderly'
<1>1. InstallerTypes /\ Standing(cmd[p])  BY DEF Orderly
<1>2. cmd[p].pc \in {"restash"} /\ cmd[p] \in Wirings
  BY <1>1, Doing DEF Restash, At, WiringStages
<1>3. MayStand(cmd[p], "state", cmd[p].step)  BY <1>1, <1>2 DEF MayStand, Standing
<1>4. stash' \in Value
  BY <1>2 DEF Restash, Wirings, Manifests
<1>5. spent' \in [commands : Nat, troubles : Nat]
  BY <1>1 DEF Restash, InstallerTypes
<1>6. /\ settings' \in Files /\ state' \in States \cup {Absent}
      /\ managed' \in Records \cup {Absent} /\ stash' \in Value
      /\ cred' \in Nat \cup {Absent} /\ daemon' \in DaemonStates
      /\ issued' \in Nat /\ enrolled' \in Nat
  BY <1>1, <1>4 DEF Restash, InstallerTypes, disk
<1>7. Goto(p, "state") /\ "state" \in WiringStages  BY DEF Restash, WiringStages
<1>8. cmd[p] \in Wirings  BY <1>1, <1>2 DEF Wirings, WiringStages
<1>. QED  BY <1>2, <1>3, <1>5, <1>6, <1>7, <1>8, GotoKeepsOrder

LEMMA KeyringRefusesKeepsOrder ==
    ASSUME Orderly, NEW p \in Runners, KeyringRefuses(p)
    PROVE  Orderly'
<1>1. InstallerTypes /\ Standing(cmd[p])  BY DEF Orderly
<1>2. cmd[p].pc \in {"stash", "restash"} /\ cmd[p] \in Wirings
  BY <1>1, Doing DEF KeyringRefuses, At, WiringStages
<1>3. Done(p)  BY DEF KeyringRefuses
<1>5. spent' \in [commands : Nat, troubles : Nat]
  BY <1>1, FaultTypes DEF KeyringRefuses, InstallerTypes
<1>6. /\ settings' \in Files /\ state' \in States \cup {Absent}
      /\ managed' \in Records \cup {Absent} /\ stash' \in Value
      /\ cred' \in Nat \cup {Absent} /\ daemon' \in DaemonStates
      /\ issued' \in Nat /\ enrolled' \in Nat
  BY <1>1 DEF KeyringRefuses, InstallerTypes, disk
<1>. QED  BY <1>3, <1>5, <1>6, EndKeepsOrder

LEMMA MergeFailsKeepsOrder ==
    ASSUME Orderly, NEW p \in Runners, MergeFails(p)
    PROVE  Orderly'
<1>1. InstallerTypes /\ Standing(cmd[p])  BY DEF Orderly
<1>2. cmd[p].pc \in {"merge"} /\ cmd[p] \in Wirings
  BY <1>1, Doing DEF MergeFails, At, WiringStages
<1>3. MayStand(cmd[p], "undo", cmd[p].step)  BY <1>1, <1>2 DEF MayStand, Standing
<1>5. spent' \in [commands : Nat, troubles : Nat]
  BY <1>1, FaultTypes DEF MergeFails, InstallerTypes
<1>6. /\ settings' \in Files /\ state' \in States \cup {Absent}
      /\ managed' \in Records \cup {Absent} /\ stash' \in Value
      /\ cred' \in Nat \cup {Absent} /\ daemon' \in DaemonStates
      /\ issued' \in Nat /\ enrolled' \in Nat
  BY <1>1 DEF MergeFails, InstallerTypes, disk
<1>7. Goto(p, "undo") /\ "undo" \in WiringStages  BY DEF MergeFails, WiringStages
<1>8. cmd[p] \in Wirings  BY <1>1, <1>2 DEF Wirings, WiringStages
<1>. QED  BY <1>2, <1>3, <1>5, <1>6, <1>7, <1>8, GotoKeepsOrder

LEMMA ReadKeysFailsKeepsOrder ==
    ASSUME Orderly, NEW p \in Runners, ReadKeysFails(p)
    PROVE  Orderly'
<1>1. InstallerTypes /\ Standing(cmd[p])  BY DEF Orderly
<1>2. cmd[p].pc \in {"readkeys"} /\ cmd[p] \in Wirings
  BY <1>1, Doing DEF ReadKeysFails, At, WiringStages
<1>3. Done(p)  BY DEF ReadKeysFails
<1>5. spent' \in [commands : Nat, troubles : Nat]
  BY <1>1, FaultTypes DEF ReadKeysFails, InstallerTypes
<1>6. /\ settings' \in Files /\ state' \in States \cup {Absent}
      /\ managed' \in Records \cup {Absent} /\ stash' \in Value
      /\ cred' \in Nat \cup {Absent} /\ daemon' \in DaemonStates
      /\ issued' \in Nat /\ enrolled' \in Nat
  BY <1>1 DEF ReadKeysFails, InstallerTypes, disk
<1>. QED  BY <1>3, <1>5, <1>6, EndKeepsOrder

LEMMA KeepStashKeepsOrder ==
    ASSUME Orderly, NEW p \in Runners, KeepStash(p)
    PROVE  Orderly'
<1>1. InstallerTypes /\ Standing(cmd[p])  BY DEF Orderly
<1>2. cmd[p].pc \in {"keepstash"} /\ cmd[p] \in Wirings
  BY <1>1, Doing DEF KeepStash, At, WiringStages
<1>3. MayStand(cmd[p], "cred", cmd[p].step)  BY <1>1, <1>2 DEF MayStand, Standing
<1>4. stash' \in Value
  BY <1>2 DEF KeepStash, Wirings, States
<1>5. spent' \in [commands : Nat, troubles : Nat]
  BY <1>1 DEF KeepStash, InstallerTypes
<1>6. /\ settings' \in Files /\ state' \in States \cup {Absent}
      /\ managed' \in Records \cup {Absent} /\ stash' \in Value
      /\ cred' \in Nat \cup {Absent} /\ daemon' \in DaemonStates
      /\ issued' \in Nat /\ enrolled' \in Nat
  BY <1>1, <1>4 DEF KeepStash, InstallerTypes, disk
<1>7. Goto(p, "cred") /\ "cred" \in WiringStages  BY DEF KeepStash, WiringStages
<1>8. cmd[p] \in Wirings  BY <1>1, <1>2 DEF Wirings, WiringStages
<1>. QED  BY <1>2, <1>3, <1>5, <1>6, <1>7, <1>8, GotoKeepsOrder

LEMMA KeepStashFailsKeepsOrder ==
    ASSUME Orderly, NEW p \in Runners, KeepStashFails(p)
    PROVE  Orderly'
<1>1. InstallerTypes /\ Standing(cmd[p])  BY DEF Orderly
<1>2. cmd[p].pc \in {"keepstash"} /\ cmd[p] \in Wirings
  BY <1>1, Doing DEF KeepStashFails, At, WiringStages
<1>3. MayStand(cmd[p], "undo", cmd[p].step)  BY <1>1, <1>2 DEF MayStand, Standing
<1>5. spent' \in [commands : Nat, troubles : Nat]
  BY <1>1, FaultTypes DEF KeepStashFails, InstallerTypes
<1>6. /\ settings' \in Files /\ state' \in States \cup {Absent}
      /\ managed' \in Records \cup {Absent} /\ stash' \in Value
      /\ cred' \in Nat \cup {Absent} /\ daemon' \in DaemonStates
      /\ issued' \in Nat /\ enrolled' \in Nat
  BY <1>1 DEF KeepStashFails, InstallerTypes, disk
<1>7. Goto(p, "undo") /\ "undo" \in WiringStages  BY DEF KeepStashFails, WiringStages
<1>8. cmd[p] \in Wirings  BY <1>1, <1>2 DEF Wirings, WiringStages
<1>. QED  BY <1>2, <1>3, <1>5, <1>6, <1>7, <1>8, GotoKeepsOrder

LEMMA SaveCredentialKeepsOrder ==
    ASSUME Orderly, NEW p \in Runners, SaveCredential(p)
    PROVE  Orderly'
<1>1. InstallerTypes /\ Standing(cmd[p])  BY DEF Orderly
<1>2. cmd[p].pc \in {"cred"} /\ cmd[p] \in Wirings
  BY <1>1, Doing DEF SaveCredential, At, WiringStages
<1>3. MayStand(cmd[p], "managed", cmd[p].step)  BY <1>1, <1>2 DEF MayStand, Standing
<1>4. cred' \in Nat \cup {Absent}
  BY <1>2 DEF SaveCredential, Wirings, States
<1>5. spent' \in [commands : Nat, troubles : Nat]
  BY <1>1 DEF SaveCredential, InstallerTypes
<1>6. /\ settings' \in Files /\ state' \in States \cup {Absent}
      /\ managed' \in Records \cup {Absent} /\ stash' \in Value
      /\ cred' \in Nat \cup {Absent} /\ daemon' \in DaemonStates
      /\ issued' \in Nat /\ enrolled' \in Nat
  BY <1>1, <1>4 DEF SaveCredential, InstallerTypes, disk
<1>7. Goto(p, "managed") /\ "managed" \in WiringStages  BY DEF SaveCredential, WiringStages
<1>8. cmd[p] \in Wirings  BY <1>1, <1>2 DEF Wirings, WiringStages
<1>. QED  BY <1>2, <1>3, <1>5, <1>6, <1>7, <1>8, GotoKeepsOrder

LEMMA SaveCredentialFailsKeepsOrder ==
    ASSUME Orderly, NEW p \in Runners, SaveCredentialFails(p)
    PROVE  Orderly'
<1>1. InstallerTypes /\ Standing(cmd[p])  BY DEF Orderly
<1>2. cmd[p].pc \in {"cred"} /\ cmd[p] \in Wirings
  BY <1>1, Doing DEF SaveCredentialFails, At, WiringStages
<1>3. MayStand(cmd[p], "undo", cmd[p].step)  BY <1>1, <1>2 DEF MayStand, Standing
<1>4. stash' \in Value
  BY <1>1, <1>2, Doing DEF SaveCredentialFails, StashBefore, InstallerTypes
<1>5. spent' \in [commands : Nat, troubles : Nat]
  BY <1>1, FaultTypes DEF SaveCredentialFails, InstallerTypes
<1>6. /\ settings' \in Files /\ state' \in States \cup {Absent}
      /\ managed' \in Records \cup {Absent} /\ stash' \in Value
      /\ cred' \in Nat \cup {Absent} /\ daemon' \in DaemonStates
      /\ issued' \in Nat /\ enrolled' \in Nat
  BY <1>1, <1>4 DEF SaveCredentialFails, InstallerTypes, disk
<1>7. Goto(p, "undo") /\ "undo" \in WiringStages  BY DEF SaveCredentialFails, WiringStages
<1>8. cmd[p] \in Wirings  BY <1>1, <1>2 DEF Wirings, WiringStages
<1>. QED  BY <1>2, <1>3, <1>5, <1>6, <1>7, <1>8, GotoKeepsOrder

LEMMA SaveManagedRefusedKeepsOrder ==
    ASSUME Orderly, NEW p \in Runners, SaveManagedRefused(p)
    PROVE  Orderly'
<1>1. InstallerTypes /\ Standing(cmd[p])  BY DEF Orderly
<1>2. cmd[p].pc \in {"managed"} /\ cmd[p] \in Wirings
  BY <1>1, Doing DEF SaveManagedRefused, At, WiringStages
<1>3. MayStand(cmd[p], "undo", cmd[p].step)  BY <1>1, <1>2 DEF MayStand, Standing
<1>4. stash' \in Value /\ cred' \in Nat \cup {Absent}
  BY <1>1, <1>2, Doing DEF SaveManagedRefused, GiveUp, StashBefore, InstallerTypes
<1>5. spent' \in [commands : Nat, troubles : Nat]
  BY <1>1 DEF SaveManagedRefused, InstallerTypes
<1>6. /\ settings' \in Files /\ state' \in States \cup {Absent}
      /\ managed' \in Records \cup {Absent} /\ stash' \in Value
      /\ cred' \in Nat \cup {Absent} /\ daemon' \in DaemonStates
      /\ issued' \in Nat /\ enrolled' \in Nat
  BY <1>1, <1>4 DEF SaveManagedRefused, InstallerTypes, disk
<1>7. Goto(p, "undo") /\ "undo" \in WiringStages  BY DEF SaveManagedRefused, GiveUp, WiringStages
<1>8. cmd[p] \in Wirings  BY <1>1, <1>2 DEF Wirings, WiringStages
<1>. QED  BY <1>2, <1>3, <1>5, <1>6, <1>7, <1>8, GotoKeepsOrder

LEMMA SaveManagedFailsKeepsOrder ==
    ASSUME Orderly, NEW p \in Runners, SaveManagedFails(p)
    PROVE  Orderly'
<1>1. InstallerTypes /\ Standing(cmd[p])  BY DEF Orderly
<1>2. cmd[p].pc \in {"managed"} /\ cmd[p] \in Wirings
  BY <1>1, Doing DEF SaveManagedFails, At, WiringStages
<1>3. MayStand(cmd[p], "undo", cmd[p].step)  BY <1>1, <1>2 DEF MayStand, Standing
<1>4. stash' \in Value /\ cred' \in Nat \cup {Absent}
  BY <1>1, <1>2, Doing DEF SaveManagedFails, GiveUp, StashBefore, InstallerTypes
<1>5. spent' \in [commands : Nat, troubles : Nat]
  BY <1>1, FaultTypes DEF SaveManagedFails, InstallerTypes
<1>6. /\ settings' \in Files /\ state' \in States \cup {Absent}
      /\ managed' \in Records \cup {Absent} /\ stash' \in Value
      /\ cred' \in Nat \cup {Absent} /\ daemon' \in DaemonStates
      /\ issued' \in Nat /\ enrolled' \in Nat
  BY <1>1, <1>4 DEF SaveManagedFails, InstallerTypes, disk
<1>7. Goto(p, "undo") /\ "undo" \in WiringStages  BY DEF SaveManagedFails, GiveUp, WiringStages
<1>8. cmd[p] \in Wirings  BY <1>1, <1>2 DEF Wirings, WiringStages
<1>. QED  BY <1>2, <1>3, <1>5, <1>6, <1>7, <1>8, GotoKeepsOrder

LEMMA WriteStateFailsKeepsOrder ==
    ASSUME Orderly, NEW p \in Runners, WriteStateFails(p)
    PROVE  Orderly'
<1>1. InstallerTypes /\ Standing(cmd[p])  BY DEF Orderly
<1>2. cmd[p].pc \in {"state"} /\ cmd[p] \in Wirings
  BY <1>1, Doing DEF WriteStateFails, At, WiringStages
<1>3. MayStand(cmd[p], "undo", cmd[p].step)  BY <1>1, <1>2 DEF MayStand, Standing
<1>4. stash' \in Value /\ cred' \in Nat \cup {Absent} /\ managed' \in Records \cup {Absent}
  BY <1>1, <1>2, Doing DEF WriteStateFails, GiveUp, StashBefore, InstallerTypes
<1>5. spent' \in [commands : Nat, troubles : Nat]
  BY <1>1, FaultTypes DEF WriteStateFails, InstallerTypes
<1>6. /\ settings' \in Files /\ state' \in States \cup {Absent}
      /\ managed' \in Records \cup {Absent} /\ stash' \in Value
      /\ cred' \in Nat \cup {Absent} /\ daemon' \in DaemonStates
      /\ issued' \in Nat /\ enrolled' \in Nat
  BY <1>1, <1>4 DEF WriteStateFails, InstallerTypes, disk
<1>7. Goto(p, "undo") /\ "undo" \in WiringStages  BY DEF WriteStateFails, GiveUp, WiringStages
<1>8. cmd[p] \in Wirings  BY <1>1, <1>2 DEF Wirings, WiringStages
<1>. QED  BY <1>2, <1>3, <1>5, <1>6, <1>7, <1>8, GotoKeepsOrder

LEMMA ClearStashKeepsOrder ==
    ASSUME Orderly, NEW p \in Runners, ClearStash(p)
    PROVE  Orderly'
<1>1. InstallerTypes /\ Standing(cmd[p])  BY DEF Orderly
<1>2. cmd[p].pc \in {"clear"} /\ cmd[p] \in Wirings
  BY <1>1, Doing DEF ClearStash, At, WiringStages
<1>3. Done(p)  BY DEF ClearStash
<1>4. stash' \in Value
  BY ToolValues DEF ClearStash
<1>5. spent' \in [commands : Nat, troubles : Nat]
  BY <1>1 DEF ClearStash, InstallerTypes
<1>6. /\ settings' \in Files /\ state' \in States \cup {Absent}
      /\ managed' \in Records \cup {Absent} /\ stash' \in Value
      /\ cred' \in Nat \cup {Absent} /\ daemon' \in DaemonStates
      /\ issued' \in Nat /\ enrolled' \in Nat
  BY <1>1, <1>4 DEF ClearStash, InstallerTypes, disk
<1>. QED  BY <1>3, <1>5, <1>6, EndKeepsOrder

LEMMA ClearStashFailsKeepsOrder ==
    ASSUME Orderly, NEW p \in Runners, ClearStashFails(p)
    PROVE  Orderly'
<1>1. InstallerTypes /\ Standing(cmd[p])  BY DEF Orderly
<1>2. cmd[p].pc \in {"clear"} /\ cmd[p] \in Wirings
  BY <1>1, Doing DEF ClearStashFails, At, WiringStages
<1>3. Done(p)  BY DEF ClearStashFails
<1>5. spent' \in [commands : Nat, troubles : Nat]
  BY <1>1, FaultTypes DEF ClearStashFails, InstallerTypes
<1>6. /\ settings' \in Files /\ state' \in States \cup {Absent}
      /\ managed' \in Records \cup {Absent} /\ stash' \in Value
      /\ cred' \in Nat \cup {Absent} /\ daemon' \in DaemonStates
      /\ issued' \in Nat /\ enrolled' \in Nat
  BY <1>1 DEF ClearStashFails, InstallerTypes, disk
<1>. QED  BY <1>3, <1>5, <1>6, EndKeepsOrder

LEMMA StopDaemonKeepsOrder ==
    ASSUME Orderly, StopDaemon
    PROVE  Orderly'
<1>. "user" \in Runners  BY DEF Runners
<1>1. InstallerTypes /\ Standing(cmd["user"])  BY DEF Orderly
<1>2. cmd["user"].pc \in {"stop"} /\ cmd["user"] \in Removals
  BY <1>1, Doing DEF StopDaemon, At, RemovalStages
<1>3. MayStand(cmd["user"], "lease", cmd["user"].step)  BY <1>1, <1>2 DEF MayStand, Standing
<1>4. daemon' \in DaemonStates
  BY <1>1 DEF StopDaemon, InstallerTypes, DaemonStates
<1>5. spent' \in [commands : Nat, troubles : Nat]
  BY <1>1 DEF StopDaemon, InstallerTypes
<1>6. /\ settings' \in Files /\ state' \in States \cup {Absent}
      /\ managed' \in Records \cup {Absent} /\ stash' \in Value
      /\ cred' \in Nat \cup {Absent} /\ daemon' \in DaemonStates
      /\ issued' \in Nat /\ enrolled' \in Nat
  BY <1>1, <1>4 DEF StopDaemon, InstallerTypes, disk
<1>7. Goto("user", "lease") /\ "lease" \in RemovalStages  BY DEF StopDaemon, RemovalStages
<1>8. cmd["user"] \notin Wirings  BY <1>1, <1>2 DEF Wirings, RemovalStages, WiringStages
<1>. QED  BY <1>2, <1>3, <1>5, <1>6, <1>7, <1>8, GotoKeepsOrder

LEMMA StopRefusedKeepsOrder ==
    ASSUME Orderly, StopRefused
    PROVE  Orderly'
<1>. "user" \in Runners  BY DEF Runners
<1>1. InstallerTypes /\ Standing(cmd["user"])  BY DEF Orderly
<1>2. cmd["user"].pc \in {"stop"} /\ cmd["user"] \in Removals
  BY <1>1, Doing DEF StopRefused, At, RemovalStages
<1>3. Done("user")  BY DEF StopRefused
<1>5. spent' \in [commands : Nat, troubles : Nat]
  BY <1>1 DEF StopRefused, InstallerTypes
<1>6. /\ settings' \in Files /\ state' \in States \cup {Absent}
      /\ managed' \in Records \cup {Absent} /\ stash' \in Value
      /\ cred' \in Nat \cup {Absent} /\ daemon' \in DaemonStates
      /\ issued' \in Nat /\ enrolled' \in Nat
  BY <1>1 DEF StopRefused, InstallerTypes, disk
<1>. QED  BY <1>3, <1>5, <1>6, EndKeepsOrder

LEMMA ReleaseFailsKeepsOrder ==
    ASSUME Orderly, ReleaseFails
    PROVE  Orderly'
<1>. "user" \in Runners  BY DEF Runners
<1>1. InstallerTypes /\ Standing(cmd["user"])  BY DEF Orderly
<1>2. cmd["user"].pc \in {"release"} /\ cmd["user"] \in Removals
  BY <1>1, Doing DEF ReleaseFails, At, RemovalStages
<1>3. MayStand(cmd["user"], "unrelease", cmd["user"].step)  BY <1>1, <1>2 DEF MayStand, Standing
<1>5. spent' \in [commands : Nat, troubles : Nat]
  BY <1>1, FaultTypes DEF ReleaseFails, InstallerTypes
<1>6. /\ settings' \in Files /\ state' \in States \cup {Absent}
      /\ managed' \in Records \cup {Absent} /\ stash' \in Value
      /\ cred' \in Nat \cup {Absent} /\ daemon' \in DaemonStates
      /\ issued' \in Nat /\ enrolled' \in Nat
  BY <1>1 DEF ReleaseFails, InstallerTypes, disk
<1>7. Goto("user", "unrelease") /\ "unrelease" \in RemovalStages  BY DEF ReleaseFails, RemovalStages
<1>8. cmd["user"] \notin Wirings  BY <1>1, <1>2 DEF Wirings, RemovalStages, WiringStages
<1>. QED  BY <1>2, <1>3, <1>5, <1>6, <1>7, <1>8, GotoKeepsOrder

LEMMA DropCredentialKeepsOrder ==
    ASSUME Orderly, DropCredential
    PROVE  Orderly'
<1>. "user" \in Runners  BY DEF Runners
<1>1. InstallerTypes /\ Standing(cmd["user"])  BY DEF Orderly
<1>2. cmd["user"].pc \in {"credgone"} /\ cmd["user"] \in Removals
  BY <1>1, Doing DEF DropCredential, At, RemovalStages
<1>3. MayStand(cmd["user"], "stashgone", cmd["user"].step)  BY <1>1, <1>2 DEF MayStand, Standing
<1>5. spent' \in [commands : Nat, troubles : Nat]
  BY <1>1 DEF DropCredential, InstallerTypes
<1>6. /\ settings' \in Files /\ state' \in States \cup {Absent}
      /\ managed' \in Records \cup {Absent} /\ stash' \in Value
      /\ cred' \in Nat \cup {Absent} /\ daemon' \in DaemonStates
      /\ issued' \in Nat /\ enrolled' \in Nat
  BY <1>1 DEF DropCredential, InstallerTypes, disk
<1>7. Goto("user", "stashgone") /\ "stashgone" \in RemovalStages  BY DEF DropCredential, RemovalStages
<1>8. cmd["user"] \notin Wirings  BY <1>1, <1>2 DEF Wirings, RemovalStages, WiringStages
<1>. QED  BY <1>2, <1>3, <1>5, <1>6, <1>7, <1>8, GotoKeepsOrder

LEMMA DropStashKeepsOrder ==
    ASSUME Orderly, DropStash
    PROVE  Orderly'
<1>. "user" \in Runners  BY DEF Runners
<1>1. InstallerTypes /\ Standing(cmd["user"])  BY DEF Orderly
<1>2. cmd["user"].pc \in {"stashgone"} /\ cmd["user"] \in Removals
  BY <1>1, Doing DEF DropStash, At, RemovalStages
<1>3. MayStand(cmd["user"], "stategone", cmd["user"].step)  BY <1>1, <1>2 DEF MayStand, Standing
<1>4. stash' \in Value
  BY ToolValues DEF DropStash
<1>5. spent' \in [commands : Nat, troubles : Nat]
  BY <1>1 DEF DropStash, InstallerTypes
<1>6. /\ settings' \in Files /\ state' \in States \cup {Absent}
      /\ managed' \in Records \cup {Absent} /\ stash' \in Value
      /\ cred' \in Nat \cup {Absent} /\ daemon' \in DaemonStates
      /\ issued' \in Nat /\ enrolled' \in Nat
  BY <1>1, <1>4 DEF DropStash, InstallerTypes, disk
<1>7. Goto("user", "stategone") /\ "stategone" \in RemovalStages  BY DEF DropStash, RemovalStages
<1>8. cmd["user"] \notin Wirings  BY <1>1, <1>2 DEF Wirings, RemovalStages, WiringStages
<1>. QED  BY <1>2, <1>3, <1>5, <1>6, <1>7, <1>8, GotoKeepsOrder

LEMMA DropStateKeepsOrder ==
    ASSUME Orderly, DropState
    PROVE  Orderly'
<1>. "user" \in Runners  BY DEF Runners
<1>1. InstallerTypes /\ Standing(cmd["user"])  BY DEF Orderly
<1>2. cmd["user"].pc \in {"stategone"} /\ cmd["user"] \in Removals
  BY <1>1, Doing DEF DropState, At, RemovalStages
<1>3. MayStand(cmd["user"], "recordgone", cmd["user"].step)  BY <1>1, <1>2 DEF MayStand, Standing
<1>5. spent' \in [commands : Nat, troubles : Nat]
  BY <1>1 DEF DropState, InstallerTypes
<1>6. /\ settings' \in Files /\ state' \in States \cup {Absent}
      /\ managed' \in Records \cup {Absent} /\ stash' \in Value
      /\ cred' \in Nat \cup {Absent} /\ daemon' \in DaemonStates
      /\ issued' \in Nat /\ enrolled' \in Nat
  BY <1>1 DEF DropState, InstallerTypes, disk
<1>7. Goto("user", "recordgone") /\ "recordgone" \in RemovalStages  BY DEF DropState, RemovalStages
<1>8. cmd["user"] \notin Wirings  BY <1>1, <1>2 DEF Wirings, RemovalStages, WiringStages
<1>. QED  BY <1>2, <1>3, <1>5, <1>6, <1>7, <1>8, GotoKeepsOrder

LEMMA DropRecordKeepsOrder ==
    ASSUME Orderly, DropRecord
    PROVE  Orderly'
<1>. "user" \in Runners  BY DEF Runners
<1>1. InstallerTypes /\ Standing(cmd["user"])  BY DEF Orderly
<1>2. cmd["user"].pc \in {"recordgone"} /\ cmd["user"] \in Removals
  BY <1>1, Doing DEF DropRecord, At, RemovalStages
<1>3. Done("user")  BY DEF DropRecord
<1>5. spent' \in [commands : Nat, troubles : Nat]
  BY <1>1 DEF DropRecord, InstallerTypes
<1>6. /\ settings' \in Files /\ state' \in States \cup {Absent}
      /\ managed' \in Records \cup {Absent} /\ stash' \in Value
      /\ cred' \in Nat \cup {Absent} /\ daemon' \in DaemonStates
      /\ issued' \in Nat /\ enrolled' \in Nat
  BY <1>1 DEF DropRecord, InstallerTypes, disk
<1>. QED  BY <1>3, <1>5, <1>6, EndKeepsOrder

LEMMA DropFailsKeepsOrder ==
    ASSUME Orderly, DropFails
    PROVE  Orderly'
<1>. "user" \in Runners  BY DEF Runners
<1>1. InstallerTypes /\ Standing(cmd["user"])  BY DEF Orderly
<1>2. cmd["user"].pc \in {"credgone", "stashgone", "stategone", "recordgone"} /\ cmd["user"] \in Removals
  BY <1>1, Doing DEF DropFails, At, RemovalStages
<1>3. Done("user")  BY DEF DropFails
<1>5. spent' \in [commands : Nat, troubles : Nat]
  BY <1>1, FaultTypes DEF DropFails, InstallerTypes
<1>6. /\ settings' \in Files /\ state' \in States \cup {Absent}
      /\ managed' \in Records \cup {Absent} /\ stash' \in Value
      /\ cred' \in Nat \cup {Absent} /\ daemon' \in DaemonStates
      /\ issued' \in Nat /\ enrolled' \in Nat
  BY <1>1 DEF DropFails, InstallerTypes, disk
<1>. QED  BY <1>3, <1>5, <1>6, EndKeepsOrder

\* A step that writes one file.
LEMMA FileWritten ==
    ASSUME settings \in Files, NEW t \in Tools, NEW f \in FileOf(t),
           settings' = [settings EXCEPT ![t] = f]
    PROVE  /\ settings' \in Files /\ settings'[t] = f
           /\ \A u \in Tools \ {t} : settings'[u] = settings[u]
<1>1. settings \in [Tools -> File] /\ f \in File  BY DEF Files, FileOf
<1>2. settings' \in [Tools -> File]  BY <1>1
<1>3. settings'[t] = f /\ \A u \in Tools \ {t} : settings'[u] = settings[u]  BY <1>1
<1>4. \A u \in Tools : settings'[u] \in FileOf(u)  BY <1>3 DEF Files
<1>. QED  BY <1>2, <1>3, <1>4 DEF Files

LEMMA MergeWrites ==
    ASSUME Orderly, NEW p \in Runners, Merge(p)
    PROVE  LET c == cmd[p]
               t == Order[c.step + 1]
           IN /\ InstallerTypes /\ c \in Wirings /\ c.pc = "merge" /\ c.step \in {0, 1} /\ t \in Tools
              /\ settings[t] \in FileOf(t) /\ c.to \in Manifests /\ c.keep \in BOOLEAN
              /\ settings' = [settings EXCEPT ![t] = Merged(t, settings[t], c.to, c.keep)]
              /\ settings' \in Files
              /\ settings'[t] = Merged(t, settings[t], c.to, c.keep)
              /\ \A u \in Tools \ {t} : settings'[u] = settings[u]
<1>. DEFINE c == cmd[p]
            t == Order[c.step + 1]
<1>1. InstallerTypes /\ Standing(c)  BY DEF Orderly
<1>2. c.pc = "merge" /\ c \in Wirings  BY <1>1, Doing DEF Merge, At, WiringStages
<1>3. c.step \in {0, 1}  BY <1>1, <1>2 DEF Standing, Wirings
<1>4. t \in Tools  BY <1>3, ToolValues
<1>5. settings[t] \in FileOf(t) /\ c.to \in Manifests /\ c.keep \in BOOLEAN /\ settings \in Files
  BY <1>1, <1>2, <1>4 DEF InstallerTypes, Files, Wirings
<1>6. settings' = [settings EXCEPT ![t] = Merged(t, settings[t], c.to, c.keep)]
  BY <1>4, <1>5 DEF Merge, Files
<1>7. Merged(t, settings[t], c.to, c.keep) \in FileOf(t)  BY <1>4, <1>5, MergedTypes
<1>. HIDE DEF t, c
<1>8. /\ settings' \in Files /\ settings'[t] = Merged(t, settings[t], c.to, c.keep)
      /\ \A u \in Tools \ {t} : settings'[u] = settings[u]
  BY <1>4, <1>5, <1>6, <1>7, FileWritten
<1>. QED  BY <1>1, <1>2, <1>3, <1>4, <1>5, <1>6, <1>8 DEF c, t

LEMMA MergeMoves ==
    ASSUME Orderly, NEW p \in Runners, Merge(p)
    PROVE  /\ CommandTypes' /\ Spares(p)
           /\ LET c == cmd[p] IN
                Moves(p, IF c.step + 1 = 2 THEN AfterMerge(c.op) ELSE "merge", c.step + 1, c.old, c.keys)
<1>. DEFINE c == cmd[p]
            pc == IF c.step + 1 = 2 THEN AfterMerge(c.op) ELSE "merge"
<1>1. InstallerTypes /\ c \in Wirings /\ c.pc = "merge" /\ c.step \in {0, 1}  BY MergeWrites
<1>2. cmd' = [cmd EXCEPT ![p].step = c.step + 1, ![p].pc = pc]  BY ToolValues DEF Merge
<1>3. pc \in WiringStages /\ c.step + 1 \in 0 .. 2  BY <1>1 DEF AfterMerge, WiringStages
<1>. HIDE DEF pc
<1>4. CommandTypes' /\ Moves(p, pc, c.step + 1, c.old, c.keys) /\ Spares(p)
  BY <1>1, <1>2, <1>3, StepMoves
<1>. QED  BY <1>4 DEF pc

LEMMA MergeKeepsOrder ==
    ASSUME Orderly, NEW p \in Runners, Merge(p)
    PROVE  Orderly'
<1>. DEFINE c == cmd[p]
            pc == IF c.step + 1 = 2 THEN AfterMerge(c.op) ELSE "merge"
<1>1. InstallerTypes /\ c.pc = "merge" /\ c.step \in {0, 1} /\ settings' \in Files  BY MergeWrites
<1>2. CommandTypes' /\ Moves(p, pc, c.step + 1, c.old, c.keys) /\ Spares(p)  BY MergeMoves
<1>3. Standing(c)  BY DEF Orderly
<1>4. Standing(cmd[p])'  BY <1>1, <1>2, <1>3 DEF Standing, Moves, AfterMerge
<1>5. /\ state' \in States \cup {Absent}
      /\ managed' \in Records \cup {Absent} /\ stash' \in Value
      /\ cred' \in Nat \cup {Absent} /\ daemon' \in DaemonStates
      /\ issued' \in Nat /\ enrolled' \in Nat /\ spent' \in [commands : Nat, troubles : Nat]
  BY <1>1 DEF Merge, InstallerTypes
<1>. QED  BY <1>1, <1>2, <1>4, <1>5, OrderKept

LEMMA UndoMoves ==
    ASSUME Orderly, NEW p \in Runners, Undo(p)
    PROVE  LET c == cmd[p]
               t == Order[c.step]
           IN /\ InstallerTypes /\ c \in Wirings /\ c.pc = "undo" /\ c.step \in 0 .. 2
              /\ CommandTypes' /\ Spares(p) /\ settings' \in Files
              /\ c.step = 0 => Done(p) /\ cmd'[p] = NoCommand /\ settings' = settings
              /\ c.step # 0 => /\ t \in Tools /\ settings'[t] = c.before[t]
                               /\ \A u \in Tools \ {t} : settings'[u] = settings[u]
                               /\ Moves(p, "undo", c.step - 1, c.old, c.keys)
<1>. DEFINE c == cmd[p]
            t == Order[c.step]
<1>1. InstallerTypes /\ Standing(c)  BY DEF Orderly
<1>2. c.pc = "undo" /\ c \in Wirings /\ c.step \in 0 .. 2 /\ c.before \in Files
  BY <1>1, Doing DEF Undo, At, WiringStages
<1>3. CommandTypes /\ settings \in Files  BY <1>1 DEF InstallerTypes, CommandTypes
<1>4. CASE c.step = 0
  <2>1. Done(p) /\ settings' = settings  BY <1>4 DEF Undo
  <2>. QED  BY <1>1, <1>2, <1>3, <1>4, <2>1, Ending
<1>5. CASE c.step # 0
  <2>1. t \in Tools /\ c.step - 1 \in 0 .. 2  BY <1>2, <1>5, ToolValues
  <2>2. c.before[t] \in FileOf(t)  BY <1>2, <2>1 DEF Files
  <2>3. settings' = [settings EXCEPT ![t] = c.before[t]]  BY <1>5 DEF Undo
  <2>4. cmd' = [cmd EXCEPT ![p].step = c.step - 1]  BY <1>5 DEF Undo
  <2>. HIDE DEF t
  <2>5. settings' \in Files /\ settings'[t] = c.before[t]
        /\ \A u \in Tools \ {t} : settings'[u] = settings[u]
    BY <1>3, <2>1, <2>2, <2>3, FileWritten
  <2>6. CommandTypes' /\ Moves(p, "undo", c.step - 1, c.old, c.keys) /\ Spares(p)
    BY <1>1, <1>2, <2>1, <2>4, BackMoves
  <2>. QED  BY <1>1, <1>2, <1>5, <2>1, <2>5, <2>6 DEF t
<1>. QED  BY <1>4, <1>5

LEMMA UndoKeepsOrder ==
    ASSUME Orderly, NEW p \in Runners, Undo(p)
    PROVE  Orderly'
<1>1. InstallerTypes /\ cmd[p].pc = "undo" /\ CommandTypes' /\ Spares(p) /\ settings' \in Files
  BY UndoMoves
<1>2. Standing(cmd[p])'
  <2>1. CASE cmd[p].step = 0  BY <2>1, UndoMoves, IdleStands
  <2>2. CASE cmd[p].step # 0
    <3>1. Moves(p, "undo", cmd[p].step - 1, cmd[p].old, cmd[p].keys)  BY <2>2, UndoMoves
    <3>2. Standing(cmd[p])  BY DEF Orderly
    <3>. QED  BY <1>1, <3>1, <3>2 DEF Moves, Standing
  <2>. QED  BY <2>1, <2>2
<1>3. /\ state' \in States \cup {Absent}
      /\ managed' \in Records \cup {Absent} /\ stash' \in Value
      /\ cred' \in Nat \cup {Absent} /\ daemon' \in DaemonStates
      /\ issued' \in Nat /\ enrolled' \in Nat /\ spent' \in [commands : Nat, troubles : Nat]
  BY <1>1 DEF Undo, InstallerTypes
<1>. QED  BY <1>1, <1>2, <1>3, OrderKept

LEMMA ReadKeysMoves ==
    ASSUME Orderly, NEW p \in Runners, ReadKeys(p)
    PROVE  /\ InstallerTypes /\ cmd[p].pc = "readkeys" /\ cmd[p] \in Wirings
           /\ CommandTypes' /\ Spares(p)
           /\ Moves(p, IF cmd[p].to.local THEN "keepstash" ELSE "cred", cmd[p].step, cmd[p].old,
                    <<stash, cred>>)
<1>. DEFINE pc == IF cmd[p].to.local THEN "keepstash" ELSE "cred"
<1>1. InstallerTypes  BY DEF Orderly
<1>2. cmd[p].pc = "readkeys" /\ cmd[p] \in Wirings  BY <1>1, Doing DEF ReadKeys, At, WiringStages
<1>3. <<stash, cred>> \in OldKeys  BY <1>1 DEF InstallerTypes, OldKeys
<1>4. pc \in WiringStages  BY DEF WiringStages
<1>5. cmd' = [cmd EXCEPT ![p].keys = <<stash, cred>>, ![p].pc = pc]  BY DEF ReadKeys
<1>. HIDE DEF pc
<1>6. CommandTypes' /\ Moves(p, pc, cmd[p].step, cmd[p].old, <<stash, cred>>) /\ Spares(p)
  BY <1>1, <1>2, <1>3, <1>4, <1>5, KeysMoves
<1>. QED  BY <1>1, <1>2, <1>6 DEF pc

LEMMA ReadKeysKeepsOrder ==
    ASSUME Orderly, NEW p \in Runners, ReadKeys(p)
    PROVE  Orderly'
<1>1. /\ InstallerTypes /\ cmd[p].pc = "readkeys" /\ CommandTypes' /\ Spares(p)
      /\ Moves(p, IF cmd[p].to.local THEN "keepstash" ELSE "cred", cmd[p].step, cmd[p].old,
               <<stash, cred>>)
  BY ReadKeysMoves
<1>2. Standing(cmd[p])  BY DEF Orderly
<1>3. Standing(cmd[p])'  BY <1>1, <1>2 DEF Moves, Standing
<1>4. /\ settings' \in Files /\ state' \in States \cup {Absent}
      /\ managed' \in Records \cup {Absent} /\ stash' \in Value
      /\ cred' \in Nat \cup {Absent} /\ daemon' \in DaemonStates
      /\ issued' \in Nat /\ enrolled' \in Nat /\ spent' \in [commands : Nat, troubles : Nat]
  BY <1>1 DEF ReadKeys, InstallerTypes, disk
<1>. QED  BY <1>1, <1>3, <1>4, OrderKept

LEMMA SaveManagedMoves ==
    ASSUME Orderly, NEW p \in Runners, SaveManaged(p)
    PROVE  /\ InstallerTypes /\ cmd[p].pc = "managed" /\ cmd[p] \in Wirings
           /\ managed' \in Records /\ managed'.inst = cmd[p].st.inst
           /\ \A t \in Tools : /\ OldRecord(t) \in RecordOf(t) \cup {Absent}
                               /\ managed'.rec[t] = Recorded(t, cmd[p].to, cmd[p].keep, OldRecord(t))
           /\ CommandTypes' /\ Spares(p)
           /\ Moves(p, "state", cmd[p].step, managed, cmd[p].keys)
<1>. DEFINE rec == [t \in Tools |-> Recorded(t, cmd[p].to, cmd[p].keep, OldRecord(t))]
<1>1. InstallerTypes  BY DEF Orderly
<1>2. cmd[p].pc = "managed" /\ cmd[p] \in Wirings
  BY <1>1, Doing DEF SaveManaged, At, WiringStages
<1>3. cmd[p].st \in States /\ cmd[p].to \in Manifests /\ cmd[p].keep \in BOOLEAN
      /\ managed \in Records \cup {Absent}
  BY <1>1, <1>2 DEF Wirings, InstallerTypes
<1>4. \A t \in Tools : OldRecord(t) \in RecordOf(t) \cup {Absent}  BY <1>3 DEF OldRecord, Records
<1>5. \A t \in Tools : Recorded(t, cmd[p].to, cmd[p].keep, OldRecord(t)) \in RecordOf(t)
  BY <1>3, <1>4, RecordedTypes
<1>6. rec \in [Tools -> Record] /\ \A t \in Tools : rec[t] \in RecordOf(t)  BY <1>5 DEF RecordOf
<1>7. managed' = [inst |-> cmd[p].st.inst, rec |-> rec]  BY DEF SaveManaged
<1>8. \A t \in Tools : rec[t] = Recorded(t, cmd[p].to, cmd[p].keep, OldRecord(t))  OBVIOUS
<1>. HIDE DEF rec
<1>9. managed' \in Records /\ managed'.inst = cmd[p].st.inst /\ managed'.rec = rec
  BY <1>3, <1>6, <1>7 DEF Records, States
<1>10. cmd' = [cmd EXCEPT ![p].old = managed, ![p].pc = "state"] /\ "state" \in WiringStages
  BY DEF SaveManaged, WiringStages
<1>11. CommandTypes' /\ Moves(p, "state", cmd[p].step, managed, cmd[p].keys) /\ Spares(p)
  BY <1>1, <1>2, <1>3, <1>10, RecordMoves
<1>. QED  BY <1>1, <1>2, <1>4, <1>8, <1>9, <1>11

LEMMA SaveManagedKeepsOrder ==
    ASSUME Orderly, NEW p \in Runners, SaveManaged(p)
    PROVE  Orderly'
<1>1. /\ InstallerTypes /\ cmd[p].pc = "managed" /\ managed' \in Records /\ CommandTypes'
      /\ Spares(p) /\ Moves(p, "state", cmd[p].step, managed, cmd[p].keys)
  BY SaveManagedMoves
<1>2. Standing(cmd[p])  BY DEF Orderly
<1>3. Standing(cmd[p])'  BY <1>1, <1>2 DEF Moves, Standing
<1>4. /\ settings' \in Files /\ state' \in States \cup {Absent} /\ stash' \in Value
      /\ cred' \in Nat \cup {Absent} /\ daemon' \in DaemonStates
      /\ issued' \in Nat /\ enrolled' \in Nat /\ spent' \in [commands : Nat, troubles : Nat]
  BY <1>1 DEF SaveManaged, InstallerTypes
<1>. QED  BY <1>1, <1>3, <1>4, OrderKept

LEMMA WriteStateKeepsOrder ==
    ASSUME Orderly, NEW p \in Runners, WriteState(p)
    PROVE  Orderly'
<1>1. InstallerTypes /\ Standing(cmd[p])  BY DEF Orderly
<1>2. cmd[p].pc = "state" /\ cmd[p] \in Wirings  BY <1>1, Doing DEF WriteState, At, WiringStages
<1>3. cmd[p].st \in States  BY <1>2 DEF Wirings
<1>4. /\ settings' \in Files /\ state' \in States \cup {Absent}
      /\ managed' \in Records \cup {Absent} /\ stash' \in Value
      /\ cred' \in Nat \cup {Absent} /\ daemon' \in DaemonStates
      /\ issued' \in Nat /\ enrolled' \in Nat /\ spent' \in [commands : Nat, troubles : Nat]
  BY <1>1, <1>3 DEF WriteState, InstallerTypes
<1>5. CASE cmd[p].op = "disable"
  <2>1. Goto(p, "clear") /\ "clear" \in WiringStages  BY <1>5 DEF WriteState, WiringStages
  <2>2. MayStand(cmd[p], "clear", cmd[p].step)  BY <1>1, <1>2, <1>5 DEF MayStand, Standing
  <2>. QED  BY <1>2, <1>4, <2>1, <2>2, GotoKeepsOrder
<1>6. CASE cmd[p].op # "disable"
  <2>1. Done(p)  BY <1>6 DEF WriteState
  <2>. QED  BY <1>4, <2>1, EndKeepsOrder
<1>. QED  BY <1>5, <1>6

LEMMA TakeLeaseKeepsOrder == Orderly /\ TakeLease => Orderly'
<1>. SUFFICES ASSUME Orderly, TakeLease  PROVE Orderly'  OBVIOUS
<1>. "user" \in Runners  BY DEF Runners
<1>1. InstallerTypes /\ Standing(cmd["user"])  BY DEF Orderly
<1>2. cmd["user"].pc = "lease" /\ cmd["user"] \in Removals
  BY <1>1, Doing DEF TakeLease, At, RemovalStages
<1>3. /\ settings' \in Files /\ state' \in States \cup {Absent}
      /\ managed' \in Records \cup {Absent} /\ stash' \in Value
      /\ cred' \in Nat \cup {Absent} /\ daemon' \in DaemonStates
      /\ issued' \in Nat /\ enrolled' \in Nat /\ spent' \in [commands : Nat, troubles : Nat]
  BY <1>1 DEF TakeLease, InstallerTypes, disk
<1>4. CASE Goto("user", "release")
  <2>1. cmd["user"] \notin Wirings /\ "release" \in RemovalStages
    BY <1>2 DEF Wirings, WiringStages, RemovalStages
  <2>2. MayStand(cmd["user"], "release", cmd["user"].step)
    BY <1>1, <1>2 DEF MayStand, Standing
  <2>. QED  BY <1>2, <1>3, <1>4, <2>1, <2>2, GotoKeepsOrder
<1>5. CASE Done("user")  BY <1>3, <1>5, EndKeepsOrder
<1>. QED  BY <1>4, <1>5 DEF TakeLease

\* What a removal writes.
LEMMA PlannedTypes ==
    ASSUME InstallerTypes, cmd["user"] \in Removals, NEW t \in Tools
    PROVE  /\ cmd["user"].before[t] \in FileOf(t) /\ cmd["user"].old.rec[t] \in RecordOf(t)
           /\ Planned(cmd["user"], t) \in FileOf(t)
<1>1. cmd["user"].before \in Files /\ cmd["user"].old \in Records  BY DEF Removals
<1>2. cmd["user"].before[t] \in FileOf(t) /\ cmd["user"].old.rec[t] \in RecordOf(t)
  BY <1>1 DEF Files, Records
<1>. QED  BY <1>2, RemovedTypes DEF Planned

LEMMA ReleaseMoves ==
    ASSUME Orderly, Release
    PROVE  LET c == cmd["user"]
               t == Order[c.step + 1]
           IN /\ InstallerTypes /\ c \in Removals /\ c.pc = "release" /\ c.step \in {0, 1} /\ t \in Tools
              /\ settings[t] = c.before[t]
              /\ settings' \in Files /\ settings'[t] = Planned(c, t)
              /\ \A u \in Tools \ {t} : settings'[u] = settings[u]
              /\ CommandTypes' /\ Spares("user")
              /\ Moves("user", IF c.step + 1 = 2 THEN "credgone" ELSE "release", c.step + 1, c.old, c.keys)
<1>. DEFINE c == cmd["user"]
            t == Order[c.step + 1]
            pc == IF c.step + 1 = 2 THEN "credgone" ELSE "release"
<1>. "user" \in Runners  BY DEF Runners
<1>1. InstallerTypes /\ Standing(c)  BY DEF Orderly
<1>2. c.pc = "release" /\ c \in Removals  BY <1>1, Doing DEF Release, At, RemovalStages
<1>3. c.step \in {0, 1}
  <2>1. c.step \in 0 .. 2  BY <1>1, <1>2, Doing
  <2>2. c.step < 2  BY <1>1, <1>2 DEF Standing
  <2>. QED  BY <2>1, <2>2
<1>4. t \in Tools  BY <1>3, ToolValues
<1>5. settings \in Files /\ Planned(c, t) \in FileOf(t)
  BY <1>1, <1>2, <1>4, PlannedTypes DEF InstallerTypes
<1>6. settings[t] = c.before[t] /\ settings' = [settings EXCEPT ![t] = Planned(c, t)]  BY DEF Release
<1>7. cmd' = [cmd EXCEPT !["user"].step = c.step + 1, !["user"].pc = pc]
  BY ToolValues DEF Release
<1>8. pc \in RemovalStages /\ c.step + 1 \in 0 .. 2 /\ c \notin Wirings
  BY <1>2, <1>3 DEF RemovalStages, Wirings, WiringStages
<1>. HIDE DEF pc, t
<1>9. CommandTypes' /\ Moves("user", pc, c.step + 1, c.old, c.keys) /\ Spares("user")
  BY <1>1, <1>2, <1>7, <1>8, StepMoves
<1>. HIDE DEF c
<1>10. settings' \in Files /\ settings'[t] = Planned(c, t)
       /\ \A u \in Tools \ {t} : settings'[u] = settings[u]
  BY <1>4, <1>5, <1>6, FileWritten
<1>. QED  BY <1>1, <1>2, <1>3, <1>4, <1>6, <1>9, <1>10 DEF c, t, pc

LEMMA ReleaseKeepsOrder == Orderly /\ Release => Orderly'
<1>. SUFFICES ASSUME Orderly, Release  PROVE Orderly'  OBVIOUS
<1>. DEFINE c == cmd["user"]
<1>1. "user" \in Runners  BY DEF Runners
<1>2. /\ InstallerTypes /\ c.pc = "release" /\ c.step \in {0, 1} /\ settings' \in Files
      /\ CommandTypes' /\ Spares("user")
      /\ Moves("user", IF c.step + 1 = 2 THEN "credgone" ELSE "release", c.step + 1, c.old, c.keys)
  BY ReleaseMoves
<1>3. Standing(c)  BY <1>1 DEF Orderly
<1>4. Standing(cmd["user"])'  BY <1>2, <1>3 DEF Moves, Standing
<1>5. /\ state' \in States \cup {Absent}
      /\ managed' \in Records \cup {Absent} /\ stash' \in Value
      /\ cred' \in Nat \cup {Absent} /\ daemon' \in DaemonStates
      /\ issued' \in Nat /\ enrolled' \in Nat /\ spent' \in [commands : Nat, troubles : Nat]
  BY <1>2 DEF Release, InstallerTypes
<1>. QED  BY <1>1, <1>2, <1>4, <1>5, OrderKept

LEMMA UnreleaseMoves ==
    ASSUME Orderly, Unrelease
    PROVE  LET c == cmd["user"]
               t == Order[c.step]
           IN /\ InstallerTypes /\ c \in Removals /\ c.pc = "unrelease" /\ c.step \in 0 .. 2
              /\ CommandTypes' /\ Spares("user") /\ settings' \in Files
              /\ c.step = 0 => Done("user") /\ cmd'["user"] = NoCommand /\ settings' = settings
              /\ c.step # 0 => /\ t \in Tools
                               /\ settings'[t] = IF settings[t] = Planned(c, t) THEN c.before[t]
                                                 ELSE settings[t]
                               /\ \A u \in Tools \ {t} : settings'[u] = settings[u]
                               /\ Moves("user", "unrelease", c.step - 1, c.old, c.keys)
<1>. DEFINE c == cmd["user"]
            t == Order[c.step]
            f == IF settings[t] = Planned(c, t) THEN c.before[t] ELSE settings[t]
<1>. "user" \in Runners  BY DEF Runners
<1>1. InstallerTypes /\ Standing(c)  BY DEF Orderly
<1>2. c.pc = "unrelease" /\ c \in Removals /\ c.step \in 0 .. 2
  BY <1>1, Doing DEF Unrelease, At, RemovalStages
<1>3. CommandTypes /\ settings \in Files  BY <1>1 DEF InstallerTypes, CommandTypes
<1>4. CASE c.step = 0
  <2>1. Done("user") /\ settings' = settings  BY <1>4 DEF Unrelease
  <2>. QED  BY <1>1, <1>2, <1>3, <1>4, <2>1, Ending
<1>5. CASE c.step # 0
  <2>1. t \in Tools /\ c.step - 1 \in 0 .. 2  BY <1>2, <1>5, ToolValues
  <2>2. f \in FileOf(t)  BY <1>1, <1>2, <1>3, <2>1, PlannedTypes DEF Files
  <2>3. settings' = [settings EXCEPT ![t] = f]  BY <1>3, <1>5, <2>1 DEF Unrelease, Files
  <2>4. cmd' = [cmd EXCEPT !["user"].step = c.step - 1]  BY <1>5 DEF Unrelease
  <2>. HIDE DEF t, f
  <2>5. settings' \in Files /\ settings'[t] = f
        /\ \A u \in Tools \ {t} : settings'[u] = settings[u]
    BY <1>3, <2>1, <2>2, <2>3, FileWritten
  <2>6. CommandTypes' /\ Moves("user", "unrelease", c.step - 1, c.old, c.keys) /\ Spares("user")
    BY <1>1, <1>2, <2>1, <2>4, BackMoves
  <2>. QED  BY <1>1, <1>2, <1>5, <2>1, <2>5, <2>6 DEF t, f
<1>. QED  BY <1>4, <1>5

LEMMA UnreleaseKeepsOrder == Orderly /\ Unrelease => Orderly'
<1>. SUFFICES ASSUME Orderly, Unrelease  PROVE Orderly'  OBVIOUS
<1>. DEFINE c == cmd["user"]
<1>0. "user" \in Runners  BY DEF Runners
<1>1. InstallerTypes /\ c.pc = "unrelease" /\ CommandTypes' /\ Spares("user") /\ settings' \in Files
  BY UnreleaseMoves
<1>2. Standing(cmd["user"])'
  <2>1. CASE c.step = 0  BY <2>1, UnreleaseMoves, IdleStands
  <2>2. CASE c.step # 0
    <3>1. Moves("user", "unrelease", c.step - 1, c.old, c.keys)  BY <2>2, UnreleaseMoves
    <3>2. Standing(c)  BY <1>0 DEF Orderly
    <3>. QED  BY <1>1, <3>1, <3>2 DEF Moves, Standing
  <2>. QED  BY <2>1, <2>2
<1>3. /\ state' \in States \cup {Absent}
      /\ managed' \in Records \cup {Absent} /\ stash' \in Value
      /\ cred' \in Nat \cup {Absent} /\ daemon' \in DaemonStates
      /\ issued' \in Nat /\ enrolled' \in Nat /\ spent' \in [commands : Nat, troubles : Nat]
  BY <1>1 DEF Unrelease, InstallerTypes
<1>. QED  BY <1>0, <1>1, <1>2, <1>3, OrderKept

\* The daemon's own steps leave the commands alone but for the one it begins.
LEMMA DaemonKeepsOrder ==
    ASSUME Orderly, DaemonLoads \/ DaemonLeases \/ DaemonUp \/ DaemonStops
    PROVE  Orderly'
<1>1. InstallerTypes  BY DEF Orderly
<1>2. cmd' = cmd  BY DEF DaemonLoads, DaemonLeases, DaemonUp, DaemonStops
<1>3. daemon' \in DaemonStates
  <2>1. CASE DaemonLoads  BY <1>1, <2>1 DEF DaemonLoads, InstallerTypes, DaemonStates
  <2>2. CASE DaemonLeases  BY <1>1, <2>2 DEF DaemonLeases, InstallerTypes, DaemonStates
  <2>3. CASE DaemonUp  BY <1>1, <2>3 DEF DaemonUp, InstallerTypes, DaemonStates
  <2>4. CASE DaemonStops  BY <1>1, <2>4 DEF DaemonStops, InstallerTypes, DaemonStates
  <2>. QED  BY <2>1, <2>2, <2>3, <2>4
<1>4. spent' \in [commands : Nat, troubles : Nat]
  BY <1>1 DEF DaemonLoads, DaemonLeases, DaemonUp, DaemonStops, InstallerTypes
<1>5. UNCHANGED <<disk, issued, enrolled>>
  BY DEF DaemonLoads, DaemonLeases, DaemonUp, DaemonStops
<1>6. InstallerTypes'  BY <1>1, <1>2, <1>3, <1>4, <1>5 DEF InstallerTypes, disk
<1>. QED  BY <1>2, <1>6 DEF Orderly

LEMMA DaemonBindsKeepsOrder ==
    ASSUME Orderly, NEW port \in Ports, DaemonBinds(port)
    PROVE  Orderly'
<1>1. InstallerTypes /\ CommandTypes  BY DEF Orderly, InstallerTypes, CommandTypes
<1>2. port \in Nat /\ "daemon" \in Runners  BY ManifestTypes DEF Runners
<1>3. daemon' \in DaemonStates  BY <1>1, <1>2 DEF DaemonBinds, InstallerTypes, DaemonStates
<1>4. /\ settings' \in Files /\ state' \in States \cup {Absent}
      /\ managed' \in Records \cup {Absent} /\ stash' \in Value
      /\ cred' \in Nat \cup {Absent}
      /\ issued' \in Nat /\ enrolled' \in Nat /\ spent' \in [commands : Nat, troubles : Nat]
  BY <1>1 DEF DaemonBinds, InstallerTypes, disk
<1>5. CASE cmd' = cmd
  <2>1. InstallerTypes'  BY <1>1, <1>3, <1>4, <1>5 DEF InstallerTypes
  <2>. QED  BY <1>5, <2>1 DEF Orderly
<1>6. CASE cmd' # cmd
  <2>1. PICK yes \in BOOLEAN :
          /\ yes = TRUE /\ state # Absent
          /\ cmd' = [cmd EXCEPT !["daemon"] = EnableCommand(port, yes)]
    BY <1>6 DEF DaemonBinds
  <2>2. EnableCommand(port, yes) \in Commands /\ Standing(EnableCommand(port, yes))
    BY <1>1, <1>2, <2>1, EnableCommands
  <2>3. CommandTypes' /\ cmd'["daemon"] = EnableCommand(port, yes) /\ Spares("daemon")
    BY <1>1, <1>2, <2>1, <2>2, Replacing
  <2>4. Standing(cmd["daemon"])'  BY <2>2, <2>3
  <2>. QED  BY <1>2, <1>3, <1>4, <2>3, <2>4, OrderKept
<1>. QED  BY <1>5, <1>6

LEMMA KilledKeepsOrder ==
    ASSUME Orderly, NEW p \in Runners, Killed(p)
    PROVE  Orderly'
<1>1. InstallerTypes  BY DEF Orderly
<1>2. daemon' \in DaemonStates  BY <1>1 DEF Killed, InstallerTypes, DaemonStates
<1>3. spent' \in [commands : Nat, troubles : Nat]
  BY <1>1, FaultTypes DEF Killed, InstallerTypes
<1>4. /\ settings' \in Files /\ state' \in States \cup {Absent}
      /\ managed' \in Records \cup {Absent} /\ stash' \in Value
      /\ cred' \in Nat \cup {Absent} /\ issued' \in Nat /\ enrolled' \in Nat
  BY <1>1 DEF Killed, InstallerTypes, disk
<1>5. Done(p)  BY DEF Killed
<1>. QED  BY <1>2, <1>3, <1>4, <1>5, EndKeepsOrder

LEMMA EditTypes ==
    ASSUME NEW t \in Tools, NEW f \in FileOf(t), NEW g \in EditsOf(f)
    PROVE  g \in FileOf(t)
<1>1. f \in File /\ f.leaf \in [Leaves(t) -> Value] /\ f.theirs \in BOOLEAN  BY DEF FileOf, File
<1>2. CASE \E l \in DOMAIN f.leaf \cap Touched, v \in {Edited, Absent} : g = [f EXCEPT !.leaf[l] = v]
  <2>1. PICK l \in DOMAIN f.leaf \cap Touched, v \in {Edited, Absent} : g = [f EXCEPT !.leaf[l] = v]
    BY <1>2
  <2>2. l \in Leaves(t) /\ v \in Value  BY <1>1, <2>1, ToolValues
  <2>. DEFINE leaf == [f.leaf EXCEPT ![l] = v]
  <2>3. leaf \in [Leaves(t) -> Value]  BY <1>1, <2>2
  <2>4. g = [f EXCEPT !.leaf = leaf]  BY <2>1
  <2>. HIDE DEF leaf
  <2>5. leaf \in Keys  BY <2>3, KeysOfTool
  <2>6. g \in File /\ g.leaf = leaf  BY <1>1, <2>4, <2>5 DEF File
  <2>. QED  BY <2>3, <2>6 DEF FileOf
<1>3. CASE g = [f EXCEPT !.theirs = ~f.theirs]
  <2>1. (~f.theirs) \in BOOLEAN  BY <1>1
  <2>2. g \in File /\ g.leaf = f.leaf  BY <1>1, <1>3, <2>1 DEF File
  <2>. QED  BY <1>1, <2>2 DEF FileOf
<1>4. CASE g = [f EXCEPT !.ours = Edited]
  <2>1. g \in File /\ g.leaf = f.leaf  BY <1>1, <1>4 DEF File
  <2>. QED  BY <1>1, <2>1 DEF FileOf
<1>. QED  BY <1>2, <1>3, <1>4 DEF EditsOf

LEMMA UserEditsKeepsOrder ==
    ASSUME Orderly, NEW t \in Tools, UserEdits(t)
    PROVE  Orderly'
<1>1. InstallerTypes  BY DEF Orderly
<1>2. PICK f \in EditsOf(settings[t]) : settings' = [settings EXCEPT ![t] = f]  BY DEF UserEdits
<1>3. settings \in Files /\ settings[t] \in FileOf(t)  BY <1>1 DEF InstallerTypes, Files
<1>4. f \in FileOf(t)  BY <1>2, <1>3, EditTypes
<1>5. settings' \in Files  BY <1>2, <1>3, <1>4, FileWritten
<1>6. spent' \in [commands : Nat, troubles : Nat]
  BY <1>1, FaultTypes DEF UserEdits, InstallerTypes
<1>7. cmd' = cmd  BY DEF UserEdits
<1>8. InstallerTypes'  BY <1>1, <1>5, <1>6, <1>7 DEF UserEdits, InstallerTypes
<1>. QED  BY <1>7, <1>8 DEF Orderly

LEMMA CommandStepKeepsOrder ==
    ASSUME Orderly, NEW p \in Runners, CommandStep(p)
    PROVE  Orderly'
BY StashTokenKeepsOrder, RestashKeepsOrder, KeyringRefusesKeepsOrder, MergeKeepsOrder,
   MergeFailsKeepsOrder, UndoKeepsOrder, ReadKeysKeepsOrder, ReadKeysFailsKeepsOrder,
   KeepStashKeepsOrder, KeepStashFailsKeepsOrder, SaveCredentialKeepsOrder,
   SaveCredentialFailsKeepsOrder, SaveManagedKeepsOrder, SaveManagedRefusedKeepsOrder,
   SaveManagedFailsKeepsOrder, WriteStateKeepsOrder, WriteStateFailsKeepsOrder,
   ClearStashKeepsOrder, ClearStashFailsKeepsOrder
   DEF CommandStep

LEMMA UninstallStepKeepsOrder == Orderly /\ UninstallStep => Orderly'
BY StopDaemonKeepsOrder, StopRefusedKeepsOrder, TakeLeaseKeepsOrder, ReleaseKeepsOrder,
   ReleaseFailsKeepsOrder, UnreleaseKeepsOrder, DropCredentialKeepsOrder, DropStashKeepsOrder,
   DropStateKeepsOrder, DropRecordKeepsOrder, DropFailsKeepsOrder
   DEF UninstallStep

LEMMA OrderBegins == InstallerInit => Orderly
<1>. SUFFICES ASSUME InstallerInit  PROVE Orderly  OBVIOUS
<1>1. settings \in Files
  <2>1. \A t \in Tools : Untouched(t) \in FileOf(t)
    <3>1. ASSUME NEW t \in Tools  PROVE Untouched(t) \in FileOf(t)
      <4>. DEFINE leaf == [l \in Leaves(t) |-> Absent]
      <4>1. leaf \in [Leaves(t) -> Value]  BY ToolValues
      <4>2. leaf \in Keys  BY <4>1, KeysOfTool
      <4>3. Untouched(t) = [leaf |-> leaf, ours |-> Absent, theirs |-> FALSE, switch |-> "none"]
        BY DEF Untouched
      <4>. HIDE DEF leaf
      <4>4. Untouched(t) \in File /\ Untouched(t).leaf = leaf  BY <4>2, <4>3 DEF File
      <4>. QED  BY <4>1, <4>4 DEF FileOf
    <3>. QED  BY <3>1
  <2>2. \A t \in Tools : Untouched(t) \in File  BY <2>1 DEF FileOf
  <2>. QED  BY <2>1, <2>2 DEF InstallerInit, Files
<1>2. cmd = [p \in Runners |-> NoCommand]  BY DEF InstallerInit
<1>3. InstallerTypes
  BY <1>1, <1>2, ToolValues DEF InstallerInit, InstallerTypes, DaemonStates
<1>. QED  BY <1>2, <1>3, IdleStands DEF Orderly

LEMMA OrderStays == Orderly /\ [InstallerNext]_installerVars => Orderly'
<1>. SUFFICES ASSUME Orderly, [InstallerNext]_installerVars  PROVE Orderly'  OBVIOUS
<1>1. CASE Enroll \/ Enable \/ Disable \/ Reconnect \/ Uninstall \/ UninstallAgain
  BY <1>1, EnrollBegins, EnableBegins, DisableBegins, ReconnectBegins,
     UninstallBegins
<1>2. CASE \E p \in Runners : CommandStep(p) \/ Killed(p)
  BY <1>2, CommandStepKeepsOrder, KilledKeepsOrder
<1>3. CASE UninstallStep  BY <1>3, UninstallStepKeepsOrder
<1>4. CASE DaemonLoads \/ DaemonLeases \/ DaemonUp \/ DaemonStops  BY <1>4, DaemonKeepsOrder
<1>5. CASE \E port \in Ports : DaemonBinds(port)  BY <1>5, DaemonBindsKeepsOrder
<1>6. CASE \E t \in Tools : UserEdits(t)  BY <1>6, UserEditsKeepsOrder
<1>7. CASE UNCHANGED installerVars
  BY <1>7 DEF Orderly, InstallerTypes, installerVars, disk
<1>. QED  BY <1>1, <1>2, <1>3, <1>4, <1>5, <1>6, <1>7 DEF InstallerNext

-----------------------------------------------------------------------------
(* The lease *)

UserHolds == cmd["user"].pc \in {"release", "unrelease", "credgone", "stashgone", "stategone"}

\* The daemon's command runs under its lease, and an uninstallation writes under
\* its own.
LeaseInv ==
    /\ cmd["daemon"].pc # "idle" => cmd["daemon"].op = "enable" /\ daemon.stage = "rewiring"
    /\ UserHolds => ~DaemonHasLease
    /\ cmd["user"].pc \in {"stashgone", "stategone"} => cred = Absent

LEMMA GotoWiring ==
    ASSUME Orderly, NEW p \in Runners, cmd[p] \in Wirings, NEW pc \in WiringStages, Goto(p, pc)
    PROVE  CommandTypes' /\ Moves(p, pc, cmd[p].step, cmd[p].old, cmd[p].keys) /\ Spares(p)
<1>1. InstallerTypes  BY DEF Orderly
<1>2. cmd[p].pc # "idle"  BY DEF Wirings, WiringStages
<1>. QED  BY <1>1, <1>2, GotoMoves

LEMMA GotoRemoval ==
    ASSUME Orderly, cmd["user"] \in Removals, NEW pc \in RemovalStages, Goto("user", pc)
    PROVE  /\ CommandTypes' /\ Spares("user")
           /\ Moves("user", pc, cmd["user"].step, cmd["user"].old, cmd["user"].keys)
<1>1. InstallerTypes /\ "user" \in Runners  BY DEF Orderly, Runners
<1>2. cmd["user"].pc # "idle" /\ cmd["user"] \notin Wirings
  BY DEF Removals, RemovalStages, Wirings, WiringStages
<1>. QED  BY <1>1, <1>2, GotoMoves

\* A step of a command that wires: it goes on with what it does or ends, and
\* nobody else moves.
LEMMA WiringSteps ==
    ASSUME Orderly, NEW p \in Runners, CommandStep(p)
    PROVE  /\ cmd[p].pc \in WiringStages /\ cmd[p] \in Wirings /\ Spares(p) /\ daemon' = daemon
           /\ \/ Done(p) /\ cmd'[p].pc = "idle"
              \/ cmd'[p].pc \in WiringStages /\ cmd'[p].op = cmd[p].op
<1>1. InstallerTypes /\ CommandTypes /\ "merge" \in WiringStages /\ "state" \in WiringStages
      /\ "undo" \in WiringStages /\ "cred" \in WiringStages /\ "managed" \in WiringStages
      /\ "clear" \in WiringStages /\ "keepstash" \in WiringStages /\ "readkeys" \in WiringStages
  BY DEF Orderly, InstallerTypes, CommandTypes, WiringStages
<1>2. cmd[p].pc \in WiringStages /\ daemon' = daemon
  BY DEF CommandStep, At, StashToken, Restash, KeyringRefuses, Merge, MergeFails, Undo,
         ReadKeys, ReadKeysFails, KeepStash, KeepStashFails, SaveCredential, SaveCredentialFails,
         SaveManaged, SaveManagedRefused, SaveManagedFails, WriteState, WriteStateFails,
         ClearStash, ClearStashFails, WiringStages
<1>3. cmd[p] \in Wirings
  <2>1. cmd[p].pc # "idle"  BY <1>2 DEF WiringStages
  <2>. QED  BY <1>1, <1>2, <2>1, Doing
<1>4. \/ Done(p) \/ \E pc \in WiringStages : Goto(p, pc)
      \/ Merge(p) \/ Undo(p) \/ ReadKeys(p) \/ SaveManaged(p)
  <2>1. CASE Goto(p, "merge") \/ Goto(p, "state") \/ Goto(p, "undo") \/ Goto(p, "cred")
             \/ Goto(p, "managed") \/ Goto(p, "clear")
    BY <1>1, <2>1
  <2>. QED
    BY <2>1 DEF CommandStep, StashToken, Restash, KeyringRefuses, MergeFails, ReadKeysFails,
         KeepStash, KeepStashFails, SaveCredential, SaveCredentialFails,
         SaveManagedRefused, SaveManagedFails, GiveUp, WriteState, WriteStateFails,
         ClearStash, ClearStashFails
<1>5. CASE Done(p)  BY <1>1, <1>2, <1>3, <1>5, Ending
<1>6. CASE \E pc \in WiringStages : Goto(p, pc)
  BY <1>2, <1>3, <1>6, GotoWiring DEF Moves
<1>7. CASE Merge(p)
  <2>1. Spares(p) /\ cmd'[p].op = cmd[p].op
        /\ cmd'[p].pc = IF cmd[p].step + 1 = 2 THEN AfterMerge(cmd[p].op) ELSE "merge"
    BY <1>7, MergeMoves DEF Moves
  <2>. QED  BY <1>1, <1>2, <1>3, <2>1 DEF AfterMerge
<1>8. CASE Undo(p)
  <2>1. CASE cmd[p].step = 0  BY <1>2, <1>3, <1>8, <2>1, UndoMoves, <1>1, Ending
  <2>2. CASE cmd[p].step # 0
    <3>1. Spares(p) /\ Moves(p, "undo", cmd[p].step - 1, cmd[p].old, cmd[p].keys)
      BY <1>8, <2>2, UndoMoves
    <3>. QED  BY <1>1, <1>2, <1>3, <3>1 DEF Moves
  <2>. QED  BY <2>1, <2>2
<1>9. CASE ReadKeys(p)
  <2>1. Spares(p) /\ cmd'[p].op = cmd[p].op
        /\ cmd'[p].pc = IF cmd[p].to.local THEN "keepstash" ELSE "cred"
    BY <1>9, ReadKeysMoves DEF Moves
  <2>. QED  BY <1>1, <1>2, <1>3, <2>1
<1>10. CASE SaveManaged(p)
  <2>1. Spares(p) /\ cmd'[p].op = cmd[p].op /\ cmd'[p].pc = "state"
    BY <1>10, SaveManagedMoves DEF Moves
  <2>. QED  BY <1>1, <1>2, <1>3, <2>1
<1>. QED  BY <1>4, <1>5, <1>6, <1>7, <1>8, <1>9, <1>10

\* A step of an uninstallation, likewise.
LEMMA RemovalSteps ==
    ASSUME Orderly, UninstallStep
    PROVE  /\ cmd["user"].pc \in RemovalStages /\ cmd["user"] \in Removals /\ Spares("user")
           /\ \/ Done("user") /\ cmd'["user"].pc = "idle"
              \/ cmd'["user"].pc \in RemovalStages /\ cmd'["user"].op = cmd["user"].op
<1>. DEFINE c == cmd["user"]
<1>1. InstallerTypes /\ CommandTypes /\ "user" \in Runners /\ "lease" \in RemovalStages
      /\ "release" \in RemovalStages /\ "unrelease" \in RemovalStages
      /\ "credgone" \in RemovalStages /\ "stashgone" \in RemovalStages
      /\ "stategone" \in RemovalStages /\ "recordgone" \in RemovalStages
  BY DEF Orderly, InstallerTypes, CommandTypes, RemovalStages, Runners
<1>2. c.pc \in RemovalStages
  BY DEF UninstallStep, At, StopDaemon, StopRefused, TakeLease, Release, ReleaseFails, Unrelease,
         DropCredential, DropStash, DropState, DropRecord, DropFails, RemovalStages
<1>3. c \in Removals
  <2>1. c.pc # "idle"  BY <1>2 DEF RemovalStages
  <2>. QED  BY <1>1, <1>2, <2>1, Doing
<1>4. Done("user") \/ (\E pc \in RemovalStages : Goto("user", pc)) \/ Release \/ Unrelease
  BY <1>1 DEF UninstallStep, StopDaemon, StopRefused, TakeLease, ReleaseFails,
         DropCredential, DropStash, DropState, DropRecord, DropFails
<1>5. CASE Done("user")  BY <1>1, <1>2, <1>3, <1>5, Ending
<1>6. CASE \E pc \in RemovalStages : Goto("user", pc)
  BY <1>2, <1>3, <1>6, GotoRemoval DEF Moves
<1>7. CASE Release
  <2>1. Spares("user") /\ cmd'["user"].op = c.op
        /\ cmd'["user"].pc = IF c.step + 1 = 2 THEN "credgone" ELSE "release"
    BY <1>7, ReleaseMoves DEF Moves
  <2>. QED  BY <1>1, <1>2, <1>3, <2>1
<1>8. CASE Unrelease
  <2>1. CASE c.step = 0  BY <1>1, <1>2, <1>3, <1>8, <2>1, UnreleaseMoves, Ending
  <2>2. CASE c.step # 0
    <3>1. Spares("user") /\ Moves("user", "unrelease", c.step - 1, c.old, c.keys)
      BY <1>8, <2>2, UnreleaseMoves
    <3>. QED  BY <1>1, <1>2, <1>3, <3>1 DEF Moves
  <2>. QED  BY <2>1, <2>2
<1>. QED  BY <1>4, <1>5, <1>6, <1>7, <1>8

-----------------------------------------------------------------------------
(* The lease, and what an uninstallation leaves                             *)

\* Where a command is after a Goto or a Done.
LEMMA GotoPc ==
    ASSUME InstallerTypes, NEW p \in Runners
    PROVE  /\ \A pc : cmd[p].pc # "idle" /\ Goto(p, pc) => cmd'[p].pc = pc
           /\ Done(p) => cmd'[p].pc = "idle"
<1>1. DOMAIN cmd = Runners  BY DEF InstallerTypes
<1>2. ASSUME NEW pc, cmd[p].pc # "idle", Goto(p, pc)  PROVE cmd'[p].pc = pc
  <2>1. cmd'[p] = [cmd[p] EXCEPT !.pc = pc]  BY <1>1, <1>2 DEF Goto
  <2>2. cmd[p] \in Commands  BY <1>2, Doing
  <2>. QED  BY <2>1, <2>2, Whole
<1>3. Done(p) => cmd'[p].pc = "idle"  BY <1>1 DEF Done, NoCommand
<1>. QED  BY <1>2, <1>3

LEMMA LeaseBegins == InstallerInit => LeaseInv
BY DEF InstallerInit, LeaseInv, UserHolds, NoCommand, Runners

LEMMA LeaseStays == Orderly /\ LeaseInv /\ [InstallerNext]_installerVars => LeaseInv'
<1>. SUFFICES ASSUME Orderly, LeaseInv, [InstallerNext]_installerVars  PROVE LeaseInv'  OBVIOUS
<1>. USE DEF LeaseInv, UserHolds, DaemonHasLease
<1>0. "user" \in Runners /\ "daemon" \in Runners  BY DEF Runners
<1>1. InstallerTypes  BY DEF Orderly
<1>2. CASE Enroll \/ Enable \/ Disable \/ Reconnect \/ Uninstall \/ UninstallAgain
  <2>1. cmd'["daemon"] = cmd["daemon"] /\ daemon' = daemon
    BY <1>0, <1>2, EnrollBegins, EnableBegins, DisableBegins, ReconnectBegins, UninstallBegins
       DEF Begun, Spares
  <2>2. cmd'["user"].pc \in {"merge", "stash", "restash", "stop", "recordgone"}
    BY <1>2, EnrollBegins, EnableBegins, DisableBegins, ReconnectBegins, UninstallBegins
  <2>. QED  BY <2>1, <2>2
<1>3. ASSUME NEW p \in Runners, CommandStep(p)  PROVE LeaseInv'
  <2>1. /\ cmd[p].pc \in WiringStages /\ Spares(p) /\ daemon' = daemon
        /\ cmd'[p].pc = "idle" \/ (cmd'[p].pc \in WiringStages /\ cmd'[p].op = cmd[p].op)
    BY <1>3, WiringSteps
  <2>2. CASE p = "user"
    <3>1. cmd'["daemon"] = cmd["daemon"]  BY <1>0, <2>1, <2>2 DEF Spares
    <3>. QED  BY <2>1, <2>2, <3>1 DEF WiringStages
  <2>3. CASE p = "daemon"
    <3>1. cmd'["user"] = cmd["user"]  BY <1>0, <2>1, <2>3 DEF Spares
    <3>2. daemon.stage = "rewiring" /\ cmd["daemon"].op = "enable"
      BY <2>1, <2>3 DEF WiringStages
    <3>. QED  BY <2>1, <2>3, <3>1, <3>2
  <2>. QED  BY <2>2, <2>3 DEF Runners
<1>4. CASE UninstallStep
  <2>1. /\ cmd["user"].pc \in RemovalStages /\ cmd'["daemon"] = cmd["daemon"]
        /\ cmd'["user"].pc = "idle" \/ cmd'["user"].pc \in RemovalStages
    BY <1>0, <1>4, RemovalSteps DEF Spares
  <2>2. CASE StopDaemon
    <3>1. cmd'["user"].pc = "lease"  BY <1>0, <1>1, <2>2, GotoPc DEF StopDaemon, At
    <3>2. cmd["daemon"].pc # "idle" => daemon' = daemon  BY <2>2 DEF StopDaemon
    <3>. QED  BY <2>1, <3>1, <3>2
  <2>3. CASE TakeLease
    <3>1. cmd'["user"].pc \in {"release", "idle"} /\ daemon' = daemon
      BY <1>0, <1>1, <2>3, GotoPc DEF TakeLease, At
    <3>2. cmd'["user"].pc = "release" => ~DaemonHasLease
      BY <1>0, <1>1, <2>3, GotoPc DEF TakeLease, At
    <3>. QED  BY <2>1, <3>1, <3>2
  <2>4. CASE StopRefused \/ DropRecord \/ DropFails
    <3>1. cmd'["user"].pc = "idle" /\ daemon' = daemon
      BY <1>0, <1>1, <2>4, GotoPc DEF StopRefused, DropRecord, DropFails
    <3>. QED  BY <2>1, <3>1
  <2>5. CASE Release
    <3>1. cmd["user"].pc = "release" /\ cmd'["user"].pc \in {"release", "credgone"} /\ daemon' = daemon
      BY <2>5, ReleaseMoves DEF Moves, Release
    <3>. QED  BY <2>1, <3>1
  <2>6. CASE ReleaseFails
    <3>1. cmd["user"].pc = "release" /\ cmd'["user"].pc = "unrelease" /\ daemon' = daemon
      BY <1>0, <1>1, <2>6, GotoPc DEF ReleaseFails, At
    <3>. QED  BY <2>1, <3>1
  <2>7. CASE Unrelease
    <3>1. cmd["user"].pc = "unrelease" /\ cmd'["user"].pc \in {"unrelease", "idle"} /\ daemon' = daemon
      BY <2>7, UnreleaseMoves DEF Moves, Unrelease, NoCommand
    <3>. QED  BY <2>1, <3>1
  <2>8. CASE DropCredential
    <3>1. /\ cmd["user"].pc = "credgone" /\ cmd'["user"].pc = "stashgone" /\ daemon' = daemon
          /\ cred' = Absent
      BY <1>0, <1>1, <2>8, GotoPc DEF DropCredential, At
    <3>. QED  BY <2>1, <3>1
  <2>9. CASE DropStash
    <3>1. /\ cmd["user"].pc = "stashgone" /\ cmd'["user"].pc = "stategone" /\ daemon' = daemon
          /\ cred' = cred
      BY <1>0, <1>1, <2>9, GotoPc DEF DropStash, At
    <3>. QED  BY <2>1, <3>1
  <2>10. CASE DropState
    <3>1. cmd'["user"].pc = "recordgone" /\ daemon' = daemon
      BY <1>0, <1>1, <2>10, GotoPc DEF DropState, At
    <3>. QED  BY <2>1, <3>1
  <2>. QED
    BY <1>4, <2>2, <2>3, <2>4, <2>5, <2>6, <2>7, <2>8, <2>9, <2>10 DEF UninstallStep
<1>5. CASE DaemonLoads \/ DaemonLeases \/ DaemonUp \/ DaemonStops
  <2>1. UNCHANGED <<cmd, disk>>
    BY <1>5 DEF DaemonLoads, DaemonLeases, DaemonUp, DaemonStops
  <2>2. CASE DaemonLoads
    <3>1. daemon.stage = "off" /\ daemon'.stage = "loaded"  BY <2>2 DEF DaemonLoads
    <3>. QED  BY <2>1, <3>1 DEF disk
  <2>3. CASE DaemonLeases
    <3>1. daemon.stage = "loaded" /\ daemon'.stage \in {"leased", "off"}
          /\ (daemon'.stage = "leased" => ~UninstallHasLease)
      BY <1>1, <2>3 DEF DaemonLeases, InstallerTypes, DaemonStates
    <3>. QED  BY <2>1, <3>1 DEF disk, UninstallHasLease
  <2>4. CASE DaemonUp
    <3>1. cmd["daemon"].pc = "idle" /\ daemon.stage = "rewiring" /\ daemon'.stage = "up"
      BY <1>1, <2>4 DEF DaemonUp, At, InstallerTypes, DaemonStates
    <3>. QED  BY <2>1, <3>1 DEF disk
  <2>5. CASE DaemonStops
    <3>1. daemon.stage = "up" /\ daemon'.stage = "off"  BY <2>5 DEF DaemonStops
    <3>. QED  BY <2>1, <3>1 DEF disk
  <2>. QED  BY <1>5, <2>2, <2>3, <2>4, <2>5
<1>6. ASSUME NEW port \in Ports, DaemonBinds(port)  PROVE LeaseInv'
  <2>1. daemon.stage = "leased" /\ ~UserHolds /\ cmd["daemon"].pc = "idle"
    BY <1>6 DEF DaemonBinds
  <2>2. cmd'["user"] = cmd["user"]
        /\ (cmd'["daemon"].pc # "idle" => cmd'["daemon"].op = "enable" /\ daemon'.stage = "rewiring")
    <3>1. CASE cmd' = cmd  BY <2>1, <3>1
    <3>2. CASE cmd' # cmd
      <4>1. PICK yes \in BOOLEAN :
              /\ state # Absent
              /\ cmd' = [cmd EXCEPT !["daemon"] = EnableCommand(port, yes)]
              /\ daemon' = [daemon EXCEPT !.stage = "rewiring", !.port = port]
        BY <1>6, <3>2 DEF DaemonBinds
      <4>2. port \in Nat /\ CommandTypes  BY <1>1, ManifestTypes DEF InstallerTypes, CommandTypes
      <4>3. EnableCommand(port, yes) \in Commands /\ EnableCommand(port, yes).op = "enable"
        BY <1>1, <4>1, <4>2, EnableCommands
      <4>4. cmd'["daemon"] = EnableCommand(port, yes) /\ cmd'["user"] = cmd["user"]
        BY <1>0, <4>1, <4>2, <4>3, Replacing DEF Spares
      <4>5. daemon'.stage = "rewiring"  BY <1>1, <4>1 DEF InstallerTypes, DaemonStates
      <4>. QED  BY <4>3, <4>4, <4>5
    <3>. QED  BY <3>1, <3>2
  <2>. QED  BY <2>1, <2>2
<1>7. ASSUME NEW p \in Runners, Killed(p)  PROVE LeaseInv'
  <2>1. cmd'[p].pc = "idle" /\ Spares(p) /\ cred' = cred
        /\ IF p = "daemon" THEN daemon' = [stage |-> "off", mem |-> Absent, port |-> 0]
           ELSE daemon' = daemon
    <3>1. CommandTypes /\ Done(p)  BY <1>1, <1>7 DEF InstallerTypes, CommandTypes, Killed
    <3>. QED  BY <1>7, <3>1, Ending DEF Killed, disk
  <2>2. CASE p = "user"
    <3>1. cmd'["daemon"] = cmd["daemon"] /\ daemon' = daemon  BY <1>0, <2>1, <2>2 DEF Spares
    <3>. QED  BY <2>1, <2>2, <3>1
  <2>3. CASE p = "daemon"
    <3>1. cmd'["user"] = cmd["user"] /\ daemon'.stage = "off"  BY <1>0, <2>1, <2>3 DEF Spares
    <3>. QED  BY <2>1, <2>3, <3>1
  <2>. QED  BY <2>2, <2>3 DEF Runners
<1>8. CASE (\E t \in Tools : UserEdits(t)) \/ UNCHANGED installerVars
  <2>1. UNCHANGED <<cmd, daemon, cred>>  BY <1>8 DEF UserEdits, installerVars, disk
  <2>. QED  BY <2>1
<1>. QED  BY <1>2, <1>3, <1>4, <1>5, <1>6, <1>7, <1>8 DEF InstallerNext

\* What a step leaves of a file that may hold something of the user's.
Respects(t, g) ==
    /\ g.theirs = settings[t].theirs
    /\ \A l \in Leaves(t) :
         settings[t].leaf[l] = Edited /\ cmd["user"].old.rec[t].leaf[l] # Edited
           => g.leaf[l] = Edited
    /\ settings[t].ours = Edited => g.ours = Edited

LEMMA ReleaseRespects ==
    ASSUME Orderly, Release, NEW t \in Tools
    PROVE  Respects(t, settings'[t])
<1>. DEFINE c == cmd["user"]
            u == Order[c.step + 1]
<1>1. /\ InstallerTypes /\ c \in Removals /\ u \in Tools /\ settings[u] = c.before[u]
      /\ settings'[u] = Planned(c, u) /\ \A x \in Tools \ {u} : settings'[x] = settings[x]
  BY ReleaseMoves
<1>. HIDE DEF u
<1>2. CASE t # u  BY <1>1, <1>2 DEF Respects
<1>3. CASE t = u
  <2>1. c.before[t] \in FileOf(t) /\ c.old.rec[t] \in RecordOf(t)  BY <1>1, PlannedTypes
  <2>2. /\ Planned(c, t).theirs = c.before[t].theirs
        /\ \A l \in Leaves(t) : c.before[t].leaf[l] = Edited /\ c.old.rec[t].leaf[l] # Edited =>
             Planned(c, t).leaf[l] = Edited
        /\ c.before[t].ours = Edited => Planned(c, t).ours = Edited
    BY <2>1, RemovedTypes DEF Planned
  <2>. QED  BY <1>1, <1>3, <2>2 DEF Respects
<1>. QED  BY <1>2, <1>3

LEMMA UnreleaseRespects ==
    ASSUME Orderly, Unrelease, NEW t \in Tools
    PROVE  Respects(t, settings'[t])
<1>. DEFINE c == cmd["user"]
            u == Order[c.step]
<1>1. InstallerTypes /\ c \in Removals  BY UnreleaseMoves
<1>2. CASE c.step = 0
  <2>1. settings' = settings  BY <1>2, UnreleaseMoves
  <2>. QED  BY <2>1 DEF Respects
<1>3. CASE c.step # 0
  <2>1. /\ u \in Tools /\ \A x \in Tools \ {u} : settings'[x] = settings[x]
        /\ settings'[u] = IF settings[u] = Planned(c, u) THEN c.before[u] ELSE settings[u]
    BY <1>3, UnreleaseMoves
  <2>. HIDE DEF u
  <2>2. CASE t # u \/ settings[u] # Planned(c, u)  BY <2>1, <2>2 DEF Respects
  <2>3. CASE t = u /\ settings[u] = Planned(c, u)
    <3>1. c.before[t] \in FileOf(t) /\ c.old.rec[t] \in RecordOf(t)  BY <1>1, PlannedTypes
    <3>2. /\ Planned(c, t).theirs = c.before[t].theirs
          /\ \A l \in Leaves(t) : Planned(c, t).leaf[l] \in {c.before[t].leaf[l], Absent}
          /\ Planned(c, t).ours \in {c.before[t].ours, Absent}
      BY <3>1, RemovedTypes DEF Planned
    <3>3. Edited # Absent  BY ValueAssumption
    <3>. QED  BY <2>1, <2>3, <3>2, <3>3 DEF Respects
  <2>. QED  BY <2>2, <2>3
<1>. QED  BY <1>2, <1>3

LEMMA RemovalTakesOnlyItsOwn ==
    ASSUME Orderly, LeaseInv, [InstallerNext]_installerVars,
           cmd["user"].pc \in {"release", "unrelease"}, spent' = spent, settings' # settings
    PROVE  \A t \in Tools : Respects(t, settings'[t])
<1>1. InstallerTypes /\ "user" \in Runners  BY DEF Orderly, Runners
<1>2. CASE Release \/ Unrelease  BY <1>2, ReleaseRespects, UnreleaseRespects
<1>3. CASE ~(Release \/ Unrelease)
  <2>1. ~(\E p \in Runners : CommandStep(p))
    <3>1. ASSUME NEW p \in Runners, CommandStep(p)  PROVE FALSE
      <4>1. cmd[p].pc \in WiringStages  BY <3>1, WiringSteps
      <4>2. CASE p = "user"  BY <4>1, <4>2 DEF WiringStages
      <4>3. CASE p = "daemon"
        <5>1. daemon.stage = "rewiring"  BY <4>1, <4>3 DEF LeaseInv, WiringStages
        <5>2. ~DaemonHasLease  BY DEF LeaseInv, UserHolds
        <5>. QED  BY <5>1, <5>2 DEF DaemonHasLease
      <4>. QED  BY <4>2, <4>3 DEF Runners
    <3>. QED  BY <3>1
  <2>2. ~(\E p \in Runners : Killed(p)) /\ ~(\E t \in Tools : UserEdits(t))
    BY <1>1, FaultTypes DEF Killed, UserEdits, InstallerTypes
  <2>3. ~(Enroll \/ Enable \/ Disable \/ Reconnect \/ Uninstall \/ UninstallAgain)
    BY DEF Enroll, Enable, Disable, Reconnect, Uninstall, UninstallAgain, UserBegins
  <2>4. DaemonLoads \/ DaemonLeases \/ DaemonUp \/ DaemonStops \/ (\E port \in Ports : DaemonBinds(port))
          => settings' = settings
    BY DEF DaemonLoads, DaemonLeases, DaemonUp, DaemonStops, DaemonBinds, disk
  <2>5. UninstallStep => settings' = settings
    BY <1>3 DEF UninstallStep, StopDaemon, StopRefused, TakeLease, ReleaseFails,
         DropCredential, DropStash, DropState, DropRecord, DropFails, disk
  <2>6. ~UNCHANGED installerVars  BY DEF installerVars, disk
  <2>. QED  BY <2>1, <2>2, <2>3, <2>4, <2>5, <2>6 DEF InstallerNext
<1>. QED  BY <1>2, <1>3

\* Every state of the installer's: the types, the stages, and the lease.
THEOREM InstallerOrder == InstallerSpec => [](Orderly /\ LeaseInv)
<1>1. InstallerInit => Orderly /\ LeaseInv  BY OrderBegins, LeaseBegins
<1>2. (Orderly /\ LeaseInv) /\ [InstallerNext]_installerVars => (Orderly /\ LeaseInv)'
  BY OrderStays, LeaseStays
<1>. QED  BY <1>1, <1>2, PTL DEF InstallerSpec

\* An uninstallation leaves everything that is the user's, whatever he and the
\* daemon do meanwhile.
THEOREM RemovalIsModest == InstallerSpec => TakesOnlyItsOwn
<1>1. (Orderly /\ LeaseInv) /\ [InstallerNext]_installerVars =>
        [cmd["user"].pc \in {"release", "unrelease"} /\ spent' = spent /\ settings' # settings =>
         \A t \in Tools :
            /\ settings'[t].theirs = settings[t].theirs
            /\ \A l \in Leaves(t) :
                 settings[t].leaf[l] = Edited /\ cmd["user"].old.rec[t].leaf[l] # Edited
                   => settings'[t].leaf[l] = Edited
            /\ settings[t].ours = Edited => settings'[t].ours = Edited]_installerVars
  BY RemovalTakesOnlyItsOwn DEF Respects
<1>. QED  BY <1>1, InstallerOrder, PTL DEF InstallerSpec, TakesOnlyItsOwn

-----------------------------------------------------------------------------
(* The invariant of all that is written                                     *)

Issued == {Token(n) : n \in 1 .. issued}

Bearer(t) == BearerIn(t, settings[t])

-----------------------------------------------------------------------------
(* The parts of the invariant *)

\* What a command is for is settled when it begins.
Purpose(c) ==
    /\ c.op = "enable" => c.st.local /\ c.to = Local(c.st.port, Ingest)
    /\ c.op = "disable" => ~c.st.local /\ c.to = Company(c.to.token)
    /\ c.op = "reconnect" => c.to = Company(c.st.token)
    /\ c.op = "enroll" => c.to = IF c.st.local THEN Local(c.st.port, Ingest) ELSE Company(c.st.token)
    /\ c.op \in {"reconnect", "enroll"} => c.st.token \in Issued

\* What is kept for later of the company's tokens.
Carries(c) ==
    /\ c.keys[1] \in Issued \cup {Absent}
    /\ \A t \in Tools : BearerIn(t, c.before[t]) \in Issued \cup {Absent, Ingest}
    /\ c.op # "uninstall" => c.to.token \in IF c.to.local THEN {Ingest} ELSE Issued

Tokens ==
    /\ stash \in Issued \cup {Absent}
    /\ \A t \in Tools : Bearer(t) \in Issued \cup {Absent, Ingest}
    /\ \A p \in Runners : Busy(p) => Carries(cmd[p])

\* The state under a command that is alone.
Aim(c) ==
    /\ c.op \in {"enable", "disable", "reconnect"} => state # Absent /\ state.inst = c.st.inst
    /\ c.pc = "clear" => ~state.local
    /\ c.op = "reconnect" =>
         /\ state.local = c.st.local /\ state.port = c.st.port
         /\ c.pc # "undo" => (state.local <=> c.pc = "restash" \/ (c.pc = "state" /\ c.step = 0))
    /\ c.pc = "recordgone" => state = Absent

\* The files under it: so many written, the others as they were.
Dropping == {"credgone", "stashgone", "stategone", "recordgone"}

Place(t) == IF t = "claude" THEN 1 ELSE 2

Written(c, t) == IF c.op = "uninstall" THEN Planned(c, t) ELSE Merged(t, c.before[t], c.to, c.keep)

Half(c) ==
    c.pc \notin Dropping =>
      \A t \in Tools : settings[t] = IF Place(t) <= c.step THEN Written(c, t) ELSE c.before[t]

\* The record under it: it is written before the state.
HasRecord(m) == state # Absent => m # Absent /\ m.inst = state.inst

Tentative(c) == c.pc = "state" /\ c.step = 2

Paper(c) ==
    IF Tentative(c) THEN HasRecord(c.old) /\ managed # Absent /\ managed.inst = c.st.inst
    ELSE HasRecord(managed)

\* The company's token can be had without the network: from the keyring, or
\* from the files.
Open(f, s) ==
    state # Absent =>
      s # Absent \/ (~state.local /\ \E t \in Tools : BearerIn(t, f[t]) \notin {Absent, Ingest})

EnrollStages == {"keepstash", "cred", "managed", "state"}

\* What the keyring will hold if the command is taken back.
Kept(c) ==
    IF c.op = "enroll" /\ c.pc \in EnrollStages /\ c.to.local THEN c.keys[1] ELSE stash

Way(c) ==
    /\ c.op = "enable" => Open(settings, stash) /\ (c.pc # "stash" => stash # Absent)
    /\ c.op = "disable" => Open(settings, stash) /\ (c.pc # "clear" => stash # Absent)
    /\ c.op \in {"reconnect", "enroll"} => Open(c.before, Kept(c))
    /\ c.op = "enroll" /\ c.to.local =>
         /\ c.pc \in {"cred", "managed", "state"} => stash # Absent
         /\ c.pc = "keepstash" => c.keys[1] = stash
    /\ c.pc \in {"stop", "lease", "release", "unrelease", "credgone"} => Open(c.before, stash)

\* The files are what the state and the record say.
Agree(f, m, to) ==
    /\ m # Absent
    /\ \A t \in Tools : /\ \A l \in Leaves(t) : f[t].leaf[l] = Wanted(t, to, l)
                        /\ NoDrift(f[t], m.rec[t])

Follow(f, m) == state # Absent => \E to \in WiredAs(state) : Agree(f, m, to)

Follows(c) ==
    /\ c.pc = "clear" => Follow(settings, managed)
    /\ c.pc \notin Dropping \cup {"clear"} => Follow(c.before, IF Tentative(c) THEN c.old ELSE managed)
    /\ Tentative(c) => Agree(settings, managed, c.to)

-----------------------------------------------------------------------------
(* All of it.  What has gone wrong excepts the parts that it may break. *)

Unedited == "edit" \notin spoiled
Enrolled == "enroll" \notin spoiled
Unbroken == spoiled \cap {"edit", "enroll", "uninstall"} = {}

\* When no command is under way.
Calm ==
    /\ Enrolled => HasRecord(managed)
    /\ Unbroken => Open(settings, stash)
    /\ spoiled = {} => Follow(settings, managed)

\* When one is.
Well(c) ==
    /\ Aim(c)
    /\ Unedited => Half(c)
    /\ Enrolled => Paper(c)
    /\ Unbroken => Way(c)
    /\ spoiled = {} => Follows(c)

Alone == ~Busy("user") \/ ~Busy("daemon")

Purposes == \A p \in Runners : Busy(p) => Purpose(cmd[p])

Sane ==
    "overlap" \notin spoiled =>
      /\ Alone
      /\ Quiet => Calm
      /\ \A p \in Runners : Busy(p) => Well(cmd[p])

WholeInv == Orderly /\ LeaseInv /\ Purposes /\ (Unedited => Tokens) /\ Sane

-----------------------------------------------------------------------------
(* What the parts say when little changes                                   *)

\* What the tokens are told apart from.
LEMMA IssuedTokens ==
    ASSUME issued \in Nat, NEW x \in Issued
    PROVE  x \in Value /\ x # Absent /\ x # Ingest /\ IsCompanyToken(x)
<1>1. PICK n \in 1 .. issued : x = Token(n)  BY DEF Issued
<1>2. n \in Nat  BY <1>1
<1>. QED  BY <1>1, <1>2, ToolValues DEF IsCompanyToken

LEMMA IssuedGrow ==
    ASSUME issued \in Nat, issued' \in Nat, issued' = issued \/ issued' = issued + 1
    PROVE  /\ Issued \subseteq Issued'
           /\ issued' = issued + 1 => Token(issued') \in Issued'
<1>1. 1 .. issued \subseteq 1 .. issued'  OBVIOUS
<1>2. issued' = issued + 1 => issued' \in 1 .. issued'  OBVIOUS
<1>. QED  BY <1>1, <1>2 DEF Issued

LEMMA Wiring ==
    ASSUME Orderly, Purposes, NEW p \in Runners, cmd[p] \in Wirings
    PROVE  /\ InstallerTypes /\ Standing(cmd[p]) /\ Busy(p) /\ Purpose(cmd[p])
           /\ cmd[p].pc \in WiringStages /\ cmd[p].st \in States /\ cmd[p].to \in Manifests
           /\ cmd[p].op \in {"enroll", "enable", "disable", "reconnect"}
           /\ cmd[p].pc \notin Dropping \cup {"stop", "lease", "release", "unrelease"}
           /\ cmd[p].step \in 0 .. 2 /\ cmd[p].before \in Files /\ cmd[p].keep \in BOOLEAN
<1>1. cmd[p].pc \in WiringStages /\ cmd[p].st \in States /\ cmd[p].to \in Manifests
      /\ cmd[p].op \in {"enroll", "enable", "disable", "reconnect"}
      /\ cmd[p].step \in 0 .. 2 /\ cmd[p].before \in Files /\ cmd[p].keep \in BOOLEAN
  BY DEF Wirings
<1>2. Busy(p) /\ cmd[p].pc \notin Dropping \cup {"stop", "lease", "release", "unrelease"}
  BY <1>1 DEF Busy, WiringStages, Dropping
<1>. QED  BY <1>1, <1>2 DEF Orderly, Purposes

\* What the parts say when no step changes what they are about.

LEMMA AimSame ==
    ASSUME NEW c, NEW d, Aim(c), state' = state, d.op = c.op, d.st = c.st, d.step = c.step,
           d.pc \notin {"clear", "recordgone"}, c.op = "reconnect" => d.pc = c.pc \/ d.pc = "undo"
    PROVE  Aim(d)'
BY DEF Aim

LEMMA HalfSame ==
    ASSUME NEW c, NEW d, Half(c), settings' = settings, c.pc \notin Dropping,
           d.op = c.op, d.to = c.to, d.keep = c.keep, d.step = c.step, d.before = c.before,
           c.op = "uninstall" => d.old = c.old
    PROVE  Half(d)'
BY DEF Half, Written, Planned

\* What is known of a command that is about to make a step of its own.
Alive(p) ==
    /\ Orderly /\ Purposes /\ (Unedited => Tokens) /\ Sane
    /\ "overlap" \notin spoiled /\ Busy(p)

LEMMA AliveIsWell ==
    ASSUME NEW p \in Runners, Alive(p)
    PROVE  Well(cmd[p]) /\ InstallerTypes /\ Standing(cmd[p]) /\ Purpose(cmd[p])
BY DEF Alive, Sane, Orderly, Purposes

\* Only the command that makes the step is there.
LEMMA SaneKept ==
    ASSUME NEW p \in Runners, Alive(p), Spares(p), NEW d, d = cmd'[p],
           d.pc = "idle" => Calm', d.pc # "idle" => Well(d)'
    PROVE  Sane'
<1>0. d.pc # "idle" => Well(cmd[p])'
  BY DEF Well, Aim, Half, Paper, Way, Follows, Tentative, Kept, Written, Planned
<1>1. \A q \in Runners \ {p} : cmd[q].pc = "idle" /\ cmd'[q].pc = "idle"
  BY DEF Alive, Sane, Alone, Busy, Runners, Spares
<1>2. Alone'  BY <1>1 DEF Alone, Busy, Runners
<1>3. Quiet' => Calm'  BY DEF Quiet
<1>4. \A q \in Runners : Busy(q)' => Well(cmd[q])'  BY <1>0, <1>1 DEF Busy
<1>. QED  BY <1>2, <1>3, <1>4 DEF Sane

\* A command that failed goes back the way it came.
LEMMA TakenBack ==
    ASSUME NEW p \in Runners, Alive(p), cmd[p] \in Wirings, cmd[p].pc \notin {"stash", "clear"},
           Goto(p, "undo"), settings' = settings, state' = state,
           Unbroken => stash' = Kept(cmd[p]),
           managed' = IF Tentative(cmd[p]) THEN cmd[p].old ELSE managed,
           issued' = issued, spoiled' = spoiled
    PROVE  Sane'
<1>0. PICK c, d : c = cmd[p] /\ d = cmd'[p]  OBVIOUS
<1>1. /\ Well(c) /\ Orderly /\ Purposes /\ c.pc \in WiringStages /\ c.pc \notin Dropping
      /\ c.op \in {"enroll", "enable", "disable", "reconnect"}
  BY <1>0, AliveIsWell, Wiring DEF Alive
<1>2. "undo" \in WiringStages  BY DEF WiringStages
<1>3. Spares(p) /\ Moves(p, "undo", c.step, c.old, c.keys)  BY <1>0, <1>1, <1>2, GotoWiring
<1>4. /\ d.pc = "undo" /\ d.op = c.op /\ d.st = c.st /\ d.to = c.to /\ d.keep = c.keep
      /\ d.step = c.step /\ d.before = c.before /\ d.old = c.old /\ d.keys = c.keys
  BY <1>0, <1>3 DEF Moves
<1>5. Aim(d)'  BY <1>1, <1>4, AimSame DEF Well
<1>6. Unedited' => Half(d)'  BY <1>1, <1>4, HalfSame DEF Well, Unedited
<1>7. Enrolled' => Paper(d)'
  <2>1. ~Tentative(d)  BY <1>4 DEF Tentative
  <2>. QED  BY <1>0, <1>1, <2>1 DEF Well, Enrolled, Paper, HasRecord
<1>8. Unbroken' => Way(d)'
  <2>. SUFFICES ASSUME Unbroken  PROVE Way(d)'  BY DEF Unbroken
  <2>0. PICK s : s = stash'  OBVIOUS
  <2>1. Way(c)  BY <1>1 DEF Well
  <2>2. c.op # "enroll" => stash' = stash  BY <1>0 DEF Kept
  <2>3. Kept(d)' = s  BY <1>0, <1>4, <2>0 DEF Kept, EnrollStages
  <2>4. c.op = "enable" => Open(settings, stash)' /\ stash' # Absent
    BY <1>0, <2>1, <2>2 DEF Way, Open
  <2>5. c.op = "disable" => Open(settings, stash)' /\ stash' # Absent
    BY <1>0, <2>1, <2>2 DEF Way, Open
  <2>6. c.op \in {"reconnect", "enroll"} => Open(c.before, s)'
    BY <1>0, <2>0, <2>1, <2>2 DEF Way, Open
  <2>. QED  BY <1>1, <1>4, <2>3, <2>4, <2>5, <2>6 DEF Way
<1>9. spoiled' = {} => Follows(d)'
  <2>. SUFFICES ASSUME spoiled = {}  PROVE Follows(d)'  OBVIOUS
  <2>0. PICK m : m = managed'  OBVIOUS
  <2>1. ~Tentative(d)  BY <1>4 DEF Tentative
  <2>2. Follow(c.before, m)  BY <1>0, <1>1, <2>0 DEF Well, Follows
  <2>3. Follow(c.before, m)'
    BY <2>2 DEF Follow, WiredAs
  <2>. QED  BY <1>4, <2>0, <2>1, <2>3 DEF Follows
<1>10. Well(d)'  BY <1>5, <1>6, <1>7, <1>8, <1>9 DEF Well
<1>. QED  BY <1>0, <1>3, <1>4, <1>10, SaneKept

\* A command that has written nothing, or no longer, ends.
LEMMA LeftAsFound ==
    ASSUME NEW p \in Runners, Alive(p), Done(p), cmd[p].step = 0,
           cmd[p].pc \in {"stash", "restash", "undo", "stop", "lease", "unrelease"},
           UNCHANGED <<disk, issued, spoiled>>
    PROVE  Sane'
<1>. DEFINE c == cmd[p]
<1>1. Well(c) /\ InstallerTypes  BY AliveIsWell
<1>2. CommandTypes  BY <1>1 DEF InstallerTypes, CommandTypes
<1>3. cmd'[p].pc = "idle" /\ Spares(p)  BY <1>2, Ending
<1>4. ~Tentative(c) /\ c.pc \notin Dropping /\ c.pc \notin EnrollStages
  BY DEF Tentative, Dropping, EnrollStages
<1>5. Unedited => settings = c.before
  <2>. SUFFICES ASSUME Unedited  PROVE settings = c.before  OBVIOUS
  <2>1. \A t \in Tools : settings[t] = c.before[t]
    BY <1>1, <1>4 DEF Well, Half, Place
  <2>2. settings \in Files /\ c.before \in Files  BY <1>1, Doing DEF InstallerTypes, Alive, Busy
  <2>. QED  BY <2>1, <2>2 DEF Files
<1>6. Enrolled' => HasRecord(managed)'  BY <1>1, <1>4 DEF Well, Paper, HasRecord, Enrolled, disk
<1>7. Unbroken' => Open(settings, stash)'
  <2>. SUFFICES ASSUME Unbroken  PROVE Open(settings, stash)'  BY DEF Unbroken
  <2>1. settings = c.before /\ Way(c)  BY <1>1, <1>5 DEF Well, Unbroken, Unedited
  <2>2. Open(settings, stash)
    <3>1. c \in Commands /\ (c.pc \in RemovalStages => c \in Removals)
          /\ (c.pc \in WiringStages => c \in Wirings)
      BY <1>1, Doing DEF Alive, Busy
    <3>2. CASE c.pc \in {"stop", "lease", "unrelease"}  BY <2>1, <3>2 DEF Way
    <3>3. CASE c.pc \in {"stash", "restash", "undo"}
      <4>1. c.op \in {"enroll", "enable", "disable", "reconnect"}
        BY <3>1, <3>3 DEF WiringStages, Wirings
      <4>. QED  BY <1>4, <2>1, <4>1 DEF Way, Kept
    <3>. QED  BY <3>2, <3>3
  <2>. QED  BY <2>2 DEF Open, disk
<1>8. spoiled' = {} => Follow(settings, managed)'
  <2>. SUFFICES ASSUME spoiled = {}  PROVE Follow(settings, managed)'  OBVIOUS
  <2>1. settings = c.before /\ Follows(c)  BY <1>1, <1>5 DEF Well, Unedited
  <2>2. Follow(settings, managed)  BY <1>4, <2>1 DEF Follows
  <2>. QED  BY <2>2 DEF Follow, WiredAs, disk
<1>9. Calm'  BY <1>6, <1>7, <1>8 DEF Calm
<1>. QED  BY <1>3, <1>9, SaneKept

-----------------------------------------------------------------------------
(* The wiring commands keep it                                              *)

\* What is known of a command that wires, at its stage.
LEMMA WiringIsWell ==
    ASSUME NEW p \in Runners, Alive(p), cmd[p].pc \in WiringStages
    PROVE  /\ InstallerTypes /\ Standing(cmd[p]) /\ Well(cmd[p]) /\ Purpose(cmd[p])
           /\ cmd[p] \in Wirings /\ cmd[p].st \in States /\ cmd[p].to \in Manifests
           /\ cmd[p].op \in {"enroll", "enable", "disable", "reconnect"}
           /\ cmd[p].pc \notin Dropping \cup {"stop", "lease", "release", "unrelease"}
           /\ cmd[p].step \in 0 .. 2 /\ cmd[p].before \in Files /\ cmd[p].keep \in BOOLEAN
           /\ issued \in Nat
<1>1. cmd[p] \in Wirings
  BY Doing DEF Alive, Busy, Orderly
<1>. QED  BY <1>1, Wiring, AliveIsWell DEF Alive, InstallerTypes

\* And what a step that moves it on leaves.
LEMMA MovesOn ==
    ASSUME NEW p \in Runners, Alive(p), cmd[p].pc \in WiringStages, NEW pc \in WiringStages,
           Goto(p, pc), NEW c, NEW d, c = cmd[p], d = cmd'[p]
    PROVE  /\ Spares(p)
           /\ d.pc = pc /\ d.op = c.op /\ d.st = c.st /\ d.to = c.to /\ d.keep = c.keep
           /\ d.step = c.step /\ d.before = c.before /\ d.old = c.old /\ d.keys = c.keys
BY WiringIsWell, GotoWiring DEF Moves, Alive

LEMMA KeyringRefusesKeepsSane ==
    ASSUME NEW p \in Runners, Alive(p), KeyringRefuses(p)
    PROVE  Sane'
<1>1. cmd[p].pc \in {"stash", "restash"} /\ cmd[p].step = 0
  BY AliveIsWell DEF KeyringRefuses, At, Standing
<1>. QED  BY <1>1, LeftAsFound DEF KeyringRefuses

LEMMA StashTokenKeepsSane ==
    ASSUME NEW p \in Runners, Alive(p), StashToken(p)
    PROVE  Sane'
<1>0. PICK c, d : c = cmd[p] /\ d = cmd'[p]  OBVIOUS
<1>1. /\ c.pc = "stash" /\ Well(c) /\ InstallerTypes /\ Standing(c) /\ issued \in Nat
      /\ c.pc \notin Dropping
  BY <1>0, WiringIsWell DEF StashToken, At, WiringStages
<1>2. /\ Spares(p)
      /\ d.pc = "merge" /\ d.op = c.op /\ d.st = c.st /\ d.to = c.to /\ d.keep = c.keep
      /\ d.step = c.step /\ d.before = c.before /\ d.old = c.old /\ d.keys = c.keys
  BY <1>0, <1>1, MovesOn DEF StashToken, WiringStages
<1>3. c.op = "enable"  BY <1>1 DEF Standing
<1>4. UNCHANGED <<settings, state, managed, issued, spoiled>>  BY DEF StashToken
<1>5. Aim(d)'  BY <1>1, <1>2, <1>3, <1>4, AimSame DEF Well
<1>6. Unedited' => Half(d)'  BY <1>1, <1>2, <1>4, HalfSame DEF Well, Unedited
<1>7. ~Tentative(c) /\ ~Tentative(d)  BY <1>1, <1>2 DEF Tentative
<1>8. Enrolled' => Paper(d)'  BY <1>1, <1>4, <1>7 DEF Well, Enrolled, Paper, HasRecord
<1>9. Unbroken' => stash' # Absent
  <2>. SUFFICES ASSUME Unbroken  PROVE stash' # Absent  BY <1>4 DEF Unbroken
  <2>1. state # Absent /\ Open(settings, stash)  BY <1>1, <1>3 DEF Well, Aim, Way
  <2>2. CASE Bearers = {}
    <3>1. \A t \in Tools : BearerIn(t, settings[t]) \in {Absent, Ingest}  BY <2>2 DEF Bearers
    <3>2. stash' = stash  BY <2>2 DEF StashToken
    <3>. QED  BY <2>1, <3>1, <3>2 DEF Open
  <2>3. CASE Bearers # {}
    <3>1. FirstBearer \in Bearers  BY <2>3 DEF FirstBearer, Bearers, Tools
    <3>2. stash' = BearerIn(FirstBearer, settings[FirstBearer])  BY <2>3 DEF StashToken
    <3>. QED  BY <3>1, <3>2 DEF Bearers
  <2>. QED  BY <2>2, <2>3
<1>10. Unbroken' => Way(d)'  BY <1>2, <1>3, <1>9 DEF Way, Open
<1>11. spoiled' = {} => Follows(d)'
  <2>. SUFFICES ASSUME spoiled = {}  PROVE Follows(d)'  BY <1>4
  <2>1. Follow(c.before, managed)  BY <1>1, <1>7 DEF Well, Follows
  <2>. QED  BY <1>2, <1>4, <1>7, <2>1 DEF Follows, Follow, WiredAs
<1>12. Well(d)'  BY <1>5, <1>6, <1>8, <1>10, <1>11 DEF Well
<1>. QED  BY <1>0, <1>2, <1>12, SaneKept

LEMMA RestashKeepsSane ==
    ASSUME NEW p \in Runners, Alive(p), Restash(p)
    PROVE  Sane'
<1>0. PICK c, d : c = cmd[p] /\ d = cmd'[p]  OBVIOUS
<1>1. /\ c.pc = "restash" /\ Well(c) /\ InstallerTypes /\ Standing(c) /\ issued \in Nat
      /\ c.pc \notin Dropping /\ Purpose(c)
  BY <1>0, WiringIsWell DEF Restash, At, WiringStages
<1>2. /\ Spares(p)
      /\ d.pc = "state" /\ d.op = c.op /\ d.st = c.st /\ d.to = c.to /\ d.keep = c.keep
      /\ d.step = c.step /\ d.before = c.before /\ d.old = c.old /\ d.keys = c.keys
  BY <1>0, <1>1, MovesOn DEF Restash, WiringStages
<1>3. c.op = "reconnect" /\ c.step = 0  BY <1>1 DEF Standing
<1>4. UNCHANGED <<settings, state, managed, issued, spoiled>> /\ stash' = c.to.token
  BY <1>0 DEF Restash
<1>5. Aim(d)'  BY <1>1, <1>2, <1>3, <1>4 DEF Well, Aim
<1>6. Unedited' => Half(d)'  BY <1>1, <1>2, <1>3, <1>4, HalfSame DEF Well, Unedited
<1>7. ~Tentative(c) /\ ~Tentative(d)  BY <1>1, <1>2, <1>3 DEF Tentative
<1>8. Enrolled' => Paper(d)'  BY <1>1, <1>4, <1>7 DEF Well, Enrolled, Paper, HasRecord
<1>9. stash' # Absent
  <2>1. c.to.token \in Issued  BY <1>1, <1>3 DEF Purpose, Company
  <2>. QED  BY <1>1, <1>4, <2>1, IssuedTokens
<1>10. Unbroken' => Way(d)'  BY <1>2, <1>3, <1>9 DEF Way, Open, Kept
<1>11. spoiled' = {} => Follows(d)'
  <2>. SUFFICES ASSUME spoiled = {}  PROVE Follows(d)'  BY <1>4
  <2>1. Follow(c.before, managed)  BY <1>1, <1>7 DEF Well, Follows
  <2>. QED  BY <1>2, <1>4, <1>7, <2>1 DEF Follows, Follow, WiredAs
<1>12. Well(d)'  BY <1>5, <1>6, <1>8, <1>10, <1>11 DEF Well
<1>. QED  BY <1>0, <1>2, <1>12, SaneKept

LEMMA Places ==
    /\ \A i \in 1 .. 2 : Order[i] \in Tools /\ Place(Order[i]) = i
    /\ \A t \in Tools : Place(t) \in 1 .. 2 /\ Order[Place(t)] = t
<1>1. Order[1] = "claude" /\ Order[2] = "codex"  BY DEF Order
<1>2. \A i \in 1 .. 2 : i = 1 \/ i = 2  OBVIOUS
<1>. QED  BY <1>1, <1>2 DEF Place, Tools

LEMMA MergeKeepsSane ==
    ASSUME NEW p \in Runners, Alive(p), Merge(p)
    PROVE  Sane'
<1>0. PICK c, d : c = cmd[p] /\ d = cmd'[p]  OBVIOUS
<1>1. /\ c.pc = "merge" /\ Well(c) /\ InstallerTypes /\ Standing(c) /\ issued \in Nat
      /\ c.pc \notin Dropping /\ c.op \in {"enroll", "enable", "disable", "reconnect"}
      /\ c.step \in 0 .. 2
  BY <1>0, WiringIsWell DEF Merge, At, WiringStages
<1>2. PICK t \in Tools :
        /\ c.step \in {0, 1} /\ t = Order[c.step + 1]
        /\ settings'[t] = Merged(t, settings[t], c.to, c.keep)
        /\ \A u \in Tools \ {t} : settings'[u] = settings[u]
  BY <1>0, MergeWrites DEF Alive
<1>3. /\ Spares(p)
      /\ d.pc = (IF c.step + 1 = 2 THEN AfterMerge(c.op) ELSE "merge")
      /\ d.op = c.op /\ d.st = c.st /\ d.to = c.to /\ d.keep = c.keep
      /\ d.step = c.step + 1 /\ d.before = c.before /\ d.old = c.old /\ d.keys = c.keys
  BY <1>0, MergeMoves DEF Moves, Alive
<1>4. UNCHANGED <<state, managed, stash, issued, spoiled>>  BY DEF Merge
<1>5. d.pc \in {"merge", "managed", "readkeys"} /\ (d.op # "enroll" => d.pc # "readkeys")
      /\ (d.op = "enroll" => d.pc # "managed")
  BY <1>3 DEF AfterMerge
<1>6. Aim(d)'  BY <1>1, <1>3, <1>4, <1>5 DEF Well, Aim
<1>7. Unedited' => Half(d)'
  <2>. SUFFICES ASSUME Unedited  PROVE Half(d)'  BY <1>4 DEF Unedited
  <2>1. \A u \in Tools : settings[u] = IF Place(u) <= c.step THEN Written(c, u) ELSE c.before[u]
    BY <1>1 DEF Well, Half
  <2>2. \A u \in Tools : Written(c, u) = Merged(u, c.before[u], c.to, c.keep)
    BY <1>1 DEF Written
  <2>3. \A u \in Tools : Written(d, u) = Merged(u, c.before[u], c.to, c.keep)
    BY <1>1, <1>3 DEF Written
  <2>4. ASSUME NEW u \in Tools
        PROVE  settings'[u] = IF Place(u) <= d.step THEN Written(d, u) ELSE d.before[u]
    <3>1. CASE u = t
      <4>1. Place(u) = c.step + 1  BY <1>2, <3>1, Places
      <4>2. settings[u] = c.before[u]  BY <1>2, <2>1, <4>1
      <4>. QED  BY <1>2, <1>3, <2>3, <3>1, <4>1, <4>2
    <3>2. CASE u # t
      <4>1. Place(u) \in 1 .. 2 /\ Place(u) # c.step + 1  BY <1>2, <3>2, Places
      <4>2. Place(u) <= d.step <=> Place(u) <= c.step  BY <1>2, <1>3, <4>1
      <4>. QED  BY <1>2, <1>3, <2>1, <2>2, <2>3, <3>2, <4>2
    <3>. QED  BY <3>1, <3>2
  <2>5. \A u \in Tools : Written(d, u)' = Written(d, u)  BY DEF Written, Planned
  <2>. QED  BY <2>4, <2>5 DEF Half
<1>8. ~Tentative(c) /\ ~Tentative(d)  BY <1>1, <1>5 DEF Tentative
<1>9. Enrolled' => Paper(d)'  BY <1>1, <1>4, <1>8 DEF Well, Enrolled, Paper, HasRecord
<1>10. Unbroken' => Way(d)'
  <2>. SUFFICES ASSUME Unbroken  PROVE Way(d)'  BY <1>4 DEF Unbroken
  <2>1. Kept(c) = stash /\ Kept(d)' = stash  BY <1>1, <1>3, <1>4, <1>5 DEF Kept, EnrollStages
  <2>2. Way(c)  BY <1>1 DEF Well
  <2>. QED  BY <1>1, <1>3, <1>4, <1>5, <2>1, <2>2 DEF Way, Open
<1>11. spoiled' = {} => Follows(d)'
  <2>. SUFFICES ASSUME spoiled = {}  PROVE Follows(d)'  BY <1>4
  <2>1. Follow(c.before, managed)  BY <1>1, <1>8 DEF Well, Follows
  <2>. QED  BY <1>3, <1>4, <1>5, <1>8, <2>1 DEF Follows, Follow, WiredAs
<1>12. Well(d)'  BY <1>6, <1>7, <1>9, <1>10, <1>11 DEF Well
<1>. QED  BY <1>0, <1>3, <1>5, <1>12, SaneKept

LEMMA MergeFailsKeepsSane ==
    ASSUME NEW p \in Runners, Alive(p), MergeFails(p)
    PROVE  Sane'
<1>1. cmd[p].pc = "merge" /\ cmd[p] \in Wirings
  BY WiringIsWell DEF MergeFails, At, WiringStages
<1>2. ~Tentative(cmd[p]) /\ Kept(cmd[p]) = stash  BY <1>1 DEF Tentative, Kept, EnrollStages
<1>. QED  BY <1>1, <1>2, TakenBack DEF MergeFails, disk

LEMMA UndoKeepsSane ==
    ASSUME NEW p \in Runners, Alive(p), Undo(p)
    PROVE  Sane'
<1>0. PICK c, d : c = cmd[p] /\ d = cmd'[p]  OBVIOUS
<1>1. /\ c.pc = "undo" /\ Well(c) /\ InstallerTypes /\ Standing(c) /\ issued \in Nat
      /\ c.pc \notin Dropping /\ c.op \in {"enroll", "enable", "disable", "reconnect"}
      /\ c.step \in 0 .. 2
  BY <1>0, WiringIsWell DEF Undo, At, WiringStages
<1>2. UNCHANGED <<state, managed, stash, cred, issued, spoiled>>  BY DEF Undo
<1>3. CASE c.step = 0
  <2>1. Done(p) /\ settings' = settings  BY <1>0, <1>3 DEF Undo
  <2>. QED  BY <1>0, <1>1, <1>2, <1>3, <2>1, LeftAsFound DEF disk
<1>4. CASE c.step # 0
  <2>1. PICK t \in Tools : /\ t = Order[c.step] /\ settings'[t] = c.before[t]
                           /\ \A u \in Tools \ {t} : settings'[u] = settings[u]
    BY <1>0, <1>4, UndoMoves DEF Alive
  <2>2. /\ Spares(p)
        /\ d.pc = "undo" /\ d.op = c.op /\ d.st = c.st /\ d.to = c.to /\ d.keep = c.keep
        /\ d.step = c.step - 1 /\ d.before = c.before /\ d.old = c.old /\ d.keys = c.keys
    BY <1>0, <1>4, UndoMoves DEF Moves, Alive
  <2>3. Aim(d)'  BY <1>1, <1>2, <2>2 DEF Well, Aim
  <2>4. Unedited' => Half(d)'
    <3>. SUFFICES ASSUME Unedited  PROVE Half(d)'  BY <1>2 DEF Unedited
    <3>1. \A u \in Tools : settings[u] = IF Place(u) <= c.step THEN Written(c, u) ELSE c.before[u]
      BY <1>1 DEF Well, Half
    <3>2. \A u \in Tools : Written(c, u) = Written(d, u)  BY <1>1, <2>2 DEF Written
    <3>3. ASSUME NEW u \in Tools
          PROVE  settings'[u] = IF Place(u) <= d.step THEN Written(d, u) ELSE d.before[u]
      <4>1. CASE u = t
        <5>1. Place(u) = c.step  BY <1>1, <1>4, <2>1, <4>1, Places
        <5>. QED  BY <1>1, <2>1, <2>2, <4>1, <5>1
      <4>2. CASE u # t
        <5>1. Place(u) \in 1 .. 2 /\ Place(u) # c.step  BY <2>1, <4>2, Places
        <5>2. Place(u) <= d.step <=> Place(u) <= c.step  BY <1>1, <2>2, <5>1
        <5>. QED  BY <2>1, <2>2, <3>1, <3>2, <4>2, <5>2
      <4>. QED  BY <4>1, <4>2
    <3>4. \A u \in Tools : Written(d, u)' = Written(d, u)  BY DEF Written, Planned
    <3>. QED  BY <3>3, <3>4 DEF Half
  <2>5. ~Tentative(c) /\ ~Tentative(d)  BY <1>1, <2>2 DEF Tentative
  <2>6. Enrolled' => Paper(d)'  BY <1>1, <1>2, <2>5 DEF Well, Enrolled, Paper, HasRecord
  <2>7. Unbroken' => Way(d)'
    <3>. SUFFICES ASSUME Unbroken  PROVE Way(d)'  BY <1>2 DEF Unbroken
    <3>1. Kept(c) = stash /\ Kept(d)' = stash  BY <1>1, <1>2, <2>2 DEF Kept, EnrollStages
    <3>2. Way(c)  BY <1>1 DEF Well
    <3>. QED  BY <1>1, <1>2, <2>2, <3>1, <3>2 DEF Way, Open
  <2>8. spoiled' = {} => Follows(d)'
    <3>. SUFFICES ASSUME spoiled = {}  PROVE Follows(d)'  BY <1>2
    <3>1. Follow(c.before, managed)  BY <1>1, <2>5 DEF Well, Follows
    <3>. QED  BY <1>2, <2>2, <2>5, <3>1 DEF Follows, Follow, WiredAs
  <2>9. Well(d)'  BY <2>3, <2>4, <2>6, <2>7, <2>8 DEF Well
  <2>. QED  BY <1>0, <2>2, <2>9, SaneKept
<1>. QED  BY <1>3, <1>4

LEMMA ReadKeysKeepsSane ==
    ASSUME NEW p \in Runners, Alive(p), ReadKeys(p)
    PROVE  Sane'
<1>0. PICK c, d : c = cmd[p] /\ d = cmd'[p]  OBVIOUS
<1>1. /\ c.pc = "readkeys" /\ Well(c) /\ InstallerTypes /\ Standing(c) /\ issued \in Nat
      /\ c.pc \notin Dropping /\ c.op = "enroll"
  BY <1>0, WiringIsWell DEF ReadKeys, At, WiringStages, Standing
<1>2. UNCHANGED <<settings, state, managed, stash, cred, issued, spoiled>>  BY DEF ReadKeys, disk
<1>3. /\ Spares(p)
      /\ d.pc = (IF c.to.local THEN "keepstash" ELSE "cred")
      /\ d.op = c.op /\ d.st = c.st /\ d.to = c.to /\ d.keep = c.keep
      /\ d.step = c.step /\ d.before = c.before /\ d.old = c.old /\ d.keys = <<stash, cred>>
  BY <1>0, ReadKeysMoves DEF Moves, Alive
<1>4. Aim(d)'  BY <1>1, <1>2, <1>3, AimSame DEF Well
<1>5. Unedited' => Half(d)'  BY <1>1, <1>2, <1>3, HalfSame DEF Well, Unedited
<1>6. ~Tentative(c) /\ ~Tentative(d)  BY <1>1, <1>3 DEF Tentative
<1>7. Enrolled' => Paper(d)'  BY <1>1, <1>2, <1>6 DEF Well, Enrolled, Paper, HasRecord
<1>8. Unbroken' => Way(d)'
  <2>. SUFFICES ASSUME Unbroken  PROVE Way(d)'  BY <1>2 DEF Unbroken
  <2>1. d.keys[1] = stash  BY <1>3
  <2>2. Kept(c) = stash /\ Kept(d)' = stash  BY <1>1, <1>2, <1>3, <2>1 DEF Kept, EnrollStages
  <2>3. Way(c)  BY <1>1 DEF Well
  <2>. QED  BY <1>1, <1>2, <1>3, <2>1, <2>2, <2>3 DEF Way, Open
<1>9. spoiled' = {} => Follows(d)'
  <2>. SUFFICES ASSUME spoiled = {}  PROVE Follows(d)'  BY <1>2
  <2>1. Follow(c.before, managed)  BY <1>1, <1>6 DEF Well, Follows
  <2>. QED  BY <1>2, <1>3, <1>6, <2>1 DEF Follows, Follow, WiredAs
<1>10. Well(d)'  BY <1>4, <1>5, <1>7, <1>8, <1>9 DEF Well
<1>. QED  BY <1>0, <1>3, <1>10, SaneKept

LEMMA NotThere == Absent \notin States /\ Absent \notin Records
BY ValueAssumption DEF States, Records

\* A command that wires and goes on to its next stage with everything as it is,
\* but perhaps the keyring.
LEMMA GoesOn ==
    ASSUME NEW p \in Runners, Alive(p), cmd[p].pc \in WiringStages, NEW pc \in WiringStages,
           Goto(p, pc), UNCHANGED <<settings, state, managed, issued, spoiled>>,
           NEW c, NEW d, c = cmd[p], d = cmd'[p],
           ~Tentative(c), pc \notin {"clear", "state"}, c.pc # "clear", c.op # "reconnect" \/ pc = "undo",
           Unbroken => Way(d)'
    PROVE  Sane'
<1>1. /\ Well(c) /\ InstallerTypes /\ Standing(c) /\ issued \in Nat /\ c.pc \notin Dropping
  BY WiringIsWell
<1>2. /\ Spares(p)
      /\ d.pc = pc /\ d.op = c.op /\ d.st = c.st /\ d.to = c.to /\ d.keep = c.keep
      /\ d.step = c.step /\ d.before = c.before /\ d.old = c.old /\ d.keys = c.keys
  BY MovesOn
<1>3. pc \notin {"recordgone", "idle"}  BY DEF WiringStages
<1>5. Aim(d)'  BY <1>1, <1>2, <1>3, AimSame DEF Well
<1>6. Unedited' => Half(d)'  BY <1>1, <1>2, HalfSame DEF Well, Unedited
<1>7. ~Tentative(d)  BY <1>2 DEF Tentative
<1>8. Enrolled' => Paper(d)'  BY <1>1, <1>7 DEF Well, Enrolled, Paper, HasRecord
<1>9. Unbroken' => Way(d)'  BY DEF Unbroken
<1>11. spoiled' = {} => Follows(d)'
  <2>. SUFFICES ASSUME spoiled = {}  PROVE Follows(d)'  OBVIOUS
  <2>1. Follow(c.before, managed)  BY <1>1 DEF Well, Follows
  <2>. QED  BY <1>2, <1>7, <2>1 DEF Follows, Follow, WiredAs
<1>12. Well(d)'  BY <1>5, <1>6, <1>8, <1>9, <1>11 DEF Well
<1>. QED  BY <1>2, <1>3, <1>12, SaneKept

LEMMA KeepStashKeepsSane ==
    ASSUME NEW p \in Runners, Alive(p), KeepStash(p)
    PROVE  Sane'
<1>0. PICK c, d : c = cmd[p] /\ d = cmd'[p]  OBVIOUS
<1>1. /\ c.pc = "keepstash" /\ Well(c) /\ Standing(c) /\ Purpose(c) /\ issued \in Nat
      /\ c.op = "enroll"
  BY <1>0, WiringIsWell DEF KeepStash, At, WiringStages, Standing
<1>2. /\ d.pc = "cred" /\ d.op = c.op /\ d.to = c.to /\ d.before = c.before /\ d.keys = c.keys
  BY <1>0, <1>1, MovesOn DEF KeepStash, WiringStages
<1>3. stash' = c.st.token /\ stash' # Absent
  <2>1. c.st.token \in Issued  BY <1>1 DEF Purpose
  <2>. QED  BY <1>0, <1>1, <2>1, IssuedTokens DEF KeepStash
<1>4. Unbroken => Way(d)'
  <2>. SUFFICES ASSUME Unbroken  PROVE Way(d)'  OBVIOUS
  <2>1. Way(c)  BY <1>1 DEF Well
  <2>2. Open(c.before, Kept(d))'
    <3>1. CASE c.to.local
      <4>1. Kept(c) = c.keys[1] /\ Kept(d)' = c.keys[1]
        BY <1>1, <1>2, <3>1 DEF Kept, EnrollStages
      <4>2. PICK k : k = c.keys[1]  OBVIOUS
      <4>3. Open(c.before, k)  BY <1>1, <2>1, <4>1, <4>2 DEF Way
      <4>4. Open(c.before, k)'  BY <4>3 DEF Open, KeepStash
      <4>. QED  BY <4>1, <4>2, <4>4
    <3>2. CASE ~c.to.local
      <4>1. Kept(d)' = stash'  BY <1>2, <3>2 DEF Kept
      <4>. QED  BY <1>3, <4>1 DEF Open
    <3>. QED  BY <3>1, <3>2
  <2>. QED  BY <1>1, <1>2, <1>3, <2>2 DEF Way
<1>5. /\ ~Tentative(c) /\ c.pc \in WiringStages /\ "cred" \in WiringStages
      /\ UNCHANGED <<settings, state, managed, issued, spoiled>> /\ Goto(p, "cred")
  BY <1>1 DEF Tentative, WiringStages, KeepStash
<1>. QED  BY <1>0, <1>1, <1>4, <1>5, GoesOn

LEMMA SaveCredentialKeepsSane ==
    ASSUME NEW p \in Runners, Alive(p), SaveCredential(p)
    PROVE  Sane'
<1>0. PICK c, d : c = cmd[p] /\ d = cmd'[p]  OBVIOUS
<1>1. /\ c.pc = "cred" /\ Well(c) /\ Standing(c) /\ Purpose(c) /\ issued \in Nat
      /\ c.op = "enroll"
  BY <1>0, WiringIsWell DEF SaveCredential, At, WiringStages, Standing
<1>2. /\ d.pc = "managed" /\ d.op = c.op /\ d.to = c.to /\ d.before = c.before /\ d.keys = c.keys
  BY <1>0, <1>1, MovesOn DEF SaveCredential, WiringStages
<1>3. UNCHANGED <<settings, state, managed, stash, issued, spoiled>> /\ Goto(p, "managed")
  BY DEF SaveCredential
<1>4. Unbroken => Way(d)'
  <2>. SUFFICES ASSUME Unbroken  PROVE Way(d)'  OBVIOUS
  <2>0. PICK k : k = Kept(c)  OBVIOUS
  <2>1. Way(c)  BY <1>1 DEF Well
  <2>2. Kept(d)' = k  BY <1>1, <1>2, <1>3, <2>0 DEF Kept, EnrollStages
  <2>3. Open(c.before, k)'  BY <1>1, <1>3, <2>0, <2>1 DEF Way, Open
  <2>. QED  BY <1>1, <1>2, <1>3, <2>1, <2>2, <2>3 DEF Way
<1>5. ~Tentative(c) /\ c.pc \in WiringStages /\ "managed" \in WiringStages
  BY <1>1 DEF Tentative, WiringStages
<1>. QED  BY <1>0, <1>1, <1>3, <1>4, <1>5, GoesOn

\* The failures after which everything is taken back.
LEMMA FailuresKeepSane ==
    ASSUME NEW p \in Runners, Alive(p),
           \/ KeepStashFails(p) \/ SaveCredentialFails(p) \/ SaveManagedRefused(p)
           \/ SaveManagedFails(p) \/ WriteStateFails(p)
    PROVE  Sane'
<1>0. PICK c : c = cmd[p]  OBVIOUS
<1>1. c.pc \in {"keepstash", "cred", "managed", "state"}
  BY <1>0 DEF KeepStashFails, SaveCredentialFails, SaveManagedRefused, SaveManagedFails,
              WriteStateFails, At
<1>2. c \in Wirings /\ Well(c) /\ Standing(c) /\ c.pc \notin {"stash", "clear"}
  BY <1>0, <1>1, WiringIsWell DEF WiringStages
<1>3. Goto(p, "undo") /\ UNCHANGED <<settings, state, issued, spoiled>>
  BY DEF KeepStashFails, SaveCredentialFails, SaveManagedRefused, SaveManagedFails,
         WriteStateFails, GiveUp, disk
<1>4. managed' = IF Tentative(c) THEN c.old ELSE managed
  <2>1. CASE WriteStateFails(p)
    <3>1. c.pc = "state" /\ managed' = IF c.op = "reconnect" /\ c.step = 0 THEN managed ELSE c.old
      BY <1>0, <2>1 DEF WriteStateFails, At
    <3>. QED  BY <1>2, <3>1 DEF Standing, Tentative
  <2>2. CASE ~WriteStateFails(p)
    <3>1. c.pc # "state" /\ managed' = managed
      BY <1>0, <2>2 DEF KeepStashFails, SaveCredentialFails, SaveManagedRefused, SaveManagedFails,
                        At, disk
    <3>. QED  BY <3>1 DEF Tentative
  <2>. QED  BY <2>1, <2>2
<1>5. Kept(c) = IF c.op = "enroll" THEN StashBefore(p) ELSE stash
  BY <1>0, <1>1 DEF Kept, EnrollStages, StashBefore
<1>6. Unbroken => stash' = Kept(c)
  <2>1. CASE KeepStashFails(p)
    <3>1. stash' = stash /\ c.pc = "keepstash"  BY <1>0, <2>1 DEF KeepStashFails, At, disk
    <3>2. Unbroken => Way(c)  BY <1>2 DEF Well
    <3>. QED  BY <1>2, <3>1, <3>2 DEF Way, Standing, Kept
  <2>2. CASE SaveCredentialFails(p)
    <3>1. stash' = StashBefore(p) /\ c.pc = "cred"  BY <1>0, <2>2 DEF SaveCredentialFails, At
    <3>. QED  BY <1>2, <1>5, <3>1 DEF Standing
  <2>3. CASE SaveManagedRefused(p) \/ SaveManagedFails(p) \/ WriteStateFails(p)
    <3>1. stash' = IF c.op = "enroll" THEN StashBefore(p) ELSE stash
      BY <1>0, <2>3 DEF SaveManagedRefused, SaveManagedFails, WriteStateFails, GiveUp
    <3>. QED  BY <1>5, <3>1
  <2>. QED  BY <2>1, <2>2, <2>3
<1>. QED  BY <1>0, <1>2, <1>3, <1>4, <1>6, TakenBack

LEMMA ReadKeysFailsKeepsSane ==
    ASSUME NEW p \in Runners, Alive(p), ReadKeysFails(p)
    PROVE  Sane'
<1>1. InstallerTypes /\ CommandTypes  BY AliveIsWell DEF InstallerTypes, CommandTypes
<1>2. Spares(p) /\ cmd'[p].pc = "idle"  BY <1>1, Ending DEF ReadKeysFails
<1>3. Calm'  BY DEF ReadKeysFails, Calm, Enrolled, Unbroken
<1>. QED  BY <1>2, <1>3, SaneKept

LEMMA MergedFields ==
    ASSUME NEW t, NEW m, NEW f, NEW k
    PROVE  /\ Merged(t, f, m, k).ours = IF KeepsHooks(t, k) THEN f.ours ELSE HookFor(t, m)
           /\ Merged(t, f, m, k).switch = MergedSwitch(t, f, m, k)
<1>. DEFINE leaf == [l \in Leaves(t) |-> Wanted(t, m, l)]
            ours == IF KeepsHooks(t, k) THEN f.ours ELSE HookFor(t, m)
            switch == MergedSwitch(t, f, m, k)
<1>. HIDE DEF leaf, ours, switch
<1>1. Merged(t, f, m, k) = [leaf |-> leaf, ours |-> ours, theirs |-> f.theirs, switch |-> switch]
  BY DEF Merged, leaf, ours, switch
<1>2. Merged(t, f, m, k).ours = ours /\ Merged(t, f, m, k).switch = switch  BY <1>1
<1>. QED  BY <1>2 DEF ours, switch

LEMMA RecordedFields ==
    ASSUME NEW t, NEW m, NEW k, NEW old
    PROVE  /\ Recorded(t, m, k, old).ours =
                IF ~KeepsHooks(t, k) THEN HookFor(t, m)
                ELSE IF old = Absent THEN Absent ELSE old.ours
           /\ Recorded(t, m, k, old).switch =
                IF KeepsHooks(t, k) THEN old # Absent /\ old.switch ELSE t = "codex" /\ m.local
<1>. DEFINE leaf == [l \in Leaves(t) |-> Wanted(t, m, l)]
            ours == IF ~KeepsHooks(t, k) THEN HookFor(t, m)
                    ELSE IF old = Absent THEN Absent ELSE old.ours
            switch == IF KeepsHooks(t, k) THEN old # Absent /\ old.switch
                      ELSE t = "codex" /\ m.local
<1>. HIDE DEF leaf, ours, switch
<1>1. Recorded(t, m, k, old) = [leaf |-> leaf, ours |-> ours, switch |-> switch]
  BY DEF Recorded, leaf, ours, switch
<1>2. Recorded(t, m, k, old).ours = ours /\ Recorded(t, m, k, old).switch = switch  BY <1>1
<1>. QED  BY <1>2 DEF ours, switch

\* What a merge writes and what is recorded of it agree, also when the hooks
\* stay as they were and their record is carried over.
LEMMA MergedAsRecorded ==
    ASSUME NEW t \in Tools, NEW m \in Manifests, NEW f \in FileOf(t), NEW k \in BOOLEAN,
           NEW old \in RecordOf(t) \cup {Absent},
           KeepsHooks(t, k) => old # Absent /\ NoDrift(f, old)
    PROVE  /\ \A l \in Leaves(t) : Merged(t, f, m, k).leaf[l] = Wanted(t, m, l)
           /\ NoDrift(Merged(t, f, m, k), Recorded(t, m, k, old))
<1>. DEFINE g == Merged(t, f, m, k)
            r == Recorded(t, m, k, old)
<1>1. \A l \in Leaves(t) : g.leaf[l] = Wanted(t, m, l)  BY MergedTypes
<1>2. \A l \in DOMAIN g.leaf : g.leaf[l] = r.leaf[l]  BY DEF Merged, Recorded
<1>3. CASE KeepsHooks(t, k)
  <2>1. k = TRUE /\ t = "codex"  BY <1>3 DEF KeepsHooks
  <2>0. old # Absent /\ NoDrift(f, old)  BY <1>3
  <2>5. g.ours = f.ours  BY <1>3, MergedFields
  <2>2. r.ours = old.ours  BY <1>3, <2>0, RecordedFields
  <2>3. r.switch = old.switch
    <3>1. old.switch \in BOOLEAN  BY <2>0 DEF RecordOf, Record
    <3>2. r.switch = (old # Absent /\ old.switch)  BY <1>3, RecordedFields
    <3>. QED  BY <2>0, <3>1, <3>2
  <2>4. g.switch = f.switch
    <3>1. MergedSwitch(t, f, m, k) = f.switch  BY <2>1 DEF MergedSwitch
    <3>2. g.switch = MergedSwitch(t, f, m, k)  BY MergedFields
    <3>. QED  BY <3>1, <3>2
  <2>6. NoDrift(g, r)
    <3>. HIDE DEF g, r
    <3>. QED  BY <1>2, <2>0, <2>2, <2>3, <2>4, <2>5 DEF NoDrift
  <2>. QED  BY <1>1, <2>6
<1>4. CASE ~KeepsHooks(t, k)
  <2>1. g.ours = r.ours  BY <1>4, MergedFields, RecordedFields
  <2>2. r.switch <=> t = "codex" /\ m.local
    <3>1. r.switch = (t = "codex" /\ m.local)  BY <1>4, RecordedFields
    <3>. QED  BY <3>1
  <2>3. t = "codex" /\ m.local => g.switch = "on"
    BY <1>4, MergedFields DEF MergedSwitch, KeepsHooks
  <2>. QED  BY <1>1, <1>2, <2>1, <2>2, <2>3 DEF NoDrift
<1>. QED  BY <1>3, <1>4

\* The bearer that is in a file that a command has written.
LEMMA WrittenBearer ==
    ASSUME NEW c \in Wirings, NEW t \in Tools
    PROVE  /\ Written(c, t) = Merged(t, c.before[t], c.to, c.keep)
           /\ c.before[t] \in FileOf(t) /\ c.to \in Manifests /\ c.keep \in BOOLEAN
           /\ BearerIn(t, Written(c, t)) = c.to.token
<1>1. c.op # "uninstall" /\ c.before \in Files /\ c.to \in Manifests /\ c.keep \in BOOLEAN
  BY DEF Wirings
<1>. QED  BY <1>1, MergedTypes DEF Written, Files

\* What the files agree with is what the state says, or a command.
LEMMA FollowGrows ==
    ASSUME NEW f, NEW m, Follow(f, m), issued \in Nat, issued' \in Nat,
           issued' = issued \/ issued' = issued + 1,
           \/ state' = state
           \/ state # Absent /\ state'.local = state.local /\ state'.port = state.port
    PROVE  Follow(f, m)'
<1>1. CASE state' = Absent  BY <1>1 DEF Follow
<1>2. CASE state' # Absent
  <2>1. state # Absent /\ state'.local = state.local /\ state'.port = state.port  BY <1>2
  <2>2. PICK to \in WiredAs(state) : Agree(f, m, to)  BY <2>1 DEF Follow
  <2>3. 1 .. issued \subseteq 1 .. issued'  OBVIOUS
  <2>4. to \in WiredAs(state)'  BY <2>1, <2>2, <2>3 DEF WiredAs
  <2>5. Agree(f, m, to)'  BY <2>2 DEF Agree
  <2>. QED  BY <2>4, <2>5 DEF Follow
<1>. QED  BY <1>1, <1>2

LEMMA WiresAs ==
    ASSUME NEW c \in Wirings, Purpose(c), Carries(c), c.op = "reconnect" => ~c.st.local
    PROVE  c.to \in WiredAs(c.st)
<1>1. c.op \in {"enroll", "enable", "disable", "reconnect"} /\ c.st.local \in BOOLEAN
  BY DEF Wirings, States
<1>2. CASE c.st.local  BY <1>1, <1>2 DEF Purpose, WiredAs
<1>3. CASE ~c.st.local
  <2>4. PICK x : c.to = Company(x)  BY <1>1, <1>3 DEF Purpose
  <2>5. c.to.token = x /\ ~c.to.local /\ c.op # "uninstall"  BY <1>1, <2>4 DEF Company
  <2>2. c.to.token \in Issued  BY <2>5 DEF Carries
  <2>3. PICK n \in 1 .. issued : c.to.token = Token(n)  BY <2>2 DEF Issued
  <2>. QED  BY <1>3, <2>3, <2>4, <2>5 DEF WiredAs
<1>. QED  BY <1>2, <1>3

\* The files when the last of them is written.
LEMMA AllWritten ==
    ASSUME NEW c \in Wirings, c.step = 2, Half(c)
    PROVE  \A t \in Tools : /\ settings[t] = Merged(t, c.before[t], c.to, c.keep)
                            /\ Bearer(t) = c.to.token
<1>1. c.pc \notin Dropping  BY DEF Wirings, WiringStages, Dropping
<1>2. ASSUME NEW t \in Tools
      PROVE  settings[t] = Merged(t, c.before[t], c.to, c.keep) /\ Bearer(t) = c.to.token
  <2>1. Place(t) <= c.step  BY Places
  <2>2. settings[t] = Written(c, t)  BY <1>1, <2>1 DEF Half
  <2>. QED  BY <2>2, WrittenBearer DEF Bearer
<1>. QED  BY <1>2

LEMMA SaveManagedKeepsSane ==
    ASSUME NEW p \in Runners, Alive(p), SaveManaged(p)
    PROVE  Sane'
<1>0. PICK c, d : c = cmd[p] /\ d = cmd'[p]  OBVIOUS
<1>1. /\ c.pc = "managed" /\ Well(c) /\ InstallerTypes /\ Standing(c) /\ issued \in Nat
      /\ c.pc \notin Dropping /\ c \in Wirings /\ c.step = 2
      /\ c.op \in {"enroll", "enable", "disable", "reconnect"}
  BY <1>0, WiringIsWell DEF SaveManaged, At, WiringStages, Standing
<1>2. /\ managed' \in Records /\ managed'.inst = c.st.inst
      /\ \A t \in Tools : /\ OldRecord(t) \in RecordOf(t) \cup {Absent}
                          /\ managed'.rec[t] = Recorded(t, c.to, c.keep, OldRecord(t))
      /\ Spares(p)
      /\ d.pc = "state" /\ d.op = c.op /\ d.st = c.st /\ d.to = c.to /\ d.keep = c.keep
      /\ d.step = c.step /\ d.before = c.before /\ d.old = managed /\ d.keys = c.keys
  BY <1>0, SaveManagedMoves DEF Moves, Alive
<1>3. UNCHANGED <<settings, state, stash, issued, spoiled>>  BY DEF SaveManaged
<1>4. ~Tentative(c) /\ Tentative(d)  BY <1>1, <1>2 DEF Tentative
<1>5. Aim(d)'  BY <1>1, <1>2, <1>3 DEF Well, Aim
<1>6. Unedited' => Half(d)'  BY <1>1, <1>2, <1>3, HalfSame DEF Well, Unedited
<1>7. Enrolled' => Paper(d)'
  <2>1. managed' # Absent  BY <1>2, NotThere
  <2>. QED  BY <1>1, <1>2, <1>3, <1>4, <2>1 DEF Well, Enrolled, Paper, HasRecord
<1>8. Unbroken' => Way(d)'
  <2>. SUFFICES ASSUME Unbroken  PROVE Way(d)'  BY <1>3 DEF Unbroken
  <2>0. PICK k : k = Kept(c)  OBVIOUS
  <2>1. Way(c)  BY <1>1 DEF Well
  <2>2. Kept(d)' = k  BY <1>1, <1>2, <1>3, <2>0 DEF Kept, EnrollStages
  <2>3. c.op \in {"reconnect", "enroll"} => Open(c.before, k)'
    BY <1>1, <1>3, <2>0, <2>1 DEF Way, Open
  <2>4. c.op \in {"enable", "disable"} => Open(settings, stash)' /\ stash' # Absent
    BY <1>1, <1>3, <2>1 DEF Way, Open
  <2>. QED  BY <1>1, <1>2, <1>3, <2>1, <2>2, <2>3, <2>4 DEF Way
<1>9. spoiled' = {} => Follows(d)'
  <2>. SUFFICES ASSUME spoiled = {}  PROVE Follows(d)'  BY <1>3
  <2>0. PICK m, f : m = managed /\ f = c.before  OBVIOUS
  <2>1. Follow(f, m)  BY <1>1, <1>4, <2>0 DEF Well, Follows
  <2>2. Half(c)  BY <1>1 DEF Well, Unedited
  <2>3. ASSUME NEW t \in Tools
        PROVE  /\ \A l \in Leaves(t) : settings[t].leaf[l] = Wanted(t, c.to, l)
               /\ NoDrift(settings[t], managed'.rec[t])
    <3>1. f[t] \in FileOf(t) /\ c.to \in Manifests /\ c.keep \in BOOLEAN
      BY <1>1, <2>0, WrittenBearer
    <3>2. settings[t] = Merged(t, f[t], c.to, c.keep)  BY <1>1, <2>0, <2>2, AllWritten
    <3>3. KeepsHooks(t, c.keep) => OldRecord(t) # Absent /\ NoDrift(f[t], OldRecord(t))
      <4>. SUFFICES ASSUME KeepsHooks(t, c.keep)
                    PROVE  OldRecord(t) # Absent /\ NoDrift(f[t], OldRecord(t))
        OBVIOUS
      <4>1. c.keep  BY DEF KeepsHooks
      <4>2. c.op = "enable"  BY <1>1, <4>1 DEF Standing
      <4>3. state # Absent  BY <1>1, <4>2 DEF Well, Aim
      <4>4. m # Absent /\ NoDrift(f[t], m.rec[t])  BY <2>1, <4>3 DEF Follow, Agree
      <4>5. OldRecord(t) = m.rec[t]  BY <2>0, <4>3, <4>4 DEF OldRecord
      <4>6. m.rec[t] # Absent
        <5>1. m \in Records  BY <1>1, <2>0, <4>4 DEF InstallerTypes
        <5>2. m.rec[t] \in Record  BY <5>1 DEF Records
        <5>. QED  BY <5>2, ValueAssumption
      <4>. QED  BY <4>4, <4>5, <4>6
    <3>. QED  BY <1>2, <3>1, <3>2, <3>3, MergedAsRecorded
  <2>4. Agree(settings, managed, c.to)'
    <3>1. managed' # Absent  BY <1>2, NotThere
    <3>. QED  BY <1>3, <2>3, <3>1 DEF Agree
  <2>5. Follow(f, m)'  BY <1>1, <1>3, <2>1, FollowGrows
  <2>. QED  BY <1>2, <1>4, <2>0, <2>4, <2>5 DEF Follows, Dropping
<1>10. Well(d)'  BY <1>5, <1>6, <1>7, <1>8, <1>9 DEF Well
<1>. QED  BY <1>0, <1>2, <1>10, SaneKept

\* The state is written, and with it all is done but the keyring of a disabling.
LEMMA StateWritten ==
    ASSUME NEW p \in Runners, Alive(p), WriteState(p), NEW c, c = cmd[p]
    PROVE  /\ Enrolled' => HasRecord(managed)'
           /\ Unbroken' => Open(settings, stash)'
           /\ spoiled' = {} => Follow(settings, managed)'
<1>1. /\ c.pc = "state" /\ Well(c) /\ InstallerTypes /\ Standing(c) /\ issued \in Nat
      /\ c.pc \notin Dropping /\ c \in Wirings /\ c.st \in States /\ Purpose(c)
      /\ c.op \in {"enroll", "enable", "disable", "reconnect"}
  BY WiringIsWell DEF WriteState, At, WiringStages
<1>2. UNCHANGED <<settings, managed, stash, issued, spoiled>> /\ state' = c.st
  BY DEF WriteState
<1>3. state' # Absent  BY <1>1, <1>2, NotThere
<1>4. c.step = 2 \/ (c.op = "reconnect" /\ c.step = 0)  BY <1>1 DEF Standing
<1>5. c.op = "reconnect" => /\ state # Absent /\ state.inst = c.st.inst
                            /\ state.local = c.st.local /\ state.port = c.st.port
                            /\ (state.local <=> c.step = 0)
  BY <1>1, <1>4 DEF Well, Aim
<1>6. Unedited => Carries(c)
  BY DEF Alive, Tokens
<1>7. CASE c.step = 2
  <2>1. Tentative(c)  BY <1>1, <1>7 DEF Tentative
  <2>2. Enrolled' => HasRecord(managed)'
    BY <1>1, <1>2, <2>1 DEF Well, Enrolled, Paper, HasRecord
  <2>3. c.op = "reconnect" => ~c.st.local  BY <1>5, <1>7
  <2>4. Unedited => c.to \in WiredAs(c.st)  BY <1>1, <1>6, <2>3, WiresAs
  <2>5. Unbroken' => Open(settings, stash)'
    <3>. SUFFICES ASSUME Unbroken  PROVE Open(settings, stash)'  BY <1>2 DEF Unbroken
    <3>1. Way(c)  BY <1>1 DEF Well
    <3>2. CASE c.op \in {"enable", "disable"}
      <4>1. stash # Absent  BY <1>1, <3>1, <3>2 DEF Way
      <4>. QED  BY <1>2, <4>1 DEF Open
    <3>3. CASE c.op \in {"enroll", "reconnect"} /\ ~c.st.local
      <4>1. c.to = Company(c.st.token) /\ c.st.token \in Issued  BY <1>1, <3>3 DEF Purpose
      <4>2. c.to.token \in Issued  BY <4>1 DEF Company
      <4>3. c.to.token # Absent /\ c.to.token # Ingest  BY <1>1, <4>2, IssuedTokens
      <4>4. Half(c)  BY <1>1 DEF Well, Unbroken, Unedited
      <4>5. BearerIn("claude", settings["claude"]) = c.to.token
        BY <1>1, <1>7, <4>4, AllWritten, ToolValues DEF Bearer
      <4>. QED  BY <1>2, <3>3, <4>3, <4>5, ToolValues DEF Open
    <3>4. CASE c.op = "enroll" /\ c.st.local
      <4>1. c.to = Local(c.st.port, Ingest)  BY <1>1, <3>4 DEF Purpose
      <4>2. c.to.local  BY <4>1 DEF Local
      <4>3. stash # Absent  BY <1>1, <3>1, <3>4, <4>2 DEF Way
      <4>. QED  BY <1>2, <4>3 DEF Open
    <3>. QED  BY <1>1, <2>3, <3>2, <3>3, <3>4
  <2>6. spoiled' = {} => Follow(settings, managed)'
    <3>. SUFFICES ASSUME spoiled = {}  PROVE Follow(settings, managed)'  BY <1>2
    <3>1. Agree(settings, managed, c.to)  BY <1>1, <2>1 DEF Well, Follows
    <3>2. Agree(settings, managed, c.to)'  BY <1>2, <3>1 DEF Agree
    <3>3. c.to \in WiredAs(state)'  BY <1>2, <2>4 DEF WiredAs, Unedited
    <3>. QED  BY <3>2, <3>3 DEF Follow
  <2>. QED  BY <2>2, <2>5, <2>6
<1>8. CASE c.op = "reconnect" /\ c.step = 0
  <2>1. ~Tentative(c)  BY <1>8 DEF Tentative
  <2>2. Enrolled' => HasRecord(managed)'
    BY <1>1, <1>2, <1>5, <1>8, <2>1 DEF Well, Enrolled, Paper, HasRecord
  <2>3. Unbroken' => Open(settings, stash)'
    <3>. SUFFICES ASSUME Unbroken  PROVE Open(settings, stash)'  BY <1>2 DEF Unbroken
    <3>1. Open(c.before, stash)  BY <1>1, <1>8 DEF Well, Way, Kept
    <3>2. stash # Absent  BY <1>5, <1>8, <3>1 DEF Open
    <3>. QED  BY <1>2, <3>2 DEF Open
  <2>4. spoiled' = {} => Follow(settings, managed)'
    <3>. SUFFICES ASSUME spoiled = {}  PROVE Follow(settings, managed)'  BY <1>2
    <3>0. PICK f, m : f = settings /\ m = managed  OBVIOUS
    <3>1. \A t \in Tools : settings[t] = c.before[t]
      BY <1>1, <1>8 DEF Well, Unedited, Half, Place
    <3>2. settings = c.before  BY <1>1, <3>1 DEF InstallerTypes, Wirings, Files
    <3>3. Follow(f, m)  BY <1>1, <2>1, <3>0, <3>2 DEF Well, Follows
    <3>4. Follow(f, m)'  BY <1>1, <1>2, <1>5, <1>8, <3>3, FollowGrows
    <3>. QED  BY <1>2, <3>0, <3>4
  <2>. QED  BY <2>2, <2>3, <2>4
<1>. QED  BY <1>4, <1>7, <1>8

LEMMA WriteStateKeepsSane ==
    ASSUME NEW p \in Runners, Alive(p), WriteState(p)
    PROVE  Sane'
<1>0. PICK c, d : c = cmd[p] /\ d = cmd'[p]  OBVIOUS
<1>1. /\ c.pc = "state" /\ Well(c) /\ InstallerTypes /\ Standing(c) /\ issued \in Nat
      /\ c.pc \notin Dropping /\ c \in Wirings /\ c.st \in States /\ Purpose(c)
  BY <1>0, WiringIsWell DEF WriteState, At, WiringStages
<1>2. UNCHANGED <<settings, managed, stash, issued, spoiled>> /\ state' = c.st
  BY <1>0 DEF WriteState
<1>3. /\ Enrolled' => HasRecord(managed)'
      /\ Unbroken' => Open(settings, stash)'
      /\ spoiled' = {} => Follow(settings, managed)'
  BY <1>0, StateWritten
<1>4. CASE c.op = "disable"
  <2>1. Goto(p, "clear")  BY <1>0, <1>4 DEF WriteState
  <2>2. /\ Spares(p)
        /\ d.pc = "clear" /\ d.op = c.op /\ d.st = c.st /\ d.to = c.to /\ d.keep = c.keep
        /\ d.step = c.step /\ d.before = c.before /\ d.old = c.old /\ d.keys = c.keys
    BY <1>0, <1>1, <2>1, MovesOn DEF WiringStages
  <2>3. Aim(d)'
    <3>1. state' # Absent  BY <1>1, <1>2, NotThere
    <3>2. ~c.st.local  BY <1>1, <1>4 DEF Purpose
    <3>. QED  BY <1>2, <1>4, <2>2, <3>1, <3>2 DEF Aim
  <2>4. Unedited' => Half(d)'  BY <1>1, <1>2, <2>2, HalfSame DEF Well, Unedited
  <2>5. Enrolled' => Paper(d)'
    <3>1. ~Tentative(d)  BY <2>2 DEF Tentative
    <3>. QED  BY <1>3, <3>1 DEF Paper
  <2>6. Unbroken' => Way(d)'  BY <1>3, <1>4, <2>2 DEF Way
  <2>7. spoiled' = {} => Follows(d)'
    <3>1. ~Tentative(d)  BY <2>2 DEF Tentative
    <3>. QED  BY <1>3, <2>2, <3>1 DEF Follows
  <2>8. Well(d)'  BY <2>3, <2>4, <2>5, <2>6, <2>7 DEF Well
  <2>. QED  BY <1>0, <2>2, <2>8, SaneKept
<1>5. CASE c.op # "disable"
  <2>1. Done(p) /\ CommandTypes  BY <1>0, <1>1, <1>5 DEF WriteState, InstallerTypes, CommandTypes
  <2>2. Spares(p) /\ cmd'[p].pc = "idle"  BY <2>1, Ending
  <2>3. Calm'  BY <1>3 DEF Calm
  <2>. QED  BY <2>2, <2>3, SaneKept
<1>. QED  BY <1>4, <1>5

LEMMA ClearStashKeepsSane ==
    ASSUME NEW p \in Runners, Alive(p), ClearStash(p) \/ ClearStashFails(p)
    PROVE  Sane'
<1>0. PICK c : c = cmd[p]  OBVIOUS
<1>1. /\ c.pc = "clear" /\ Well(c) /\ InstallerTypes /\ Standing(c) /\ issued \in Nat
      /\ c.pc \notin Dropping /\ c \in Wirings /\ Purpose(c)
      /\ c.op = "disable" /\ c.step = 2
  BY <1>0, WiringIsWell DEF ClearStash, ClearStashFails, At, WiringStages, Standing
<1>2. UNCHANGED <<settings, state, managed, issued, spoiled>> /\ Done(p) /\ stash' \in {stash, Absent}
  BY DEF ClearStash, ClearStashFails, disk
<1>3. ~Tentative(c) /\ ~state.local  BY <1>1 DEF Tentative, Well, Aim
<1>4. Enrolled' => HasRecord(managed)'
  BY <1>1, <1>2, <1>3 DEF Well, Enrolled, Paper, HasRecord
<1>5. Unbroken' => Open(settings, stash)'
  <2>. SUFFICES ASSUME Unbroken  PROVE Open(settings, stash)'  BY <1>2 DEF Unbroken
  <2>1. Carries(c)  BY <1>0, <1>1 DEF Alive, Tokens, Unbroken, Unedited, Busy
  <2>2. PICK x : c.to = Company(x)  BY <1>1 DEF Purpose
  <2>3. c.to.token = x /\ ~c.to.local  BY <2>2 DEF Company
  <2>4. x \in Issued  BY <1>1, <2>1, <2>3 DEF Carries
  <2>5. x # Absent /\ x # Ingest  BY <1>1, <2>4, IssuedTokens
  <2>6. Half(c)  BY <1>1 DEF Well, Unbroken, Unedited
  <2>7. BearerIn("claude", settings["claude"]) = x
    BY <1>1, <2>3, <2>6, AllWritten, ToolValues DEF Bearer
  <2>. QED  BY <1>2, <1>3, <2>5, <2>7, ToolValues DEF Open
<1>6. spoiled' = {} => Follow(settings, managed)'
  <2>. SUFFICES ASSUME spoiled = {}  PROVE Follow(settings, managed)'  BY <1>2
  <2>1. Follow(settings, managed)  BY <1>1 DEF Well, Follows
  <2>. QED  BY <1>2, <2>1 DEF Follow, WiredAs
<1>7. CommandTypes  BY <1>1 DEF InstallerTypes, CommandTypes
<1>8. Spares(p) /\ cmd'[p].pc = "idle"  BY <1>2, <1>7, Ending
<1>9. Calm'  BY <1>4, <1>5, <1>6 DEF Calm
<1>. QED  BY <1>8, <1>9, SaneKept

LEMMA CommandStepKeepsSane ==
    ASSUME NEW p \in Runners, Alive(p), CommandStep(p)
    PROVE  Sane'
BY StashTokenKeepsSane, RestashKeepsSane, KeyringRefusesKeepsSane, MergeKeepsSane,
   MergeFailsKeepsSane, UndoKeepsSane, ReadKeysKeepsSane, ReadKeysFailsKeepsSane,
   KeepStashKeepsSane, SaveCredentialKeepsSane, SaveManagedKeepsSane, FailuresKeepSane,
   WriteStateKeepsSane, ClearStashKeepsSane
   DEF CommandStep

\* A command that is killed leaves the way back open, if it is not an enrolment.
LEMMA KilledKeepsSane ==
    ASSUME NEW p \in Runners, Alive(p), Killed(p)
    PROVE  Sane'
<1>0. PICK c : c = cmd[p]  OBVIOUS
<1>1. /\ Well(c) /\ InstallerTypes /\ Standing(c) /\ issued \in Nat /\ Purpose(c)
      /\ CommandTypes /\ c.pc # "idle"
  BY <1>0, AliveIsWell DEF InstallerTypes, CommandTypes, Killed, At
<1>2. UNCHANGED <<settings, state, managed, stash, issued>> /\ Done(p)
      /\ spoiled' = spoiled \cup {c.op}
  BY <1>0 DEF Killed, disk
<1>3. Spares(p) /\ cmd'[p].pc = "idle"  BY <1>1, <1>2, Ending
<1>4. c \in Wirings \/ c \in Removals  BY <1>0, <1>1, Doing DEF Commands
<1>5. Enrolled' => HasRecord(managed)'
  <2>. SUFFICES ASSUME Enrolled'  PROVE HasRecord(managed)'  OBVIOUS
  <2>1. Enrolled /\ c.op # "enroll"  BY <1>2 DEF Enrolled
  <2>2. Paper(c)  BY <1>1, <2>1 DEF Well
  <2>3. CASE Tentative(c)
    <3>1. c.op \in {"enable", "disable", "reconnect"}
      BY <1>4, <2>1, <2>3 DEF Tentative, Wirings, Removals, RemovalStages
    <3>2. state.inst = c.st.inst  BY <1>1, <3>1 DEF Well, Aim
    <3>. QED  BY <1>2, <2>2, <2>3, <3>2 DEF Paper, HasRecord
  <2>4. CASE ~Tentative(c)  BY <1>2, <2>2, <2>4 DEF Paper, HasRecord
  <2>. QED  BY <2>3, <2>4
<1>6. Unbroken' => Open(settings, stash)'
  <2>. SUFFICES ASSUME Unbroken'  PROVE Open(settings, stash)'  OBVIOUS
  <2>1. Unbroken /\ c.op \notin {"enroll", "uninstall"}  BY <1>2 DEF Unbroken
  <2>2. Way(c) /\ Half(c)  BY <1>1, <2>1 DEF Well, Unbroken, Unedited
  <2>3. c \in Wirings /\ c.op \in {"enable", "disable", "reconnect"} /\ c.pc \notin Dropping
    BY <1>4, <2>1 DEF Wirings, Removals, WiringStages, Dropping
  <2>4. CASE c.op \in {"enable", "disable"}
    <3>1. Open(settings, stash)  BY <2>2, <2>4 DEF Way
    <3>. QED  BY <1>2, <3>1 DEF Open
  <2>5. CASE c.op = "reconnect"
    <3>1. Open(c.before, stash)  BY <2>2, <2>5 DEF Way, Kept
    <3>2. CASE state = Absent \/ stash # Absent  BY <1>2, <3>2 DEF Open
    <3>3. CASE ~(state = Absent \/ stash # Absent)
      <4>1. PICK t \in Tools : BearerIn(t, c.before[t]) \notin {Absent, Ingest}
        BY <3>1, <3>3 DEF Open
      <4>2. ~state.local  BY <3>1, <3>3 DEF Open
      <4>3. settings[t] \in {Written(c, t), c.before[t]}  BY <2>2, <2>3 DEF Half
      <4>4. c.to = Company(c.st.token) /\ c.st.token \in Issued  BY <1>1, <2>5 DEF Purpose
      <4>5. c.to.token \in Issued  BY <4>4 DEF Company
      <4>6. c.to.token # Absent /\ c.to.token # Ingest  BY <1>1, <4>5, IssuedTokens
      <4>7. BearerIn(t, settings[t]) \notin {Absent, Ingest}
        BY <2>3, <4>1, <4>3, <4>6, WrittenBearer
      <4>. QED  BY <1>2, <4>2, <4>7 DEF Open
    <3>. QED  BY <3>2, <3>3
  <2>. QED  BY <2>3, <2>4, <2>5
<1>7. Calm'  BY <1>2, <1>5, <1>6 DEF Calm
<1>. QED  BY <1>3, <1>7, SaneKept

-----------------------------------------------------------------------------
(* The uninstallation keeps it                                              *)

\* What is known of a removal, at its stage.
LEMMA RemovalIsWell ==
    ASSUME Alive("user"), cmd["user"].pc \in RemovalStages
    PROVE  /\ "user" \in Runners /\ InstallerTypes /\ CommandTypes
           /\ Standing(cmd["user"]) /\ Well(cmd["user"])
           /\ cmd["user"] \in Removals /\ cmd["user"].op = "uninstall"
           /\ ~Tentative(cmd["user"]) /\ cmd["user"].pc \notin EnrollStages \cup {"clear"}
<1>1. "user" \in Runners  BY DEF Runners
<1>2. cmd["user"] \in Removals  BY <1>1, Doing DEF Alive, Busy, Orderly
<1>3. cmd["user"].op = "uninstall" /\ ~Tentative(cmd["user"])
      /\ cmd["user"].pc \notin EnrollStages \cup {"clear"}
  BY <1>2 DEF Removals, RemovalStages, Tentative, EnrollStages
<1>4. Well(cmd["user"]) /\ InstallerTypes /\ Standing(cmd["user"])  BY <1>1, AliveIsWell
<1>. QED  BY <1>1, <1>2, <1>3, <1>4 DEF InstallerTypes, CommandTypes

LEMMA RemovalMovesOn ==
    ASSUME Alive("user"), cmd["user"].pc \in RemovalStages, NEW pc \in RemovalStages,
           Goto("user", pc), NEW c, NEW d, c = cmd["user"], d = cmd'["user"]
    PROVE  /\ Spares("user")
           /\ d.pc = pc /\ d.op = c.op /\ d.st = c.st /\ d.to = c.to /\ d.keep = c.keep
           /\ d.step = c.step /\ d.before = c.before /\ d.old = c.old /\ d.keys = c.keys
BY RemovalIsWell, GotoRemoval DEF Moves, Alive

\* A removal goes on with the files, the state and the record as they are.
LEMMA RemovalGoesOn ==
    ASSUME Alive("user"), cmd["user"].pc \in RemovalStages, NEW pc \in RemovalStages,
           Goto("user", pc), UNCHANGED <<settings, state, managed, issued, spoiled>>,
           cmd["user"].pc \in Dropping => pc \in Dropping \ {"credgone"},
           pc \notin Dropping => stash' = stash,
           pc \notin {"credgone", "recordgone"}
    PROVE  Sane'
<1>0. PICK c, d : c = cmd["user"] /\ d = cmd'["user"]  OBVIOUS
<1>1. /\ "user" \in Runners /\ Well(c) /\ c.op = "uninstall" /\ ~Tentative(c)
      /\ c.pc \notin EnrollStages \cup {"clear"} /\ c.pc \in RemovalStages
  BY <1>0, RemovalIsWell
<1>2. /\ Spares("user")
      /\ d.pc = pc /\ d.op = c.op /\ d.st = c.st /\ d.to = c.to /\ d.keep = c.keep
      /\ d.step = c.step /\ d.before = c.before /\ d.old = c.old /\ d.keys = c.keys
  BY <1>0, <1>1, RemovalMovesOn
<1>3. pc \notin {"clear", "idle", "state", "stash", "keepstash", "cred", "managed"}
  BY DEF RemovalStages
<1>4. ~Tentative(d)  BY <1>2, <1>3 DEF Tentative
<1>5. Aim(d)'  BY <1>1, <1>2, <1>3 DEF Aim
<1>6. Unedited' => Half(d)'
  <2>. SUFFICES ASSUME Unedited, pc \notin Dropping  PROVE Half(d)'
    BY <1>2 DEF Unedited, Half
  <2>1. Half(c) /\ c.pc \notin Dropping  BY <1>0, <1>1 DEF Well
  <2>. QED  BY <1>2, <2>1, HalfSame
<1>7. Enrolled' => Paper(d)'  BY <1>1, <1>4 DEF Well, Enrolled, Paper, HasRecord
<1>8. Unbroken' => Way(d)'
  <2>. SUFFICES ASSUME Unbroken, pc \notin Dropping  PROVE Way(d)'
    BY <1>1, <1>2, <1>3 DEF Unbroken, Way, Dropping
  <2>0. PICK s, f : s = stash /\ f = c.before  OBVIOUS
  <2>1. c.pc \notin Dropping  BY <1>0
  <2>2. Open(f, s)  BY <1>1, <2>0, <2>1 DEF Well, Way, RemovalStages, Dropping
  <2>3. Open(f, s)'  BY <2>2 DEF Open
  <2>. QED  BY <1>1, <1>2, <2>0, <2>3 DEF Way
<1>9. spoiled' = {} => Follows(d)'
  <2>. SUFFICES ASSUME spoiled = {}, pc \notin Dropping  PROVE Follows(d)'
    BY <1>2, <1>3, <1>4 DEF Follows
  <2>0. PICK m, f : m = managed /\ f = c.before  OBVIOUS
  <2>1. Follow(f, m)  BY <1>0, <1>1, <2>0 DEF Well, Follows
  <2>2. Follow(f, m)'  BY <2>1 DEF Follow, WiredAs
  <2>. QED  BY <1>2, <1>3, <1>4, <2>0, <2>2 DEF Follows
<1>10. Well(d)'  BY <1>5, <1>6, <1>7, <1>8, <1>9 DEF Well
<1>. QED  BY <1>0, <1>1, <1>2, <1>3, <1>10, SaneKept

LEMMA StopDaemonKeepsSane == Alive("user") /\ StopDaemon => Sane'
<1>. SUFFICES ASSUME Alive("user"), StopDaemon  PROVE Sane'  OBVIOUS
<1>1. /\ cmd["user"].pc = "stop" /\ cmd["user"].pc \in RemovalStages /\ "lease" \in RemovalStages
      /\ cmd["user"].pc \notin Dropping /\ "lease" \notin Dropping
  BY DEF StopDaemon, At, RemovalStages, Dropping
<1>2. Goto("user", "lease") /\ UNCHANGED <<settings, state, managed, stash, issued, spoiled>>
  BY DEF StopDaemon, disk
<1>. QED  BY <1>1, <1>2, RemovalGoesOn

LEMMA StopRefusedKeepsSane == Alive("user") /\ StopRefused => Sane'
<1>. SUFFICES ASSUME Alive("user"), StopRefused  PROVE Sane'  OBVIOUS
<1>1. cmd["user"].pc = "stop" /\ cmd["user"].pc \in RemovalStages
  BY DEF StopRefused, At, RemovalStages
<1>2. cmd["user"].step = 0 /\ "user" \in Runners  BY <1>1, RemovalIsWell DEF Standing
<1>. QED  BY <1>1, <1>2, LeftAsFound DEF StopRefused

LEMMA TakeLeaseKeepsSane == Alive("user") /\ TakeLease => Sane'
<1>. SUFFICES ASSUME Alive("user"), TakeLease  PROVE Sane'  OBVIOUS
<1>1. /\ cmd["user"].pc = "lease" /\ cmd["user"].pc \in RemovalStages /\ "release" \in RemovalStages
      /\ cmd["user"].pc \notin Dropping /\ "release" \notin Dropping
  BY DEF TakeLease, At, RemovalStages, Dropping
<1>2. UNCHANGED <<disk, settings, state, managed, stash, issued, spoiled>>  BY DEF TakeLease, disk
<1>3. CASE Goto("user", "release")  BY <1>1, <1>2, <1>3, RemovalGoesOn
<1>4. CASE Done("user")
  <2>1. cmd["user"].step = 0 /\ "user" \in Runners  BY <1>1, RemovalIsWell DEF Standing
  <2>. QED  BY <1>1, <1>2, <1>4, <2>1, LeftAsFound
<1>. QED  BY <1>3, <1>4 DEF TakeLease

LEMMA ReleaseFailsKeepsSane == Alive("user") /\ ReleaseFails => Sane'
<1>. SUFFICES ASSUME Alive("user"), ReleaseFails  PROVE Sane'  OBVIOUS
<1>1. /\ cmd["user"].pc = "release" /\ cmd["user"].pc \in RemovalStages
      /\ "unrelease" \in RemovalStages
      /\ cmd["user"].pc \notin Dropping /\ "unrelease" \notin Dropping
  BY DEF ReleaseFails, At, RemovalStages, Dropping
<1>2. Goto("user", "unrelease") /\ UNCHANGED <<settings, state, managed, stash, issued, spoiled>>
  BY DEF ReleaseFails, disk
<1>. QED  BY <1>1, <1>2, RemovalGoesOn

LEMMA DropKeysKeepsSane == Alive("user") /\ (DropCredential \/ DropStash) => Sane'
<1>. SUFFICES ASSUME Alive("user"), DropCredential \/ DropStash  PROVE Sane'  OBVIOUS
<1>1. PICK pc \in {"stashgone", "stategone"} : Goto("user", pc)
  BY DEF DropCredential, DropStash
<1>2. /\ cmd["user"].pc \in RemovalStages /\ pc \in RemovalStages
      /\ pc \in Dropping \ {"credgone", "recordgone"}
      /\ UNCHANGED <<settings, state, managed, issued, spoiled>>
  BY <1>1 DEF DropCredential, DropStash, At, RemovalStages, Dropping
<1>. QED  BY <1>1, <1>2, RemovalGoesOn

LEMMA ReleaseKeepsSane == Alive("user") /\ Release => Sane'
<1>. SUFFICES ASSUME Alive("user"), Release  PROVE Sane'  OBVIOUS
<1>0. PICK c, d : c = cmd["user"] /\ d = cmd'["user"]  OBVIOUS
<1>1. /\ "user" \in Runners /\ Well(c) /\ c.op = "uninstall" /\ ~Tentative(c) /\ c.pc = "release"
      /\ c.pc \notin Dropping
  BY <1>0, RemovalIsWell DEF Release, At, RemovalStages, Dropping
<1>2. PICK t \in Tools :
        /\ c.step \in {0, 1} /\ t = Order[c.step + 1]
        /\ settings[t] = c.before[t] /\ settings'[t] = Planned(c, t)
        /\ \A u \in Tools \ {t} : settings'[u] = settings[u]
  BY <1>0, ReleaseMoves DEF Alive
<1>3. /\ Spares("user")
      /\ d.pc = (IF c.step + 1 = 2 THEN "credgone" ELSE "release")
      /\ d.op = c.op /\ d.st = c.st /\ d.to = c.to /\ d.keep = c.keep
      /\ d.step = c.step + 1 /\ d.before = c.before /\ d.old = c.old /\ d.keys = c.keys
  BY <1>0, ReleaseMoves DEF Moves, Alive
<1>4. UNCHANGED <<state, managed, stash, issued, spoiled>>  BY DEF Release
<1>5. d.pc \in {"credgone", "release"}  BY <1>3
<1>6. ~Tentative(d)  BY <1>5 DEF Tentative
<1>7. Aim(d)'  BY <1>1, <1>3, <1>5 DEF Aim
<1>8. Unedited' => Half(d)'
  <2>. SUFFICES ASSUME Unedited  PROVE Half(d)'  BY <1>4 DEF Unedited
  <2>1. \A u \in Tools : settings[u] = IF Place(u) <= c.step THEN Written(c, u) ELSE c.before[u]
    BY <1>1 DEF Well, Half
  <2>2. \A u \in Tools : Written(c, u) = Planned(c, u) /\ Written(d, u) = Planned(c, u)
    BY <1>1, <1>3 DEF Written, Planned
  <2>3. ASSUME NEW u \in Tools
        PROVE  settings'[u] = IF Place(u) <= d.step THEN Written(d, u) ELSE d.before[u]
    <3>1. CASE u = t
      <4>1. Place(u) = c.step + 1  BY <1>2, <3>1, Places
      <4>. QED  BY <1>2, <1>3, <2>2, <3>1, <4>1
    <3>2. CASE u # t
      <4>1. Place(u) \in 1 .. 2 /\ Place(u) # c.step + 1  BY <1>2, <3>2, Places
      <4>2. Place(u) <= d.step <=> Place(u) <= c.step  BY <1>2, <1>3, <4>1
      <4>. QED  BY <1>2, <1>3, <2>1, <2>2, <3>2, <4>2
    <3>. QED  BY <3>1, <3>2
  <2>4. \A u \in Tools : Written(d, u)' = Written(d, u)  BY DEF Written, Planned
  <2>. QED  BY <2>3, <2>4 DEF Half
<1>9. Enrolled' => Paper(d)'  BY <1>1, <1>4, <1>6 DEF Well, Enrolled, Paper, HasRecord
<1>10. Unbroken' => Way(d)'
  <2>. SUFFICES ASSUME Unbroken  PROVE Way(d)'  BY <1>4 DEF Unbroken
  <2>0. PICK s, f : s = stash /\ f = c.before  OBVIOUS
  <2>1. Open(f, s)  BY <1>1, <2>0 DEF Well, Way
  <2>2. Open(f, s)'  BY <1>4, <2>1 DEF Open
  <2>. QED  BY <1>1, <1>3, <1>4, <2>0, <2>2 DEF Way
<1>11. spoiled' = {} => Follows(d)'
  <2>. SUFFICES ASSUME spoiled = {}  PROVE Follows(d)'  BY <1>4
  <2>0. PICK m, f : m = managed /\ f = c.before  OBVIOUS
  <2>1. Follow(f, m)  BY <1>1, <2>0 DEF Well, Follows
  <2>2. Follow(f, m)'  BY <1>4, <2>1 DEF Follow, WiredAs
  <2>. QED  BY <1>3, <1>4, <1>5, <1>6, <2>0, <2>2 DEF Follows
<1>12. Well(d)'  BY <1>7, <1>8, <1>9, <1>10, <1>11 DEF Well
<1>. QED  BY <1>0, <1>1, <1>3, <1>5, <1>12, SaneKept

LEMMA UnreleaseKeepsSane == Alive("user") /\ Unrelease => Sane'
<1>. SUFFICES ASSUME Alive("user"), Unrelease  PROVE Sane'  OBVIOUS
<1>0. PICK c, d : c = cmd["user"] /\ d = cmd'["user"]  OBVIOUS
<1>1. /\ "user" \in Runners /\ Well(c) /\ c.op = "uninstall" /\ ~Tentative(c)
      /\ c.pc = "unrelease" /\ c.pc \notin Dropping
  BY <1>0, RemovalIsWell DEF Unrelease, At, RemovalStages, Dropping
<1>2. UNCHANGED <<state, managed, stash, cred, issued, spoiled>>  BY DEF Unrelease
<1>3. CASE c.step = 0
  <2>1. Done("user") /\ settings' = settings  BY <1>0, <1>3, UnreleaseMoves DEF Alive
  <2>. QED  BY <1>0, <1>1, <1>2, <1>3, <2>1, LeftAsFound DEF disk
<1>4. CASE c.step # 0
  <2>1. PICK t \in Tools :
          /\ t = Order[c.step]
          /\ settings'[t] = IF settings[t] = Planned(c, t) THEN c.before[t] ELSE settings[t]
          /\ \A u \in Tools \ {t} : settings'[u] = settings[u]
    BY <1>0, <1>4, UnreleaseMoves DEF Alive
  <2>2. /\ Spares("user") /\ c.step \in 0 .. 2
        /\ d.pc = "unrelease" /\ d.op = c.op /\ d.st = c.st /\ d.to = c.to /\ d.keep = c.keep
        /\ d.step = c.step - 1 /\ d.before = c.before /\ d.old = c.old /\ d.keys = c.keys
    BY <1>0, <1>4, UnreleaseMoves DEF Moves, Alive
  <2>3. ~Tentative(d)  BY <2>2 DEF Tentative
  <2>4. Aim(d)'  BY <1>1, <2>2 DEF Aim
  <2>5. Unedited' => Half(d)'
    <3>. SUFFICES ASSUME Unedited  PROVE Half(d)'  BY <1>2 DEF Unedited
    <3>1. \A u \in Tools : settings[u] = IF Place(u) <= c.step THEN Written(c, u) ELSE c.before[u]
      BY <1>1 DEF Well, Half
    <3>2. \A u \in Tools : Written(c, u) = Planned(c, u) /\ Written(d, u) = Planned(c, u)
      BY <1>1, <2>2 DEF Written, Planned
    <3>3. ASSUME NEW u \in Tools
          PROVE  settings'[u] = IF Place(u) <= d.step THEN Written(d, u) ELSE d.before[u]
      <4>1. CASE u = t
        <5>1. Place(u) = c.step  BY <1>4, <2>1, <2>2, <4>1, Places
        <5>2. settings[u] = Planned(c, u)  BY <2>2, <3>1, <3>2, <5>1
        <5>. QED  BY <2>1, <2>2, <4>1, <5>1, <5>2
      <4>2. CASE u # t
        <5>1. Place(u) \in 1 .. 2 /\ Place(u) # c.step
          BY <1>4, <2>1, <2>2, <4>2, Places
        <5>2. Place(u) <= d.step <=> Place(u) <= c.step  BY <2>2, <5>1
        <5>. QED  BY <2>1, <2>2, <3>1, <3>2, <4>2, <5>2
      <4>. QED  BY <4>1, <4>2
    <3>4. \A u \in Tools : Written(d, u)' = Written(d, u)  BY DEF Written, Planned
    <3>. QED  BY <3>3, <3>4 DEF Half
  <2>6. Enrolled' => Paper(d)'  BY <1>1, <1>2, <2>3 DEF Well, Enrolled, Paper, HasRecord
  <2>7. Unbroken' => Way(d)'
    <3>. SUFFICES ASSUME Unbroken  PROVE Way(d)'  BY <1>2 DEF Unbroken
    <3>0. PICK s, f : s = stash /\ f = c.before  OBVIOUS
    <3>1. Open(f, s)  BY <1>1, <3>0 DEF Well, Way
    <3>2. Open(f, s)'  BY <1>2, <3>1 DEF Open
    <3>. QED  BY <1>1, <1>2, <2>2, <3>0, <3>2 DEF Way
  <2>8. spoiled' = {} => Follows(d)'
    <3>. SUFFICES ASSUME spoiled = {}  PROVE Follows(d)'  BY <1>2
    <3>0. PICK m, f : m = managed /\ f = c.before  OBVIOUS
    <3>1. Follow(f, m)  BY <1>1, <3>0 DEF Well, Follows
    <3>2. Follow(f, m)'  BY <1>2, <3>1 DEF Follow, WiredAs
    <3>. QED  BY <1>2, <2>2, <2>3, <3>0, <3>2 DEF Follows
  <2>9. Well(d)'  BY <2>4, <2>5, <2>6, <2>7, <2>8 DEF Well
  <2>. QED  BY <1>0, <1>1, <2>2, <2>9, SaneKept
<1>. QED  BY <1>3, <1>4

LEMMA DropStateKeepsSane == Alive("user") /\ DropState => Sane'
<1>. SUFFICES ASSUME Alive("user"), DropState  PROVE Sane'  OBVIOUS
<1>0. PICK d : d = cmd'["user"]  OBVIOUS
<1>1. /\ cmd["user"].pc \in RemovalStages /\ "recordgone" \in RemovalStages
      /\ Goto("user", "recordgone") /\ state' = Absent
  BY DEF DropState, At, RemovalStages
<1>2. /\ "user" \in Runners /\ Spares("user") /\ d.pc = "recordgone" /\ d.op = "uninstall"
  BY <1>0, <1>1, RemovalIsWell, RemovalMovesOn
<1>3. ~Tentative(d)  BY <1>2 DEF Tentative
<1>4. Well(d)'
  BY <1>1, <1>2, <1>3 DEF Well, Aim, Half, Paper, HasRecord, Way, Follows, Dropping
<1>. QED  BY <1>0, <1>2, <1>4, SaneKept

LEMMA DropRecordKeepsSane == Alive("user") /\ (DropRecord \/ DropFails) => Sane'
<1>. SUFFICES ASSUME Alive("user"), DropRecord \/ DropFails  PROVE Sane'  OBVIOUS
<1>0. PICK c : c = cmd["user"]  OBVIOUS
<1>1. /\ "user" \in Runners /\ Well(c) /\ ~Tentative(c) /\ CommandTypes /\ Done("user")
      /\ state' = state
  BY <1>0, RemovalIsWell DEF DropRecord, DropFails, At, RemovalStages, disk
<1>2. Spares("user") /\ cmd'["user"].pc = "idle"  BY <1>1, Ending
<1>3. CASE DropRecord
  <2>1. c.pc = "recordgone"  BY <1>0, <1>3 DEF DropRecord, At
  <2>2. state' = Absent  BY <1>1, <2>1 DEF Well, Aim
  <2>3. Calm'  BY <2>2 DEF Calm, HasRecord, Open, Follow
  <2>. QED  BY <1>1, <1>2, <2>3, SaneKept
<1>4. CASE DropFails
  <2>1. managed' = managed /\ spoiled' = spoiled \cup {"uninstall"}  BY <1>4 DEF DropFails, disk
  <2>2. Enrolled' => HasRecord(managed)'
    BY <1>1, <2>1 DEF Well, Enrolled, Paper, HasRecord
  <2>3. ~Unbroken' /\ spoiled' # {}  BY <2>1 DEF Unbroken
  <2>4. Calm'  BY <2>2, <2>3 DEF Calm
  <2>. QED  BY <1>1, <1>2, <2>4, SaneKept
<1>. QED  BY <1>3, <1>4

LEMMA UninstallStepKeepsSane == Alive("user") /\ UninstallStep => Sane'
BY StopDaemonKeepsSane, StopRefusedKeepsSane, TakeLeaseKeepsSane, ReleaseKeepsSane,
   ReleaseFailsKeepsSane, UnreleaseKeepsSane, DropKeysKeepsSane, DropStateKeepsSane,
   DropRecordKeepsSane
   DEF UninstallStep

-----------------------------------------------------------------------------
(* The beginnings, the daemon and the user keep it                          *)

\* What holds of a command that begins when no other is under way.
LEMMA BeginsWell ==
    ASSUME Orderly, Calm, NEW d, UNCHANGED disk,
           issued' \in Nat, issued' = issued \/ issued' = issued + 1, spoiled' = spoiled,
           d.before = settings, d.step = 0,
           d.pc \in {"stash", "restash", "merge", "stop", "recordgone"},
           d.pc = "recordgone" => state = Absent /\ d.op = "uninstall",
           d.pc = "stop" => d.op = "uninstall",
           d.op \in {"enable", "disable", "reconnect"} => state # Absent /\ state.inst = d.st.inst,
           d.op = "enable" => (d.pc = "stash" <=> ~state.local) /\ d.pc \in {"stash", "merge"},
           d.op = "disable" => stash # Absent,
           d.op = "reconnect" => /\ state.local = d.st.local /\ state.port = d.st.port
                                 /\ (state.local <=> d.pc = "restash")
                                 /\ d.pc \in {"restash", "merge"}
    PROVE  Well(d)'
<1>1. issued \in Nat  BY DEF Orderly, InstallerTypes
<1>2. UNCHANGED <<settings, state, managed, stash>>  BY DEF disk
<1>3. ~Tentative(d) /\ d.pc \notin EnrollStages \cup {"clear", "idle", "undo", "state"}
  BY DEF Tentative, EnrollStages
<1>4. Aim(d)'  BY <1>2, <1>3 DEF Aim
<1>5. Unedited' => Half(d)'
  <2>1. \A t \in Tools : ~(Place(t) <= d.step)  BY DEF Place
  <2>. QED  BY <1>2, <2>1 DEF Half
<1>6. Enrolled' => Paper(d)'  BY <1>2, <1>3 DEF Calm, Enrolled, Paper, HasRecord
<1>7. Unbroken' => Way(d)'
  <2>. SUFFICES ASSUME Unbroken  PROVE Way(d)'  BY DEF Unbroken
  <2>0. PICK f, s : f = settings /\ s = stash  OBVIOUS
  <2>1. Open(f, s)  BY <2>0 DEF Calm
  <2>2. Open(f, s)'  BY <1>2, <2>1 DEF Open
  <2>3. Kept(d)' = s  BY <1>2, <1>3, <2>0 DEF Kept
  <2>4. d.op = "enable" => (d.pc # "stash" => stash' # Absent)
    BY <1>2, <2>0, <2>1 DEF Open
  <2>. QED  BY <1>2, <1>3, <2>0, <2>2, <2>3, <2>4 DEF Way, EnrollStages
<1>8. spoiled' = {} => Follows(d)'
  <2>. SUFFICES ASSUME spoiled = {}  PROVE Follows(d)'  OBVIOUS
  <2>0. PICK f, m : f = settings /\ m = managed  OBVIOUS
  <2>1. Follow(f, m)  BY <2>0 DEF Calm
  <2>2. Follow(f, m)'  BY <1>1, <1>2, <2>1, FollowGrows
  <2>. QED  BY <1>2, <1>3, <2>0, <2>2 DEF Follows
<1>. QED  BY <1>4, <1>5, <1>6, <1>7, <1>8 DEF Well

\* A command that begins while another is under way makes two of them.
LEMMA BeginningKeepsSane ==
    ASSUME Orderly, Sane, NEW p \in Runners, cmd[p].pc = "idle", Spares(p),
           NEW d, d = cmd'[p], d.pc # "idle", Calm => Well(d)',
           \A q \in Runners \ {p} :
             spoiled' = IF cmd[q].pc = "idle" THEN spoiled ELSE spoiled \cup {"overlap"}
    PROVE  Sane'
<1>. SUFFICES ASSUME "overlap" \notin spoiled'  PROVE Sane'  BY DEF Sane
<1>1. Runners \ {p} # {}  BY DEF Runners
<1>2. \A q \in Runners \ {p} : cmd[q].pc = "idle" /\ cmd'[q].pc = "idle"  BY DEF Spares
<1>3. spoiled' = spoiled  BY <1>1, <1>2
<1>4. Calm  BY <1>2, <1>3 DEF Sane, Quiet
<1>5. Well(cmd[p])'
  BY <1>4 DEF Well, Aim, Half, Paper, Way, Follows, Tentative, Kept, Written, Planned
<1>6. Alone'  BY <1>2 DEF Alone, Busy, Runners
<1>7. ~Quiet'  BY DEF Quiet
<1>. QED  BY <1>2, <1>5, <1>6, <1>7 DEF Sane, Busy

LEMMA UserBeginsKeepsSane ==
    ASSUME Orderly, Sane,
           Enroll \/ Enable \/ Disable \/ Reconnect \/ Uninstall \/ UninstallAgain
    PROVE  Sane'
<1>0. PICK d : d = cmd'["user"]  OBVIOUS
<1>1. /\ issued \in Nat /\ issued' \in Nat /\ (issued' = issued \/ issued' = issued + 1)
      /\ "user" \in Runners
  <2>1. issued \in Nat /\ "user" \in Runners  BY DEF Orderly, InstallerTypes, Runners
  <2>2. issued' = issued \/ issued' = issued + 1
    BY DEF Enroll, Enable, Disable, Reconnect, Uninstall, UninstallAgain
  <2>. QED  BY <2>1, <2>2
<1>2. spoiled' = IF cmd["daemon"].pc = "idle" THEN spoiled ELSE spoiled \cup {"overlap"}
  BY DEF Enroll, Enable, Disable, Reconnect, Uninstall, UninstallAgain, UserBegins
<1>3. \A q \in Runners \ {"user"} :
        spoiled' = IF cmd[q].pc = "idle" THEN spoiled ELSE spoiled \cup {"overlap"}
  BY <1>2 DEF Runners
<1>4. CASE cmd["daemon"].pc # "idle"  BY <1>2, <1>4 DEF Sane
<1>5. CASE cmd["daemon"].pc = "idle"
  <2>1. spoiled' = spoiled  BY <1>2, <1>5
  <2>2. CASE Enroll
    <3>1. /\ Begun("enroll") /\ d.pc = "merge"  BY <1>0, <2>2, EnrollBegins
    <3>2. /\ cmd["user"].pc = "idle" /\ Spares("user") /\ UNCHANGED disk
          /\ d.op = "enroll" /\ d.step = 0 /\ d.before = settings
      BY <1>0, <3>1 DEF Begun
    <3>3. Calm => Well(d)'  BY <1>1, <2>1, <3>1, <3>2, BeginsWell
    <3>. QED  BY <1>0, <1>1, <1>3, <3>1, <3>2, <3>3, BeginningKeepsSane
  <2>3. CASE Enable
    <3>1. /\ Begun("enable") /\ d.pc = (IF state.local THEN "merge" ELSE "stash")
          /\ state # Absent /\ d.st.inst = state.inst
      BY <1>0, <2>3, EnableBegins
    <3>2. /\ cmd["user"].pc = "idle" /\ Spares("user") /\ UNCHANGED disk
          /\ d.op = "enable" /\ d.step = 0 /\ d.before = settings
      BY <1>0, <3>1 DEF Begun
    <3>3. Calm => Well(d)'  BY <1>1, <2>1, <3>1, <3>2, BeginsWell
    <3>. QED  BY <1>0, <1>1, <1>3, <3>1, <3>2, <3>3, BeginningKeepsSane
  <2>4. CASE Disable
    <3>1. /\ Begun("disable") /\ d.pc = "merge" /\ stash # Absent
          /\ state # Absent /\ d.st.inst = state.inst
      BY <1>0, <2>4, DisableBegins
    <3>2. /\ cmd["user"].pc = "idle" /\ Spares("user") /\ UNCHANGED disk
          /\ d.op = "disable" /\ d.step = 0 /\ d.before = settings
      BY <1>0, <3>1 DEF Begun
    <3>3. Calm => Well(d)'  BY <1>1, <2>1, <3>1, <3>2, BeginsWell
    <3>. QED  BY <1>0, <1>1, <1>3, <3>1, <3>2, <3>3, BeginningKeepsSane
  <2>5. CASE Reconnect
    <3>1. /\ Begun("reconnect") /\ d.pc = (IF state.local THEN "restash" ELSE "merge")
          /\ state # Absent /\ d.st.inst = state.inst
          /\ d.st.local = state.local /\ d.st.port = state.port
      BY <1>0, <2>5, ReconnectBegins
    <3>2. /\ cmd["user"].pc = "idle" /\ Spares("user") /\ UNCHANGED disk
          /\ d.op = "reconnect" /\ d.step = 0 /\ d.before = settings
      BY <1>0, <3>1 DEF Begun
    <3>3. Calm => Well(d)'  BY <1>1, <2>1, <3>1, <3>2, BeginsWell
    <3>. QED  BY <1>0, <1>1, <1>3, <3>1, <3>2, <3>3, BeginningKeepsSane
  <2>6. CASE Uninstall \/ UninstallAgain
    <3>1. /\ Begun("uninstall") /\ d.pc = (IF state = Absent THEN "recordgone" ELSE "stop")
      BY <1>0, <2>6, UninstallBegins
    <3>2. /\ cmd["user"].pc = "idle" /\ Spares("user") /\ UNCHANGED disk
          /\ d.op = "uninstall" /\ d.step = 0 /\ d.before = settings
      BY <1>0, <3>1 DEF Begun
    <3>3. Calm => Well(d)'  BY <1>1, <2>1, <3>1, <3>2, BeginsWell
    <3>. QED  BY <1>0, <1>1, <1>3, <3>1, <3>2, <3>3, BeginningKeepsSane
  <2>. QED  BY <2>2, <2>3, <2>4, <2>5, <2>6
<1>. QED  BY <1>4, <1>5

\* The daemon rewires the files.
LEMMA DaemonBindsKeepsSane ==
    ASSUME Orderly, LeaseInv, Sane, NEW port \in Ports, DaemonBinds(port)
    PROVE  Sane'
<1>1. /\ InstallerTypes /\ issued \in Nat /\ "daemon" \in Runners /\ CommandTypes
      /\ cmd["daemon"].pc = "idle" /\ UNCHANGED <<disk, issued>>
  BY DEF Orderly, InstallerTypes, CommandTypes, Runners, LeaseInv, DaemonBinds
<1>2. CASE UNCHANGED <<cmd, spoiled>>
  <2>1. UNCHANGED <<disk, cmd, spoiled, issued>>  BY <1>1, <1>2
  <2>. QED
    BY <2>1 DEF Sane, Alone, Busy, Quiet, Calm, HasRecord, Open, Follow, WiredAs, Enrolled, Unbroken,
       Unedited, Well, Aim, Half, Written, Planned, Paper, Tentative, Way, Kept, Follows, disk
<1>3. CASE ~UNCHANGED <<cmd, spoiled>>
  <2>1. PICK yes \in BOOLEAN :
          /\ state # Absent
          /\ cmd' = [cmd EXCEPT !["daemon"] = EnableCommand(port, yes)]
          /\ spoiled' = IF cmd["user"].pc = "idle" THEN spoiled ELSE spoiled \cup {"overlap"}
    BY <1>3 DEF DaemonBinds
  <2>2. PICK d : d = EnableCommand(port, yes)  OBVIOUS
  <2>3. /\ d \in Commands /\ d.pc = (IF state.local THEN "merge" ELSE "stash")
        /\ d.op = "enable" /\ d.step = 0 /\ d.before = settings
        /\ d.st = [state EXCEPT !.local = TRUE, !.port = port]
    <3>1. port \in Nat  BY ManifestTypes
    <3>. QED  BY <1>1, <2>1, <2>2, <3>1, EnableCommands
  <2>4. d = cmd'["daemon"] /\ Spares("daemon")  BY <1>1, <2>1, <2>2, <2>3, Replacing
  <2>5. d.st.inst = state.inst
    <3>1. state \in States  BY <1>1, <2>1 DEF InstallerTypes
    <3>. QED  BY <2>3, <3>1 DEF States
  <2>6. \A q \in Runners \ {"daemon"} :
          spoiled' = IF cmd[q].pc = "idle" THEN spoiled ELSE spoiled \cup {"overlap"}
    BY <2>1 DEF Runners
  <2>7. CASE cmd["user"].pc # "idle"  BY <2>1, <2>7 DEF Sane
  <2>8. CASE cmd["user"].pc = "idle"
    <3>1. spoiled' = spoiled  BY <2>1, <2>8
    <3>2. Calm => Well(d)'  BY <1>1, <2>1, <2>3, <2>5, <3>1, BeginsWell
    <3>. QED  BY <1>1, <2>3, <2>4, <2>6, <3>2, BeginningKeepsSane
  <2>. QED  BY <2>7, <2>8
<1>. QED  BY <1>2, <1>3

\* The user's own change excepts all but where the records are.
LEMMA UserEditsKeepsSane ==
    ASSUME Sane, NEW t \in Tools, UserEdits(t)
    PROVE  Sane'
<1>1. UNCHANGED <<state, managed, stash, cmd>> /\ spoiled' = spoiled \cup {"edit"}
  BY DEF UserEdits
<1>2. ~Unedited' /\ ~Unbroken' /\ spoiled' # {} /\ (Enrolled' => Enrolled)
  BY <1>1 DEF Unedited, Unbroken, Enrolled
<1>3. Calm => Calm'  BY <1>1, <1>2 DEF Calm, HasRecord
<1>4. ASSUME NEW q \in Runners, Well(cmd[q])  PROVE Well(cmd[q])'
  <2>. PICK c : c = cmd[q]  OBVIOUS
  <2>1. Aim(c) => Aim(cmd[q])'  BY <1>1 DEF Aim
  <2>2. Paper(c) => Paper(cmd[q])'  BY <1>1 DEF Paper, HasRecord, Tentative
  <2>. QED  BY <1>2, <1>4, <2>1, <2>2 DEF Well
<1>. QED  BY <1>1, <1>3, <1>4 DEF Sane, Alone, Quiet, Busy

LEMMA SaneBegins == InstallerInit => Sane
<1>. SUFFICES ASSUME InstallerInit  PROVE Sane  OBVIOUS
<1>1. \A p \in Runners : cmd[p].pc = "idle"  BY DEF InstallerInit, NoCommand
<1>2. Calm  BY DEF InstallerInit, Calm, HasRecord, Open, Follow
<1>. QED  BY <1>1, <1>2 DEF Sane, Alone, Busy, Runners

LEMMA SaneStays ==
    ASSUME Orderly, LeaseInv, Purposes, Unedited => Tokens, Sane, [InstallerNext]_installerVars
    PROVE  Sane'
<1>0. "user" \in Runners  BY DEF Runners
<1>1. CASE Enroll \/ Enable \/ Disable \/ Reconnect \/ Uninstall \/ UninstallAgain
  BY <1>1, UserBeginsKeepsSane
<1>2. ASSUME NEW p \in Runners, CommandStep(p) \/ Killed(p)  PROVE Sane'
  <2>1. Busy(p) /\ ("overlap" \in spoiled => "overlap" \in spoiled')
    <3>1. CASE CommandStep(p)
      <4>1. cmd[p].pc # "idle"  BY <3>1, WiringSteps DEF WiringStages
      <4>2. spoiled \subseteq spoiled'
        BY <3>1 DEF CommandStep, StashToken, Restash, KeyringRefuses, Merge, MergeFails, Undo,
           ReadKeys, ReadKeysFails, KeepStash, KeepStashFails, SaveCredential, SaveCredentialFails,
           SaveManaged, SaveManagedRefused, SaveManagedFails, WriteState, WriteStateFails,
           ClearStash, ClearStashFails
      <4>. QED  BY <4>1, <4>2 DEF Busy
    <3>2. CASE Killed(p)  BY <3>2 DEF Killed, At, Busy
    <3>. QED  BY <1>2, <3>1, <3>2
  <2>2. CASE "overlap" \in spoiled  BY <2>1, <2>2 DEF Sane
  <2>3. CASE "overlap" \notin spoiled
    <3>1. Alive(p)  BY <2>1, <2>3 DEF Alive
    <3>. QED  BY <1>2, <3>1, CommandStepKeepsSane, KilledKeepsSane
  <2>. QED  BY <2>2, <2>3
<1>3. CASE UninstallStep
  <2>1. Busy("user")
    <3>1. cmd["user"].pc \in RemovalStages  BY <1>3, RemovalSteps
    <3>. QED  BY <3>1 DEF Busy, RemovalStages
  <2>2. spoiled \subseteq spoiled'
    BY <1>3 DEF UninstallStep, StopDaemon, StopRefused, TakeLease, Release, ReleaseFails, Unrelease,
       DropCredential, DropStash, DropState, DropRecord, DropFails
  <2>3. CASE "overlap" \in spoiled  BY <2>2, <2>3 DEF Sane
  <2>4. CASE "overlap" \notin spoiled
    <3>1. Alive("user")  BY <2>1, <2>4 DEF Alive
    <3>. QED  BY <1>3, <3>1, UninstallStepKeepsSane
  <2>. QED  BY <2>3, <2>4
<1>4. CASE DaemonLoads \/ DaemonLeases \/ DaemonUp \/ DaemonStops \/ UNCHANGED installerVars
  <2>1. UNCHANGED <<settings, state, managed, stash, cred, cmd, spoiled, issued>>
    BY <1>4 DEF DaemonLoads, DaemonLeases, DaemonUp, DaemonStops, installerVars, disk
  <2>. QED
    BY <2>1 DEF Sane, Alone, Busy, Quiet, Calm, HasRecord, Open, Follow, WiredAs, Enrolled, Unbroken,
       Unedited, Well, Aim, Half, Written, Planned, Paper, Tentative, Way, Kept, Follows
<1>5. CASE \E port \in Ports : DaemonBinds(port)  BY <1>5, DaemonBindsKeepsSane
<1>6. CASE \E t \in Tools : UserEdits(t)  BY <1>6, UserEditsKeepsSane
<1>. QED  BY <1>1, <1>2, <1>3, <1>4, <1>5, <1>6 DEF InstallerNext

-----------------------------------------------------------------------------
(* What a command is for and what it carries                                *)

\* What a command is for and what it carries stay while it is under way.
Keeps(p) ==
    cmd'[p].pc # "idle" =>
      /\ cmd'[p].op = cmd[p].op /\ cmd'[p].st = cmd[p].st /\ cmd'[p].to = cmd[p].to
      /\ cmd'[p].before = cmd[p].before
      /\ cmd'[p].keys[1] \in {cmd[p].keys[1], stash}

LEMMA WiringKeeps ==
    ASSUME Orderly, NEW p \in Runners, CommandStep(p)
    PROVE  Keeps(p) /\ issued' = issued
<1>1. issued' = issued
  BY DEF CommandStep, StashToken, Restash, KeyringRefuses, Merge, MergeFails, Undo,
     ReadKeys, ReadKeysFails, KeepStash, KeepStashFails, SaveCredential, SaveCredentialFails,
     SaveManaged, SaveManagedRefused, SaveManagedFails, WriteState, WriteStateFails,
     ClearStash, ClearStashFails
<1>2. CommandTypes /\ cmd[p].pc \in WiringStages /\ cmd[p] \in Wirings
  BY WiringSteps DEF Orderly, InstallerTypes, CommandTypes
<1>3. Done(p) \/ (\E pc \in WiringStages : Goto(p, pc)) \/ Merge(p) \/ Undo(p) \/ ReadKeys(p)
        \/ SaveManaged(p)
  <2>1. {"merge", "state", "undo", "cred", "managed", "clear"} \subseteq WiringStages
    BY DEF WiringStages
  <2>. QED
    BY <2>1 DEF CommandStep, StashToken, Restash, KeyringRefuses, MergeFails,
     ReadKeysFails, KeepStash, KeepStashFails, SaveCredential, SaveCredentialFails,
     SaveManagedRefused, SaveManagedFails, GiveUp, WriteState, WriteStateFails,
     ClearStash, ClearStashFails
<1>4. CASE Done(p)  BY <1>1, <1>2, <1>4, Ending DEF Keeps
<1>5. CASE \E pc \in WiringStages : Goto(p, pc)  BY <1>1, <1>2, <1>5, GotoWiring DEF Moves, Keeps
<1>6. CASE Merge(p)  BY <1>1, <1>6, MergeMoves DEF Moves, Keeps
<1>7. CASE Undo(p)
  <2>1. CASE cmd[p].step = 0  BY <1>1, <1>2, <1>7, <2>1, UndoMoves, Ending DEF Keeps
  <2>2. CASE cmd[p].step # 0  BY <1>1, <1>7, <2>2, UndoMoves DEF Moves, Keeps
  <2>. QED  BY <2>1, <2>2
<1>8. CASE ReadKeys(p)
  <2>1. PICK keys : keys = <<stash, cred>>  OBVIOUS
  <2>2. keys[1] = stash  BY <2>1
  <2>3. Moves(p, IF cmd[p].to.local THEN "keepstash" ELSE "cred", cmd[p].step, cmd[p].old, keys)
    BY <1>8, <2>1, ReadKeysMoves
  <2>. QED  BY <1>1, <2>2, <2>3 DEF Moves, Keeps
<1>9. CASE SaveManaged(p)  BY <1>1, <1>9, SaveManagedMoves DEF Moves, Keeps
<1>. QED  BY <1>1, <1>3, <1>4, <1>5, <1>6, <1>7, <1>8, <1>9

LEMMA RemovalKeeps ==
    ASSUME Orderly, UninstallStep
    PROVE  Keeps("user") /\ issued' = issued
<1>0. "user" \in Runners  BY DEF Runners
<1>1. issued' = issued
  BY DEF UninstallStep, StopDaemon, StopRefused, TakeLease, Release, ReleaseFails, Unrelease,
     DropCredential, DropStash, DropState, DropRecord, DropFails, disk
<1>2. CommandTypes /\ cmd["user"].pc \in RemovalStages /\ cmd["user"] \in Removals
  <2>1. InstallerTypes /\ cmd["user"].pc \in RemovalStages
    BY RemovalSteps DEF Orderly
  <2>2. cmd["user"].pc # "idle"  BY <2>1 DEF RemovalStages
  <2>. QED  BY <1>0, <2>1, <2>2, Doing DEF InstallerTypes, CommandTypes
<1>3. Done("user") \/ (\E pc \in RemovalStages : Goto("user", pc)) \/ Release \/ Unrelease
  <2>1. {"lease", "release", "unrelease", "stashgone", "stategone", "recordgone"} \subseteq RemovalStages
    BY DEF RemovalStages
  <2>. QED
    BY <2>1 DEF UninstallStep, StopDaemon, StopRefused, TakeLease, ReleaseFails,
     DropCredential, DropStash, DropState, DropRecord, DropFails
<1>4. CASE Done("user")  BY <1>1, <1>0, <1>2, <1>4, Ending DEF Keeps
<1>5. CASE \E pc \in RemovalStages : Goto("user", pc)
  BY <1>1, <1>2, <1>5, GotoRemoval DEF Moves, Keeps
<1>6. CASE Release  BY <1>1, <1>6, ReleaseMoves DEF Moves, Keeps
<1>7. CASE Unrelease
  <2>1. CASE cmd["user"].step = 0
    BY <1>1, <1>0, <1>2, <1>7, <2>1, UnreleaseMoves, Ending DEF Keeps
  <2>2. CASE cmd["user"].step # 0  BY <1>1, <1>7, <2>2, UnreleaseMoves DEF Moves, Keeps
  <2>. QED  BY <2>1, <2>2
<1>. QED  BY <1>1, <1>3, <1>4, <1>5, <1>6, <1>7

\* What is settled stays settled when tokens are issued.
LEMMA SettledKept ==
    ASSUME issued \in Nat, issued' \in Nat, issued' = issued \/ issued' = issued + 1,
           NEW c, NEW d, d.op = c.op, d.st = c.st, d.to = c.to, d.before = c.before
    PROVE  /\ Purpose(c) => Purpose(d)'
           /\ Carries(c) /\ d.keys[1] \in Issued' \cup {Absent} => Carries(d)'
<1>1. Issued \subseteq Issued'  BY IssuedGrow
<1>2. Purpose(c) => Purpose(d)'  BY <1>1 DEF Purpose
<1>3. Carries(c) /\ d.keys[1] \in Issued' \cup {Absent} => Carries(d)'  BY <1>1 DEF Carries
<1>. QED  BY <1>2, <1>3

\* What the commands are for.
LEMMA PurposesBegin == InstallerInit => Purposes
BY DEF InstallerInit, Purposes, Busy, NoCommand

\* One command moves on or begins.
LEMMA PurposesKept ==
    ASSUME Orderly, Purposes, issued' \in Nat, issued' = issued \/ issued' = issued + 1,
           NEW p \in Runners, Spares(p), NEW d, d = cmd'[p], d.pc # "idle" => Purpose(d)'
    PROVE  Purposes'
<1>0. issued \in Nat  BY DEF Orderly, InstallerTypes
<1>1. ASSUME NEW q \in Runners \ {p}, cmd'[q].pc # "idle"  PROVE Purpose(cmd[q])'
  <2>. PICK c : c = cmd[q]  OBVIOUS
  <2>1. cmd'[q] = c /\ Purpose(c)  BY <1>1 DEF Spares, Purposes, Busy
  <2>2. Purpose(c)'  BY <1>0, <2>1, SettledKept
  <2>. QED  BY <2>1, <2>2
<1>. QED  BY <1>1 DEF Purposes, Busy

\* A command that goes on is for what it was.
LEMMA PurposeGoesOn ==
    ASSUME Orderly, Purposes, NEW p \in Runners, Busy(p), Spares(p), Keeps(p), issued' = issued
    PROVE  Purposes'
<1>0. issued \in Nat  BY DEF Orderly, InstallerTypes
<1>. PICK c : c = cmd[p]  OBVIOUS
<1>. PICK d : d = cmd'[p]  OBVIOUS
<1>1. Purpose(c)  BY DEF Purposes
<1>2. d.pc # "idle" => Purpose(d)'  BY <1>0, <1>1, SettledKept DEF Keeps
<1>. QED  BY <1>0, <1>2, PurposesKept

LEMMA BeginningsHavePurpose ==
    ASSUME Orderly, Purposes,
           Enroll \/ Enable \/ Disable \/ Reconnect \/ Uninstall \/ UninstallAgain
    PROVE  Purposes'
<1>. PICK d : d = cmd'["user"]  OBVIOUS
<1>0. "user" \in Runners /\ issued \in Nat  BY DEF Runners, Orderly, InstallerTypes
<1>1. CASE Enroll
  <2>1. /\ Begun("enroll") /\ issued' = issued + 1 /\ d.st.token = Token(issued')
        /\ d.to = IF d.st.local THEN Local(d.st.port, Ingest) ELSE Company(d.st.token)
    BY <1>1, EnrollBegins
  <2>2. issued' \in Nat /\ Token(issued') \in Issued'  BY <1>0, <2>1, IssuedGrow
  <2>3. Spares("user") /\ d.op = "enroll"  BY <2>1 DEF Begun
  <2>4. Purpose(d)'  BY <2>1, <2>2, <2>3 DEF Purpose
  <2>. QED  BY <1>0, <2>1, <2>2, <2>3, <2>4, PurposesKept
<1>2. CASE Enable
  <2>1. Begun("enable") /\ d.st.local /\ d.to = Local(d.st.port, Ingest)  BY <1>2, EnableBegins
  <2>2. Spares("user") /\ d.op = "enable" /\ issued' = issued  BY <1>2, <2>1 DEF Begun, Enable
  <2>3. Purpose(d)'  BY <2>1, <2>2 DEF Purpose
  <2>. QED  BY <1>0, <2>2, <2>3, PurposesKept
<1>3. CASE Disable
  <2>1. Begun("disable") /\ ~d.st.local /\ d.to = Company(stash)  BY <1>3, DisableBegins
  <2>2. Spares("user") /\ d.op = "disable" /\ issued' = issued  BY <1>3, <2>1 DEF Begun, Disable
  <2>3. d.to = Company(d.to.token)  BY <2>1 DEF Company
  <2>4. Purpose(d)'  BY <2>1, <2>2, <2>3 DEF Purpose
  <2>. QED  BY <1>0, <2>2, <2>4, PurposesKept
<1>4. CASE Reconnect
  <2>1. /\ Begun("reconnect") /\ issued' = issued + 1 /\ d.st.token = Token(issued')
        /\ d.to = Company(d.st.token)
    BY <1>4, ReconnectBegins
  <2>2. issued' \in Nat /\ Token(issued') \in Issued'  BY <1>0, <2>1, IssuedGrow
  <2>3. Spares("user") /\ d.op = "reconnect"  BY <2>1 DEF Begun
  <2>4. Purpose(d)'  BY <2>1, <2>2, <2>3 DEF Purpose
  <2>. QED  BY <1>0, <2>1, <2>2, <2>3, <2>4, PurposesKept
<1>5. CASE Uninstall \/ UninstallAgain
  <2>1. Begun("uninstall")  BY <1>5, UninstallBegins
  <2>2. Spares("user") /\ d.op = "uninstall" /\ issued' = issued
    BY <1>5, <2>1 DEF Begun, Uninstall, UninstallAgain
  <2>3. Purpose(d)'  BY <2>2 DEF Purpose
  <2>. QED  BY <1>0, <2>2, <2>3, PurposesKept
<1>. QED  BY <1>1, <1>2, <1>3, <1>4, <1>5

\* What DaemonBinds makes of the daemon's command, if it makes one.
LEMMA Rewiring ==
    ASSUME Orderly, NEW port \in Ports, DaemonBinds(port), ~UNCHANGED <<cmd, spoiled>>,
           NEW d, d = cmd'["daemon"]
    PROVE  /\ state # Absent /\ Spares("daemon") /\ d.op = "enable" /\ d.pc \in {"merge", "stash"}
           /\ d.st.local /\ d.to = Local(d.st.port, Ingest) /\ d.to.local /\ d.to.token = Ingest
           /\ d.before = settings /\ d.keys[1] = Absent
<1>1. InstallerTypes /\ CommandTypes /\ "daemon" \in Runners /\ port \in Nat
  BY ManifestTypes DEF Orderly, InstallerTypes, CommandTypes, Runners
<1>2. PICK yes \in BOOLEAN :
        state # Absent /\ cmd' = [cmd EXCEPT !["daemon"] = EnableCommand(port, yes)]
  BY DEF DaemonBinds
<1>3. PICK e : e = EnableCommand(port, yes)  OBVIOUS
<1>4. /\ e \in Commands /\ e.pc = (IF state.local THEN "merge" ELSE "stash") /\ e.op = "enable"
      /\ e.before = settings /\ e.st = [state EXCEPT !.local = TRUE, !.port = port]
      /\ e.to = Local(port, Ingest) /\ e.keys = <<Absent, Absent>>
  BY <1>1, <1>2, <1>3, EnableCommands
<1>5. d = e /\ Spares("daemon")  BY <1>1, <1>2, <1>3, <1>4, Replacing
<1>6. state \in States  BY <1>1, <1>2 DEF InstallerTypes
<1>7. e.st.local /\ e.st.port = port  BY <1>4, <1>6 DEF States
<1>8. Local(port, Ingest).local /\ Local(port, Ingest).token = Ingest  BY DEF Local
<1>9. e.keys[1] = Absent  BY <1>4
<1>. QED  BY <1>2, <1>4, <1>5, <1>7, <1>8, <1>9

\* A killed command leaves the disk as it is.
LEMMA KilledEnds ==
    ASSUME Orderly, NEW p \in Runners, Killed(p)
    PROVE  cmd[p].pc # "idle" /\ cmd'[p].pc = "idle" /\ Spares(p) /\ UNCHANGED <<disk, issued>>
<1>1. CommandTypes /\ Done(p) /\ UNCHANGED <<disk, issued>> /\ cmd[p].pc # "idle"
  BY DEF Orderly, InstallerTypes, CommandTypes, Killed, At
<1>. QED  BY <1>1, Ending

LEMMA PurposesStay == Orderly /\ Purposes /\ [InstallerNext]_installerVars => Purposes'
<1>. SUFFICES ASSUME Orderly, Purposes, [InstallerNext]_installerVars  PROVE Purposes'  OBVIOUS
<1>0. issued \in Nat /\ "user" \in Runners /\ "daemon" \in Runners
  BY DEF Runners, Orderly, InstallerTypes
<1>1. CASE Enroll \/ Enable \/ Disable \/ Reconnect \/ Uninstall \/ UninstallAgain
  BY <1>1, BeginningsHavePurpose
<1>2. ASSUME NEW p \in Runners, CommandStep(p)  PROVE Purposes'
  <2>1. Spares(p) /\ Busy(p)  BY <1>2, WiringSteps DEF Busy, WiringStages
  <2>. QED  BY <1>2, <2>1, WiringKeeps, PurposeGoesOn
<1>3. ASSUME NEW p \in Runners, Killed(p)  PROVE Purposes'
  BY <1>0, <1>3, KilledEnds, PurposesKept
<1>4. CASE UninstallStep
  <2>1. Spares("user") /\ Busy("user")  BY <1>4, RemovalSteps DEF Busy, RemovalStages
  <2>. QED  BY <1>0, <1>4, <2>1, RemovalKeeps, PurposeGoesOn
<1>5. CASE DaemonLoads \/ DaemonLeases \/ DaemonUp \/ DaemonStops \/ (\E t \in Tools : UserEdits(t))
           \/ UNCHANGED installerVars
  <2>1. UNCHANGED <<cmd, issued>>
    BY <1>5 DEF DaemonLoads, DaemonLeases, DaemonUp, DaemonStops, UserEdits, installerVars, disk
  <2>. QED  BY <2>1 DEF Purposes, Purpose, Issued, Busy
<1>6. ASSUME NEW port \in Ports, DaemonBinds(port)  PROVE Purposes'
  <2>1. issued' = issued  BY <1>6 DEF DaemonBinds
  <2>2. CASE UNCHANGED <<cmd, spoiled>>  BY <2>1, <2>2 DEF Purposes, Purpose, Issued, Busy
  <2>3. CASE ~UNCHANGED <<cmd, spoiled>>
    <3>. PICK d : d = cmd'["daemon"]  OBVIOUS
    <3>1. Spares("daemon") /\ d.op = "enable" /\ d.st.local /\ d.to = Local(d.st.port, Ingest)
      BY <1>6, <2>3, Rewiring
    <3>2. Purpose(d)'  BY <3>1 DEF Purpose
    <3>. QED  BY <1>0, <2>1, <3>1, <3>2, PurposesKept
  <2>. QED  BY <2>2, <2>3
<1>. QED  BY <1>1, <1>2, <1>3, <1>4, <1>5, <1>6 DEF InstallerNext

\* The tokens that are kept.
LEMMA TokensBegin == InstallerInit => Tokens
<1>. SUFFICES ASSUME InstallerInit  PROVE Tokens  OBVIOUS
<1>1. \A p \in Runners : ~Busy(p)  BY DEF InstallerInit, NoCommand, Busy
<1>2. \A t \in Tools : Bearer(t) = Absent
  <2>1. ASSUME NEW t \in Tools  PROVE Bearer(t) = Absent
    <3>1. settings[t] = Untouched(t)  BY DEF InstallerInit
    <3>2. AuthLeaf(t) \in Leaves(t)  BY DEF AuthLeaf, Leaves, Tools
    <3>. QED  BY <3>1, <3>2 DEF Bearer, BearerIn, Untouched
  <2>. QED  BY <2>1
<1>3. stash = Absent  BY DEF InstallerInit
<1>. QED  BY <1>1, <1>2, <1>3 DEF Tokens

\* The bearers in the vendors' files.
Bearing == \A t \in Tools : Bearer(t) \in Issued \cup {Absent, Ingest}

LEMMA TokensKept ==
    ASSUME Orderly, Tokens, issued' \in Nat, issued' = issued \/ issued' = issued + 1,
           NEW p \in Runners, Spares(p), stash' \in Issued' \cup {Absent}, Bearing',
           NEW d, d = cmd'[p], d.pc # "idle" => Carries(d)'
    PROVE  Tokens'
<1>0. issued \in Nat  BY DEF Orderly, InstallerTypes
<1>1. ASSUME NEW q \in Runners \ {p}, cmd'[q].pc # "idle"  PROVE Carries(cmd[q])'
  <2>. PICK c : c = cmd[q]  OBVIOUS
  <2>1. cmd'[q] = c /\ Carries(c)  BY <1>1 DEF Spares, Tokens, Busy
  <2>2. c.keys[1] \in Issued' \cup {Absent}  BY <1>0, <2>1, IssuedGrow DEF Carries
  <2>3. Carries(c)'  BY <1>0, <2>1, <2>2, SettledKept
  <2>. QED  BY <2>1, <2>3
<1>. QED  BY <1>1 DEF Tokens, Bearing, Busy

\* What was kept stays good when tokens are issued.
LEMMA KeysGrow ==
    ASSUME Orderly, Tokens, issued' \in Nat, issued' = issued \/ issued' = issued + 1
    PROVE  /\ stash' = stash => stash' \in Issued' \cup {Absent}
           /\ settings' = settings => Bearing'
<1>1. issued \in Nat  BY DEF Orderly, InstallerTypes
<1>2. Issued \subseteq Issued'  BY <1>1, IssuedGrow
<1>. QED  BY <1>2 DEF Tokens, Bearing, Bearer

\* A command that goes on.
LEMMA TokensGoOn ==
    ASSUME Orderly, Tokens, NEW p \in Runners, Busy(p), Spares(p), Keeps(p), issued' = issued,
           stash' \in Issued \cup {Absent},
           \A t \in Tools : BearerIn(t, settings'[t]) \in Issued \cup {Absent, Ingest}
    PROVE  Tokens'
<1>. PICK c : c = cmd[p]  OBVIOUS
<1>. PICK d : d = cmd'[p]  OBVIOUS
<1>0. issued \in Nat  BY DEF Orderly, InstallerTypes
<1>1. Issued' = Issued  BY DEF Issued
<1>2. stash' \in Issued' \cup {Absent} /\ Bearing'  BY <1>1 DEF Bearing, Bearer
<1>3. Carries(c) /\ stash \in Issued \cup {Absent}  BY DEF Tokens
<1>4. ASSUME d.pc # "idle"  PROVE Carries(d)'
  <2>1. d.op = c.op /\ d.st = c.st /\ d.to = c.to /\ d.before = c.before
        /\ d.keys[1] \in {c.keys[1], stash}
    BY <1>4 DEF Keeps
  <2>2. d.keys[1] \in Issued' \cup {Absent}  BY <1>1, <1>3, <2>1 DEF Carries
  <2>. QED  BY <1>0, <1>3, <2>1, <2>2, SettledKept
<1>. QED  BY <1>0, <1>2, <1>4, TokensKept

\* Every wiring step moves only tokens of the company's into the keyring.
LEMMA WiringCarries ==
    ASSUME Orderly, Purposes, Tokens, NEW p \in Runners, CommandStep(p)
    PROVE  Tokens'
<1>. PICK c : c = cmd[p]  OBVIOUS
<1>1. c \in Wirings /\ Spares(p) /\ Busy(p)  BY WiringSteps DEF Busy, WiringStages
<1>2. Keeps(p) /\ issued' = issued  BY WiringKeeps
<1>3. /\ Purpose(c) /\ Carries(c) /\ Standing(c) /\ c.op # "uninstall"
      /\ stash \in Issued \cup {Absent} /\ Bearing
  BY <1>1, Wiring DEF Tokens, Bearing
<1>4. c.keys[1] \in Issued \cup {Absent}  BY <1>3 DEF Carries
<1>5. stash' \in Issued \cup {Absent}
  <2>1. CASE stash' = stash  BY <1>3, <2>1
  <2>2. CASE StashToken(p)
    <3>1. CASE Bearers = {}  BY <1>3, <2>2, <3>1 DEF StashToken
    <3>2. CASE Bearers # {}
      <4>1. FirstBearer \in Bearers  BY <3>2 DEF FirstBearer, Bearers, Tools
      <4>2. FirstBearer \in Tools /\ Bearer(FirstBearer) \notin {Absent, Ingest}
        BY <4>1 DEF Bearers, Bearer
      <4>3. stash' = Bearer(FirstBearer)  BY <2>2, <3>2 DEF StashToken, Bearer
      <4>. QED  BY <1>3, <4>2, <4>3 DEF Bearing
    <3>. QED  BY <3>1, <3>2
  <2>3. CASE Restash(p)
    <3>1. c.op = "reconnect" /\ stash' = c.to.token  BY <1>3, <2>3 DEF Restash, At, Standing
    <3>2. c.to = Company(c.st.token) /\ c.st.token \in Issued  BY <1>3, <3>1 DEF Purpose
    <3>3. c.to.token = c.st.token  BY <3>2 DEF Company
    <3>. QED  BY <3>1, <3>2, <3>3
  <2>4. CASE KeepStash(p)
    <3>1. c.op = "enroll" /\ stash' = c.st.token  BY <1>3, <2>4 DEF KeepStash, At, Standing
    <3>. QED  BY <1>3, <3>1 DEF Purpose
  <2>5. CASE stash' \in {c.keys[1], Absent}  BY <1>4, <2>5
  <2>6. \/ stash' = stash \/ StashToken(p) \/ Restash(p) \/ KeepStash(p)
        \/ stash' \in {c.keys[1], Absent}
    BY DEF CommandStep, KeyringRefuses, Merge, MergeFails, Undo, ReadKeys, ReadKeysFails,
       KeepStashFails, SaveCredential, SaveCredentialFails, SaveManaged, SaveManagedRefused,
       SaveManagedFails, WriteState, WriteStateFails, ClearStash, ClearStashFails, GiveUp,
       StashBefore, disk
  <2>. QED  BY <2>1, <2>2, <2>3, <2>4, <2>5, <2>6
<1>6. ASSUME NEW t \in Tools  PROVE BearerIn(t, settings'[t]) \in Issued \cup {Absent, Ingest}
  <2>0. BearerIn(t, settings[t]) \in Issued \cup {Absent, Ingest}  BY <1>3 DEF Bearing, Bearer
  <2>1. CASE settings' = settings  BY <2>0, <2>1
  <2>2. CASE Merge(p)
    <3>. DEFINE u == Order[c.step + 1]
    <3>1. /\ u \in Tools /\ settings[u] \in FileOf(u) /\ c.to \in Manifests /\ c.keep \in BOOLEAN
          /\ settings'[u] = Merged(u, settings[u], c.to, c.keep)
          /\ \A x \in Tools \ {u} : settings'[x] = settings[x]
      BY <2>2, MergeWrites
    <3>2. BearerIn(u, settings'[u]) = c.to.token  BY <3>1, MergedTypes
    <3>3. c.to.token \in Issued \cup {Ingest}  BY <1>3 DEF Carries
    <3>. HIDE DEF u
    <3>4. CASE t = u  BY <3>2, <3>3, <3>4
    <3>5. CASE t # u  BY <2>0, <3>1, <3>5
    <3>. QED  BY <3>4, <3>5
  <2>3. CASE Undo(p)
    <3>. DEFINE u == Order[c.step]
    <3>1. CASE c.step = 0  BY <2>0, <2>3, <3>1, UndoMoves
    <3>2. CASE c.step # 0
      <4>1. settings'[u] = c.before[u] /\ u \in Tools
            /\ \A x \in Tools \ {u} : settings'[x] = settings[x]
        BY <2>3, <3>2, UndoMoves
      <4>2. BearerIn(u, c.before[u]) \in Issued \cup {Absent, Ingest}  BY <1>3, <4>1 DEF Carries
      <4>. HIDE DEF u
      <4>3. CASE t = u  BY <4>1, <4>2, <4>3
      <4>4. CASE t # u  BY <2>0, <4>1, <4>4
      <4>. QED  BY <4>3, <4>4
    <3>. QED  BY <3>1, <3>2
  <2>4. settings' = settings \/ Merge(p) \/ Undo(p)
    BY DEF CommandStep, StashToken, Restash, KeyringRefuses, MergeFails, ReadKeys, ReadKeysFails,
       KeepStash, KeepStashFails, SaveCredential, SaveCredentialFails, SaveManaged,
       SaveManagedRefused, SaveManagedFails, WriteState, WriteStateFails, ClearStash,
       ClearStashFails, disk
  <2>. QED  BY <2>1, <2>2, <2>3, <2>4
<1>. QED  BY <1>1, <1>2, <1>5, <1>6, TokensGoOn

LEMMA RemovedBearer ==
    ASSUME InstallerTypes, cmd["user"] \in Removals, Carries(cmd["user"]), NEW t \in Tools
    PROVE  /\ BearerIn(t, Planned(cmd["user"], t)) \in Issued \cup {Absent, Ingest}
           /\ BearerIn(t, cmd["user"].before[t]) \in Issued \cup {Absent, Ingest}
<1>. PICK c : c = cmd["user"]  OBVIOUS
<1>1. c.before[t] \in FileOf(t) /\ c.old.rec[t] \in RecordOf(t)  BY PlannedTypes
<1>2. AuthLeaf(t) \in Leaves(t)  BY DEF AuthLeaf, Leaves, Tools
<1>3. BearerIn(t, Planned(c, t)) \in {BearerIn(t, c.before[t]), Absent}
  BY <1>1, <1>2, RemovedTypes DEF Planned, BearerIn
<1>4. BearerIn(t, c.before[t]) \in Issued \cup {Absent, Ingest}  BY DEF Carries
<1>. QED  BY <1>3, <1>4

\* An uninstallation brings no other token back.
LEMMA RemovalCarries ==
    ASSUME Orderly, Tokens, UninstallStep
    PROVE  Tokens'
<1>0. "user" \in Runners /\ InstallerTypes  BY DEF Runners, Orderly
<1>. PICK c : c = cmd["user"]  OBVIOUS
<1>1. c \in Removals /\ Spares("user") /\ Busy("user")  BY RemovalSteps DEF Busy, RemovalStages
<1>2. Keeps("user") /\ issued' = issued  BY RemovalKeeps
<1>3. Carries(c) /\ stash \in Issued \cup {Absent} /\ Bearing  BY <1>0, <1>1 DEF Tokens, Bearing
<1>4. stash' \in Issued \cup {Absent}
  <2>1. stash' \in {stash, Absent}
    BY DEF UninstallStep, StopDaemon, StopRefused, TakeLease, Release, ReleaseFails, Unrelease,
     DropCredential, DropStash, DropState, DropRecord, DropFails, disk
  <2>. QED  BY <1>3, <2>1
<1>5. ASSUME NEW t \in Tools  PROVE BearerIn(t, settings'[t]) \in Issued \cup {Absent, Ingest}
  <2>0. /\ BearerIn(t, settings[t]) \in Issued \cup {Absent, Ingest}
        /\ BearerIn(t, Planned(c, t)) \in Issued \cup {Absent, Ingest}
        /\ BearerIn(t, c.before[t]) \in Issued \cup {Absent, Ingest}
    BY <1>0, <1>1, <1>3, RemovedBearer DEF Bearing, Bearer
  <2>1. settings'[t] \in {settings[t], Planned(c, t), c.before[t]}
    <3>1. CASE settings' = settings  BY <3>1
    <3>2. CASE Release
      <4>. DEFINE u == Order[c.step + 1]
      <4>1. settings'[u] = Planned(c, u) /\ \A x \in Tools \ {u} : settings'[x] = settings[x]
        BY <3>2, ReleaseMoves
      <4>. HIDE DEF u
      <4>2. CASE t = u  BY <4>1, <4>2
      <4>3. CASE t # u  BY <4>1, <4>3
      <4>. QED  BY <4>2, <4>3
    <3>3. CASE Unrelease
      <4>1. CASE c.step = 0  BY <3>3, <4>1, UnreleaseMoves
      <4>2. CASE c.step # 0
        <5>. DEFINE u == Order[c.step]
        <5>1. /\ settings'[u] = IF settings[u] = Planned(c, u) THEN c.before[u] ELSE settings[u]
              /\ \A x \in Tools \ {u} : settings'[x] = settings[x]
          BY <3>3, <4>2, UnreleaseMoves
        <5>. HIDE DEF u
        <5>2. CASE t = u  BY <5>1, <5>2
        <5>3. CASE t # u  BY <5>1, <5>3
        <5>. QED  BY <5>2, <5>3
      <4>. QED  BY <4>1, <4>2
    <3>4. settings' = settings \/ Release \/ Unrelease
      BY DEF UninstallStep, StopDaemon, StopRefused, TakeLease, ReleaseFails,
       DropCredential, DropStash, DropState, DropRecord, DropFails, disk
    <3>. QED  BY <3>1, <3>2, <3>3, <3>4
  <2>. QED  BY <2>0, <2>1
<1>. QED  BY <1>0, <1>1, <1>2, <1>4, <1>5, TokensGoOn

\* What a new command backs up.
LEMMA NewCarries ==
    ASSUME Tokens, Issued \subseteq Issued', NEW d, d.before = settings, d.keys[1] = Absent,
           d.op # "uninstall" => d.to.token \in IF d.to.local THEN {Ingest} ELSE Issued'
    PROVE  Carries(d)'
<1>1. \A t \in Tools : BearerIn(t, d.before[t]) \in Issued' \cup {Absent, Ingest}
  BY DEF Tokens, Bearer
<1>. QED  BY <1>1 DEF Carries

LEMMA BeginningsCarry ==
    ASSUME Orderly, Tokens,
           Enroll \/ Enable \/ Disable \/ Reconnect \/ Uninstall \/ UninstallAgain
    PROVE  Tokens'
<1>. PICK d : d = cmd'["user"]  OBVIOUS
<1>0. "user" \in Runners /\ issued \in Nat  BY DEF Runners, Orderly, InstallerTypes
<1>1. ASSUME NEW op, Begun(op), issued' = issued \/ issued' = issued + 1,
             d.op # "uninstall" => d.to.token \in IF d.to.local THEN {Ingest} ELSE Issued'
      PROVE  Tokens'
  <2>1. /\ Spares("user") /\ settings' = settings /\ stash' = stash
        /\ d.before = settings /\ d.keys = <<Absent, Absent>>
    BY <1>1 DEF Begun, disk
  <2>2. issued' \in Nat /\ Issued \subseteq Issued'  BY <1>0, <1>1, IssuedGrow
  <2>3. d.keys[1] = Absent  BY <2>1
  <2>4. Carries(d)'  BY <1>1, <2>1, <2>2, <2>3, NewCarries
  <2>5. stash' \in Issued' \cup {Absent} /\ Bearing'  BY <1>1, <2>1, <2>2, KeysGrow
  <2>. QED  BY <1>0, <1>1, <2>1, <2>2, <2>4, <2>5, TokensKept
<1>2. \A port : Local(port, Ingest).local /\ Local(port, Ingest).token = Ingest  BY DEF Local
<1>3. \A x : ~Company(x).local /\ Company(x).token = x  BY DEF Company
<1>4. CASE Enroll
  <2>1. /\ Begun("enroll") /\ issued' = issued + 1 /\ d.st.token = Token(issued')
        /\ d.to = IF d.st.local THEN Local(d.st.port, Ingest) ELSE Company(d.st.token)
    BY <1>4, EnrollBegins
  <2>2. issued' \in Nat /\ Token(issued') \in Issued'  BY <1>0, <2>1, IssuedGrow
  <2>3. d.to.token \in IF d.to.local THEN {Ingest} ELSE Issued'  BY <1>2, <1>3, <2>1, <2>2
  <2>. QED  BY <1>1, <2>1, <2>3
<1>5. CASE Enable
  <2>1. Begun("enable") /\ d.to = Local(d.st.port, Ingest)  BY <1>5, EnableBegins
  <2>2. issued' = issued  BY <1>5 DEF Enable
  <2>. QED  BY <1>1, <1>2, <2>1, <2>2
<1>6. CASE Disable
  <2>1. Begun("disable") /\ stash # Absent /\ d.to = Company(stash)  BY <1>6, DisableBegins
  <2>2. issued' = issued /\ Issued' = Issued  BY <1>6 DEF Disable, Issued
  <2>3. d.to.token \in Issued'  BY <1>3, <2>1, <2>2 DEF Tokens
  <2>. QED  BY <1>1, <1>3, <2>1, <2>2, <2>3
<1>7. CASE Reconnect
  <2>1. /\ Begun("reconnect") /\ issued' = issued + 1 /\ d.st.token = Token(issued')
        /\ d.to = Company(d.st.token)
    BY <1>7, ReconnectBegins
  <2>2. issued' \in Nat /\ Token(issued') \in Issued'  BY <1>0, <2>1, IssuedGrow
  <2>. QED  BY <1>1, <1>3, <2>1, <2>2
<1>8. CASE Uninstall \/ UninstallAgain
  <2>1. Begun("uninstall")  BY <1>8, UninstallBegins
  <2>2. issued' = issued /\ d.op = "uninstall"
    BY <1>8, <2>1 DEF Uninstall, UninstallAgain, Begun
  <2>. QED  BY <1>1, <2>1, <2>2
<1>. QED  BY <1>4, <1>5, <1>6, <1>7, <1>8

LEMMA TokensStay ==
    ASSUME Orderly, Purposes, Unedited => Tokens, [InstallerNext]_installerVars, Unedited'
    PROVE  Tokens'
<1>0. issued \in Nat /\ "user" \in Runners /\ "daemon" \in Runners
  BY DEF Runners, Orderly, InstallerTypes
<1>1. ASSUME "edit" \in spoiled => "edit" \in spoiled'  PROVE Tokens  BY <1>1 DEF Unedited
<1>2. CASE Enroll \/ Enable \/ Disable \/ Reconnect \/ Uninstall \/ UninstallAgain
  <2>1. spoiled \subseteq spoiled'
    BY <1>2 DEF Enroll, Enable, Disable, Reconnect, Uninstall, UninstallAgain, UserBegins
  <2>. QED  BY <1>1, <1>2, <2>1, BeginningsCarry
<1>3. ASSUME NEW p \in Runners, CommandStep(p)  PROVE Tokens'
  <2>1. spoiled \subseteq spoiled'
    BY <1>3 DEF CommandStep, StashToken, Restash, KeyringRefuses, Merge, MergeFails, Undo,
       ReadKeys, ReadKeysFails, KeepStash, KeepStashFails, SaveCredential, SaveCredentialFails,
       SaveManaged, SaveManagedRefused, SaveManagedFails, WriteState, WriteStateFails,
       ClearStash, ClearStashFails
  <2>. QED  BY <1>1, <1>3, <2>1, WiringCarries
<1>4. ASSUME NEW p \in Runners, Killed(p)  PROVE Tokens'
  <2>1. spoiled \subseteq spoiled'  BY <1>4 DEF Killed
  <2>2. Tokens  BY <1>1, <2>1
  <2>3. cmd'[p].pc = "idle" /\ Spares(p) /\ stash' = stash /\ settings' = settings /\ issued' = issued
    BY <1>4, KilledEnds DEF disk
  <2>4. stash' \in Issued' \cup {Absent} /\ Bearing'  BY <1>0, <2>2, <2>3, KeysGrow
  <2>. QED  BY <1>0, <2>2, <2>3, <2>4, TokensKept
<1>5. CASE UninstallStep
  <2>1. spoiled \subseteq spoiled'
    BY <1>5 DEF UninstallStep, StopDaemon, StopRefused, TakeLease, Release, ReleaseFails, Unrelease,
       DropCredential, DropStash, DropState, DropRecord, DropFails
  <2>. QED  BY <1>1, <1>5, <2>1, RemovalCarries
<1>6. CASE DaemonLoads \/ DaemonLeases \/ DaemonUp \/ DaemonStops \/ UNCHANGED installerVars
  <2>1. UNCHANGED <<settings, stash, cmd, issued, spoiled>>
    BY <1>6 DEF DaemonLoads, DaemonLeases, DaemonUp, DaemonStops, installerVars, disk
  <2>. QED  BY <1>1, <2>1 DEF Tokens, Carries, Issued, Busy, Bearer
<1>7. ASSUME NEW t \in Tools, UserEdits(t)  PROVE Tokens'
  BY <1>7 DEF UserEdits, Unedited
<1>8. ASSUME NEW port \in Ports, DaemonBinds(port)  PROVE Tokens'
  <2>1. UNCHANGED <<settings, stash, issued>> /\ spoiled \subseteq spoiled'
    BY <1>8 DEF DaemonBinds, disk
  <2>2. Tokens  BY <1>1, <2>1
  <2>3. CASE UNCHANGED <<cmd, spoiled>>
    BY <2>1, <2>2, <2>3 DEF Tokens, Carries, Issued, Busy, Bearer
  <2>4. CASE ~UNCHANGED <<cmd, spoiled>>
    <3>. PICK d : d = cmd'["daemon"]  OBVIOUS
    <3>1. /\ Spares("daemon") /\ d.to.local /\ d.to.token = Ingest
          /\ d.before = settings /\ d.keys[1] = Absent
      BY <1>8, <2>4, Rewiring
    <3>2. Issued \subseteq Issued'  BY <2>1 DEF Issued
    <3>3. Carries(d)'  BY <2>2, <3>1, <3>2, NewCarries
    <3>4. stash' \in Issued' \cup {Absent} /\ Bearing'  BY <1>0, <2>1, <2>2, KeysGrow
    <3>. QED  BY <1>0, <2>1, <2>2, <3>1, <3>3, <3>4, TokensKept
  <2>. QED  BY <2>3, <2>4
<1>. QED  BY <1>2, <1>3, <1>4, <1>5, <1>6, <1>7, <1>8 DEF InstallerNext

-----------------------------------------------------------------------------
(* The theorems                                                             *)

\* The invariant, from its parts.
LEMMA WholeBegins == InstallerInit => WholeInv
BY OrderBegins, LeaseBegins, PurposesBegin, TokensBegin, SaneBegins DEF WholeInv

LEMMA WholeStays == WholeInv /\ [InstallerNext]_installerVars => WholeInv'
<1>. SUFFICES ASSUME WholeInv, [InstallerNext]_installerVars  PROVE WholeInv'  OBVIOUS
<1>1. Orderly /\ LeaseInv /\ Purposes /\ (Unedited => Tokens) /\ Sane  BY DEF WholeInv
<1>2. Orderly' /\ LeaseInv'  BY <1>1, OrderStays, LeaseStays
<1>3. Purposes'  BY <1>1, PurposesStay
<1>4. Unedited' => Tokens'  BY <1>1, TokensStay
<1>5. Sane'  BY <1>1, SaneStays
<1>. QED  BY <1>2, <1>3, <1>4, <1>5 DEF WholeInv

\* Whatever is written in whatever order, fails or is killed: what a command is
\* for and carries, and, while commands come one at a time, that the disk is as
\* the command under way left it.
THEOREM InstallerInvariant == InstallerSpec => []WholeInv
<1>. QED  BY WholeBegins, WholeStays, PTL DEF InstallerSpec

\* While state.json says local, every part of Well keeps the token at hand.
LEMMA TokenAtHand ==
    ASSUME WholeInv, state # Absent, state.local, cred = state.inst,
           spoiled \cap {"overlap", "edit", "enroll", "uninstall"} = {}
    PROVE  stash # Absent
<1>1. /\ Orderly /\ LeaseInv /\ Sane /\ InstallerTypes /\ Unbroken /\ "overlap" \notin spoiled
      /\ "daemon" \in Runners
  BY DEF WholeInv, Orderly, Unbroken, Runners
<1>2. cred \in Nat /\ Absent \notin Nat
  BY <1>1, ValueAssumption DEF InstallerTypes, States
<1>3. CASE Quiet  BY <1>1, <1>3 DEF Sane, Calm, Open
<1>4. ASSUME NEW p \in Runners, Busy(p)  PROVE stash # Absent
  <2>. PICK c : c = cmd[p]  OBVIOUS
  <2>1. Well(c) /\ Aim(c) /\ Way(c)  BY <1>1, <1>4 DEF Sane, Well
  <2>2. CASE c \in Wirings
    <3>1. c.op \in {"enroll", "enable", "disable", "reconnect"}  BY <2>2 DEF Wirings
    <3>2. CASE c.op \in {"enable", "disable"}  BY <2>1, <3>2 DEF Way, Open
    <3>3. CASE c.op \in {"reconnect", "enroll"}
      <4>1. Kept(c) # Absent  BY <2>1, <3>3 DEF Way, Open
      <4>2. CASE c.op = "enroll" /\ c.pc \in EnrollStages /\ c.to.local
        BY <2>1, <4>1, <4>2 DEF Way, Kept, EnrollStages
      <4>3. CASE ~(c.op = "enroll" /\ c.pc \in EnrollStages /\ c.to.local)
        BY <4>1, <4>3 DEF Kept
      <4>. QED  BY <4>2, <4>3
    <3>. QED  BY <3>1, <3>2, <3>3
  <2>3. CASE c \in Removals
    <3>1. c.op = "uninstall" /\ c.pc \in RemovalStages  BY <2>3 DEF Removals
    <3>2. p = "user"  BY <1>1, <1>4, <3>1 DEF LeaseInv, Busy, Runners
    <3>3. c.pc \notin {"stashgone", "stategone"}  BY <1>1, <1>2, <3>2 DEF LeaseInv
    <3>4. c.pc # "recordgone"  BY <2>1 DEF Aim
    <3>5. Open(c.before, stash)  BY <2>1, <3>1, <3>3, <3>4 DEF Way, RemovalStages
    <3>. QED  BY <3>5 DEF Open
  <2>4. c \in Commands  BY <1>1, <1>4, Doing DEF Busy
  <2>. QED  BY <2>2, <2>3, <2>4 DEF Commands
<1>. QED  BY <1>3, <1>4 DEF Quiet, Busy

\* local.go, invariant 3.
LEMMA HatchOpen == WholeInv => EscapeHatch
<1>. SUFFICES ASSUME WholeInv, state # Absent, state.local, cred = state.inst,
                     spoiled \cap {"overlap", "edit", "enroll", "uninstall"} = {}
              PROVE  IsCompanyToken(stash)
  BY DEF EscapeHatch
<1>1. stash # Absent  BY TokenAtHand
<1>2. Tokens  BY DEF WholeInv, Unedited
<1>. QED  BY <1>1, <1>2 DEF Tokens, Issued, IsCompanyToken

\* The daemon rewires only the installation that it loaded.
LEMMA RecordAtHand == WholeInv => StillRemovable
<1>. SUFFICES ASSUME WholeInv, state # Absent, cmd["user"].pc = "idle",
                     spoiled \cap {"enroll", "overlap"} = {}
              PROVE  managed # Absent /\ managed.inst = state.inst
  BY DEF StillRemovable, At
<1>1. Sane /\ LeaseInv /\ Enrolled /\ "overlap" \notin spoiled /\ "daemon" \in Runners
  BY DEF WholeInv, Enrolled, Runners
<1>2. CASE cmd["daemon"].pc = "idle"
  <2>1. Quiet  BY <1>2 DEF Quiet, Runners
  <2>. QED  BY <1>1, <2>1 DEF Sane, Calm, HasRecord
<1>3. CASE cmd["daemon"].pc # "idle"
  <2>. PICK c : c = cmd["daemon"]  OBVIOUS
  <2>1. Well(c) /\ c.op = "enable"  BY <1>1, <1>3 DEF Sane, Busy, LeaseInv
  <2>2. Paper(c) /\ state.inst = c.st.inst  BY <1>1, <2>1 DEF Well, Aim
  <2>3. CASE Tentative(c)  BY <2>2, <2>3 DEF Paper
  <2>4. CASE ~Tentative(c)  BY <2>2, <2>4 DEF Paper, HasRecord
  <2>. QED  BY <2>3, <2>4
<1>. QED  BY <1>2, <1>3

\* An installation that is wired locally has the company's token in its keyring,
\* and one that is on disk has its record, before, during and after every
\* command, also one that fails or is killed.  Excepted are, as the properties say,
\* an enrolment and an uninstallation that stop half way, two commands at once and
\* the user's own changes of the files.
THEOREM WayBackStaysOpen == InstallerSpec => []WayBack
<1>1. WholeInv => WayBack  BY HatchOpen, RecordAtHand DEF WayBack
<1>. QED  BY <1>1, InstallerInvariant, PTL

LEMMA FilesAgree == WholeInv => FilesFollowState
<1>. SUFFICES ASSUME WholeInv, Quiet, spoiled = {}, state # Absent
              PROVE  \E m \in WiredAs(state) : \A t \in Tools :
                       /\ \A l \in Leaves(t) : settings[t].leaf[l] = Wanted(t, m, l)
                       /\ managed # Absent /\ NoDrift(settings[t], managed.rec[t])
  BY DEF FilesFollowState
<1>1. Follow(settings, managed)  BY DEF WholeInv, Sane, Calm
<1>. QED  BY <1>1 DEF Follow, Agree

\* Between the commands the vendors' files are exactly what state.json and the
\* record say, also after commands whose writes failed and were taken back.
THEOREM FilesAndStateAgree == InstallerSpec => []FilesFollowState
<1>. QED  BY FilesAgree, InstallerInvariant, PTL
==============================================================================
