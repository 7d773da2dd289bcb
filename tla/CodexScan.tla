----------------------------- MODULE CodexScan ------------------------------
(***************************************************************************)
(* Reading the session files that Codex writes (scanFile of                *)
(* internal/codexsource/worker.go, CommitCodexFile of                      *)
(* internal/store/codex_worker.go).                                        *)
(*                                                                         *)
(* The worker remembers how far it has read each file as a checkpoint with *)
(* a hash of all rows up to it, and commits rows and checkpoint together.  *)
(* A file may be appended to, cut, rewritten in place, renamed, replaced   *)
(* or deleted between two scans or during one, `purge` may drop texts and  *)
(* `prune` sessions, and the worker may fail between any two steps.  The   *)
(* scan has to tell a file that has grown from one that has changed.       *)
(*                                                                         *)
(* A row counts as one unit of length and enters the model when its line   *)
(* is complete.  A hash is the sequence of the rows it was made of.        *)
(***************************************************************************)
EXTENDS Integers, Sequences, FiniteSets

CONSTANTS
    Path,
    FileId,      \* OS file ids; one that no name has may be used again
    Owner,       \* sessions
    NoOwner,
    RowText,     \* the rows that are written: records [kind, owner, at]
    Contents,    \* what a new file, and that of Home in the beginning, may hold
    Home,
    ScanRows,    \* maxBatchRows
    MaxChanges  \* bound: changes of files, purges, prunes and workers that fail

NoRow == 0

FileRow == [kind : {"meta", "text", "bad", "context"}, owner : Owner \cup {NoOwner}, at : Nat \ {0}]

ASSUME CodexScanAssumption ==
    /\ Home \in Path
    /\ FileId # {} /\ 0 \notin FileId
    /\ NoOwner \notin Owner
    /\ RowText \subseteq FileRow
    /\ Contents \subseteq Seq(FileRow)
    /\ ScanRows \in Nat \ {0}
    /\ MaxChanges \in Nat

VARIABLES
    names,    \* path -> file id, or 0
    content,  \* file id -> rows
    stamp,    \* file id -> its modification time
    rows,     \* codex_jsonl_files with their records, by id; pruned ones too
    present,  \* sessions in the database
    cutoff,   \* codex_content_tombstones.before_at, 0 without one
    scan,     \* the scan under way
    troubles, \* bound: how many there have been
    still,    \* history: paths whose files have rested since a scan opened them
    revived   \* history: a superseded row was made "rotated"

scanVars == <<names, content, stamp, rows, present, cutoff, scan, troubles, still, revived>>

files == <<names, content, stamp>>
database == <<rows, present, cutoff>>
history == <<troubles, still, revived>>

Idle == [step |-> "idle"]

ScanInit ==
    /\ LET id == CHOOSE f \in FileId : TRUE
       IN  /\ names = [p \in Path |-> IF p = Home THEN id ELSE 0]
           /\ content \in {[f \in FileId |-> IF f = id THEN held ELSE <<>>] : held \in Contents}
    /\ stamp = [f \in FileId |-> 0]
    /\ rows = <<>>
    /\ present = Owner
    /\ cutoff = [o \in Owner |-> 0]
    /\ scan = Idle
    /\ troubles = 0
    /\ still = {}
    /\ revived = FALSE

-----------------------------------------------------------------------------
(* Codex and the user's tools: the files *)

Trouble ==
    /\ troubles < MaxChanges
    /\ troubles' = troubles + 1
    /\ UNCHANGED revived

Linked == {names[p] : p \in Path} \ {0}
HeldOpen == IF scan.step = "idle" THEN {} ELSE {scan.os}

Written(paths) ==
    /\ Trouble
    /\ still' = still \ paths
    /\ UNCHANGED <<database, scan>>

Filled(p, new) ==
    /\ names[p] # 0
    /\ new # content[names[p]]
    /\ content' = [content EXCEPT ![names[p]] = new]
    /\ stamp' = [stamp EXCEPT ![names[p]] = @ + 1]
    /\ Written({p})
    /\ UNCHANGED names

AppendTo(p) == \E row \in RowText : names[p] # 0 /\ Filled(p, Append(content[names[p]], row))

CutTo(p) ==
    /\ names[p] # 0
    /\ \E n \in 0..(Len(content[names[p]]) - 1) : Filled(p, SubSeq(content[names[p]], 1, n))

RewriteIn(p) ==
    /\ names[p] # 0
    /\ \E i \in DOMAIN content[names[p]], row \in RowText :
          Filled(p, [content[names[p]] EXCEPT ![i] = row])

\* To a free name or over another file.
Rename(p, q) ==
    /\ p # q
    /\ names[p] # 0
    /\ names' = [names EXCEPT ![q] = names[p], ![p] = 0]
    /\ Written({p, q})
    /\ UNCHANGED <<content, stamp>>

Delete(p) ==
    /\ names[p] # 0
    /\ names' = [names EXCEPT ![p] = 0]
    /\ Written({p})
    /\ UNCHANGED <<content, stamp>>

Create(p) ==
    /\ names[p] = 0
    /\ \E id \in FileId \ (Linked \cup HeldOpen), held \in Contents :
          /\ names' = [names EXCEPT ![p] = id]
          /\ content' = [content EXCEPT ![id] = held]
          /\ stamp' = [stamp EXCEPT ![id] = @ + 1]
    /\ Written({p})

-----------------------------------------------------------------------------
(* The database: purge and prune, in transactions of their own *)

Purged(before, owner, row) == owner # NoOwner /\ row.at < before[owner]

Cleaned ==
    /\ Trouble
    /\ UNCHANGED <<files, scan>>

\* PurgeContent of the texts before a time; every session has older turns.
PurgeTexts(before) ==
    /\ Cleaned
    /\ cutoff' = [o \in Owner |-> IF o \in present /\ cutoff[o] < before THEN before ELSE cutoff[o]]
    /\ rows' = [i \in DOMAIN rows |->
                  [rows[i] EXCEPT !.texts = {n \in @ : ~ Purged(cutoff', rows[i].owner, rows[i].records[n])}]]
    /\ UNCHANGED <<present, still>>

\* Prune takes sessions nobody has used for 400 days, and what is left of
\* files whose session is gone.
Prune(old) ==
    /\ Cleaned
    /\ present' = present \ old
    /\ cutoff' = [o \in Owner |-> IF o \in present' THEN cutoff[o] ELSE 0]
    /\ rows' = [i \in DOMAIN rows |->
                  IF rows[i].owner \in present' THEN rows[i] ELSE [rows[i] EXCEPT !.status = "pruned"]]
    /\ still' = {}

\* Telemetry of the session comes, the first or after a prune.
SessionStored(o) ==
    /\ o \notin present
    /\ present' = present \cup {o}
    /\ still' = {}
    /\ UNCHANGED <<files, rows, cutoff, scan, troubles, revived>>

-----------------------------------------------------------------------------
(* The worker: opening a file and finding its checkpoint *)

\* CodexFile: the last generation of a path.
AtPath(p) ==
    LET ids == {i \in DOMAIN rows : rows[i].path = p /\ rows[i].status # "pruned"}
    IN  {i \in ids : \A j \in ids : rows[j].gen <= rows[i].gen}

\* CodexFileByOSID: an active row before a rotated one.  Of several, that of
\* the latest second; which one is left open.
OfFile(f) ==
    LET with(status) == {i \in DOMAIN rows : rows[i].os = f /\ rows[i].status = status}
    IN  IF with("active") # {} THEN with("active") ELSE with("rotated")

Opened(p, prior, moved) ==
    /\ scan' = [step |-> "check", path |-> p, os |-> names[p],
                size |-> Len(content[names[p]]), stamp |-> stamp[names[p]],
                prior |-> prior, moved |-> moved,
                was |-> IF prior = NoRow THEN NoRow ELSE
                        [rows[prior] EXCEPT !.records = <<>>, !.texts = {}, !.errors = {}]]
    /\ still' = still \cup {p}
    /\ UNCHANGED <<files, database, troubles, revived>>

Free == scan.step = "idle"

OpenKnown(p) ==
    /\ Free
    /\ names[p] # 0
    /\ \E i \in AtPath(p) : Opened(p, i, FALSE)

\* A file known by another name, which it has no more.
OpenMoved(p) ==
    /\ Free
    /\ names[p] # 0
    /\ AtPath(p) = {}
    /\ \E i \in OfFile(names[p]) : names[rows[i].path] # names[p] /\ Opened(p, i, TRUE)

OpenNew(p) ==
    /\ Free
    /\ names[p] # 0
    /\ AtPath(p) = {} /\ OfFile(names[p]) = {}
    /\ Opened(p, NoRow, FALSE)

\* The hash of the file's first n rows.
Prefix(n) == SubSeq(content[scan.os], 1, n)
Shorter(n) == Len(content[scan.os]) < n

\* Mutant: length and file id stand for the content.
GrownByLength(was) == was.os = scan.os /\ scan.size >= was.offset /\ was.status \in {"active", "rotated"}

\* The file begins with what was read of it.
Grown(was) ==
    /\ was.os = scan.os
    /\ scan.size >= was.offset
    /\ was.status \in {"active", "rotated"}
    /\ Prefix(was.offset) = was.prefix

\* A quarantined file that nobody has touched is left alone.
SameAsQuarantined(was) ==
    /\ was.status = "quarantined"
    /\ was.os = scan.os
    /\ was.size = scan.size /\ was.stamp = scan.stamp
    /\ ~ Shorter(was.offset) /\ Prefix(was.offset) = was.prefix

\* Cut since it was opened: the read fails, and the worker with it.
Cut(was) == was.os = scan.os /\ scan.size >= was.offset /\ was.status \in {"active", "rotated"} /\ Shorter(was.offset)

\* What becomes of the checkpoint that a new generation replaces: the same
\* file changed, and what was read of it proves nothing any more; or another
\* file took its name.
Disposition(was) == IF was.status = "quarantined" \/ was.os = scan.os THEN "superseded" ELSE "rotated"

Reading(fresh, prefix, owner, disposition) ==
    scan' = [step |-> "read", path |-> scan.path, os |-> scan.os, moved |-> scan.moved,
             prior |-> scan.prior, priorOffset |-> IF scan.prior = NoRow THEN 0 ELSE scan.was.offset,
             fresh |-> fresh, disposition |-> disposition, prefix |-> prefix, owner |-> owner,
             buffer |-> <<>>, batch |-> {}, errors |-> {}]

FromTheStart(disposition) == Reading(TRUE, <<>>, NoOwner, disposition)

Check ==
    /\ scan.step = "check"
    /\ IF scan.prior = NoRow THEN FromTheStart("rotated")
       ELSE IF SameAsQuarantined(scan.was) \/ Cut(scan.was) THEN scan' = Idle
       ELSE IF Grown(scan.was) THEN Reading(FALSE, scan.was.prefix, scan.was.owner, "rotated")
       ELSE FromTheStart(Disposition(scan.was))
    /\ UNCHANGED <<files, database, history>>

-----------------------------------------------------------------------------
(* The worker: reading rows *)

Offset == Len(scan.prefix)
Full == Cardinality(scan.batch \cup scan.errors) >= ScanRows

\* What the reader takes from the file at once is not seen to change.
Ahead ==
    IF scan.buffer # <<>> THEN {scan.buffer}
    ELSE {SubSeq(content[scan.os], Offset + 1, n) : n \in (Offset + 1)..Len(content[scan.os])}

Fatal(row, owner) ==
    \/ row.kind = "context"
    \/ row.kind = "meta" /\ owner # NoOwner /\ row.owner # owner
    \/ row.kind # "meta" /\ owner = NoOwner

\* The owner is the session of the first row.
ReadRow ==
    /\ scan.step = "read"
    /\ ~ Full
    /\ \E ahead \in Ahead :
          LET row == Head(ahead)
              owner == IF scan.owner = NoOwner THEN row.owner ELSE scan.owner
              read == [scan EXCEPT !.buffer = Tail(ahead), !.prefix = Append(@, row)]
          IN  IF Fatal(row, scan.owner)
              THEN scan' = [read EXCEPT !.step = "quarantine", !.errors = @ \cup {Offset + 1}]
              ELSE IF scan.owner = NoOwner /\ owner \notin present
              THEN scan' = Idle
              ELSE IF row.kind = "bad"
              THEN scan' = [read EXCEPT !.errors = @ \cup {Offset + 1}]
              ELSE scan' = [read EXCEPT !.owner = owner, !.batch = @ \cup {Offset + 1}]
    /\ UNCHANGED <<files, database, history>>

-----------------------------------------------------------------------------
(* The worker: CommitCodexFile *)

\* Texts that `purge` has dropped do not come back from the file.
StoredText(owner, row) == row.kind = "text" /\ ~ Purged(cutoff, owner, row)

Texts == {n \in scan.batch : StoredText(scan.owner, scan.prefix[n])}

\* The records of the batch with those that are there already.
Records(old) ==
    [n \in scan.batch \cup DOMAIN old |-> IF n \in scan.batch THEN scan.prefix[n] ELSE old[n]]

\* The checkpoint that the scan began with is still there, and one that is
\* continued is of the same file and session.
Unmoved ==
    LET row == rows[scan.prior]
    IN  /\ row.status # "pruned" /\ row.offset = scan.priorOffset
        /\ ~ scan.fresh => row.os = scan.os /\ row.owner = scan.owner

NewRow(status) ==
    LET ids == AtPath(scan.path)
    IN  [path |-> scan.path, os |-> scan.os, owner |-> scan.owner, status |-> status,
         gen |-> IF ids = {} THEN 1 ELSE 1 + rows[CHOOSE i \in ids : TRUE].gen,
         offset |-> Offset, prefix |-> scan.prefix, size |-> Len(content[scan.os]), stamp |-> stamp[scan.os],
         records |-> Records(<<>>), texts |-> Texts, errors |-> scan.errors]

Continued(old, status) ==
    [old EXCEPT !.path = scan.path, !.status = status, !.offset = Offset, !.prefix = scan.prefix,
                !.size = Len(content[scan.os]), !.stamp = stamp[scan.os],
                !.records = Records(@), !.texts = @ \cup Texts, !.errors = @ \cup scan.errors]

Revives == scan.disposition = "rotated" /\ scan.fresh /\ scan.prior # NoRow /\ rows[scan.prior].status = "superseded"

\* Rows, errors and checkpoint in one transaction.
Commit(status) ==
    /\ revived' = (revived \/ Revives)
    /\ IF scan.prior = NoRow THEN rows' = Append(rows, NewRow(status))
       ELSE IF scan.fresh
       THEN rows' = Append([rows EXCEPT ![scan.prior].status = scan.disposition], NewRow(status))
       ELSE rows' = [rows EXCEPT ![scan.prior] = Continued(@, status)]

CanCommit == scan.prior # NoRow => Unmoved

Saved == IF scan.fresh \/ scan.prior = NoRow THEN Len(rows) + 1 ELSE scan.prior

CommitBatch ==
    /\ scan.step = "read"
    /\ Full
    /\ CanCommit
    /\ Commit("active")
    /\ scan' = [scan EXCEPT !.prior = Saved, !.priorOffset = Offset, !.fresh = FALSE, !.moved = FALSE,
                            !.batch = {}, !.errors = {}]
    /\ UNCHANGED <<files, present, cutoff, troubles, still>>

AtEnd == scan.step = "read" /\ ~ Full /\ Ahead = {}
Nothing == (scan.batch \cup scan.errors = {} /\ ~ scan.moved) \/ scan.owner = NoOwner

NothingToCommit ==
    /\ AtEnd
    /\ Nothing
    /\ scan' = Idle
    /\ UNCHANGED <<files, database, history>>

CommitLast ==
    /\ AtEnd
    /\ ~ Nothing
    /\ CanCommit
    /\ Commit("active")
    /\ scan' = Idle
    /\ UNCHANGED <<files, present, cutoff, troubles, still>>

Quarantine ==
    /\ scan.step = "quarantine"
    /\ CanCommit
    /\ Commit("quarantined")
    /\ scan' = Idle
    /\ UNCHANGED <<files, present, cutoff, troubles, still>>

\* `prune` has taken the checkpoint: the commit fails, and the worker with it.
CommitRefused ==
    /\ scan.step # "quarantine" => scan.step = "read" /\ (AtEnd => ~ Nothing) /\ (~ AtEnd => Full)
    /\ ~ CanCommit
    /\ scan' = Idle
    /\ UNCHANGED <<files, database, history>>

\* The worker or the daemon fails; the next one scans again.
ScanFails ==
    /\ scan.step # "idle"
    /\ Trouble
    /\ scan' = Idle
    /\ still' = still \ {scan.path}
    /\ UNCHANGED <<files, database>>

-----------------------------------------------------------------------------

ScanStep ==
    \/ \E p \in Path : OpenKnown(p) \/ OpenMoved(p) \/ OpenNew(p)
    \/ Check
    \/ ReadRow
    \/ CommitBatch
    \/ NothingToCommit
    \/ CommitLast
    \/ Quarantine
    \/ CommitRefused
    \/ ScanFails

FileStep ==
    \/ \E p \in Path : AppendTo(p) \/ CutTo(p) \/ RewriteIn(p) \/ Delete(p) \/ Create(p)
    \/ \E p, q \in Path : Rename(p, q)

ScanNext ==
    \/ ScanStep
    \/ FileStep
    \/ \E row \in RowText : PurgeTexts(row.at + 1)
    \/ \E old \in SUBSET Owner : Prune(old)
    \/ \E o \in Owner : SessionStored(o)

ScanSpec == ScanInit /\ [][ScanNext]_scanVars

-----------------------------------------------------------------------------
(* Properties *)

\* What a scan of these rows should leave.
FirstFatal(held) ==
    LET owner(n) == IF n = 1 THEN NoOwner ELSE held[1].owner
        fatal == {n \in DOMAIN held : Fatal(held[n], owner(n))}
    IN  IF fatal = {} THEN 0 ELSE CHOOSE n \in fatal : \A m \in fatal : n <= m

Sound(held) ==
    LET fatal == FirstFatal(held)
    IN  {n \in DOMAIN held : held[n].kind \in {"meta", "text"} /\ (fatal # 0 => n < fatal)}

\* A session in the database, or no session at all.
HasSession(held) == held # <<>> /\ (held[1].kind = "meta" => held[1].owner \in present)

\* A scan that ends with the file as it found it leaves exactly the file's
\* sound rows as evidence, each once and at its place, whatever was read of
\* the file, or of another by that name, before; and no other row of the path
\* stays active, which would keep the session from ever being ready.  The row
\* may be a rotated one, of a file that is back under its name and has not
\* grown since.
ScanIsExact ==
    ~ revived => \A p \in still :
        (scan.step = "idle" \/ scan.path # p) /\ HasSession(content[names[p]]) =>
            \E i \in AtPath(p) :
                LET held == content[names[p]]
                IN  /\ rows[i].os = names[p]
                    /\ rows[i].records = [n \in Sound(held) |-> held[n]]
                    /\ rows[i].status \in IF FirstFatal(held) = 0 THEN {"active", "rotated"} ELSE {"quarantined"}
                    /\ \A j \in DOMAIN rows \ {i} : rows[j].path = p => rows[j].status # "active"

\* A text that `purge` has dropped stays away while its session is in the
\* database, though the file still has it and is read again from the start.
PurgedStaysGone ==
    \A i \in DOMAIN rows : rows[i].status # "pruned" =>
        \A n \in rows[i].texts : ~ Purged(cutoff, rows[i].owner, rows[i].records[n])

\* The evidence is the files', less what was purged.
EvidenceIsTrue == ScanIsExact /\ PurgedStaysGone
=============================================================================
