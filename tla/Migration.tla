----------------------------- MODULE Migration -----------------------------
(***************************************************************************)
(* The migrator (store/migration.rs).  Any number of processes may run     *)
(* it against one database; a script and the row that records it are two   *)
(* statements without a transaction, and a process may die between them.   *)
(* Files are numbered in the order of their names.                         *)
(***************************************************************************)
EXTENDS Integers, FiniteSets

CONSTANTS
    Versions,      \* the migration files: numbers
    Reversible,    \* those with a DOWN_ file
    Migrators,     \* the processes
    MaxRuns        \* bound on run() and rollback() together

ASSUME MigrationAssumption ==
    Versions \subseteq Nat /\ IsFiniteSet(Versions) /\ Reversible \subseteq Versions /\ MaxRuns \in Nat

VARIABLES
    dir,           \* the files in the directory
    effect,        \* effect[v]: how often the script of v is in effect
    recorded,      \* the rows of schema_migrations
    mig,           \* mig[p]: [pc, todo, now]; todo is what its run() has yet to apply
    runs,
    torn           \* history: versions a process left half done, or that two worked on

migrationVars == <<dir, effect, recorded, mig, runs, torn>>

Resting == [pc |-> "idle", todo |-> {}, now |-> -1]
Least(S) == CHOOSE v \in S : \A w \in S : v <= w
Greatest(S) == CHOOSE v \in S : \A w \in S : w <= v

MigrationInit ==
    /\ dir \in SUBSET Versions
    /\ effect = [v \in Versions |-> 0] /\ recorded = {}
    /\ mig = [p \in Migrators |-> Resting]
    /\ runs = 0 /\ torn = {}

\* A release brings another file, not always the last by name.
AddFile(v) ==
    /\ v \notin dir
    /\ dir' = dir \cup {v}
    /\ UNCHANGED <<effect, recorded, mig, runs, torn>>

\* The wrong variant: what is recorded is not left out.
MutantPending == dir

Pending == dir \ recorded

\* p turns to v, with todo (v included) before it: what another process has before it
\* too depends on both.
Turn(p, pc, todo, v) ==
    /\ mig' = [mig EXCEPT ![p] = [pc |-> pc, todo |-> todo, now |-> v]]
    /\ torn' = torn \cup {w \in todo : \E q \in Migrators \ {p} : w = mig[q].now \/ w \in mig[q].todo}

NextFile(p, todo) ==
    IF todo = {} THEN mig' = [mig EXCEPT ![p] = Resting] /\ UNCHANGED torn
    ELSE Turn(p, "script", todo, Least(todo))

\* run(): the records are read once, the files sorted.
Run(p) ==
    /\ mig[p].pc = "idle" /\ runs < MaxRuns
    /\ runs' = runs + 1
    /\ NextFile(p, Pending)
    /\ UNCHANGED <<dir, effect, recorded>>

\* apply_migration(): the script...
ApplyScript(p) ==
    /\ mig[p].pc = "script"
    /\ effect' = [effect EXCEPT ![mig[p].now] = @ + 1]
    /\ mig' = [mig EXCEPT ![p].pc = "record"]
    /\ UNCHANGED <<dir, recorded, runs, torn>>

\* ... which may fail, as one that is in effect already most often does: run() stops.
ScriptFails(p) ==
    /\ mig[p].pc = "script"
    /\ mig' = [mig EXCEPT ![p] = Resting]
    /\ UNCHANGED <<dir, effect, recorded, runs, torn>>

\* ... and its row; version is the PRIMARY KEY.
RecordVersion(p) ==
    LET v == mig[p].now IN
    /\ mig[p].pc = "record"
    /\ IF v \in recorded THEN mig' = [mig EXCEPT ![p] = Resting] /\ UNCHANGED <<recorded, torn>>
       ELSE recorded' = recorded \cup {v} /\ NextFile(p, mig[p].todo \ {v})
    /\ UNCHANGED <<dir, effect, runs>>

\* rollback(): the greatest version recorded, if there is a file that undoes it...
Rollback(p) ==
    LET last == Greatest(recorded) IN
    /\ mig[p].pc = "idle" /\ runs < MaxRuns
    /\ runs' = runs + 1
    /\ IF recorded # {} /\ last \in Reversible THEN Turn(p, "undo", {last}, last) ELSE UNCHANGED <<mig, torn>>
    /\ UNCHANGED <<dir, effect, recorded>>

Undo(p) ==
    /\ mig[p].pc = "undo"
    /\ effect' = [effect EXCEPT ![mig[p].now] = IF @ > 0 THEN @ - 1 ELSE 0]
    /\ mig' = [mig EXCEPT ![p].pc = "unrecord"]
    /\ UNCHANGED <<dir, recorded, runs, torn>>

\* ... and then its row is deleted.
Unrecord(p) ==
    /\ mig[p].pc = "unrecord"
    /\ recorded' = recorded \ {mig[p].now}
    /\ mig' = [mig EXCEPT ![p] = Resting]
    /\ UNCHANGED <<dir, effect, runs, torn>>

\* The process dies, or loses the database, and may be started again.
Die(p) ==
    /\ mig[p].pc # "idle"
    /\ torn' = IF mig[p].pc \in {"record", "unrecord"} THEN torn \cup {mig[p].now} ELSE torn
    /\ mig' = [mig EXCEPT ![p] = Resting]
    /\ UNCHANGED <<dir, effect, recorded, runs>>

MigrationNext ==
    \/ \E v \in Versions : AddFile(v)
    \/ \E p \in Migrators :
          \/ Run(p) \/ ApplyScript(p) \/ ScriptFails(p) \/ RecordVersion(p)
          \/ Rollback(p) \/ Undo(p) \/ Unrecord(p) \/ Die(p)

MigrationSpec == MigrationInit /\ [][MigrationNext]_migrationVars
------------------------------------------------------------------------------
(***************************************************************************)
(* A version is recorded exactly if its script is in effect, once, except  *)
(* between the two statements of the process at work on it, and for good   *)
(* after a process died between them or two worked on the version at once. *)
(***************************************************************************)
RecordsAreTrue ==
    \A v \in Versions \ torn :
        \/ effect[v] = IF v \in recorded THEN 1 ELSE 0
        \/ \E p \in Migrators : mig[p].now = v /\ mig[p].pc \in {"record", "unrecord"}
=============================================================================
