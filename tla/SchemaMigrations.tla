-------------------------- MODULE SchemaMigrations --------------------------
(***************************************************************************)
(* Migrations of the schema: MigrationRunner.apply (Database/migrations.py) *)
(* over the transactions of SQLiteDatabase (Database/sqlite_database.py),   *)
(* as init (Core/init_command.py) and the run_*_migrations scripts          *)
(* (Database/migration_cli_helper.py) call it.                              *)
(*                                                                          *)
(* Every command is a process with a connection of its own. In an exclusive *)
(* transaction it works on an image of the database that only COMMIT makes  *)
(* visible. The table schema_migrations, which ensure_bootstrap_schema      *)
(* creates if it is missing, is taken as there. A savepoint is not modelled *)
(* by itself: whatever is rolled back to one raises, and the whole          *)
(* transaction is rolled back next.                                         *)
(***************************************************************************)
EXTENDS Naturals

CONSTANTS
  Installers,   \* processes that run init or a script
  Versions,     \* the versions of the migrations
  Statements,   \* how many statements each has, its version row not counted
  MigrationPlans,        \* what a command passes to apply: all of init, or one domain
  InitPlan,     \* what init passes
  MaxCommands,  \* bound on commands
  MaxFaults,    \* bound on statements that fail
  MaxDeaths     \* bound on processes that die

ASSUME MigrationAssumption ==
  /\ Versions \subseteq Nat
  /\ Statements \in [Versions -> Nat]
  /\ MigrationPlans \subseteq SUBSET Versions
  /\ {MaxCommands, MaxFaults, MaxDeaths} \subseteq Nat

VARIABLES
  schema,         \* what is committed
  exclusive,      \* the processes in an exclusive transaction
  paper_account,  \* the commands that created the default account
  installer,      \* what each process is doing
  batches,        \* history: what each command found pending under the lock
  commands, faults, deaths

migrationCounts == <<commands, faults, deaths>>
migrationVars ==
  <<schema, exclusive, paper_account, installer, batches, migrationCounts>>

Commands == 1 .. MaxCommands

\* An image of the database: how many statements of each migration have run,
\* and the rows of schema_migrations with the command that inserted them.
Image == [ran : [Versions -> Nat], rows : SUBSET (Versions \X Commands)]

Applied(image) == {row[1] : row \in image.rows}

Empty == [ran |-> [v \in Versions |-> 0], rows |-> {}]

\* The local variables of a command.
Off == [pc |-> "off"]

Working ==
  [pc : {"before", "check", "begin", "pending", "next", "statement", "undo",
         "raised", "seek", "seed", "close"},
   command : Commands, plan : MigrationPlans, before : SUBSET Versions,
   pending : SUBSET Versions, version : Versions \cup {0}, left : Nat,
   image : Image,
   result : {"", "applied", "rolled back", "blocked", "raised", "failed"}]

MigrationTypeOK ==
  /\ schema \in Image
  /\ exclusive \subseteq Installers
  /\ paper_account \subseteq Commands
  /\ installer \in [Installers -> {Off} \cup Working]
  /\ batches \in [Commands -> SUBSET Versions]
  /\ commands \in 0 .. MaxCommands
  /\ faults \in 0 .. MaxFaults /\ deaths \in 0 .. MaxDeaths

MigrationInit ==
  /\ schema = Empty
  /\ exclusive = {} /\ paper_account = {}
  /\ installer = [p \in Installers |-> Off]
  /\ batches = [c \in Commands |-> {}]
  /\ commands = 0 /\ faults = 0 /\ deaths = 0

In(p, pc) == installer[p].pc = pc

Becomes(p, state) == installer' = [installer EXCEPT ![p] = state]

MovesTo(p, pc) == Becomes(p, [installer[p] EXCEPT !.pc = pc])

Ends(p, result) ==
  Becomes(p, [installer[p] EXCEPT !.pc = "close", !.result = result])

RunsInit(p) == installer[p].plan = InitPlan

\* What a connection reads: its own transaction, or what is committed.
Visible(p) == IF p \in exclusive THEN installer[p].image ELSE schema

AFault == faults < MaxFaults /\ faults' = faults + 1

(***************************************************************************)
(* A command and its report                                                *)
(***************************************************************************)
StartCommand(p, plan) ==
  /\ In(p, "off")
  /\ commands < MaxCommands
  /\ commands' = commands + 1
  /\ Becomes(p, [pc |-> IF plan = InitPlan THEN "before" ELSE "check",
                 command |-> commands', plan |-> plan, before |-> {},
                 pending |-> {}, version |-> 0, left |-> 0, image |-> Empty,
                 result |-> ""])
  /\ UNCHANGED <<schema, exclusive, paper_account, batches, faults, deaths>>

\* init looks at the versions before and, if apply raised, after.
ReadBefore(p) ==
  /\ In(p, "before")
  /\ Becomes(p, [installer[p] EXCEPT !.pc = "check",
                                     !.before = Applied(Visible(p))])
  /\ UNCHANGED <<schema, exclusive, paper_account, batches, migrationCounts>>

ReadAfter(p) ==
  /\ In(p, "raised")
  /\ Ends(p, IF ~RunsInit(p) THEN "raised"
             ELSE IF Applied(Visible(p)) = installer[p].before
                  THEN "rolled back" ELSE "blocked")
  /\ UNCHANGED <<schema, exclusive, paper_account, batches, migrationCounts>>

Succeed(p) == IF RunsInit(p) THEN MovesTo(p, "seek") ELSE Ends(p, "applied")

\* Closing a connection rolls back what it has not committed.
Disconnect(p) ==
  /\ In(p, "close")
  /\ exclusive' = exclusive \ {p}
  /\ Becomes(p, Off)
  /\ UNCHANGED <<schema, paper_account, batches, migrationCounts>>

ProcessDies(p) ==
  /\ ~In(p, "off")
  /\ deaths < MaxDeaths
  /\ deaths' = deaths + 1
  /\ exclusive' = exclusive \ {p}
  /\ Becomes(p, Off)
  /\ UNCHANGED <<schema, paper_account, batches, commands, faults>>

(***************************************************************************)
(* ensure_default_paper_account                                            *)
(***************************************************************************)
SeekAccount(p) ==
  /\ In(p, "seek")
  /\ IF paper_account = {} THEN MovesTo(p, "seed") ELSE Ends(p, "applied")
  /\ UNCHANGED <<schema, exclusive, paper_account, batches, migrationCounts>>

\* account_id is the primary key; a row cannot be inserted past a lock.
SeedAccount(p) ==
  /\ In(p, "seed")
  /\ IF paper_account = {} /\ exclusive = {}
     THEN paper_account' = {installer[p].command} /\ Ends(p, "applied")
     ELSE Ends(p, "failed") /\ UNCHANGED paper_account
  /\ UNCHANGED <<schema, exclusive, batches, migrationCounts>>

(***************************************************************************)
(* apply                                                                   *)
(***************************************************************************)
CheckPending(p) ==
  /\ In(p, "check")
  /\ IF installer[p].plan \subseteq Applied(schema)
     THEN Succeed(p)
     ELSE MovesTo(p, "begin")
  /\ UNCHANGED <<schema, exclusive, paper_account, batches, migrationCounts>>

\* BEGIN EXCLUSIVE waits for the lock, or gives up.
BeginExclusive(p) ==
  /\ In(p, "begin")
  /\ exclusive = {}
  /\ exclusive' = {p}
  /\ Becomes(p, [installer[p] EXCEPT !.pc = "pending", !.image = schema])
  /\ UNCHANGED <<schema, paper_account, batches, migrationCounts>>

BeginTimesOut(p) ==
  /\ In(p, "begin")
  /\ exclusive # {}
  /\ MovesTo(p, "raised")
  /\ UNCHANGED <<schema, exclusive, paper_account, batches, migrationCounts>>

ReadPending(p) ==
  LET me    == installer[p]
      found == me.plan \ Applied(me.image)
  IN  /\ In(p, "pending")
      /\ Becomes(p, [me EXCEPT !.pc = "next", !.pending = found])
      /\ batches' = [batches EXCEPT ![me.command] = found]
      /\ UNCHANGED <<schema, exclusive, paper_account, migrationCounts>>

\* The pending migrations in the order of their versions.
NextMigration(p, v) ==
  /\ In(p, "next")
  /\ v \in installer[p].pending
  /\ \A w \in installer[p].pending : v <= w
  /\ Becomes(p, [installer[p] EXCEPT !.pc = "statement", !.version = v,
                                     !.left = Statements[v]])
  /\ UNCHANGED <<schema, exclusive, paper_account, batches, migrationCounts>>

RunStatement(p) ==
  LET v == installer[p].version
  IN  /\ In(p, "statement")
      /\ installer[p].left > 0
      /\ Becomes(p, [installer[p] EXCEPT !.left = @ - 1,
                                         !.image.ran[v] = @ + 1])
      /\ UNCHANGED <<schema, exclusive, paper_account, batches, migrationCounts>>

\* The version row, which is refused when the version has one, and RELEASE.
InsertVersion(p) ==
  LET me == installer[p]
      v  == me.version
  IN  /\ In(p, "statement")
      /\ me.left = 0
      /\ IF v \in Applied(me.image) THEN MovesTo(p, "undo")
         ELSE Becomes(p, [me EXCEPT !.pc = "next",
                !.pending = @ \ {v},
                !.image.rows = @ \cup {<<v, me.command>>}])
      /\ UNCHANGED <<schema, exclusive, paper_account, batches, migrationCounts>>

Commit(p) ==
  /\ In(p, "next")
  /\ installer[p].pending = {}
  /\ schema' = installer[p].image
  /\ exclusive' = exclusive \ {p}
  /\ Succeed(p)
  /\ UNCHANGED <<paper_account, batches, migrationCounts>>

\* Mutant: the batch is not atomic, only the migration that failed is undone.
UndoMigration(p) ==
  LET me == installer[p]
  IN  /\ In(p, "undo")
      /\ schema' = IF me.version = 0 THEN schema
                   ELSE [me.image EXCEPT !.ran[me.version] =
                                            schema.ran[me.version]]
      /\ exclusive' = exclusive \ {p}
      /\ MovesTo(p, "raised")
      /\ UNCHANGED <<paper_account, batches, migrationCounts>>

\* Both rollbacks, to the savepoint and of the transaction.
Undo(p) ==
  /\ In(p, "undo")
  /\ exclusive' = exclusive \ {p}
  /\ MovesTo(p, "raised")
  /\ UNCHANGED <<schema, paper_account, batches, migrationCounts>>

(***************************************************************************)
(* Statements that fail                                                    *)
(***************************************************************************)
StatementFails(p) ==
  /\ AFault
  /\ \/ In(p, "check") /\ MovesTo(p, "raised")
     \/ (In(p, "pending") \/ In(p, "statement")) /\ MovesTo(p, "undo")
     \/ In(p, "next") /\ installer[p].pending # {} /\ MovesTo(p, "undo")
     \/ /\ In(p, "before") \/ In(p, "seek") \/ In(p, "seed")
        /\ Ends(p, "failed")
     \/ In(p, "raised") /\ RunsInit(p) /\ Ends(p, "failed")
  /\ UNCHANGED <<schema, exclusive, paper_account, batches, commands, deaths>>

\* commit() has forgotten the transaction before COMMIT fails, so that the
\* rollback() after it finds none; rollback() swallows its own failure. Either
\* way the connection may stay in the transaction until it is closed.
EndFails(p) ==
  /\ AFault
  /\ In(p, "undo") \/ (In(p, "next") /\ installer[p].pending = {})
  /\ exclusive' \in {exclusive, exclusive \ {p}}
  /\ MovesTo(p, "raised")
  /\ UNCHANGED <<schema, paper_account, batches, commands, deaths>>

Command(p) ==
  \/ \E plan \in MigrationPlans : StartCommand(p, plan)
  \/ ReadBefore(p) \/ ReadAfter(p) \/ SeekAccount(p) \/ SeedAccount(p)
  \/ CheckPending(p) \/ BeginExclusive(p) \/ BeginTimesOut(p) \/ ReadPending(p)
  \/ \E v \in Versions : NextMigration(p, v)
  \/ RunStatement(p) \/ InsertVersion(p) \/ Commit(p) \/ Undo(p)
  \/ StatementFails(p) \/ EndFails(p) \/ Disconnect(p) \/ ProcessDies(p)

MigrationNext == \E p \in Installers : Command(p)

MigrationSpec == MigrationInit /\ [][MigrationNext]_migrationVars

(***************************************************************************)
(* Properties                                                              *)
(***************************************************************************)
ByCommand(c) == {row[1] : row \in {r \in schema.rows : r[2] = c}}

\* The schema is what schema_migrations says: every recorded migration has run
\* once and completely, no other one has run at all.
VersionsAreTrue ==
  /\ \A v \in Versions :
       schema.ran[v] = IF v \in Applied(schema) THEN Statements[v] ELSE 0
  /\ \A r, s \in schema.rows : r[1] = s[1] => r = s

\* A command that reports an error of apply has applied nothing, one that ends
\* well leaves its plan applied.
ResultTrue(p) ==
  LET me == installer[p]
  IN  In(p, "close") =>
        /\ me.result \in {"raised", "rolled back", "blocked"} =>
             ByCommand(me.command) = {}
        /\ me.result = "applied" => me.plan \subseteq Applied(schema)

\* All that a command found pending is applied by it, or nothing, as it reports.
BatchesAreAtomic ==
  /\ \A c \in Commands : ByCommand(c) \in {{}, batches[c]}
  /\ \A p \in Installers : ResultTrue(p)

\* However commands race, fail and die, the schema is whole.
SchemaIsWhole == VersionsAreTrue /\ BatchesAreAtomic

(***************************************************************************)
(* The inductive invariant                                                 *)
(***************************************************************************)
Locked == {"pending", "next", "statement", "undo"}

Uncommitted == {"before", "check", "begin", "raised"} \cup Locked

\* The image of a process is what is committed, with the migrations it has
\* applied so far and a part of the one under way.
OwnImage(p) ==
  LET me   == installer[p]
      done == batches[me.command] \ me.pending
  IN  /\ me.pending \subseteq batches[me.command]
      /\ batches[me.command] = me.plan \ Applied(schema)
      /\ me.image.rows = schema.rows \cup (done \X {me.command})
      /\ \A v \in Versions :
           me.image.ran[v] =
             IF v \in Applied(schema) \cup done THEN Statements[v]
             ELSE IF me.pc = "statement" /\ v = me.version
                  THEN Statements[v] - me.left
                  ELSE 0

InstallerOK(p) ==
  LET me == installer[p]
  IN  me.pc # "off" =>
        /\ me.command <= commands
        /\ me.pc \in Uncommitted => ByCommand(me.command) = {}
        /\ me.pc \in Locked => p \in exclusive
        /\ me.pc = "pending" => me.image = schema
        /\ me.pc \in {"next", "statement"} => OwnImage(p)
        /\ me.pc = "statement" =>
             me.version \in me.pending /\ me.left <= Statements[me.version]
        /\ me.pc \in {"seek", "seed"} => me.plan \subseteq Applied(schema)

\* A command has one process, and nothing to its name before it starts.
CommandsOK ==
  /\ \A p, q \in Installers :
       /\ installer[p].pc # "off" /\ installer[q].pc # "off"
       /\ installer[p].command = installer[q].command
       => p = q
  /\ \A c \in Commands : c > commands => ByCommand(c) = {}

SchemaInv ==
  /\ MigrationTypeOK
  /\ SchemaIsWhole
  /\ \A p, q \in exclusive : p = q
  /\ CommandsOK
  /\ \A p \in Installers : InstallerOK(p)
=============================================================================
