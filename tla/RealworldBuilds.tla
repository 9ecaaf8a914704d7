--------------------------- MODULE RealworldBuilds ---------------------------
(***************************************************************************)
(* Building real projects, one command after another: benchmark_realworld  *)
(* --check-only ("check"), benchmark_realworld ("report"), each for one    *)
(* build type, and compare_realworld_to_ref ("diff").  They share          *)
(* _build_matrix, which runs a recipe of realworld_projects.py for each    *)
(* toolchain in turn.  Between commands only files remain: downloaded      *)
(* archives, work directories and a registered worktree.  Any command of a *)
(* build may fail (Ctrl-C while it runs included), and the whole process   *)
(* may be killed, which runs no clean-up.                                  *)
(***************************************************************************)
EXTENDS Naturals, Sequences, FiniteSets, Functions

CONSTANTS
  Recipe,        \* PROJECTS: the recipe of each project
  Reps,          \* values of --reps
  StableRoots,   \* is PSYCHICSTD_REALWORLD_WORK_ROOT set? the values that happen
  PoolCommands,  \* the commands of one _timed_many
  Workers,       \* max_workers of its pool
  Torn,          \* an archive whose download stopped half-way
  Other,         \* an archive that is not what the recipe pins
  MaxCommands    \* bound: commands

Projects == DOMAIN Recipe

NonEmpty(s) == s \in Seq(Range(s)) \ {<<>>}

ASSUME BuildsAssumption ==
  /\ \A p \in Projects :
       /\ NonEmpty(Recipe[p].archives)
       /\ NonEmpty(Recipe[p].steps) /\ NonEmpty(Recipe[p].performance_steps)
  /\ Reps \subseteq Nat \ {0} /\ Workers \in Nat \ {0} /\ MaxCommands \in Nat
  /\ StableRoots \subseteq BOOLEAN
  /\ IsFiniteSet(PoolCommands) /\ PoolCommands \subseteq Nat

(***************************************************************************)
(* What the recipes must be for some of the properties                     *)
(***************************************************************************)
\* Recipes that fetch under one name pin the same content.
RecipesAgree ==
  \A p, q \in Projects :
    \A a \in Range(Recipe[p].archives), b \in Range(Recipe[q].archives) :
      a.dest = b.dest => a.sha256 = b.sha256

Timing(s) == s.op \in {"timed", "pool"}

\* Every phase that a Project says it reports is timed by one of its steps.
Reports(steps, phases) ==
  \A p \in phases : \E i \in 1..Len(steps) : Timing(steps[i]) /\ steps[i].phase = p

RecipesReport ==
  \A p \in Projects :
    /\ Reports(Recipe[p].steps, Recipe[p].phases)
    /\ Reports(Recipe[p].performance_steps, Recipe[p].performance_phases)

VARIABLES
  dl,        \* RW_DIR: contents by archive name, of the archives that exist
  dirs,      \* stable work directories: whose files each contains
  worktree,  \* is the reference's worktree registered with git?
  pc,        \* where the process is; "idle" when there is none
  stable,    \* PSYCHICSTD_REALWORLD_WORK_ROOT is set
  cmd,       \* the command: what, its project and --reps
  at,        \* the archive or step at hand
  rep, turn, \* _build_matrix: rep, and the index of the variant
  times,     \* build(): the phases it has timed
  samples,   \* _build_matrix: how many samples of each phase, by variant
  pool,      \* _timed_many: commands waiting and running, and which failed
  error,     \* the exception in flight
  commands   \* bound

files   == <<dl, dirs, worktree>>
matrix  == <<rep, turn, samples>>
config  == <<stable, cmd, commands>>
vars    == <<files, pc, config, at, matrix, times, pool, error>>

VariantsOf == [check  |-> <<"psychicstd">>,
               report |-> <<"system", "psychicstd">>,
               diff   |-> <<"system_base", "ref", "system_head", "head">>]
Variants  == VariantsOf[cmd.what]
Psychic   == {i \in DOMAIN Variants : Variants[i] \in {"psychicstd", "ref", "head"}}

Rcp    == Recipe[cmd.project]
Steps  == IF cmd.what = "diff" THEN Rcp.performance_steps ELSE Rcp.steps
Phases == IF cmd.what = "diff" THEN Rcp.performance_phases ELSE Rcp.phases

NoPool == [waiting |-> {}, running |-> {}, done |-> {}, failed |-> {}]
NoCommand == [what |-> "none", project |-> "none", reps |-> 0]

\* A file or directory, made or replaced.
Put(f, name, content) ==
  [n \in DOMAIN f \union {name} |-> IF n = name THEN content ELSE f[n]]

\* The files of the build at hand, and what is left of earlier ones.
Mine == "mine"
Left == "left"
Age(d) == [n \in DOMAIN d |-> {Left}]
Keep(d) == IF stable /\ Rcp.stable THEN Age(d) ELSE Age(Restrict(d, DOMAIN d \ {Rcp.prefix}))
Work == Rcp.prefix
Exists == Work \in DOMAIN dirs

\* An exception: it leaves by the clean-ups still to come.
Raise(what) == error' = what
NoError == error = "none"

Init ==
  /\ dl = <<>> /\ dirs = <<>> /\ worktree = FALSE
  /\ pc = "idle" /\ stable \in StableRoots /\ cmd = NoCommand /\ commands = 0
  /\ at = 0 /\ rep = 0 /\ turn = 0 /\ times = {} /\ samples = <<>>
  /\ pool = NoPool /\ error = "none"

Start(what, p, n) ==
  /\ pc = "idle" /\ commands < MaxCommands
  /\ commands' = commands + 1
  /\ cmd' = [what |-> what, project |-> p, reps |-> IF what = "check" THEN 1 ELSE n]
  /\ pc' = IF what = "diff" THEN "checkout" ELSE "runtime"
  /\ at' = 1 /\ error' = "none"
  /\ UNCHANGED <<files, stable, matrix, times, pool>>

\* git worktree add, before the try block that removes the worktree again.
Checkout ==
  /\ pc = "checkout"
  /\ \/ worktree' = TRUE /\ pc' = "runtime" /\ UNCHANGED error
     \/ Raise("command") /\ pc' = "end" /\ UNCHANGED worktree
  /\ UNCHANGED <<dl, dirs, config, at, matrix, times, pool>>

\* psy_tc builds the runtime library of each psychicstd variant before any
\* measuring; then _build_matrix makes its empty lists.
RuntimeLibrary ==
  /\ pc = "runtime"
  /\ \/ /\ at < Cardinality(Psychic) /\ at' = at + 1
        /\ UNCHANGED <<pc, matrix, error>>
     \/ /\ at = Cardinality(Psychic) /\ at' = 1 /\ pc' = "fetch"
        /\ rep' = 1 /\ turn' = 1
        /\ samples' = [v \in DOMAIN Variants |-> [p \in Phases |-> 0]]
        /\ UNCHANGED error
     \/ Raise("command") /\ pc' = "remove" /\ UNCHANGED <<at, matrix>>
  /\ UNCHANGED <<files, config, times, pool>>

\* Mutant: an archive is compared with the one that the recipe pins first.
FetchedFirst(content, a) ==
  IF content = Rcp.archives[1].sha256
  THEN /\ IF at = Len(Rcp.archives) THEN pc' = "enter" /\ at' = 1
                                    ELSE pc' = pc /\ at' = at + 1
       /\ UNCHANGED error
  ELSE Raise("sha256 mismatch") /\ pc' = "remove" /\ UNCHANGED at

\* _fetch: what exists is not downloaded again; what is there is hashed.
Fetched(content, a) ==
  IF content = a.sha256
  THEN /\ IF at = Len(Rcp.archives) THEN pc' = "enter" /\ at' = 1
                                    ELSE pc' = pc /\ at' = at + 1
       /\ UNCHANGED error
  ELSE Raise("sha256 mismatch") /\ pc' = "remove" /\ UNCHANGED at

\* Mutant: only what has just been downloaded is hashed.
FetchTrusting ==
  /\ pc = "fetch"
  /\ LET a == Rcp.archives[at] IN
     \/ a.dest \in DOMAIN dl /\ Fetched(a.sha256, a) /\ UNCHANGED dl
     \/ /\ a.dest \notin DOMAIN dl
        /\ \E content \in {a.sha256, Other} :
             dl' = Put(dl, a.dest, content) /\ Fetched(content, a)
     \/ /\ a.dest \notin DOMAIN dl
        /\ dl' \in {dl, Put(dl, a.dest, Torn)}
        /\ Raise("download") /\ pc' = "remove" /\ UNCHANGED at
  /\ UNCHANGED <<dirs, worktree, config, matrix, times, pool>>

\* Mutant: after a mismatch the file is removed and downloaded again, always.
FetchAgain ==
  /\ pc = "fetch"
  /\ LET a == Rcp.archives[at] IN
     \/ a.dest \in DOMAIN dl /\ dl[a.dest] = a.sha256 /\ Fetched(a.sha256, a) /\ UNCHANGED dl
     \/ /\ a.dest \in DOMAIN dl /\ dl[a.dest] # a.sha256
        /\ dl' = Restrict(dl, DOMAIN dl \ {a.dest}) /\ UNCHANGED <<pc, at, error>>
     \/ /\ a.dest \notin DOMAIN dl
        /\ \E content \in {a.sha256, Other} : dl' = Put(dl, a.dest, content)
        /\ UNCHANGED <<pc, at, error>>
  /\ UNCHANGED <<dirs, worktree, config, matrix, times, pool>>

Fetch ==
  /\ pc = "fetch"
  /\ LET a == Rcp.archives[at] IN
     \/ a.dest \in DOMAIN dl /\ Fetched(dl[a.dest], a) /\ UNCHANGED dl
     \/ /\ a.dest \notin DOMAIN dl
        /\ \E content \in {a.sha256, Other} :
             dl' = Put(dl, a.dest, content) /\ Fetched(content, a)
     \/ /\ a.dest \notin DOMAIN dl   \* the download raises
        /\ dl' \in {dl, Put(dl, a.dest, Torn)}
        /\ Raise("download") /\ pc' = "remove" /\ UNCHANGED at
  /\ UNCHANGED <<dirs, worktree, config, matrix, times, pool>>

\* Mutant: mkdir(exist_ok=True).
EnterExisting ==
  /\ pc = "enter"
  /\ \/ stable /\ Rcp.stable /\ Exists /\ UNCHANGED dirs
     \/ dirs' = Put(dirs, Work, {})
  /\ pc' = "unpack" /\ times' = {}
  /\ UNCHANGED <<dl, worktree, config, at, matrix, pool, error>>

\* _temporary_directory: a stable directory is removed as far as that goes and
\* made anew; without a stable root (or for tempfile's own) the name is new.
Enter ==
  /\ pc = "enter"
  /\ \/ /\ stable /\ Rcp.stable /\ Exists     \* something of it cannot be removed
        /\ Raise("FileExistsError") /\ pc' = "remove" /\ UNCHANGED dirs
     \/ dirs' = Put(dirs, Work, {}) /\ pc' = "unpack" /\ UNCHANGED error
  /\ times' = {}
  /\ UNCHANGED <<dl, worktree, config, at, matrix, pool>>

Unpack ==
  /\ pc = "unpack"
  /\ dirs' = [dirs EXCEPT ![Work] = @ \union {Mine}]
  /\ \/ pc' = "step" /\ UNCHANGED error
     \/ Raise("unpack") /\ pc' = "leave"
  /\ UNCHANGED <<dl, worktree, config, at, matrix, times, pool>>

\* The next step: an edit, a command (_run, _timed), or the pool of _timed_many.
Advance ==
  /\ at' = at + 1
  /\ pc' = IF at = Len(Steps) THEN "leave" ELSE "step"

Step ==
  /\ pc = "step" /\ Steps[at].op # "pool"
  /\ \/ /\ Advance
        /\ times' = IF Steps[at].op = "timed" THEN times \union {Steps[at].phase} ELSE times
        /\ UNCHANGED error
     \/ Raise("command") /\ pc' = "leave" /\ UNCHANGED <<at, times>>
  /\ UNCHANGED <<files, config, matrix, pool>>

PoolStart ==
  /\ pc = "step" /\ Steps[at].op = "pool"
  /\ pool' = [NoPool EXCEPT !.waiting = PoolCommands]
  /\ pc' = "pool"
  /\ UNCHANGED <<files, config, at, matrix, times, error>>

\* Workers take the commands in order and go on until pool.map is abandoned.
PoolTake(c) ==
  /\ pc \in {"pool", "shutdown"} /\ Cardinality(pool.running) < Workers
  /\ c \in pool.waiting /\ \A d \in pool.waiting : c <= d
  /\ pool' = [pool EXCEPT !.waiting = @ \ {c}, !.running = @ \union {c}]
  /\ UNCHANGED <<files, pc, config, at, matrix, times, error>>

PoolFinish(c) ==
  /\ c \in pool.running
  /\ \/ pool' = [pool EXCEPT !.running = @ \ {c}, !.done = @ \union {c}]
     \/ pool' = [pool EXCEPT !.running = @ \ {c}, !.failed = @ \union {c}]
  /\ UNCHANGED <<files, pc, config, at, matrix, times, error>>

\* The main thread reads the results in order: at the first failed one it
\* cancels what waits; leaving the with block waits for what still runs.
PoolRaise ==
  /\ pc = "pool"
  /\ \E c \in pool.failed : \A d \in PoolCommands : d < c => d \in pool.done
  /\ pool' = [pool EXCEPT !.waiting = {}]
  /\ Raise("pool") /\ pc' = "shutdown"
  /\ UNCHANGED <<files, config, at, matrix, times>>

\* Mutant: shutdown(wait=False).
PoolShutdownEarly ==
  /\ \/ pc = "shutdown" /\ pc' = "leave" /\ UNCHANGED <<at, times, pool>>
     \/ /\ pc = "pool" /\ pool.done = PoolCommands /\ pool' = NoPool
        /\ times' = times \union {Steps[at].phase} /\ Advance
  /\ UNCHANGED <<files, config, matrix, error>>

PoolShutdown ==
  /\ pool.running = {}
  /\ \/ pc = "shutdown" /\ pc' = "leave" /\ UNCHANGED <<at, times>>
     \/ /\ pc = "pool" /\ pool.done = PoolCommands
        /\ times' = times \union {Steps[at].phase} /\ Advance
  /\ pool' = NoPool
  /\ UNCHANGED <<files, config, matrix, error>>

\* The end of the with block: the directory is removed.  When that fails, part
\* of it stays; the error is raised (in place of another one) unless ignored.
Leave ==
  /\ pc = "leave"
  /\ \/ dirs' = Restrict(dirs, DOMAIN dirs \ {Work}) /\ UNCHANGED error
     \/ /\ UNCHANGED dirs
        /\ IF Rcp.ignore_cleanup_errors THEN UNCHANGED error ELSE Raise("OSError")
  /\ pc' = IF error' = "none" THEN "collect" ELSE "remove"
  /\ UNCHANGED <<dl, worktree, config, at, matrix, times, pool>>

\* Mutant: one variant's repetitions are all measured before the next variant.
CollectOneByOne ==
  /\ pc = "collect"
  /\ IF Phases \subseteq times
     THEN /\ samples' = [samples EXCEPT ![turn] = [p \in Phases |-> @[p] + 1]]
          /\ at' = 1 /\ UNCHANGED error
          /\ IF rep < cmd.reps THEN pc' = "fetch" /\ turn' = turn /\ rep' = rep + 1
             ELSE IF turn < Len(Variants) THEN pc' = "fetch" /\ turn' = turn + 1 /\ rep' = 1
             ELSE pc' = "remove" /\ UNCHANGED <<turn, rep>>
     ELSE Raise("KeyError") /\ pc' = "remove" /\ UNCHANGED <<samples, at, turn, rep>>
  /\ dirs' = Age(dirs)
  /\ UNCHANGED <<dl, worktree, config, times, pool>>

\* _build_matrix: one sample of each phase; then the next variant, or repetition.
Collect ==
  /\ pc = "collect"
  /\ IF Phases \subseteq times
     THEN /\ samples' = [samples EXCEPT ![turn] = [p \in Phases |-> @[p] + 1]]
          /\ at' = 1 /\ UNCHANGED error
          /\ IF turn < Len(Variants) THEN pc' = "fetch" /\ turn' = turn + 1 /\ rep' = rep
             ELSE IF rep < cmd.reps THEN pc' = "fetch" /\ turn' = 1 /\ rep' = rep + 1
             ELSE pc' = "remove" /\ UNCHANGED <<turn, rep>>
     ELSE Raise("KeyError") /\ pc' = "remove" /\ UNCHANGED <<samples, at, turn, rep>>
  /\ dirs' = Age(dirs)
  /\ UNCHANGED <<dl, worktree, config, times, pool>>

\* finally: git worktree remove --force, whose failure is not looked at.
RemoveWorktree ==
  /\ pc = "remove" /\ pc' = "end"
  /\ worktree' \in IF cmd.what = "diff" THEN {FALSE, worktree} ELSE {worktree}
  /\ UNCHANGED <<dl, dirs, config, at, matrix, times, pool, error>>

Forget ==
  /\ pc' = "idle" /\ cmd' = NoCommand /\ at' = 0 /\ rep' = 0 /\ turn' = 0
  /\ times' = {} /\ samples' = <<>> /\ pool' = NoPool /\ error' = "none"
  /\ dirs' = Keep(dirs)

\* The report is printed from complete samples, or the exception ends main.
End ==
  /\ pc = "end" /\ Forget
  /\ UNCHANGED <<dl, worktree, stable, commands>>

Kill ==
  /\ pc # "idle" /\ Forget
  /\ \/ UNCHANGED dl
     \/ /\ pc = "fetch" /\ Rcp.archives[at].dest \notin DOMAIN dl
        /\ dl' = Put(dl, Rcp.archives[at].dest, Torn)
  /\ worktree' \in IF pc = "checkout" THEN BOOLEAN ELSE {worktree}
  /\ UNCHANGED <<stable, commands>>

Run ==
  \/ Checkout \/ RuntimeLibrary \/ Fetch \/ Enter \/ Unpack \/ Step
  \/ PoolStart \/ PoolRaise \/ PoolShutdown \/ Leave \/ Collect
  \/ RemoveWorktree \/ End
  \/ \E c \in PoolCommands : PoolTake(c) \/ PoolFinish(c)

Next ==
  \/ \E what \in DOMAIN VariantsOf, p \in Projects, n \in Reps : Start(what, p, n)
  \/ Run
  \/ Kill

\* A process that is not killed goes on, and the commands it waits for end.
Spec == Init /\ [][Next]_vars /\ WF_vars(Run)

(***************************************************************************)
(* Properties                                                              *)
(***************************************************************************)
Building == pc \in {"unpack", "step", "pool", "shutdown"}

\* A command stops at a checksum only when the file it found is no recipe's: it
\* was served wrong or torn by an earlier death.  Recipes that fetch under one
\* name (two variants of a project, GoogleTest, Boost, Zancle) never make each
\* other fail, in whatever order they first run (_fetch keeps what exists).
RefusedOnlyWhenBad ==
  error = "sha256 mismatch" =>
    \E a \in Range(Rcp.archives) : a.dest \in DOMAIN dl /\ dl[a.dest] \in {Torn, Other}

\* Whatever earlier commands and deaths left in RW_DIR, a build works on archives
\* that are all exactly what its recipe pins.
BuildsWhatIsPinned ==
  Building => \A a \in Range(Rcp.archives) : a.dest \in DOMAIN dl /\ dl[a.dest] = a.sha256

\* Every step works in a tree of this build's files alone: variants and commands
\* that share a stable path never see each other's objects or edits.
OwnTreeOnly ==
  Building /\ pc # "unpack" => Exists /\ dirs[Work] = {Mine}

\* No command of a pool outlives its phase: none runs when the tree is removed,
\* the next variant is built or the process ends by itself.
PoolInsideTree ==
  pool.running # {} => pc \in {"pool", "shutdown"} /\ Exists

\* The variants are measured in turns: their sample counts never differ by more
\* than one, and what is reported has --reps samples of each phase of each
\* variant; no recipe lacks a phase that its Project says it reports.
SamplesBalanced ==
  /\ error # "KeyError"
  /\ \A v, w \in DOMAIN samples : \A p \in Phases : samples[v][p] <= samples[w][p] + 1
  /\ pc = "end" /\ NoError =>
       \A v \in DOMAIN Variants : samples[v] = [p \in Phases |-> cmd.reps]

\* A command that is not killed ends, however its pool's commands fail.
CommandEnds == pc # "idle" ~> pc = "idle"
===============================================================================
