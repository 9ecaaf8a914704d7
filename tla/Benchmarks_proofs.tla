--------------------------- MODULE Benchmarks_proofs ---------------------------
(***************************************************************************)
(* Theorems about the two levels of the benchmarks, which MCBenchmarks     *)
(* checks.                                                                 *)
(*                                                                         *)
(* RealworldBuilds, for any recipes, repetitions, pools and number of      *)
(* commands: builds work in trees of their own, on the archives they pin,  *)
(* their pools end before their trees do, and whether a command can be     *)
(* refused or report unequal samples depends on two conditions that the    *)
(* recipes can be checked for once (RecipesAgree, RecipesReport).          *)
(*                                                                         *)
(* BenchmarkReports and the plan it makes, for any number of projects,     *)
(* costs, budget, max_reps and runs: the plan keeps to the budget and      *)
(* shares it equally, what README.md says after a run that succeeded, and  *)
(* that a command which failed before writing it did not touch it.         *)
(***************************************************************************)
EXTENDS RealworldBuilds, BudgetPlan, Readme, FiniteSetTheorems, WellFoundedInduction, TLAPS

CONSTANT MaxRuns

VARIABLES report, compile_time, startup, doing, todo

B == INSTANCE BenchmarkReports

(***************************************************************************)
(* The command                                                             *)
(***************************************************************************)
Commands == [what : {"check", "report", "diff"}, project : Projects, reps : Nat \ {0}]

Places ==
  {"idle", "checkout", "runtime", "fetch", "enter", "unpack", "step", "pool", "shutdown",
   "leave", "collect", "remove", "end"}

CmdInv == pc \in Places /\ (pc # "idle" => cmd \in Commands)

LEMMA CmdInitially == Init => CmdInv
  BY DEF Init, CmdInv, Places

\* Only Start and Forget choose a command, and nothing else goes to or from "idle".
LEMMA CmdKept == CmdInv /\ [Next]_vars => CmdInv'
<1> SUFFICES ASSUME CmdInv, [Next]_vars PROVE CmdInv'
  OBVIOUS
<1> USE DEF CmdInv, Places
<1>1. ASSUME NEW what \in DOMAIN VariantsOf, NEW p \in Projects, NEW n \in Reps, Start(what, p, n)
      PROVE  CmdInv'
  BY <1>1, BuildsAssumption DEF Start, Commands, VariantsOf
<1>2. CASE Kill
  BY <1>2 DEF Kill, Forget
<1>3. CASE End
  BY <1>3 DEF End, Forget
<1>4. CASE Checkout \/ RuntimeLibrary \/ Fetch \/ Enter \/ Unpack \/ Step
  BY <1>4 DEF Checkout, RuntimeLibrary, Fetch, Fetched, Enter, Unpack, Step, Advance, config
<1>5. CASE PoolStart \/ PoolRaise \/ PoolShutdown \/ Leave \/ Collect \/ RemoveWorktree
  BY <1>5 DEF PoolStart, PoolRaise, PoolShutdown, Advance, Leave, Collect, RemoveWorktree, config
<1>6. ASSUME NEW c \in PoolCommands, PoolTake(c) \/ PoolFinish(c) PROVE CmdInv'
  BY <1>6 DEF PoolTake, PoolFinish, config
<1>7. CASE UNCHANGED vars
  BY <1>7 DEF vars, config
<1> QED
  BY <1>1, <1>2, <1>3, <1>4, <1>5, <1>6, <1>7 DEF Next, Run

LEMMA Command == CmdInv /\ pc # "idle" =>
  /\ cmd.project \in Projects /\ cmd.reps \in Nat \ {0}
  /\ cmd.what \in {"check", "report", "diff"}
  BY DEF CmdInv, Commands

(***************************************************************************)
(* The tree of a build, and its pool                                       *)
(***************************************************************************)
TreeInv ==
  /\ pc = "unpack" => Exists /\ dirs[Work] = {}
  /\ pc \in {"step", "pool", "shutdown"} => Exists /\ dirs[Work] = {Mine}

LEMMA TreeInitially == Init => TreeInv
  BY DEF Init, TreeInv

\* A build enters its tree by making it and fills it by unpacking; nothing else
\* touches the work directories earlier it leaves.
LEMMA TreeKept == TreeInv /\ [Next]_vars => TreeInv'
<1> SUFFICES ASSUME TreeInv, [Next]_vars PROVE TreeInv'
  OBVIOUS
<1> USE DEF TreeInv, Exists, Work, Rcp
<1>1. ASSUME NEW what \in DOMAIN VariantsOf, NEW p \in Projects, NEW n \in Reps, Start(what, p, n)
      PROVE  TreeInv'
  BY <1>1 DEF Start
<1>2. CASE Kill
  BY <1>2 DEF Kill, Forget
<1>3. CASE End
  BY <1>3 DEF End, Forget
<1>4. CASE Checkout \/ RuntimeLibrary
  BY <1>4 DEF Checkout, RuntimeLibrary
<1>5. CASE Fetch
  <2>1. pc' # "unpack" /\ pc' \notin {"step", "pool", "shutdown"}
    BY <1>5 DEF Fetch, Fetched
  <2> QED
    BY <2>1
<1>6. CASE Enter
  <2>1. CASE pc' = "unpack"
    <3>1. dirs' = Put(dirs, Work, {}) /\ cmd' = cmd
      BY <1>6, <2>1 DEF Enter, config
    <3>2. Work \in DOMAIN dirs' /\ dirs'[Work] = {}
      BY <3>1 DEF Put
    <3> QED
      BY <2>1, <3>1, <3>2
  <2>2. CASE pc' = "remove"
    BY <2>2
  <2> QED
    BY <1>6, <2>1, <2>2 DEF Enter
<1>7. CASE Unpack
  <2>1. /\ Exists /\ dirs[Work] = {} /\ cmd' = cmd
        /\ dirs' = [dirs EXCEPT ![Work] = @ \union {Mine}]
        /\ pc' \in {"step", "leave"}
    BY <1>7 DEF Unpack, config
  <2>2. dirs'[Work] = {Mine} /\ Work \in DOMAIN dirs'
    BY <2>1
  <2> QED
    BY <2>1, <2>2
<1>8. CASE Step \/ PoolStart
  BY <1>8 DEF Step, PoolStart, Advance, files, config
<1>9. CASE PoolRaise \/ PoolShutdown
  BY <1>9 DEF PoolRaise, PoolShutdown, Advance, files, config
<1>10. CASE Leave \/ Collect \/ RemoveWorktree
  BY <1>10 DEF Leave, Collect, RemoveWorktree
<1>11. ASSUME NEW c \in PoolCommands, PoolTake(c) \/ PoolFinish(c) PROVE TreeInv'
  BY <1>11 DEF PoolTake, PoolFinish, files, config
<1>12. CASE UNCHANGED vars
  BY <1>12 DEF vars, files, config
<1> QED
  BY <1>1, <1>2, <1>3, <1>4, <1>5, <1>6, <1>7, <1>8, <1>9, <1>10, <1>11, <1>12 DEF Next, Run

\* Every step of a build works in a tree of this build's files alone, whatever
\* earlier builds left under the same path (_temporary_directory).
THEOREM TreesAreOwn == Spec => []OwnTreeOnly
<1>1. TreeInv => OwnTreeOnly
  BY DEF TreeInv, OwnTreeOnly, Building
<1> QED
  BY <1>1, TreeInitially, TreeKept, PTL DEF Spec

PoolInv == pc \notin {"pool", "shutdown"} => pool.running = {}

LEMMA PoolInitially == Init => PoolInv
  BY DEF Init, PoolInv, NoPool

\* A pool's commands run only between PoolStart and PoolShutdown, which waits for them.
LEMMA PoolKept == PoolInv /\ [Next]_vars => PoolInv'
<1> SUFFICES ASSUME PoolInv, [Next]_vars PROVE PoolInv'
  OBVIOUS
<1> USE DEF PoolInv
<1>1. ASSUME NEW what \in DOMAIN VariantsOf, NEW p \in Projects, NEW n \in Reps, Start(what, p, n)
      PROVE  PoolInv'
  BY <1>1 DEF Start
<1>2. CASE Kill \/ End
  BY <1>2 DEF Kill, End, Forget, NoPool
<1>3. CASE Checkout \/ RuntimeLibrary \/ Enter \/ Unpack
  BY <1>3 DEF Checkout, RuntimeLibrary, Enter, Unpack
<1>4. CASE Fetch
  BY <1>4 DEF Fetch
<1>5. CASE Step
  BY <1>5 DEF Step
<1>6. CASE PoolStart \/ PoolRaise
  BY <1>6 DEF PoolStart, PoolRaise
<1>7. CASE PoolShutdown
  BY <1>7 DEF PoolShutdown, NoPool
<1>8. CASE Leave \/ Collect \/ RemoveWorktree
  BY <1>8 DEF Leave, Collect, RemoveWorktree
<1>9. ASSUME NEW c \in PoolCommands, PoolTake(c) PROVE PoolInv'
  BY <1>9 DEF PoolTake
<1>10. ASSUME NEW c \in PoolCommands, PoolFinish(c) PROVE PoolInv'
  <2>1. pool.running # {} /\ pc' = pc
    BY <1>10 DEF PoolFinish
  <2> QED
    BY <2>1
<1>11. CASE UNCHANGED vars
  BY <1>11 DEF vars
<1> QED
  BY <1>1, <1>2, <1>3, <1>4, <1>5, <1>6, <1>7, <1>8, <1>9, <1>10, <1>11 DEF Next, Run

\* No command of a _timed_many outlives its phase or its tree, also when one fails.
THEOREM PoolsStayInside == Spec => []PoolInsideTree
<1>1. TreeInv /\ PoolInv => PoolInsideTree
  BY DEF TreeInv, PoolInv, PoolInsideTree
<1>2. Init => TreeInv /\ PoolInv
  BY TreeInitially, PoolInitially
<1>3. TreeInv /\ PoolInv /\ [Next]_vars => (TreeInv /\ PoolInv)'
  BY TreeKept, PoolKept
<1> QED
  BY <1>1, <1>2, <1>3, PTL DEF Spec

(***************************************************************************)
(* The archives                                                            *)
(***************************************************************************)
\* The first k archives of the recipe are there and are what it pins.
Have(k) ==
  \A i \in 1..k : /\ Rcp.archives[i].dest \in DOMAIN dl
                  /\ dl[Rcp.archives[i].dest] = Rcp.archives[i].sha256

FetchInv ==
  /\ pc = "fetch" => at \in 1..Len(Rcp.archives) /\ Have(at - 1)
  /\ pc = "enter" \/ Building => Have(Len(Rcp.archives))

LEMMA FetchInitially == Init => FetchInv
  BY DEF Init, FetchInv, Building

LEMMA ArchivesAreSome ==
  CmdInv /\ pc # "idle" => Rcp.archives \in Seq(Range(Rcp.archives)) /\ Len(Rcp.archives) \in Nat \ {0}
<1> SUFFICES ASSUME CmdInv, pc # "idle"
             PROVE  Rcp.archives \in Seq(Range(Rcp.archives)) /\ Len(Rcp.archives) \in Nat \ {0}
  OBVIOUS
<1> DEFINE s == Rcp.archives
<1>1. s \in Seq(Range(s)) /\ s # <<>>
  BY Command, BuildsAssumption DEF NonEmpty, Rcp
<1> HIDE DEF s
<1>2. s \in Seq(Range(s)) /\ Len(s) \in Nat \ {0}
  BY <1>1
<1> QED
  BY <1>2 DEF s

\* A file that is there stays, and what is fetched joins the archives earlier it.
LEMMA FetchStep == CmdInv /\ FetchInv /\ Fetch => FetchInv'
<1> SUFFICES ASSUME CmdInv, FetchInv, Fetch PROVE FetchInv'
  OBVIOUS
<1> DEFINE a == Rcp.archives[at]  n == Len(Rcp.archives)
<1>1. /\ pc = "fetch" /\ at \in 1..n /\ n \in Nat \ {0} /\ Have(at - 1)
      /\ cmd' = cmd /\ Rcp' = Rcp
  BY ArchivesAreSome DEF Fetch, FetchInv, config, Rcp
<1>2. CASE pc' = "remove"
  BY <1>2 DEF FetchInv, Building
<1>3. CASE pc' # "remove"
  <2>1. /\ a.dest \in DOMAIN dl' /\ dl'[a.dest] = a.sha256
        /\ \A d \in DOMAIN dl : d \in DOMAIN dl' /\ dl'[d] = dl[d]
        /\ \/ at = n /\ pc' = "enter" /\ at' = 1
           \/ at # n /\ pc' = "fetch" /\ at' = at + 1
    BY <1>1, <1>3 DEF Fetch, Fetched, Put, Raise
  <2>2. \A i \in 1..at : /\ Rcp.archives[i].dest \in DOMAIN dl'
                         /\ dl'[Rcp.archives[i].dest] = Rcp.archives[i].sha256
    <3> TAKE i \in 1..at
    <3>1. CASE i = at
      BY <2>1, <3>1
    <3>2. CASE i # at
      <4>1. i \in 1..(at - 1)
        BY <1>1, <3>2
      <4> QED
        BY <1>1, <2>1, <4>1 DEF Have
    <3> QED
      BY <3>1, <3>2
  <2>3. CASE at = n
    BY <1>1, <2>1, <2>2, <2>3 DEF FetchInv, Have, Building
  <2>4. CASE at # n
    <3>1. at' \in 1..n /\ at' - 1 = at
      BY <1>1, <2>1, <2>4
    <3> QED
      BY <1>1, <2>1, <2>2, <2>4, <3>1 DEF FetchInv, Have, Building
  <2> QED
    BY <2>3, <2>4
<1> QED
  BY <1>2, <1>3

LEMMA FetchKept == CmdInv /\ FetchInv /\ [Next]_vars => FetchInv'
<1> SUFFICES ASSUME CmdInv, FetchInv, [Next]_vars PROVE FetchInv'
  OBVIOUS
<1> USE DEF FetchInv, Have, Building, Rcp
<1>1. ASSUME NEW what \in DOMAIN VariantsOf, NEW p \in Projects, NEW n \in Reps, Start(what, p, n)
      PROVE  FetchInv'
  BY <1>1 DEF Start
<1>2. CASE Kill \/ End
  BY <1>2 DEF Kill, End, Forget
<1>3. CASE Fetch
  BY <1>3, FetchStep
<1>4. CASE RuntimeLibrary
  <2>1. CASE pc' = "fetch"
    <3>1. at' = 1 /\ cmd' = cmd /\ pc = "runtime"
      BY <1>4, <2>1 DEF RuntimeLibrary, config
    <3>2. Len(Rcp.archives) \in Nat \ {0}
      BY <3>1, ArchivesAreSome
    <3> QED
      BY <2>1, <3>1, <3>2
  <2>2. CASE pc' # "fetch"
    BY <1>4, <2>2 DEF RuntimeLibrary
  <2> QED
    BY <2>1, <2>2
<1>5. CASE Collect
  <2>1. CASE pc' = "fetch"
    <3>1. at' = 1 /\ cmd' = cmd /\ pc = "collect"
      BY <1>5, <2>1 DEF Collect, config
    <3>2. Len(Rcp.archives) \in Nat \ {0}
      BY <3>1, ArchivesAreSome
    <3> QED
      BY <2>1, <3>1, <3>2
  <2>2. CASE pc' = "remove"
    BY <2>2
  <2> QED
    BY <1>5, <2>1, <2>2 DEF Collect
<1>6. CASE Checkout \/ Enter \/ Unpack
  BY <1>6 DEF Checkout, Enter, Unpack, config
<1>7. CASE Step \/ PoolStart
  BY <1>7 DEF Step, PoolStart, Advance, files, config
<1>8. CASE PoolRaise \/ PoolShutdown
  BY <1>8 DEF PoolRaise, PoolShutdown, Advance, files, config
<1>9. CASE Leave \/ RemoveWorktree
  BY <1>9 DEF Leave, RemoveWorktree
<1>10. ASSUME NEW c \in PoolCommands, PoolTake(c) \/ PoolFinish(c) PROVE FetchInv'
  BY <1>10 DEF PoolTake, PoolFinish, files, config
<1>11. CASE UNCHANGED vars
  BY <1>11 DEF vars, files, config
<1> QED
  BY <1>1, <1>2, <1>3, <1>4, <1>5, <1>6, <1>7, <1>8, <1>9, <1>10, <1>11 DEF Next, Run

\* A build works on archives that are all exactly what its recipe pins, whatever
\* was in RW_DIR earlier (_fetch hashes what it finds).
THEOREM BuildsArePinned == Spec => []BuildsWhatIsPinned
<1>1. CmdInv /\ FetchInv => BuildsWhatIsPinned
  <2> SUFFICES ASSUME CmdInv, FetchInv, Building, NEW a \in Range(Rcp.archives)
               PROVE  a.dest \in DOMAIN dl /\ dl[a.dest] = a.sha256
    BY DEF BuildsWhatIsPinned
  <2>1. Rcp.archives \in Seq(Range(Rcp.archives)) /\ Have(Len(Rcp.archives))
    BY ArchivesAreSome DEF FetchInv, Building
  <2>2. PICK i \in 1..Len(Rcp.archives) : Rcp.archives[i] = a
    BY <2>1 DEF Range
  <2> QED
    BY <2>1, <2>2 DEF Have
<1>2. Init => CmdInv /\ FetchInv
  BY CmdInitially, FetchInitially
<1>3. CmdInv /\ FetchInv /\ [Next]_vars => (CmdInv /\ FetchInv)'
  BY CmdKept, FetchKept
<1> QED
  BY <1>1, <1>2, <1>3, PTL DEF Spec

\* What is in RW_DIR under a recipe's name is its archive, or bad for all recipes.
DownloadInv ==
  \A p \in Projects : \A a \in Range(Recipe[p].archives) :
    a.dest \in DOMAIN dl => dl[a.dest] \in {a.sha256, Torn, Other}

RefusedInv ==
  error = "sha256 mismatch" => pc \in {"remove", "end"} /\ RefusedOnlyWhenBad

LEMMA DownloadInitially == Init => DownloadInv /\ RefusedInv
  BY DEF Init, DownloadInv, RefusedInv

LEMMA PutBad ==
  ASSUME DownloadInv, NEW name, NEW content \in {Torn, Other}, dl' = Put(dl, name, content)
  PROVE  DownloadInv'
  BY DEF DownloadInv, Put

LEMMA PutPinned ==
  ASSUME RecipesAgree, DownloadInv, NEW q \in Projects, NEW b \in Range(Recipe[q].archives),
         dl' = Put(dl, b.dest, b.sha256)
  PROVE  DownloadInv'
  BY DEF DownloadInv, Put, RecipesAgree

LEMMA ArchiveAtHand ==
  ASSUME CmdInv, FetchInv, pc = "fetch"
  PROVE  cmd.project \in Projects /\ Rcp.archives[at] \in Range(Recipe[cmd.project].archives)
<1>1. cmd.project \in Projects
  BY Command
<1>2. at \in DOMAIN Rcp.archives
  BY ArchivesAreSome DEF FetchInv
<1> QED
  BY <1>1, <1>2 DEF Range, Rcp

LEMMA DownloadKept == RecipesAgree /\ CmdInv /\ FetchInv /\ DownloadInv /\ [Next]_vars => DownloadInv'
<1> SUFFICES ASSUME RecipesAgree, CmdInv, FetchInv, DownloadInv, [Next]_vars PROVE DownloadInv'
  OBVIOUS
<1>0. CASE dl' = dl
  BY <1>0 DEF DownloadInv
<1>1. CASE Fetch
  <2>1. /\ cmd.project \in Projects
        /\ Rcp.archives[at] \in Range(Recipe[cmd.project].archives)
    BY <1>1, ArchiveAtHand DEF Fetch
  <2>2. CASE dl' = Put(dl, Rcp.archives[at].dest, Torn) \/ dl' = Put(dl, Rcp.archives[at].dest, Other)
    BY <2>2, PutBad
  <2>3. CASE dl' = Put(dl, Rcp.archives[at].dest, Rcp.archives[at].sha256)
    BY <2>1, <2>3, PutPinned
  <2> QED
    BY <1>0, <1>1, <2>2, <2>3 DEF Fetch
<1>2. CASE Kill
  BY <1>0, <1>2, PutBad DEF Kill
<1>3. CASE End \/ Checkout \/ RuntimeLibrary \/ Enter \/ Unpack \/ Step
  BY <1>0, <1>3 DEF End, Checkout, RuntimeLibrary, Enter, Unpack, Step, files
<1>4. CASE PoolStart \/ PoolRaise \/ PoolShutdown \/ Leave \/ Collect \/ RemoveWorktree
  BY <1>0, <1>4 DEF PoolStart, PoolRaise, PoolShutdown, Leave, Collect, RemoveWorktree, files
<1>5. ASSUME NEW c \in PoolCommands, PoolTake(c) \/ PoolFinish(c) PROVE DownloadInv'
  BY <1>0, <1>5 DEF PoolTake, PoolFinish, files
<1>6. ASSUME NEW what \in DOMAIN VariantsOf, NEW p \in Projects, NEW n \in Reps, Start(what, p, n)
      PROVE  DownloadInv'
  BY <1>0, <1>6 DEF Start, files
<1>7. CASE UNCHANGED vars
  BY <1>0, <1>7 DEF vars, files
<1> QED
  BY <1>1, <1>2, <1>3, <1>4, <1>5, <1>6, <1>7 DEF Next, Run

\* A mismatch is found by Fetch alone; nothing changes the file until the process ends.
LEMMA RefusedKept ==
  RecipesAgree /\ CmdInv /\ FetchInv /\ DownloadInv /\ RefusedInv /\ [Next]_vars => RefusedInv'
<1> SUFFICES ASSUME RecipesAgree, CmdInv, FetchInv, DownloadInv, RefusedInv, [Next]_vars
             PROVE  RefusedInv'
  OBVIOUS
<1>0. CASE error' # "sha256 mismatch"
  BY <1>0 DEF RefusedInv
<1>1. CASE Fetch
  <2> SUFFICES ASSUME error' = "sha256 mismatch" PROVE RefusedInv'
    BY <1>0
  <2> DEFINE a == Rcp.archives[at]
  <2>1. a \in Range(Recipe[cmd.project].archives) /\ cmd.project \in Projects
    BY <1>1, ArchiveAtHand DEF Fetch
  <2>2. /\ pc' = "remove" /\ Rcp' = Rcp
        /\ a.dest \in DOMAIN dl' /\ dl'[a.dest] # a.sha256
    <3>1. pc = "fetch" /\ error # "sha256 mismatch" /\ cmd' = cmd
      BY <1>1 DEF Fetch, RefusedInv, config
    <3>2. \/ a.dest \in DOMAIN dl /\ Fetched(dl[a.dest], a) /\ UNCHANGED dl
          \/ \E content \in {a.sha256, Other} : dl' = Put(dl, a.dest, content) /\ Fetched(content, a)
      BY <1>1 DEF Fetch, Raise
    <3> QED
      BY <3>1, <3>2 DEF Fetched, Put, Rcp
  <2>3. dl'[a.dest] \in {a.sha256, Torn, Other}
    BY <1>1, <2>1, <2>2, DownloadKept DEF DownloadInv
  <2>4. RefusedOnlyWhenBad'
    BY <2>1, <2>2, <2>3 DEF RefusedOnlyWhenBad, Rcp
  <2> QED
    BY <2>2, <2>4 DEF RefusedInv
<1>2. CASE RemoveWorktree
  BY <1>2 DEF RemoveWorktree, RefusedInv, RefusedOnlyWhenBad, config, Rcp
<1>3. CASE Kill \/ End
  BY <1>0, <1>3 DEF Kill, End, Forget
<1>4. CASE Checkout \/ RuntimeLibrary \/ Enter \/ Unpack \/ Step
  BY <1>0, <1>4 DEF Checkout, RuntimeLibrary, Enter, Unpack, Step, Raise, RefusedInv
<1>5. CASE PoolStart \/ PoolRaise \/ PoolShutdown \/ Leave \/ Collect
  BY <1>0, <1>5 DEF PoolStart, PoolRaise, PoolShutdown, Leave, Collect, Raise, RefusedInv
<1>6. ASSUME NEW c \in PoolCommands, PoolTake(c) PROVE RefusedInv'
  BY <1>0, <1>6 DEF PoolTake, RefusedInv
<1>7. ASSUME NEW c \in PoolCommands, PoolFinish(c) PROVE RefusedInv'
  BY <1>7 DEF PoolFinish, RefusedInv, RefusedOnlyWhenBad, files, config, Rcp
<1>8. ASSUME NEW what \in DOMAIN VariantsOf, NEW p \in Projects, NEW n \in Reps, Start(what, p, n)
      PROVE  RefusedInv'
  BY <1>0, <1>8 DEF Start
<1>9. CASE UNCHANGED vars
  BY <1>9 DEF vars, RefusedInv, RefusedOnlyWhenBad, files, config, Rcp
<1> QED
  BY <1>1, <1>2, <1>3, <1>4, <1>5, <1>6, <1>7, <1>8, <1>9 DEF Next, Run

\* If recipes that share an archive's name pin the same content, a command stops at
\* a checksum only for a file that is nobody's: recipes never make each other fail.
THEOREM RefusalsAreDeserved ==
  ASSUME RecipesAgree
  PROVE  Spec => []RefusedOnlyWhenBad
<1> DEFINE IInv == CmdInv /\ FetchInv /\ DownloadInv /\ RefusedInv
<1>1. IInv => RefusedOnlyWhenBad
  BY DEF RefusedInv, RefusedOnlyWhenBad
<1>2. Init => IInv
  BY CmdInitially, FetchInitially, DownloadInitially
<1>3. IInv /\ [Next]_vars => IInv'
  BY RecipesAgree, CmdKept, FetchKept, DownloadKept, RefusedKept
<1> QED
  BY <1>1, <1>2, <1>3, PTL DEF Spec

(***************************************************************************)
(* The samples                                                             *)
(***************************************************************************)
LEMMA SameCommand ==
  cmd' = cmd => Variants' = Variants /\ Phases' = Phases /\ Steps' = Steps /\ Rcp' = Rcp
  BY DEF Variants, Phases, Steps, Rcp

LEMMA StepsAreSome == CmdInv /\ pc # "idle" => Len(Steps) \in Nat \ {0}
<1> SUFFICES ASSUME CmdInv, pc # "idle" PROVE Len(Steps) \in Nat \ {0}
  OBVIOUS
<1> DEFINE s == Steps
<1>1. s \in Seq(Range(s)) /\ s # <<>>
  BY Command, BuildsAssumption DEF NonEmpty, Rcp, Steps
<1> HIDE DEF s
<1>2. Len(s) \in Nat \ {0}
  BY <1>1
<1> QED
  BY <1>2 DEF s

LEMMA VariantsAreSome ==
  CmdInv /\ pc # "idle" => Len(Variants) \in Nat \ {0} /\ DOMAIN Variants = 1..Len(Variants)
<1> SUFFICES ASSUME CmdInv, pc # "idle"
             PROVE  Len(Variants) \in Nat \ {0} /\ DOMAIN Variants = 1..Len(Variants)
  OBVIOUS
<1>1. CASE cmd.what = "check"
  <2>1. Variants = <<"psychicstd">>
    BY <1>1 DEF Variants, VariantsOf
  <2> QED
    BY <2>1
<1>2. CASE cmd.what = "report"
  <2>1. Variants = <<"system", "psychicstd">>
    BY <1>2 DEF Variants, VariantsOf
  <2> QED
    BY <2>1
<1>3. CASE cmd.what = "diff"
  <2>1. Variants = <<"system_base", "ref", "system_head", "head">>
    BY <1>3 DEF Variants, VariantsOf
  <2> QED
    BY <2>1
<1> QED
  BY <1>1, <1>2, <1>3, Command

\* The phases of the first k steps have been timed.
Done(k) == \A i \in 1..k : Timing(Steps[i]) => Steps[i].phase \in times

TimesInv ==
  /\ error # "KeyError"
  /\ pc \in {"enter", "unpack"} => at = 1
  /\ pc \in {"step", "pool", "shutdown"} => at \in 1..Len(Steps) /\ Done(at - 1)
  /\ pc = "shutdown" => ~NoError
  /\ pc = "leave" /\ NoError => Done(Len(Steps))
  /\ pc = "collect" => Done(Len(Steps))

LEMMA TimesInitially == Init => TimesInv
  BY DEF Init, TimesInv

\* A step that ends well adds its phase, whether it is alone or a pool.
LEMMA TimesStep ==
  ASSUME CmdInv, TimesInv, pc \in {"step", "pool"}, cmd' = cmd, UNCHANGED error, Advance,
         Timing(Steps[at]) => Steps[at].phase \in times', times \subseteq times'
  PROVE  TimesInv'
<1>1. at \in 1..Len(Steps) /\ Len(Steps) \in Nat \ {0} /\ Done(at - 1) /\ Steps' = Steps
  BY StepsAreSome, SameCommand DEF TimesInv
<1>2. \A i \in 1..at : Timing(Steps[i]) => Steps[i].phase \in times'
  <2> TAKE i \in 1..at
  <2>1. CASE i = at
    BY <2>1
  <2>2. CASE i # at
    <3>1. i \in 1..(at - 1)
      BY <1>1, <2>2
    <3> QED
      BY <1>1, <3>1 DEF Done
  <2> QED
    BY <2>1, <2>2
<1>3. CASE at = Len(Steps)
  BY <1>1, <1>2, <1>3 DEF Advance, TimesInv, Done, NoError
<1>4. CASE at # Len(Steps)
  <2>1. at' \in 1..Len(Steps) /\ at' - 1 = at /\ pc' = "step"
    BY <1>1, <1>4 DEF Advance
  <2> QED
    BY <1>1, <1>2, <2>1 DEF TimesInv, Done, NoError
<1> QED
  BY <1>3, <1>4

\* What a recipe's steps have timed when they are all done is what its Project reports.
LEMMA AllPhases ==
  RecipesReport /\ CmdInv /\ pc # "idle" /\ Done(Len(Steps)) => Phases \subseteq times
<1> SUFFICES ASSUME RecipesReport, CmdInv, pc # "idle", Done(Len(Steps)) PROVE Phases \subseteq times
  OBVIOUS
<1>1. Reports(Steps, Phases)
  BY Command DEF RecipesReport, Steps, Phases, Rcp
<1> QED
  BY <1>1 DEF Reports, Done

LEMMA TimesKept == RecipesReport /\ CmdInv /\ TimesInv /\ [Next]_vars => TimesInv'
<1> SUFFICES ASSUME RecipesReport, CmdInv, TimesInv, [Next]_vars PROVE TimesInv'
  OBVIOUS
<1> USE DEF NoError, Raise
<1>1. ASSUME NEW what \in DOMAIN VariantsOf, NEW p \in Projects, NEW n \in Reps, Start(what, p, n)
      PROVE  TimesInv'
  BY <1>1 DEF Start, TimesInv
<1>2. CASE Kill \/ End
  BY <1>2 DEF Kill, End, Forget, TimesInv
<1>3. CASE Checkout \/ RuntimeLibrary \/ RemoveWorktree
  BY <1>3 DEF Checkout, RuntimeLibrary, RemoveWorktree, TimesInv
<1>4. CASE Fetch
  BY <1>4 DEF Fetch, Fetched, TimesInv
<1>5. CASE Enter
  BY <1>5 DEF Enter, TimesInv
<1>6. CASE Unpack
  <2>1. at = 1 /\ at' = at /\ cmd' = cmd /\ pc # "idle"
    BY <1>6 DEF Unpack, TimesInv, config
  <2>2. Len(Steps)' \in Nat \ {0}
    BY <2>1, StepsAreSome, SameCommand
  <2> QED
    BY <1>6, <2>1, <2>2 DEF Unpack, TimesInv, Done
<1>7. CASE Step
  <2>1. CASE /\ Advance /\ UNCHANGED error
             /\ times' = IF Steps[at].op = "timed" THEN times \union {Steps[at].phase} ELSE times
    <3>1. pc = "step" /\ cmd' = cmd
      BY <1>7 DEF Step, config
    <3>2. Timing(Steps[at]) => times' = times \union {Steps[at].phase}
      BY <1>7, <2>1 DEF Step, Timing
    <3>3. times \subseteq times'
      BY <1>7, <2>1 DEF Step
    <3> QED
      BY <2>1, <3>1, <3>2, <3>3, TimesStep
  <2>2. CASE error' = "command" /\ pc' = "leave"
    BY <2>2 DEF TimesInv
  <2> QED
    BY <1>7, <2>1, <2>2 DEF Step
<1>8. CASE PoolStart
  BY <1>8, SameCommand DEF PoolStart, TimesInv, Done, config
<1>9. CASE PoolRaise
  BY <1>9, SameCommand DEF PoolRaise, TimesInv, Done, config
<1>10. CASE PoolShutdown
  <2>1. CASE pc = "shutdown" /\ pc' = "leave" /\ UNCHANGED error
    BY <2>1 DEF TimesInv
  <2>2. CASE pc = "pool" /\ Advance /\ times' = times \union {Steps[at].phase} /\ UNCHANGED error
    BY <1>10, <2>2, TimesStep DEF PoolShutdown, config
  <2> QED
    BY <1>10, <2>1, <2>2 DEF PoolShutdown
<1>11. CASE Leave
  <2>1. pc = "leave" /\ cmd' = cmd /\ times' = times /\ error' \in {error, "OSError"}
    BY <1>11 DEF Leave, config
  <2>2. CASE error' = "none"
    BY <1>11, <2>1, <2>2, SameCommand DEF Leave, TimesInv, Done
  <2>3. CASE error' # "none"
    BY <1>11, <2>1, <2>3 DEF Leave, TimesInv
  <2> QED
    BY <2>2, <2>3
<1>12. CASE Collect
  <2>1. Phases \subseteq times
    BY <1>12, AllPhases DEF Collect, TimesInv
  <2> QED
    BY <1>12, <2>1 DEF Collect, TimesInv
<1>13. ASSUME NEW c \in PoolCommands, PoolTake(c) \/ PoolFinish(c) PROVE TimesInv'
  BY <1>13, SameCommand DEF PoolTake, PoolFinish, TimesInv, Done, config
<1>14. CASE UNCHANGED vars
  BY <1>14, SameCommand DEF vars, config, TimesInv, Done
<1> QED
  BY <1>1, <1>2, <1>3, <1>4, <1>5, <1>6, <1>7, <1>8, <1>9, <1>10, <1>11, <1>12, <1>13, <1>14
     DEF Next, Run

\* The sample counts are one ahead for the variants that this repetition has built.
InTurn == pc \in {"fetch", "enter", "unpack", "step", "pool", "shutdown", "leave", "collect"}

Counts(done, now, earlier) ==
  [v \in DOMAIN Variants |-> [p \in Phases |-> IF v < done THEN now ELSE earlier]]

SamplesInv ==
  /\ pc \in {"idle", "checkout", "runtime"} => samples = <<>>
  /\ InTurn => /\ turn \in 1..Len(Variants) /\ rep \in 1..cmd.reps
               /\ samples = Counts(turn, rep, rep - 1)
  /\ pc \in {"remove", "end"} =>
       /\ \A v, w \in DOMAIN samples : \A p \in Phases : samples[v][p] <= samples[w][p] + 1
       /\ NoError => samples = [v \in DOMAIN Variants |-> [p \in Phases |-> cmd.reps]]

LEMMA SamplesInitially == Init => SamplesInv
  BY DEF Init, SamplesInv, InTurn

\* An exception ends the repetition between two samples.
LEMMA SamplesRaise ==
  ASSUME CmdInv, SamplesInv, InTurn, cmd' = cmd, samples' = samples, error' # "none",
         pc' = "remove"
  PROVE  SamplesInv'
<1>1. rep \in Nat \ {0} /\ samples = Counts(turn, rep, rep - 1)
  BY Command DEF SamplesInv, InTurn
<1>2. DOMAIN samples = DOMAIN Variants
  BY <1>1 DEF Counts
<1>3. \A v, w \in DOMAIN samples : \A p \in Phases : samples[v][p] <= samples[w][p] + 1
  BY <1>1, <1>2 DEF Counts
<1> QED
  BY <1>3, SameCommand DEF SamplesInv, InTurn, NoError

LEMMA SamplesStay ==
  ASSUME SamplesInv, InTurn, InTurn', cmd' = cmd, UNCHANGED matrix
  PROVE  SamplesInv'
  BY SameCommand DEF SamplesInv, InTurn, Counts, matrix

LEMMA SamplesCollect == RecipesReport /\ CmdInv /\ TimesInv /\ SamplesInv /\ Collect => SamplesInv'
<1> SUFFICES ASSUME RecipesReport, CmdInv, TimesInv, SamplesInv, Collect PROVE SamplesInv'
  OBVIOUS
<1>1. /\ pc = "collect" /\ cmd' = cmd /\ Phases \subseteq times
      /\ Variants' = Variants /\ Phases' = Phases
  BY AllPhases, SameCommand DEF Collect, TimesInv, config
<1>2. /\ Len(Variants) \in Nat \ {0} /\ DOMAIN Variants = 1..Len(Variants)
      /\ cmd.reps \in Nat \ {0} /\ turn \in 1..Len(Variants) /\ rep \in 1..cmd.reps
      /\ samples = Counts(turn, rep, rep - 1)
  BY <1>1, VariantsAreSome, Command DEF SamplesInv, InTurn
<1>3. samples' = Counts(turn + 1, rep, rep - 1)
  <2>1. samples' = [samples EXCEPT ![turn] = [p \in Phases |-> @[p] + 1]]
    BY <1>1 DEF Collect
  <2>2. DOMAIN samples = DOMAIN Variants /\ turn \in DOMAIN samples
    BY <1>2 DEF Counts
  <2>3. samples' = [v \in DOMAIN Variants |->
                      IF v = turn THEN [p \in Phases |-> samples[turn][p] + 1] ELSE samples[v]]
    BY <2>1, <2>2
  <2>4. ASSUME NEW v \in DOMAIN Variants
        PROVE  samples'[v] = [p \in Phases |-> IF v < turn + 1 THEN rep ELSE rep - 1]
    <3>1. CASE v = turn
      <4>1. samples'[v] = [p \in Phases |-> samples[turn][p] + 1]
        BY <2>3, <2>4, <3>1
      <4>2. \A p \in Phases : samples[turn][p] + 1 = rep
        BY <1>2 DEF Counts
      <4> QED
        BY <1>2, <3>1, <4>1, <4>2
    <3>2. CASE v # turn
      <4>1. samples'[v] = [p \in Phases |-> IF v < turn THEN rep ELSE rep - 1]
        BY <1>2, <2>3, <2>4, <3>2 DEF Counts
      <4>2. v < turn <=> v < turn + 1
        BY <1>2, <2>4, <3>2
      <4> QED
        BY <4>1, <4>2
    <3> QED
      BY <3>1, <3>2
  <2> QED
    BY <2>3, <2>4 DEF Counts
<1>4. CASE turn < Len(Variants)
  <2>1. pc' = "fetch" /\ turn' = turn + 1 /\ rep' = rep
    BY <1>1, <1>4 DEF Collect
  <2>2. samples' = Counts(turn, rep, rep - 1)'
    BY <1>1, <1>3, <2>1 DEF Counts
  <2> QED
    BY <1>1, <1>2, <1>4, <2>1, <2>2 DEF SamplesInv, InTurn
<1>5. CASE turn = Len(Variants)
  <2>1. samples' = [v \in DOMAIN Variants |-> [p \in Phases |-> rep]]
    BY <1>2, <1>3, <1>5 DEF Counts
  <2>2. CASE rep < cmd.reps
    <3>1. pc' = "fetch" /\ turn' = 1 /\ rep' = rep + 1
      BY <1>1, <1>2, <1>5, <2>2 DEF Collect
    <3>2. samples' = Counts(turn, rep, rep - 1)'
      BY <1>1, <1>2, <2>1, <3>1 DEF Counts
    <3> QED
      BY <1>1, <1>2, <2>2, <3>1, <3>2 DEF SamplesInv, InTurn
  <2>3. CASE rep = cmd.reps
    <3>1. pc' = "remove"
      BY <1>1, <1>2, <1>5, <2>3 DEF Collect
    <3>2. \A v, w \in DOMAIN samples' : \A p \in Phases : samples'[v][p] <= samples'[w][p] + 1
      BY <1>2, <2>1
    <3> QED
      BY <1>1, <2>1, <2>3, <3>1, <3>2 DEF SamplesInv, InTurn
  <2> QED
    BY <1>2, <2>2, <2>3
<1>6. turn < Len(Variants) \/ turn = Len(Variants)
  <2> DEFINE n == Len(Variants)
  <2>1. n \in Nat /\ turn \in 1..n
    BY <1>2
  <2> HIDE DEF n
  <2>2. turn < n \/ turn = n
    BY <2>1
  <2> QED
    BY <2>2 DEF n
<1> QED
  BY <1>4, <1>5, <1>6

LEMMA SamplesKept ==
  RecipesReport /\ CmdInv /\ TimesInv /\ SamplesInv /\ [Next]_vars => SamplesInv'
<1> SUFFICES ASSUME RecipesReport, CmdInv, TimesInv, SamplesInv, [Next]_vars PROVE SamplesInv'
  OBVIOUS
<1>1. ASSUME NEW what \in DOMAIN VariantsOf, NEW p \in Projects, NEW n \in Reps, Start(what, p, n)
      PROVE  SamplesInv'
  BY <1>1 DEF Start, SamplesInv, InTurn, matrix
<1>2. CASE Kill \/ End
  BY <1>2 DEF Kill, End, Forget, SamplesInv, InTurn
<1>3. CASE Checkout
  BY <1>3 DEF Checkout, Raise, SamplesInv, InTurn, matrix, NoError
<1>4. CASE RuntimeLibrary
  <2>1. pc = "runtime" /\ cmd' = cmd /\ samples = <<>>
    BY <1>4 DEF RuntimeLibrary, SamplesInv, config
  <2>2. CASE pc' = "fetch" /\ rep' = 1 /\ turn' = 1 /\ samples' = Counts(1, 1, 0)
    <3>1. Len(Variants) \in Nat \ {0} /\ cmd.reps \in Nat \ {0}
      BY <2>1, VariantsAreSome, Command
    <3> QED
      BY <2>1, <2>2, <3>1, SameCommand DEF SamplesInv, InTurn, Counts
  <2>3. CASE pc' = "runtime" /\ UNCHANGED matrix
    BY <2>1, <2>3 DEF SamplesInv, InTurn, matrix
  <2>4. CASE pc' = "remove" /\ UNCHANGED matrix /\ error' = "command"
    BY <2>1, <2>4 DEF SamplesInv, InTurn, matrix, NoError
  <2>5. CASE /\ pc' = "fetch" /\ rep' = 1 /\ turn' = 1
             /\ samples' = [v \in DOMAIN Variants |-> [p \in Phases |-> 0]]
    <3>1. \A v \in DOMAIN Variants : ~(v < 1)
      BY <2>1, VariantsAreSome
    <3> QED
      BY <2>2, <2>5, <3>1 DEF Counts
  <2> QED
    BY <1>4, <2>1, <2>3, <2>4, <2>5 DEF RuntimeLibrary, Raise
<1>5. CASE Fetch
  <2>1. /\ InTurn /\ cmd' = cmd /\ UNCHANGED matrix
        /\ pc' \in {"fetch", "enter"} \/ (pc' = "remove" /\ error' # "none")
    BY <1>5 DEF Fetch, Fetched, Raise, InTurn, config
  <2> QED
    BY <2>1, SamplesStay, SamplesRaise DEF InTurn, matrix
<1>6. CASE Enter
  <2>1. /\ InTurn /\ cmd' = cmd /\ UNCHANGED matrix
        /\ pc' = "unpack" \/ (pc' = "remove" /\ error' # "none")
    BY <1>6 DEF Enter, Raise, InTurn, config
  <2> QED
    BY <2>1, SamplesStay, SamplesRaise DEF InTurn, matrix
<1>7. CASE Unpack \/ Step \/ PoolStart \/ PoolRaise \/ PoolShutdown
  <2>1. InTurn /\ InTurn' /\ cmd' = cmd /\ UNCHANGED matrix
    BY <1>7 DEF Unpack, Step, PoolStart, PoolRaise, PoolShutdown, Advance, InTurn, config
  <2> QED
    BY <2>1, SamplesStay
<1>8. ASSUME NEW c \in PoolCommands, PoolTake(c) PROVE SamplesInv'
  <2>1. InTurn /\ InTurn' /\ cmd' = cmd /\ UNCHANGED matrix
    BY <1>8 DEF PoolTake, InTurn, config
  <2> QED
    BY <2>1, SamplesStay
<1>9. ASSUME NEW c \in PoolCommands, PoolFinish(c) PROVE SamplesInv'
  BY <1>9, SameCommand DEF PoolFinish, SamplesInv, InTurn, Counts, matrix, config, NoError
<1>10. CASE Leave
  <2>1. /\ InTurn /\ cmd' = cmd /\ UNCHANGED matrix
        /\ pc' = "collect" \/ (pc' = "remove" /\ error' # "none")
    BY <1>10 DEF Leave, InTurn, config
  <2> QED
    BY <2>1, SamplesStay, SamplesRaise DEF InTurn, matrix
<1>11. CASE Collect
  BY <1>11, SamplesCollect
<1>12. CASE RemoveWorktree
  BY <1>12, SameCommand DEF RemoveWorktree, SamplesInv, InTurn, matrix, config, NoError
<1>13. CASE UNCHANGED vars
  BY <1>13, SameCommand DEF vars, SamplesInv, InTurn, Counts, matrix, config, NoError
<1> QED
  BY <1>1, <1>2, <1>3, <1>4, <1>5, <1>6, <1>7, <1>8, <1>9, <1>10, <1>11, <1>12, <1>13
     DEF Next, Run

\* If every recipe times each phase that its Project reports, _build_matrix never
\* misses one, and its samples are balanced at every moment and complete at the end.
THEOREM SamplesAreBalanced ==
  ASSUME RecipesReport
  PROVE  Spec => []SamplesBalanced
<1> DEFINE IInv == CmdInv /\ TimesInv /\ SamplesInv
<1>1. IInv => SamplesBalanced
  <2> SUFFICES ASSUME CmdInv, TimesInv, SamplesInv PROVE SamplesBalanced
    OBVIOUS
  <2>1. CASE InTurn
    <3>1. /\ rep \in Nat \ {0} /\ samples = Counts(turn, rep, rep - 1)
          /\ DOMAIN samples = DOMAIN Variants
      BY <2>1, Command DEF SamplesInv, InTurn, Counts
    <3>2. \A v, w \in DOMAIN samples : \A p \in Phases : samples[v][p] <= samples[w][p] + 1
      BY <3>1 DEF Counts
    <3> QED
      BY <2>1, <3>2 DEF SamplesBalanced, TimesInv, InTurn
  <2>2. CASE pc \in {"remove", "end"}
    <3>1. ASSUME pc = "end", NoError, NEW v \in DOMAIN Variants
          PROVE  samples[v] = [p \in Phases |-> cmd.reps]
      BY <3>1 DEF SamplesInv
    <3> QED
      BY <2>2, <3>1 DEF SamplesInv, SamplesBalanced, TimesInv
  <2>3. CASE samples = <<>> /\ pc # "end"
    BY <2>3 DEF SamplesBalanced, TimesInv
  <2> QED
    BY <2>1, <2>2, <2>3 DEF SamplesInv, InTurn, CmdInv, Places
<1>2. Init => IInv
  BY CmdInitially, TimesInitially, SamplesInitially
<1>3. IInv /\ [Next]_vars => IInv'
  BY RecipesReport, CmdKept, TimesKept, SamplesKept
<1> QED
  BY <1>1, <1>2, <1>3, PTL DEF Spec

(***************************************************************************)
(* Induction over the natural numbers, and sums                            *)
(***************************************************************************)
\* A set of numbers that is not empty has a least one: of the intervals 0..n with
\* n in the set, which are finite, one has none of the others as a strict subset.
LEMMA NatMin ==
  ASSUME NEW T, T \subseteq Nat, T # {}
  PROVE  \E x \in T : \A y \in T : x <= y
<1> DEFINE R == StrictSubsetOrdering(Nat)
           F == FiniteSubsetsOf(Nat)
           U == {0..n : n \in T}
<1>1. IsWellFoundedOn(R, F)
  BY FS_StrictSubsetOrderingWellFounded
<1>2. U \subseteq F /\ U # {}
  <2>1. ASSUME NEW n \in T PROVE 0..n \in F
    <3>1. IsFiniteSet(0..n)
      BY FS_Interval
    <3>2. 0..n \in SUBSET Nat
      OBVIOUS
    <3> QED BY <3>1, <3>2 DEF FiniteSubsetsOf
  <2> HIDE DEF F
  <2> QED BY <2>1
<1>3. \E x \in U : \A y \in U : ~ (<<y, x>> \in R)
  <2> HIDE DEF R, F, U
  <2> QED BY <1>1, <1>2, WFMin
<1>4. PICK x \in T : \A y \in T : ~(<<0..y, 0..x>> \in R)
  BY <1>3
<1>5. \A y \in T : x <= y
  <2> SUFFICES ASSUME NEW y \in T, y < x PROVE FALSE
    OBVIOUS
  <2>1. /\ 0..y \subseteq 0..x /\ x \in 0..x /\ x \notin 0..y
        /\ 0..x \in SUBSET Nat /\ 0..y \in SUBSET Nat
    OBVIOUS
  <2>2. <<0..y, 0..x>> \in R
    BY <2>1 DEF StrictSubsetOrdering
  <2> QED BY <2>2, <1>4
<1> QED BY <1>5

\* Induction, with the set of the numbers for which the statement holds in the
\* place of a predicate.
LEMMA NatInd ==
  ASSUME NEW S, 0 \in S, \A n \in Nat : n \in S => n + 1 \in S
  PROVE  Nat \subseteq S
<1> SUFFICES ASSUME Nat \ S # {} PROVE FALSE
  OBVIOUS
<1>1. PICK x \in Nat \ S : \A y \in Nat \ S : x <= y
  BY NatMin
<1>2. x # 0
  OBVIOUS
<1>3. x - 1 \in Nat /\ (x - 1) + 1 = x
  BY <1>2
<1> QED BY <1>1, <1>3

\* The sums of the first numbers of h, as the function that adds them up.
IsTotal(f, h, n) == f = [k \in 0..n |-> IF k = 0 THEN 0 ELSE f[k - 1] + h[k]]
Total(h, n) == CHOOSE f : IsTotal(f, h, n)

\* There is such a function: that of the first m + 1 numbers extends that of the first m.
LEMMA SumExists ==
  ASSUME NEW n \in Nat, NEW h \in [1..n -> Int]
  PROVE  \E f : IsTotal(f, h, n)
<1> DEFINE S ==
  {m \in Nat : m <= n => \E f : f = [k \in 0..m |-> IF k = 0 THEN 0 ELSE f[k - 1] + h[k]]}
<1>1. 0 \in S
  <2> DEFINE f0 == [k \in 0..0 |-> 0]
  <2>1. f0 = [k \in 0..0 |-> IF k = 0 THEN 0 ELSE f0[k - 1] + h[k]]
    OBVIOUS
  <2> QED BY <2>1
<1>2. ASSUME NEW m \in Nat, m \in S PROVE m + 1 \in S
  <2> SUFFICES ASSUME m + 1 <= n
               PROVE  \E f : f = [k \in 0..(m + 1) |-> IF k = 0 THEN 0 ELSE f[k - 1] + h[k]]
    OBVIOUS
  <2>1. PICK f : f = [k \in 0..m |-> IF k = 0 THEN 0 ELSE f[k - 1] + h[k]]
    BY <1>2
  <2> DEFINE g == [k \in 0..(m + 1) |-> IF k = m + 1 THEN f[m] + h[m + 1] ELSE f[k]]
  <2>2. ASSUME NEW k \in 0..(m + 1) PROVE g[k] = IF k = 0 THEN 0 ELSE g[k - 1] + h[k]
    <3>1. CASE k = 0
      BY <3>1, <2>1
    <3>2. CASE k = m + 1
      BY <3>2, <2>1
    <3>3. CASE k # 0 /\ k # m + 1
      <4>1. k \in 0..m /\ k - 1 \in 0..m /\ k - 1 # m + 1
        BY <3>3
      <4>2. f[k] = f[k - 1] + h[k]
        BY <3>3, <4>1, <2>1
      <4> QED BY <3>3, <4>1, <4>2
    <3> QED BY <3>1, <3>2, <3>3
  <2>3. g = [k \in 0..(m + 1) |-> IF k = 0 THEN 0 ELSE g[k - 1] + h[k]]
    <3>1. DOMAIN g = 0..(m + 1)
      OBVIOUS
    <3> HIDE DEF g
    <3>2. g = [k \in 0..(m + 1) |-> g[k]]
      <4> QED BY <3>1 DEF g
    <3> QED BY <3>2, <2>2
  <2> HIDE DEF g
  <2> QED BY <2>3
<1>3. Nat \subseteq S
  BY <1>1, <1>2, NatInd
<1> QED BY <1>3 DEF IsTotal

\* Total is such a function, and so its values are those of the definition.
LEMMA TotalIs ==
  ASSUME NEW n \in Nat, NEW h \in [1..n -> Int]
  PROVE IsTotal(Total(h, n), h, n)
BY SumExists DEF Total, IsTotal

LEMMA TotalAt ==
  ASSUME NEW n, NEW h, NEW f, IsTotal(f, h, n)
  PROVE  \A k \in 0..n : f[k] = IF k = 0 THEN 0 ELSE f[k - 1] + h[k]
<1> SUFFICES ASSUME NEW k \in 0..n PROVE f[k] = IF k = 0 THEN 0 ELSE f[k - 1] + h[k]
  OBVIOUS
<1> DEFINE g == [j \in 0..n |-> IF j = 0 THEN 0 ELSE f[j - 1] + h[j]]
<1>1. f = g
  BY DEF IsTotal
<1>2. f[k] = g[k]
  BY <1>1
<1> QED BY <1>2

\* Each sum is the one before it and the next number.
LEMMA TotalStep ==
  \A n \in Nat : \A h, f : IsTotal(f, h, n) =>
    /\ f[0] = 0
    /\ \A m \in Nat : m + 1 <= n => f[m + 1] = f[m] + h[m + 1]
<1> SUFFICES ASSUME NEW n \in Nat, NEW h, NEW f, IsTotal(f, h, n)
             PROVE  /\ f[0] = 0
                    /\ \A m \in Nat : m + 1 <= n => f[m + 1] = f[m] + h[m + 1]
  OBVIOUS
<1>1. f[0] = 0
  BY TotalAt
<1>2. ASSUME NEW m \in Nat, m + 1 <= n PROVE f[m + 1] = f[m] + h[m + 1]
  <2> DEFINE k == m + 1
  <2>1. k \in 0..n /\ k # 0 /\ k - 1 = m
    BY <1>2
  <2>2. f[k] = IF k = 0 THEN 0 ELSE f[k - 1] + h[k]
    <3> HIDE DEF k
    <3> QED BY <2>1, TotalAt
  <2>3. f[k] = f[m] + h[k]
    <3> HIDE DEF k
    <3> QED BY <2>1, <2>2
  <2> QED BY <2>3
<1> QED BY <1>1, <1>2

\* Sums of natural numbers are natural numbers.
LEMMA TotalNat ==
  ASSUME NEW n \in Nat, NEW h \in [1..n -> Nat], NEW f, IsTotal(f, h, n)
  PROVE  \A k \in 0..n : f[k] \in Nat
<1> DEFINE S == {m \in Nat : m <= n => f[m] \in Nat}
<1>1. 0 \in S
  BY TotalStep
<1>2. ASSUME NEW m \in Nat, m \in S PROVE m + 1 \in S
  <2> SUFFICES ASSUME m + 1 <= n PROVE f[m + 1] \in Nat
    OBVIOUS
  <2>1. f[m + 1] = f[m] + h[m + 1]
    BY TotalStep
  <2>2. f[m] \in Nat /\ h[m + 1] \in Nat
    BY <1>2
  <2> QED BY <2>1, <2>2
<1>3. Nat \subseteq S
  BY <1>1, <1>2, NatInd
<1> QED BY <1>3

\* One of the numbers grows by d, and so does every total that counts it.
LEMMA TotalGrows ==
  \A n \in Nat : \A h, j \in [1..n -> Nat] : \A x, d :
    x \in 1..n /\ d \in Nat /\ j[x] = h[x] + d /\ (\A y \in 1..n : y # x => j[y] = h[y])
      => Total(j, n)[n] = Total(h, n)[n] + d
<1> TAKE n \in Nat
<1> TAKE h, j \in [1..n -> Nat]
<1> TAKE x, d
<1> HAVE x \in 1..n /\ d \in Nat /\ j[x] = h[x] + d /\ \A y \in 1..n : y # x => j[y] = h[y]
<1>1. \A k \in [1..n -> Nat] : k \in [1..n -> Int]
  OBVIOUS
<1>2. PICK f : f = Total(h, n) /\ IsTotal(f, h, n)
  BY <1>1, TotalIs
<1>3. PICK g : g = Total(j, n) /\ IsTotal(g, j, n)
  BY <1>1, TotalIs
<1>4. IsTotal(f, h, n)
  BY <1>2
<1>5. IsTotal(g, j, n)
  BY <1>3
<1>6. /\ f[0] = 0
      /\ \A m \in Nat : m + 1 <= n => f[m + 1] = f[m] + h[m + 1]
  BY ONLY <1>4, TotalStep, n \in Nat, ZenonT(20)
<1>7. /\ g[0] = 0
      /\ \A m \in Nat : m + 1 <= n => g[m + 1] = g[m] + j[m + 1]
  BY ONLY <1>5, TotalStep, n \in Nat, ZenonT(20)
<1>8. \A k \in 0..n : f[k] \in Nat /\ g[k] \in Nat
  BY <1>2, <1>3, TotalNat
<1> DEFINE S == {m \in Nat : m <= n => g[m] = f[m] + (IF m >= x THEN d ELSE 0)}
<1>9. 0 \in S
  BY <1>6, <1>7
<1>10. ASSUME NEW m \in Nat, m \in S PROVE m + 1 \in S
  <2> SUFFICES ASSUME m + 1 <= n
               PROVE  g[m + 1] = f[m + 1] + (IF m + 1 >= x THEN d ELSE 0)
    OBVIOUS
  <2>1. m \in 0..n /\ m + 1 \in 1..n
    OBVIOUS
  <2>2. f[m + 1] = f[m] + h[m + 1]
    BY <1>6, <1>7
  <2>3. g[m + 1] = g[m] + j[m + 1]
    BY <1>6, <1>7
  <2>4. f[m] \in Nat /\ h[m + 1] \in Nat /\ j[m + 1] \in Nat
    BY <2>1, <1>8
  <2>5. g[m] = f[m] + (IF m >= x THEN d ELSE 0)
    BY <1>10
  <2>6. CASE m + 1 = x
    <3>1. j[m + 1] = h[m + 1] + d
      BY <2>6
    <3>2. ~(m >= x) /\ m + 1 >= x
      BY <2>6
    <3> QED BY <3>1, <3>2, <2>3, <2>2, <2>4, <2>5, SMTT(20)
  <2>7. CASE m + 1 # x
    <3>1. j[m + 1] = h[m + 1]
      BY <2>7
    <3>2. m >= x <=> m + 1 >= x
      BY <2>7
    <3> QED BY <3>1, <3>2, <2>3, <2>2, <2>4, <2>5
  <2> QED BY <2>6, <2>7
<1>11. n \in S
  BY <1>9, <1>10, NatInd
<1>12. g[n] = f[n] + (IF n >= x THEN d ELSE 0)
  BY <1>11
<1> QED BY <1>12, <1>8, <1>2, <1>3

(***************************************************************************)
(* The budget is shared equally                                            *)
(***************************************************************************)
\* EqualShares is inductive once the types are known: a repetition goes to the
\* candidate with the least time, and what is left of the budget only falls, so a
\* project that could be paid from a later remainder could be paid from every
\* earlier one.
PlanTypeOK ==
  /\ input \in Inputs
  /\ next \in Nat /\ minimum \in Nat /\ remaining \in Int
  /\ reps \in [Project -> Nat]

LEMMA OneMore == \A r, c \in Nat : (r + 1) * c = r * c + c
  BY SMT

LEMMA ProductNat == \A r, c \in Nat : r * c \in Nat
  BY SMT

LEMMA InputFacts ==
  ASSUME PlanTypeOK
  PROVE  /\ input.n \in Nat /\ input.budget \in Nat /\ max_reps \in Nat \ {0}
         /\ cost \in [Project -> Nat]
  BY InputsAssumption DEF PlanTypeOK, Project, cost, max_reps

\* The variables have their types.
THEOREM PlanTypeCorrect == PlanSpec => []PlanTypeOK
<1>1. PlanInit => PlanTypeOK
  BY InputsAssumption DEF PlanInit, PlanTypeOK, Project
<1>2. PlanTypeOK /\ [PlanNext]_plan => PlanTypeOK'
  <2> SUFFICES ASSUME PlanTypeOK, [PlanNext]_plan PROVE PlanTypeOK'
    OBVIOUS
  <2> USE InputFacts
  <2>1. CASE AddUp
    <3>1. cost[next] \in Nat
      BY <2>1 DEF AddUp
    <3> QED BY <2>1, <3>1 DEF AddUp, PlanTypeOK, Project
  <2>2. CASE Minimum
    BY <2>2 DEF Minimum, PlanTypeOK, Project
  <2>3. ASSUME NEW p \in Project, Allocate(p) PROVE PlanTypeOK'
    <3>1. cost[p] \in Nat /\ reps[p] \in Nat
      BY <2>3 DEF PlanTypeOK
    <3> QED BY <2>3, <3>1 DEF Allocate, PlanTypeOK, Project
  <2>4. CASE Planned
    BY <2>4 DEF Planned, PlanTypeOK, Project
  <2>5. CASE UNCHANGED plan
    BY <2>5 DEF plan, PlanTypeOK, Project
  <2> QED BY <2>1, <2>2, <2>3, <2>4, <2>5 DEF PlanNext
<1> QED BY <1>1, <1>2, PTL DEF PlanSpec

\* One repetition more for x keeps the shares equal.
LEMMA AllocateKeepsShares ==
  ASSUME PlanTypeOK, EqualShares, NEW x \in Project, Allocate(x)
  PROVE  EqualShares'
<1> USE InputFacts
<1>1. cost[x] \in Nat /\ reps[x] \in Nat /\ remaining \in Int
  BY DEF PlanTypeOK
<1>2. /\ reps' = [reps EXCEPT ![x] = @ + 1] /\ remaining' = remaining - cost[x]
      /\ input' = input /\ stage = "allocate"
  BY DEF Allocate
<1> SUFFICES ASSUME NEW p \in Project, NEW q \in Project,
                    reps'[p] > 1, reps'[q] < max_reps, cost[q] <= remaining' + cost[p]
             PROVE  (reps'[p] - 1) * cost[p] <= reps'[q] * cost[q]
  BY <1>2 DEF EqualShares, Project, cost, max_reps
<1>3. /\ cost[p] \in Nat /\ cost[q] \in Nat /\ reps[p] \in Nat /\ reps[q] \in Nat
      /\ max_reps \in Nat
  BY DEF PlanTypeOK
<1>4. reps[p] * cost[p] \in Nat /\ reps[q] * cost[q] \in Nat
  BY <1>3, ProductNat
<1>5. (reps[q] + 1) * cost[q] = reps[q] * cost[q] + cost[q]
  BY <1>3, OneMore
<1>6. /\ reps'[x] = reps[x] + 1
      /\ \A y \in Project : y # x => reps'[y] = reps[y]
  BY <1>2 DEF PlanTypeOK
<1>7. reps[q] * cost[q] <= reps'[q] * cost[q]
  <2>1. CASE q = x
    BY <2>1, <1>3, <1>4, <1>5, <1>6
  <2>2. CASE q # x
    BY <2>2, <1>4, <1>6
  <2> QED BY <2>1, <2>2
<1>8. reps[q] < max_reps
  <2>1. CASE q = x
    BY <2>1, <1>3, <1>6
  <2>2. CASE q # x
    BY <2>2, <1>6
  <2> QED BY <2>1, <2>2
<1>9. (reps'[p] - 1) * cost[p] <= reps[q] * cost[q]
  <2>1. CASE p = x
    <3>1. cost[q] <= remaining
      BY <2>1, <1>1, <1>2, <1>3
    <3>2. q \in Candidates
      BY <3>1, <1>8 DEF Candidates
    <3>3. reps[p] * cost[p] <= reps[q] * cost[q]
      BY <3>2, <2>1, <1>4 DEF Allocate
    <3>4. reps'[p] - 1 = reps[p]
      BY <2>1, <1>3, <1>6
    <3> QED BY <3>3, <3>4
  <2>2. CASE p # x
    <3>1. cost[q] <= remaining + cost[p]
      BY <1>1, <1>2, <1>3
    <3>2. reps'[p] = reps[p]
      BY <2>2, <1>6
    <3> QED BY <3>1, <3>2, <1>2, <1>8 DEF EqualShares
  <2> QED BY <2>1, <2>2
<1>10. (reps'[p] - 1) * cost[p] \in Int
  <2>1. reps'[p] - 1 \in Nat
    BY <1>3, <1>6, <1>1
  <2> QED BY <2>1, <1>3, ProductNat
<1>11. reps'[q] * cost[q] \in Nat
  BY <1>1, <1>3, <1>6, ProductNat
<1> QED BY <1>4, <1>7, <1>9, <1>10, <1>11

\* No project is ever given more estimated time, by a repetition that another
\* could have had, than that other one was given.
THEOREM SharesAreEqual == PlanSpec => []EqualShares
<1>1. PlanInit => EqualShares
  BY DEF PlanInit, EqualShares
<1>2. PlanTypeOK /\ EqualShares /\ [PlanNext]_plan => EqualShares'
  <2> SUFFICES ASSUME PlanTypeOK, EqualShares, [PlanNext]_plan PROVE EqualShares'
    OBVIOUS
  <2>1. CASE AddUp
    BY <2>1 DEF AddUp, EqualShares
  <2>2. CASE Minimum
    <3>1. CASE stage' = "refused"
      BY <3>1 DEF EqualShares
    <3>2. CASE reps' = [p \in Project |-> 1]
      BY <2>2, <3>2 DEF Minimum, EqualShares, Project
    <3> QED BY <2>2, <3>1, <3>2 DEF Minimum
  <2>3. ASSUME NEW p \in Project, Allocate(p) PROVE EqualShares'
    BY <2>3, AllocateKeepsShares
  <2>4. CASE Planned
    BY <2>4 DEF Planned, EqualShares, Project, cost, max_reps
  <2>5. CASE UNCHANGED plan
    BY <2>5 DEF plan, EqualShares, Project, cost, max_reps
  <2> QED BY <2>1, <2>2, <2>3, <2>4, <2>5 DEF PlanNext
<1> QED BY <1>1, <1>2, PlanTypeCorrect, PTL DEF PlanSpec

(***************************************************************************)
(* The budget is kept                                                      *)
(***************************************************************************)
\* What one repetition more adds to the total.
Times == [p \in Project |-> reps[p] * cost[p]]

\* EstimatedTotal is the last of the sums of what the projects get.
LEMMA EstimatedIsTotal ==
  ASSUME PlanTypeOK PROVE EstimatedTotal = Total(Times, input.n)[input.n]
<1> DEFINE Sums(f) ==
  [p \in 0..input.n |-> IF p = 0 THEN 0 ELSE f[p - 1] + reps[p] * cost[p]]
<1>1. EstimatedTotal = (CHOOSE f : f = Sums(f))[input.n]
  BY DEF EstimatedTotal
<1>2. \A f : f = Sums(f) <=> IsTotal(f, Times, input.n)
  <2>1. \A f : Sums(f) = [k \in 0..input.n |-> IF k = 0 THEN 0 ELSE f[k - 1] + Times[k]]
    BY InputFacts DEF Times, Project
  <2> QED BY <2>1 DEF IsTotal
<1>3. (CHOOSE f : f = Sums(f)) = Total(Times, input.n)
  BY <1>2 DEF Total
<1> QED BY <1>1, <1>3

\* While the costs are added up, the minimum is the sum of those that were.  Later,
\* what was given out and what remains are the budget.
BudgetInv ==
  /\ stage \in {"costs", "allocate", "planned", "refused"}
  /\ stage = "costs" => next \in 1..(input.n + 1) /\ minimum = Total(cost, input.n)[next - 1]
  /\ stage \in {"allocate", "planned"} =>
       /\ remaining >= 0 /\ EstimatedTotal + remaining = input.budget
       /\ \A p \in Project : reps[p] \in 1..max_reps
  /\ stage = "planned" => Candidates = {}

LEMMA TimesType == PlanTypeOK => Times \in [1..input.n -> Nat]
<1> SUFFICES ASSUME PlanTypeOK PROVE Times \in [1..input.n -> Nat]
  OBVIOUS
<1>1. \A p \in Project : reps[p] * cost[p] \in Nat
  BY InputFacts, ProductNat DEF PlanTypeOK
<1> QED BY <1>1 DEF Times, Project

LEMMA EstimatedNat == PlanTypeOK => EstimatedTotal \in Nat
<1> SUFFICES ASSUME PlanTypeOK PROVE EstimatedTotal \in Nat
  OBVIOUS
<1>1. input.n \in Nat /\ Times \in [1..input.n -> Nat]
  BY InputFacts, TimesType
<1>2. IsTotal(Total(Times, input.n), Times, input.n)
  BY <1>1, TotalIs
<1>3. Total(Times, input.n)[input.n] \in Nat
  BY <1>1, <1>2, TotalNat
<1> QED BY <1>3, EstimatedIsTotal

\* BudgetInv is PlanFits and what it rests on.
LEMMA Fits == PlanTypeOK /\ BudgetInv => PlanFits
<1> SUFFICES ASSUME PlanTypeOK, BudgetInv, stage \in {"allocate", "planned"} PROVE PlanFits
  BY DEF PlanFits
<1> DEFINE E == EstimatedTotal
<1>1. /\ E \in Nat /\ remaining \in Int /\ input.budget \in Nat
      /\ remaining >= 0 /\ E + remaining = input.budget
  BY EstimatedNat, InputFacts DEF PlanTypeOK, BudgetInv
<1>2. ASSUME stage = "planned", NEW p \in Project
      PROVE reps[p] = max_reps \/ E + cost[p] > input.budget
  <2>1. ~(reps[p] < max_reps /\ cost[p] <= remaining)
    BY <1>2 DEF BudgetInv, Candidates
  <2>2. reps[p] \in 1..max_reps /\ max_reps \in Nat /\ cost[p] \in Nat
    BY InputFacts DEF BudgetInv
  <2> HIDE DEF E
  <2> QED BY <2>1, <2>2, <1>1
<1>3. E <= input.budget
  <2> HIDE DEF E
  <2> QED BY <1>1
<1> QED BY <1>1, <1>2, <1>3 DEF PlanFits, BudgetInv

\* A repetition takes its cost from what remains and adds it to the total.
LEMMA AllocateFits ==
  ASSUME PlanTypeOK, PlanTypeOK', BudgetInv, NEW x \in Project, Allocate(x)
  PROVE  BudgetInv'
<1>1. /\ input' = input /\ stage = "allocate" /\ stage' = "allocate"
      /\ reps' = [reps EXCEPT ![x] = @ + 1] /\ remaining' = remaining - cost[x]
      /\ reps[x] < max_reps /\ cost[x] <= remaining
  BY DEF Allocate, Candidates
<1>2. /\ input.n \in Nat /\ max_reps \in Nat /\ remaining \in Int
      /\ reps \in [Project -> Nat] /\ cost \in [Project -> Nat]
  BY InputFacts DEF PlanTypeOK
<1>3. EstimatedTotal' = EstimatedTotal + cost[x]
  <2>1. Times \in [1..input.n -> Nat] /\ Times' \in [1..input.n -> Nat]
    <3>1. (PlanTypeOK => Times \in [1..input.n -> Nat])'
      BY TimesType, PTL
    <3> QED BY TimesType, <1>1, <3>1
  <2>2. Times'[x] = Times[x] + cost[x]
    <3>1. reps'[x] = reps[x] + 1 /\ cost' = cost /\ Project' = Project
      BY <1>1, <1>2 DEF cost, Project
    <3> QED BY <3>1, OneMore, <1>2 DEF Times
  <2>3. \A y \in 1..input.n : y # x => Times'[y] = Times[y]
    BY <1>1, <1>2 DEF Times, cost, Project
  <2>5. Total(Times', input.n)[input.n] = Total(Times, input.n)[input.n] + cost[x]
    <3>1. x \in 1..input.n /\ cost[x] \in Nat /\ input.n \in Nat
      BY <1>2 DEF Project
    <3> DEFINE h == Times  j == Times'  n == input.n  d == cost[x]
    <3>2. /\ n \in Nat /\ h \in [1..n -> Nat] /\ j \in [1..n -> Nat] /\ x \in 1..n
          /\ d \in Nat /\ j[x] = h[x] + d /\ \A y \in 1..n : y # x => j[y] = h[y]
      BY <2>1, <2>2, <2>3, <3>1
    <3> HIDE DEF h, j, n, d
    <3>3. Total(j, n)[n] = Total(h, n)[n] + d
      <4>1. \A y, e : y \in 1..n /\ e \in Nat /\ j[y] = h[y] + e
                        /\ (\A z \in 1..n : z # y => j[z] = h[z])
              => Total(j, n)[n] = Total(h, n)[n] + e
        BY ONLY <3>2, TotalGrows
      <4> QED BY ONLY <3>2, <4>1
    <3> QED BY <3>3 DEF h, j, n, d
  <2>6. EstimatedTotal = Total(Times, input.n)[input.n]
    BY EstimatedIsTotal
  <2>7. EstimatedTotal' = Total(Times, input.n)'[input.n']
    <3>1. (PlanTypeOK => EstimatedTotal = Total(Times, input.n)[input.n])'
      BY EstimatedIsTotal, PTL
    <3> QED BY <3>1
  <2>8. Total(Times, input.n)' = Total(Times', input.n)
    BY <1>1 DEF Total, IsTotal
  <2> QED BY <2>5, <2>6, <2>7, <2>8, <1>1
<1>4. remaining' >= 0 /\ EstimatedTotal' + remaining' = input.budget
  <2> DEFINE E == EstimatedTotal  F == EstimatedTotal'
  <2>1. /\ E \in Nat /\ E + remaining = input.budget /\ F = E + cost[x]
        /\ input.budget \in Nat /\ cost[x] \in Nat
    BY <1>1, <1>2, <1>3, EstimatedNat, InputFacts DEF BudgetInv
  <2> HIDE DEF E, F
  <2>2. F + remaining' = input.budget /\ remaining' >= 0
    BY <2>1, <1>1, <1>2
  <2> QED BY <2>2 DEF F
<1>5. \A p \in Project : reps'[p] \in 1..max_reps
  BY <1>1, <1>2 DEF BudgetInv
<1> QED BY <1>1, <1>4, <1>5 DEF BudgetInv, Project, max_reps

\* The costs of the projects up to the next one are added up.
LEMMA AddUpFits ==
  ASSUME PlanTypeOK, BudgetInv, AddUp
  PROVE  BudgetInv'
<1>1. /\ input' = input /\ stage = "costs" /\ stage' = "costs" /\ next \in 1..input.n
      /\ next' = next + 1 /\ minimum' = minimum + cost[next]
  BY DEF AddUp, Project
<1>2. input.n \in Nat /\ cost \in [1..input.n -> Int] /\ cost' = cost
  BY InputFacts, <1>1 DEF Project, cost
<1> DEFINE f == Total(cost, input.n)
<1>3. f[next] = f[next - 1] + cost[next]
  <2>1. IsTotal(f, cost, input.n)
    BY <1>2, TotalIs
  <2>2. next \in 0..input.n /\ next # 0
    BY <1>1, <1>2
  <2> HIDE DEF f
  <2>3. f[next] = IF next = 0 THEN 0 ELSE f[next - 1] + cost[next]
    BY <2>1, <2>2, TotalAt
  <2> QED BY <2>2, <2>3
<1>4. minimum' = f[next' - 1]
  <2>1. minimum = f[next - 1] /\ next' - 1 = next
    BY <1>1 DEF BudgetInv
  <2> HIDE DEF f
  <2> QED BY <2>1, <1>1, <1>3
<1>5. Total(cost, input.n)' = Total(cost, input.n)
  BY <1>1, <1>2 DEF Total, IsTotal
<1> QED BY <1>1, <1>2, <1>4, <1>5 DEF BudgetInv

\* One repetition of every project costs the minimum.
LEMMA MinimumFits ==
  ASSUME PlanTypeOK, PlanTypeOK', BudgetInv, Minimum
  PROVE  BudgetInv'
<1>1. CASE stage' = "refused"
  BY <1>1 DEF BudgetInv
<1>2. CASE minimum <= input.budget /\ stage' = "allocate"
  <2>1. /\ input' = input /\ stage = "costs" /\ reps' = [p \in Project |-> 1]
        /\ remaining' = input.budget - minimum /\ next \notin Project
    BY <1>2 DEF Minimum
  <2>2. input.n \in Nat /\ cost \in [1..input.n -> Nat] /\ cost' = cost /\ max_reps \in Nat \ {0}
    BY InputFacts, <2>1 DEF Project, cost
  <2>3. next - 1 = input.n /\ minimum = Total(cost, input.n)[input.n]
    BY <2>1, <2>2 DEF BudgetInv, Project
  <2>4. Times' = cost
    <3>1. \A p \in Project : 1 * cost[p] = cost[p]
      BY <2>2 DEF Project
    <3>2. Times' = [p \in Project |-> 1 * cost[p]]
      BY <2>1 DEF Times, Project, cost
    <3> QED BY <2>2, <3>1, <3>2 DEF Project
  <2>5. EstimatedTotal' = Total(cost, input.n)[input.n]
    <3>1. (PlanTypeOK => EstimatedTotal = Total(Times, input.n)[input.n])'
      BY EstimatedIsTotal, PTL
    <3>2. Total(Times, input.n)' = Total(cost, input.n)
      BY <2>1, <2>4 DEF Total, IsTotal
    <3> QED BY <2>1, <3>1, <3>2
  <2>6. EstimatedTotal' + remaining' = input.budget /\ remaining' >= 0
    <3> DEFINE E == EstimatedTotal'
    <3>1. E = minimum /\ minimum \in Nat /\ input.budget \in Nat
      BY <2>3, <2>5, InputFacts DEF PlanTypeOK
    <3> HIDE DEF E
    <3>2. E + remaining' = input.budget /\ remaining' >= 0
      BY <3>1, <2>1, <1>2
    <3> QED BY <3>2 DEF E
  <2>7. \A p \in Project : reps'[p] \in 1..max_reps
    BY <2>1, <2>2
  <2> QED BY <1>2, <2>1, <2>6, <2>7 DEF BudgetInv, Project, max_reps
<1> QED BY <1>1, <1>2 DEF Minimum

\* The plan keeps to the budget, gives every project between one repetition and
\* max_reps, and stops when nobody could have another.
THEOREM PlanKeepsToBudget == PlanSpec => []PlanFits
<1>1. PlanInit => BudgetInv
  <2> SUFFICES ASSUME PlanInit PROVE BudgetInv
    OBVIOUS
  <2>1. input.n \in Nat /\ cost \in [1..input.n -> Int]
    BY InputsAssumption DEF PlanInit, cost
  <2>2. Total(cost, input.n)[0] = 0
    <3>1. IsTotal(Total(cost, input.n), cost, input.n)
      BY <2>1, TotalIs
    <3> QED BY <2>1, <3>1, TotalStep
  <2> QED BY <2>1, <2>2 DEF PlanInit, BudgetInv
<1>2. PlanTypeOK /\ PlanTypeOK' /\ BudgetInv /\ [PlanNext]_plan => BudgetInv'
  <2> SUFFICES ASSUME PlanTypeOK, PlanTypeOK', BudgetInv, [PlanNext]_plan PROVE BudgetInv'
    OBVIOUS
  <2>1. CASE AddUp
    BY <2>1, AddUpFits
  <2>2. CASE Minimum
    BY <2>2, MinimumFits
  <2>3. ASSUME NEW p \in Project, Allocate(p) PROVE BudgetInv'
    BY <2>3, AllocateFits
  <2>4. CASE Planned
    BY <2>4 DEF Planned, BudgetInv, Project, cost, max_reps, Candidates, EstimatedTotal
  <2>5. CASE UNCHANGED plan
    BY <2>5 DEF plan, BudgetInv, Project, cost, max_reps, Candidates, EstimatedTotal, Total, IsTotal
  <2> QED BY <2>1, <2>2, <2>3, <2>4, <2>5 DEF PlanNext
<1> QED BY <1>1, <1>2, Fits, PlanTypeCorrect, PTL DEF PlanSpec

(***************************************************************************)
(* A failure leaves README.md alone                                        *)
(***************************************************************************)
Agrees(r) == r.summary = <<r.rows, r.words>>

BeforeInv ==
  /\ doing \notin {"nothing", "format"} => before = readme /\ outcome = "none"
  /\ doing = "format" => Agrees(readme) /\ outcome = "none"
  /\ FailureLeavesReadme

LEMMA BeforeInitially == B!Init => BeforeInv
  BY DEF B!Init, BeforeInv, FailureLeavesReadme

LEMMA QuotingAgrees == Agrees(B!SyncedText)
  BY DEF Agrees, B!SyncedText, B!Quoting

\* What a write leaves, ended or not: nothing new, or rows with their summary.
LEMMA WriteLeaves ==
  ASSUME NEW r \in B!HalfWritten
  PROVE  r = readme \/ r.text = "cut off" \/ Agrees(r)
<1> DEFINE q == Quoting(report, compile_time, startup)
<1>1. B!SyncedText = [q EXCEPT !.text = readme.text]
  BY DEF B!SyncedText, Quoting, B!Quoting, Listed, B!Listed
<1>2. Agrees(B!SyncedText)
  BY QuotingAgrees
<1>3. ASSUME r = [B!SyncedText EXCEPT !.text = "tail lost"] PROVE Agrees(r)
  BY <1>1, <1>3 DEF Agrees, Quoting
<1>4. ASSUME NEW k \in 0..N, r = [B!SyncedText EXCEPT !.text = "cut off", !.links = k]
      PROVE  r.text = "cut off"
  BY <1>1, <1>4 DEF Quoting
<1> QED
  BY <1>2, <1>3, <1>4 DEF B!HalfWritten

\* README.md is written by one action, and what fails without changing it says so.
LEMMA BeforeKept == BeforeInv /\ [B!Next]_(B!vars) => BeforeInv'
<1> SUFFICES ASSUME BeforeInv, [B!Next]_(B!vars) PROVE BeforeInv'
  OBVIOUS
<1> USE DEF BeforeInv, FailureLeavesReadme, B!Stop, B!Fail, B!Goto
<1>1. CASE B!Start
  BY <1>1 DEF B!Start
<1>2. CASE B!Plan \/ B!PlanEnds
  BY <1>2 DEF B!Plan, B!PlanEnds
<1>3. ASSUME NEW p \in Listed, B!Measure(p) PROVE BeforeInv'
  BY <1>3 DEF B!Measure
<1>4. CASE B!Headers \/ B!CompileTime \/ B!Startup
  BY <1>4 DEF B!Headers, B!CompileTime, B!Startup
<1>5. CASE B!SyncAlone \/ B!Sync
  BY <1>5 DEF B!SyncAlone, B!Sync, B!Syncing
<1>6. CASE B!Write
  <2>1. before = readme /\ before' = before
    BY <1>6 DEF B!Write, B!Writing
  <2>2. readme' \in B!HalfWritten
    BY <1>6 DEF B!Write, B!HalfWritten
  <2>3. readme' = before \/ readme'.text = "cut off" \/ Agrees(readme')
    BY <2>1, <2>2, WriteLeaves
  <2>4. CASE readme' = B!SyncedText /\ B!Goto("format", {})
    <3>1. Agrees(readme')
      BY <2>4, QuotingAgrees
    <3> QED
      BY <1>6, <2>4, <3>1 DEF B!Write, B!Writing, Agrees
  <2>5. CASE B!Stop("synced")
    BY <2>5
  <2>6. CASE B!Stop("failed late")
    BY <2>3, <2>6 DEF Agrees, B!Stop
  <2> QED
    BY <1>6, <2>4, <2>5, <2>6 DEF B!Write
<1>10. CASE B!Format
  BY <1>10 DEF B!Format, Agrees
<1>7. CASE B!Kill
  <2>1. doing' = "nothing" /\ outcome' = "killed" /\ before' = before
    BY <1>7 DEF B!Kill
  <2>2. CASE B!Writing
    <3>1. readme' \in B!HalfWritten /\ readme = before
      BY <1>7, <2>2 DEF B!Kill, B!Writing
    <3>2. readme' = before \/ readme'.text = "cut off" \/ Agrees(readme')
      BY <3>1, WriteLeaves
    <3> QED
      BY <2>1, <3>2 DEF Agrees
  <2>3. CASE ~B!Writing
    BY <1>7, <2>1, <2>3 DEF B!Kill, Agrees
  <2> QED
    BY <2>2, <2>3
<1>8. CASE B!Restore
  BY <1>8 DEF B!Restore
<1>9. CASE UNCHANGED B!vars
  BY <1>9 DEF B!vars
<1> QED
  BY <1>1, <1>2, <1>3, <1>4, <1>5, <1>6, <1>7, <1>8, <1>9, <1>10 DEF B!Next, Listed, B!Listed

\* A command that fails before it writes README.md leaves it as it found it; one that
\* fails or dies in the write or after it leaves the old text, a text cut off before
\* its last marker, or rows with the summary that belongs to them.
THEOREM FailuresLeaveReadme == B!Spec => []FailureLeavesReadme
<1>1. BeforeInv => FailureLeavesReadme
  BY DEF BeforeInv
<1> QED
  BY <1>1, BeforeInitially, BeforeKept, PTL DEF B!Spec

(***************************************************************************)
(* A success publishes this run's measurements                             *)
(***************************************************************************)
Scripted == {"plan", "projects", "headers", "compile", "startup", "sync", "write", "format"}
Alone    == {"nothing", "sync alone", "write alone"}
AfterProjects == {"headers", "compile", "startup", "sync", "write"}

Fields == {"links", "text", "rows", "words", "startup", "summary"}

QuotesThisRun ==
  /\ readme.links = N /\ readme.text # "cut off"
  /\ \A p \in Listed : readme.rows[p] = run
  /\ readme.words \in {run, NA} /\ readme.startup = run
  /\ readme.summary = <<readme.rows, readme.words>>

\* What is known of this run's reports at each place of run_benchmarks.sh.
FreshInv ==
  /\ doing \in Scripted \union Alone
  /\ DOMAIN report = Listed
  /\ DOMAIN readme = Fields /\ readme.text \in {"whole", "tail lost", "cut off"}
  /\ readme.links \in 0..N /\ (readme.text # "cut off" => readme.links = N)
  /\ doing = "projects" =>
       \A p \in 1..readme.links : p \in todo \/ report[p] = run
  /\ doing \in AfterProjects => \A p \in 1..readme.links : report[p] = run
  /\ doing \in {"startup", "sync", "write"} => compile_time \in {run, NA}
  /\ doing \in {"sync", "write"} => startup = run
  /\ doing \in {"write", "write alone"} => readme.text # "cut off"
  /\ doing = "format" => QuotesThisRun
  /\ doing # "nothing" => outcome # "finished"
  /\ FinishedQuotesThisRun

LEMMA NInRange == B!ReportsAssumption => N \in 0..N
  BY DEF B!ReportsAssumption

LEMMA SyncedFields ==
  /\ DOMAIN B!SyncedText = Fields
  /\ B!SyncedText.links = N /\ B!SyncedText.text = readme.text
  /\ B!SyncedText.rows = report /\ B!SyncedText.words = compile_time
  /\ B!SyncedText.startup = startup /\ B!SyncedText.summary = <<report, compile_time>>
  BY DEF B!SyncedText, B!Quoting, Fields

\* Whatever a write leaves has README.md's fields, and all links unless it is cut off.
LEMMA HalfWrittenFields ==
  ASSUME B!ReportsAssumption, FreshInv, B!Writing, NEW r \in B!HalfWritten
  PROVE  /\ DOMAIN r = Fields /\ r.text \in {"whole", "tail lost", "cut off"}
         /\ r.links \in 0..N /\ (r.text # "cut off" => r.links = N)
<1>1. CASE r = readme
  BY <1>1 DEF FreshInv
<1>2. CASE r = B!SyncedText
  BY <1>2, SyncedFields, NInRange DEF FreshInv
<1>3. CASE r = [B!SyncedText EXCEPT !.text = "tail lost"]
  BY <1>3, SyncedFields, NInRange DEF Fields
<1>4. ASSUME NEW k \in 0..N, r = [B!SyncedText EXCEPT !.text = "cut off", !.links = k]
      PROVE  DOMAIN r = Fields /\ r.text = "cut off" /\ r.links \in 0..N
  BY <1>4, SyncedFields DEF Fields
<1> QED
  BY <1>1, <1>2, <1>3, <1>4 DEF B!HalfWritten

LEMMA QuotingFields ==
  ASSUME NEW r, NEW rows, NEW words, NEW start, r = Quoting(rows, words, start)
  PROVE  /\ DOMAIN r = Fields
         /\ r.links = N /\ r.text = "whole" /\ r.rows = rows /\ r.words = words
         /\ r.startup = start /\ r.summary = <<rows, words>>
  BY DEF Quoting, Fields

LEMMA LinksListed ==
  ASSUME B!ReportsAssumption, NEW k \in 0..N
  PROVE  1..k \subseteq Listed
  BY DEF B!ReportsAssumption, Listed

LEMMA FreshInitially == B!ReportsAssumption /\ B!Init => FreshInv
<1> SUFFICES ASSUME B!ReportsAssumption, B!Init PROVE FreshInv
  OBVIOUS
<1>1. DOMAIN readme = Fields /\ readme.links = N /\ readme.text = "whole"
  BY QuotingFields DEF B!Init, Committed, B!Committed, Quoting, B!Quoting, Listed, B!Listed
<1> QED
  BY <1>1 DEF B!ReportsAssumption, B!Init, B!Committed, B!Quoting, B!Listed, FreshInv, Listed, Scripted, Alone, AfterProjects,
     FinishedQuotesThisRun

\* Only a write changes README.md, and only a whole one goes on to "finished".
LEMMA FreshKept == B!ReportsAssumption /\ FreshInv /\ [B!Next]_(B!vars) => FreshInv'
<1> SUFFICES ASSUME B!ReportsAssumption, FreshInv, [B!Next]_(B!vars) PROVE FreshInv'
  OBVIOUS
<1> USE DEF FreshInv, FinishedQuotesThisRun, QuotesThisRun, Scripted, Alone, AfterProjects
<1>1. CASE B!Start
  BY <1>1 DEF B!Start, B!reports
<1>2. CASE B!Plan \/ B!PlanEnds
  BY <1>2 DEF B!Plan, B!PlanEnds, B!reports, B!Stop, B!Fail, B!Goto
<1>3. ASSUME NEW p \in Listed, B!Measure(p) PROVE FreshInv'
  <2>1. CASE report' = [report EXCEPT ![p] = run] /\ B!Goto(doing, todo \ {p})
    <3>1. /\ doing = "projects" /\ doing' = "projects" /\ todo' = todo \ {p}
          /\ UNCHANGED <<readme, run, outcome, compile_time, startup>>
      BY <1>3, <2>1 DEF B!Measure, B!Goto
    <3>2. DOMAIN report' = Listed /\ \A q \in Listed : report'[q] = IF q = p THEN run ELSE report[q]
      BY <2>1
    <3>3. ASSUME NEW q \in 1..readme.links PROVE q \in todo' \/ report'[q] = run
      <4>1. q \in Listed
        BY <3>3, LinksListed DEF Listed
      <4> QED
        BY <3>1, <3>2, <3>3, <4>1
    <3> QED
      BY <3>1, <3>2, <3>3
  <2>2. CASE B!Fail
    <3>1. DOMAIN report' = Listed
      BY <1>3 DEF B!Measure
    <3> QED
      BY <1>3, <2>2, <3>1 DEF B!Measure, B!Fail, B!Stop
  <2> QED
    BY <1>3, <2>1, <2>2 DEF B!Measure
<1>4. CASE B!Headers
  BY <1>4 DEF B!Headers, B!reports, B!Stop, B!Fail, B!Goto
<1>5. CASE B!CompileTime
  BY <1>5 DEF B!CompileTime, B!Stop, B!Fail, B!Goto
<1>6. CASE B!Startup
  BY <1>6 DEF B!Startup, B!Stop, B!Fail, B!Goto
<1>7. CASE B!SyncAlone
  BY <1>7 DEF B!SyncAlone, B!reports
<1>8. CASE B!Sync
  BY <1>8 DEF B!Sync, B!Syncing, B!Readable, B!Listed, Listed, B!reports, B!Stop, B!Fail
<1>9. CASE B!Write
  <2>1. UNCHANGED <<report, compile_time, startup, run>> /\ B!Writing
    BY <1>9 DEF B!Write, B!reports
  <2>2. readme' \in B!HalfWritten
    BY <1>9 DEF B!Write, B!HalfWritten
  <2>3. /\ DOMAIN readme' = Fields /\ readme'.text \in {"whole", "tail lost", "cut off"}
        /\ readme'.links \in 0..N /\ (readme'.text # "cut off" => readme'.links = N)
    BY <2>1, <2>2, HalfWrittenFields
  <2>4. CASE doing = "write" /\ readme' = B!SyncedText /\ B!Goto("format", {})
    <3>1. readme.links = N /\ \A p \in Listed : report[p] = run
      BY <2>4 DEF Listed
    <3>2. QuotesThisRun'
      BY <2>1, <2>4, <3>1, SyncedFields
    <3>3. doing' = "format" /\ outcome' # "finished" /\ UNCHANGED run
      BY <2>1, <2>4 DEF B!Goto
    <3>4. \A p \in 1..readme'.links : report'[p] = run'
      BY <2>1, <2>3, <3>1, <3>2 DEF Listed
    <3>5. compile_time' \in {run', NA} /\ startup' = run'
      BY <2>1, <2>4
    <3> QED
      BY <2>1, <2>3, <3>2, <3>3, <3>4, <3>5
  <2>5. CASE B!Stop("synced") \/ B!Stop("failed late")
    BY <2>1, <2>3, <2>5 DEF B!Stop
  <2> QED
    BY <1>9, <2>4, <2>5 DEF B!Write
<1>13. CASE B!Format
  <2>1. /\ doing = "format" /\ doing' = "nothing"
        /\ UNCHANGED <<report, readme, run>>
    BY <1>13 DEF B!Format, B!Stop, B!reports
  <2>2. QuotesThisRun'
    BY <2>1
  <2> QED
    BY <2>1, <2>2
<1>10. CASE B!Kill
  <2>1. doing' = "nothing" /\ outcome' = "killed" /\ DOMAIN report' = Listed
    BY <1>10 DEF B!Kill, B!Stop
  <2>2. /\ DOMAIN readme' = Fields /\ readme'.text \in {"whole", "tail lost", "cut off"}
        /\ readme'.links \in 0..N /\ (readme'.text # "cut off" => readme'.links = N)
    <3>1. CASE readme' = readme
      BY <3>1
    <3>2. CASE B!Writing /\ readme' \in B!HalfWritten
      BY <3>2, HalfWrittenFields
    <3> QED
      BY <1>10, <3>1, <3>2 DEF B!Kill
  <2> QED
    BY <2>1, <2>2
<1>11. CASE B!Restore
  <2>1. DOMAIN readme' = Fields /\ readme'.links = N /\ readme'.text = "whole"
    BY <1>11, QuotingFields DEF B!Restore, Committed, B!Committed, Quoting, B!Quoting, Listed, B!Listed
  <2> QED
    <3>1. /\ doing = "nothing" /\ outcome' = "none"
          /\ UNCHANGED <<report, doing>>
      BY <1>11 DEF B!Restore, B!reports
    <3>2. readme'.links \in 0..N
      BY <2>1, NInRange
    <3> QED
      BY <2>1, <3>1, <3>2
<1>12. CASE UNCHANGED B!vars
  BY <1>12 DEF B!vars, B!reports
<1> QED
  BY <1>1, <1>2, <1>3, <1>4, <1>5, <1>6, <1>7, <1>8, <1>9, <1>10, <1>11, <1>12, <1>13 DEF B!Next, Listed, B!Listed

\* When run_benchmarks.sh says that all reports are updated, README.md quotes what
\* this run measured, for every listed project.
THEOREM SuccessIsFresh ==
  ASSUME B!ReportsAssumption
  PROVE  B!Spec => []FinishedQuotesThisRun
<1>1. FreshInv => FinishedQuotesThisRun
  BY DEF FreshInv
<1>2. B!Init => FreshInv
  BY B!ReportsAssumption, FreshInitially
<1>3. FreshInv /\ [B!Next]_(B!vars) => FreshInv'
  BY B!ReportsAssumption, FreshKept
<1> QED
  BY <1>1, <1>2, <1>3, PTL DEF B!Spec

================================================================================
