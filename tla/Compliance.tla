----------------------------- MODULE Compliance -----------------------------
(***************************************************************************)
(* tools/compliance.py: the libc++ tests of each header are run against    *)
(* the system library and psychicstd, a cache file keeps the results from  *)
(* run to run, and a baseline of known failures gates the sanitizer runs.  *)
(* tools/compliance_diff.py compares two such caches, as the workflows do: *)
(* the main branch publishes the cache of a fresh run, a pull request      *)
(* seeds its own with it, rechecks it and prints the difference.           *)
(***************************************************************************)
EXTENDS Integers, FiniteSetsExt, Functions

CONSTANTS
  Headers,      \* keys of HEADER_TO_DIRS whose header exists
  Tests,        \* test files, by their path below libcxx/test
  Dirs,         \* [Headers -> SUBSET Tests]: the files below a header's directories
  Roots,        \* places where llvm-project is checked out
  Features,     \* what a test file may say of itself
  Standard,     \* LANGUAGE_STANDARD
  Samples,      \* values of --sample
  Sanitize,     \* --sanitize: the runs are gated on the baseline
  System,       \* [Tests -> Outcomes]: what a test does with the system library
  First,        \* [Tests -> Outcomes]: the same for psychicstd, at first
  FirstSuite,   \* [Tests -> Features]: the suite at first
  Absent,       \* no file, no value
  Torn,         \* a file whose writing was interrupted
  MaxEdits,     \* bound: changes of the library or the suite
  MaxRuns       \* bound: runs of the tool

Outcomes == {"pass", "rfail", "cfail"}

\* A test's results, a header's entry and the cache (save_cache); psy is Absent
\* in a cache of the time when psychicstd was skipped after a failure.
Results == [sys : Outcomes, psy : Outcomes \cup {Absent}]
Entry   == [tests : UNION {[P -> Results] : P \in SUBSET (Roots \X Tests)},
            eligible : Nat, ignored : Nat]

ASSUME ComplianceAssumption ==
  /\ IsFiniteSet(Tests)
  /\ Dirs \in [Headers -> SUBSET Tests]
  /\ System \in [Tests -> Outcomes] /\ First \in [Tests -> Outcomes]
  /\ FirstSuite \in [Tests -> Features]
  /\ Samples \subseteq Nat
  /\ MaxEdits \in Nat /\ MaxRuns \in Nat
  /\ Absent \notin {"done", "green", "red", "died"}
  /\ \A H \in SUBSET Headers : {Absent, Torn} \cap [H -> Entry] = {}

VARIABLES
  library,        \* [Tests -> Outcomes]: what a test does with psychicstd now
  suite,          \* [Tests -> Features]: the test files of the checkout
  cache_file,     \* CACHE_FILE
  baseline_file,  \* BASELINE_FILE
  pc,             \* where main() is
  args,           \* the arguments of the last run
  cache,          \* main's cache
  todo,           \* headers of the run not yet checked
  tests,          \* check_header: cached_tests
  pending,        \* check_header: paths submitted to the pool and not finished
  exit,           \* how the last run ended, for the present library and suite
  base_file,      \* base_cache.json, the artifact of the main branch
  stage,          \* the pull request's job
  verdict,        \* what compliance_diff printed
  loaded,         \* history: the cache as load_cache returned it
  base_truth,     \* history: what the tests did when base_file was made
  edits, runs     \* bounds

env   == <<library, suite, edits>>
files == <<cache_file, baseline_file>>
prog  == <<args, cache, todo, tests, pending, loaded, runs>>
ci    == <<base_file, stage, verdict, base_truth>>
vars  == <<env, files, prog, pc, exit, ci>>

----------------------------------------------------------------------------
(* The suite. *)

Eligible == "eligible"

RequiresOtherStandard(r) ==
  \/ r.exact # {} /\ Standard \notin r.exact
  \/ \E v \in r.atleast : v > Standard

ClassifyTest(f) ==
  CASE f.form \notin {"pass", "compile.pass"} -> "irrelevant"
    [] f.form \in {"pass", "compile.pass"} /\ Standard \in f.unsupported -> "libcpp-specific"
    [] f.form \in {"pass", "compile.pass"} /\ Standard \notin f.unsupported /\
         (f.requires.libcpp \/ RequiresOtherStandard(f.requires)) -> "libcpp-specific"
    [] OTHER -> Eligible

\* A path names the checkout; TestId is what it is on every machine.
TestId(path) == path[2]

CollectEligible(h) == {args.root} \X {t \in Dirs[h] : ClassifyTest(suite[t]) = Eligible}

CountIgnored(h) == Quantify(Dirs[h], LAMBDA t : ClassifyTest(suite[t]) = "libcpp-specific")

\* A test that is only compiled cannot fail to run.
TryCompileRun(outcome, run_exe) ==
  IF outcome = "rfail" /\ ~run_exe THEN "pass" ELSE outcome

TestOne(t) ==
  [sys |-> TryCompileRun(System[t], suite[t].form = "pass"),
   psy |-> TryCompileRun(library[t], suite[t].form = "pass")]

----------------------------------------------------------------------------
(* The cache. *)

\* An entry, made or replaced.
Put(f, name, entry) ==
  [n \in DOMAIN f \union {name} |-> IF n = name THEN entry ELSE f[n]]

LoadCache == IF cache_file \in {Absent, Torn} THEN << >> ELSE cache_file

EmptyHeaderCache == [tests |-> << >>, eligible |-> 0, ignored |-> 0]

\* Mutant: every run starts a header's cache anew.
HeaderCacheAnew(h) == EmptyHeaderCache

HeaderCache(h) == IF h \in DOMAIN cache THEN cache[h] ELSE EmptyHeaderCache

\* Mutant: tests that the suite no longer counts stay.
CachedTestsAll(h) == HeaderCache(h).tests

\* Only tests that are still eligible are kept.
CachedTests(h) ==
  LET old == HeaderCache(h).tests
  IN  Restrict(old, DOMAIN old \cap CollectEligible(h))

\* Tests without a result, or with one of the time when psychicstd was skipped
\* after a failure of the system library.
Uncached(h) ==
  {p \in CollectEligible(h) :
     p \notin DOMAIN CachedTests(h) \/ CachedTests(h)[p].psy = Absent}

ResultCounts(results) ==
  LET tried   == {p \in DOMAIN results : results[p].psy # Absent}
      system  == {p \in tried : results[p].sys = "pass"}
      psychic == {p \in tried : results[p].psy = "pass"}
  IN  [both_pass    |-> Cardinality(system \cap psychic),
       system_only  |-> Cardinality(system \ psychic),
       psychic_only |-> Cardinality(psychic \ system),
       both_fail    |-> Cardinality(tried \ (system \cup psychic))]

SummaryFromCache(entry) ==
  LET n == ResultCounts(entry.tests)
  IN  [counts |-> n,
       tested |-> n.both_pass + n.system_only + n.psychic_only + n.both_fail,
       psychic_passes |-> n.both_pass + n.psychic_only,
       eligible |-> entry.eligible,
       untested |-> entry.eligible
                      - (n.both_pass + n.system_only + n.psychic_only + n.both_fail)]

\* The colour of a header's row.
ComplianceEmoji(n_pass, tested, relevant) ==
  CASE relevant = 0 \/ tested = 0 -> "white"
    [] relevant # 0 /\ tested # 0 /\ 10 * n_pass >= 8 * relevant -> "green"
    [] relevant # 0 /\ tested # 0 /\ 10 * n_pass < 2 * relevant -> "red"
    [] OTHER -> "yellow"

\* Mutant: the status of a test that does not build is looked for.
FailingToCompile(c) ==
  {TestId(p) : p \in UNION {{q \in DOMAIN c[h].tests :
                               c[h].tests[q].sys = "pass" /\ c[h].tests[q].psy = "cfail"} :
                              h \in DOMAIN c}}

\* Failures of psychicstd that the system library does not have.
Failing(c) ==
  {TestId(p) : p \in UNION {{q \in DOMAIN c[h].tests :
                               c[h].tests[q].sys = "pass" /\ c[h].tests[q].psy = "rfail"} :
                              h \in DOMAIN c}}

----------------------------------------------------------------------------
(* A run. *)

Requests ==
  {a \in [headers : (SUBSET Headers) \ {{}}, recheck : BOOLEAN, sample : Samples,
          update : BOOLEAN, root : Roots] :
     /\ a.update => Sanitize
     /\ a.recheck => a.sample = Max(Samples)}

StartRun ==
  /\ pc = "idle" /\ stage # "rechecked" /\ runs < MaxRuns
  /\ \E a \in Requests :
       /\ stage = "seeded" => a.recheck /\ ~a.update /\ a.headers = Headers
       /\ args' = a
       /\ cache' = LoadCache /\ loaded' = LoadCache
       /\ todo' = a.headers
  /\ pc' = "build"
  /\ runs' = runs + 1
  /\ exit' = Absent /\ verdict' = Absent
  /\ UNCHANGED <<env, files, tests, pending, base_file, stage, base_truth>>

BuildRuntimeArchive ==
  /\ pc = "build"
  /\ pc' = "headers"
  /\ UNCHANGED <<env, files, prog, exit, ci>>

\* The header to check next: main goes through them in one fixed order.
NextHeader(hs) == CHOOSE h \in hs : TRUE

\* Mutant: a recheck keeps what it has and runs what has failed again.
BeginHeaderKeeping ==
  /\ pc = "headers" /\ todo # {}
  /\ LET h == NextHeader(todo)
     IN  /\ tests' = CachedTests(h)
         /\ IF args.recheck
            THEN pending' = {p \in DOMAIN CachedTests(h) : CachedTests(h)[p].psy # "pass"}
            ELSE \E n \in {Min({args.sample, Cardinality(Uncached(h))})} :
                   pending' \in kSubset(n, Uncached(h))
  /\ pc' = "tests"
  /\ UNCHANGED <<env, files, args, cache, todo, loaded, runs, exit, ci>>

BeginHeader ==
  /\ pc = "headers" /\ todo # {}
  /\ LET h == NextHeader(todo)
     IN  IF args.recheck
         THEN tests' = << >> /\ pending' = DOMAIN CachedTests(h)
         ELSE /\ tests' = CachedTests(h)
              /\ \E n \in {Min({args.sample, Cardinality(Uncached(h))})} :
                   pending' \in kSubset(n, Uncached(h))
  /\ pc' = "tests"
  /\ UNCHANGED <<env, files, args, cache, todo, loaded, runs, exit, ci>>

FinishTest(p) ==
  /\ pc = "tests" /\ p \in pending
  /\ pending' = pending \ {p}
  /\ tests' = Put(tests, p, TestOne(TestId(p)))
  /\ UNCHANGED <<env, files, args, cache, todo, loaded, runs, pc, exit, ci>>

EndHeader ==
  /\ pc = "tests" /\ pending = {}
  /\ LET h == NextHeader(todo)
     IN  /\ cache' = Put(cache, h, [tests |-> tests,
                                   eligible |-> Cardinality(CollectEligible(h)),
                                   ignored |-> CountIgnored(h)])
         /\ todo' = todo \ {h}
  /\ tests' = << >>
  /\ pc' = "headers"
  /\ UNCHANGED <<env, files, args, pending, loaded, runs, exit, ci>>

\* write_text truncates the file before it writes.
TruncateCache ==
  /\ pc = "headers" /\ todo = {}
  /\ cache_file' = Torn
  /\ pc' = "save"
  /\ UNCHANGED <<env, baseline_file, prog, exit, ci>>

SaveCache ==
  /\ pc = "save"
  /\ cache_file' = cache
  /\ pc' = "report"
  /\ UNCHANGED <<env, baseline_file, prog, exit, ci>>

\* What the run leaves in the variables of main is read no more.
Leave(result) ==
  /\ pc' = "idle" /\ exit' = result
  /\ cache' = << >> /\ todo' = {} /\ tests' = << >> /\ pending' = {}
  /\ UNCHANGED <<args, loaded, runs>>

\* The job of the pull request goes on to the diff.
Finish(result) ==
  /\ Leave(result)
  /\ stage' = IF stage = "seeded" THEN "rechecked" ELSE stage
  /\ UNCHANGED <<env, cache_file, base_file, verdict, base_truth>>

WriteReport ==
  /\ pc = "report"
  /\ IF Sanitize
     THEN pc' = "gate" /\ UNCHANGED <<env, files, prog, exit, ci>>
     ELSE Finish("done") /\ UNCHANGED baseline_file

SaveBaseline ==
  /\ pc = "gate" /\ args.update
  /\ baseline_file' = Failing(cache)
  /\ Finish("done")

Gate ==
  /\ pc = "gate" /\ ~args.update
  /\ Finish(IF Failing(cache) \subseteq baseline_file THEN "green" ELSE "red")
  /\ UNCHANGED baseline_file

\* A test that raises, a library that does not build, a formatter that fails,
\* a full disk or a signal: what main had in memory is gone, and a baseline being
\* written has some of the new names, a name cut in two being nobody's.
Die ==
  /\ pc # "idle"
  /\ Leave("died")
  /\ baseline_file' \in {baseline_file} \union
       IF pc = "gate" /\ args.update THEN SUBSET Failing(cache) ELSE {}
  /\ stage' = IF stage = "seeded" THEN "base" ELSE stage
  /\ UNCHANGED <<env, cache_file, base_file, verdict, base_truth>>

----------------------------------------------------------------------------
(* compliance_diff.py *)

TestResults(c, h) ==
  IF h \notin DOMAIN c THEN << >>
  ELSE [t \in {TestId(p) : p \in DOMAIN c[h].tests} |->
          c[h].tests[CHOOSE p \in DOMAIN c[h].tests : TestId(p) = t]]

Corpus(base, head, h) == DOMAIN TestResults(base, h) \cap DOMAIN TestResults(head, h)

Passes(results, corpus) == Quantify(corpus, LAMBDA t : results[t].psy = "pass")

\* Mutant: the two totals are compared, over whatever tests they have.
DeltaOfTotals(base, head, h) ==
  Passes(TestResults(head, h), DOMAIN TestResults(head, h))
    - Passes(TestResults(base, h), DOMAIN TestResults(base, h))

Delta(base, head, h) ==
  LET corpus == Corpus(base, head, h)
  IN  Passes(TestResults(head, h), corpus) - Passes(TestResults(base, h), corpus)

Compared(base, head) ==
  LET all == DOMAIN base \cup DOMAIN head
  IN  [regressed |-> {h \in all : Delta(base, head, h) < 0},
       improved  |-> {h \in all : Delta(base, head, h) > 0},
       corpus    |-> [h \in all |-> Corpus(base, head, h)]]

----------------------------------------------------------------------------
(* The workflows. *)

\* The main branch starts without a cache and renames the one it made.
PublishBase ==
  /\ pc = "idle" /\ stage = "none"
  /\ exit \in {"done", "green", "red"} /\ ~args.recheck /\ args.headers = Headers
  /\ loaded = << >>
  /\ base_file' = cache_file /\ cache_file' = Absent
  /\ base_truth' = [t \in Tests |-> TestOne(t)]
  /\ stage' = "base" /\ exit' = Absent
  /\ UNCHANGED <<env, baseline_file, prog, pc, verdict>>

SeedFromBase ==
  /\ pc = "idle" /\ stage = "base" /\ runs < MaxRuns
  /\ cache_file' = base_file
  /\ stage' = "seeded" /\ exit' = Absent
  /\ UNCHANGED <<env, baseline_file, prog, pc, base_file, verdict, base_truth>>

PrintDiff ==
  /\ pc = "idle" /\ stage = "rechecked"
  /\ verdict' = Compared(base_file, LoadCache)
  /\ stage' = "base"
  /\ UNCHANGED <<env, files, prog, pc, exit, base_file, base_truth>>

\* Somebody changes the library or pulls a new suite.
Edit ==
  /\ pc = "idle" /\ stage \in {"none", "base"} /\ edits < MaxEdits
  /\ edits' = edits + 1
  /\ \/ /\ \E t \in Tests, o \in Outcomes : library' = [library EXCEPT ![t] = o]
        /\ UNCHANGED suite
     \/ /\ \E t \in Tests, f \in Features : suite' = [suite EXCEPT ![t] = f]
        /\ UNCHANGED library
  /\ library' # library \/ suite' # suite
  /\ exit' = Absent /\ verdict' = Absent
  /\ UNCHANGED <<files, prog, pc, base_file, stage, base_truth>>

----------------------------------------------------------------------------

\* What an earlier version left: psychicstd was not tried where the system failed.
OldCaches ==
  {Put(<< >>, x[1], [tests |-> Put(<< >>, <<x[2], x[3]>>, [sys |-> System[x[3]], psy |-> Absent]),
                     eligible |-> 1, ignored |-> 0]) :
     x \in {y \in Headers \X Roots \X Tests : y[3] \in Dirs[y[1]] /\ System[y[3]] # "pass"}}

Init ==
  /\ library = First
  /\ suite = FirstSuite
  /\ cache_file \in {Absent} \cup OldCaches /\ baseline_file = {}
  /\ pc = "idle"
  /\ args \in {a \in Requests : a.headers = Headers /\ a.recheck /\ ~a.update}
  /\ cache = << >> /\ todo = {} /\ tests = << >> /\ pending = {} /\ loaded = << >>
  /\ exit = Absent
  /\ base_file = Absent /\ stage = "none" /\ verdict = Absent /\ base_truth = Absent
  /\ edits = 0 /\ runs = 0

Next ==
  \/ StartRun \/ BuildRuntimeArchive \/ BeginHeader \/ EndHeader
  \/ \E p \in pending : FinishTest(p)
  \/ TruncateCache \/ SaveCache \/ WriteReport \/ SaveBaseline \/ Gate \/ Die
  \/ PublishBase \/ SeedFromBase \/ PrintDiff \/ Edit

Spec == Init /\ [][Next]_vars

----------------------------------------------------------------------------
(* Properties. *)

Entries == IF cache_file \in {Absent, Torn} THEN {} ELSE DOMAIN cache_file

\* A run over these headers measured every result of theirs itself.
Measured == args.recheck \/ loaded = << >>

\* Every file the program wrote can be read back and adds up: a header's results
\* are of tests below its directories, and the columns of its row in the report,
\* untested among them, are counts that sum to its eligible tests (main, the rows
\* of headers that the run did not check are made from the cache alone); a green
\* row hides no more than a fifth of untested tests.
CacheAddsUp ==
  /\ pc \in {"idle", "build", "headers", "tests", "save", "report", "gate"}
  /\ exit \in {Absent, "done", "green", "red", "died"}
  /\ \A h \in Entries :
       LET s == SummaryFromCache(cache_file[h])
       IN  /\ \A p \in DOMAIN cache_file[h].tests : p[2] \in Dirs[h]
           /\ s.untested >= 0
           /\ s.psychic_passes <= s.tested
           /\ ComplianceEmoji(s.psychic_passes, s.tested, s.eligible) = "green"
                => 5 * s.untested <= s.eligible
           /\ s.tested + s.untested + cache_file[h].ignored <= Cardinality(Dirs[h])

\* A run loses no result (check_header, save_cache): whatever was in the cache it
\* loaded for a test that is still eligible is in the cache it saves, headers it
\* was not asked for included, and unless it rechecks the result is the old one.
NothingForgotten ==
  [][pc = "save" /\ pc' = "report" =>
       \A h \in DOMAIN loaded :
         /\ h \in DOMAIN cache_file'
         /\ h \notin args.headers => cache_file'[h] = loaded[h]
         /\ \A p \in DOMAIN loaded[h].tests :
              h \in args.headers /\ p \in CollectEligible(h) =>
                /\ p \in DOMAIN cache_file'[h].tests
                /\ \/ args.recheck \/ loaded[h].tests[p].psy = Absent
                   \/ cache_file'[h].tests[p] = loaded[h].tests[p]]_vars

\* After a recheck, or a run that found no cache, what the cache says of the
\* headers of the run is what the tests do now, and of nothing but eligible tests
\* (check_header: a stale result must not survive --recheck).
RecheckIsCurrent ==
  exit \in {"done", "green", "red"} /\ Measured =>
    \A h \in args.headers :
      /\ h \in DOMAIN cache_file
      /\ \A p \in DOMAIN cache_file[h].tests :
           /\ ClassifyTest(suite[TestId(p)]) = Eligible
           /\ cache_file[h].tests[p] = TestOne(TestId(p))

\* A sanitizer run that ends green after measuring everything anew means that
\* each failure at run time of a cached test, which the system library does not
\* have, was in the baseline (the gate at the end of main), whichever of the
\* headers that share the test it was run for and whatever crashed before.
GreenMeansKnown ==
  exit = "green" /\ Measured =>
    \A h \in args.headers : \A p \in DOMAIN cache_file[h].tests :
      LET now == TestOne(TestId(p))
      IN  now.sys = "pass" /\ now.psy = "rfail" => TestId(p) \in baseline_file

\* What compliance_diff reports of a pull request is what the pull request did: a
\* header has regressed when more of the tests of the base run that are still
\* eligible stopped passing than began to, between the base's revision and this one.
DiffHonest ==
  verdict # Absent =>
    \A h \in Headers :
      LET common == {t \in DOMAIN TestResults(base_file, h) : ClassifyTest(suite[t]) = Eligible}
          worse  == {t \in common : base_truth[t].psy = "pass" /\ TestOne(t).psy # "pass"}
          better == {t \in common : base_truth[t].psy # "pass" /\ TestOne(t).psy = "pass"}
      IN  /\ h \in verdict.regressed <=> Cardinality(worse) > Cardinality(better)
          /\ h \in verdict.improved <=> Cardinality(worse) < Cardinality(better)

=============================================================================
