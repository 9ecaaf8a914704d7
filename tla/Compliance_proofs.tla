-------------------------- MODULE Compliance_proofs --------------------------
(***************************************************************************)
(* Theorems about Compliance, for any headers, tests, suites, libraries    *)
(* and number of runs: what a run that measures everything leaves in the   *)
(* cache is current, a green gate means that the failures are known, no    *)
(* run forgets a result, the rows of the report add up, and the diff of a  *)
(* pull request tells what the pull request did.                           *)
(***************************************************************************)
EXTENDS Compliance, FiniteSetTheorems, TLAPS

Places == {"idle", "build", "headers", "tests", "save", "report", "gate"}

Succeeded == {"done", "green", "red"}

(***************************************************************************)
(* Where main is, and how the last run ended                               *)
(***************************************************************************)
RunInv ==
  /\ pc \in Places
  /\ pc # "idle" => exit = Absent
  /\ pc \in {"build", "headers", "tests"} => todo \subseteq args.headers
  /\ pc = "tests" => todo # {}
  /\ pc = "tests" => pending \subseteq CollectEligible(NextHeader(todo))
  /\ pc \in {"report", "gate"} => cache_file = cache

LEMMA NextHeaderIsTodo == \A hs : hs # {} => NextHeader(hs) \in hs
  BY DEF NextHeader

\* While neither the suite nor the library changes, tests stay what they are.
LEMMA SuiteStays ==
  ASSUME UNCHANGED <<suite, args>>
  PROVE  /\ \A h : CollectEligible(h)' = CollectEligible(h)
         /\ \A t : ClassifyTest(suite[t])' = ClassifyTest(suite[t])
  BY DEF CollectEligible, ClassifyTest

LEMMA ResultsStay ==
  ASSUME UNCHANGED <<library, suite>>
  PROVE  \A t : TestOne(t)' = TestOne(t)
  BY DEF TestOne, TryCompileRun

\* What a run submits is eligible (check_header).
LEMMA SubmitsEligible ==
  ASSUME BeginHeader
  PROVE  /\ todo # {}
         /\ pending' \subseteq CollectEligible(NextHeader(todo))
         /\ ~args.recheck => pending' \subseteq Uncached(NextHeader(todo))
<1> DEFINE h == NextHeader(todo)
<1>1. DOMAIN CachedTests(h) \subseteq CollectEligible(h)
  BY DEF CachedTests, Restrict
<1>2. Uncached(h) \subseteq CollectEligible(h)
  BY DEF Uncached
<1>3. CASE args.recheck
  BY <1>1, <1>3 DEF BeginHeader
<1>4. CASE ~args.recheck
  <2>1. \E n : pending' \in kSubset(n, Uncached(h))
    BY <1>4 DEF BeginHeader
  <2>2. pending' \subseteq Uncached(h)
    BY <2>1 DEF kSubset
  <2> QED
    BY <1>2, <1>4, <2>2 DEF BeginHeader
<1> QED
  BY <1>3, <1>4

LEMMA RunInitially == Init => RunInv
  BY DEF Init, RunInv, Places

LEMMA RunKept == RunInv /\ [Next]_vars => RunInv'
<1> SUFFICES ASSUME RunInv, [Next]_vars PROVE RunInv'
  OBVIOUS
<1> USE DEF RunInv, Places
<1>1. CASE StartRun
  BY <1>1 DEF StartRun
<1>2. CASE BuildRuntimeArchive
  BY <1>2 DEF BuildRuntimeArchive, prog, files
<1>3. CASE BeginHeader
  <2>1. CollectEligible(NextHeader(todo))' = CollectEligible(NextHeader(todo))
    BY <1>3 DEF BeginHeader, env, CollectEligible, NextHeader, ClassifyTest
  <2>2. pc' = "tests" /\ UNCHANGED <<todo, args, exit>> /\ pc = "headers"
    BY <1>3 DEF BeginHeader
  <2> QED
    BY <1>3, <2>1, <2>2, SubmitsEligible
<1>4. ASSUME NEW p \in pending, FinishTest(p) PROVE RunInv'
  <2>1. CollectEligible(NextHeader(todo))' = CollectEligible(NextHeader(todo))
    BY <1>4 DEF FinishTest, env, CollectEligible, NextHeader, ClassifyTest
  <2> QED
    BY <1>4, <2>1 DEF FinishTest
<1>5. CASE EndHeader
  BY <1>5 DEF EndHeader
<1>6. CASE TruncateCache \/ SaveCache
  BY <1>6 DEF TruncateCache, SaveCache, prog
<1>7. CASE WriteReport
  BY <1>7 DEF WriteReport, Finish, Leave, prog, files
<1>8. CASE SaveBaseline \/ Gate \/ Die
  BY <1>8 DEF SaveBaseline, Gate, Die, Finish, Leave
<1>9. CASE PublishBase \/ SeedFromBase \/ PrintDiff \/ Edit
  BY <1>9 DEF PublishBase, SeedFromBase, PrintDiff, Edit, prog, files
<1>10. CASE UNCHANGED vars
  <2>1. CollectEligible(NextHeader(todo))' = CollectEligible(NextHeader(todo))
    BY <1>10 DEF vars, env, prog, CollectEligible, NextHeader, ClassifyTest
  <2> QED
    BY <1>10, <2>1 DEF vars, prog, files
<1> QED
  BY <1>1, <1>2, <1>3, <1>4, <1>5, <1>6, <1>7, <1>8, <1>9, <1>10 DEF Next

(***************************************************************************)
(* What a run that measures everything leaves in the cache                 *)
(***************************************************************************)
CurrentTests(results) ==
  \A p \in DOMAIN results :
    /\ ClassifyTest(suite[TestId(p)]) = Eligible
    /\ results[p] = TestOne(TestId(p))

Current(c, hs) == \A h \in hs : h \in DOMAIN c /\ CurrentTests(c[h].tests)

CurrentInv ==
  /\ pc \in {"build", "headers", "tests"} /\ loaded = << >> =>
       DOMAIN cache \subseteq args.headers \ todo
  /\ pc \in {"build", "headers", "tests"} /\ Measured => Current(cache, args.headers \ todo)
  /\ pc = "tests" /\ Measured => CurrentTests(tests)
  /\ pc \in {"save", "report", "gate"} /\ Measured => Current(cache, args.headers)
  /\ exit \in Succeeded /\ Measured => Current(cache_file, args.headers)

LEMMA CurrentStays ==
  ASSUME UNCHANGED <<library, suite>>
  PROVE  /\ \A r : CurrentTests(r)' <=> CurrentTests(r)
         /\ \A c, hs : Current(c, hs)' <=> Current(c, hs)
  BY ResultsStay DEF CurrentTests, Current, ClassifyTest, Eligible, TestId

LEMMA EmptyTuple == DOMAIN << >> = {}
  OBVIOUS

LEMMA EligibleTests == \A h : \A p \in CollectEligible(h) : ClassifyTest(suite[TestId(p)]) = Eligible
  BY DEF CollectEligible, TestId

LEMMA CurrentInitially == Init => CurrentInv
  BY ComplianceAssumption DEF Init, CurrentInv, Succeeded

\* A run that measures everything keeps no result of an earlier one.
LEMMA MeasuredStartsEmpty ==
  ASSUME RunInv, CurrentInv, Measured, BeginHeader
  PROVE  CurrentTests(tests')
<1> DEFINE h == NextHeader(todo)
<1>1. CASE args.recheck
  <2>1. tests' = << >>
    BY <1>1 DEF BeginHeader
  <2> QED
    BY <2>1, EmptyTuple DEF CurrentTests
<1>2. CASE ~args.recheck
  <2>1. loaded = << >> /\ pc = "headers" /\ todo # {} /\ tests' = CachedTests(h)
    BY <1>2 DEF Measured, BeginHeader
  <2>2. h \notin DOMAIN cache
    BY <2>1, NextHeaderIsTodo DEF CurrentInv
  <2>3. HeaderCache(h).tests = << >>
    BY <2>2 DEF HeaderCache, EmptyHeaderCache
  <2>4. DOMAIN CachedTests(h) = {}
    BY <2>3, EmptyTuple DEF CachedTests, Restrict
  <2> QED
    BY <2>1, <2>4 DEF CurrentTests
<1> QED
  BY <1>1, <1>2

\* A finished test is current, and the others stay so.
LEMMA FinishedIsCurrent ==
  ASSUME RunInv, CurrentTests(tests), NEW p \in pending, FinishTest(p)
  PROVE  CurrentTests(tests')
<1>1. p \in CollectEligible(NextHeader(todo))
  BY DEF FinishTest, RunInv
<1>2. ClassifyTest(suite[TestId(p)]) = Eligible
  BY <1>1, EligibleTests
<1>3. /\ DOMAIN tests' = DOMAIN tests \union {p}
      /\ \A q \in DOMAIN tests' :
           tests'[q] = IF q = p THEN TestOne(TestId(p)) ELSE tests[q]
  BY DEF FinishTest, Put
<1> QED
  BY <1>2, <1>3 DEF CurrentTests

LEMMA CurrentKept == RunInv /\ CurrentInv /\ [Next]_vars => CurrentInv'
<1> SUFFICES ASSUME RunInv, CurrentInv, [Next]_vars PROVE CurrentInv'
  OBVIOUS
<1>0. exit \in Succeeded => pc = "idle"
  BY ComplianceAssumption DEF RunInv, Succeeded
<1> USE DEF CurrentInv
<1>1. CASE StartRun
  <2>1. /\ pc' = "build" /\ exit' = Absent /\ cache' = loaded' /\ todo' = args'.headers
    BY <1>1 DEF StartRun
  <2>2. args'.headers \ todo' = {}
    BY <2>1
  <2>3. Current(cache, args.headers \ todo)'
    BY <2>2 DEF Current
  <2> QED
    BY <2>1, <2>2, <2>3, EmptyTuple, ComplianceAssumption DEF Succeeded
<1>2. CASE BuildRuntimeArchive
  BY <1>2, <1>0, CurrentStays DEF BuildRuntimeArchive, prog, env, Measured, Succeeded, RunInv
<1>3. CASE BeginHeader
  <2>1. UNCHANGED <<library, suite, args, cache, todo, loaded, exit, cache_file>>
        /\ pc = "headers" /\ pc' = "tests"
    BY <1>3 DEF BeginHeader, env, files
  <2>2. Measured => CurrentTests(tests')
    BY <1>3, MeasuredStartsEmpty
  <2>3. Measured' = Measured
    BY <2>1 DEF Measured
  <2>4. CurrentTests(tests)' <=> CurrentTests(tests')
    BY <2>1, ResultsStay DEF CurrentTests, ClassifyTest, Eligible, TestId
  <2> QED
    BY <1>0, <2>1, <2>2, <2>3, <2>4, CurrentStays
<1>4. ASSUME NEW p \in pending, FinishTest(p) PROVE CurrentInv'
  <2>1. UNCHANGED <<library, suite, args, cache, todo, loaded, exit, cache_file, pc>>
        /\ pc = "tests"
    BY <1>4 DEF FinishTest, env, files
  <2>2. Measured => CurrentTests(tests')
    BY <1>4, <2>1, FinishedIsCurrent
  <2>3. Measured' = Measured
    BY <2>1 DEF Measured
  <2>4. CurrentTests(tests)' <=> CurrentTests(tests')
    BY <2>1, ResultsStay DEF CurrentTests, ClassifyTest, Eligible, TestId
  <2> QED
    BY <1>0, <2>1, <2>2, <2>3, <2>4, CurrentStays
<1>5. CASE EndHeader
  <2> DEFINE h == NextHeader(todo)
  <2>1. UNCHANGED <<library, suite, args, loaded, exit, cache_file>>
        /\ pc = "tests" /\ pc' = "headers" /\ todo' = todo \ {h}
    BY <1>5 DEF EndHeader, env, files
  <2>2. /\ DOMAIN cache' = DOMAIN cache \union {h}
        /\ cache'[h].tests = tests
        /\ \A g \in DOMAIN cache \ {h} : cache'[g] = cache[g]
    BY <1>5 DEF EndHeader, Put
  <2>3. h \in todo /\ h \in args.headers
    BY <2>1, NextHeaderIsTodo DEF RunInv
  <2>4. Measured => \A g \in args.headers \ todo' : g \in DOMAIN cache' /\ CurrentTests(cache'[g].tests)
    BY <2>1, <2>2, <2>3 DEF Current
  <2>5. Measured' = Measured
    BY <2>1 DEF Measured
  <2>6. Current(cache, args.headers \ todo)'
          <=> \A g \in args.headers \ todo' : g \in DOMAIN cache' /\ CurrentTests(cache'[g].tests)
    BY <2>1, ResultsStay DEF Current, CurrentTests, ClassifyTest, Eligible, TestId
  <2> QED
    BY <1>0, <2>1, <2>2, <2>3, <2>4, <2>5, <2>6
<1>6. CASE TruncateCache \/ SaveCache
  <2>1. /\ UNCHANGED <<library, suite, args, cache, todo, loaded, exit>>
        /\ (pc = "headers" /\ todo = {} /\ pc' = "save") \/ (pc = "save" /\ pc' = "report")
    BY <1>6 DEF TruncateCache, SaveCache, env, prog
  <2>2. Measured' = Measured
    BY <2>1 DEF Measured
  <2>3. exit' \notin Succeeded
    BY <1>0, <2>1
  <2>4. todo = {} => args.headers \ todo = args.headers
    OBVIOUS
  <2> QED
    BY <2>1, <2>2, <2>3, <2>4, CurrentStays
<1>7. ASSUME Leave(exit'), pc \in {"report", "gate"} \/ exit' = "died",
             UNCHANGED <<library, suite, cache_file>>
      PROVE  CurrentInv'
  <2>1. pc' = "idle" /\ UNCHANGED <<args, loaded>>
    BY <1>7 DEF Leave
  <2>2. Measured' = Measured
    BY <2>1 DEF Measured
  <2>3. exit' \in Succeeded => cache_file = cache /\ pc \in {"report", "gate"}
    BY <1>7 DEF RunInv, Succeeded
  <2> QED
    BY <1>7, <2>1, <2>2, <2>3, CurrentStays
<1>8. CASE WriteReport
  <2>1. CASE Sanitize
    <3>1. /\ UNCHANGED <<library, suite, args, cache, loaded, exit>>
          /\ pc = "report" /\ pc' = "gate"
      BY <1>8, <2>1 DEF WriteReport, env, prog
    <3>2. Measured' = Measured
      BY <3>1 DEF Measured
    <3> QED
      BY <1>0, <3>1, <3>2, CurrentStays
  <2>2. CASE ~Sanitize
    <3>1. Leave("done") /\ exit' = "done" /\ pc = "report" /\ UNCHANGED <<library, suite, cache_file>>
      BY <1>8, <2>2 DEF WriteReport, Finish, Leave, env
    <3> QED
      BY <3>1, <1>7
  <2> QED
    BY <2>1, <2>2
<1>9. CASE SaveBaseline
  <2>1. Leave("done") /\ exit' = "done" /\ pc = "gate" /\ UNCHANGED <<library, suite, cache_file>>
    BY <1>9 DEF SaveBaseline, Finish, Leave, env
  <2> QED
    BY <2>1, <1>7
<1>10. CASE Gate
  <2>1. Leave(exit') /\ pc = "gate" /\ UNCHANGED <<library, suite, cache_file>>
    BY <1>10 DEF Gate, Finish, Leave, env
  <2> QED
    BY <2>1, <1>7
<1>11. CASE Die
  <2>1. Leave("died") /\ exit' = "died" /\ UNCHANGED <<library, suite, cache_file>>
    BY <1>11 DEF Die, Leave, env
  <2> QED
    BY <2>1, <1>7
<1>12. CASE PublishBase \/ SeedFromBase \/ Edit
  BY <1>12, ComplianceAssumption DEF PublishBase, SeedFromBase, Edit, Succeeded, prog
<1>13. CASE PrintDiff
  BY <1>13, CurrentStays DEF PrintDiff, env, files, prog, Measured
<1>14. CASE UNCHANGED vars
  BY <1>14, CurrentStays DEF vars, env, files, prog, Measured
<1> QED
  BY <1>1, <1>2, <1>3, <1>4, <1>5, <1>6, <1>8, <1>9, <1>10, <1>11, <1>12, <1>13, <1>14 DEF Next

\* A stale result does not survive a run that measures everything
\* (check_header), and nor does a test that the suite no longer counts.
THEOREM RecheckLeavesNothingStale == Spec => []RecheckIsCurrent
<1>1. RunInv /\ CurrentInv => RecheckIsCurrent
  BY DEF CurrentInv, RecheckIsCurrent, Current, CurrentTests, Succeeded
<1>2. RunInv /\ CurrentInv /\ [Next]_vars => (RunInv /\ CurrentInv)'
  BY RunKept, CurrentKept
<1> QED
  BY <1>1, <1>2, RunInitially, CurrentInitially, PTL DEF Spec

(***************************************************************************)
(* The gate                                                                *)
(***************************************************************************)
GreenInv == exit = "green" => Failing(cache_file) \subseteq baseline_file

LEMMA GreenInitially == Init => GreenInv
  BY ComplianceAssumption DEF Init, GreenInv

LEMMA GreenKept == RunInv /\ GreenInv /\ [Next]_vars => GreenInv'
<1> SUFFICES ASSUME RunInv, GreenInv, [Next]_vars PROVE GreenInv'
  OBVIOUS
<1>1. CASE Gate
  <2>1. cache_file' = cache_file /\ baseline_file' = baseline_file /\ cache_file = cache
        /\ exit' = (IF Failing(cache) \subseteq baseline_file THEN "green" ELSE "red")
    BY <1>1 DEF Gate, Finish, Leave, RunInv
  <2> QED
    BY <2>1 DEF GreenInv, Failing
<1>2. CASE pc # "idle" /\ exit' = exit
  BY <1>2, ComplianceAssumption DEF RunInv, GreenInv
<1>3. CASE exit' \in {Absent, "done", "died"}
  BY <1>3, ComplianceAssumption DEF GreenInv
<1>4. CASE UNCHANGED <<cache_file, baseline_file, exit>>
  BY <1>4 DEF GreenInv, Failing
<1>5. CASE StartRun \/ BuildRuntimeArchive \/ BeginHeader \/ EndHeader \/ TruncateCache \/ SaveCache
  BY <1>2, <1>3, <1>5
  DEF StartRun, BuildRuntimeArchive, BeginHeader, EndHeader, TruncateCache, SaveCache
<1>6. ASSUME NEW p \in pending, FinishTest(p) PROVE GreenInv'
  BY <1>2, <1>6 DEF FinishTest
<1>7. CASE WriteReport
  BY <1>2, <1>3, <1>7 DEF WriteReport, Finish, Leave
<1>8. CASE SaveBaseline \/ Die
  BY <1>3, <1>8 DEF SaveBaseline, Die, Finish, Leave
<1>9. CASE PublishBase \/ SeedFromBase \/ Edit
  BY <1>3, <1>9 DEF PublishBase, SeedFromBase, Edit
<1>10. CASE PrintDiff \/ UNCHANGED vars
  BY <1>4, <1>10 DEF PrintDiff, vars, files
<1> QED
  BY <1>1, <1>5, <1>6, <1>7, <1>8, <1>9, <1>10 DEF Next

\* A green run that measured everything knows each failure at run time that
\* the system library does not have (the gate at the end of main).
THEOREM GreenIsDeserved == Spec => []GreenMeansKnown
<1>1. RunInv /\ CurrentInv /\ GreenInv => GreenMeansKnown
  <2> SUFFICES ASSUME CurrentInv, GreenInv, exit = "green", Measured,
                      NEW h \in args.headers, NEW p \in DOMAIN cache_file[h].tests,
                      TestOne(TestId(p)).sys = "pass", TestOne(TestId(p)).psy = "rfail"
               PROVE  TestId(p) \in baseline_file
    BY DEF GreenMeansKnown
  <2>1. h \in DOMAIN cache_file /\ cache_file[h].tests[p] = TestOne(TestId(p))
    BY DEF CurrentInv, Current, CurrentTests, Succeeded
  <2>2. TestId(p) \in Failing(cache_file)
    BY <2>1 DEF Failing
  <2> QED
    BY <2>2 DEF GreenInv
<1>2. RunInv /\ CurrentInv /\ GreenInv /\ [Next]_vars => (RunInv /\ CurrentInv /\ GreenInv)'
  BY RunKept, CurrentKept, GreenKept
<1> QED
  BY <1>1, <1>2, RunInitially, CurrentInitially, GreenInitially, PTL DEF Spec

(***************************************************************************)
(* Results that were there before                                          *)
(***************************************************************************)

\* A result of old is in new or will be, and unless it is made anew it is the same.
Kept(old, new, still) ==
  \A p \in DOMAIN old :
    /\ p \in DOMAIN new \union still
    /\ args.recheck \/ old[p].psy = Absent \/ (p \notin still /\ new[p] = old[p])

\* The results of h in the cache that the run loaded, of tests that still count.
Loaded(h) == Restrict(loaded[h].tests, DOMAIN loaded[h].tests \cap CollectEligible(h))

KeptInv ==
  /\ pc \in {"build", "headers", "tests", "save"} =>
       \A h \in DOMAIN loaded :
         /\ h \in DOMAIN cache
         /\ h \notin args.headers => cache[h] = loaded[h]
         /\ pc # "save" /\ h \in todo => cache[h] = loaded[h]
         /\ h \in args.headers /\ (pc = "save" \/ h \notin todo) =>
              Kept(Loaded(h), cache[h].tests, {})
  /\ pc = "tests" /\ NextHeader(todo) \in DOMAIN loaded =>
       Kept(Loaded(NextHeader(todo)), tests, pending)

LEMMA KeptStays ==
  ASSUME UNCHANGED <<suite, args, loaded>>
  PROVE  /\ \A h : Loaded(h)' = Loaded(h)
         /\ \A old, new, still : Kept(old, new, still)' <=> Kept(old, new, still)
<1>1. \A h : CollectEligible(h)' = CollectEligible(h)
  BY SuiteStays
<1>2. \A h : Loaded(h)' = Loaded(h)
  BY <1>1 DEF Loaded, Restrict
<1>3. \A old, new, still : Kept(old, new, still)' <=> Kept(old, new, still)
  BY DEF Kept
<1> QED
  BY <1>2, <1>3

LEMMA KeptInitially == Init => KeptInv
  BY DEF Init, KeptInv

\* check_header starts with what it had: with the results themselves, or, to
\* make them anew, with the tests they are of.
LEMMA BegunWithLoaded ==
  ASSUME RunInv, KeptInv, BeginHeader, NextHeader(todo) \in DOMAIN loaded
  PROVE  Kept(Loaded(NextHeader(todo)), tests', pending')
<1> DEFINE h == NextHeader(todo)
<1>1. pc = "headers" /\ h \in todo
  BY NextHeaderIsTodo DEF BeginHeader
<1>2. h \in DOMAIN cache /\ cache[h] = loaded[h]
  BY <1>1 DEF KeptInv
<1>3. CachedTests(h) = Loaded(h)
  BY <1>2 DEF CachedTests, HeaderCache, Loaded, Restrict
<1>4. CASE args.recheck
  <2>1. pending' = DOMAIN Loaded(h)
    BY <1>3, <1>4 DEF BeginHeader
  <2> QED
    BY <1>4, <2>1 DEF Kept
<1>5. CASE ~args.recheck
  <2>1. tests' = Loaded(h) /\ pending' \subseteq Uncached(h)
    BY <1>3, <1>5, SubmitsEligible DEF BeginHeader
  <2>2. \A p \in pending' : p \in DOMAIN Loaded(h) => Loaded(h)[p].psy = Absent
    BY <1>3, <2>1 DEF Uncached
  <2> QED
    BY <2>1, <2>2 DEF Kept
<1> QED
  BY <1>4, <1>5

LEMMA KeptKept == RunInv /\ KeptInv /\ [Next]_vars => KeptInv'
<1> SUFFICES ASSUME RunInv, KeptInv, [Next]_vars PROVE KeptInv'
  OBVIOUS
<1> DEFINE h == NextHeader(todo)
<1>1. CASE StartRun
  <2>1. pc' = "build" /\ cache' = loaded' /\ todo' = args'.headers
    BY <1>1 DEF StartRun
  <2> QED
    BY <2>1 DEF KeptInv
<1>2. CASE pc' \notin {"build", "headers", "tests", "save"}
  BY <1>2 DEF KeptInv
<1>3. CASE BuildRuntimeArchive \/ TruncateCache \/ UNCHANGED vars
  <2>1. UNCHANGED <<suite, args, loaded, cache, todo, tests, pending>>
        /\ \/ pc' = pc
           \/ pc' = "headers" /\ pc = "build"
           \/ pc' = "save" /\ pc = "headers" /\ todo = {}
    BY <1>3 DEF BuildRuntimeArchive, TruncateCache, vars, env, prog
  <2>2. NextHeader(todo)' = NextHeader(todo)
    BY <2>1
  <2> QED
    BY <2>1, <2>2, KeptStays DEF KeptInv
<1>4. CASE BeginHeader
  <2>1. UNCHANGED <<suite, args, loaded, cache, todo>> /\ pc = "headers" /\ pc' = "tests"
    BY <1>4 DEF BeginHeader, env
  <2>2. h \in DOMAIN loaded => Kept(Loaded(h), tests', pending')
    BY <1>4, BegunWithLoaded
  <2>3. Kept(Loaded(h), tests, pending)' <=> Kept(Loaded(h), tests', pending')
    BY <2>1, KeptStays DEF Kept
  <2> QED
    BY <2>1, <2>2, <2>3, KeptStays DEF KeptInv
<1>5. ASSUME NEW p \in pending, FinishTest(p) PROVE KeptInv'
  <2>1. UNCHANGED <<suite, args, loaded, cache, todo, pc>> /\ pc = "tests" /\ pending' = pending \ {p}
    BY <1>5 DEF FinishTest, env
  <2>2. /\ DOMAIN tests' = DOMAIN tests \union {p}
        /\ \A q \in DOMAIN tests : q # p => tests'[q] = tests[q]
    BY <1>5 DEF FinishTest, Put
  <2>3. h \in DOMAIN loaded => Kept(Loaded(h), tests', pending')
    <3>1. h \in DOMAIN loaded => Kept(Loaded(h), tests, pending)
      BY <2>1 DEF KeptInv
    <3> QED
      BY <2>1, <2>2, <3>1 DEF Kept
  <2>4. Kept(Loaded(h), tests, pending)' <=> Kept(Loaded(h), tests', pending')
    BY <2>1, KeptStays DEF Kept
  <2> QED
    BY <2>1, <2>3, <2>4, KeptStays DEF KeptInv
<1>6. CASE EndHeader
  <2>1. UNCHANGED <<suite, args, loaded>> /\ pc = "tests" /\ pc' = "headers" /\ todo' = todo \ {h} /\ pending = {}
    BY <1>6 DEF EndHeader, env
  <2>2. /\ DOMAIN cache' = DOMAIN cache \union {h}
        /\ cache'[h].tests = tests
        /\ \A g \in DOMAIN cache \ {h} : cache'[g] = cache[g]
    BY <1>6 DEF EndHeader, Put
  <2>3. h \in todo /\ h \in args.headers
    BY <2>1, NextHeaderIsTodo DEF RunInv
  <2>4. h \in DOMAIN loaded => Kept(Loaded(h), cache'[h].tests, {})
    BY <2>1, <2>2 DEF KeptInv
  <2>5. ASSUME NEW g \in DOMAIN loaded
        PROVE  /\ g \in DOMAIN cache'
               /\ g \notin args.headers => cache'[g] = loaded[g]
               /\ g \in todo' => cache'[g] = loaded[g]
               /\ g \in args.headers /\ g \notin todo' => Kept(Loaded(g), cache'[g].tests, {})
    BY <2>1, <2>2, <2>3, <2>4 DEF KeptInv
  <2>6. \A g : Kept(Loaded(g), cache[g].tests, {})' <=> Kept(Loaded(g), cache'[g].tests, {})
    BY <2>1, KeptStays DEF Kept
  <2> QED
    BY <2>1, <2>5, <2>6 DEF KeptInv
<1>7. CASE SaveCache \/ WriteReport \/ SaveBaseline \/ Gate \/ Die
  BY <1>2, <1>7 DEF SaveCache, WriteReport, SaveBaseline, Gate, Die, Finish, Leave
<1>8. CASE PublishBase \/ SeedFromBase \/ PrintDiff \/ Edit
  BY <1>2, <1>8 DEF PublishBase, SeedFromBase, PrintDiff, Edit
<1> QED
  BY <1>1, <1>3, <1>4, <1>5, <1>6, <1>7, <1>8 DEF Next

\* Whatever a run finds in the cache for a test that still counts is in the
\* cache it saves (check_header, save_cache).
THEOREM NoResultIsForgotten == Spec => NothingForgotten
<1> DEFINE Saved ==
      pc = "save" /\ pc' = "report" =>
        \A h \in DOMAIN loaded :
          /\ h \in DOMAIN cache_file'
          /\ h \notin args.headers => cache_file'[h] = loaded[h]
          /\ \A p \in DOMAIN loaded[h].tests :
               h \in args.headers /\ p \in CollectEligible(h) =>
                 /\ p \in DOMAIN cache_file'[h].tests
                 /\ \/ args.recheck \/ loaded[h].tests[p].psy = Absent
                    \/ cache_file'[h].tests[p] = loaded[h].tests[p]
<1>1. RunInv /\ KeptInv /\ [Next]_vars => [Saved]_vars
  <2> SUFFICES ASSUME KeptInv, Next, pc = "save", pc' = "report",
                      NEW h \in DOMAIN loaded
               PROVE  /\ h \in DOMAIN cache_file'
                      /\ h \notin args.headers => cache_file'[h] = loaded[h]
                      /\ \A p \in DOMAIN loaded[h].tests :
                           h \in args.headers /\ p \in CollectEligible(h) =>
                             /\ p \in DOMAIN cache_file'[h].tests
                             /\ \/ args.recheck \/ loaded[h].tests[p].psy = Absent
                                \/ cache_file'[h].tests[p] = loaded[h].tests[p]
    OBVIOUS
  <2>1. cache_file' = cache
    BY DEF Next, StartRun, BuildRuntimeArchive, BeginHeader, EndHeader, FinishTest, TruncateCache,
           SaveCache, WriteReport, SaveBaseline, Gate, Die, Finish, Leave, PublishBase, SeedFromBase,
           PrintDiff, Edit
  <2>2. h \in DOMAIN cache /\ (h \notin args.headers => cache[h] = loaded[h])
    BY DEF KeptInv
  <2>3. h \in args.headers => Kept(Loaded(h), cache[h].tests, {})
    BY DEF KeptInv
  <2> QED
    BY <2>1, <2>2, <2>3 DEF Kept, Loaded, Restrict
<1>2. RunInv /\ KeptInv /\ [Next]_vars => (RunInv /\ KeptInv)'
  BY RunKept, KeptKept
<1>3. Spec => [][Saved]_vars
  BY <1>1, <1>2, RunInitially, KeptInitially, PTL DEF Spec
<1> QED
  BY <1>3 DEF NothingForgotten

(***************************************************************************)
(* The numbers of the report                                               *)
(***************************************************************************)
TestsBelow(e, h) == \A p \in DOMAIN e.tests : p[2] \in Dirs[h]

EntryAddsUp(e, h) ==
  /\ TestsBelow(e, h)
  /\ IsFiniteSet(DOMAIN e.tests) /\ Cardinality(DOMAIN e.tests) <= e.eligible
  /\ e.eligible \in Nat /\ e.ignored \in Nat
  /\ e.eligible + e.ignored <= Cardinality(Dirs[h])

\* Four columns that two questions make of a finite set.
LEMMA FourParts ==
  ASSUME NEW S, IsFiniteSet(S), NEW A \in SUBSET S, NEW B \in SUBSET S
  PROVE  /\ Cardinality(A \cap B) \in Nat /\ Cardinality(A \ B) \in Nat
         /\ Cardinality(B \ A) \in Nat /\ Cardinality(S \ (A \cup B)) \in Nat
         /\ Cardinality(A \cap B) + Cardinality(A \ B) + Cardinality(B \ A)
              + Cardinality(S \ (A \cup B)) = Cardinality(S)
<1>1. IsFiniteSet(A) /\ IsFiniteSet(B)
  BY FS_Subset
<1>2. IsFiniteSet(A \cap B) /\ IsFiniteSet(A \ B) /\ IsFiniteSet(B \ A) /\ IsFiniteSet(A \cup B)
  BY <1>1, FS_Intersection, FS_Difference, FS_Union
<1>3. IsFiniteSet(S \ (A \cup B))
  BY FS_Difference
<1>4. /\ Cardinality(A \cap B) \in Nat /\ Cardinality(A \ B) \in Nat /\ Cardinality(B \ A) \in Nat
      /\ Cardinality(S \ (A \cup B)) \in Nat /\ Cardinality(A) \in Nat /\ Cardinality(B) \in Nat
      /\ Cardinality(A \cup B) \in Nat /\ Cardinality(S) \in Nat
  BY <1>1, <1>2, <1>3, FS_CardinalityType
<1>5. /\ Cardinality(A \ B) = Cardinality(A) - Cardinality(A \cap B)
      /\ Cardinality(B \ A) = Cardinality(B) - Cardinality(B \cap A)
  BY <1>1, FS_Difference
<1>6. Cardinality(S \ (A \cup B)) = Cardinality(S) - Cardinality(S \cap (A \cup B))
  BY FS_Difference
<1>7. S \cap (A \cup B) = A \cup B /\ B \cap A = A \cap B
  OBVIOUS
<1>8. Cardinality(A \cup B) = Cardinality(A) + Cardinality(B) - Cardinality(A \cap B)
  BY <1>1, FS_Union
<1>9. \A ab, a, b, u, s \in Nat :
        u = a + b - ab => ab + (a - ab) + (b - ab) + (s - u) = s
  OBVIOUS
<1>11. /\ Cardinality(A \ B) = Cardinality(A) - Cardinality(A \cap B)
       /\ Cardinality(B \ A) = Cardinality(B) - Cardinality(A \cap B)
       /\ Cardinality(S \ (A \cup B)) = Cardinality(S) - Cardinality(A \cup B)
  BY <1>5, <1>6, <1>7
<1>12. Cardinality(A \cap B) + Cardinality(A \ B) + Cardinality(B \ A)
         + Cardinality(S \ (A \cup B)) = Cardinality(S)
  BY ONLY <1>4, <1>8, <1>9, <1>11
<1> QED
  BY <1>4, <1>12

LEMMA CountsAddUp ==
  ASSUME NEW results, IsFiniteSet(DOMAIN results)
  PROVE  LET n == ResultCounts(results)
         IN  /\ n.both_pass \in Nat /\ n.system_only \in Nat
             /\ n.psychic_only \in Nat /\ n.both_fail \in Nat
             /\ n.both_pass + n.system_only + n.psychic_only + n.both_fail
                  <= Cardinality(DOMAIN results)
<1> DEFINE S == {p \in DOMAIN results : results[p].psy # Absent}
           A == {p \in S : results[p].sys = "pass"}
           B == {p \in S : results[p].psy = "pass"}
           n == ResultCounts(results)
<1>1. n = [both_pass |-> Cardinality(A \cap B), system_only |-> Cardinality(A \ B),
           psychic_only |-> Cardinality(B \ A), both_fail |-> Cardinality(S \ (A \cup B))]
  BY DEF ResultCounts
<1>3. IsFiniteSet(S) /\ Cardinality(S) <= Cardinality(DOMAIN results)
  BY FS_Subset
<1>4. A \in SUBSET S /\ B \in SUBSET S
  OBVIOUS
<1>8. Cardinality(DOMAIN results) \in Nat /\ Cardinality(S) \in Nat
  BY <1>3, FS_CardinalityType
<1> HIDE DEF S, A, B
<1>5. /\ Cardinality(A \cap B) \in Nat /\ Cardinality(A \ B) \in Nat
      /\ Cardinality(B \ A) \in Nat /\ Cardinality(S \ (A \cup B)) \in Nat
      /\ Cardinality(A \cap B) + Cardinality(A \ B) + Cardinality(B \ A)
              + Cardinality(S \ (A \cup B)) = Cardinality(S)
  BY <1>3, <1>4, FourParts
<1> HIDE DEF n
<1>6. /\ n.both_pass \in Nat /\ n.system_only \in Nat
      /\ n.psychic_only \in Nat /\ n.both_fail \in Nat
      /\ n.both_pass + n.system_only + n.psychic_only + n.both_fail = Cardinality(S)
  BY <1>1, <1>5
<1>7. n.both_pass + n.system_only + n.psychic_only + n.both_fail <= Cardinality(DOMAIN results)
  BY <1>3, <1>6, <1>8
<1> QED
  BY <1>6, <1>7 DEF n

\* The columns of a row of the report, made from an entry that adds up.
LEMMA RowAddsUp ==
  ASSUME NEW h, NEW e, EntryAddsUp(e, h), Cardinality(Dirs[h]) \in Nat
  PROVE  LET s == SummaryFromCache(e)
         IN  /\ \A p \in DOMAIN e.tests : p[2] \in Dirs[h]
             /\ s.untested >= 0
             /\ s.psychic_passes <= s.tested
             /\ ComplianceEmoji(s.psychic_passes, s.tested, s.eligible) = "green"
                  => 5 * s.untested <= s.eligible
             /\ s.tested + s.untested + e.ignored <= Cardinality(Dirs[h])
<1> DEFINE n == ResultCounts(e.tests)
           s == SummaryFromCache(e)
           tested == n.both_pass + n.system_only + n.psychic_only + n.both_fail
           passes == n.both_pass + n.psychic_only
<1>1. /\ n.both_pass \in Nat /\ n.system_only \in Nat
      /\ n.psychic_only \in Nat /\ n.both_fail \in Nat
      /\ tested <= Cardinality(DOMAIN e.tests)
  BY CountsAddUp DEF EntryAddsUp
<1>2. /\ s.tested = tested /\ s.psychic_passes = passes
      /\ s.eligible = e.eligible /\ s.untested = e.eligible - tested
  BY DEF SummaryFromCache
<1>3. /\ Cardinality(DOMAIN e.tests) \in Nat
      /\ Cardinality(DOMAIN e.tests) <= e.eligible
      /\ e.eligible \in Nat /\ e.ignored \in Nat
      /\ e.eligible + e.ignored <= Cardinality(Dirs[h])
  BY FS_CardinalityType DEF EntryAddsUp
<1> HIDE DEF n, s
<1>4. tested \in Nat /\ passes \in Nat /\ passes <= tested
  BY <1>1
<1> HIDE DEF tested, passes
<1>5. tested <= e.eligible
  BY <1>1, <1>3, <1>4
<1>6. s.untested >= 0 /\ s.tested + s.untested + e.ignored <= Cardinality(Dirs[h])
  BY <1>2, <1>3, <1>4, <1>5
<1>7. ASSUME ComplianceEmoji(passes, tested, e.eligible) = "green"
      PROVE  10 * passes >= 8 * e.eligible
  <2>1. CASE e.eligible = 0 \/ tested = 0
    BY <2>1, <1>7, Zenon DEF ComplianceEmoji
  <2>2. CASE e.eligible # 0 /\ tested # 0 /\ ~(10 * passes >= 8 * e.eligible)
    BY <2>2, <1>7, Zenon DEF ComplianceEmoji
  <2> QED
    BY <2>1, <2>2
<1>8. ComplianceEmoji(s.psychic_passes, s.tested, s.eligible) = "green" => 5 * s.untested <= s.eligible
  <2> SUFFICES ASSUME ComplianceEmoji(passes, tested, e.eligible) = "green"
               PROVE  5 * (e.eligible - tested) <= e.eligible
    BY <1>2
  <2>1. \A pn, tn, en \in Nat : 10 * pn >= 8 * en /\ pn <= tn => 5 * (en - tn) <= en
    OBVIOUS
  <2> QED
    BY <1>3, <1>4, <1>7, <2>1
<1> QED
  BY <1>2, <1>4, <1>6, <1>8 DEF EntryAddsUp, TestsBelow, s

\* What a header's directories hold, eligible and ignored, is no more than they hold.
LEMMA EligibleAndIgnored ==
  ASSUME NEW h \in Headers
  PROVE  /\ IsFiniteSet(Dirs[h]) /\ Cardinality(Dirs[h]) \in Nat
         /\ IsFiniteSet(CollectEligible(h))
         /\ Cardinality(CollectEligible(h)) \in Nat /\ CountIgnored(h) \in Nat
         /\ Cardinality(CollectEligible(h)) + CountIgnored(h) <= Cardinality(Dirs[h])
<1> DEFINE D == Dirs[h]
           E == {t \in D : ClassifyTest(suite[t]) = Eligible}
           I == {t \in D : ClassifyTest(suite[t]) = "libcpp-specific"}
<1>1. IsFiniteSet(D)
  BY FS_Subset, ComplianceAssumption
<1>2. E \subseteq D /\ I \subseteq D /\ E \cap I = {}
  BY DEF Eligible
<1>3. CollectEligible(h) = {args.root} \X E /\ CountIgnored(h) = Cardinality(I)
  BY DEF CollectEligible, CountIgnored, Quantify
<1> HIDE DEF D, E, I
<1>4. IsFiniteSet(E) /\ IsFiniteSet(I) /\ IsFiniteSet(E \cup I)
  BY <1>1, <1>2, FS_Subset, FS_Union
<1>5. /\ Cardinality(D) \in Nat /\ Cardinality(E) \in Nat /\ Cardinality(I) \in Nat
  BY <1>1, <1>4, FS_CardinalityType
<1>6. Cardinality(E \cap I) = 0
  BY <1>2, FS_EmptySet
<1>7. Cardinality(E \cup I) = Cardinality(E) + Cardinality(I) - Cardinality(E \cap I)
  BY <1>4, FS_Union
<1>8. E \cup I \subseteq D
  BY <1>2
<1>8a. Cardinality(E \cup I) <= Cardinality(D)
  BY <1>1, <1>8, FS_Subset
<1>9. IsFiniteSet({args.root}) /\ Cardinality({args.root}) = 1
  BY FS_Singleton
<1>10. /\ IsFiniteSet({args.root} \X E)
       /\ Cardinality({args.root} \X E) = Cardinality({args.root}) * Cardinality(E)
  BY <1>4, <1>9, FS_Product
<1>11. Cardinality({args.root} \X E) = Cardinality(E)
  BY <1>5, <1>9, <1>10
<1>12. Cardinality(E) + Cardinality(I) <= Cardinality(D)
  BY <1>5, <1>6, <1>7, <1>8a
<1> QED
  BY <1>1, <1>3, <1>5, <1>10, <1>11, <1>12 DEF D

AddsUp(c) == \A h \in DOMAIN c : h \in Headers /\ EntryAddsUp(c[h], h)

AddsUpInv ==
  /\ args \in Requests
  /\ exit \in Succeeded \cup {Absent, "died"}
  /\ AddsUp(cache)
  /\ cache_file \notin {Absent, Torn} => AddsUp(cache_file)
  /\ base_file \notin {Absent, Torn} => AddsUp(base_file)
  /\ pc = "tests" => DOMAIN tests \subseteq CollectEligible(NextHeader(todo))

LEMMA OldCachesAddUp == \A c \in OldCaches : AddsUp(c)
<1> SUFFICES ASSUME NEW c \in OldCaches PROVE AddsUp(c)
  OBVIOUS
<1>1. PICK x \in Headers \X Roots \X Tests :
        /\ x[3] \in Dirs[x[1]]
        /\ c = Put(<< >>, x[1],
                   [tests |-> Put(<< >>, <<x[2], x[3]>>, [sys |-> System[x[3]], psy |-> Absent]),
                    eligible |-> 1, ignored |-> 0])
  BY Zenon DEF OldCaches
<1> DEFINE r == Put(<< >>, <<x[2], x[3]>>, [sys |-> System[x[3]], psy |-> Absent])
           e == [tests |-> r, eligible |-> 1, ignored |-> 0]
<1>2. DOMAIN r = {<<x[2], x[3]>>}
  BY EmptyTuple DEF Put
<1>3. DOMAIN c = {x[1]} /\ c[x[1]] = e
  BY <1>1, EmptyTuple DEF Put
<1> HIDE DEF r
<1>4. IsFiniteSet(DOMAIN r) /\ Cardinality(DOMAIN r) = 1
  BY <1>2, FS_Singleton
<1>5. Cardinality(Dirs[x[1]]) \in Nat /\ IsFiniteSet(Dirs[x[1]])
  BY <1>1, EligibleAndIgnored
<1>6. Cardinality(Dirs[x[1]]) >= 1
  <2>1. Cardinality(Dirs[x[1]]) # 0
    BY <1>1, <1>5, FS_EmptySet
  <2> QED
    BY <2>1, <1>5
<1>7. TestsBelow(e, x[1])
  BY <1>1, <1>2 DEF TestsBelow
<1>8. EntryAddsUp(e, x[1])
  BY <1>4, <1>5, <1>6, <1>7 DEF EntryAddsUp
<1> QED
  BY <1>1, <1>3, <1>8 DEF AddsUp

LEMMA AddsUpInitially == Init => AddsUpInv
<1> SUFFICES ASSUME Init PROVE AddsUpInv
  OBVIOUS
<1>1. cache_file \notin {Absent, Torn} => AddsUp(cache_file)
  BY OldCachesAddUp DEF Init
<1> QED
  BY <1>1, EmptyTuple DEF Init, AddsUpInv, AddsUp, Succeeded

\* A finished header's entry adds up.
LEMMA EntryMade ==
  ASSUME NEW h \in Headers, DOMAIN tests \subseteq CollectEligible(h)
  PROVE  EntryAddsUp([tests |-> tests, eligible |-> Cardinality(CollectEligible(h)),
                      ignored |-> CountIgnored(h)], h)
<1> DEFINE e == [tests |-> tests, eligible |-> Cardinality(CollectEligible(h)),
                 ignored |-> CountIgnored(h)]
<1>1. /\ IsFiniteSet(DOMAIN tests)
      /\ Cardinality(DOMAIN tests) <= Cardinality(CollectEligible(h))
  BY EligibleAndIgnored, FS_Subset
<1>2. TestsBelow(e, h)
  BY DEF TestsBelow, CollectEligible
<1>3. e.eligible \in Nat /\ e.ignored \in Nat /\ e.eligible + e.ignored <= Cardinality(Dirs[h])
  BY EligibleAndIgnored
<1> QED
  BY <1>1, <1>2, <1>3 DEF EntryAddsUp

LEMMA AddsUpKept == RunInv /\ AddsUpInv /\ [Next]_vars => AddsUpInv'
<1> SUFFICES ASSUME RunInv, AddsUpInv, [Next]_vars PROVE AddsUpInv'
  OBVIOUS
<1> USE DEF AddsUpInv
<1>1. CASE StartRun
  <2>1. AddsUp(LoadCache)
    BY EmptyTuple DEF LoadCache, AddsUp
  <2>2. /\ args' \in Requests /\ cache' = LoadCache /\ exit' = Absent /\ pc' = "build"
        /\ UNCHANGED <<cache_file, base_file>>
    BY <1>1 DEF StartRun, files
  <2> QED
    BY <2>1, <2>2
<1>2. CASE BuildRuntimeArchive
  BY <1>2 DEF BuildRuntimeArchive, files, prog, ci
<1>3. CASE BeginHeader
  <2>1. DOMAIN tests' \subseteq CollectEligible(NextHeader(todo))
    BY <1>3, EmptyTuple DEF BeginHeader, CachedTests, Restrict
  <2>2. UNCHANGED <<suite, args, todo, cache, cache_file, base_file, exit>>
    BY <1>3 DEF BeginHeader, env, files, ci
  <2> QED
    BY <2>1, <2>2, SuiteStays
<1>4. ASSUME NEW p \in pending, FinishTest(p) PROVE AddsUpInv'
  <2>1. DOMAIN tests' = DOMAIN tests \cup {p} /\ pc = "tests"
    BY <1>4 DEF FinishTest, Put
  <2>2. UNCHANGED <<suite, args, todo, cache, cache_file, base_file, exit>>
    BY <1>4 DEF FinishTest, env, files, ci
  <2>3. p \in CollectEligible(NextHeader(todo))
    BY <2>1 DEF RunInv
  <2> QED
    BY <2>1, <2>2, <2>3, SuiteStays
<1>5. CASE EndHeader
  <2> DEFINE h == NextHeader(todo)
             e == [tests |-> tests, eligible |-> Cardinality(CollectEligible(h)),
                   ignored |-> CountIgnored(h)]
  <2>1. h \in Headers /\ pc = "tests"
    BY <1>5, NextHeaderIsTodo DEF EndHeader, RunInv, Requests
  <2>2. EntryAddsUp(e, h)
    BY <2>1, EntryMade
  <2>3. /\ cache' = Put(cache, h, e) /\ pc' = "headers"
        /\ UNCHANGED <<args, cache_file, base_file, exit>>
    BY <1>5 DEF EndHeader, files, ci
  <2> HIDE DEF h, e
  <2>4. AddsUp(cache')
    BY <2>1, <2>2, <2>3 DEF AddsUp, Put
  <2> QED
    BY <2>3, <2>4
<1>6. CASE TruncateCache \/ SaveCache
  BY <1>6 DEF TruncateCache, SaveCache, prog, ci
<1>7. CASE WriteReport \/ SaveBaseline \/ Gate \/ Die
  <2>1. CASE pc' = "idle" /\ cache' = << >>
    <3>1. UNCHANGED <<cache_file, base_file, args>> /\ exit' \in Succeeded \cup {Absent, "died"}
      BY <1>7, <2>1 DEF WriteReport, SaveBaseline, Gate, Die, Finish, Leave, Succeeded, files, prog, ci
    <3> QED
      BY <2>1, <3>1, EmptyTuple DEF AddsUp
  <2>2. CASE pc' = "gate"
    <3>1. UNCHANGED <<files, prog, exit, ci>>
      BY <1>7, <2>2 DEF WriteReport, SaveBaseline, Gate, Die, Finish, Leave
    <3> QED
      BY <2>2, <3>1 DEF files, prog, ci
  <2> QED
    BY <1>7, <2>1, <2>2 DEF WriteReport, SaveBaseline, Gate, Die, Finish, Leave
<1>8. CASE PublishBase \/ SeedFromBase \/ PrintDiff \/ Edit
  BY <1>8 DEF PublishBase, SeedFromBase, PrintDiff, Edit, prog, files
<1>9. CASE UNCHANGED vars
  <2>1. UNCHANGED <<suite, args, todo, cache, cache_file, base_file, exit, pc, tests>>
    BY <1>9 DEF vars, env, files, prog, ci
  <2> QED
    BY <2>1, SuiteStays
<1> QED
  BY <1>1, <1>2, <1>3, <1>4, <1>5, <1>6, <1>7, <1>8, <1>9 DEF Next

\* The rows of the report are made of counts that add up to the tests of the
\* header, whatever runs, crashes, edits and old versions left the cache
\* (main, the rows of headers that the run did not check).
THEOREM ReportAddsUp == Spec => []CacheAddsUp
<1>1. RunInv /\ AddsUpInv => CacheAddsUp
  <2> SUFFICES ASSUME RunInv, AddsUpInv, NEW h \in Entries
               PROVE  LET s == SummaryFromCache(cache_file[h])
                      IN  /\ \A p \in DOMAIN cache_file[h].tests : p[2] \in Dirs[h]
                          /\ s.untested >= 0
                          /\ s.psychic_passes <= s.tested
                          /\ ComplianceEmoji(s.psychic_passes, s.tested, s.eligible) = "green"
                               => 5 * s.untested <= s.eligible
                          /\ s.tested + s.untested + cache_file[h].ignored <= Cardinality(Dirs[h])
    BY DEF CacheAddsUp, RunInv, AddsUpInv, Places, Succeeded
  <2>1. h \in Headers /\ EntryAddsUp(cache_file[h], h)
    BY DEF Entries, AddsUpInv, AddsUp
  <2>2. Cardinality(Dirs[h]) \in Nat
    BY <2>1, EligibleAndIgnored
  <2> QED
    BY <2>1, <2>2, RowAddsUp
<1>2. RunInv /\ AddsUpInv /\ [Next]_vars => (RunInv /\ AddsUpInv)'
  BY RunKept, AddsUpKept
<1> QED
  BY <1>1, <1>2, RunInitially, AddsUpInitially, PTL DEF Spec

(***************************************************************************)
(* The comparison of two caches                                            *)
(***************************************************************************)
Caches == UNION {[H -> Entry] : H \in SUBSET Headers}

CacheInv ==
  /\ library \in [Tests -> Outcomes]
  /\ cache \in Caches
  /\ cache_file \in Caches \cup {Absent, Torn}
  /\ base_file \in Caches \cup {Absent}
  /\ exit \in Succeeded => cache_file \in Caches
  /\ tests \in UNION {[P -> Results] : P \in SUBSET (Roots \X Tests)}

LEMMA NoTests == << >> \in UNION {[P -> Results] : P \in SUBSET (Roots \X Tests)}
<1>1. << >> \in [{} -> Results]
  BY EmptyTuple
<1>2. {} \in SUBSET (Roots \X Tests)
  OBVIOUS
<1> QED
  BY <1>1, <1>2

LEMMA NoCache == << >> \in Caches
<1>1. << >> \in [{} -> Entry]
  BY EmptyTuple
<1>2. {} \in SUBSET Headers
  OBVIOUS
<1> QED
  BY <1>1, <1>2 DEF Caches

LEMMA NoFileIsNoCache == Absent \notin Caches /\ Torn \notin Caches
  BY ComplianceAssumption DEF Caches

LEMMA PutTest ==
  ASSUME NEW f \in UNION {[P -> Results] : P \in SUBSET (Roots \X Tests)},
         NEW p \in Roots \X Tests, NEW e \in Results
  PROVE  Put(f, p, e) \in UNION {[P -> Results] : P \in SUBSET (Roots \X Tests)}
<1>1. PICK P \in SUBSET (Roots \X Tests) : f \in [P -> Results]
  OBVIOUS
<1>2. Put(f, p, e) \in [P \cup {p} -> Results]
  BY <1>1 DEF Put
<1>3. P \cup {p} \in SUBSET (Roots \X Tests)
  BY <1>1
<1> QED
  BY <1>2, <1>3

LEMMA PutEntry ==
  ASSUME NEW c \in Caches, NEW h \in Headers, NEW e \in Entry
  PROVE  Put(c, h, e) \in Caches
<1>1. PICK H \in SUBSET Headers : c \in [H -> Entry]
  BY DEF Caches
<1>2. Put(c, h, e) \in [H \cup {h} -> Entry]
  BY <1>1 DEF Put
<1>3. H \cup {h} \in SUBSET Headers
  BY <1>1
<1> QED
  BY <1>2, <1>3 DEF Caches

LEMMA OfCache ==
  ASSUME NEW c \in Caches, NEW h \in DOMAIN c
  PROVE  /\ h \in Headers /\ c[h] \in Entry
         /\ c[h].tests \in UNION {[P -> Results] : P \in SUBSET (Roots \X Tests)}
         /\ DOMAIN c[h].tests \subseteq Roots \X Tests
<1>1. PICK H \in SUBSET Headers : c \in [H -> Entry]
  BY DEF Caches
<1>2. h \in Headers /\ c[h] \in Entry
  BY <1>1
<1>3. c[h].tests \in UNION {[P -> Results] : P \in SUBSET (Roots \X Tests)}
  BY <1>2 DEF Entry
<1>4. PICK P \in SUBSET (Roots \X Tests) : c[h].tests \in [P -> Results]
  BY <1>3
<1> QED
  BY <1>2, <1>3, <1>4

LEMMA ResultOfTest == 
  ASSUME library \in [Tests -> Outcomes], NEW t \in Tests
  PROVE  TestOne(t) \in Results
<1>1. System[t] \in Outcomes /\ library[t] \in Outcomes
  BY ComplianceAssumption
<1>2. \A o \in Outcomes : \A b : TryCompileRun(o, b) \in Outcomes
  BY DEF TryCompileRun, Outcomes
<1> QED
  BY <1>1, <1>2 DEF TestOne, Results

LEMMA OldCachesTyped == OldCaches \subseteq Caches
<1> SUFFICES ASSUME NEW c \in OldCaches PROVE c \in Caches
  OBVIOUS
<1>1. PICK x \in Headers \X Roots \X Tests :
        c = Put(<< >>, x[1],
                [tests |-> Put(<< >>, <<x[2], x[3]>>, [sys |-> System[x[3]], psy |-> Absent]),
                 eligible |-> 1, ignored |-> 0])
  BY Zenon DEF OldCaches
<1>2. x[1] \in Headers /\ <<x[2], x[3]>> \in Roots \X Tests /\ x[3] \in Tests
  BY <1>1
<1>3. [sys |-> System[x[3]], psy |-> Absent] \in Results
  BY <1>2, ComplianceAssumption DEF Results
<1> DEFINE r == Put(<< >>, <<x[2], x[3]>>, [sys |-> System[x[3]], psy |-> Absent])
<1>4. r \in UNION {[P -> Results] : P \in SUBSET (Roots \X Tests)}
  BY <1>2, <1>3, NoTests, PutTest
<1> HIDE DEF r
<1>5. [tests |-> r, eligible |-> 1, ignored |-> 0] \in Entry
  BY <1>4 DEF Entry
<1> QED
  BY <1>1, <1>2, <1>5, NoCache, PutEntry DEF r

LEMMA CacheInitially == Init => CacheInv
<1> SUFFICES ASSUME Init PROVE CacheInv
  OBVIOUS
<1>1. cache_file \in Caches \cup {Absent, Torn}
  BY OldCachesTyped DEF Init
<1> QED
  BY <1>1, NoTests, NoCache, ComplianceAssumption DEF Init, CacheInv, Succeeded

LEMMA LoadCacheTyped == CacheInv => LoadCache \in Caches
  BY NoCache DEF CacheInv, LoadCache

LEMMA CachedTestsTyped ==
  ASSUME CacheInv, NEW h
  PROVE  CachedTests(h) \in UNION {[P -> Results] : P \in SUBSET (Roots \X Tests)}
<1> DEFINE old == HeaderCache(h).tests
<1>1. old \in UNION {[P -> Results] : P \in SUBSET (Roots \X Tests)}
  BY OfCache, NoTests DEF HeaderCache, EmptyHeaderCache, CacheInv
<1>2. PICK P \in SUBSET (Roots \X Tests) : old \in [P -> Results]
  BY <1>1
<1> DEFINE Q == P \cap CollectEligible(h)
<1>3. CachedTests(h) \in [Q -> Results]
  BY <1>2 DEF CachedTests, Restrict
<1>4. Q \in SUBSET (Roots \X Tests)
  BY <1>2
<1> QED
  BY <1>3, <1>4

LEMMA EligiblePaths ==
  ASSUME args \in Requests, NEW h \in Headers
  PROVE  CollectEligible(h) \subseteq Roots \X Tests
<1>1. args.root \in Roots
  BY DEF Requests
<1>2. Dirs[h] \subseteq Tests
  BY ComplianceAssumption
<1> QED
  BY <1>1, <1>2 DEF CollectEligible

LEMMA CacheKept == RunInv /\ AddsUpInv /\ CacheInv /\ [Next]_vars => CacheInv'
<1> SUFFICES ASSUME RunInv, AddsUpInv, CacheInv, [Next]_vars PROVE CacheInv'
  OBVIOUS
<1> USE DEF CacheInv
<1>0. Absent \notin Succeeded /\ "died" \notin Succeeded
  BY ComplianceAssumption DEF Succeeded
<1>0a. pc # "idle" => exit = Absent
  BY DEF RunInv
<1>1. CASE StartRun
  BY <1>0, <1>1, LoadCacheTyped DEF StartRun, env, files, ci
<1>2. CASE BuildRuntimeArchive
  BY <1>2 DEF BuildRuntimeArchive, env, files, prog, ci
<1>3. CASE BeginHeader
  <2>1. tests' \in {<< >>, CachedTests(NextHeader(todo))}
    BY <1>3 DEF BeginHeader
  <2>2. tests' \in UNION {[P -> Results] : P \in SUBSET (Roots \X Tests)}
    BY <2>1, NoTests, CachedTestsTyped
  <2>3. UNCHANGED <<library, cache, cache_file, base_file, exit>>
    BY <1>3 DEF BeginHeader, env, files, ci
  <2> QED
    BY <2>2, <2>3
<1>4. ASSUME NEW p \in pending, FinishTest(p) PROVE CacheInv'
  <2>1. UNCHANGED <<library, cache, cache_file, base_file, exit>> /\ tests' = Put(tests, p, TestOne(TestId(p)))
    BY <1>4 DEF FinishTest, env, files, ci
  <2>2. p \in CollectEligible(NextHeader(todo)) /\ NextHeader(todo) \in Headers
    BY <1>4, NextHeaderIsTodo DEF FinishTest, RunInv, AddsUpInv, Requests
  <2>3. p \in Roots \X Tests
    BY <2>2, EligiblePaths DEF AddsUpInv
  <2>4. TestOne(TestId(p)) \in Results
    BY <2>3, ResultOfTest DEF TestId
  <2>5. tests' \in UNION {[P -> Results] : P \in SUBSET (Roots \X Tests)}
    BY <2>1, <2>3, <2>4, PutTest
  <2> QED
    BY <2>1, <2>5
<1>5. CASE EndHeader
  <2> DEFINE h == NextHeader(todo)
             e == [tests |-> tests, eligible |-> Cardinality(CollectEligible(h)),
                   ignored |-> CountIgnored(h)]
  <2>1. /\ cache' = Put(cache, h, e) /\ tests' = << >>
        /\ UNCHANGED <<library, cache_file, base_file, exit>>
    BY <1>5 DEF EndHeader, env, files, ci
  <2>2. h \in Headers
    BY <1>5, NextHeaderIsTodo DEF EndHeader, RunInv, AddsUpInv, Requests
  <2>3. Cardinality(CollectEligible(h)) \in Nat /\ CountIgnored(h) \in Nat
    BY <2>2, EligibleAndIgnored
  <2>4. e \in Entry
    BY <2>3 DEF Entry
  <2> HIDE DEF e, h
  <2>5. cache' \in Caches
    BY <2>1, <2>2, <2>4, PutEntry
  <2> QED
    BY <2>1, <2>5, NoTests
<1>6. CASE TruncateCache \/ SaveCache
  BY <1>0, <1>0a, <1>6 DEF TruncateCache, SaveCache, env, prog, ci
<1>7. CASE WriteReport \/ SaveBaseline \/ Gate \/ Die
  <2>1. CASE pc' = "idle" /\ cache' = << >> /\ tests' = << >>
    <3>1. UNCHANGED <<library, cache_file, base_file>>
      BY <1>7, <2>1 DEF WriteReport, SaveBaseline, Gate, Die, Finish, env, files, ci
    <3>2. exit' \in Succeeded => cache_file \in Caches
      BY <1>0, <1>7 DEF WriteReport, SaveBaseline, Gate, Die, Finish, Leave, RunInv
    <3> QED
      BY <2>1, <3>1, <3>2, NoTests, NoCache
  <2>2. CASE pc' = "gate"
    <3>1. UNCHANGED <<env, files, prog, exit, ci>>
      BY <1>7, <2>2 DEF WriteReport, SaveBaseline, Gate, Die, Finish, Leave
    <3> QED
      BY <3>1 DEF env, files, prog, ci
  <2> QED
    BY <1>7, <2>1, <2>2 DEF WriteReport, SaveBaseline, Gate, Die, Finish, Leave
<1>8. CASE Edit
  BY <1>0, <1>8 DEF Edit, prog, files
<1>9. CASE PrintDiff \/ UNCHANGED vars
  BY <1>9 DEF PrintDiff, vars, env, files, prog, ci
<1>10. CASE PublishBase \/ SeedFromBase
  BY <1>0, <1>10 DEF PublishBase, SeedFromBase, env, prog, Succeeded
<1> QED
  BY <1>1, <1>2, <1>3, <1>4, <1>5, <1>6, <1>7, <1>8, <1>9, <1>10 DEF Next

\* The base that the main branch published: a cache with all headers, and of
\* each test what it did then.
BaseOf(b) ==
  /\ b \in Caches
  /\ \A h \in Headers :
       /\ h \in DOMAIN b
       /\ \A p \in DOMAIN b[h].tests : b[h].tests[p] = base_truth[TestId(p)]

\* What the recheck of the base leaves has the tests of the base that still count.
SameTests(h, results) == DOMAIN results = DOMAIN Loaded(h)

SeededInv ==
  /\ stage \in {"none", "base", "seeded", "rechecked"}
  /\ stage = "none" => verdict = Absent
  /\ stage # "none" => BaseOf(base_file)
  /\ stage = "seeded" /\ pc = "idle" => cache_file = base_file
  /\ stage = "seeded" /\ pc # "idle" =>
       /\ args.recheck /\ args.headers = Headers /\ loaded = base_file
       /\ pc = "build" => todo = Headers
       /\ pc \in {"headers", "tests"} => \A h \in Headers \ todo : SameTests(h, cache[h].tests)
       /\ pc = "tests" =>
            (DOMAIN tests) \cup pending = DOMAIN Loaded(NextHeader(todo))
       /\ pc \in {"save", "report", "gate"} => \A h \in Headers : SameTests(h, cache[h].tests)
  /\ stage = "rechecked" =>
       /\ pc = "idle" /\ exit \in Succeeded
       /\ args.recheck /\ args.headers = Headers /\ loaded = base_file
       /\ \A h \in Headers : SameTests(h, cache_file[h].tests)

LEMMA SeededInitially == Init => SeededInv
  BY DEF Init, SeededInv

LEMMA BaseStays ==
  ASSUME UNCHANGED base_truth
  PROVE  \A b : BaseOf(b)' <=> BaseOf(b)
  BY DEF BaseOf

LEMMA SameTestsStay ==
  ASSUME UNCHANGED <<suite, args, loaded>>
  PROVE  \A h, r : SameTests(h, r)' <=> SameTests(h, r)
  BY KeptStays DEF SameTests

\* Rechecking starts with no results and the tests of the base that still count.
LEMMA RecheckBegins ==
  ASSUME RunInv, KeptInv, SeededInv, stage = "seeded", BeginHeader, NextHeader(todo) \in DOMAIN loaded
  PROVE  (DOMAIN tests') \cup pending' = DOMAIN Loaded(NextHeader(todo))
<1> DEFINE h == NextHeader(todo)
<1>1. pc = "headers" /\ h \in todo
  BY NextHeaderIsTodo DEF BeginHeader
<1>2. h \in DOMAIN cache /\ cache[h] = loaded[h]
  BY <1>1 DEF KeptInv
<1>3. CachedTests(h) = Loaded(h)
  BY <1>2 DEF CachedTests, HeaderCache, Loaded, Restrict
<1>4. args.recheck
  BY <1>1 DEF SeededInv
<1> QED
  BY <1>3, <1>4, EmptyTuple DEF BeginHeader

LEMMA SeededKept ==
  RunInv /\ CurrentInv /\ KeptInv /\ AddsUpInv /\ CacheInv /\ SeededInv /\ [Next]_vars => SeededInv'
<1> SUFFICES ASSUME RunInv, CurrentInv, KeptInv, AddsUpInv, CacheInv, SeededInv, [Next]_vars
             PROVE  SeededInv'
  OBVIOUS
<1> USE DEF SeededInv
<1> DEFINE h == NextHeader(todo)
<1>0. Absent \notin Succeeded /\ "died" \notin Succeeded
  BY ComplianceAssumption DEF Succeeded
<1>0a. pc # "idle" => exit = Absent
  BY DEF RunInv
<1>1. CASE StartRun
  <2>1. /\ pc = "idle" /\ pc' = "build" /\ stage # "rechecked" /\ verdict' = Absent
        /\ UNCHANGED <<base_file, base_truth, stage>>
        /\ loaded' = LoadCache
        /\ stage = "seeded" => args'.recheck /\ args'.headers = Headers /\ todo' = Headers
    BY <1>1 DEF StartRun
  <2>2. stage = "seeded" => loaded' = base_file
    <3>1. stage = "seeded" => cache_file \in Caches /\ cache_file = base_file
      BY <2>1 DEF BaseOf
    <3>2. cache_file \in Caches => cache_file \notin {Absent, Torn}
      BY NoFileIsNoCache
    <3> QED
      BY <2>1, <3>1, <3>2 DEF LoadCache
  <2> QED
    BY <2>1, <2>2, BaseStays
<1>2. CASE BuildRuntimeArchive
  <2>1. pc = "build" /\ pc' = "headers"
        /\ UNCHANGED <<suite, args, loaded, cache, todo, stage, verdict, base_file, base_truth>>
    BY <1>2 DEF BuildRuntimeArchive, env, prog, ci
  <2> QED
    BY <2>1, BaseStays, SameTestsStay
<1>3. CASE BeginHeader
  <2>1. pc = "headers" /\ pc' = "tests"
        /\ UNCHANGED <<suite, args, loaded, cache, todo, stage, verdict, base_file, base_truth>>
    BY <1>3 DEF BeginHeader, env, ci
  <2>2. stage = "seeded" => h \in DOMAIN loaded
    <3>1. h \in todo /\ todo \subseteq args.headers
      BY <1>3, <2>1, NextHeaderIsTodo DEF BeginHeader, RunInv
    <3> QED
      BY <2>1, <3>1 DEF BaseOf
  <2>3. stage = "seeded" => (DOMAIN tests') \cup pending' = DOMAIN Loaded(h)
    BY <1>3, <2>2, RecheckBegins
  <2>4. (DOMAIN Loaded(NextHeader(todo)))' = DOMAIN Loaded(h)
    BY <2>1, KeptStays
  <2> QED
    BY <2>1, <2>3, <2>4, BaseStays, SameTestsStay
<1>4. ASSUME NEW p \in pending, FinishTest(p) PROVE SeededInv'
  <2>1. pc = "tests" /\ pc' = "tests" /\ pending' = pending \ {p} /\ DOMAIN tests' = DOMAIN tests \cup {p}
        /\ UNCHANGED <<suite, args, loaded, cache, todo, stage, verdict, base_file, base_truth>>
    BY <1>4 DEF FinishTest, Put, env, ci
  <2>2. (DOMAIN tests') \cup pending' = (DOMAIN tests) \cup pending
    BY <2>1
  <2>3. (DOMAIN Loaded(NextHeader(todo)))' = DOMAIN Loaded(h)
    BY <2>1, KeptStays
  <2> QED
    BY <2>1, <2>2, <2>3, BaseStays, SameTestsStay
<1>5. CASE EndHeader
  <2>1. pc = "tests" /\ pc' = "headers" /\ pending = {} /\ todo' = todo \ {h}
        /\ UNCHANGED <<suite, args, loaded, stage, verdict, base_file, base_truth>>
    BY <1>5 DEF EndHeader, env, ci
  <2>2. /\ cache'[h].tests = tests
        /\ \A g \in DOMAIN cache \ {h} : cache'[g] = cache[g]
    BY <1>5 DEF EndHeader, Put
  <2>3. stage = "seeded" => SameTests(h, cache'[h].tests)
    BY <2>1, <2>2 DEF SameTests
  <2>4. stage = "seeded" => Headers \subseteq DOMAIN cache
    BY <2>1 DEF KeptInv, BaseOf
  <2>5. stage = "seeded" => \A g \in Headers \ todo' : SameTests(g, cache'[g].tests)
    BY <2>1, <2>2, <2>3, <2>4
  <2>6. \A g : SameTests(g, cache[g].tests)' <=> SameTests(g, cache'[g].tests)
    BY <2>1, SameTestsStay DEF SameTests
  <2> QED
    BY <2>1, <2>5, <2>6, BaseStays
<1>6. CASE TruncateCache \/ SaveCache
  <2>1. /\ \/ pc = "headers" /\ todo = {} /\ pc' = "save"
           \/ pc = "save" /\ pc' = "report"
        /\ UNCHANGED <<suite, args, loaded, cache, todo, stage, verdict, base_file, base_truth>>
    BY <1>6 DEF TruncateCache, SaveCache, env, prog, ci
  <2> QED
    BY <2>1, BaseStays, SameTestsStay
<1>7. ASSUME Finish(exit'), exit' \in Succeeded, pc \in {"report", "gate"} PROVE SeededInv'
  <2>1. /\ pc' = "idle" /\ UNCHANGED <<suite, args, loaded, cache_file, base_file, verdict, base_truth>>
        /\ stage' = IF stage = "seeded" THEN "rechecked" ELSE stage
    BY <1>7 DEF Finish, Leave, env
  <2>2. cache_file = cache /\ stage # "rechecked"
    BY <1>7 DEF RunInv
  <2> QED
    BY <1>7, <2>1, <2>2, BaseStays, SameTestsStay
<1>8. CASE WriteReport
  <2>1. CASE Sanitize
    <3>1. /\ UNCHANGED <<suite, args, loaded, cache, todo, stage, verdict, base_file, base_truth>>
          /\ pc = "report" /\ pc' = "gate"
      BY <1>8, <2>1 DEF WriteReport, env, prog, ci
    <3> QED
      BY <3>1, BaseStays, SameTestsStay
  <2>2. CASE ~Sanitize
    <3>1. Finish("done") /\ exit' = "done" /\ pc = "report"
      BY <1>8, <2>2 DEF WriteReport, Finish, Leave
    <3> QED
      BY <3>1, <1>7 DEF Succeeded
  <2> QED
    BY <2>1, <2>2
<1>9. CASE SaveBaseline \/ Gate
  <2>1. Finish(exit') /\ pc = "gate" /\ exit' \in Succeeded
    BY <1>9 DEF SaveBaseline, Gate, Finish, Leave, Succeeded
  <2> QED
    BY <2>1, <1>7
<1>10. CASE Die
  <2>1. /\ pc # "idle" /\ pc' = "idle" /\ UNCHANGED <<base_file, verdict, base_truth>>
        /\ stage' = IF stage = "seeded" THEN "base" ELSE stage
    BY <1>10 DEF Die, Leave
  <2> QED
    BY <2>1, BaseStays
<1>11. CASE PublishBase
  <2>1. /\ pc = "idle" /\ pc' = "idle" /\ stage = "none" /\ stage' = "base"
        /\ exit \in Succeeded /\ args.headers = Headers /\ loaded = << >>
        /\ base_file' = cache_file /\ base_truth' = [t \in Tests |-> TestOne(t)]
    BY <1>11 DEF PublishBase, Succeeded
  <2>2. cache_file \in Caches /\ Current(cache_file, Headers)
    BY <2>1 DEF CurrentInv, CacheInv, Measured
  <2>3. ASSUME NEW g \in Headers
        PROVE  /\ g \in DOMAIN base_file'
               /\ \A p \in DOMAIN base_file'[g].tests :
                    base_file'[g].tests[p] = base_truth'[TestId(p)]
    <3>1. g \in DOMAIN cache_file /\ CurrentTests(cache_file[g].tests)
      BY <2>2 DEF Current
    <3>2. DOMAIN cache_file[g].tests \subseteq Roots \X Tests
      BY <2>2, <3>1, OfCache
    <3>3. \A p \in DOMAIN cache_file[g].tests : TestId(p) \in Tests
      BY <3>2 DEF TestId
    <3> QED
      BY <2>1, <3>1, <3>3 DEF CurrentTests
  <2>4. BaseOf(base_file)'
    BY <2>1, <2>2, <2>3 DEF BaseOf
  <2> QED
    BY <2>1, <2>4
<1>12. CASE SeedFromBase
  <2>1. /\ pc = "idle" /\ pc' = "idle" /\ stage = "base" /\ stage' = "seeded" 
        /\ UNCHANGED <<base_file, base_truth>> /\ cache_file' = base_file
    BY <1>12 DEF SeedFromBase
  <2> QED
    BY <2>1, BaseStays
<1>13. CASE PrintDiff
  <2>1. /\ pc = "idle" /\ pc' = "idle" /\ stage = "rechecked" /\ stage' = "base" 
        /\ UNCHANGED <<base_file, base_truth>>
    BY <1>13 DEF PrintDiff
  <2> QED
    BY <2>1, BaseStays
<1>14. CASE Edit
  <2>1. /\ pc = "idle" /\ pc' = "idle" /\ stage \in {"none", "base"} /\ stage' = stage
        /\ verdict' = Absent /\ UNCHANGED <<base_file, base_truth>>
    BY <1>14 DEF Edit
  <2> QED
    BY <2>1, BaseStays
<1>15. CASE UNCHANGED vars
  <2>1. UNCHANGED <<suite, args, loaded, cache, todo, tests, pending, stage, verdict, base_file,
                    base_truth, pc, cache_file, exit>>
    BY <1>15 DEF vars, env, files, prog, ci
  <2>2. (DOMAIN Loaded(NextHeader(todo)))' = DOMAIN Loaded(h)
    BY <2>1, KeptStays
  <2> QED
    BY <2>1, <2>2, BaseStays, SameTestsStay
<1> QED
  BY <1>1, <1>2, <1>3, <1>4, <1>5, <1>6, <1>8, <1>9, <1>10, <1>11, <1>12, <1>13, <1>14, <1>15 DEF Next

\* What compliance_diff says of a header, as DiffHonest asks.
CommonTests(h) == {t \in DOMAIN TestResults(base_file, h) : ClassifyTest(suite[t]) = Eligible}

Worse(h)  == {t \in CommonTests(h) : base_truth[t].psy = "pass" /\ TestOne(t).psy # "pass"}
Better(h) == {t \in CommonTests(h) : base_truth[t].psy # "pass" /\ TestOne(t).psy = "pass"}

HonestOf(v, h) ==
  /\ h \in v.regressed <=> Cardinality(Worse(h)) > Cardinality(Better(h))
  /\ h \in v.improved <=> Cardinality(Worse(h)) < Cardinality(Better(h))

LEMMA HonestStays ==
  ASSUME UNCHANGED <<library, suite, base_file, base_truth>>
  PROVE  \A v, h : HonestOf(v, h)' <=> HonestOf(v, h)
<1>1. \A h : CommonTests(h)' = CommonTests(h)
  BY DEF CommonTests, ClassifyTest, Eligible, TestResults
<1>2. \A h : Worse(h)' = Worse(h) /\ Better(h)' = Better(h)
  BY <1>1, ResultsStay DEF Worse, Better
<1> QED
  BY <1>2 DEF HonestOf

\* The results of a cache by test: one for each test that it has a path of.
TestsWithResults(c, h) == {TestId(p) : p \in DOMAIN c[h].tests}

LEMMA ResultsByTest ==
  ASSUME NEW c, NEW h \in DOMAIN c, NEW truth,
         \A p \in DOMAIN c[h].tests : c[h].tests[p] = truth[TestId(p)]
  PROVE  /\ DOMAIN TestResults(c, h) = TestsWithResults(c, h)
         /\ \A t \in DOMAIN TestResults(c, h) : TestResults(c, h)[t] = truth[t]
<1> DEFINE T == TestsWithResults(c, h)
           f == [t \in T |-> c[h].tests[CHOOSE p \in DOMAIN c[h].tests : TestId(p) = t]]
<1>1. TestResults(c, h) = f
  BY DEF TestResults, TestsWithResults
<1>2. ASSUME NEW t \in T PROVE f[t] = truth[t]
  <2>1. \E p \in DOMAIN c[h].tests : TestId(p) = t
    BY DEF TestsWithResults
  <2> DEFINE q == CHOOSE p \in DOMAIN c[h].tests : TestId(p) = t
  <2>2. q \in DOMAIN c[h].tests /\ TestId(q) = t
    BY <2>1
  <2> HIDE DEF q
  <2>3. c[h].tests[q] = truth[t]
    BY <2>2
  <2> QED
    BY <2>3 DEF q
<1> QED
  BY <1>1, <1>2

\* Of two sets of tests: the difference of the numbers is that of the differences.
LEMMA MoreOrLess ==
  ASSUME NEW N, NEW O, IsFiniteSet(N), IsFiniteSet(O)
  PROVE  /\ Cardinality(N) - Cardinality(O) < 0 <=> Cardinality(O \ N) > Cardinality(N \ O)
         /\ Cardinality(N) - Cardinality(O) > 0 <=> Cardinality(O \ N) < Cardinality(N \ O)
<1>1. /\ Cardinality(N \ O) = Cardinality(N) - Cardinality(N \cap O)
      /\ Cardinality(O \ N) = Cardinality(O) - Cardinality(O \cap N)
  BY FS_Difference
<1>2. N \cap O = O \cap N /\ IsFiniteSet(N \cap O)
  BY FS_Intersection
<1>3. Cardinality(N) \in Nat /\ Cardinality(O) \in Nat /\ Cardinality(O \cap N) \in Nat
  BY <1>2, FS_CardinalityType
<1> DEFINE n == Cardinality(N)
           o == Cardinality(O)
           b == Cardinality(O \cap N)
<1>4. n \in Nat /\ o \in Nat /\ b \in Nat
  BY <1>3
<1>5. Cardinality(N \ O) = n - b /\ Cardinality(O \ N) = o - b
  BY <1>1, <1>2
<1> HIDE DEF n, o, b
<1>6. (n - o < 0 <=> o - b > n - b) /\ (n - o > 0 <=> o - b < n - b)
  BY <1>4
<1> QED
  BY <1>5, <1>6 DEF n, o

\* With one place for the checkout, the diff of a rechecked base is honest.
LEMMA PrintsHonestly ==
  ASSUME NEW r, Roots = {r},
         RunInv, CurrentInv, AddsUpInv, CacheInv, SeededInv, stage = "rechecked",
         NEW h \in Headers
  PROVE  HonestOf(Compared(base_file, LoadCache), h)
<1> DEFINE B == base_file[h].tests
           H == cache_file[h].tests
           tb == TestResults(base_file, h)
           th == TestResults(cache_file, h)
           now == CommonTests(h)
<1>1. base_file \in Caches /\ cache_file \in Caches
  BY DEF SeededInv, BaseOf, CacheInv
<1>2. LoadCache = cache_file /\ base_file \notin {Absent, Torn}
  BY <1>1, NoFileIsNoCache DEF LoadCache
<1>3. h \in DOMAIN base_file /\ \A p \in DOMAIN B : B[p] = base_truth[TestId(p)]
  BY DEF SeededInv, BaseOf
<1>4. h \in DOMAIN cache_file /\ \A p \in DOMAIN H : H[p] = TestOne(TestId(p))
  BY DEF SeededInv, CurrentInv, Current, CurrentTests, Measured
<1>5. DOMAIN H = DOMAIN B \cap CollectEligible(h)
  BY DEF SeededInv, SameTests, Loaded, Restrict
<1>6. /\ DOMAIN tb = TestsWithResults(base_file, h)
      /\ \A t \in DOMAIN tb : tb[t] = base_truth[t]
  BY <1>3, ResultsByTest
<1>7. /\ DOMAIN th = TestsWithResults(cache_file, h)
      /\ \A t \in DOMAIN th : th[t] = TestOne(t)
  <2> DEFINE truth == [t \in Tests |-> TestOne(t)]
  <2>1. \A p \in DOMAIN H : TestId(p) \in Tests
    BY <1>1, <1>4, OfCache DEF TestId
  <2>2. \A p \in DOMAIN H : H[p] = truth[TestId(p)]
    BY <1>4, <2>1
  <2>3. \A t \in TestsWithResults(cache_file, h) : truth[t] = TestOne(t)
    BY <2>1 DEF TestsWithResults
  <2> HIDE DEF truth
  <2> QED
    BY <1>4, <2>2, <2>3, ResultsByTest
<1>8. DOMAIN B \subseteq {r} \X Tests /\ \A p \in DOMAIN B : p[2] \in Dirs[h]
  BY <1>1, <1>2, <1>3, OfCache DEF AddsUpInv, AddsUp, EntryAddsUp, TestsBelow
<1>9. args.root = r
  BY DEF AddsUpInv, Requests
<1>10. \A p \in DOMAIN B : p \in CollectEligible(h) <=> ClassifyTest(suite[TestId(p)]) = Eligible
  BY <1>8, <1>9 DEF CollectEligible, TestId
<1>11. DOMAIN th = now /\ now \subseteq DOMAIN tb
  <2>1. now = {t \in DOMAIN tb : ClassifyTest(suite[t]) = Eligible}
    BY DEF CommonTests
  <2> QED
    BY <2>1, <1>5, <1>6, <1>7, <1>10 DEF TestsWithResults
<1>12. Corpus(base_file, cache_file, h) = now
  BY <1>11 DEF Corpus
<1>13. IsFiniteSet(now)
  <2>1. now \subseteq Tests
    BY <1>6, <1>8, <1>11 DEF TestId, TestsWithResults
  <2> QED
    BY <2>1, FS_Subset, ComplianceAssumption
<1> HIDE DEF now, tb, th
<1> DEFINE N == {t \in now : TestOne(t).psy = "pass"}
           O == {t \in now : base_truth[t].psy = "pass"}
<1>14. Passes(th, now) = Cardinality(N)
  <2>1. {t \in now : th[t].psy = "pass"} = N
    BY <1>7, <1>11
  <2> QED
    BY <2>1 DEF Passes, Quantify
<1>15. Passes(tb, now) = Cardinality(O)
  <2>1. {t \in now : tb[t].psy = "pass"} = O
    BY <1>6, <1>11
  <2> QED
    BY <2>1 DEF Passes, Quantify
<1>16. Delta(base_file, cache_file, h) = Cardinality(N) - Cardinality(O)
  BY <1>12, <1>14, <1>15 DEF Delta, th, tb
<1>17. Worse(h) = O \ N /\ Better(h) = N \ O
  BY DEF Worse, Better, now
<1>18. IsFiniteSet(N) /\ IsFiniteSet(O)
  BY <1>13, FS_Subset
<1> HIDE DEF N, O
<1> DEFINE v == Compared(base_file, LoadCache)
<1>19. /\ h \in v.regressed <=> Delta(base_file, cache_file, h) < 0
       /\ h \in v.improved <=> Delta(base_file, cache_file, h) > 0
  BY <1>2, <1>3 DEF Compared
<1> HIDE DEF v
<1>20. HonestOf(v, h)
  BY <1>16, <1>17, <1>18, <1>19, MoreOrLess DEF HonestOf
<1> QED
  BY <1>20 DEF v

HonestInv == verdict # Absent => \A h \in Headers : HonestOf(verdict, h)

LEMMA HonestKept ==
  ASSUME NEW r, Roots = {r}
  PROVE  RunInv /\ CurrentInv /\ AddsUpInv /\ CacheInv /\ SeededInv /\ HonestInv /\ [Next]_vars
           => HonestInv'
<1> SUFFICES ASSUME RunInv, CurrentInv, AddsUpInv, CacheInv, SeededInv, HonestInv, [Next]_vars
             PROVE  HonestInv'
  OBVIOUS
<1> USE DEF HonestInv
<1>1. CASE verdict' = Absent
  BY <1>1
<1>2. CASE UNCHANGED <<library, suite, base_file, base_truth, verdict>>
  BY <1>2, HonestStays DEF HonestOf
<1>3. CASE PrintDiff
  <2>1. /\ stage = "rechecked" /\ verdict' = Compared(base_file, LoadCache)
        /\ UNCHANGED <<library, suite, base_file, base_truth>>
    BY <1>3 DEF PrintDiff, env
  <2>2. \A h \in Headers : HonestOf(Compared(base_file, LoadCache), h)
    BY <2>1, PrintsHonestly
  <2>3. \A h \in Headers : HonestOf(verdict', h)
    BY <2>1, <2>2
  <2> QED
    BY <2>1, <2>3, HonestStays DEF HonestOf
<1>4. CASE StartRun \/ Edit
  BY <1>1, <1>4 DEF StartRun, Edit
<1>5. CASE PublishBase
  BY <1>1, <1>5 DEF PublishBase, SeededInv
<1>6. CASE BuildRuntimeArchive \/ BeginHeader \/ EndHeader \/ TruncateCache \/ SaveCache
           \/ WriteReport \/ SaveBaseline \/ Gate \/ Die \/ SeedFromBase \/ UNCHANGED vars
  BY <1>2, <1>6
  DEF BuildRuntimeArchive, BeginHeader, EndHeader, TruncateCache, SaveCache, WriteReport,
      SaveBaseline, Gate, Die, Finish, SeedFromBase, vars, env, ci
<1>7. ASSUME NEW p \in pending, FinishTest(p) PROVE HonestInv'
  BY <1>2, <1>7 DEF FinishTest, env, ci
<1> QED
  BY <1>3, <1>4, <1>5, <1>6, <1>7 DEF Next

\* What compliance_diff prints of a pull request is what the pull request did
\* (compliance_diff.py, and the two workflows that make the caches it reads),
\* when both workflows check llvm-project out at the same place.
THEOREM DiffIsHonest ==
  ASSUME NEW r, Roots = {r}
  PROVE  Spec => []DiffHonest
<1> DEFINE IInv == RunInv /\ CurrentInv /\ KeptInv /\ AddsUpInv /\ CacheInv /\ SeededInv /\ HonestInv
<1>1. Init => IInv
  <2>1. Init => HonestInv
    BY DEF Init, HonestInv
  <2> QED
    BY <2>1, RunInitially, CurrentInitially, KeptInitially, AddsUpInitially, CacheInitially,
       SeededInitially
<1>2. IInv /\ [Next]_vars => IInv'
  BY RunKept, CurrentKept, KeptKept, AddsUpKept, CacheKept, SeededKept, HonestKept
<1>3. IInv => DiffHonest
  <2> SUFFICES ASSUME HonestInv PROVE DiffHonest
    OBVIOUS
  <2> QED
    BY DEF HonestInv, DiffHonest, HonestOf, Worse, Better, CommonTests
<1> QED
  BY <1>1, <1>2, <1>3, PTL DEF Spec

=============================================================================
