------------------------------- MODULE Recipes -------------------------------
(***************************************************************************)
(* The recipes of use_on_realworld_projects/realworld_projects.py as data: *)
(* which archives a project's build() fetches, the work directory it asks  *)
(* for, its steps in order, and what Project says about it.  A step either *)
(* edits or generates files, or runs a command; a timed command adds to a  *)
(* phase of the result.  Flags, targets and the text of the edits are left *)
(* out.  RealworldBuilds executes these records.                           *)
(***************************************************************************)
EXTENDS Naturals, Sequences

CONSTANT Rounds   \* bound: turns of a loop over a project's own list of tests

\* An archive is known by its name in RW_DIR and the SHA-256 the recipe pins.
Archive(dest, sha256) == [dest |-> dest, sha256 |-> sha256]

\* Steps: files edited, written, copied or removed; a command that is run or
\* timed; many commands in a thread pool, timed as one.
P == [op |-> "patch"]
Untimed == [op |-> "run"]
Timed(phase) == [op |-> "timed", phase |-> phase]
TimedMany(phase) == [op |-> "pool", phase |-> phase]

C == Timed("configure")
K == Timed("compile")
T == Timed("run tests")

PHASES == {"configure", "compile", "run tests"}

Repeat(steps, n) ==
  LET f[i \in 0..n] == IF i = 0 THEN <<>> ELSE f[i - 1] \o steps IN f[n]

\* class Project, with the archives, directory and steps of its build().  Both
\* fields "performance" fall back to the ordinary ones.
Project(archives, prefix, steps, phases, debug, release) ==
  [archives |-> archives, prefix |-> prefix, steps |-> steps, phases |-> phases,
   expected_seconds |-> [debug |-> debug, release |-> release],
   expected_jobs |-> 20,
   ignore_cleanup_errors |-> TRUE,
   stable |-> TRUE,              \* made by _temporary_directory, not by tempfile
   performance_steps |-> steps, performance_phases |-> phases]

Catch2 == Project(<<Archive("Catch2-v3.8.0", "1ab2de20")>>, "rw-catch2-",
  <<C, K, T>>, PHASES \ {"configure"}, 10, 13)

Date == [Project(<<Archive("date-v3.0.4", "56e05531")>>, "rw-date-",
  <<P, C, K, T>>, PHASES \ {"configure"}, 15, 15) EXCEPT !.ignore_cleanup_errors = FALSE]

Abseil(full) == Project(
  <<Archive("abseil-cpp-20260107.1", "4314e2a7"), Archive("googletest-1.17.0", "65fab701")>>,
  "rw-abseil-", <<C, K, T>>, PHASES, IF full THEN 25 ELSE 14, IF full THEN 35 ELSE 19)

Googletest(full) == Project(<<Archive("googletest-1.16.0", "78c676fc")>>,
  IF full THEN "rw-googletest-full-" ELSE "rw-googletest-", <<P, C, K, T>>, PHASES,
  IF full THEN 90 ELSE 32, IF full THEN 150 ELSE 69)

Godot == Project(<<Archive("godot-4.6.3-stable", "fa22b5f9")>>, "rw-godot-",
  <<P, K>>, {"compile"}, 120, 120)

Cmake(full) == Project(<<Archive("cmake-4.4.2", "1db9e61e")>>,
  IF full THEN "rw-cmake-full-" ELSE "rw-cmake-", <<P, C, K, T>>, PHASES,
  IF full THEN 180 ELSE 65, IF full THEN 180 ELSE 70)

Cppcheck == [Project(<<Archive("cppcheck-2.21.0", "f028ff75")>>, "rw-cppcheck-",
  <<P, K, T>>, PHASES \ {"configure"}, 15, 15)
  EXCEPT !.performance_steps = <<P, K>>, !.performance_phases = {"compile"}]

Ctre == Project(<<Archive("ctre-v3.11.0", "7d4b30d0")>>, "rw-ctre-", <<C, K>>, {"compile"}, 5, 5)

Eigen(full) == [Project(<<Archive("eigen-5.0.1", "e9c326dc")>>,
  IF full THEN "rw-eigen-full-" ELSE "rw-eigen-",
  IF full THEN <<P, C, K, T>> ELSE <<P>> \o Repeat(<<K, T>>, Rounds),
  PHASES \ {"configure"}, IF full THEN 1800 ELSE 15, IF full THEN 1800 ELSE 15)
  EXCEPT !.expected_jobs = IF full THEN 16 ELSE 20]

Flatbuffers == Project(<<Archive("flatbuffers-v25.12.19", "f81c3162")>>, "rw-flatbuffers-",
  <<P, C, K, T>>, PHASES, 30, 30)

Fmt == Project(<<Archive("fmt-12.1.0", "ea7de429")>>, "rw-fmt-",
  <<C, K, T>>, PHASES \ {"configure"}, 12, 25)

Nlohmann(full) == Project(<<Archive("nlohmann-3.12.0", "4b92eb0c")>>, "rw-nlohmann-",
  <<C, K>> \o IF full THEN <<T, TimedMany("examples")>> ELSE <<>>,
  IF full THEN PHASES \union {"examples"} ELSE PHASES \ {"run tests"},
  IF full THEN 57 ELSE 20, IF full THEN 60 ELSE 35)

\* The three small recipes below share _single_source_project: each source file
\* is compiled and, with run_binary, run before the next one.
SingleSourceProject(archive, prefix, prepare, source_files, run_binary, debug, release) ==
  [Project(<<archive>>, prefix,
     prepare \o Repeat(IF run_binary THEN <<K, T>> ELSE <<K>>, source_files),
     {"compile"} \union IF run_binary THEN {"run tests"} ELSE {}, debug, release)
   EXCEPT !.ignore_cleanup_errors = FALSE]

Inipp == SingleSourceProject(Archive("inipp-1.0.13", "656c5d82"), "rw-inipp-",
  <<P>>, 2, TRUE, 10, 10)

\* The full variant is the only one whose directory is never the stable one.
Cxxopts(full) ==
  LET archive == Archive("cxxopts-3.3.1", "3bfc7054")
  IN  IF full
      THEN [Project(<<archive>>, "rw-cxxopts-full-", <<P, C, K, Timed("run example"), T>>,
              PHASES \union {"run example"}, 20, 20) EXCEPT !.stable = FALSE]
      ELSE SingleSourceProject(archive, "rw-cxxopts-", <<>>, 1, TRUE, 10, 10)

Pocketfft(full) == SingleSourceProject(Archive("pocketfft-c90e55b3d529", "2d90016d"),
  "rw-pocketfft-", <<>>, 1, full, IF full THEN 210 ELSE 10, IF full THEN 30 ELSE 10)

Rapidjson == Project(
  <<Archive("rapidjson-24b5e7a8b27f", "2d2601a8"), Archive("googletest-release-1.8.0", "58a6f427")>>,
  "rw-rapidjson-", <<C, K, Timed("run example"), T>>, PHASES \union {"run example"}, 34, 97)

ReactNative == Project(
  <<Archive("react-native-v0.83.8", "615329ab"), Archive("fast_float-v8.0.0", "f312f2dc"),
    Archive("googletest-1.16.0", "78c676fc")>>,
  "rw-react-native-", <<P, C, K, T>>, PHASES \ {"configure"}, 20, 30)

Rdfind == Project(<<Archive("rdfind-cac59ade85de", "49d2b145")>>, "rw-rdfind-",
  <<Untimed, C, K, T>>, PHASES, 6, 4)

\* Strict and drop-in mode are built in the same directory.
Simdutf == Project(<<Archive("simdutf-f542909a257b", "fc605368")>>, "rw-simdutf-",
  <<C, K, T>>, PHASES \ {"configure"}, 27, 20)

Tesseract == Project(<<Archive("tesseract-5.5.2", "6235ea0d")>>, "rw-tesseract-",
  <<P, C, K, T>>, PHASES \ {"configure"}, 60, 60)

Tensorflow == Project(
  <<Archive("tensorflow-v2.21.0", "ef3568bb"), Archive("bazel-7.7.0", "fe7e799c")>>,
  "rw-tensorflow-", <<P, C, P, K>>, {"compile"}, 60, 60)

Electron == Project(<<Archive("electron-v43.2.0", "eba2128a")>>, "rw-electron-",
  <<P, K, T>>, PHASES \ {"configure"}, 3, 3)

\* "build and test" is b2, after the compiler has been asked for its version.
BoostAsio(full) == Project(<<Archive("boost_1_91_0", "5734305f")>>,
  IF full THEN "rw-boost-asio-full-" ELSE "rw-boost-asio-",
  IF full THEN <<C, P, Untimed, Timed("build and test")>>
          ELSE <<C, P>> \o Repeat(<<K>>, 3) \o Repeat(<<T>>, 3),
  IF full THEN {"build and test"} ELSE PHASES, IF full THEN 180 ELSE 39, IF full THEN 180 ELSE 39)

BoostTest(full) == Project(<<Archive("boost_1_91_0", "5734305f")>>,
  IF full THEN "rw-boost-test-full-" ELSE "rw-boost-test-",
  IF full THEN <<P, C, P, Untimed, Timed("build and test")>>
          ELSE <<P, TimedMany("compile")>> \o Repeat(<<T>>, 3),
  IF full THEN {"build and test"} ELSE PHASES \ {"configure"},
  IF full THEN 180 ELSE 30, IF full THEN 180 ELSE 30)

Bitcoin(full) == Project(<<Archive("bitcoin-v31.0", "884fd15f")>>,
  IF full THEN "rw-bitcoin-full-" ELSE "rw-bitcoin-", <<P, C, K>>, {"compile"},
  IF full THEN 120 ELSE 10, IF full THEN 120 ELSE 10)

\* The full variant builds, runs and deletes its tests one batch after another.
Libtorrent(full) == Project(
  <<Archive("libtorrent-v2.1.0", "5d5b264e"), Archive("try-signal-105cce5", "6f111b0d")>>,
  IF full THEN "rw-libtorrent-full-" ELSE "rw-libtorrent-",
  <<P, C>> \o IF full THEN Repeat(<<K, T, P>>, Rounds) ELSE <<K>>,
  {"compile"} \union IF full THEN {"run tests"} ELSE {},
  IF full THEN 900 ELSE 90, IF full THEN 900 ELSE 90)

LlamaCpp == Project(<<Archive("llama.cpp-b9637", "76228331")>>, "rw-llama-cpp-",
  <<P, C, K, K>>, {"compile"}, 10, 10)

Harfbuzz == Project(<<Archive("harfbuzz-14.2.1", "3c2a9006")>>, "rw-harfbuzz-",
  <<P, C, K, T>>, PHASES \ {"configure"}, 20, 22)

Libcamera(full) == [Project(<<Archive("libcamera-v0.7.2", "64881a4b")>>,
  IF full THEN "rw-libcamera-full-" ELSE "rw-libcamera-",
  <<P, C, K>> \o IF full THEN <<T>> ELSE <<>>,
  {"compile"} \union IF full THEN {"run tests"} ELSE {},
  IF full THEN 40 ELSE 6, IF full THEN 40 ELSE 8)
  EXCEPT !.expected_jobs = IF full THEN 8 ELSE 14]

Opencv(full) == Project(
  <<Archive("opencv-4.13.0", "1d40ca01"), Archive("opencv_extra-4.13.0", "73eda44b")>>,
  "rw-opencv-", <<C, K>> \o IF full THEN <<T>> ELSE <<>>,
  IF full THEN PHASES ELSE PHASES \ {"run tests"},
  IF full THEN 540 ELSE 120, IF full THEN 189 ELSE 90)

Pybind11(full) == [Project(<<Archive("pybind11-v3.0.4", "74b6a2c2")>>,
  IF full THEN "rw-pybind11-full-" ELSE "rw-pybind11-", <<C, K, T>>, PHASES,
  IF full THEN 75 ELSE 3, IF full THEN 65 ELSE 3)
  EXCEPT !.expected_jobs = IF full THEN 16 ELSE 20]

StrongType == Project(
  <<Archive("strong-type-v16", "b0582ff8"), Archive("catch2-v2.13.9.hpp", "27da57c7")>>,
  "rw-strong-type-", <<P, C, K, T>>, PHASES, 12, 12)

Ssvstart == Project(
  <<Archive("SSVStart-89c77a124742", "be46f688"), Archive("SSVUtils-c8848b81ecb9", "b45216df"),
    Archive("vrm_pp-d14dbb0486e2", "aae3eebb"), Archive("zancle-9c272d6", "f1e868c4")>>,
  "rw-ssvstart-", <<P, K, T>>, PHASES \ {"configure"}, 2, 2)

Trompeloeil == Project(
  <<Archive("trompeloeil-v49", "2523571f"), Archive("catch2-v2.13.7.hpp", "ea379c4a")>>,
  "rw-trompeloeil-", <<P, C, K>> \o Repeat(<<T>>, 3), PHASES, 25, 25)

Zancle == Project(<<Archive("zancle-9c272d6", "f1e868c4")>>, "rw-zancle-",
  <<P, C, K>>, {"compile"}, 4, 4)

PROJECTS ==
  [catch2 |-> Catch2, date |-> Date, godot |-> Godot, cppcheck |-> Cppcheck, ctre |-> Ctre,
   electron |-> Electron, flatbuffers |-> Flatbuffers, fmt |-> Fmt, harfbuzz |-> Harfbuzz,
   inipp |-> Inipp, llama_cpp |-> LlamaCpp, rapidjson |-> Rapidjson,
   react_native |-> ReactNative, rdfind |-> Rdfind, simdutf |-> Simdutf,
   simdutf_dropin |-> Simdutf, ssvstart |-> Ssvstart, strong_type |-> StrongType,
   tesseract |-> Tesseract, tensorflow |-> Tensorflow, trompeloeil |-> Trompeloeil,
   zancle |-> Zancle,
   abseil |-> Abseil(FALSE), abseil_full |-> Abseil(TRUE),
   bitcoin |-> Bitcoin(FALSE), bitcoin_full |-> Bitcoin(TRUE),
   boost_asio |-> BoostAsio(FALSE), boost_asio_full |-> BoostAsio(TRUE),
   boost_test |-> BoostTest(FALSE), boost_test_full |-> BoostTest(TRUE),
   cmake |-> Cmake(FALSE), cmake_full |-> Cmake(TRUE),
   cxxopts |-> Cxxopts(FALSE), cxxopts_full |-> Cxxopts(TRUE),
   eigen |-> Eigen(FALSE), eigen_full |-> Eigen(TRUE),
   googletest |-> Googletest(FALSE), googletest_full |-> Googletest(TRUE),
   libcamera |-> Libcamera(FALSE), libcamera_full |-> Libcamera(TRUE),
   libtorrent |-> Libtorrent(FALSE), libtorrent_full |-> Libtorrent(TRUE),
   nlohmann |-> Nlohmann(FALSE), nlohmann_full |-> Nlohmann(TRUE),
   opencv |-> Opencv(FALSE), opencv_full |-> Opencv(TRUE),
   pocketfft |-> Pocketfft(FALSE), pocketfft_full |-> Pocketfft(TRUE),
   pybind11 |-> Pybind11(FALSE), pybind11_full |-> Pybind11(TRUE)]
===============================================================================
