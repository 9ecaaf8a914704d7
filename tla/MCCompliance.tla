---------------------------- MODULE MCCompliance ----------------------------
(* Small instances of Compliance for TLC. *)
EXTENDS Compliance, TLC

CONSTANTS h1, h2, t1, t2, t3

\* Two headers whose directories share a test, as <thread> and <mutex> do.
MCDirs == h1 :> {t1, t2} @@ h2 :> {t2, t3}
MCSystem == t1 :> "pass" @@ t2 :> "pass" @@ t3 :> "cfail"
MCFirst == t1 :> "rfail" @@ t2 :> "pass" @@ t3 :> "pass"

NoRequires == [libcpp |-> FALSE, exact |-> {}, atleast |-> {}]
Compiles == [form |-> "compile.pass", unsupported |-> {}, requires |-> NoRequires]
Runs    == [form |-> "pass", unsupported |-> {}, requires |-> NoRequires]
Newer   == [form |-> "pass", unsupported |-> {}, requires |-> [NoRequires EXCEPT !.atleast = {23}]]
MCFeatures == {Runs, Newer, Compiles}
MCFirstSuite == t1 :> Runs @@ t2 :> Runs @@ t3 :> Compiles
============================================================================
