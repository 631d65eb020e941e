------------------------------ MODULE TestRunner ------------------------------
(***************************************************************************)
(* The runner of the comet tests (comet-test/robot/basic/basic-test.py):   *)
(* main constructs the threads one after the other, each with its common   *)
(* setup, starts them, waits for them and makes the report.  Every thread  *)
(* runs the create tests in order, and after a create test the delete test *)
(* of the same number if there is one.  The verdict of a test is read back *)
(* from the file pybot writes into a directory all threads share.          *)
(***************************************************************************)
EXTENDS Naturals, FiniteSets

CONSTANTS
    Host,         \* config["hostname"] of the configurations
    ThreadNumber, \* threads for each of them
    Last,         \* create tests, numbered 1 to Last
    Deletable     \* numbers of the delete tests there are

VARIABLES
    main,     \* where main stands
    pc,       \* where each thread stands
    number,   \* the create test it is at
    xml,      \* [file -> verdict], for the files in OUTPUT_PATH
    verdict,  \* history: what the last test of each thread came to
    volumes,  \* volumes that create tests have made and no test has deleted
    report    \* the files rebot has read, once there is a report

vars == <<main, pc, number, xml, verdict, volumes, report>>

Thread == Host \X (0..(ThreadNumber - 1))
Ended  == {"passed", "failed", "died"}

\* Names of output files; those of common setups have no thread in them.
SetupFile(t) == <<t[1], "setup">>

\* Faulty: named for the host only.
OutputFile_Host(t, kind) == <<t[1], number[t], kind>>

OutputFile(t, kind) == <<t[1], t[2], number[t], kind>>

Goto(t, label) == pc' = [pc EXCEPT ![t] = label]

\* pybot writes a file, over one of the same name.
Written(f, v) ==
    xml' = [g \in DOMAIN xml \cup {f} |-> IF g = f THEN v ELSE xml[g]]

-----------------------------------------------------------------------------
(* main.                                                                   *)

\* setup_env clears the output directory before it looks at the options, which
\* may end the program; so do main, without a directory of create tests, and
\* the first Test, over a create test without a number in its name.
SetupEnv ==
    /\ main = "off"
    /\ main' \in {"construct", "refused"}
    /\ xml' = [f \in {} |-> "pass"]
    /\ UNCHANGED <<pc, number, verdict, volumes, report>>

\* Test.__init__ ends with the common setup, whose verdict nobody reads.
Construct(t) ==
    /\ main = "construct"
    /\ pc[t] = "none"
    /\ Goto(t, "ready")
    /\ \/ xml' = xml
       \/ \E v \in {"pass", "fail"} : Written(SetupFile(t), v)
    /\ UNCHANGED <<main, number, verdict, volumes, report>>

Start(t) ==
    /\ \A u \in Thread : pc[u] # "none"
    /\ pc[t] = "ready"
    /\ main' = "start"
    /\ Goto(t, "create")
    /\ UNCHANGED <<number, xml, verdict, volumes, report>>

\* Without threads main is here at once.
Join ==
    /\ main \in {"construct", "start"}
    /\ \A t \in Thread : pc[t] \in Ended
    /\ main' = "report"
    /\ UNCHANGED <<pc, number, xml, verdict, volumes, report>>

\* generate_report.  rebot may fail, and makes nothing when there is no output to
\* read; main raises then, over the report it wants to print.
GenerateReport ==
    /\ main = "report"
    /\ \/ DOMAIN xml # {} /\ main' = "done" /\ report' = DOMAIN xml
       \/ main' = "died" /\ report' = report
    /\ UNCHANGED <<pc, number, xml, verdict, volumes>>

-----------------------------------------------------------------------------
(* run_one_test and run_tests.                                             *)

\* pybot runs the test and writes its output, or writes none.
Pybot(t, kind, v) ==
    /\ IF v = "none" THEN xml' = xml ELSE Written(OutputFile(t, kind), v)
    /\ verdict' = [verdict EXCEPT ![t] = v]
    /\ UNCHANGED <<main, number, report>>

\* Whatever it comes to, a create test leaves its volume or not: there are some
\* that delete what they have made (B-Create-14, B-CD-1, B-Migrate-1).
RunCreate(t) ==
    /\ pc[t] = "create"
    /\ \E v \in {"pass", "fail", "none"}, left \in BOOLEAN :
         /\ Pybot(t, "Create", v)
         /\ volumes' = IF left THEN volumes \cup {<<t, number[t]>>} ELSE volumes
    /\ Goto(t, "created")

\* A delete test is given the name of the create test, TESTCASE.
RunDelete(t) ==
    /\ pc[t] = "delete"
    /\ \E v \in {"pass", "fail", "none"}, gone \in BOOLEAN :
         /\ v = "pass" => gone
         /\ Pybot(t, "Delete", v)
         /\ volumes' = IF gone THEN volumes \ {<<t, number[t]>>} ELSE volumes
    /\ Goto(t, "deleted")

\* The verdict is read from the file: one that is not there raises IOError,
\* which ends the thread.
Read(t, kind) ==
    LET f == OutputFile(t, kind) IN
        IF f \notin DOMAIN xml THEN "none" ELSE xml[f]

\* The next create test.
NextCreate(t) ==
    IF number[t] = Last
    THEN Goto(t, "passed") /\ number' = number
    ELSE Goto(t, "create") /\ number' = [number EXCEPT ![t] = @ + 1]

Stop(t, v) ==
    /\ Goto(t, IF v = "none" THEN "died" ELSE "failed")
    /\ number' = number

AfterCreate(t) ==
    /\ pc[t] = "created"
    /\ IF Read(t, "Create") # "pass" THEN Stop(t, Read(t, "Create"))
       ELSE \/ number[t] \in Deletable /\ Goto(t, "delete") /\ number' = number
            \/ number[t] \notin Deletable /\ NextCreate(t)
    /\ UNCHANGED <<main, xml, verdict, volumes, report>>

AfterDelete(t) ==
    /\ pc[t] = "deleted"
    /\ IF Read(t, "Delete") # "pass" THEN Stop(t, Read(t, "Delete"))
                                     ELSE NextCreate(t)
    /\ UNCHANGED <<main, xml, verdict, volumes, report>>

-----------------------------------------------------------------------------

\* The directory may hold what an earlier run left.
Init ==
    /\ main = "off"
    /\ pc = [t \in Thread |-> "none"]
    /\ number = [t \in Thread |-> 1]
    /\ xml \in {[f \in Old |-> "pass"] : Old \in
                  {{}, {<<t[1], t[2], 1, "Create">> : t \in Thread}}}
    /\ verdict = [t \in Thread |-> "none"]
    /\ volumes = {}
    /\ report = {}

RunTests(t) ==
    RunCreate(t) \/ AfterCreate(t) \/ RunDelete(t) \/ AfterDelete(t)

Main ==
    \/ \E t \in Thread : Construct(t) \/ Start(t)
    \/ Join \/ GenerateReport

Next == SetupEnv \/ Main \/ \E t \in Thread : RunTests(t)

Spec == Init /\ [][Next]_vars

\* pybot and rebot come to an end, and threads that can run do.
Fairness == WF_vars(Main) /\ \A t \in Thread : WF_vars(RunTests(t))

FairSpec == Spec /\ Fairness

-----------------------------------------------------------------------------
(* Properties.                                                             *)

TypeOK ==
    /\ main \in {"off", "construct", "start", "report", "done", "refused", "died"}
    /\ pc \in [Thread -> {"none", "ready", "create", "created", "delete",
                          "deleted"} \cup Ended]
    /\ number \in [Thread -> 1..Last]
    /\ \A f \in DOMAIN xml : xml[f] \in {"pass", "fail"}
    /\ verdict \in [Thread -> {"pass", "fail", "none"}]
    /\ volumes \subseteq Thread \X (1..Last)
    /\ report \subseteq DOMAIN xml

\* What a thread goes by is the verdict of the test it has just run, not what
\* another thread, or an earlier run, has left in the directory.
VerdictIsOwn ==
    \A t \in Thread :
        /\ pc[t] = "created" => Read(t, "Create") = verdict[t]
        /\ pc[t] = "deleted" => Read(t, "Delete") = verdict[t]

\* A thread that came through has left no volume of a create test that has a
\* delete test: its own delete test was run after it, and passed.
CleansUp ==
    \A t \in Thread :
        pc[t] = "passed" => volumes \cap ({t} \X Deletable) = {}

\* A report is made when no test is run any more; the output of every create
\* test is in it, of all threads that came through, and that of every other
\* test there is a file of.
ReportComplete ==
    main = "done" =>
        /\ report = DOMAIN xml
        /\ \A t \in Thread :
              /\ pc[t] \in Ended
              /\ pc[t] = "passed" =>
                    \A n \in 1..Last : <<t[1], t[2], n, "Create">> \in report

\* However the tests of the threads come out, and whoever of them raises, main
\* ends: with the report, at rebot's failure, or before there is a thread.
RunEnds == (main # "off") ~> (main \in {"done", "died", "refused"})

=============================================================================
