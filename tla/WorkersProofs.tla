---------------------------- MODULE WorkersProofs ---------------------------
(***************************************************************************)
(* The workers' side, for any constants: a match is only started with the  *)
(* files its test asks for, a bench report only stops a test that deserves *)
(* it, whatever is selected for a machine fits it, one client at a time    *)
(* runs from a worker's directory, and one process of the server runs the  *)
(* watchers.                                                               *)
(***************************************************************************)
EXTENDS MCWorkers, SequenceTheorems, TLAPS

(***************************************************************************)
(* Preparation: a match is only started with the files its test asks for,  *)
(* for any tests, any branches, and any downloads, kills and cleanups.     *)
(***************************************************************************)
JobSet == [what : {"book", "net", "engine", "stage", "bench", "play"}, side : Sides]
Position == [at : {"loop", "ask", "work", "hung"}, test : PrepTests \cup {NoTest}, left : Seq(JobSet)]

\* The file under a name was built from what the name says: Torn and Builds are
\* kept apart by the bench alone, so that no name may stand for two builds.
NamesHold == \A x \in Names :
    binary[x] \in {NoBinary, Torn} \cup {Built(b) : b \in {c \in Branches : BinaryName(c) = x}}

\* What a job of the test t leaves behind when it ends well.
NetReady(b) == b.net # NoNet => net[b.net] = "good"
StageReady(b) == b.net # NoNet /\ ~b.private => stage[b.net] = "good"
Done(job, t) ==
    LET b == Side[t][job.side] IN
    /\ job.what = "book" => book = "good"
    /\ job.what = "net" => NetReady(b)
    /\ job.what = "engine" => binary[BinaryName(b)] # NoBinary
    /\ job.what = "stage" => StageReady(b)
    /\ job.what = "bench" => binary[BinaryName(b)] = Built(b)

\* The worker is at the i-th job of the test t.
AtJob(i, t) ==
    /\ prep.at \in {"work", "hung"} /\ prep.test = t
    /\ prep.left = SubSeq(Jobs, i, Len(Jobs))
    /\ \A j \in 1 .. (i - 1) : Done(Jobs[j], t)

JobsAreDone == prep.left # <<>> => \E i \in 1 .. Len(Jobs), t \in PrepTests : AtJob(i, t)

PrepInv ==
    /\ PreparationTypeOK /\ prep \in Position
    /\ NamesHold /\ JobsAreDone /\ BenchStopIsDeserved

-----------------------------------------------------------------------------
(* The jobs, and the branches.                                             *)

LEMMA JobFacts ==
    /\ Jobs \in Seq(JobSet) /\ Len(Jobs) = 10
    /\ \A i \in 1 .. 10 : Jobs[i] \in JobSet /\ (Jobs[i].what = "play" <=> i = 10)
  BY DEF Jobs, Job, JobSet, Sides

LEMMA LeftFacts ==
    ASSUME NEW i \in 1 .. 10
    PROVE  /\ SubSeq(Jobs, i, 10) # <<>> /\ SubSeq(Jobs, i, 10) \in Seq(JobSet)
           /\ Head(SubSeq(Jobs, i, 10)) = Jobs[i]
           /\ Tail(SubSeq(Jobs, i, 10)) = SubSeq(Jobs, i + 1, 10)
  <1>1. 10 \in i .. Len(Jobs) /\ i \in 1 .. Len(Jobs) /\ Jobs \in Seq(JobSet)
    BY JobFacts
  <1>2. Head(SubSeq(Jobs, i, 10)) = Jobs[i] /\ Tail(SubSeq(Jobs, i, 10)) = SubSeq(Jobs, i + 1, 10)
    BY <1>1, HeadTailOfSubSeq
  <1>3. \A j \in i .. 10 : Jobs[j] \in JobSet
    BY JobFacts
  <1>4. SubSeq(Jobs, i, 10) \in Seq(JobSet) /\ Len(SubSeq(Jobs, i, 10)) = 10 - i + 1
    BY <1>3, SubSeqProperties
  <1>5. SubSeq(Jobs, i, 10) # <<>>
    <2>1. Len(<<>>) = 0
      OBVIOUS
    <2>2. Len(SubSeq(Jobs, i, 10)) # 0
      BY <1>4
    <2> QED BY <2>1, <2>2
  <1> QED BY <1>2, <1>4, <1>5

\* Two branches with one name of their engines have one build.
LEMMA NameTellsBuild ==
    ASSUME NEW b \in Branches, NEW c \in Branches, BinaryName(b) = BinaryName(c)
    PROVE  Built(b) = Built(c)
  <1>1. /\ b = [sha |-> b.sha, net |-> b.net, args |-> b.args, tune |-> b.tune, private |-> b.private]
        /\ c = [sha |-> c.sha, net |-> c.net, args |-> c.args, tune |-> c.tune, private |-> c.private]
        /\ b.private \in BOOLEAN /\ c.private \in BOOLEAN
    BY PreparationAssumption
  <1>2. b.private <=> c.private
    BY <1>1 DEF BinaryName
  <1>3. CASE b.private
    BY <1>1, <1>2, <1>3 DEF BinaryName, Built
  <1>4. CASE ~b.private
    BY <1>1, <1>2, <1>4 DEF BinaryName, Built
  <1> QED BY <1>3, <1>4

LEMMA BranchOf ==
    ASSUME NEW t \in PrepTests, NEW s \in Sides
    PROVE  /\ Side[t][s] \in Branches /\ BinaryName(Side[t][s]) \in Names
           /\ Built(Side[t][s]) \in Builds /\ Built(Side[t][s]) \notin {NoBinary, Torn}
           /\ Side[t][s].net # NoNet => Side[t][s].net \in Nets
  <1>1. PICK b : b = Side[t][s]
    OBVIOUS
  <1>2. b \in Branches
    BY <1>1 DEF Branches
  <1>3. BinaryName(b) \in Names /\ Built(b) \in Builds
    BY <1>2 DEF Names, Builds
  <1>4. b.net # NoNet => b.net \in Nets
    BY <1>2 DEF Nets
  <1> QED BY <1>1, <1>2, <1>3, <1>4, PreparationAssumption

\* The job that is done now, and the branch it is done for.
LEMMA JobNow ==
    ASSUME NEW i \in 1 .. 10, NEW t \in PrepTests, AtJob(i, t)
    PROVE  /\ prep.left # <<>> /\ Head(prep.left) = Jobs[i]
           /\ Tail(prep.left) = SubSeq(Jobs, i + 1, 10)
           /\ \A what : Doing(what) <=> Jobs[i].what = what
           /\ \A what : At(what) => Jobs[i].what = what
           /\ Branch = Side[t][Jobs[i].side] /\ Jobs[i].side \in Sides
  BY JobFacts, LeftFacts DEF AtJob, At, Doing, Branch, JobSet

LEMMA PickDoing ==
    ASSUME PrepInv, NEW what, Doing(what)
    PROVE  \E i \in 1 .. 10, t \in PrepTests : AtJob(i, t)
  BY JobFacts DEF PrepInv, JobsAreDone, Doing

LEMMA PickJob ==
    ASSUME PrepInv, NEW what, At(what)
    PROVE  \E i \in 1 .. 10, t \in PrepTests : AtJob(i, t)
  BY PickDoing DEF At

-----------------------------------------------------------------------------
(* What a step does to the position.                                       *)

LEMMA BackAtLoop ==
    ASSUME BackToLoop
    PROVE  prep' \in Position /\ JobsAreDone' /\ prep'.at = "loop" /\ prep'.left = <<>>
           /\ prep'.test = NoTest
  BY DEF BackToLoop, Loop, Position, JobsAreDone

\* No file that a job has left is spoilt by the next ones.
FilesImprove ==
    /\ book = "good" => book' = "good"
    /\ \A n \in Nets : /\ net[n] = "good" => net'[n] = "good"
                       /\ stage[n] = "good" => stage'[n] = "good"
    /\ \A x \in Names : binary[x] # NoBinary => binary'[x] = binary[x]

LEMMA DoneStays ==
    ASSUME NEW t \in PrepTests, NEW job \in JobSet, Done(job, t), FilesImprove
    PROVE  Done(job, t)'
  <1>1. PICK b \in Branches : b = Side[t][job.side] /\ BinaryName(b) \in Names /\ Built(b) # NoBinary
                              /\ (b.net # NoNet => b.net \in Nets)
    BY BranchOf DEF JobSet
  <1> QED BY <1>1 DEF Done, NetReady, StageReady, FilesImprove

LEMMA NextJobReady ==
    ASSUME PrepInv, NEW i \in 1 .. 10, NEW t \in PrepTests, AtJob(i, t),
           Jobs[i].what # "play", NextJob, FilesImprove, Done(Jobs[i], t)'
    PROVE  /\ prep' \in Position /\ JobsAreDone' /\ prep'.at = prep.at
           /\ prep'.left # <<>> /\ prep'.test = prep.test
  <1>1. i \in 1 .. 9 /\ i + 1 \in 1 .. 10
    BY JobFacts
  <1>2. prep \in Position /\ prep' = [prep EXCEPT !.left = SubSeq(Jobs, i + 1, 10)]
    BY JobNow DEF NextJob, PrepInv
  <1>3. SubSeq(Jobs, i + 1, 10) # <<>> /\ SubSeq(Jobs, i + 1, 10) \in Seq(JobSet)
    BY <1>1, LeftFacts
  <1>4. /\ prep' \in Position /\ prep'.at = prep.at /\ prep'.test = prep.test
        /\ prep'.left = SubSeq(Jobs, i + 1, 10)
    BY <1>2, <1>3 DEF Position
  <1>5. \A j \in 1 .. i : Done(Jobs[j], t)'
    <2> TAKE j \in 1 .. i
    <2>1. CASE j = i
      BY <2>1
    <2>2. CASE j # i
      BY <2>2, <1>1, DoneStays, JobFacts DEF AtJob
    <2> QED BY <2>1, <2>2
  <1>6. AtJob(i + 1, t)'
    BY <1>1, <1>4, <1>5, JobFacts DEF AtJob
  <1> QED BY <1>1, <1>3, <1>4, <1>6, JobFacts DEF JobsAreDone

-----------------------------------------------------------------------------
(* The types, and the files that grow old.                                 *)

FileTypes ==
    /\ book \in FileState
    /\ net \in [Nets -> FileState] /\ stage \in [Nets -> FileState]
    /\ binary \in [Names -> Builds \cup {NoBinary, Torn}]
CountTypes ==
    /\ blacklist \subseteq PrepTests /\ stopped \subseteq PrepTests /\ blamed \subseteq PrepTests
    /\ mishaps \in 0 .. MaxMishaps /\ agings \in 0 .. MaxAgings

LEMMA Parts ==
    PrepInv <=> /\ FileTypes /\ CountTypes /\ old \subseteq Present /\ prep \in Position
                /\ (prep.at \in {"work", "hung"} <=> prep.left # <<>>)
                /\ NamesHold /\ JobsAreDone /\ BenchStopIsDeserved
  BY DEF PrepInv, PreparationTypeOK, FileTypes, CountTypes, Position

LEMMA PartsNext ==
    ASSUME FileTypes', CountTypes', (old \subseteq Present)', prep' \in Position,
           prep'.at \in {"work", "hung"} <=> prep'.left # <<>>, NamesHold', JobsAreDone', BenchStopIsDeserved'
    PROVE  PrepInv'
  BY DEF PrepInv, PreparationTypeOK, FileTypes, CountTypes, Position

LEMMA PresentIs ==
    \A f : f \in Present <=> \/ \E n \in Nets : f = <<"net", n>> /\ net[n] # "none"
                             \/ \E n \in Nets : f = <<"stage", n>> /\ stage[n] # "none"
                             \/ \E x \in Names : f = <<"binary", x>> /\ binary[x] # NoBinary
  BY DEF Present

\* A path that is still old is still there.
LEMMA OldStays ==
    ASSUME old \subseteq Present, old' \subseteq old,
           \A n \in Nets : net[n] # "none" => net'[n] # "none" \/ <<"net", n>> \notin old',
           \A n \in Nets : stage[n] # "none" => stage'[n] # "none",
           \A x \in Names : binary[x] # NoBinary => binary'[x] # NoBinary \/ <<"binary", x>> \notin old'
    PROVE  old' \subseteq Present'
  <1> SUFFICES ASSUME NEW f \in old' PROVE f \in Present'
    OBVIOUS
  <1>1. f \in Present
    OBVIOUS
  <1>2. CASE \E n \in Nets : f = <<"net", n>> /\ net[n] # "none"
    <2>1. \E n \in Nets : f = <<"net", n>> /\ net'[n] # "none"
      BY <1>2
    <2> QED BY <2>1 DEF Present
  <1>3. CASE \E n \in Nets : f = <<"stage", n>> /\ stage[n] # "none"
    <2>1. \E n \in Nets : f = <<"stage", n>> /\ stage'[n] # "none"
      BY <1>3
    <2> QED BY <2>1 DEF Present
  <1>4. CASE \E x \in Names : f = <<"binary", x>> /\ binary[x] # NoBinary
    <2>1. \E x \in Names : f = <<"binary", x>> /\ binary'[x] # NoBinary
      BY <1>4
    <2> QED BY <2>1 DEF Present
  <1> QED BY <1>1, <1>2, <1>3, <1>4, PresentIs

\* A step that leaves the files alone, and what is said about tests.
LEMMA FilesAlone ==
    ASSUME PrepInv, UNCHANGED <<book, net, stage, binary, old>>
    PROVE  FileTypes' /\ NamesHold' /\ FilesImprove /\ (old \subseteq Present)'
  BY Parts DEF FileTypes, NamesHold, FilesImprove, Present

LEMMA ToldAlone ==
    ASSUME PrepInv, UNCHANGED told PROVE BenchStopIsDeserved'
  BY DEF PrepInv, BenchStopIsDeserved, told

\* A step back to the loop.
LEMMA Returns ==
    ASSUME PrepInv, BackToLoop, FileTypes', CountTypes', (old \subseteq Present)', NamesHold',
           BenchStopIsDeserved'
    PROVE  PrepInv'
  BY BackAtLoop, PartsNext

\* A step to the next job.
LEMMA Continues ==
    ASSUME PrepInv, NEW i \in 1 .. 10, NEW t \in PrepTests, AtJob(i, t),
           Jobs[i].what # "play", NextJob, FilesImprove, Done(Jobs[i], t)',
           FileTypes', CountTypes', (old \subseteq Present)', NamesHold', BenchStopIsDeserved'
    PROVE  PrepInv'
  BY NextJobReady, PartsNext DEF AtJob

-----------------------------------------------------------------------------
(* The steps that touch no file.                                           *)

LEMMA SimpleReturns ==
    ASSUME PrepInv, BackToLoop, UNCHANGED <<disk, told, agings>>, blacklist' \subseteq PrepTests,
           mishaps' \in 0 .. MaxMishaps
    PROVE  PrepInv'
  BY FilesAlone, ToldAlone, Returns, Parts DEF disk, told, CountTypes

LEMMA AskKeeps == ASSUME PrepInv, AskWorkload PROVE PrepInv'
  <1>1. CountTypes' /\ FileTypes' /\ NamesHold' /\ (old \subseteq Present)' /\ BenchStopIsDeserved'
    BY FilesAlone, ToldAlone, Parts DEF AskWorkload, disk, told, CountTypes
  <1>2. CASE BackToLoop
    BY <1>1, <1>2, Returns
  <1>3. ASSUME NEW t \in PrepTests, prep' = [at |-> "work", test |-> t, left |-> Jobs]
        PROVE  PrepInv'
    <2>1. Jobs = SubSeq(Jobs, 1, Len(Jobs))
      BY JobFacts, SubSeqFull
    <2>2. /\ prep' \in Position /\ prep'.at = "work" /\ prep'.left # <<>>
          /\ AtJob(1, t)'
      BY <1>3, <2>1, JobFacts, LeftFacts DEF Position, AtJob
    <2>3. JobsAreDone'
      BY <2>2, JobFacts DEF JobsAreDone
    <2> QED BY <1>1, <2>2, <2>3, PartsNext
  <1> QED BY <1>2, <1>3 DEF AskWorkload

LEMMA QuietJobsKeep ==
    ASSUME PrepInv, NoNetwork \/ FoundEngine \/ PassBench PROVE PrepInv'
  <1>1. PICK what \in {"net", "engine", "bench"} : At(what)
    BY DEF NoNetwork, FoundEngine, PassBench
  <1>2. PICK i \in 1 .. 10, t \in PrepTests : AtJob(i, t)
    BY <1>1, PickJob
  <1>3. /\ Jobs[i].what = what /\ Branch = Side[t][Jobs[i].side] /\ Branch \in Branches
        /\ \A k : At(k) => Jobs[i].what = k
    BY <1>1, <1>2, JobNow, BranchOf
  <1>4. NextJob /\ UNCHANGED <<disk, blacklist, told, mishaps, agings>>
    BY DEF NoNetwork, FoundEngine, PassBench
  <1>5. Done(Jobs[i], t)
    BY <1>3 DEF NoNetwork, FoundEngine, PassBench, Done, NetReady, BenchFails
  <1>6. Done(Jobs[i], t)'
    BY <1>4, <1>5 DEF Done, NetReady, StageReady, disk
  <1>7. /\ CountTypes' /\ FileTypes' /\ NamesHold' /\ (old \subseteq Present)'
        /\ BenchStopIsDeserved' /\ FilesImprove
    BY <1>4, FilesAlone, ToldAlone, Parts DEF disk, told, CountTypes
  <1> QED BY <1>2, <1>3, <1>4, <1>6, <1>7, Continues

LEMMA QuietReturnsKeep ==
    ASSUME PrepInv, LoseSource \/ BreakDownload \/ FailBuild \/ FailArtifact \/ Play
    PROVE  PrepInv'
  <1>1. CountTypes /\ MaxMishaps \in Nat
    BY Parts, PreparationAssumption
  <1>2. mishaps' \in 0 .. MaxMishaps
    BY <1>1 DEF LoseSource, BreakDownload, FailBuild, FailArtifact, Play, Mishap, CountTypes
  <1>3. BackToLoop /\ UNCHANGED <<disk, told, agings>>
    BY DEF LoseSource, BreakDownload, FailBuild, FailArtifact, Play, Restart, told
  <1>4. blacklist' \subseteq PrepTests
    <2>1. CASE FailBuild
      <3>1. prep.test \in PrepTests
        BY <2>1, PickJob DEF FailBuild, BuildsHere, AtJob
      <3> QED BY <1>1, <2>1, <3>1 DEF FailBuild, CountTypes
    <2>2. CASE ~FailBuild
      BY <1>1, <2>2 DEF LoseSource, BreakDownload, FailArtifact, Play, Restart, CountTypes
    <2> QED BY <2>1, <2>2
  <1> QED BY <1>2, <1>3, <1>4, SimpleReturns

-----------------------------------------------------------------------------
(* The steps that write files.                                             *)

LEMMA CleanupKeeps == ASSUME PrepInv, Cleanup PROVE PrepInv'
  <1>1. PICK gone \in SUBSET OldNets :
            /\ net' = Without(net, gone, "none")
            /\ old' = old \ ({<<"net", n>> : n \in gone} \cup {<<"binary", x>> : x \in Names})
    BY DEF Cleanup
  <1>2. FileTypes /\ NamesHold /\ old \subseteq Present /\ prep \in Position /\ prep.at = "loop"
        /\ prep.left = <<>>
    BY Parts DEF Cleanup
  <1>3. /\ DOMAIN net = Nets /\ DOMAIN binary = Names /\ gone \subseteq Nets
        /\ binary' = Without(binary, {x \in Names : <<"binary", x>> \in old}, NoBinary)
    BY <1>1, <1>2 DEF FileTypes, OldNets, Cleanup
  <1>4. /\ \A n \in Nets : net'[n] = IF n \in gone THEN "none" ELSE net[n]
        /\ \A x \in Names : binary'[x] = binary[x]
                            \/ (binary'[x] = NoBinary /\ <<"binary", x>> \in old)
    BY <1>1, <1>3 DEF Without
  <1>5. FileTypes'
    <2>1. net' \in [Nets -> FileState]
      BY <1>1, <1>2, <1>3 DEF FileTypes, Without, FileState
    <2>2. binary' \in [Names -> Builds \cup {NoBinary, Torn}]
      BY <1>2, <1>3 DEF FileTypes, Without
    <2> QED BY <1>2, <2>1, <2>2 DEF FileTypes, Cleanup
  <1>6. NamesHold'
    BY <1>2, <1>4 DEF NamesHold
  <1>7. old' \subseteq old
    BY <1>1
  <1>8. \A n \in Nets : net[n] # "none" => net'[n] # "none" \/ <<"net", n>> \notin old'
    BY <1>1, <1>4
  <1>9. \A x \in Names : binary[x] # NoBinary => binary'[x] # NoBinary \/ <<"binary", x>> \notin old'
    BY <1>1, <1>4
  <1>10. stage' = stage /\ UNCHANGED <<blacklist, told, mishaps, agings>>
    BY DEF Cleanup
  <1>11. (old \subseteq Present)'
    BY <1>2, <1>7, <1>8, <1>9, <1>10, OldStays
  <1>12. prep' \in Position /\ prep'.at \notin {"work", "hung"} /\ prep'.left = <<>>
    BY <1>2 DEF Cleanup, Position
  <1>13. CountTypes' /\ BenchStopIsDeserved' /\ JobsAreDone'
    BY <1>10, <1>12, ToldAlone, Parts DEF CountTypes, told, JobsAreDone
  <1> QED BY <1>5, <1>6, <1>11, <1>12, <1>13, PartsNext

LEMMA BookKeeps == ASSUME PrepInv, Book PROVE PrepInv'
  <1>1. PICK i \in 1 .. 10, t \in PrepTests : AtJob(i, t)
    BY PickJob DEF Book
  <1>2. Jobs[i].what = "book"
    BY <1>1, JobNow DEF Book
  <1>3. /\ FileTypes /\ NamesHold /\ CountTypes /\ old \subseteq Present
        /\ UNCHANGED <<net, stage, binary, old, blacklist, told, agings>>
        /\ MaxMishaps \in Nat
    BY Parts, PreparationAssumption DEF Book
  <1>4. /\ FileTypes' /\ NamesHold' /\ CountTypes' /\ (old \subseteq Present)'
        /\ BenchStopIsDeserved'
    <2>1. book' \in FileState
      BY <1>3 DEF Book, FileTypes, FileState
    <2>2. mishaps' \in 0 .. MaxMishaps
      BY <1>3 DEF Book, Mishap, CountTypes
    <2> QED BY <1>3, <2>1, <2>2, ToldAlone DEF FileTypes, NamesHold, CountTypes, Present, told
  <1>5. CASE BackToLoop
    BY <1>4, <1>5, Returns
  <1>6. CASE NextJob /\ book' = "good"
    <2>1. FilesImprove /\ Done(Jobs[i], t)'
      BY <1>2, <1>3, <1>6 DEF FilesImprove, Done
    <2> QED BY <1>1, <1>2, <1>4, <1>6, <2>1, Continues
  <1> QED BY <1>5, <1>6 DEF Book

LEMMA NetworkKeeps == ASSUME PrepInv, Network PROVE PrepInv'
  <1>1. PICK i \in 1 .. 10, t \in PrepTests : AtJob(i, t)
    BY PickJob DEF Network
  <1>2. /\ Jobs[i].what = "net" /\ Branch = Side[t][Jobs[i].side] /\ Jobs[i].side \in Sides
    BY <1>1, JobNow DEF Network
  <1>3. PICK n \in Nets : n = Branch.net
    BY <1>2, BranchOf DEF Network
  <1>4. /\ FileTypes /\ NamesHold /\ CountTypes /\ old \subseteq Present
        /\ UNCHANGED <<book, stage, binary, blacklist, told, agings>>
        /\ MaxMishaps \in Nat
    BY Parts, PreparationAssumption DEF Network
  <1>5. \/ NextJob /\ net'[n] = "good" /\ (net' = net \/ net' = [net EXCEPT ![n] = "good"])
        \/ BackToLoop /\ net[n] # "good"
           /\ \E s \in {"none", "bad"} : net' = [net EXCEPT ![n] = s]
    BY <1>3, <1>4 DEF Network, FileTypes, FileState
  <1>6. (old' = old /\ net' = net) \/ old' = old \ {<<"net", n>>}
    BY <1>3 DEF Network
  <1>7. net' \in [Nets -> FileState] /\ \A m \in Nets \ {n} : net'[m] = net[m]
    BY <1>4, <1>5 DEF FileTypes, FileState
  <1>8. (old \subseteq Present)'
    <2>1. \A m \in Nets : net[m] # "none" => net'[m] # "none" \/ <<"net", m>> \notin old'
      BY <1>6, <1>7
    <2> QED BY <1>4, <1>6, <2>1, OldStays
  <1>9. FileTypes' /\ NamesHold' /\ BenchStopIsDeserved' /\ CountTypes'
    <2>1. mishaps' \in 0 .. MaxMishaps
      BY <1>4 DEF Network, Mishap, CountTypes
    <2> QED BY <1>4, <1>7, <2>1, ToldAlone DEF FileTypes, NamesHold, CountTypes, told
  <1>10. CASE BackToLoop
    BY <1>8, <1>9, <1>10, Returns
  <1>11. CASE NextJob /\ net'[n] = "good"
    <2>1. FilesImprove
      BY <1>4, <1>7, <1>11 DEF FilesImprove
    <2>2. Done(Jobs[i], t)'
      BY <1>2, <1>3, <1>11 DEF Done, NetReady, Network
    <2> QED BY <1>1, <1>2, <1>8, <1>9, <1>11, <2>1, <2>2, Continues
  <1> QED BY <1>5, <1>10, <1>11

LEMMA StageKeeps == ASSUME PrepInv, Stage PROVE PrepInv'
  <1>1. PICK i \in 1 .. 10, t \in PrepTests : AtJob(i, t)
    BY PickJob DEF Stage
  <1>2. PICK b \in Branches : b = Branch /\ b = Side[t][Jobs[i].side]
    BY <1>1, JobNow, BranchOf
  <1>3. Jobs[i].what = "stage"
    BY <1>1, JobNow DEF Stage
  <1>4. /\ FileTypes /\ NamesHold /\ CountTypes /\ old \subseteq Present
        /\ UNCHANGED <<book, net, binary, blacklist, told, mishaps, agings>>
    BY Parts DEF Stage
  <1>5. CASE b.net = NoNet \/ b.private
    <2>1. NextJob /\ UNCHANGED <<book, net, stage, binary, old>>
      BY <1>2, <1>4, <1>5 DEF Stage
    <2>2. Done(Jobs[i], t)'
      BY <1>2, <1>3, <1>5 DEF Done, StageReady
    <2>3. FileTypes' /\ NamesHold' /\ FilesImprove /\ (old \subseteq Present)'
          /\ BenchStopIsDeserved' /\ CountTypes'
      BY <1>4, <2>1, FilesAlone, ToldAlone DEF CountTypes, told
    <2> QED BY <1>1, <1>3, <2>1, <2>2, <2>3, Continues
  <1>6. CASE ~(b.net = NoNet \/ b.private)
    <2>1. PICK n \in Nets : n = b.net
      BY <1>2, <1>6 DEF Nets
    <2>2. PICK s \in {"good", "bad"} :
              /\ s = IF Staged(n) = "good" THEN "good" ELSE "bad"
              /\ stage' = [stage EXCEPT ![n] = s]
              /\ IF s = "good" THEN NextJob ELSE BackToLoop
      BY <1>2, <1>6, <2>1 DEF Stage
    <2>3. old' \in {old, old \ {<<"stage", n>>}} /\ (stage[n] = "good" => s = "good")
      BY <1>2, <1>6, <2>1, <2>2 DEF Stage, Staged
    <2>4. stage' \in [Nets -> FileState] /\ stage'[n] = s /\ \A m \in Nets \ {n} : stage'[m] = stage[m]
      BY <1>4, <2>2 DEF FileTypes, FileState
    <2>5. (old \subseteq Present)'
      <3>1. \A m \in Nets : stage[m] # "none" => stage'[m] # "none"
        BY <2>2, <2>4
      <3> QED BY <1>4, <2>3, <3>1, OldStays
    <2>6. FileTypes' /\ NamesHold' /\ BenchStopIsDeserved' /\ CountTypes'
      BY <1>4, <2>4, ToldAlone DEF FileTypes, NamesHold, CountTypes, told
    <2>7. CASE s = "good"
      <3>1. FilesImprove
        BY <1>4, <2>4, <2>7 DEF FilesImprove
      <3>2. Done(Jobs[i], t)'
        BY <1>2, <1>3, <2>1, <2>4, <2>7 DEF Done, StageReady
      <3> QED BY <1>1, <1>3, <2>2, <2>5, <2>6, <2>7, <3>1, <3>2, Continues
    <2>8. CASE s # "good"
      BY <2>2, <2>5, <2>6, <2>8, Returns
    <2> QED BY <2>7, <2>8
  <1> QED BY <1>5, <1>6

LEMMA EngineKeeps == ASSUME PrepInv, BuildEngine \/ FetchEngine PROVE PrepInv'
  <1>1. BuildsHere /\ Keep
    BY DEF BuildEngine, FetchEngine
  <1>2. PICK i \in 1 .. 10, t \in PrepTests : AtJob(i, t)
    BY <1>1, PickJob DEF BuildsHere
  <1>3. PICK b \in Branches : b = Branch /\ b = Side[t][Jobs[i].side]
    BY <1>2, JobNow, BranchOf
  <1>4. PICK x \in Names : x = BinaryName(b)
    BY DEF Names
  <1>5. Jobs[i].what = "engine" /\ binary[x] = NoBinary
    BY <1>1, <1>2, <1>3, <1>4, JobNow DEF BuildsHere, Missing
  <1>6. /\ FileTypes /\ NamesHold /\ CountTypes /\ old \subseteq Present
        /\ UNCHANGED <<book, net, stage, blacklist, told, mishaps, agings>>
        /\ binary' = [binary EXCEPT ![x] = Built(b)] /\ old' = old \ {<<"binary", x>>} /\ NextJob
    BY <1>1, <1>3, <1>4, Parts DEF Keep
  <1>7. Built(b) \in Builds /\ Built(b) # NoBinary
    BY <1>2, <1>3, BranchOf, JobNow
  <1>8. /\ binary' \in [Names -> Builds \cup {NoBinary, Torn}] /\ binary'[x] = Built(b)
        /\ \A y \in Names \ {x} : binary'[y] = binary[y]
    BY <1>6, <1>7 DEF FileTypes
  <1>9. FileTypes' /\ CountTypes' /\ BenchStopIsDeserved'
    BY <1>6, <1>8, ToldAlone DEF FileTypes, CountTypes, told
  <1>10. NamesHold'
    BY <1>4, <1>6, <1>8 DEF NamesHold
  <1>11. (old \subseteq Present)'
    BY <1>6, <1>7, <1>8, OldStays
  <1>12. FilesImprove /\ Done(Jobs[i], t)'
    BY <1>3, <1>4, <1>5, <1>6, <1>7, <1>8 DEF FilesImprove, Done
  <1> QED BY <1>2, <1>5, <1>6, <1>9, <1>10, <1>11, <1>12, Continues

\* The bench: what is under the name of a branch is its build, or torn.
LEMMA FailBenchKeeps == ASSUME PrepInv, FailBench PROVE PrepInv'
  <1>1. PICK i \in 1 .. 10, t \in PrepTests : AtJob(i, t)
    BY PickJob DEF FailBench
  <1>2. PICK b \in Branches : b = Branch /\ b = Side[t][Jobs[i].side]
    BY <1>1, JobNow, BranchOf
  <1>3. Jobs[i].what = "bench" /\ prep.test = t /\ Jobs[i].side \in Sides
    BY <1>1, JobNow DEF FailBench, AtJob
  <1>4. binary[BinaryName(b)] # NoBinary
    <2>1. \E j \in 1 .. (i - 1) : Jobs[j].what = "engine" /\ Jobs[j].side = Jobs[i].side
      <3>1. i \in {7, 9} /\ 4 \in 1 .. (i - 1) /\ 5 \in 1 .. (i - 1)
        BY <1>3 DEF Jobs, Job
      <3> QED BY <3>1 DEF Jobs, Job
    <2> QED BY <1>1, <1>2, <2>1 DEF AtJob, Done
  <1>5. binary[BinaryName(b)] \in {Torn, Built(b)}
    <2>1. BinaryName(b) \in Names
      BY DEF Names
    <2> QED BY <1>4, <2>1, NameTellsBuild DEF PrepInv, NamesHold
  <1>6. t \in blamed' \/ b.sha \in WrongShas
    BY <1>2, <1>3, <1>5 DEF FailBench, BenchFails
  <1>7. /\ FileTypes' /\ NamesHold' /\ (old \subseteq Present)' /\ BackToLoop
    BY FilesAlone DEF FailBench, disk
  <1>8. CountTypes'
    BY <1>3, Parts, PreparationAssumption DEF FailBench, CountTypes, Mishap
  <1>9. BenchStopIsDeserved'
    <2> SUFFICES ASSUME NEW u \in stopped'
                 PROVE  u \in blamed' \/ \E s \in Sides : Side[u][s].sha \in WrongShas
        BY DEF BenchStopIsDeserved
    <2>1. blamed \subseteq blamed' /\ (u \in stopped \/ u = t)
      BY <1>3 DEF FailBench
    <2> QED BY <1>2, <1>3, <1>6, <2>1 DEF PrepInv, BenchStopIsDeserved
  <1> QED BY <1>7, <1>8, <1>9, Returns

-----------------------------------------------------------------------------
(* What happens to the worker.                                             *)

\* A call that stalls leaves everything as it is.
LEMMA HangKeeps == ASSUME PrepInv, Hang PROVE PrepInv'
  <1>1. /\ CountTypes /\ prep \in Position /\ MaxMishaps \in Nat
        /\ UNCHANGED <<book, net, stage, binary, old, blacklist, told, agings>>
    BY Parts, PreparationAssumption DEF Hang, disk
  <1>2. PICK i \in 1 .. 10, t \in PrepTests : AtJob(i, t)
    BY PickJob DEF Hang, Unbounded, BuildsHere
  <1>3. /\ prep' \in Position /\ prep'.at = "hung" /\ prep'.test = prep.test
        /\ prep'.left = prep.left /\ prep'.left # <<>>
    BY <1>1, <1>2, JobNow DEF Hang, Position
  <1>4. AtJob(i, t)'
    BY <1>1, <1>2, <1>3 DEF AtJob, Done, NetReady, StageReady
  <1>5. JobsAreDone'
    BY <1>4, JobFacts DEF JobsAreDone
  <1>6. mishaps' \in 0 .. MaxMishaps
    BY <1>1 DEF Hang, Mishap, CountTypes
  <1>7. CountTypes' /\ FileTypes' /\ NamesHold' /\ (old \subseteq Present)' /\ BenchStopIsDeserved'
    BY <1>1, <1>6, FilesAlone, ToldAlone DEF CountTypes, told
  <1> QED BY <1>3, <1>5, <1>7, PartsNext

\* A kill leaves one file as it is being written, which is no engine's build.
LEMMA KillKeeps == ASSUME PrepInv, Kill PROVE PrepInv'
  <1>1. /\ FileTypes /\ NamesHold /\ CountTypes /\ old \subseteq Present
        /\ BackToLoop /\ blacklist' = {} /\ UNCHANGED <<told, agings>> /\ MaxMishaps \in Nat
    BY Parts, PreparationAssumption DEF Kill, Restart, told
  <1>2. CountTypes' /\ BenchStopIsDeserved'
    <2>1. mishaps' \in 0 .. MaxMishaps
      BY <1>1 DEF Kill, Mishap, CountTypes
    <2> QED BY <1>1, <2>1, ToldAlone DEF CountTypes, told
  <1>3. ASSUME prep.left # <<>>
        PROVE  /\ Branch \in Branches /\ BinaryName(Branch) \in Names
               /\ Branch.net # NoNet => Branch.net \in Nets
    <2>0. Doing(Head(prep.left).what)
      BY <1>3 DEF Doing
    <2>1. PICK i \in 1 .. 10, t \in PrepTests : AtJob(i, t)
      BY <2>0, PickDoing
    <2>2. PICK s \in Sides : Branch = Side[t][s]
      BY <2>1, JobNow
    <2>3. prep.test = t
      BY <2>1 DEF AtJob
    <2>4. Side[t][s] \in Branches /\ BinaryName(Side[t][s]) \in Names
          /\ (Side[t][s].net # NoNet => Side[t][s].net \in Nets)
      BY BranchOf
    <2> QED BY <2>2, <2>3, <2>4
  <1>4. FileTypes' /\ NamesHold' /\ (old \subseteq Present)'
    <2>1. CASE UNCHANGED <<book, net, stage, binary, old>>
      BY <2>1, FilesAlone
    <2>2. CASE book' = "bad" /\ UNCHANGED <<net, stage, binary, old>>
      BY <1>1, <2>2 DEF FileTypes, FileState, NamesHold, Present
    <2>3. ASSUME NEW n \in Nets, net' = [net EXCEPT ![n] = "bad"],
                 UNCHANGED <<book, stage, binary, old>>
          PROVE  FileTypes' /\ NamesHold' /\ (old \subseteq Present)'
      <3>1. net' \in [Nets -> FileState] /\ \A m \in Nets : net[m] # "none" => net'[m] # "none"
        BY <1>1, <2>3 DEF FileTypes, FileState
      <3> QED BY <1>1, <2>3, <3>1, OldStays DEF FileTypes, NamesHold
    <2>4. ASSUME NEW n \in Nets, stage' = [stage EXCEPT ![n] = "bad"],
                 old' = old \ {<<"stage", n>>}, UNCHANGED <<book, net, binary>>
          PROVE  FileTypes' /\ NamesHold' /\ (old \subseteq Present)'
      <3>1. stage' \in [Nets -> FileState] /\ \A m \in Nets : stage[m] # "none" => stage'[m] # "none"
        BY <1>1, <2>4 DEF FileTypes, FileState
      <3> QED BY <1>1, <2>4, <3>1, OldStays DEF FileTypes, NamesHold
    <2>5. ASSUME NEW x \in Names, binary' = [binary EXCEPT ![x] = Torn],
                 UNCHANGED <<book, net, stage, old>>
          PROVE  FileTypes' /\ NamesHold' /\ (old \subseteq Present)'
      <3>1. /\ binary' \in [Names -> Builds \cup {NoBinary, Torn}] /\ binary'[x] = Torn
            /\ \A y \in Names \ {x} : binary'[y] = binary[y]
        BY <1>1, <2>5 DEF FileTypes
      <3>2. \A y \in Names : binary[y] # NoBinary => binary'[y] # NoBinary
        BY <3>1, PreparationAssumption
      <3>3. NamesHold'
        BY <1>1, <3>1 DEF NamesHold
      <3> QED BY <1>1, <2>5, <3>1, <3>2, <3>3, OldStays DEF FileTypes
    <2>6. CASE /\ Doing("net") /\ Branch.net # NoNet
               /\ net' = [net EXCEPT ![Branch.net] = "bad"] /\ UNCHANGED <<book, stage, binary, old>>
      BY <1>3, <2>3, <2>6 DEF Doing
    <2>7. CASE /\ Doing("stage") /\ Branch.net # NoNet
               /\ stage' = [stage EXCEPT ![Branch.net] = "bad"]
               /\ old' = old \ {<<"stage", Branch.net>>} /\ UNCHANGED <<book, net, binary>>
      BY <1>3, <2>4, <2>7 DEF Doing
    <2>8. CASE /\ Doing("engine") /\ binary' = [binary EXCEPT ![BinaryName(Branch)] = Torn]
               /\ UNCHANGED <<book, net, stage, old>>
      BY <1>3, <2>5, <2>8 DEF Doing
    <2> QED BY <2>1, <2>2, <2>6, <2>7, <2>8 DEF Kill
  <1> QED BY <1>1, <1>2, <1>4, Returns

LEMMA AgeKeeps == ASSUME PrepInv, Age PROVE PrepInv'
  <1>1. /\ FileTypes /\ NamesHold /\ CountTypes /\ old \subseteq Present /\ prep \in Position
        /\ prep.at \in {"work", "hung"} <=> prep.left # <<>>
        /\ JobsAreDone /\ MaxAgings \in Nat
    BY Parts, PreparationAssumption
  <1>2. PICK f \in Present : old' = old \cup {f}
    BY DEF Age
  <1>3. UNCHANGED <<book, net, stage, binary, blacklist, prep, told, mishaps>>
    BY DEF Age
  <1>4. (old \subseteq Present)'
    BY <1>1, <1>2, <1>3 DEF Present
  <1>5. FileTypes' /\ NamesHold' /\ CountTypes' /\ BenchStopIsDeserved'
    BY <1>1, <1>3, ToldAlone DEF FileTypes, NamesHold, CountTypes, Age, told
  <1>6. JobsAreDone'
    BY <1>1, <1>3 DEF JobsAreDone, AtJob, Done, NetReady, StageReady
  <1> QED BY <1>1, <1>3, <1>4, <1>5, <1>6, PartsNext

-----------------------------------------------------------------------------
LEMMA PrepInitInv == PreparationInit => PrepInv
  <1> SUFFICES ASSUME PreparationInit PROVE PrepInv
    OBVIOUS
  <1>1. FileTypes /\ NamesHold /\ old \subseteq Present
    BY DEF PreparationInit, FileTypes, FileState, NamesHold
  <1>2. CountTypes /\ BenchStopIsDeserved
    BY PreparationAssumption DEF PreparationInit, CountTypes, BenchStopIsDeserved
  <1>3. prep \in Position /\ JobsAreDone /\ (prep.at \in {"work", "hung"} <=> prep.left # <<>>)
    BY DEF PreparationInit, Loop, Position, JobsAreDone
  <1> QED BY <1>1, <1>2, <1>3, Parts

LEMMA PrepInvNext == PrepInv /\ [PreparationNext]_prepVars => PrepInv'
  <1> SUFFICES ASSUME PrepInv, [PreparationNext]_prepVars PROVE PrepInv'
    OBVIOUS
  <1>1. CASE UNCHANGED prepVars
    BY <1>1 DEF prepVars, PrepInv, PreparationTypeOK, Present, NamesHold, JobsAreDone, AtJob, Done,
                NetReady, StageReady, BenchStopIsDeserved
  <1>2. CASE WorkStep
    BY <1>2, CleanupKeeps, AskKeeps, BookKeeps, NetworkKeeps, StageKeeps, EngineKeeps,
       QuietJobsKeep, QuietReturnsKeep, FailBenchKeeps DEF WorkStep
  <1>3. CASE Hang \/ Kill \/ Age
    BY <1>3, HangKeeps, KillKeeps, AgeKeeps
  <1> QED BY <1>1, <1>2, <1>3 DEF PreparationNext

\* In every reachable state each job before the worker's has left its files, and
\* every name of an engine stands for one build (worker.py complete_workload).
THEOREM PreparationInvariant == PreparationSpec => []PrepInv
  <1>1. PreparationInit => PrepInv
    BY PrepInitInv
  <1>2. PrepInv /\ [PreparationNext]_prepVars => PrepInv'
    BY PrepInvNext
  <1> QED BY <1>1, <1>2, PTL DEF PreparationSpec

\* A match is only started with the book, the networks and the engines its test
\* asks for (worker.py complete_workload, utils.py engine_binary_name).
THEOREM GamesAreOfTheirTest == PreparationSpec => []GamesUseTheRightFiles
  <1>1. PrepInv => GamesUseTheRightFiles
    <2> SUFFICES ASSUME PrepInv, At("play"), NEW s \in Sides
                 PROVE  LET b == Side[prep.test][s]
                        IN /\ book = "good"
                           /\ b.net # NoNet => net[b.net] = "good"
                           /\ b.net # NoNet /\ ~b.private => stage[b.net] = "good"
                           /\ binary[BinaryName(b)] = Built(b)
      BY DEF GamesUseTheRightFiles, Sides
    <2>1. PICK i \in 1 .. 10, t \in PrepTests : AtJob(i, t)
      BY PickJob
    <2>2. i = 10 /\ prep.test = t
      BY <2>1, JobNow, JobFacts DEF AtJob
    <2>3. \A j \in 1 .. 9 : Done(Jobs[j], prep.test)
      BY <2>1, <2>2 DEF AtJob
    <2>4. /\ \E j \in 1 .. 9 : Jobs[j] = Job("book", "dev")
          /\ \E j \in 1 .. 9 : Jobs[j] = Job("net", s)
          /\ \E j \in 1 .. 9 : Jobs[j] = Job("stage", s)
          /\ \E j \in 1 .. 9 : Jobs[j] = Job("bench", s)
      <3>1. /\ Jobs[1] = Job("book", "dev")
            /\ Jobs[2] = Job("net", "dev") /\ Jobs[3] = Job("net", "base")
            /\ Jobs[6] = Job("stage", "dev") /\ Jobs[8] = Job("stage", "base")
            /\ Jobs[7] = Job("bench", "dev") /\ Jobs[9] = Job("bench", "base")
        BY DEF Jobs
      <3>2. 1 \in 1 .. 9 /\ 2 \in 1 .. 9 /\ 3 \in 1 .. 9 /\ 6 \in 1 .. 9 /\ 7 \in 1 .. 9
            /\ 8 \in 1 .. 9 /\ 9 \in 1 .. 9
        OBVIOUS
      <3>3. s = "dev" \/ s = "base"
        BY DEF Sides
      <3> QED BY <3>1, <3>2, <3>3
    <2>5. /\ Done(Job("book", "dev"), prep.test) /\ Done(Job("net", s), prep.test)
          /\ Done(Job("stage", s), prep.test) /\ Done(Job("bench", s), prep.test)
      BY <2>3, <2>4
    <2> QED BY <2>5 DEF Done, Job, NetReady, StageReady
  <1> QED BY <1>1, PreparationInvariant, PTL

\* A bench report stops a test for everybody only when its commit's bench is not
\* what the test states, or by the fault of a machine (bench.py, views.py
\* client_bench_error).
THEOREM BenchReportsStopTheGuilty == PreparationSpec => []BenchStopIsDeserved
  <1>1. PrepInv => BenchStopIsDeserved
    BY DEF PrepInv
  <1> QED BY <1>1, PreparationInvariant, PTL

-----------------------------------------------------------------------------
(***************************************************************************)
(* Selection: whatever is selected for a machine fits it, for every set of *)
(* tests and machines and every order of requests.                         *)
(***************************************************************************)
-----------------------------------------------------------------------------
(***************************************************************************)
(* That what a machine is told to play fits the machine, for every test    *)
(* and every machine.                                                      *)
(***************************************************************************)
\* The integer division of get_workload.py (//) never takes more than there is,
\* and takes something when there is enough.
LEMMA Division ==
    ASSUME NEW a \in Nat, NEW b \in Nat \ {0}
    PROVE  /\ a \div b \in Nat
           /\ (a \div b) * b <= a
           /\ b <= a => a \div b >= 1
  OBVIOUS

LEMMA DivisionByOne ==
    ASSUME NEW a \in Nat
    PROVE  a \div 1 = a
  OBVIOUS

\* What a test needs of a machine that valid_hardware_assignment lets through: a
\* game takes at least one thread, and no more than the match may use, which are
\* no more than the machine registered.
LEMMA Budget ==
    ASSUME NEW w, NEW h, IsTest(w), IsMachine(h), ValidHardware(w, h)
    PROVE  /\ GameThreads(w) \in Nat \ {0}
           /\ MatchThreads(w, h) \in Nat
           /\ GameThreads(w) <= MatchThreads(w, h)
           /\ MatchThreads(w, h) <= h.threads
           /\ w.ponder => MatchThreads(w, h) <= h.cores /\ GameThreads(w) > 1
           /\ GameThreads(w) = 1 => MatchThreads(w, h) = h.threads
  <1>1. /\ w.dev \in Nat \ {0} /\ w.base \in Nat \ {0} /\ w.ponder \in BOOLEAN
        /\ h.threads \in Nat \ {0} /\ h.cores \in Nat \ {0}
    BY DEF IsTest, IsMachine
  <1>2. GameThreads(w) \in Nat \ {0}
    BY <1>1 DEF GameThreads, Greater
  <1>3. /\ MatchThreads(w, h) \in Nat
        /\ MatchThreads(w, h) <= h.threads
    BY <1>1 DEF MatchThreads, Lesser
  <1>4. GameThreads(w) <= MatchThreads(w, h)
    <2>1. (IF w.mode = "SPSA" THEN 2 ELSE 1) * GameThreads(w) <= MatchThreads(w, h)
      BY DEF ValidHardware
    <2> QED
      BY <1>2, <1>3, <2>1
  <1>5. w.ponder => MatchThreads(w, h) <= h.cores /\ GameThreads(w) > 1
    BY <1>1 DEF MatchThreads, GameThreads, Lesser
  <1>6. GameThreads(w) = 1 => MatchThreads(w, h) = h.threads
    BY <1>1 DEF MatchThreads, GameThreads, Greater
  <1> QED
    BY <1>2, <1>3, <1>4, <1>5, <1>6

\* game_distribution gives every machine that was let through at least one game,
\* and all its games together no more threads than the machine has.
THEOREM WorkloadFits ==
    ASSUME NEW w, NEW h, IsTest(w), IsMachine(h), ValidHardware(w, h)
    PROVE  Fits(w, h)
  <1> DEFINE g == GameThreads(w)
             m == MatchThreads(w, h)
  <1>1. /\ g \in Nat \ {0} /\ m \in Nat /\ g <= m /\ m <= h.threads
        /\ w.ponder => m <= h.cores /\ g > 1
        /\ g = 1 => m = h.threads
        /\ w.ponder => h.affinity
    BY Budget DEF ValidHardware
  <1>2. /\ h.threads \in Nat \ {0} /\ h.sockets \in Nat \ {0} /\ h.cores \in Nat \ {0}
        /\ h.sockets <= h.threads
    BY DEF IsMachine
  <1> HIDE DEF g, m
  <1>3. CASE g > 1
    <2>1. Runners(w, h) = 1 /\ GamesAtOnce(w, h) = m \div g
      BY <1>1, <1>3, DivisionByOne DEF Runners, GamesAtOnce, g, m
    <2>2. /\ m \div g \in Nat /\ m \div g >= 1 /\ (m \div g) * g <= m
      BY <1>1, Division
    <2>3. Runners(w, h) * GamesAtOnce(w, h) * g = (m \div g) * g
      BY <2>1, <2>2
    <2>4. w.ponder => AffinityAccepted(w, h)
      BY <1>1, <1>2, <2>1, <2>2 DEF AffinityAccepted, CpusPerRunner, Lesser, g
    <2>5. ASSUME w.ponder, NEW r \in 0 .. Runners(w, h) - 1
          PROVE  Pinned(w, h, r) \subseteq 0 .. h.cores - 1
      <3>1. r = 0
        BY <2>1
      <3>2. CpusPerRunner(w, h) \in Nat /\ CpusPerRunner(w, h) <= h.cores
        BY <1>1, <1>2, <2>1, <2>2, <2>5 DEF CpusPerRunner, g
      <3>3. Pinned(w, h, r) = 0 .. CpusPerRunner(w, h) - 1
        BY <3>1, <3>2 DEF Pinned
      <3> QED
        BY <1>2, <3>2, <3>3
    <2> QED
      BY <1>1, <1>2, <2>1, <2>2, <2>3, <2>4, <2>5 DEF Fits, g
  <1>4. CASE g = 1
    <2> DEFINE share == h.threads \div h.sockets
    <2>1. share \in Nat /\ share >= 1 /\ share * h.sockets <= h.threads
      BY <1>2, Division
    <2> HIDE DEF share
    <2>2. GamesAtOnce(w, h) = share
      BY <1>1, <1>4, <2>1, DivisionByOne DEF GamesAtOnce, share, g, m
    <2>3. Runners(w, h) \in {1, h.sockets}
      BY DEF Runners
    <2>4. Runners(w, h) * share <= h.threads
      BY <1>2, <2>1, <2>3
    <2>5. Runners(w, h) * GamesAtOnce(w, h) * g <= h.threads
      BY <1>2, <1>4, <2>1, <2>2, <2>3, <2>4
    <2> QED
      BY <1>1, <1>4, <2>1, <2>2, <2>5 DEF Fits, g
  <1> QED
    BY <1>1, <1>3, <1>4

\* spsa_to_dictionary keeps the tuner's games within the machine's threads too.
THEOREM TunerFits ==
    ASSUME NEW w, NEW h, IsTest(w), IsMachine(h), ValidHardware(w, h)
    PROVE  SpsaFits(w, h)
  <1>1. /\ w.dev \in Nat \ {0} /\ w.base \in Nat \ {0} /\ w.batch \in Nat \ {0}
        /\ h.threads \in Nat \ {0}
    BY DEF IsTest, IsMachine
  <1>2. w.dev <= h.threads
    <2>1. w.dev <= GameThreads(w)
      BY <1>1 DEF GameThreads, Greater
    <2> QED
      BY <1>1, <2>1, Budget
  <1>3. /\ h.threads \div w.dev \in Nat
        /\ (h.threads \div w.dev) * w.dev <= h.threads
        /\ h.threads \div w.dev >= 1
    BY <1>1, <1>2, Division
  <1>4. /\ SpsaGamesAtOnce(w, h) \in Nat
        /\ SpsaGamesAtOnce(w, h) <= h.threads \div w.dev
    BY <1>1, <1>3 DEF SpsaGamesAtOnce, Greater, Lesser
  <1>5. SpsaGamesAtOnce(w, h) * w.dev <= (h.threads \div w.dev) * w.dev
    BY <1>1, <1>3, <1>4
  <1> QED
    BY <1>1, <1>3, <1>4, <1>5 DEF SpsaFits

\* The copies of the match runner take the openings by which the server advances
\* book_index one after the other, and genfens writes as many as they take.
THEOREM OpeningsAreThere ==
    ASSUME NEW w, NEW h, IsTest(w), IsMachine(h), ValidHardware(w, h)
    PROVE  OpeningsFit(w, h)
  <1> DEFINE r == Runners(w, h)
             p == w.size * GamesAtOnce(w, h)
             games == (r * GamesPerRunner(w, h)) \div (IF w.reverses THEN 2 ELSE 1)
  <1>1. /\ h.threads \in Nat \ {0} /\ h.sockets \in Nat \ {0}
        /\ w.size \in Nat \ {0} /\ w.reverses \in BOOLEAN
    BY DEF IsTest, IsMachine
  <1>2. r \in Nat \ {0}
    BY <1>1 DEF Runners
  <1>3. p \in Nat
    <2>1. GamesAtOnce(w, h) \in Nat
      BY <1>1, Budget, Division DEF GamesAtOnce
    <2> QED
      BY <1>1, <2>1
  <1>4. GamesPerRunner(w, h) = 2 * p /\ GamesPerRunner(w, h) \div 2 = p
    <2>1. GamesAtOnce(w, h) \in Nat
      BY <1>1, Budget, Division DEF GamesAtOnce
    <2>2. GamesPerRunner(w, h) = 2 * p
      BY <1>1, <2>1 DEF GamesPerRunner
    <2> QED
      BY <1>3, <2>2
  <1> HIDE DEF r, p
  <1>5. BookStart(w, h, r) = OpeningsTaken(w, h)
    BY <1>1, <1>2, <1>3, <1>4 DEF BookStart, OpeningsTaken, OpeningsPerRunner, r
  <1>6. ASSUME w.mode = "DATAGEN"
        PROVE  OpeningsTaken(w, h) <= OpeningsEach(w, h) * h.threads
    <2>1. OpeningsTaken(w, h) = games /\ games \in Nat
      <3>1. CASE w.reverses
        <4>1. OpeningsTaken(w, h) = r * p
          BY <1>2, <1>3, <1>4, <3>1 DEF OpeningsTaken, r
        <4>2. games = (r * (2 * p)) \div 2
          BY <1>4, <3>1
        <4>3. r * p \in Nat /\ r * (2 * p) = 2 * (r * p)
          BY <1>2, <1>3
        <4> QED
          BY <4>1, <4>2, <4>3
      <3>2. CASE ~w.reverses
        <4>1. OpeningsTaken(w, h) = r * p * 2
          BY <1>2, <1>3, <1>4, <1>6, <3>2 DEF OpeningsTaken, r
        <4>2. games = r * (2 * p)
          BY <1>2, <1>3, <1>4, <3>2, DivisionByOne
        <4> QED
          BY <1>2, <1>3, <4>1, <4>2
      <3> QED
        BY <1>1, <3>1, <3>2
    <2>2. OpeningsEach(w, h) = (games + h.threads - 1) \div h.threads
      BY DEF OpeningsEach, r
    <2> HIDE DEF games
    <2>3. games <= ((games + h.threads - 1) \div h.threads) * h.threads
      BY <1>1, <2>1
    <2> QED
      BY <2>1, <2>2, <2>3
  <1> QED
    BY <1>5, <1>6 DEF OpeningsFit, r

-----------------------------------------------------------------------------
(***************************************************************************)
(* The selection.                                                          *)
(***************************************************************************)

\* What a machine has, or is being given, went through the filters; that the test
\* was closed, the machine is blacklisted or another one took it meanwhile does not
\* matter for what the filters ask of the test and the machine.
Filtered(given) ==
    /\ given \in [Hosts -> Tests \cup {Nothing}]
    /\ \A h \in Hosts : given[h] # Nothing => Admitted(T(given[h]), H(h))

SelInv == world \in DOMAIN Worlds /\ Filtered(works) /\ Filtered(choice)

\* The ratios and the option of staying only choose among the candidates, which are
\* among the tests that passed.
LEMMA SelectableIsAdmitted ==
    ASSUME NEW h \in Hosts, world \in DOMAIN Worlds
    PROVE  \A w \in Selectable(h) : w \in Tests /\ Admitted(T(w), H(h))
  <1>1. Selectable(h) \subseteq Candidates(h)
    BY DEF Selectable, Fairest
  <1>2. Candidates(h) \subseteq Options(h)
    BY DEF Candidates
  <1>3. Options(h) \subseteq AdmittedIn[world][h]
    BY DEF Options
  <1>4. AdmittedIn[world][h] = {w \in Tests : Admitted(T(w), H(h))}
    BY DEF AdmittedIn, Tests, T, H, Hosts
  <1> QED
    BY <1>1, <1>2, <1>3, <1>4

LEMMA InitIsFiltered == SelectionInit => SelInv
  BY DEF SelectionInit, SelInv, Filtered

LEMMA StepIsFiltered == SelInv /\ [SelectionNext]_selVars => SelInv'
  <1> SUFFICES ASSUME SelInv, [SelectionNext]_selVars
               PROVE  SelInv'
    OBVIOUS
  <1> USE DEF SelInv, Filtered
  <1>1. ASSUME NEW h \in Hosts, Select(h) PROVE SelInv'
    <2>1. PICK w \in Selectable(h) : choice' = [choice EXCEPT ![h] = w]
      BY <1>1 DEF Select, Chooses
    <2>2. w \in Tests /\ Admitted(T(w), H(h))
      BY SelectableIsAdmitted
    <2>3. world' = world /\ works' = works
      BY <1>1 DEF Select, Asks
    <2> QED
      BY <2>1, <2>2, <2>3 DEF Tests, Hosts, T, H
  <1>2. ASSUME NEW h \in Hosts, Assign(h) PROVE SelInv'
    BY <1>2 DEF Assign, Tests, Hosts, T, H
  <1>3. ASSUME NEW h \in Hosts, Connect(h) PROVE SelInv'
    BY <1>3 DEF Connect, Tests, Hosts, T, H
  <1>4. ASSUME NEW h \in Hosts, Beat(h) \/ Lapse(h) \/ Blacklist(h) PROVE SelInv'
    BY <1>4 DEF Beat, Lapse, Blacklist, Tests, Hosts, T, H
  <1>5. ASSUME NEW w \in Tests, OpenOrClose(w) PROVE SelInv'
    BY <1>5 DEF OpenOrClose, Tests, Hosts, T, H
  <1>6. CASE UNCHANGED selVars
    BY <1>6 DEF selVars, Tests, Hosts, T, H
  <1> QED
    BY <1>1, <1>2, <1>3, <1>4, <1>5, <1>6 DEF SelectionNext

LEMMA FilteredFits == SelInv => AssignmentFits
  <1> SUFFICES ASSUME SelInv, NEW h \in Hosts, works[h] # Nothing
               PROVE  /\ Fits(T(works[h]), H(h))
                      /\ SpsaFits(T(works[h]), H(h))
                      /\ OpeningsFit(T(works[h]), H(h))
    BY DEF AssignmentFits
  <1>1. works[h] \in Tests /\ Admitted(T(works[h]), H(h))
    BY DEF SelInv, Filtered
  <1>2. IsTest(T(works[h])) /\ IsMachine(H(h))
    BY <1>1, SelectionAssumption DEF SelInv, Tests, Hosts, T, H
  <1>3. ValidHardware(T(works[h]), H(h))
    BY <1>1 DEF Admitted
  <1> QED
    BY <1>2, <1>3, WorkloadFits, TunerFits, OpeningsAreThere

\* Whatever test a machine is given, in whatever order the machines ask, report and
\* disappear, the match it is told to play fits its threads and cores and finds its
\* openings (get_workload.py select_workload, valid_hardware_assignment and
\* game_distribution; worker.py affinity_settings).
THEOREM AssignmentsFit == SelectionSpec => []AssignmentFits
  <1>1. SelectionSpec => []SelInv
    BY InitIsFiltered, StepIsFiltered, PTL DEF SelectionSpec
  <1> QED
    BY <1>1, FilteredFits, PTL

-----------------------------------------------------------------------------
(***************************************************************************)
(* Supervision: one client at a time runs from a worker's directory, for   *)
(* any number of loops, old and new, and any number of crashes and updates. *)
(***************************************************************************)
\* A client that runs holds the lock of the directory: what TakeLock establishes,
\* and every way to let go of the lock ends the client's running first.
LockIsHeld == \A l \in Loops : Running(l) => dirLock = l

SupInv ==
    /\ client \in [Loops -> {"none", "start", "asks", "works", "updates", "refused", "hung"}]
    /\ LockIsHeld

LEMMA LockExcludes == SupInv => OneWorkerRuns
  BY DEF SupInv, LockIsHeld, OneWorkerRuns

LEMMA InitHoldsLock == SupInit => SupInv
  BY DEF SupInit, SupInv, LockIsHeld, Running

\* ExitForGood and Shutdown end the running of the client that calls them.
LEMMA ShutdownReleases ==
    ASSUME SupInv, NEW l \in Loops, Running(l), Shutdown(l)
    PROVE  SupInv'
  BY SupervisionAssumption DEF SupInv, LockIsHeld, Running, Shutdown, ExitForGood

LEMMA StepHoldsLock == SupInv /\ [SupNext]_supVars => SupInv'
  <1> SUFFICES ASSUME SupInv, [SupNext]_supVars
               PROVE  SupInv'
    OBVIOUS
  <1> USE SupervisionAssumption
  <1>1. ASSUME NEW l \in Loops, TakeOver(l) PROVE SupInv'
    BY <1>1 DEF TakeOver, SupInv, LockIsHeld, Running
  <1>2. ASSUME NEW l \in Loops, CheckKey(l) PROVE SupInv'
    BY <1>2 DEF CheckKey, SupInv, LockIsHeld, Running
  <1>3. ASSUME NEW l \in Loops, StartClient(l) PROVE SupInv'
    BY <1>3 DEF StartClient, SupInv, LockIsHeld, Running
  <1>4. ASSUME NEW l \in Loops, TakeLock(l) PROVE SupInv'
    <2>1. CASE dirLock = Nobody
      <3>1. \A o \in Loops : ~Running(o)
        BY <2>1 DEF SupInv, LockIsHeld
      <3>2. dirLock' = l /\ client' = [client EXCEPT ![l] = "asks"]
        BY <1>4, <2>1 DEF TakeLock
      <3> QED
        BY <3>1, <3>2 DEF SupInv, LockIsHeld, Running
    <2>2. CASE dirLock # Nobody
      BY <1>4, <2>2 DEF TakeLock, ExitForGood, SupInv, LockIsHeld, Running
    <2> QED
      BY <2>1, <2>2
  <1>5. ASSUME NEW l \in Loops, Ask(l) PROVE SupInv'
    <2>1. CASE Shutdown(l)
      BY <1>5, <2>1, ShutdownReleases DEF Ask, Running
    <2>2. CASE ~Shutdown(l)
      BY <1>5, <2>2 DEF Ask, SupInv, LockIsHeld, Running
    <2> QED
      BY <2>1, <2>2
  <1>6. ASSUME NEW l \in Loops, Work(l) PROVE SupInv'
    <2>1. CASE Shutdown(l)
      BY <1>6, <2>1, ShutdownReleases DEF Work, Running
    <2>2. CASE ~Shutdown(l)
      BY <1>6, <2>2 DEF Work, SupInv, LockIsHeld, Running
    <2> QED
      BY <2>1, <2>2
  <1>7. ASSUME NEW l \in Loops, UpdateClient(l) PROVE SupInv'
    BY <1>7 DEF UpdateClient, SupInv, LockIsHeld, Running
  <1>8. ASSUME NEW l \in Loops, ConnectAgain(l) PROVE SupInv'
    BY <1>8 DEF ConnectAgain, SupInv, LockIsHeld, Running
  <1>9. ASSUME NEW l \in Loops, CheckUnanswered(l) PROVE SupInv'
    BY <1>9 DEF CheckUnanswered, SupInv, LockIsHeld, Running
  <1>10. ASSUME NEW l \in Loops, CrashClient(l) PROVE SupInv'
    BY <1>10 DEF CrashClient, SupInv, LockIsHeld, Running
  <1>13. ASSUME NEW l \in Loops, RefuseSession(l) \/ AskInVain(l) \/ HangClient(l) PROVE SupInv'
    BY <1>13 DEF RefuseSession, AskInVain, HangClient, SupInv, LockIsHeld, Running
  <1>11. CASE RevokeKey \/ TouchExit \/ DeployServer
    BY <1>11 DEF RevokeKey, TouchExit, DeployServer, SupInv, LockIsHeld, Running
  <1>12. CASE UNCHANGED supVars
    BY <1>12 DEF supVars, SupInv, LockIsHeld, Running
  <1> QED
    BY <1>1, <1>2, <1>3, <1>4, <1>5, <1>6, <1>7, <1>8, <1>9, <1>10, <1>11, <1>12,
       <1>13 DEF SupNext, SupStep

\* However often one connects, whatever loops are left from before, and although an
\* update of the client lets go of the lock, two clients never run at once from one
\* directory (worker.py acquire_single_instance_lock, client.py).
THEOREM OneClientAtATime == SupSpec => []OneWorkerRuns
  <1>1. SupSpec => []SupInv
    BY InitHoldsLock, StepHoldsLock, PTL DEF SupSpec
  <1> QED
    BY <1>1, LockExcludes, PTL

-----------------------------------------------------------------------------
(***************************************************************************)
(* Start-up: the lock file keeps the watchers to one process, for any      *)
(* number of processes that start, end and are killed, as long as no       *)
(* process removes the file under another one.                             *)
(***************************************************************************)
\* Whoever opened the lock file, and did not end, opened the one that has the name.
\* The lock belongs to a file and not to a name; without this, two processes could
\* each have locked a file of their own.
SameFile ==
    \A p \in Everyone :
        process[p] \in {"opened", "watches"} => opened[p] = named /\ named # NoFile

StartupInv ==
    /\ process \in [Everyone -> {"new", "opened", "watches", "serves", "removes", "gone"}]
    /\ opened \in [Everyone -> Nat \cup {NoFile}]
    /\ overtaken \/ SameFile
    /\ OnceUnlessOvertaken

LEMMA InitOpensOne == StartupInit => StartupInv
  BY DEF StartupInit, StartupInv, SameFile, OnceUnlessOvertaken, Watching

LEMMA OpenKeeps ==
    ASSUME StartupInv, NEW p \in Everyone, OpenLockfile(p),
           files \in Nat, named \in Nat \cup {NoFile}
    PROVE  StartupInv'
  BY StartupAssumption DEF OpenLockfile, StartupInv, SameFile, OnceUnlessOvertaken, Watching

\* The one that locks the file is alone, for those that watch have locked this file.
LEMMA LockKeeps ==
    ASSUME StartupInv, NEW p \in Everyone, TryLock(p)
    PROVE  StartupInv'
  <1>1. CASE overtaken
    BY <1>1 DEF TryLock, StartupInv, OnceUnlessOvertaken
  <1>2. CASE ~overtaken /\ Locked(opened[p])
    BY <1>2 DEF TryLock, StartupInv, SameFile, OnceUnlessOvertaken, Watching
  <1>3. CASE ~overtaken /\ ~Locked(opened[p])
    <2>1. Watching = {}
      BY <1>3 DEF TryLock, StartupInv, SameFile, Locked, Watching
    <2>2. Watching' = {p}
      BY <1>3, <2>1 DEF TryLock, StartupInv, Watching
    <2>3. SameFile'
      BY <1>3 DEF TryLock, StartupInv, SameFile
    <2> QED
      BY <2>2, <2>3 DEF TryLock, StartupInv, OnceUnlessOvertaken
  <1> QED
    BY <1>1, <1>2, <1>3

\* A removal that leaves somebody with another file is recorded.
LEMMA RemovalKeeps ==
    ASSUME StartupInv, NEW p \in Everyone, RemoveLockfile(p)
    PROVE  StartupInv'
  <1>1. CASE overtaken'
    BY <1>1 DEF RemoveLockfile, StartupInv, OnceUnlessOvertaken
  <1>2. CASE ~overtaken'
    <2>1. ~overtaken /\ \A o \in Everyone \ {p} : process[o] \notin {"opened", "watches"}
      BY <1>2 DEF RemoveLockfile, StartupInv, SameFile
    <2> QED
      BY <2>1 DEF RemoveLockfile, StartupInv, SameFile, OnceUnlessOvertaken, Watching
  <1> QED
    BY <1>1, <1>2

LEMMA StepKeepsOne ==
    ASSUME StartupInv, files \in Nat, named \in Nat \cup {NoFile}, [StartupNext]_startupVars
    PROVE  StartupInv'
  <1>1. ASSUME NEW p \in Everyone, EndInOrder(p) \/ Replace(p) \/ Killed(p) PROVE StartupInv'
    BY <1>1 DEF EndInOrder, Replace, Killed, StartupInv, SameFile, OnceUnlessOvertaken, Watching
  <1>2. CASE UNCHANGED startupVars
    BY <1>2 DEF startupVars, StartupInv, SameFile, OnceUnlessOvertaken, Watching
  <1> QED
    BY <1>1, <1>2, OpenKeeps, LockKeeps, RemovalKeeps
       DEF StartupNext, StartupStep, Everyone

\* The files are numbered.
LEMMA FilesAreNumbered == StartupSpec => [](files \in Nat /\ named \in Nat \cup {NoFile})
  <1> DEFINE Numbered == files \in Nat /\ named \in Nat \cup {NoFile}
  <1>1. StartupInit => Numbered
    BY DEF StartupInit
  <1>2. Numbered /\ [StartupNext]_startupVars => Numbered'
    BY DEF StartupNext, StartupStep, startupVars, OpenLockfile, TryLock, EndInOrder,
           RemoveLockfile, Killed, Replace
  <1> QED
    BY <1>1, <1>2, PTL DEF StartupSpec

\* At most one process of the server runs the ArtifactWatcher and the PGNWatcher,
\* unless the lock file was removed under it: whatever order the processes of
\* entrypoint.sh start, lock, end and are killed in.
THEOREM OneWatcherProcess == StartupSpec => []OnceUnlessOvertaken
  <1>1. StartupSpec => []StartupInv
    BY InitOpensOne, StepKeepsOne, FilesAreNumbered, PTL DEF StartupSpec
  <1>2. StartupInv => OnceUnlessOvertaken
    BY DEF StartupInv
  <1> QED
    BY <1>1, <1>2, PTL

-----------------------------------------------------------------------------
(***************************************************************************)
(* The types of all the variables, in the behaviours that the runs check.  *)
(***************************************************************************)
LEMMA SelectionTypes ==
    ASSUME SelectionTypeOK, [SelectionNext]_selVars
    PROVE  SelectionTypeOK'
  <1> USE DEF SelectionTypeOK
  <1>1. ASSUME NEW h \in Hosts, Select(h) PROVE SelectionTypeOK'
    <2>1. PICK w \in Selectable(h) : choice' = [choice EXCEPT ![h] = w]
      BY <1>1 DEF Select, Chooses
    <2>2. w \in Tests
      BY SelectableIsAdmitted
    <2> QED
      BY <1>1, <2>1, <2>2 DEF Select, Asks, Tests, Hosts
  <1>2. ASSUME NEW h \in Hosts, Assign(h) \/ Connect(h) PROVE SelectionTypeOK'
    BY <1>2, SelectionAssumption DEF Assign, Connect, SelChange, Tests, Hosts
  <1>3. ASSUME NEW h \in Hosts, Beat(h) \/ Lapse(h) PROVE SelectionTypeOK'
    BY <1>3, SelectionAssumption DEF Beat, Lapse, SelChange, Tests, Hosts
  <1>4. ASSUME NEW h \in Hosts, Blacklist(h) PROVE SelectionTypeOK'
    <2>1. works[h] \in Tests /\ refuses[h] \cup {works[h]} \in SUBSET Tests
      BY <1>4 DEF Blacklist
    <2> QED
      BY <1>4, <2>1, SelectionAssumption DEF Blacklist, SelChange, Tests, Hosts
  <1>5. ASSUME NEW w \in Tests, OpenOrClose(w) PROVE SelectionTypeOK'
    BY <1>5, SelectionAssumption DEF OpenOrClose, SelChange, Tests, Hosts
  <1>6. CASE UNCHANGED selVars
    BY <1>6 DEF selVars, Tests, Hosts
  <1> QED
    BY <1>1, <1>2, <1>3, <1>4, <1>5, <1>6 DEF SelectionNext

Flags == exitFile \in BOOLEAN /\ keyGood \in BOOLEAN /\ outdated \in BOOLEAN /\ tuner \in BOOLEAN
Places ==
    /\ loop \in [Loops -> {"absent", "boot", "check", "loop", "failed", "ended"}]
    /\ client \in [Loops -> {"none", "start", "asks", "works", "updates", "refused", "hung"}]
    /\ booting \in Loops \cup {Nobody} /\ dirLock \in Loops \cup {Nobody}
    /\ supEvents \in 0 .. MaxSupEvents

LEMMA SupParts == (SupTypeOK <=> Flags /\ Places) /\ (SupTypeOK' <=> Flags' /\ Places')
  BY DEF SupTypeOK, Flags, Places

LEMMA SupTypes ==
    ASSUME SupTypeOK, [SupNext]_supVars
    PROVE  SupTypeOK'
  <1>1. Flags /\ Places
    BY SupParts
  <1>2. Flags'
    <2>1. CASE UNCHANGED supVars
      BY <1>1, <2>1 DEF Flags, supVars
    <2>2. ASSUME NEW l \in Loops,
                 \/ TakeOver(l) \/ StartClient(l) \/ TakeLock(l)
                 \/ ConnectAgain(l) \/ CheckUnanswered(l) \/ CrashClient(l)
                 \/ RefuseSession(l) \/ AskInVain(l) \/ HangClient(l)
          PROVE  Flags'
      <3>1. UNCHANGED <<exitFile, keyGood, outdated, tuner>>
        BY <2>2 DEF TakeOver, StartClient, TakeLock, ConnectAgain, CheckUnanswered, CrashClient,
                    RefuseSession, AskInVain, HangClient
      <3> QED BY <1>1, <3>1 DEF Flags
    <2>3. ASSUME NEW l \in Loops, CheckKey(l) PROVE Flags'
      BY <1>1, <2>3 DEF CheckKey, Revoked, Flags
    <2>4. ASSUME NEW l \in Loops, Ask(l) \/ Work(l) PROVE Flags'
      BY <1>1, <2>4 DEF Ask, Work, Shutdown, StopDetachedTuner, Flags
    <2>5. ASSUME NEW l \in Loops, UpdateClient(l) PROVE Flags'
      BY <1>1, <2>5 DEF UpdateClient, Flags
    <2>6. CASE RevokeKey \/ TouchExit \/ DeployServer
      BY <1>1, <2>6 DEF RevokeKey, TouchExit, DeployServer, Flags
    <2> QED BY <2>1, <2>2, <2>3, <2>4, <2>5, <2>6 DEF SupNext, SupStep
  <1>3. Places'
    <2> USE <1>1, SupervisionAssumption DEF Places
    <2>1. CASE UNCHANGED supVars
      BY <2>1 DEF supVars
    <2>2. ASSUME NEW l \in Loops, TakeOver(l) PROVE Places'
      BY <2>2 DEF TakeOver
    <2>3. ASSUME NEW l \in Loops, CheckKey(l) PROVE Places'
      BY <2>3 DEF CheckKey
    <2>4. ASSUME NEW l \in Loops, StartClient(l) \/ UpdateClient(l) PROVE Places'
      BY <2>4 DEF StartClient, UpdateClient
    <2>5. ASSUME NEW l \in Loops, CheckUnanswered(l) \/ CrashClient(l) \/ ConnectAgain(l)
          PROVE  Places'
      BY <2>5 DEF CheckUnanswered, CrashClient, ConnectAgain, SupEvent
    <2>6. ASSUME NEW l \in Loops, Shutdown(l), supEvents' = supEvents PROVE Places'
      BY <2>6 DEF Shutdown, ExitForGood
    <2>7. ASSUME NEW l \in Loops, TakeLock(l) PROVE Places'
      BY <2>7 DEF TakeLock, ExitForGood
    <2>8. ASSUME NEW l \in Loops, Ask(l) \/ Work(l) PROVE Places'
      <3>1. CASE Shutdown(l)
        BY <2>6, <3>1 DEF Shutdown
      <3>2. CASE ~Shutdown(l)
        BY <2>8, <3>2 DEF Ask, Work
      <3> QED BY <3>1, <3>2
    <2>9. CASE RevokeKey \/ TouchExit \/ DeployServer
      BY <2>9 DEF RevokeKey, TouchExit, DeployServer, SupEvent
    <2>10. ASSUME NEW l \in Loops, RefuseSession(l) \/ AskInVain(l) \/ HangClient(l) PROVE Places'
      BY <2>10 DEF RefuseSession, AskInVain, HangClient, SupEvent
    <2> QED BY <2>1, <2>2, <2>3, <2>4, <2>5, <2>7, <2>8, <2>9, <2>10 DEF SupNext, SupStep
  <1> QED BY <1>2, <1>3, SupParts

LEMMA StartupTypes ==
    ASSUME StartupTypeOK, [StartupNext]_startupVars
    PROVE  StartupTypeOK'
  <1> USE StartupAssumption DEF StartupTypeOK
  <1>1. ASSUME NEW p \in Everyone, OpenLockfile(p) PROVE StartupTypeOK'
    <2>1. files' \in 1 .. MaxFiles /\ named' \in 1 .. MaxFiles \cup {NoFile}
      BY <1>1 DEF OpenLockfile
    <2> QED
      BY <1>1, <2>1 DEF OpenLockfile
  <1>2. ASSUME NEW p \in Everyone, TryLock(p) \/ RemoveLockfile(p) \/ Replace(p) PROVE StartupTypeOK'
    BY <1>2 DEF TryLock, RemoveLockfile, Replace
  <1>3. ASSUME NEW p \in Everyone, EndInOrder(p) \/ Killed(p) PROVE StartupTypeOK'
    BY <1>3 DEF EndInOrder, Killed
  <1>4. CASE UNCHANGED startupVars
    BY <1>4 DEF startupVars
  <1> QED
    BY <1>1, <1>2, <1>3, <1>4 DEF StartupNext, StartupStep, Everyone

WorkersInv == PrepInv /\ SelectionTypeOK /\ SupTypeOK /\ StartupTypeOK

LEMMA WorkersStart == WorkersInit => WorkersInv
  <1> SUFFICES ASSUME WorkersInit PROVE WorkersInv
    OBVIOUS
  <1>1. PrepInv
    BY PrepInitInv DEF WorkersInit
  <1>2. SelectionTypeOK
    BY SelectionAssumption DEF WorkersInit, SelectionInit, SelectionTypeOK
  <1>3. SupTypeOK
    <2>1. SupInit
      BY DEF WorkersInit
    <2>2. Flags
      BY <2>1 DEF SupInit, Flags
    <2>3. Places
      BY <2>1, SupervisionAssumption DEF SupInit, Places
    <2> QED BY <2>2, <2>3, SupParts
  <1>4. StartupTypeOK
    <2>1. StartupInit
      BY DEF WorkersInit
    <2>2. overtaken \in BOOLEAN
      BY <2>1 DEF StartupInit
    <2>3. files \in 1 .. MaxFiles /\ ends \in 0 .. MaxEnds /\ named \in 1 .. MaxFiles \cup {NoFile}
      BY <2>1, StartupAssumption DEF StartupInit
    <2> QED BY <2>1, <2>2, <2>3 DEF StartupInit, StartupTypeOK
  <1> QED BY <1>1, <1>2, <1>3, <1>4 DEF WorkersInv

LEMMA WorkersStep == WorkersInv /\ [WorkersNext]_workersVars => WorkersInv'
  <1> SUFFICES ASSUME WorkersInv, [WorkersNext]_workersVars PROVE WorkersInv'
    OBVIOUS
  <1>1. /\ [PreparationNext]_prepVars /\ [SelectionNext]_selVars
        /\ [SupNext]_supVars /\ [StartupNext]_startupVars
    BY DEF WorkersNext, workersVars, PreparationSteps, SelectionSteps, SupervisionSteps, StartupSteps
  <1> QED BY <1>1, PrepInvNext, SelectionTypes, SupTypes, StartupTypes DEF WorkersInv

\* Every variable of the four specifications of the workers' side keeps its type.
THEOREM WorkersTypesHold == WorkersSpec => []WorkersTypeOK
  <1>1. WorkersInv => WorkersTypeOK
    BY DEF WorkersInv, WorkersTypeOK, PrepInv
  <1>2. WorkersSpec => []WorkersInv
    BY WorkersStart, WorkersStep, PTL DEF WorkersSpec
  <1> QED BY <1>1, <1>2, PTL
=============================================================================
