------------------------------ MODULE JobsProofs -----------------------------
(* What holds of JobProfiles for any number of texts, candidates, versions,  *)
(* revisions and repeated runs.                                              *)
EXTENDS JobProfiles, TLAPS

(***************************************************************************)
(* Versions                                                                *)
(***************************************************************************)
VersionRecords ==
    [text : Texts, edited : BOOLEAN, status : Statuses, code : Codes,
     profile : BOOLEAN, compiled : Revisions, asked : Revisions, run : Runs,
     failed : SUBSET (Revisions \X BOOLEAN), blocked : Revisions, overtaken : BOOLEAN]

CommandRecords ==
    [stage : {"none", "read", "found"}, version : Versions, status : Statuses,
     to : {"queued", "ready"}, reuse : BOOLEAN, fresh : BOOLEAN, run : Runs]

\* Every revision that a run makes is counted from 1.
Counted(p) ==
    /\ p.run.active => p.run.revision >= 1
    /\ p.blocked # 0 => p.blocked >= 1
    /\ \A f \in p.failed : f[1] >= 1

\* Of a version that is known: a run is at work, or has left a profile, or is
\* there for an administrator to take up.
Backed(p) ==
    p.status # "none" => p.run.active \/ p.profile \/ p.failed # {} \/ p.blocked # 0

\* Unless it is marked for a run that had ended, what shows as being worked on is.
Shown(p) == p.status \in {"queued", "processing"} => p.run.active

\* What may be repaired without a new revision refers to one that is there.
Repairable(p) ==
    ~ p.run.active /\ p.status \in {"failed", "review_required"} /\ p.code = "ready_retry"
    => p.asked \in 1 .. p.compiled

\* The revision that the version refers to is there by the time that its run
\* gets to the last step: a run that may get there compiles this revision,
\* unless it is there already.
Followed(p) ==
    /\ p.run.active /\ p.run.step = "freeze" /\ p.status \in {"queued", "processing"}
         => p.asked \in 1 .. p.compiled \/ p.asked = p.run.revision
    /\ p.run.active /\ p.run.step = "compile" /\ ~ p.run.resumed
         => p.asked \in 1 .. p.compiled \/ p.asked = p.run.revision

\* A run gets to its last step with a revision that is there.
Compiled(p) == p.run.active /\ p.run.step = "ready" => p.run.revision \in 1 .. p.compiled
Ready(p) == p.run.active /\ p.run.step = "ready" => p.asked \in 1 .. p.compiled

Sound(p) ==
    /\ Counted(p) /\ Backed(p) /\ Compiled(p)
    /\ ~ p.overtaken => Shown(p) /\ Repairable(p) /\ Followed(p) /\ Ready(p)

\* Of a command: the run that it creates starts from the beginning, and has a
\* revision to make or to publish.
Prepared(c) ==
    /\ c.stage = "read" /\ c.reuse => c.run.active /\ c.run.step = "freeze" /\ c.run.revision >= 1
    /\ c.stage = "found" /\ c.to = "queued" => c.run.revision >= 1
    /\ c.stage = "found" /\ c.to = "queued" /\ c.fresh => c.run.active /\ c.run.step = "freeze"

VersionsSound ==
    /\ version \in [Versions -> VersionRecords]
    /\ \A v \in Versions : Sound(version[v])

CommandsSound ==
    /\ command \in [Askers -> CommandRecords]
    /\ \A who \in Askers :
         /\ Prepared(command[who])
         /\ command[who].stage # "none" => command[who].version \in Known

IInv == VersionsSound /\ CommandsSound

LEMMA Bounds == Revisions \subseteq Nat /\ 0 \in Revisions /\ 1 \in Revisions
BY JobProfilesAssumption DEF Revisions

LEMMA OneIsVersion == 1 \in Versions
BY JobProfilesAssumption DEF Versions

LEMMA NoRunTyped == NoRun \in Runs
BY Bounds DEF NoRun, Runs

LEMMA FreshRunTyped ==
  ASSUME NEW revision \in Revisions, NEW reuse \in BOOLEAN
  PROVE  FreshRun(revision, reuse) \in Runs
BY DEF FreshRun, Runs

LEMMA NoVersionTyped == NoVersion \in VersionRecords
<1>1. (CHOOSE t \in Texts : TRUE) \in Texts
  BY JobProfilesAssumption
<1> QED
  BY <1>1, NoRunTyped, Bounds DEF NoVersion, VersionRecords, Statuses, Codes

LEMMA NoCommandTyped == NoCommand \in CommandRecords
BY NoRunTyped, OneIsVersion DEF NoCommand, CommandRecords, Statuses

\* A step that leaves version v, which stays known, as p.
Leaves(v, p) ==
    /\ version' = [version EXCEPT ![v] = p]
    /\ p \in VersionRecords /\ Sound(p)
    /\ p.status = "none" => version[v].status = "none"

LEMMA LeavesIsSound ==
  ASSUME VersionsSound, NEW v \in Versions, NEW p, Leaves(v, p)
  PROVE  VersionsSound' /\ Known \subseteq Known'
<1>1. VersionsSound'
  BY DEF Leaves, VersionsSound
<1>2. ASSUME NEW w \in Known PROVE w \in Known'
  BY <1>2 DEF Leaves, VersionsSound, Known
<1> QED
  BY <1>1, <1>2

LEMMA CommandsKept ==
  ASSUME CommandsSound, UNCHANGED command, Known \subseteq Known'
  PROVE  CommandsSound'
BY DEF CommandsSound

\* What a frozen version starts as.
LEMMA FrozenIsSound ==
  ASSUME NEW text \in Texts, NEW edited \in BOOLEAN
  PROVE  LET p == Frozen(text, edited)
         IN p \in VersionRecords /\ Sound(p) /\ p.status # "none"
<1> DEFINE p == Frozen(text, edited)
<1>1. FreshRun(1, FALSE) \in Runs
  BY FreshRunTyped, Bounds
<1>2. p \in VersionRecords
  BY <1>1, NoVersionTyped, Bounds DEF Frozen, VersionRecords, Statuses
<1>3. p.status = "queued" /\ p.asked = 1 /\ p.run = FreshRun(1, FALSE) /\ p.blocked = 0
      /\ p.failed = {}
  BY NoVersionTyped DEF Frozen, VersionRecords, NoVersion
<1>4. Sound(p)
  BY <1>3 DEF Sound, Counted, Backed, Compiled, Shown, Repairable, Followed, Ready, FreshRun
<1> QED
  BY <1>2, <1>3, <1>4

LEMMA FreezeIsSound ==
  ASSUME VersionsSound, NEW text \in Texts, NEW edited \in BOOLEAN, Freeze(text, edited)
  PROVE  \E v \in Versions : Leaves(v, Frozen(text, edited))
BY FrozenIsSound DEF Freeze, SetVersion, Leaves

LEMMA RunIsSound ==
  ASSUME VersionsSound, NEW v \in Versions, ProfileStep(v)
  PROVE  \E p \in VersionRecords : Leaves(v, p)
<1> DEFINE p == version[v]
<1>1. p \in VersionRecords /\ Sound(p)
  BY DEF VersionsSound
<1>2. CASE ProfileFreezes(v)
  <2> DEFINE q == [p EXCEPT !.status = "processing", !.code = "none", !.run.step = "compile"]
  <2>1. q \in VersionRecords
    BY <1>1 DEF VersionRecords, Statuses, Codes, Runs
  <2>2. p.run.active /\ p.run.step = "freeze" /\ p.status \in {"queued", "processing"}
    BY <1>2 DEF ProfileFreezes, Compiling, MayBecome
  <2>3. Sound(q)
    BY <1>1, <2>2
       DEF Sound, Counted, Backed, Compiled, Shown, Repairable, Followed, Ready,
           VersionRecords, Runs
  <2>4. version' = [version EXCEPT ![v] = q]
    BY <1>2 DEF ProfileFreezes, SetVersion
  <2> QED
    BY <1>1, <2>1, <2>3, <2>4 DEF Leaves, VersionRecords
<1>3. CASE ProfileCompiles(v)
  <2> DEFINE q == [p EXCEPT !.run.step = "ready",
                     !.compiled = IF p.run.revision > @ THEN p.run.revision ELSE @]
  <2>1. q \in VersionRecords
    BY <1>1 DEF VersionRecords, Runs
  <2>2. p.run.active /\ p.run.step = "compile" /\ ~ p.run.resumed
    BY <1>3 DEF ProfileCompiles, Compiling
  <2>3. Sound(q)
    BY <1>1, <2>2, Bounds
       DEF Sound, Counted, Backed, Compiled, Shown, Repairable, Followed, Ready,
           VersionRecords, Runs
  <2>4. version' = [version EXCEPT ![v] = q]
    BY <1>3 DEF ProfileCompiles, SetVersion
  <2>5. q.status = p.status
    BY <1>1 DEF VersionRecords
  <2> QED
    BY <2>1, <2>3, <2>4, <2>5 DEF Leaves
<1>4. CASE ProfileFails(v)
  <2> DEFINE q == FailedProfile(p)
  <2>1. <<p.run.revision, p.run.reuse>> \in Revisions \X BOOLEAN
    BY <1>1 DEF VersionRecords, Runs
  <2>2. q \in VersionRecords
    BY <1>1, <2>1, NoRunTyped
       DEF FailedProfile, FailedProfileCode, VersionRecords, Statuses, Codes
  <2>3. p.run.active
    BY <1>4 DEF ProfileFails
  <2>4. /\ q.status = "failed" /\ ~ q.run.active /\ q.asked = p.asked
        /\ q.compiled = p.compiled /\ q.blocked = p.blocked /\ q.overtaken = p.overtaken
        /\ q.failed = p.failed \cup {<<p.run.revision, p.run.reuse>>}
    BY <1>1 DEF FailedProfile, VersionRecords, NoRun
  <2>5. q.code = "ready_retry" => p.run.step = "ready"
    BY <1>1 DEF FailedProfile, FailedProfileCode, VersionRecords
  <2>6. /\ \A f \in q.failed : f[1] >= 1
        /\ q.failed # {}
    <3> DEFINE r == p.run.revision
               b == p.run.reuse
    <3>1. r >= 1 /\ \A f \in p.failed : f[1] >= 1
      BY <1>1, <2>3 DEF Sound, Counted
    <3>2. q.failed = p.failed \cup {<<r, b>>}
      BY <2>4
    <3> HIDE DEF r, b, q
    <3>3. <<r, b>>[1] = r
      OBVIOUS
    <3> QED
      BY <3>1, <3>2, <3>3
  <2>7. Sound(q)
    BY <1>1, <2>3, <2>4, <2>5, <2>6
       DEF Sound, Counted, Backed, Compiled, Shown, Repairable, Followed, Ready
  <2>8. version' = [version EXCEPT ![v] = q]
    BY <1>4 DEF ProfileFails, SetVersion
  <2> QED
    BY <2>2, <2>4, <2>7, <2>8 DEF Leaves
<1>5. CASE ProfileIsBlocked(v)
  <2> DEFINE q == [p EXCEPT !.status = "review_required", !.code = "review",
                            !.run = NoRun, !.blocked = p.run.revision]
  <2>1. p.run.active
    BY <1>5 DEF ProfileIsBlocked, Compiling
  <2>2. q \in VersionRecords
    BY <1>1, NoRunTyped DEF VersionRecords, Statuses, Codes, Runs
  <2>3. /\ q.status = "review_required" /\ q.code = "review" /\ ~ q.run.active
        /\ q.blocked = p.run.revision /\ q.failed = p.failed
    BY <1>1 DEF VersionRecords, NoRun
  <2>4. p.run.revision >= 1 /\ p.run.revision \in Nat
    BY <1>1, <2>1, Bounds DEF Sound, Counted, VersionRecords, Runs
  <2>5. Sound(q)
    BY <1>1, <2>3, <2>4
       DEF Sound, Counted, Backed, Compiled, Shown, Repairable, Followed, Ready
  <2>6. version' = [version EXCEPT ![v] = q]
    BY <1>5 DEF ProfileIsBlocked, SetVersion
  <2> QED
    BY <2>2, <2>3, <2>5, <2>6 DEF Leaves
<1>6. CASE ProfileBecomesReady(v)
  <2> DEFINE q == PublishedReady(p)
  <2>1. q \in VersionRecords
    BY <1>1, NoRunTyped DEF PublishedReady, VersionRecords, Statuses, Codes, Runs
  <2>2. /\ q.status = "ready" /\ q.profile /\ ~ q.run.active /\ q.blocked = p.blocked
        /\ q.failed = p.failed
    BY <1>1 DEF PublishedReady, VersionRecords, NoRun
  <2>3. Sound(q)
    BY <1>1, <2>2
       DEF Sound, Counted, Backed, Compiled, Shown, Repairable, Followed, Ready
  <2>4. version' = [version EXCEPT ![v] = q]
    BY <1>6 DEF ProfileBecomesReady
  <2> QED
    BY <2>1, <2>2, <2>3, <2>4 DEF Leaves
<1> QED
  BY <1>2, <1>3, <1>4, <1>5, <1>6 DEF ProfileStep

LEMMA AdminIsSound ==
  ASSUME VersionsSound, NEW v \in Versions, AdminRetriesProfile(v) \/ AdminResumesProfile(v)
  PROVE  \E p \in VersionRecords : Leaves(v, p)
<1> DEFINE p == version[v]
<1>1. p \in VersionRecords /\ Sound(p) /\ ~ p.run.active
  BY DEF VersionsSound, AdminRetriesProfile, AdminResumesProfile
<1>2. ~ p.overtaken => p.status \notin {"queued", "processing"}
  BY <1>1 DEF Sound, Shown
<1>3. CASE AdminRetriesProfile(v)
  <2>1. PICK old \in p.failed : version' = [version EXCEPT ![v] =
                 [p EXCEPT !.run = FreshRun(old[1], old[2])]]
    BY <1>3 DEF AdminRetriesProfile, AskedAgain
  <2>2. old[1] \in Revisions /\ old[2] \in BOOLEAN /\ old[1] >= 1
    BY <1>1 DEF VersionRecords, Sound, Counted
  <2> DEFINE run == FreshRun(old[1], old[2])
             q == [p EXCEPT !.run = run]
  <2>3. run \in Runs /\ run.active /\ run.step = "freeze" /\ run.revision >= 1
    BY <2>2, FreshRunTyped DEF FreshRun
  <2> HIDE DEF run
  <2>4. q \in VersionRecords
    BY <1>1, <2>3 DEF VersionRecords
  <2>5. /\ q.run = run /\ q.status = p.status /\ q.blocked = p.blocked
        /\ q.failed = p.failed /\ q.overtaken = p.overtaken
    BY <1>1 DEF VersionRecords
  <2> HIDE DEF q
  <2>6. Sound(q)
    BY <1>1, <1>2, <2>3, <2>5
       DEF Sound, Counted, Backed, Compiled, Shown, Repairable, Followed, Ready
  <2>7. version' = [version EXCEPT ![v] = q]
    BY <2>1 DEF q, run
  <2> QED
    BY <2>4, <2>5, <2>6, <2>7 DEF Leaves
<1>4. CASE AdminResumesProfile(v)
  <2> DEFINE run == [active |-> TRUE, step |-> "compile", revision |-> p.blocked,
                     reuse |-> FALSE, resumed |-> TRUE]
             q == [p EXCEPT !.blocked = 0, !.run = run]
  <2>1. p.blocked \in Revisions /\ p.blocked >= 1
    BY <1>1, <1>4 DEF AdminResumesProfile, VersionRecords, Sound, Counted
  <2>2. run \in Runs
    BY <2>1 DEF Runs
  <2>3. run.active /\ run.step = "compile" /\ run.resumed /\ run.revision = p.blocked
    OBVIOUS
  <2>4. q \in VersionRecords
    BY <1>1, <2>2, Bounds DEF VersionRecords
  <2>5. /\ q.run = run /\ q.blocked = 0 /\ q.status = p.status
        /\ q.failed = p.failed /\ q.overtaken = p.overtaken
    BY <1>1 DEF VersionRecords
  <2> HIDE DEF run, q
  <2>6. Sound(q)
    BY <1>1, <1>2, <2>1, <2>3, <2>5
       DEF Sound, Counted, Backed, Compiled, Shown, Repairable, Followed, Ready
  <2>7. version' = [version EXCEPT ![v] = q]
    BY <1>4 DEF AdminResumesProfile, AskedAgain, q, run
  <2> QED
    BY <2>4, <2>5, <2>6, <2>7 DEF Leaves
<1> QED
  BY <1>3, <1>4

(***************************************************************************)
(* Commands                                                                *)
(***************************************************************************)
\* What the beginning of a command has read.
LEMMA ReadIsSound ==
  ASSUME IInv, NEW who \in Askers, NEW v \in Known, NEW reuse \in BOOLEAN,
         Reads(who, v, reuse), reuse => version[v].asked \in 1 .. version[v].compiled
  PROVE  CommandsSound' /\ UNCHANGED version
<1> DEFINE p == version[v]
           run == IF reuse THEN FreshRun(p.asked, TRUE) ELSE NoRun
           to == IF who = "import" /\ p.profile THEN "ready" ELSE "queued"
           c == [NoCommand EXCEPT !.stage = "read", !.version = v, !.status = p.status,
                   !.reuse = reuse, !.run = run, !.to = to]
<1>1. v \in Versions /\ p \in VersionRecords
  BY DEF Known, IInv, VersionsSound
<1>2. run \in Runs
  BY <1>1, FreshRunTyped, NoRunTyped DEF VersionRecords
<1>3. reuse => run.active /\ run.step = "freeze" /\ run.revision >= 1
  BY <1>1, Bounds DEF FreshRun, VersionRecords
<1>4. command' = [command EXCEPT ![who] = c] /\ UNCHANGED version
  BY DEF Reads, NoCommand
<1> HIDE DEF run
<1>5. to \in {"queued", "ready"}
  OBVIOUS
<1> HIDE DEF to
<1>6. c \in CommandRecords
  BY <1>1, <1>2, <1>5, NoCommandTyped DEF CommandRecords, VersionRecords
<1>7. c.stage = "read" /\ c.version = v /\ c.reuse = reuse /\ c.run = run
  BY NoCommandTyped DEF CommandRecords
<1>8. Prepared(c)
  BY <1>3, <1>7 DEF Prepared
<1> HIDE DEF c
<1>9. Known' = Known
  BY <1>4 DEF Known
<1> QED
  BY <1>4, <1>6, <1>7, <1>8, <1>9 DEF IInv, CommandsSound

LEMMA BeginIsSound ==
  ASSUME IInv, NEW v \in Versions, CommandBegins(v)
  PROVE  CommandsSound' /\ UNCHANGED version
<1>1. CASE RetryProfile(v)
  <2>1. v \in Known /\ (version[v].code = "ready_retry"
                          => version[v].asked \in 1 .. version[v].compiled)
    BY <1>1 DEF RetryProfile, CanRetryProfile, Newest
  <2>2. Reads("recruiter", v, version[v].code = "ready_retry")
    BY <1>1 DEF RetryProfile
  <2> DEFINE b == version[v].code = "ready_retry"
  <2>3. b \in BOOLEAN
    OBVIOUS
  <2> HIDE DEF b
  <2>4. Reads("recruiter", v, b) /\ (b => version[v].asked \in 1 .. version[v].compiled)
    BY <2>1, <2>2 DEF b
  <2> QED
    BY <2>1, <2>3, <2>4, ReadIsSound DEF Askers
<1>2. ASSUME RegenerateProfile(v) \/ ImportAgain(v)
             \/ \E c \in Candidates : RecoverProfileOf(c, v)
      PROVE  v \in Known /\ \E who \in Askers : Reads(who, v, FALSE)
  BY <1>2 DEF RegenerateProfile, ImportAgain, RecoverProfileOf, Newest, Askers
<1> QED
  BY <1>1, <1>2, ReadIsSound DEF CommandBegins

\* The run that a command finds or will create.
LEMMA FindIsSound ==
  ASSUME IInv, NEW who \in Askers, FindsRun(who)
  PROVE  CommandsSound' /\ UNCHANGED version
<1> DEFINE c == command[who]
           p == version[c.version]
<1>1. c \in CommandRecords /\ Prepared(c) /\ c.stage = "read" /\ c.version \in Known
  BY DEF IInv, CommandsSound, FindsRun
<1>2. c.version \in Versions /\ p \in VersionRecords /\ Sound(p)
  BY <1>1 DEF Known, IInv, VersionsSound
<1>3. UNCHANGED version /\ Known' = Known
  BY DEF FindsRun, Known
<1>4. CASE c.to = "ready" /\ command' = [command EXCEPT ![who].stage = "found"]
  <2> DEFINE d == [c EXCEPT !.stage = "found"]
  <2>1. d \in CommandRecords /\ d.version = c.version /\ d.to = "ready" /\ d.stage = "found"
    BY <1>1, <1>4 DEF CommandRecords
  <2>2. Prepared(d)
    BY <2>1 DEF Prepared
  <2>3. command' = [command EXCEPT ![who] = d]
    BY <1>4 DEF IInv, CommandsSound
  <2> HIDE DEF d
  <2> QED
    BY <1>1, <1>3, <2>1, <2>2, <2>3 DEF IInv, CommandsSound
<1>5. CASE /\ c.to = "queued" /\ (p.compiled < MaxRevision \/ c.reuse)
           /\ command' = [command EXCEPT ![who] =
                [c EXCEPT !.stage = "found", !.fresh = ~ p.run.active,
                   !.run = IF p.run.active THEN p.run
                           ELSE IF c.reuse THEN c.run ELSE FreshRun(p.compiled + 1, FALSE)]]
  <2> DEFINE run == IF p.run.active THEN p.run
                    ELSE IF c.reuse THEN c.run ELSE FreshRun(p.compiled + 1, FALSE)
             fresh == ~ p.run.active
             d == [c EXCEPT !.stage = "found", !.fresh = fresh, !.run = run]
  <2>1. /\ run \in Runs /\ run.revision >= 1
        /\ fresh => run.active /\ run.step = "freeze"
    <3>1. CASE p.run.active
      BY <1>2, <3>1 DEF VersionRecords, Sound, Counted
    <3>2. CASE ~ p.run.active /\ c.reuse
      BY <1>1, <3>2 DEF Prepared, CommandRecords
    <3>3. CASE ~ p.run.active /\ ~ c.reuse
      <4>1. p.compiled + 1 \in Revisions /\ p.compiled + 1 >= 1
        BY <1>2, <1>5, <3>3, JobProfilesAssumption DEF VersionRecords, Revisions
      <4> QED
        BY <3>3, <4>1, FreshRunTyped DEF FreshRun
    <3> QED
      BY <3>1, <3>2, <3>3
  <2>2. fresh \in BOOLEAN
    BY <1>2 DEF VersionRecords, Runs
  <2>3. command' = [command EXCEPT ![who] = d]
    BY <1>5
  <2> HIDE DEF run, fresh
  <2>4. d \in CommandRecords
    BY <1>1, <2>1, <2>2 DEF CommandRecords
  <2>5. /\ d.version = c.version /\ d.stage = "found" /\ d.fresh = fresh /\ d.run = run
    BY <1>1 DEF CommandRecords
  <2>6. Prepared(d)
    BY <2>1, <2>5 DEF Prepared
  <2> HIDE DEF d
  <2> QED
    BY <1>1, <1>3, <2>3, <2>4, <2>5, <2>6 DEF IInv, CommandsSound
<1> QED
  BY <1>3, <1>4, <1>5 DEF FindsRun

\* What a command makes of its version, with the run it has found or creates.
LEMMA MarkedIsSound ==
  ASSUME NEW p \in VersionRecords, Sound(p), NEW c \in CommandRecords, Prepared(c),
         c.stage = "found", p.status # "none", c.fresh /\ c.to = "queued" => ~ p.run.active
  PROVE  LET q == Marked(p, c) IN q \in VersionRecords /\ Sound(q) /\ q.status # "none"
<1> DEFINE status == IF c.status = c.to THEN p.status ELSE c.to
           overtaken == p.overtaken \/ ~ p.run.active \/ p.run.revision # c.run.revision
<1>1. status \in Statuses /\ status # "none" /\ (status = p.status \/ status = c.to)
  BY DEF VersionRecords, CommandRecords, Statuses
<1>2. CASE c.to = "ready"
  <2> DEFINE q == [p EXCEPT !.status = status]
  <2>1. Marked(p, c) = q
    BY <1>2 DEF Marked
  <2> HIDE DEF status
  <2>2. q \in VersionRecords
    BY <1>1 DEF VersionRecords
  <2>3. /\ q.status = status /\ q.code = p.code /\ q.run = p.run /\ q.asked = p.asked
        /\ q.compiled = p.compiled /\ q.blocked = p.blocked /\ q.failed = p.failed
        /\ q.profile = p.profile /\ q.overtaken = p.overtaken
    BY DEF VersionRecords
  <2> HIDE DEF q
  <2>4. Sound(q)
    BY <1>1, <1>2, <2>3
       DEF Sound, Counted, Backed, Compiled, Shown, Repairable, Followed, Ready
  <2> QED
    BY <1>1, <2>1, <2>2, <2>3, <2>4
<1>3. CASE c.to = "queued" /\ c.fresh
  <2> DEFINE q == [p EXCEPT !.status = status, !.run = c.run, !.asked = c.run.revision]
  <2>1. Marked(p, c) = q
    BY <1>3 DEF Marked
  <2>2. c.run \in Runs /\ c.run.active /\ c.run.step = "freeze" /\ c.run.revision >= 1
    BY <1>3 DEF Prepared, CommandRecords
  <2> HIDE DEF status
  <2>3. q \in VersionRecords
    BY <1>1, <2>2 DEF VersionRecords, Runs
  <2>4. /\ q.status = status /\ q.run = c.run /\ q.asked = c.run.revision
        /\ q.blocked = p.blocked /\ q.failed = p.failed
    BY DEF VersionRecords
  <2> HIDE DEF q
  <2>5. Sound(q)
    BY <2>2, <2>4
       DEF Sound, Counted, Backed, Compiled, Shown, Repairable, Followed, Ready
  <2> QED
    BY <1>1, <2>1, <2>3, <2>4, <2>5
<1>4. CASE c.to = "queued" /\ ~ c.fresh
  <2> DEFINE q == [p EXCEPT !.status = status, !.asked = c.run.revision,
                            !.overtaken = overtaken]
  <2>1. Marked(p, c) = q
    BY <1>4 DEF Marked
  <2>2. c.run \in Runs /\ c.run.revision >= 1
    BY <1>4 DEF Prepared, CommandRecords
  <2>3. overtaken \in BOOLEAN
        /\ (~ overtaken => ~ p.overtaken /\ p.run.active /\ p.run.revision = c.run.revision)
    BY DEF VersionRecords, Runs
  <2> HIDE DEF status, overtaken
  <2>4. q \in VersionRecords
    BY <1>1, <2>2, <2>3 DEF VersionRecords, Runs
  <2>5. /\ q.status = status /\ q.code = p.code /\ q.run = p.run /\ q.asked = c.run.revision
        /\ q.compiled = p.compiled /\ q.blocked = p.blocked /\ q.failed = p.failed
        /\ q.profile = p.profile /\ q.overtaken = overtaken
    BY DEF VersionRecords
  <2> HIDE DEF q
  <2>6. Sound(q)
    BY <2>3, <2>5
       DEF Sound, Counted, Backed, Compiled, Shown, Repairable, Followed, Ready
  <2> QED
    BY <1>1, <2>1, <2>4, <2>5, <2>6
<1> QED
  BY <1>2, <1>3, <1>4 DEF CommandRecords

LEMMA EndIsSound ==
  ASSUME IInv, NEW who \in Askers, CommandEnds(who)
  PROVE  IInv'
<1> DEFINE c == command[who]
           p == version[c.version]
<1>1. c \in CommandRecords /\ Prepared(c) /\ c.stage = "found" /\ c.version \in Known
  BY DEF IInv, CommandsSound, CommandEnds
<1>2. c.version \in Versions /\ p \in VersionRecords /\ Sound(p) /\ p.status # "none"
  BY <1>1 DEF Known, IInv, VersionsSound
<1>3. VersionsSound' /\ Known \subseteq Known'
  <2>1. CASE CommandClashes(who)
    BY <2>1 DEF CommandEnds, IInv, VersionsSound, Known
  <2>2. CASE ~ CommandClashes(who)
    <3>1. Marked(p, c) \in VersionRecords /\ Sound(Marked(p, c)) /\ Marked(p, c).status # "none"
      BY <1>1, <1>2, <2>2, MarkedIsSound DEF CommandClashes
    <3>2. Leaves(c.version, Marked(p, c))
      BY <2>2, <3>1 DEF CommandEnds, Leaves
    <3> QED
      BY <1>2, <3>2, LeavesIsSound DEF IInv
  <2> QED
    BY <2>1, <2>2
<1>4. Prepared(NoCommand) /\ NoCommand.stage = "none"
  BY DEF Prepared, NoCommand
<1>5. command' = [command EXCEPT ![who] = NoCommand]
  BY DEF CommandEnds
<1> QED
  BY <1>3, <1>4, <1>5, NoCommandTyped DEF IInv, CommandsSound

(***************************************************************************)
(* Every step                                                              *)
(***************************************************************************)
LEMMA InitSound == ProfileInit => IInv
<1> SUFFICES ASSUME ProfileInit PROVE IInv
  OBVIOUS
<1>1. version \in [Versions -> VersionRecords] /\ \A v \in Versions : version[v] = NoVersion
  BY NoVersionTyped DEF ProfileInit
<1>2. Sound(NoVersion)
  BY DEF NoVersion, NoRun, Sound, Counted, Backed, Compiled, Shown, Repairable, Followed, Ready
<1>3. command \in [Askers -> CommandRecords] /\ \A who \in Askers : command[who] = NoCommand
  BY NoCommandTyped DEF ProfileInit
<1>4. Prepared(NoCommand) /\ NoCommand.stage = "none"
  BY DEF Prepared, NoCommand
<1> QED
  BY <1>1, <1>2, <1>3, <1>4 DEF IInv, VersionsSound, CommandsSound

LEMMA SoundKept ==
  ASSUME IInv, ProfileNext
  PROVE  IInv'
<1>1. ASSUME NEW v \in Versions, NEW p, Leaves(v, p), UNCHANGED command
      PROVE  IInv'
  BY <1>1, LeavesIsSound, CommandsKept DEF IInv
<1>2. ASSUME NEW text \in Texts, Edit(text) \/ Import(text)
      PROVE  IInv'
  <2>1. \E edited \in BOOLEAN : Freeze(text, edited)
    BY <1>2 DEF Edit, Import
  <2>2. UNCHANGED command
    BY <2>1 DEF Freeze, SetVersion
  <2> QED
    BY <1>1, <2>1, <2>2, FreezeIsSound DEF IInv
<1>3. ASSUME NEW v \in Versions, ProfileStep(v)
      PROVE  IInv'
  <2>1. UNCHANGED command
    BY <1>3 DEF ProfileStep, ProfileFreezes, ProfileCompiles, ProfileBecomesReady,
                ProfileFails, ProfileIsBlocked, SetVersion
  <2> QED
    BY <1>1, <1>3, <2>1, RunIsSound DEF IInv
<1>4. ASSUME NEW v \in Versions, AdminRetriesProfile(v) \/ AdminResumesProfile(v)
      PROVE  IInv'
  <2>1. UNCHANGED command
    BY <1>4 DEF AdminRetriesProfile, AdminResumesProfile, AskedAgain
  <2> QED
    BY <1>1, <1>4, <2>1, AdminIsSound DEF IInv
<1>5. ASSUME CommandsSound', UNCHANGED version
      PROVE  IInv'
  BY <1>5 DEF IInv, VersionsSound
<1>6. ASSUME NEW v \in Versions, CommandBegins(v)
      PROVE  IInv'
  BY <1>5, <1>6, BeginIsSound
<1>7. ASSUME NEW who \in Askers, FindsRun(who) \/ CommandEnds(who)
      PROVE  IInv'
  BY <1>5, <1>7, FindIsSound, EndIsSound
<1>8. ASSUME UNCHANGED <<version, command>>
      PROVE  IInv'
  BY <1>8 DEF IInv, VersionsSound, CommandsSound, Known
<1>9. ASSUME NEW c \in Candidates, RoutingStep(c) \/ RetryAssessment(c)
      PROVE  UNCHANGED <<version, command>>
  BY <1>9 DEF RoutingStep, RoutingFreezes, RoutingReads, RoutingCommits, RetryAssessment
<1>10. DeleteJob => UNCHANGED <<version, command>>
  BY DEF DeleteJob
<1> QED
  BY <1>2, <1>3, <1>4, <1>6, <1>7, <1>8, <1>9, <1>10 DEF ProfileNext

LEMMA AlwaysSound == ProfileSpec => []IInv
<1>1. ProfileInit => IInv
  BY InitSound
<1>2. IInv /\ [ProfileNext]_profileVars => IInv'
  <2>1. IInv /\ ProfileNext => IInv'
    BY SoundKept
  <2>2. IInv /\ UNCHANGED profileVars => IInv'
    BY DEF IInv, VersionsSound, CommandsSound, Known, profileVars
  <2> QED
    BY <2>1, <2>2
<1> QED
  BY <1>1, <1>2, PTL DEF ProfileSpec

\* However commands are overtaken by the runs they have found, a version that
\* shows as being worked on though no run works on it has a profile, or a run
\* that an administrator can take up (active_run, enqueue_for_version,
\* retry_workflow).
THEOREM NoWorkIsLost == ProfileSpec => []LostWorkIsFound
<1>1. IInv => LostWorkIsFound
  BY DEF IInv, VersionsSound, Sound, Backed, LostWorkIsFound
<1> QED
  BY <1>1, AlwaysSound, PTL

\* The retry that the list of jobs offers is accepted, whatever runs were taken
\* up before, unless the version was marked for a run that had ended (_job_view,
\* request_profile_run).
THEOREM OfferedRetryAccepted == ProfileSpec => []RetryIsAccepted
<1>1. IInv => RetryIsAccepted
  BY DEF IInv, VersionsSound, Sound, Repairable, RetryIsAccepted, CanRetryProfile
<1> QED
  BY <1>1, AlwaysSound, PTL

(***************************************************************************)
(* Applications                                                            *)
(***************************************************************************)
RoutingRecords == [step : {"none", "frozen", "publishing"}, version : Versions, ready : BOOLEAN]
ApplicationRecords ==
    [status : {"none", "waiting", "started", "closed"}, version : Versions]

RestTyped ==
    /\ deleted \in BOOLEAN /\ again \in 0 .. MaxAgain
    /\ routing \in [Candidates -> RoutingRecords]
    /\ application \in [Candidates -> ApplicationRecords]

LEMMA NoRoutingTyped == NoRouting \in RoutingRecords /\ NoApplication \in ApplicationRecords
BY OneIsVersion DEF NoRouting, NoApplication, RoutingRecords, ApplicationRecords

LEMMA InitRest == ProfileInit => RestTyped
<1> SUFFICES ASSUME ProfileInit PROVE RestTyped
  OBVIOUS
<1>1. 0 \in 0 .. MaxAgain
  BY JobProfilesAssumption
<1>2. deleted \in BOOLEAN /\ again \in 0 .. MaxAgain
  BY <1>1, Zenon DEF ProfileInit
<1> QED
  BY <1>2, NoRoutingTyped DEF ProfileInit, RestTyped

LEMMA RestTypedKept ==
  ASSUME VersionsSound, RestTyped, ProfileNext
  PROVE  RestTyped'
<1> USE DEF RestTyped
<1>1. ASSUME UNCHANGED <<deleted, routing, application>>,
             again' = again \/ (again < MaxAgain /\ again' = again + 1)
      PROVE  RestTyped'
  BY <1>1, JobProfilesAssumption
<1>2. ASSUME NEW text \in Texts, Edit(text) \/ Import(text)
      PROVE  RestTyped'
  BY <1>1, <1>2 DEF Edit, Import, Freeze, SetVersion
<1>3. ASSUME NEW v \in Versions,
             ProfileFreezes(v) \/ ProfileCompiles(v) \/ ProfileFails(v) \/ ProfileIsBlocked(v)
      PROVE  RestTyped'
  BY <1>1, <1>3
     DEF ProfileFreezes, ProfileCompiles, ProfileFails, ProfileIsBlocked, SetVersion
<1>4. ASSUME NEW v \in Versions, ProfileBecomesReady(v)
      PROVE  RestTyped'
  BY <1>4 DEF ProfileBecomesReady, ApplicationRecords
<1>5. ASSUME NEW v \in Versions, AdminRetriesProfile(v) \/ AdminResumesProfile(v)
      PROVE  RestTyped'
  BY <1>1, <1>5 DEF AdminRetriesProfile, AdminResumesProfile, AskedAgain
<1>6. ASSUME NEW v \in Versions, CommandBegins(v)
      PROVE  RestTyped'
  BY <1>1, <1>6
     DEF CommandBegins, RetryProfile, RegenerateProfile, ImportAgain, RecoverProfileOf, Reads
<1>7. ASSUME NEW who \in Askers, FindsRun(who) \/ CommandEnds(who)
      PROVE  RestTyped'
  BY <1>1, <1>7 DEF FindsRun, CommandEnds
<1>8. ASSUME NEW c \in Candidates, RoutingStep(c)
      PROVE  RestTyped'
  <2>1. CASE RoutingFreezes(c)
    BY <2>1 DEF RoutingFreezes, NoRouting, RoutingRecords
  <2>2. CASE RoutingReads(c)
    <3>1. version[routing[c].version].profile \in BOOLEAN
      BY DEF VersionsSound, VersionRecords, RoutingRecords
    <3>2. [routing[c] EXCEPT !.step = "publishing",
             !.ready = version[routing[c].version].profile] \in RoutingRecords
      BY <3>1 DEF RoutingRecords
    <3> QED
      BY <2>2, <3>2, NoRoutingTyped DEF RoutingReads
  <2>3. CASE RoutingCommits(c)
    <3>1. Created(c) \in ApplicationRecords
      BY DEF Created, ApplicationRecords, RoutingRecords
    <3> QED
      BY <2>3, <3>1, NoRoutingTyped DEF RoutingCommits
  <2> QED
    BY <1>8, <2>1, <2>2, <2>3 DEF RoutingStep
<1>9. ASSUME NEW c \in Candidates, RetryAssessment(c)
      PROVE  RestTyped'
  BY <1>9 DEF RetryAssessment, ApplicationRecords
<1>10. ASSUME DeleteJob
       PROVE  RestTyped'
  BY <1>10 DEF DeleteJob, ApplicationRecords
<1> QED
  BY <1>2, <1>3, <1>4, <1>5, <1>6, <1>7, <1>8, <1>9, <1>10 DEF ProfileNext, ProfileStep

\* Every step keeps every variable in its set (JobVersionRecord, the runs and
\* applications around it and the commands that work on it), whatever the bounds.
THEOREM ProfilesTypeCorrect == ProfileSpec => []ProfileTypeOK
<1>1. ProfileInit => RestTyped
  BY InitRest
<1>2. IInv /\ RestTyped /\ [ProfileNext]_profileVars => RestTyped'
  <2>1. IInv /\ RestTyped /\ ProfileNext => RestTyped'
    BY RestTypedKept DEF IInv
  <2>2. RestTyped /\ UNCHANGED profileVars => RestTyped'
    BY DEF RestTyped, profileVars
  <2> QED
    BY <2>1, <2>2
<1>3. IInv /\ RestTyped => ProfileTypeOK
  BY DEF IInv, VersionsSound, CommandsSound, RestTyped, ProfileTypeOK, VersionRecords,
         CommandRecords, RoutingRecords, ApplicationRecords
<1> QED
  BY <1>1, <1>2, <1>3, AlwaysSound, PTL DEF ProfileSpec
=============================================================================
