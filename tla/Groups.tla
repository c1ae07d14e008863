------------------------------- MODULE Groups -------------------------------
(***************************************************************************)
(* Group calls and the life of communicators in one process (group.cc,     *)
(* include/group.h, the barrier of include/comm.h, and init.cc from        *)
(* ncclCommEnsureReady to ncclCommAbort).                                  *)
(*                                                                         *)
(* The application's threads call the library as Script says.  Between its *)
(* two ends a group only changes state of its thread, so a group is one    *)
(* step up to ncclGroupEnd: its calls join communicators to the group and  *)
(* mark those that must connect first.  groupLaunch then runs in the same  *)
(* thread, or for non-blocking communicators that connect in a new one.    *)
(* A thread that has a group under way polls ncclCommGetAsyncError before  *)
(* its next call.                                                          *)
(*                                                                         *)
(* Items of Script:                                                        *)
(*   "group"    calls: the communicators in the order of the calls, each   *)
(*              with the number of plans its tasks will need, whether it   *)
(*              has to connect, whether scheduling its tasks fails and     *)
(*              whether its streams are being captured;                    *)
(*   "finalize", "destroy", "abort" of comm.                               *)
(* Clique gives intraComm0; Fails is how many jobs may fail.               *)
(***************************************************************************)
EXTENDS Integers, Sequences, FiniteSets, SequencesExt

CONSTANTS Threads, Comms, Clique, Nonblocking, Script, Fails, LaunchModes

VARIABLES ncclParamLaunchMode,
          th,       \* per thread: its thread-local group state and progress
          ex,       \* per thread: groupLaunch of the thread's group
          cm,       \* per communicator
          bar,      \* per clique: the intra-process barrier, finalizeRankCnt
          fails

vars == <<ncclParamLaunchMode, th, ex, cm, bar, fails>>

Cliques == {Clique[c] : c \in Comms}

Siblings(c) == {d \in Comms : Clique[d] = Clique[c]}

NoJob == [pc |-> "none", rest |-> <<>>, cq |-> <<>>, i |-> 1, more |-> FALSE,
          allDone |-> TRUE, errorJob |-> FALSE, ret |-> "success"]

Init ==
  /\ ncclParamLaunchMode \in LaunchModes
  /\ th = [t \in Threads |-> [pc |-> "idle", k |-> 1, head |-> <<>>, pre |-> <<>>,
                              jobs |-> <<>>, abortFlag |-> FALSE, initialized |-> FALSE]]
  /\ ex = [t \in Threads |-> NoJob]
  /\ cm = [c \in Comms |->
             [joined |-> FALSE, frames |-> 0, tasks |-> 0, fail |-> FALSE, captured |-> FALSE,
              unlaunched |-> 0, launched |-> 0, asyncResult |-> "success",
              groupJob |-> 0, abortFlag |-> FALSE, phase |-> 0, connected |-> FALSE,
              finalizeCalled |-> FALSE, freed |-> FALSE]]
  /\ bar = [q \in Cliques |-> [n |-> 0, sum |-> 0, gate |-> 0, out |-> 0, finalizeRankCnt |-> 0]]
  /\ fails = 0

Item(t) == Script[t][th[t].k]

Idle(t, do) == th[t].pc = "idle" /\ th[t].k <= Len(Script[t]) /\ Item(t).do = do

(***************************************************************************)
(* The beginning of calls.                                                 *)
(***************************************************************************)

\* The application has seen the result of what it started before.
Polled(c) == cm[c].asyncResult # "inProgress"

\* ncclGroupJobComplete waits for the thread of the group job.
Completes(c) == /\ cm[c].groupJob # 0
                /\ th[cm[c].groupJob].initialized

JobJoinable(c) == Completes(c) => ex[cm[c].groupJob].pc = "done"

\* groupResetJobState.
ResetJobState(s) == [s EXCEPT !.head = <<>>, !.pre = <<>>, !.abortFlag = FALSE,
                              !.initialized = FALSE]

\* ncclGroupCommJoin puts a communicator before the first of its siblings.
JoinList_Append(list, c) ==
  IF \E i \in DOMAIN list : list[i] = c THEN list ELSE Append(list, c)

JoinList(list, c) ==
  IF \E i \in DOMAIN list : list[i] = c THEN list
  ELSE LET at == SelectInSeq(list, LAMBDA d : Clique[d] = Clique[c])
       IN  IF at = 0 THEN Append(list, c) ELSE InsertAt(list, at, c)

Called(t) == {Item(t).calls[i].comm : i \in DOMAIN Item(t).calls}

CallOf(t, c) == Item(t).calls[SelectInSeq(Item(t).calls, LAMBDA x : x.comm = c)]

\* The calls of a group up to ncclGroupEndInternal, and what it decides.  A
\* thread-local list that still names a communicator which has left cannot be
\* followed.
GroupCall(t) ==
  /\ Idle(t, "group")
  /\ \A c \in Called(t) : Polled(c) /\ JobJoinable(c)
  /\ LET done == {cm[c].groupJob : c \in {d \in Called(t) : Completes(d)}}
         mine == IF t \in done THEN ResetJobState(th[t]) ELSE th[t]
         stale == \E i \in DOMAIN mine.head : ~cm[mine.head[i]].joined
         failed == \E c \in Called(t) : cm[c].asyncResult # "success"
         head == FoldLeft(LAMBDA l, x : JoinList(l, x.comm), mine.head, Item(t).calls)
         pre == SelectSeq(head, LAMBDA c : c \in Called(t) /\ CallOf(t, c).connect
                                                        /\ ~cm[c].connected)
         async == pre # <<>> /\ Item(t).calls[1].comm \in Nonblocking
     IN  \/ /\ stale
            /\ th' = [th EXCEPT ![t].pc = "crashed"]
            /\ UNCHANGED <<ex, cm>>
         \/ /\ ~stale /\ failed
            /\ th' = [th EXCEPT ![t] = [ResetJobState(mine) EXCEPT !.k = @ + 1]]
            /\ cm' = [c \in Comms |->
                        IF c \notin Called(t) THEN cm[c]
                        ELSE [cm[c] EXCEPT !.groupJob = IF @ \in done THEN 0 ELSE @,
                                !.asyncResult = IF c \in Nonblocking THEN "error" ELSE @]]
            /\ UNCHANGED ex
         \/ /\ ~stale /\ ~failed
            /\ th' = [th EXCEPT ![t] = [mine EXCEPT !.head = head, !.pre = pre,
                                          !.initialized = TRUE,
                                          !.pc = IF async THEN "idle" ELSE "launching",
                                          !.k = IF async THEN @ + 1 ELSE @]]
            /\ ex' = [ex EXCEPT ![t] = [NoJob EXCEPT !.pc = "start"]]
            /\ cm' = [c \in Comms |->
                        IF c \notin Called(t) THEN cm[c]
                        ELSE [cm[c] EXCEPT !.joined = TRUE, !.frames = @ + 1,
                                !.tasks = CallOf(t, c).plans, !.fail = CallOf(t, c).fail,
                                !.captured = CallOf(t, c).captured,
                                !.asyncResult = IF async THEN "inProgress" ELSE @,
                                !.groupJob = IF async THEN t ELSE 0]]
  /\ UNCHANGED <<ncclParamLaunchMode, bar, fails>>

\* A blocking group returns; a failed one has cleaned up already.
GroupReturn(t) ==
  /\ th[t].pc = "launching" /\ ex[t].pc = "done"
  /\ LET s == IF ex[t].ret = "success" THEN ResetJobState(th[t]) ELSE th[t]
     IN  th' = [th EXCEPT ![t] = [s EXCEPT !.pc = "idle", !.k = @ + 1]]
  /\ UNCHANGED <<ncclParamLaunchMode, ex, cm, bar, fails>>

(***************************************************************************)
(* groupLaunch: jobs.                                                      *)
(***************************************************************************)

Job(c, kind) == [comm |-> c, kind |-> kind, st |-> "running", ok |-> TRUE]

StartJobs(t) ==
  /\ ex[t].pc = "start"
  /\ LET jobs == th[t].jobs \o [i \in DOMAIN th[t].pre |-> Job(th[t].pre[i], "connect")]
     IN  /\ th' = [th EXCEPT ![t].jobs = jobs]
         /\ ex' = [ex EXCEPT ![t].pc = IF jobs = <<>> THEN "clique" ELSE "poll",
                             ![t].rest = th[t].head]
  /\ UNCHANGED <<ncclParamLaunchMode, cm, bar, fails>>

\* Connecting needs all ranks; a job ends early when its flag says so.
CanConnect(c) ==
  \A d \in Siblings(c) :
    \/ cm[d].connected
    \/ \E t \in Threads : \E i \in DOMAIN th[t].jobs :
         /\ ex[t].pc = "poll" /\ th[t].jobs[i].comm = d /\ th[t].jobs[i].kind = "connect"
         /\ th[t].jobs[i].ok

\* ncclAsyncJobMain.
JobMain(t) ==
  /\ ex[t].pc = "poll"
  /\ \E i \in DOMAIN th[t].jobs :
       LET job == th[t].jobs[i]
           end(ok) == th' = [th EXCEPT ![t].jobs[i].st = "done", ![t].jobs[i].ok = ok]
       IN  /\ job.st = "running"
           /\ \/ /\ job.kind = "connect" => CanConnect(job.comm)
                 /\ end(TRUE)
                 /\ cm' = IF job.kind = "connect"
                          THEN [cm EXCEPT ![job.comm].connected = TRUE]
                          ELSE [cm EXCEPT ![job.comm].finalizeCalled = TRUE]
                 /\ UNCHANGED fails
              \/ /\ job.kind = "connect" /\ cm[job.comm].abortFlag
                 /\ end(FALSE) /\ UNCHANGED <<cm, fails>>
              \/ /\ fails < Fails
                 /\ end(FALSE) /\ fails' = fails + 1 /\ UNCHANGED cm
  /\ UNCHANGED <<ncclParamLaunchMode, ex, bar>>

\* One turn of the loop over the jobs.
PollJob(t) ==
  /\ ex[t].pc = "poll"
  /\ LET e == ex[t]
         job == th[t].jobs[e.i]
         failed == job.st = "done" /\ ~job.ok /\ e.ret = "success"
         ret == IF failed THEN "error" ELSE e.ret
         errorJob == e.errorJob \/ failed
         allDone == e.allDone /\ job.st # "running"
     IN  /\ th' = IF job.st = "done" THEN [th EXCEPT ![t].jobs[e.i].st = "joined"] ELSE th
         /\ cm' = IF th[t].abortFlag \/ errorJob
                  THEN [cm EXCEPT ![job.comm].abortFlag = TRUE] ELSE cm
         /\ ex' = [ex EXCEPT ![t] =
                     IF e.i < Len(th[t].jobs)
                     THEN [e EXCEPT !.i = @ + 1, !.ret = ret, !.errorJob = errorJob,
                                    !.allDone = allDone]
                     ELSE [e EXCEPT !.i = 1, !.ret = ret, !.errorJob = errorJob,
                                    !.allDone = TRUE,
                                    !.pc = CASE ~allDone -> "poll"
                                             [] allDone /\ ret = "success" -> "clique"
                                             [] OTHER -> "fail"]]
  /\ UNCHANGED <<ncclParamLaunchMode, bar, fails>>

(***************************************************************************)
(* groupLaunch: doLaunches.                                                *)
(***************************************************************************)

useBarrier == ncclParamLaunchMode = "group"

\* The next communicator, and those after it that are siblings of the first of
\* the whole list: cliqueComm0 does not move on with cliqueHead.
NextClique(t) ==
  /\ ex[t].pc = "clique"
  /\ LET rest == ex[t].rest
         n == Cardinality({i \in DOMAIN rest :
                             \A j \in 2 .. i : Clique[rest[j]] = Clique[th[t].head[1]]})
     IN  ex' = [ex EXCEPT ![t] =
                  IF n = 0 THEN [@ EXCEPT !.pc = "complete"]
                  ELSE [@ EXCEPT !.pc = "prepare", !.cq = SubSeq(rest, 1, n), !.i = 1,
                                 !.rest = SubSeq(rest, n + 1, Len(rest))]]
  /\ UNCHANGED <<ncclParamLaunchMode, th, cm, bar, fails>>

\* ncclCommIntraBarrierIn: the last to come opens the gate for the next phase.
BarrierIn_First(c, phase, x) ==
  [bar[Clique[c]] EXCEPT !.n = 0, !.sum = 0, !.out = x, !.gate = 1 - phase]

BarrierIn(c, phase, x) ==
  LET b == bar[Clique[c]]
  IN  IF b.n + 1 = Cardinality(Siblings(c))
      THEN [b EXCEPT !.n = 0, !.sum = 0, !.out = b.sum + x, !.gate = 1 - phase]
      ELSE [b EXCEPT !.n = @ + 1, !.sum = @ + x]

\* The clique has streams that are captured and streams that are not.
Mixed(cq) == {cm[cq[i]].captured : i \in DOMAIN cq} = BOOLEAN

\* ncclLaunchPrepare: a frame for the works, and the plans; and the barrier.  A
\* mixed clique fails once all of it is prepared.
Prepare(t) ==
  /\ ex[t].pc = "prepare"
  /\ LET e == ex[t]
         c == e.cq[e.i]
     IN  IF cm[c].fail
         THEN /\ ex' = [ex EXCEPT ![t].pc = "fail", ![t].ret = "error"]
              /\ UNCHANGED <<cm, bar>>
         ELSE /\ cm' = [cm EXCEPT ![c].frames = @ + 1, ![c].unlaunched = cm[c].tasks,
                                ![c].launched = 0]
              /\ bar' = IF useBarrier THEN [bar EXCEPT ![Clique[c]] = BarrierIn(c, cm[c].phase, 1)]
                      ELSE bar
              /\ ex' = [ex EXCEPT ![t] =
                          IF e.i < Len(e.cq) THEN [e EXCEPT !.i = @ + 1]
                          ELSE IF Mixed(e.cq) THEN [e EXCEPT !.pc = "fail", !.ret = "error"]
                          ELSE [e EXCEPT !.i = 1, !.pc = "round", !.more = FALSE]]
  /\ UNCHANGED <<ncclParamLaunchMode, th, fails>>

\* What a communicator does in a round: launch its next plan, if it has one,
\* or, in the final round, ncclLaunchFinish.
Launched(s) == [s EXCEPT !.unlaunched = IF @ = 0 THEN 0 ELSE @ - 1,
                         !.launched = IF s.unlaunched = 0 THEN @ ELSE @ + 1]

Finished(s) == [s EXCEPT !.frames = @ - 1, !.tasks = 0]

\* After a round in which some communicator may have had a plan comes another.
EndRound(e, more) ==
  IF e.i < Len(e.cq) THEN [e EXCEPT !.i = @ + 1, !.more = more]
  ELSE IF more THEN [e EXCEPT !.i = 1, !.more = FALSE]
  ELSE [e EXCEPT !.pc = "clique", !.cq = <<>>]

RoundBarrier(t) ==
  /\ ex[t].pc = "round" /\ useBarrier
  /\ LET e == ex[t]
         c == e.cq[e.i]
         b == bar[Clique[c]]
         more == b.out # 0
         s == [cm[c] EXCEPT !.phase = 1 - @]
     IN  /\ b.gate = 1 - cm[c].phase
         /\ ex' = [ex EXCEPT ![t] = EndRound(e, more)]
         /\ IF more
            THEN /\ cm' = [cm EXCEPT ![c] = Launched(s)]
                 /\ bar' = [bar EXCEPT ![Clique[c]] =
                              BarrierIn(c, s.phase, IF Launched(s).unlaunched # 0 THEN 1 ELSE 0)]
            ELSE cm' = [cm EXCEPT ![c] = Finished(s)] /\ UNCHANGED bar
  /\ UNCHANGED <<ncclParamLaunchMode, th, fails>>

RoundParallel(t) ==
  /\ ex[t].pc = "round" /\ ~useBarrier
  /\ LET e == ex[t]
         c == e.cq[e.i]
         more == e.more \/ cm[c].unlaunched # 0
     IN  /\ ex' = [ex EXCEPT ![t] = EndRound(e, more)]
         /\ cm' = [cm EXCEPT ![c] = IF more THEN Launched(@) ELSE Finished(@)]
  /\ UNCHANGED <<ncclParamLaunchMode, th, bar, fails>>

(***************************************************************************)
(* The end of groupLaunch.                                                 *)
(***************************************************************************)

\* Jobs that belong to a communicator tell it their result.
JobComms(t) == {th[t].jobs[i].comm : i \in {j \in DOMAIN th[t].jobs :
                                              th[t].jobs[j].kind # "connect"}}

Complete(t) ==
  /\ ex[t].pc = "complete"
  /\ cm' = [c \in Comms |-> IF c \in JobComms(t) \cap Nonblocking
                            THEN [cm[c] EXCEPT !.asyncResult = "success"] ELSE cm[c]]
  /\ th' = [th EXCEPT ![t].jobs = <<>>]
  /\ ex' = [ex EXCEPT ![t].pc = "leave", ![t].rest = th[t].head]
  /\ UNCHANGED <<ncclParamLaunchMode, bar, fails>>

\* ncclGroupCommLeave, one communicator at a time.
Leave(t) ==
  /\ ex[t].pc = "leave"
  /\ IF ex[t].rest = <<>>
     THEN ex' = [ex EXCEPT ![t].pc = "done"] /\ UNCHANGED cm
     ELSE /\ ex' = [ex EXCEPT ![t].rest = Tail(@)]
          /\ cm' = [cm EXCEPT ![Head(ex[t].rest)] =
                      [@ EXCEPT !.joined = FALSE, !.frames = @ - 1,
                                !.asyncResult = IF Head(ex[t].rest) \in Nonblocking
                                                THEN "success" ELSE @]]
  /\ UNCHANGED <<ncclParamLaunchMode, th, bar, fails>>

groupCleanup(t) ==
  /\ ex[t].pc = "fail"
  /\ LET left == ToSet(th[t].head)
     IN  cm' = [c \in Comms |->
           LET s == IF c \in left
                    THEN [cm[c] EXCEPT !.joined = FALSE, !.frames = @ - 1, !.tasks = 0,
                                       !.unlaunched = 0] ELSE cm[c]
           IN  IF c \in (left \cup JobComms(t)) \cap Nonblocking
               THEN [s EXCEPT !.asyncResult = "error"] ELSE s]
  /\ th' = [th EXCEPT ![t] = [@ EXCEPT !.head = <<>>, !.pre = <<>>, !.jobs = <<>>,
                                       !.abortFlag = FALSE]]
  /\ ex' = [ex EXCEPT ![t] = [NoJob EXCEPT !.pc = "done", !.ret = "error"]]
  /\ UNCHANGED <<ncclParamLaunchMode, bar, fails>>

groupLaunch(t) ==
  \/ StartJobs(t) \/ JobMain(t) \/ PollJob(t) \/ NextClique(t) \/ Prepare(t)
  \/ RoundBarrier(t) \/ RoundParallel(t) \/ Complete(t) \/ Leave(t) \/ groupCleanup(t)

(***************************************************************************)
(* The end of communicators.                                               *)
(***************************************************************************)

\* The group job of c is completed, here or by an abort.
Completed(c) == IF Completes(c)
                THEN [th EXCEPT ![cm[c].groupJob] = ResetJobState(@)] ELSE th

Finalize(t) ==
  /\ Idle(t, "finalize")
  /\ LET c == Item(t).comm
         s == Completed(c)
         async == c \in Nonblocking
     IN  /\ Polled(c) /\ JobJoinable(c)
         /\ cm[c].asyncResult = "success" /\ ~cm[c].finalizeCalled
         /\ th' = [s EXCEPT ![t] = [@ EXCEPT !.jobs = <<Job(c, "finalize")>>,
                                             !.initialized = TRUE,
                                             !.pc = IF async THEN "idle" ELSE "launching",
                                             !.k = IF async THEN @ + 1 ELSE @]]
         /\ ex' = [ex EXCEPT ![t] = [NoJob EXCEPT !.pc = "start"]]
         /\ cm' = [cm EXCEPT ![c].groupJob = IF async THEN t ELSE 0,
                             ![c].asyncResult = IF async THEN "inProgress" ELSE @]
  /\ UNCHANGED <<ncclParamLaunchMode, bar, fails>>

\* ncclCommDestroy of a communicator that has an error returns it.
Destroy(t) ==
  /\ Idle(t, "destroy")
  /\ LET c == Item(t).comm
         s == Completed(c)
     IN  /\ Polled(c) /\ JobJoinable(c)
         /\ IF cm[c].asyncResult # "success" /\ ~cm[c].abortFlag
            THEN th' = [th EXCEPT ![t].k = @ + 1] /\ UNCHANGED cm
            ELSE /\ th' = [s EXCEPT ![t].pc = "reclaim"]
                 /\ cm' = [cm EXCEPT ![c].groupJob = 0]
  /\ UNCHANGED <<ncclParamLaunchMode, ex, bar, fails>>

\* ncclCommAbort sets the flag of the communicator and the one of its group job,
\* and waits for the job.
Abort(t) ==
  /\ Idle(t, "abort")
  /\ LET c == Item(t).comm
         s == IF Completes(c) THEN [th EXCEPT ![cm[c].groupJob].abortFlag = TRUE] ELSE th
     IN  /\ th' = [s EXCEPT ![t].pc = "aborting"]
         /\ cm' = [cm EXCEPT ![c].abortFlag = TRUE]
  /\ UNCHANGED <<ncclParamLaunchMode, ex, bar, fails>>

AbortJoin(t) ==
  /\ th[t].pc = "aborting" /\ JobJoinable(Item(t).comm)
  /\ LET s == Completed(Item(t).comm) IN th' = [s EXCEPT ![t].pc = "reclaim"]
  /\ UNCHANGED <<ncclParamLaunchMode, ex, cm, bar, fails>>

\* commReclaim finalizes a communicator that was not, and counts; the last of
\* the siblings frees them all.
commReclaim(t) ==
  /\ th[t].pc = "reclaim"
  /\ LET c == Item(t).comm
         n == bar[Clique[c]].finalizeRankCnt + 1
         last == n = Cardinality(Siblings(c))
     IN  /\ bar' = [bar EXCEPT ![Clique[c]].finalizeRankCnt = n]
         /\ cm' = IF cm[c].asyncResult = "success" /\ ~cm[c].abortFlag
                  THEN [cm EXCEPT ![c].finalizeCalled = TRUE] ELSE cm
         /\ th' = [th EXCEPT ![t].pc = IF last THEN "free" ELSE "idle",
                             ![t].k = IF last THEN @ ELSE @ + 1]
  /\ UNCHANGED <<ncclParamLaunchMode, ex, fails>>

FreeSiblings(t) ==
  /\ th[t].pc = "free"
  /\ cm' = [c \in Comms |-> IF c \in Siblings(Item(t).comm)
                            THEN [cm[c] EXCEPT !.finalizeCalled = TRUE, !.freed = TRUE]
                            ELSE cm[c]]
  /\ th' = [th EXCEPT ![t].pc = "idle", ![t].k = @ + 1]
  /\ UNCHANGED <<ncclParamLaunchMode, ex, bar, fails>>

AppStep(t) == \/ GroupCall(t) \/ GroupReturn(t) \/ Finalize(t) \/ Destroy(t) \/ Abort(t)
              \/ AbortJoin(t) \/ commReclaim(t) \/ FreeSiblings(t)

Next == \E t \in Threads : AppStep(t) \/ groupLaunch(t)

Spec == Init /\ [][Next]_vars

(***************************************************************************)
(* Properties.                                                             *)
(***************************************************************************)

\* The scoped memory of a communicator holds one frame while it is in a group
\* and one more from ncclLaunchPrepare to ncclLaunchFinish; no path pops a
\* frame that was not pushed, and what a thread's list names is in the group.
FramesBalanced ==
  /\ \A c \in Comms : cm[c].frames >= (IF cm[c].joined THEN 1 ELSE 0)
  /\ \A t \in Threads : th[t].pc # "crashed"

\* When no group fails after ncclLaunchPrepare, a communicator that has left its
\* group holds no frame.
FramesReturned == \A c \in Comms : ~cm[c].joined => cm[c].frames = 0

\* With launch mode GROUP, of two siblings that still have plans of a group to
\* launch neither is two kernels ahead of the other.
LockStep ==
  useBarrier => \A c, d \in Comms :
    Clique[c] = Clique[d] /\ cm[c].unlaunched > 0 /\ cm[d].unlaunched > 0
      => cm[c].launched <= cm[d].launched + 1

\* A communicator is freed only when every sibling was given up and no group
\* still works on one of them.
FreedLast ==
  \A c \in Comms : cm[c].freed =>
    /\ bar[Clique[c]].finalizeRankCnt = Cardinality(Siblings(c))
    /\ \A t \in Threads : ex[t].pc \notin {"none", "done"} =>
         /\ c \notin ToSet(th[t].head)
         /\ \A i \in DOMAIN th[t].jobs : th[t].jobs[i].comm # c

\* Every thread gets to the end of what it does.
GroupsDone == \A t \in Threads : th[t].pc = "idle" /\ th[t].k > Len(Script[t])
=============================================================================
