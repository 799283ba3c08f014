----------------------------- MODULE SafeAdapter -----------------------------
(***************************************************************************)
(* The two adapters of src/ormpp/asio_async_simple_adapter.hpp: one        *)
(* co_await of an Asio coroutine by an async_simple coroutine (the         *)
(* parent), from the construction of the awaiter to its end.               *)
(* SafeAsioAwaitableAdapter keeps a SharedState and works on a strand;     *)
(* AsioAwaitableAdapter (light) keeps everything in the awaiter, in the    *)
(* frame of the parent, and leaves it to the program not to destroy a      *)
(* parent that waits.                                                      *)
(*                                                                         *)
(* Three kinds of thread take part: those that run the strand, the one     *)
(* that runs the parent and may destroy it while it is suspended, and the  *)
(* async_simple executor.  Handlers of the strand run one at a time and in *)
(* the order they were posted.  Where a thread tests a flag and then acts  *)
(* on the answer, the test and the act are two steps; a program in which   *)
(* all three are one thread has the behaviours where nothing comes between *)
(* them.  asio::post(), co_spawn() and schedule() may throw.               *)
(***************************************************************************)
EXTENDS Naturals, Sequences

CONSTANT MaxCancels   \* bound on the calls of cancellation_handle::cancel

ASSUME AdapterAssumption == MaxCancels \in Nat

VARIABLES
  light,      \* the parent awaits through AsioAwaitableAdapter
  parent,     \* the parent coroutine and the awaiter in its frame
  strand,     \* handlers posted to the strand, or to the executor of the light one
  running,    \* what the strand's current handler does next, between test and
              \* act; "crashed" when the process has ended
  task,       \* the resumption scheduled on the async_simple executor
  work,       \* the spawned Asio coroutine
  await_started, abandoned, resume_observed, finished,
  result,     \* result holds a value
  exception,  \* exception is set
  pending_cancellation,
  emitted,    \* the signal was emitted while the coroutine's slot was connected
  cancels,    \* calls of cancel() so far
  resumes,    \* handle.resume() calls so far
  dead_resume,\* handle.resume() was called on a frame being, or been, destroyed
  cut_in,     \* the parent was abandoned between the test and the resumption
  unsent      \* the cancellation of an abandoned operation could not be posted

atomics == <<await_started, abandoned, resume_observed, finished>>
outcome == <<result, exception>>
signal == <<pending_cancellation, emitted, cancels>>
observed == <<resumes, dead_resume, cut_in, unsent>>
adapterVars ==
  <<light, parent, strand, running, task, work, atomics, outcome, signal, observed>>

AdapterInit ==
  /\ light \in BOOLEAN
  /\ parent = "built"
  /\ strand = <<>>
  /\ running = "none" /\ task = "none" /\ work = "none"
  /\ await_started = FALSE /\ abandoned = FALSE
  /\ resume_observed = FALSE /\ finished = FALSE
  /\ result = FALSE /\ exception = FALSE
  /\ pending_cancellation = FALSE /\ emitted = FALSE /\ cancels = 0
  /\ resumes = 0 /\ dead_resume = FALSE /\ cut_in = FALSE /\ unsent = FALSE

-----------------------------------------------------------------------------
Posted(handler) == \E k \in 1..Len(strand) : strand[k] = handler

\* resume_handle is set in every state in which this is asked.
should_resume == ~abandoned /\ ~resume_observed

\* Someone still owns the SharedState, so that weak_ptr::lock() succeeds.
StateAlive == \/ parent \notin {"over", "destroyed"}
              \/ strand # <<>> \/ running # "none" \/ task \in {"scheduled", "checked"}
              \/ work = "running"

(***************************************************************************)
(* The parent: await_suspend(), await_resume(), and the destructor of the  *)
(* awaiter, which runs when the owner destroys the parent's frame.         *)
(***************************************************************************)
AwaitSuspend ==
  /\ parent = "built"
  /\ await_started' = TRUE
  /\ parent' = "suspending"
  /\ UNCHANGED <<strand, running, task, work, abandoned, resume_observed, finished,
                 outcome, signal, observed>>

SuspendPosts ==
  /\ parent = "suspending"
  /\ strand' = Append(strand, "start")
  /\ parent' = "suspended"
  /\ UNCHANGED <<running, task, work, atomics, outcome, signal, observed>>

\* post() throws: await_suspend() returns false and the parent goes on.
SuspendFails ==
  /\ parent = "suspending"
  /\ exception' = TRUE
  /\ finished' = TRUE
  /\ parent' = "resumed"
  /\ UNCHANGED <<strand, running, task, work, await_started, abandoned,
                 resume_observed, result, signal, observed>>

ResumeUnobserved ==
  /\ parent = "resumed"
  /\ result' = FALSE
  /\ parent' = "over"
  /\ UNCHANGED <<strand, running, task, work, atomics, exception, signal, observed>>

\* await_resume() and the destructor that follows it, which finds
\* resume_observed set.
AwaitResume ==
  /\ parent = "resumed"
  /\ resume_observed' = TRUE
  /\ result' = FALSE
  /\ parent' = "over"
  /\ UNCHANGED <<strand, running, task, work, await_started, abandoned, finished,
                 exception, signal, observed>>

\* The owner destroys a parent that has not awaited yet or is suspended; only
\* then is destroying a coroutine allowed.
Abandon ==
  /\ parent \in {"built", "suspended"}
  /\ abandoned' = TRUE
  /\ parent' = "abandoning"
  /\ cut_in' = (running = "resume" \/ task = "checked")
  /\ UNCHANGED <<strand, running, task, work, await_started, resume_observed,
                 finished, outcome, signal, resumes, dead_resume, unsent>>

\* A started await is cancelled; a failed post() is ignored.
AbandonCancels ==
  IF await_started /\ ~resume_observed
    THEN \/ strand' = Append(strand, "cancel") /\ UNCHANGED unsent
         \/ unsent' = TRUE /\ UNCHANGED strand
    ELSE UNCHANGED <<strand, unsent>>

AbandonEnds ==
  /\ parent = "abandoning"
  /\ AbandonCancels
  /\ parent' = "destroyed"
  /\ UNCHANGED <<running, task, work, atomics, outcome, signal, resumes, dead_resume,
                 cut_in>>

\* cancel(), through the awaiter or a cancellation_handle, from any thread.
Cancel ==
  /\ cancels < MaxCancels
  /\ StateAlive
  /\ ~resume_observed
  /\ cancels' = cancels + 1
  /\ strand' = Append(strand, "cancel")
  /\ UNCHANGED <<parent, running, task, work, atomics, outcome, pending_cancellation,
                 emitted, observed>>

-----------------------------------------------------------------------------
(* Handlers of the strand.                                                 *)

Handles(handler) ==
  /\ running = "none"
  /\ strand # <<>>
  /\ Head(strand) = handler

\* start_asio() reads abandoned ...
Start ==
  /\ Handles("start")
  /\ strand' = Tail(strand)
  /\ running' = IF abandoned THEN "none" ELSE "spawn"
  /\ UNCHANGED <<parent, task, work, atomics, outcome, signal, observed>>

NotReemitted == FALSE

\* A cancellation recorded before the slot existed is emitted again.
Reemitted == pending_cancellation

\* ... and spawns run_asio(),
Spawn ==
  /\ running = "spawn"
  /\ work' = "running"
  /\ emitted' = Reemitted
  /\ running' = "none"
  /\ UNCHANGED <<parent, strand, task, atomics, outcome, pending_cancellation, cancels,
                 observed>>

SpawnLost(handlers) == UNCHANGED strand /\ running' = "none"

\* post_resume().  The handler takes the only pointer the function holds before
\* post() is called: when that throws, the catch block goes through a null
\* pointer.
PostResume(handlers) ==
  \/ strand' = Append(handlers, "resume") /\ running' = "none"
  \/ strand' = handlers /\ running' = "crashed"

\* or fails to, and resumes the parent with the exception.
SpawnFails ==
  /\ running = "spawn"
  /\ exception' = TRUE
  /\ finished' = TRUE
  /\ PostResume(strand)
  /\ UNCHANGED <<parent, task, work, await_started, abandoned, resume_observed, result,
                 signal, observed>>

ErrorForgotten(ok) == result' = ok /\ UNCHANGED exception

\* run_asio() keeps the value or the exception of the awaited operation.
Keep(ok) == result' = ok /\ exception' = ~ok

\* The last segment of run_asio(), on the strand; its completion handler
\* complete_asio() is posted there.
WorkEnds ==
  /\ running = "none"
  /\ work = "running"
  /\ \E ok \in BOOLEAN : Keep(ok)
  /\ finished' = TRUE
  /\ work' = "ended"
  /\ strand' = Append(strand, "complete")
  /\ UNCHANGED <<parent, running, task, await_started, abandoned, resume_observed,
                 signal, observed>>

\* complete_asio(); the operation has left a value or an exception.
Complete ==
  /\ Handles("complete")
  /\ PostResume(Tail(strand))
  /\ UNCHANGED <<parent, task, work, atomics, outcome, signal, observed>>

ScheduleAndResume ==
  \/ task' = "scheduled" /\ running' = "resume" /\ UNCHANGED exception
  \/ running' = "resume" /\ UNCHANGED <<task, exception>>

\* The executor accepts the resumption, refuses it, or throws; in the last two
\* cases, and without an executor, the strand's thread resumes the parent.
ScheduleOrResume ==
  \/ task' = "scheduled" /\ UNCHANGED <<running, exception>>
  \/ running' = "resume" /\ UNCHANGED task /\ exception' \in {exception, TRUE}

\* resume_parent(), up to the call of handle.resume().
ResumeParent ==
  /\ Handles("resume")
  /\ strand' = Tail(strand)
  /\ IF should_resume THEN ScheduleOrResume
                      ELSE UNCHANGED <<running, task, exception>>
  /\ UNCHANGED <<parent, work, atomics, result, signal, observed>>

CancelHandler ==
  /\ Handles("cancel")
  /\ strand' = Tail(strand)
  /\ IF finished \/ resume_observed
       THEN UNCHANGED <<pending_cancellation, emitted>>
       ELSE /\ pending_cancellation' = TRUE
            /\ emitted' = (emitted \/ work = "running")
  /\ UNCHANGED <<parent, running, task, work, atomics, outcome, cancels, observed>>

-----------------------------------------------------------------------------
(* The task on the async_simple executor asks once more.                   *)

TaskChecks ==
  /\ task = "scheduled"
  /\ task' = IF should_resume THEN "checked" ELSE "dropped"
  /\ UNCHANGED <<parent, strand, running, work, atomics, outcome, signal, observed>>

(* handle.resume(), on the strand or on the executor.                      *)

Resume ==
  /\ resumes' = resumes + 1
  /\ parent' = IF parent = "suspended" THEN "resumed" ELSE parent
  /\ dead_resume' = (dead_resume \/ parent \in {"abandoning", "destroyed"})
  /\ UNCHANGED <<cut_in, unsent>>

StrandResumes ==
  /\ running = "resume"
  /\ running' = "none"
  /\ Resume
  /\ UNCHANGED <<strand, task, work, atomics, outcome, signal>>

TaskResumes ==
  /\ task = "checked"
  /\ task' = "ended"
  /\ Resume
  /\ UNCHANGED <<strand, running, work, atomics, outcome, signal>>

-----------------------------------------------------------------------------
(***************************************************************************)
(* The light adapter.  Its executor runs the handlers in the order they    *)
(* were posted, and the parent resumes inside the handler.                 *)
(***************************************************************************)
LightSuspend ==
  /\ parent = "built"
  /\ \/ strand' = Append(strand, "start") /\ parent' = "suspended" /\ UNCHANGED exception
     \/ exception' = TRUE /\ parent' = "resumed" /\ UNCHANGED strand
  /\ UNCHANGED <<running, task, work, atomics, result, signal, observed>>

LightAwaitResume ==
  /\ parent = "resumed"
  /\ result' = FALSE
  /\ parent' = "over"
  /\ UNCHANGED <<strand, running, task, work, atomics, exception, signal, observed>>

\* post_resume() posts the resumption, or resumes the parent itself and leaves
\* it the exception of post() when there is no other.
LightPostResume(handlers, failed) ==
  \/ strand' = Append(handlers, "resume") /\ running' = "none" /\ exception' = failed
  \/ strand' = handlers /\ running' = "resume" /\ exception' = TRUE

\* start_asio()
LightStart ==
  /\ Handles("start")
  /\ \/ /\ work' = "running"
        /\ strand' = Tail(strand)
        /\ UNCHANGED <<running, exception>>
     \/ LightPostResume(Tail(strand), TRUE) /\ UNCHANGED work
  /\ UNCHANGED <<parent, task, atomics, result, signal, observed>>

\* The last segment of run_asio().
LightWorkEnds ==
  /\ running = "none"
  /\ work = "running"
  /\ work' = "ended"
  /\ \E ok \in BOOLEAN : result' = ok /\ LightPostResume(strand, ~ok)
  /\ UNCHANGED <<parent, task, atomics, signal, observed>>

LightResumes ==
  /\ Handles("resume")
  /\ strand' = Tail(strand)
  /\ running' = "resume"
  /\ UNCHANGED <<parent, task, work, atomics, outcome, signal, observed>>

-----------------------------------------------------------------------------
ParentStep == IF light THEN LightSuspend \/ LightAwaitResume
              ELSE AwaitSuspend \/ SuspendPosts \/ SuspendFails \/ AwaitResume \/ AbandonEnds

Handler == IF light THEN LightStart \/ LightResumes \/ StrandResumes
           ELSE \/ Start \/ Spawn \/ SpawnFails \/ Complete
                \/ ResumeParent \/ CancelHandler \/ StrandResumes

OperationEnds == IF light THEN LightWorkEnds ELSE WorkEnds

OwnerActs == ~light /\ (Abandon \/ Cancel)

TaskStep == TaskChecks \/ TaskResumes

Crashed == running = "crashed"

\* Everything has run and the SharedState is gone, or the process has crashed.
Terminated == (Crashed \/ ~StateAlive) /\ UNCHANGED adapterVars

AdapterNext ==
  \/ /\ ~Crashed
     /\ ParentStep \/ OwnerActs \/ Handler \/ OperationEnds \/ TaskStep
     /\ UNCHANGED light
  \/ Terminated

AdapterSpec == AdapterInit /\ [][AdapterNext]_adapterVars

Going(step) == step /\ UNCHANGED light

\* The threads go on, and the awaited operation ends; no one has to cancel or
\* to destroy the parent.
FairAdapterSpec ==
  /\ AdapterSpec
  /\ WF_adapterVars(Going(ParentStep))
  /\ WF_adapterVars(Going(Handler))
  /\ WF_adapterVars(Going(OperationEnds))
  /\ WF_adapterVars(Going(TaskStep))

-----------------------------------------------------------------------------
(* Properties                                                              *)

Places == {"built", "suspending", "suspended", "resumed", "over", "abandoning",
           "destroyed"}

\* Types; and the three atomic flags, which are all that the threads share,
\* tell where the parent is (await_suspend(), await_resume() and abandon()
\* store them).
AdapterTypeOK ==
  /\ light \in BOOLEAN
  /\ parent \in Places
  /\ strand \in Seq({"start", "complete", "resume", "cancel"})
  /\ running \in {"none", "spawn", "resume", "crashed"}
  /\ task \in {"none", "scheduled", "checked", "dropped", "ended"}
  /\ work \in {"none", "running", "ended"}
  /\ {await_started, abandoned, resume_observed, finished, result, exception,
      pending_cancellation, emitted, dead_resume, cut_in, unsent} \subseteq BOOLEAN
  /\ cancels \in 0..MaxCancels
  /\ resumes \in Nat
  /\ abandoned <=> parent \in {"abandoning", "destroyed"}
  /\ resume_observed <=> parent = "over" /\ ~light
  /\ await_started => ~light
  /\ parent \in {"suspending", "suspended"} => await_started \/ light

\* handle.resume() is called at most once for one await, by whichever of the
\* strand and the executor; and for a parent that its owner destroys only when
\* that began between should_resume() and handle.resume(): what was posted or
\* scheduled before finds out that the parent is gone.
ResumedAtMostOnce == resumes <= 1 /\ (dead_resume => cut_in)

\* When the parent goes on, await_resume() finds a value or an exception: the
\* error "missing safe asio result" is never the answer.
ResumeFindsOutcome == parent = "resumed" => result \/ exception

\* A cancellation that was requested before the coroutine was spawned reaches
\* it, as one does that is requested while it runs; and the operation of a
\* destroyed parent does not go on unnoticed: its cancellation was emitted, is
\* on its way, or could not be posted.
CancellationNotLost ==
  work = "running" =>
    /\ pending_cancellation => emitted
    /\ parent = "destroyed" => emitted \/ Posted("cancel") \/ unsent

\* A parent that waits is resumed, unless its owner destroys it first or the
\* process ends.
EventuallyResumed ==
  parent = "suspended" ~> parent \in {"resumed", "destroyed"} \/ Crashed

\* The safe adapter never resumes a parent that its owner destroys.
DestroyedNeverResumed == ~dead_resume
=============================================================================
