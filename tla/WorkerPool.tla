----------------------------- MODULE WorkerPool -----------------------------
(* The coordinator of the simulation workers: PersistentWorkerPool of        *)
(* tools/m4/benchmark.py, with the worker processes it drives and the        *)
(* threads that read their standard output.                                  *)
(*                                                                           *)
(* Three kinds of process take turns freely.  A worker process writes lines  *)
(* to its pipe and may exit at any moment.  Its reader thread collects the   *)
(* lines that are there into a batch and puts them, one by one, on the       *)
(* queue of that worker.  The coordinator gives jobs to the workers, takes   *)
(* events off the queues, decides which of them become result rows, reaps    *)
(* and replaces the workers that fail, and gives the whole run up when it    *)
(* must.  Between two steps of the coordinator anything may happen in the    *)
(* workers and readers: in particular between looking at a queue or polling  *)
(* a process and acting on what was found.                                   *)
(*                                                                           *)
(* The workers of a pool are interchangeable, and the caller decides the     *)
(* order of the jobs, so the coordinator picks any of them where the code    *)
(* goes by index.  Time is the freedom of a deadline to pass at any step.    *)
EXTENDS Naturals, Sequences, FiniteSets

CONSTANTS Pools,           \* what a pool may be made of: see PoolAssumption
          NoJob, NoWorker

ASSUME PoolAssumption ==
    \A p \in Pools :
        /\ NoWorker \notin p.workers  \* its worker slots
        /\ NoJob \notin p.jobs        \* the jobs its caller gives to every run
        /\ p.runs \in Nat            \* bound: calls of run() followed
        /\ p.extra \in Nat           \* bound: lines beyond one answer to each job

VARIABLES
    process,  \* the child of each slot: its state, its pipe, the jobs given to it and those due
    extra,    \* how many lines no job was due for have been written
    reader,   \* _read_stdout of each slot: where it is and the events it still holds
    queue,    \* state.events
    slot,     \* the coordinator's _WorkerState
    pc,       \* where the coordinator is
    cur,      \* the worker it is busy with
    after,    \* where it goes on once that worker is reaped
    line,     \* the line it is handling (event payload, then staged_result)
    drained,  \* what _queued_failure_event has taken off the queue and will put back
    why,      \* what the examination of the queue is for
    seeds,    \* workers the first round of dispatches has not come to
    todo,     \* dispatchable_jobs from next_index on
    rows,     \* _results
    failure,  \* _run_integrity_failure is not None
    crashes,  \* last_run_metadata["worker_crashes"]
    restarts, \* last_run_metadata["worker_restarts"]
    primary,  \* require_primary_integrity of the running call
    life,     \* restart_workers, _started, _closed, (negated) _unusable, and the pool
    run,      \* how many calls of run() were accepted
    outcome   \* how the last call of run() ended

workerVars == <<process, extra, reader, queue>>
focusVars == <<cur, after, line, drained, why, seeds>>
bookVars == <<todo, rows, failure, crashes, restarts>>
callVars == <<primary, life, run, outcome>>
vars == <<workerVars, slot, pc, focusVars, bookVars, callVars>>

-----------------------------------------------------------------------------
(* The data                                                                  *)

Workers == life.pool.workers
Jobs == life.pool.jobs

(* What is written to a pipe or put on a queue.  A "result" line names the   *)
(* job it answers; which run had given the job is not on the line, and is    *)
(* kept here only to state properties.  "other" is any line that decodes but *)
(* is not a valid result of this worker, "garbled" one that is not UTF-8.    *)
Results == [kind : {"result"}, job : Jobs, run : 1..life.pool.runs]
Plain(k) == [kind |-> k, job |-> NoJob, run |-> 0]
Other == Plain("other")
Garbled == Plain("garbled")
Eof == Plain("eof")
ReaderError == Plain("reader_error")
NoLine == Plain("none")

Lines == Results \cup {Other}
Events == Lines \cup {Eof, ReaderError}
IsFailure(e) == e.kind \in {"eof", "reader_error"}

NewProcess == [state |-> "running", pipe |-> <<>>, given |-> {}, due |-> {}]
NoProcess == [NewProcess EXCEPT !.state = "none"]
Processes == [state : {"none", "running", "exited"}, pipe : Seq(Lines \cup {Garbled}),
              given : SUBSET Results, due : SUBSET Results]

NewReader == [at |-> "reading", held |-> <<>>]
NoReader == [NewReader EXCEPT !.at = "done"]
Readers == [at : {"reading", "draining", "publishing", "finishing", "done"},
            held : Seq(Events)]

(* "reaped" stands for reaped without a cleanup_error.                       *)
NewSlot == [alive |-> TRUE, reaped |-> FALSE, flight |-> NoJob, published |-> NoJob]
RetiredSlot(reaped) == [NewSlot EXCEPT !.alive = ~reaped, !.reaped = reaped]
Slots == [alive : BOOLEAN, reaped : BOOLEAN, flight : Jobs \cup {NoJob},
          published : Jobs \cup {NoJob}]

NoRow == [status |-> "none", run |-> 0]
InvalidRow == [status |-> "invalid", run |-> 0]
FailedRow == [status |-> "failed", run |-> 0]
CompletedRow(l) == [status |-> "completed", run |-> l.run]
Rows == [status : {"none", "invalid", "failed", "completed"}, run : 0..life.pool.runs]

Alive == {w \in Workers : slot[w].alive}
Outstanding == {w \in Alive : slot[w].flight # NoJob}
Exited(w) == process[w].state = "exited"

NoFocus == /\ cur' = NoWorker /\ after' = "none" /\ line' = NoLine
           /\ drained' = <<>> /\ why' = "none" /\ seeds' = {}

PoolInit ==
    /\ \E restarting \in BOOLEAN, p \in Pools :
          life = [started |-> FALSE, closed |-> FALSE, usable |-> TRUE,
                  restarting |-> restarting, pool |-> p]
    /\ process = [w \in Workers |-> NoProcess]
    /\ extra = 0 /\ reader = [w \in Workers |-> NoReader]
    /\ queue = [w \in Workers |-> <<>>]
    /\ slot = [w \in Workers |-> RetiredSlot(TRUE)]
    /\ pc = "idle" /\ cur = NoWorker /\ after = "none" /\ line = NoLine
    /\ drained = <<>> /\ why = "none" /\ seeds = {}
    /\ todo = {} /\ rows = [j \in Jobs |-> NoRow] /\ failure = FALSE
    /\ crashes = 0 /\ restarts = 0 /\ primary = FALSE /\ run = 0 /\ outcome = "none"

-----------------------------------------------------------------------------
(* The worker process and its reader                                         *)

(* A worker answers a job it was given; it may leave that undone, answer a   *)
(* second time, or write something else.                                     *)
Answers(w) ==
    /\ process[w].state = "running"
    /\ \E l \in process[w].due :
          process' = [process EXCEPT ![w].pipe = Append(@, l), ![w].due = @ \ {l}]
    /\ UNCHANGED <<extra, reader, queue, slot, pc, focusVars, bookVars, callVars>>

Babbles(w) ==
    /\ process[w].state = "running" /\ extra < life.pool.extra
    /\ \E l \in (process[w].given \ process[w].due) \cup {Other, Garbled} :
          process' = [process EXCEPT ![w].pipe = Append(@, l)]
    /\ extra' = extra + 1
    /\ UNCHANGED <<reader, queue, slot, pc, focusVars, bookVars, callVars>>

Exits(w) ==
    /\ process[w].state = "running"
    /\ process' = [process EXCEPT ![w].state = "exited"]
    /\ UNCHANGED <<extra, reader, queue, slot, pc, focusVars, bookVars, callVars>>

(* readline() with a line in the pipe: the first of a batch, or one more     *)
(* because the pipe still shows data.  An undecodable line ends the reader,  *)
(* and the batch it belongs to is lost with it.                              *)
ReadsLine(w) ==
    /\ reader[w].at \in {"reading", "draining"} /\ process[w].pipe # <<>>
    /\ LET l == Head(process[w].pipe) IN
       reader' = [reader EXCEPT ![w] =
           IF l = Garbled
           THEN [at |-> "finishing", held |-> <<ReaderError, Eof>>]
           ELSE [at |-> "draining", held |-> Append(@.held, l)]]
    /\ process' = [process EXCEPT ![w].pipe = Tail(@)]
    /\ UNCHANGED <<extra, queue, slot, pc, focusVars, bookVars, callVars>>

(* _stdout_pending_status reports no more data.  At the end of the pipe that *)
(* is what PeekNamedPipe says; select() says "data", and the next readline() *)
(* meets the end of file inside the batch.                                   *)
StopsDraining(w) ==
    /\ reader[w].at = "draining" /\ process[w].pipe = <<>>
    /\ reader' = [reader EXCEPT ![w].at = "publishing"]
    /\ UNCHANGED <<extra, process, queue, slot, pc, focusVars, bookVars, callVars>>

MeetsEofInBatch(w) ==
    /\ reader[w].at = "draining" /\ process[w].pipe = <<>> /\ Exited(w)
    /\ reader' = [reader EXCEPT ![w] = [at |-> "finishing", held |-> <<Eof>> \o @.held]]
    /\ UNCHANGED <<extra, process, queue, slot, pc, focusVars, bookVars, callVars>>

(* The end of file where a batch would begin ends the reader without a word: *)
(* the finally clause puts an "eof" only when none was observed.             *)
MeetsEof(w) ==
    /\ reader[w].at = "reading" /\ process[w].pipe = <<>> /\ Exited(w)
    /\ reader' = [reader EXCEPT ![w].at = "done"]
    /\ UNCHANGED <<extra, process, queue, slot, pc, focusVars, bookVars, callVars>>

(* state.events.put of the next held event                                   *)
Puts(w) ==
    /\ reader[w].at \in {"publishing", "finishing"}
    /\ queue' = [queue EXCEPT ![w] = Append(@, Head(reader[w].held))]
    /\ reader' = [reader EXCEPT ![w] =
           [at |-> IF Tail(@.held) # <<>> THEN @.at
                   ELSE IF @.at = "publishing" THEN "reading" ELSE "done",
            held |-> Tail(@.held)]]
    /\ UNCHANGED <<extra, process, slot, pc, focusVars, bookVars, callVars>>

ReaderStep(w) ==
    ReadsLine(w) \/ StopsDraining(w) \/ MeetsEofInBatch(w) \/ MeetsEof(w) \/ Puts(w)

-----------------------------------------------------------------------------
(* Failing one worker, and failing the run                                   *)

(* _worker_failed up to the shutdown: the job concerned gets a failed row,   *)
(* whatever row it had, and the worker is to be reaped before the            *)
(* coordinator goes on at "next".                                            *)
Fails(w, crashed, job, next) ==
    /\ failure' = TRUE
    /\ rows' = IF job = NoJob THEN rows ELSE [rows EXCEPT ![job] = FailedRow]
    /\ crashes' = IF crashed THEN crashes + 1 ELSE crashes
    /\ slot' = [slot EXCEPT ![w].flight = NoJob, ![w].published = NoJob]
    /\ pc' = "reaping" /\ cur' = w /\ after' = next
    /\ line' = NoLine /\ drained' = <<>> /\ why' = "none"
    /\ UNCHANGED restarts

(* What _shutdown_state leaves when nobody looks at the worker again: the    *)
(* processes in "stuck" could not be terminated.                             *)
ShutsDown(stuck) ==
    /\ process' = [w \in Workers |->
           IF process[w].state = "running" /\ w \notin stuck
           THEN [process[w] EXCEPT !.state = "exited"] ELSE process[w]]
    /\ slot' = [w \in Workers |-> RetiredSlot(w \notin stuck)]
Running == {w \in Workers : process[w].state = "running"}

(* _fail_closed, and the exception that leaves run()                         *)
FailsClosed ==
    /\ rows' = [j \in Jobs |->
           IF \E w \in Workers : slot[w].flight = j THEN FailedRow ELSE rows[j]]
    /\ \E stuck \in SUBSET Running : ShutsDown(stuck)
    /\ life' = [life EXCEPT !.usable = FALSE]
    /\ outcome' = "raised" /\ pc' = "idle" /\ todo' = {} /\ NoFocus
    /\ UNCHANGED <<extra, reader, queue, failure, run, primary>>

(* _shutdown_state of the failed worker: terminate, wait, join the reader.   *)
(* Termination that is not confirmed, a reader that does not end in time or  *)
(* a pipe that does not close gives the run up.                              *)
Terminates ==
    /\ pc = "reaping" /\ process[cur].state = "running"
    /\ process' = [process EXCEPT ![cur].state = "exited"]
    /\ UNCHANGED <<extra, reader, queue, slot, pc, focusVars, bookVars, callVars>>

IsReaped ==
    /\ pc = "reaping" /\ Exited(cur) /\ reader[cur].at = "done"
    /\ slot' = [slot EXCEPT ![cur] = RetiredSlot(TRUE)]
    /\ pc' = after /\ after' = "none"
    /\ cur' = IF after = "assigning" THEN cur ELSE NoWorker
    /\ UNCHANGED <<workerVars, line, drained, why, seeds, bookVars, callVars>>

CannotBeReaped ==
    /\ pc = "reaping" /\ FailsClosed /\ UNCHANGED <<crashes, restarts>>

-----------------------------------------------------------------------------
(* The calls: start(), run() up to the first dispatch, close()               *)

CallsStart ==
    /\ pc = "idle" /\ ~life.started /\ ~life.closed
    /\ pc' = "starting" /\ after' = "idle"
    /\ UNCHANGED <<workerVars, slot, cur, line, drained, why, seeds, bookVars, callVars>>

(* The guard of run(): a pool that was given up accepts nothing any more.    *)
CallsUnusable ==
    /\ pc = "idle" /\ ~life.usable
    /\ outcome' = "refused"
    /\ UNCHANGED <<workerVars, slot, pc, focusVars, bookVars, primary, life, run>>

CallsRun ==
    /\ pc = "idle" /\ life.usable /\ run < life.pool.runs
    /\ run' = run + 1 /\ primary' \in BOOLEAN
    /\ failure' = FALSE /\ outcome' = "running"
    /\ IF life.started THEN pc' = "calling" /\ UNCHANGED after
                       ELSE pc' = "starting" /\ after' = "calling"
    /\ UNCHANGED <<workerVars, slot, cur, line, drained, why, seeds, todo, rows, crashes,
                   restarts, life>>

(* Every worker is launched and passes its handshake; whatever it does next, *)
(* it does as a started worker.                                              *)
Launches ==
    /\ pc = "starting" /\ ~life.closed
    /\ process' = [w \in Workers |-> NewProcess]
    /\ reader' = [w \in Workers |-> NewReader]
    /\ queue' = [w \in Workers |-> <<>>]
    /\ slot' = [w \in Workers |-> NewSlot]
    /\ life' = [life EXCEPT !.started = TRUE]
    /\ crashes' = 0 /\ restarts' = 0
    /\ pc' = after /\ after' = "none"
    /\ UNCHANGED <<extra, cur, line, drained, why, seeds, todo, rows, failure, primary, run,
                   outcome>>

(* A launch or a handshake fails: start() shuts down all the workers it had  *)
(* launched and raises; inside run() that gives the pool up.                 *)
CannotLaunch ==
    /\ pc = "starting" /\ ~life.closed
    /\ crashes' \in {0, 1} /\ restarts' = 0
    /\ \E stuck \in SUBSET Workers :
          /\ process' = [w \in Workers |-> IF w \in stuck THEN NewProcess ELSE NoProcess]
          /\ reader' = [w \in Workers |-> IF w \in stuck THEN NewReader ELSE NoReader]
          /\ slot' = [w \in Workers |-> RetiredSlot(w \notin stuck)]
          /\ life' = [life EXCEPT !.usable = @ /\ after = "idle" /\ stuck = {}]
    /\ queue' = [w \in Workers |-> <<>>]
    /\ outcome' = IF after = "idle" THEN outcome ELSE "raised"
    /\ pc' = "idle" /\ NoFocus
    /\ UNCHANGED <<extra, todo, rows, failure, primary, run>>

(* run() of a pool that was closed: start() raises.                          *)
CannotStart ==
    /\ pc = "starting" /\ life.closed /\ FailsClosed /\ UNCHANGED <<crashes, restarts>>

(* A worker found dead in an earlier run, or job names that are not unique   *)
(* nonempty strings.                                                         *)
RefusesCall ==
    /\ pc = "calling" /\ crashes' = 0 /\ restarts' = 0 /\ FailsClosed

(* encode_job refuses some of the jobs; the others are to be dispatched.     *)
AcceptsCall ==
    /\ pc = "calling" /\ Alive = Workers
    /\ \E refused \in SUBSET Jobs :
          /\ todo' = Jobs \ refused
          /\ rows' = [j \in Jobs |-> IF j \in refused THEN InvalidRow ELSE NoRow]
    /\ seeds' = Workers
    /\ pc' = IF todo' = {} THEN "returning" ELSE "seeding"
    /\ crashes' = 0 /\ restarts' = 0
    /\ UNCHANGED <<workerVars, slot, cur, after, line, drained, why, failure, callVars>>

Closes ==
    /\ pc = "idle" /\ life.started
    /\ \E stuck \in SUBSET Running :
          /\ ShutsDown(stuck)
          /\ life' = [life EXCEPT !.started = FALSE, !.closed = TRUE,
                                  !.usable = @ /\ stuck = {}]
    /\ UNCHANGED <<extra, reader, queue, pc, focusVars, bookVars, primary, run, outcome>>

-----------------------------------------------------------------------------
(* Giving jobs out                                                           *)

(* Mutant: the job is entered as in flight only after it was written. *)
DispatchUnentered(w, next) ==
    \E j \in todo :
       /\ todo' = todo \ {j}
       /\ \/ /\ ~Exited(w)
             /\ LET l == [kind |-> "result", job |-> j, run |-> run] IN
                process' = [process EXCEPT ![w].given = @ \cup {l}, ![w].due = @ \cup {l}]
             /\ slot' = [slot EXCEPT ![w].flight = j, ![w].published = NoJob]
             /\ pc' = next /\ cur' = NoWorker
             /\ UNCHANGED <<after, line, drained, why, rows, failure, crashes, restarts>>
          \/ /\ Exited(w) /\ Fails(w, TRUE, NoJob, next)
             /\ UNCHANGED process

(* _dispatch: writing to a worker that has exited is a broken pipe, and the  *)
(* job fails with that worker.                                               *)
Dispatch(w, next) ==
    \E j \in todo :
       /\ todo' = todo \ {j}
       /\ \/ /\ ~Exited(w)
             /\ LET l == [kind |-> "result", job |-> j, run |-> run] IN
                process' = [process EXCEPT ![w].given = @ \cup {l}, ![w].due = @ \cup {l}]
             /\ slot' = [slot EXCEPT ![w].flight = j, ![w].published = NoJob]
             /\ pc' = next /\ cur' = NoWorker
             /\ UNCHANGED <<after, line, drained, why, rows, failure, crashes, restarts>>
          \/ /\ Exited(w) /\ Fails(w, TRUE, j, next)
             /\ UNCHANGED process

Seeds(w) ==
    /\ pc = "seeding" /\ w \in seeds /\ slot[w].alive
    /\ seeds' = seeds \ {w}
    /\ Dispatch(w, "seeding")
    /\ UNCHANGED <<extra, reader, queue, callVars>>

IsSeeded ==
    /\ pc = "seeding" /\ (seeds = {} \/ todo = {})
    /\ pc' = "waiting" /\ seeds' = {}
    /\ UNCHANGED <<workerVars, slot, cur, after, line, drained, why, bookVars, callVars>>

-----------------------------------------------------------------------------
(* The main loop: _next_event                                                *)

Busy == todo # {} \/ \E w \in Workers : slot[w].flight # NoJob

(* Mutant: only a worker that is seen to be dead is timed out. *)
TimesOutTheDead ==
    /\ pc = "waiting" /\ \E w \in Outstanding : Exited(w)
    /\ FailsClosed /\ UNCHANGED <<crashes, restarts>>

(* Every step checks the deadlines of the jobs in flight before it looks     *)
(* for events; one that has passed gives the whole run up.                   *)
TimesOut ==
    /\ pc = "waiting" /\ Outstanding # {}
    /\ FailsClosed /\ UNCHANGED <<crashes, restarts>>

(* The queues of dead workers are looked at like the others.                 *)
TakesEvent(w) ==
    /\ pc = "waiting" /\ Busy /\ queue[w] # <<>>
    /\ queue' = [queue EXCEPT ![w] = Tail(@)]
    /\ LET e == Head(queue[w]) IN
       IF IsFailure(e)
       THEN Fails(w, e = Eof, slot[w].flight, "assigning")
       ELSE /\ pc' = "examining" /\ cur' = w /\ line' = e /\ why' = "answer"
            /\ UNCHANGED <<slot, after, drained, rows, failure, crashes, restarts>>
    /\ UNCHANGED <<extra, process, reader, seeds, todo, callVars>>

(* Mutant: the job of the crashed worker is tried again. *)
SeesExitAndRetries(w) ==
    /\ pc = "waiting" /\ Busy /\ slot[w].alive /\ Exited(w)
    /\ Fails(w, TRUE, NoJob, "assigning")
    /\ todo' = todo \cup ({slot[w].flight} \ {NoJob})
    /\ UNCHANGED <<workerVars, seeds, callVars>>

SeesExit(w) ==
    /\ pc = "waiting" /\ Busy /\ slot[w].alive /\ Exited(w)
    /\ Fails(w, TRUE, slot[w].flight, "assigning")
    /\ UNCHANGED <<workerVars, seeds, todo, callVars>>

(* CoordinatorError: jobs are left, and no event can come any more.          *)
NobodyAnswers ==
    /\ pc = "waiting" /\ Busy /\ Outstanding = {}
    /\ \A w \in Workers : queue[w] = <<>> /\ ~(slot[w].alive /\ Exited(w))
    /\ FailsClosed /\ UNCHANGED <<crashes, restarts>>

LeavesLoop ==
    /\ pc = "waiting" /\ ~Busy
    /\ pc' = "settling_run"
    /\ UNCHANGED <<workerVars, slot, focusVars, bookVars, callVars>>

-----------------------------------------------------------------------------
(* _queued_failure_event: poll the process, take everything off the queue,   *)
(* and put it back if no failure is among it.  The reader puts events of its *)
(* own in between.  Where the code examines the same queue twice in a row    *)
(* the two are one here.                                                     *)

FindsFailure ==
    /\ pc = "examining"
    /\ \/ /\ Exited(cur) /\ Fails(cur, TRUE, slot[cur].flight, "assigning")
          /\ UNCHANGED queue
       \/ /\ ~Exited(cur)
          /\ \E i \in DOMAIN queue[cur] :
                /\ IsFailure(queue[cur][i])
                /\ \A k \in 1..(i - 1) : ~IsFailure(queue[cur][k])
                /\ Fails(cur, queue[cur][i] = Eof, slot[cur].flight, "assigning")
          /\ queue' = [queue EXCEPT ![cur] = <<>>]
    /\ UNCHANGED <<extra, process, reader, seeds, todo, callVars>>

FindsNoFailure ==
    /\ pc = "examining" /\ ~Exited(cur)
    /\ \A i \in DOMAIN queue[cur] : ~IsFailure(queue[cur][i])
    /\ drained' = queue[cur] /\ queue' = [queue EXCEPT ![cur] = <<>>]
    /\ pc' = "restoring"
    /\ UNCHANGED <<extra, process, reader, slot, cur, after, line, why, seeds, bookVars, callVars>>

PutsBack ==
    /\ pc = "restoring" /\ drained # <<>>
    /\ queue' = [queue EXCEPT ![cur] = Append(@, Head(drained))]
    /\ drained' = Tail(drained)
    /\ UNCHANGED <<extra, process, reader, slot, pc, cur, after, line, why, seeds, bookVars,
                   callVars>>

(* Mutant: a line of the awaited worker is taken for its answer, whatever    *)
(* job it names and whether one is in flight.                                *)
IsAnyResult == line.kind = "result"

(* _handle_line after the examination: only the one result that is due, from *)
(* the worker it is due from, is staged.                                     *)
IsDue == slot[cur].flight # NoJob /\ line.kind = "result" /\ line.job = slot[cur].flight

Judges ==
    /\ pc = "restoring" /\ drained = <<>> /\ why = "answer"
    /\ IF IsDue
       THEN /\ pc' = "settling" /\ why' = "none"
            /\ UNCHANGED <<slot, cur, after, line, drained, rows, failure, crashes, restarts>>
       ELSE Fails(cur, FALSE, slot[cur].flight, "assigning")
    /\ UNCHANGED <<workerVars, seeds, todo, callVars>>

(* _settle_staged_result: the process exits before the deadline, or the      *)
(* deadline passes and the queue is examined once more.                      *)
ExitsWhileSettling ==
    /\ pc = "settling" /\ Exited(cur)
    /\ Fails(cur, TRUE, slot[cur].flight, "assigning")
    /\ UNCHANGED <<workerVars, seeds, todo, callVars>>

HasSettled ==
    /\ pc = "settling"
    /\ pc' = "examining" /\ why' = "publish"
    /\ UNCHANGED <<workerVars, slot, cur, after, line, drained, seeds, bookVars, callVars>>

Publishes ==
    /\ pc = "restoring" /\ drained = <<>> /\ why = "publish"
    /\ rows' = [rows EXCEPT ![slot[cur].flight] = CompletedRow(line)]
    /\ slot' = [slot EXCEPT ![cur].published = slot[cur].flight, ![cur].flight = NoJob]
    /\ pc' = "assigning" /\ line' = NoLine /\ why' = "none"
    /\ UNCHANGED <<workerVars, cur, after, drained, seeds, todo, failure, crashes, restarts,
                   callVars>>

-----------------------------------------------------------------------------
(* The end of a turn of the loop: reject what is pending, replace a dead     *)
(* worker, give the next job out                                             *)

ChecksPending ==
    /\ pc = "assigning" /\ slot[cur].alive
    /\ pc' = "examining" /\ why' = "reject"
    /\ UNCHANGED <<workerVars, slot, cur, after, line, drained, seeds, bookVars, callVars>>

RejectsPending ==
    /\ pc = "restoring" /\ drained = <<>> /\ why = "reject"
    /\ IF queue[cur] = <<>>
       THEN /\ pc' = "giving" /\ why' = "none"
            /\ UNCHANGED <<queue, slot, cur, after, line, drained, rows, failure, crashes,
                           restarts>>
       ELSE /\ queue' = [queue EXCEPT ![cur] = Tail(@)]
            /\ Fails(cur, FALSE, NoJob, "assigning")
    /\ UNCHANGED <<extra, process, reader, seeds, todo, callVars>>

(* _restart: the replacement is launched and passes its handshake.           *)
Replaces ==
    /\ pc = "assigning" /\ ~slot[cur].alive /\ todo # {}
    /\ life.restarting /\ slot[cur].reaped
    /\ process' = [process EXCEPT ![cur] = NewProcess]
    /\ reader' = [reader EXCEPT ![cur] = NewReader]
    /\ queue' = [queue EXCEPT ![cur] = <<>>]
    /\ slot' = [slot EXCEPT ![cur] = NewSlot]
    /\ restarts' = restarts + 1 /\ pc' = "giving"
    /\ UNCHANGED <<extra, focusVars, todo, rows, failure, crashes, callVars>>

(* Restarting is disabled, not safe, or it fails.                            *)
CannotReplace ==
    /\ pc = "assigning" /\ ~slot[cur].alive /\ todo # {}
    /\ IF life.restarting
       THEN restarts' = restarts + 1 /\ crashes' \in {crashes, crashes + 1}
       ELSE UNCHANGED <<crashes, restarts>>
    /\ FailsClosed

NothingToGive ==
    /\ todo = {}
    /\ pc = "giving" \/ (pc = "assigning" /\ ~slot[cur].alive)
    /\ pc' = "waiting" /\ cur' = NoWorker
    /\ UNCHANGED <<workerVars, slot, after, line, drained, why, seeds, bookVars, callVars>>

Gives ==
    /\ pc = "giving" /\ Dispatch(cur, "waiting")
    /\ UNCHANGED <<extra, reader, queue, seeds, callVars>>

-----------------------------------------------------------------------------
(* _settle_completed_run, and the return                                     *)

(* _worker_failed with include_published_job                                 *)
FailsLate(w, crashed) ==
    Fails(w, crashed, IF slot[w].flight # NoJob THEN slot[w].flight ELSE slot[w].published,
          "settling_run")

ExitsLate(w) ==
    /\ pc = "settling_run" /\ slot[w].alive /\ Exited(w)
    /\ FailsLate(w, TRUE)
    /\ UNCHANGED <<workerVars, seeds, todo, callVars>>

WritesLate(w) ==
    /\ pc = "settling_run" /\ slot[w].alive /\ queue[w] # <<>>
    /\ queue' = [queue EXCEPT ![w] = Tail(@)]
    /\ FailsLate(w, Head(queue[w]) = Eof)
    /\ UNCHANGED <<extra, process, reader, seeds, todo, callVars>>

RunHasSettled ==
    /\ pc = "settling_run"
    /\ slot' = [w \in Workers |-> [slot[w] EXCEPT !.published = NoJob]]
    /\ pc' = "returning"
    /\ UNCHANGED <<workerVars, focusVars, bookVars, callVars>>

PrimaryHolds == ~failure /\ \A j \in Jobs : rows[j].status = "completed"

Returns ==
    /\ pc = "returning"
    /\ primary => PrimaryHolds
    /\ outcome' = "returned" /\ pc' = "idle" /\ NoFocus
    /\ UNCHANGED <<workerVars, slot, bookVars, primary, life, run>>

LacksIntegrity ==
    /\ pc = "returning" /\ primary /\ ~PrimaryHolds
    /\ FailsClosed /\ UNCHANGED <<crashes, restarts>>

-----------------------------------------------------------------------------

CallerStep == CallsStart \/ CallsUnusable \/ CallsRun \/ Closes

CoordinatorStep ==
    \/ Launches \/ CannotLaunch \/ CannotStart
    \/ RefusesCall \/ AcceptsCall \/ IsSeeded
    \/ Terminates \/ IsReaped \/ CannotBeReaped
    \/ TimesOut \/ NobodyAnswers \/ LeavesLoop
    \/ FindsFailure \/ FindsNoFailure \/ PutsBack
    \/ Judges \/ ExitsWhileSettling \/ HasSettled \/ Publishes
    \/ ChecksPending \/ RejectsPending
    \/ Replaces \/ CannotReplace \/ NothingToGive \/ Gives
    \/ RunHasSettled \/ Returns \/ LacksIntegrity
    \/ \E w \in Workers : \/ Seeds(w) \/ TakesEvent(w) \/ SeesExit(w)
                          \/ ExitsLate(w) \/ WritesLate(w)

PoolNext ==
    \/ CallerStep \/ CoordinatorStep
    \/ \E w \in Workers : Answers(w) \/ Babbles(w) \/ Exits(w) \/ ReaderStep(w)

(* The coordinator is one thread that runs on: each of its waits has a       *)
(* deadline.  Nothing is assumed of the workers, their readers or the        *)
(* caller.                                                                   *)
PoolSpec == PoolInit /\ [][PoolNext]_vars /\ WF_vars(CoordinatorStep)

-----------------------------------------------------------------------------
(* Properties                                                                *)

(* Type correctness.                                                         *)
PoolTypeOK ==
    /\ process \in [Workers -> Processes] /\ reader \in [Workers -> Readers]
    /\ extra \in 0..life.pool.extra /\ queue \in [Workers -> Seq(Events)] /\ slot \in [Workers -> Slots]
    /\ pc \in {"idle", "starting", "calling", "seeding", "waiting", "examining", "restoring",
               "settling", "assigning", "giving", "reaping", "settling_run", "returning"}
    /\ cur \in Workers \cup {NoWorker}
    /\ after \in {"none", "idle", "calling", "seeding", "assigning", "waiting", "settling_run"}
    /\ line \in Lines \cup {NoLine} /\ drained \in Seq(Events)
    /\ why \in {"none", "answer", "publish", "reject"} /\ seeds \subseteq Workers
    /\ todo \subseteq Jobs /\ rows \in [Jobs -> Rows]
    /\ failure \in BOOLEAN /\ crashes \in Nat /\ restarts \in Nat
    /\ primary \in BOOLEAN /\ run \in 0..life.pool.runs
    /\ life \in [started : BOOLEAN, closed : BOOLEAN, usable : BOOLEAN, restarting : BOOLEAN,
                  pool : Pools]
    /\ outcome \in {"none", "running", "returned", "raised", "refused"}

Working == pc \notin {"idle", "starting", "calling"}
HasRow(j) == rows[j].status # "none"
InFlight(j) == {w \in Workers : slot[w].flight = j}

(* While a run is under way every job is in exactly one place: waiting to be *)
(* given out, in flight at exactly one worker, or settled with a row; and a  *)
(* run that returns has a row for every job.  A job that failed with its     *)
(* worker is not given out again.                                            *)
EachJobInOnePlace ==
    /\ Working => \A j \in Jobs :
          \/ j \in todo /\ InFlight(j) = {} /\ ~HasRow(j)
          \/ j \notin todo /\ (\E w \in Workers : InFlight(j) = {w}) /\ ~HasRow(j)
          \/ j \notin todo /\ InFlight(j) = {} /\ HasRow(j)
    /\ outcome = "returned" => \A j \in Jobs : HasRow(j)

(* A worker the coordinator believes dead is gone: its process has ended,    *)
(* its reader puts nothing more on the queue, and no job is entered for it.  *)
(* So a replacement never shares a slot with what it replaces, and the       *)
(* refusal of _restart to replace a worker that was not reaped never fires.  *)
DeadAreGone ==
    \A w \in Workers : ~slot[w].alive =>
        /\ process[w].state # "running"
        /\ slot[w].flight = NoJob /\ slot[w].published = NoJob
        /\ life.usable /\ life.started => slot[w].reaped /\ reader[w].at = "done"

(* A result that is about to be published is one the worker's present        *)
(* process was given, and answers the very job the coordinator has in        *)
(* flight there: nothing said by an earlier process of the slot, by another  *)
(* worker, or about another job comes that far.                              *)
StagedIsDue ==
    pc = "settling" \/ (pc \in {"examining", "restoring"} /\ why = "publish") =>
        /\ slot[cur].alive /\ line.job = slot[cur].flight
        /\ line \in process[cur].given

(* Within a run jobs only move forward: what was given out never comes back  *)
(* to be given out, and a row, once there, can only turn from completed to   *)
(* failed.                                                                   *)
JobsMoveForward ==
    [][pc # "calling" =>
          /\ todo' \subseteq todo
          /\ \A j \in Jobs : HasRow(j) =>
                \/ rows'[j] = rows[j]
                \/ rows[j].status = "completed" /\ rows'[j] = FailedRow]_vars

(* Every call of the pool ends, whatever the workers do or leave undone.     *)
CallsEnd == pc # "idle" ~> pc = "idle"

=============================================================================
