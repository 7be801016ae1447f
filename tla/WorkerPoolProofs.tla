--------------------------- MODULE WorkerPoolProofs ---------------------------
(***************************************************************************)
(* Proofs about WorkerPool: its safety properties, for any number of        *)
(* workers, jobs and calls, whatever the workers do.                        *)
(***************************************************************************)
EXTENDS WorkerPool, TLAPS

(* The pool is what it was made of; so are its data.                        *)
LEMMA PoolFixed ==
    ASSUME life'.pool = life.pool
    PROVE  /\ Workers' = Workers /\ Jobs' = Jobs /\ Results' = Results /\ Lines' = Lines
           /\ Events' = Events /\ Slots' = Slots /\ Rows' = Rows /\ Processes' = Processes
           /\ Readers' = Readers
  BY DEF Workers, Jobs, Results, Lines, Events, Slots, Rows, Processes, Readers

WorkersTyped ==
    /\ process \in [Workers -> Processes]
    /\ reader \in [Workers -> Readers]
    /\ extra \in 0..life.pool.extra
    /\ queue \in [Workers -> Seq(Events)]

FocusTyped ==
    /\ pc \in {"idle", "starting", "calling", "seeding", "waiting", "examining", "restoring",
               "settling", "assigning", "giving", "reaping", "settling_run", "returning"}
    /\ cur \in Workers \cup {NoWorker}
    /\ after \in {"none", "idle", "calling", "seeding", "assigning", "waiting", "settling_run"}
    /\ line \in Lines \cup {NoLine} /\ drained \in Seq(Events)
    /\ why \in {"none", "answer", "publish", "reject"} /\ seeds \subseteq Workers

BookTyped ==
    /\ todo \subseteq Jobs /\ rows \in [Jobs -> Rows]
    /\ failure \in BOOLEAN /\ crashes \in Nat /\ restarts \in Nat

CallTyped ==
    /\ primary \in BOOLEAN /\ run \in 0..life.pool.runs
    /\ life \in [started : BOOLEAN, closed : BOOLEAN, usable : BOOLEAN, restarting : BOOLEAN,
                  pool : Pools]
    /\ outcome \in {"none", "running", "returned", "raised", "refused"}

SlotsTyped == slot \in [Workers -> Slots]

LEMMA TypeIsTyped ==
    PoolTypeOK <=> WorkersTyped /\ FocusTyped /\ BookTyped /\ CallTyped /\ SlotsTyped
  BY DEF PoolTypeOK, WorkersTyped, FocusTyped, BookTyped, CallTyped, SlotsTyped

LEMMA DataTyped ==
    CallTyped =>
    /\ Eof \in Events /\ ReaderError \in Events /\ Other \in Lines /\ Lines \subseteq Events
    /\ Results \subseteq Lines /\ Garbled \notin Lines
    /\ \A e \in Events : ~IsFailure(e) => e \in Lines
    /\ NewProcess \in Processes /\ NoProcess \in Processes
    /\ NewReader \in Readers /\ NoReader \in Readers
    /\ NewSlot \in Slots /\ (\A b \in BOOLEAN : RetiredSlot(b) \in Slots)
    /\ NoRow \in Rows /\ InvalidRow \in Rows /\ FailedRow \in Rows
<1>1. Eof \in Events /\ ReaderError \in Events /\ Other \in Lines /\ Lines \subseteq Events
      /\ Results \subseteq Lines
  BY DEF Events, Lines
<1>2. Garbled \notin Lines
  BY DEF Lines, Results, Garbled, Other, Plain
<1>3. \A e \in Events : ~IsFailure(e) => e \in Lines
  BY DEF Events, IsFailure, Eof, ReaderError, Plain
<1>4. \A S : <<>> \in Seq(S)
  OBVIOUS
<1>5. NewProcess \in Processes /\ NoProcess \in Processes
  BY <1>4 DEF NewProcess, NoProcess, Processes
<1>6. NewReader \in Readers /\ NoReader \in Readers
  BY <1>4 DEF NewReader, NoReader, Readers
<1>7. NewSlot \in Slots /\ (\A b \in BOOLEAN : RetiredSlot(b) \in Slots)
  BY DEF NewSlot, RetiredSlot, Slots
<1>8. CallTyped => NoRow \in Rows /\ InvalidRow \in Rows /\ FailedRow \in Rows
  <2> SUFFICES ASSUME CallTyped PROVE NoRow \in Rows /\ InvalidRow \in Rows /\ FailedRow \in Rows
    OBVIOUS
  <2>1. life.pool \in Pools
    BY DEF CallTyped
  <2>2. 0 \in 0..life.pool.runs
    BY <2>1, PoolAssumption
  <2> QED BY <2>2 DEF NoRow, InvalidRow, FailedRow, Rows
<1> QED
  BY <1>1, <1>2, <1>3, <1>5, <1>6, <1>7, <1>8

WorkerStep(w) == Answers(w) \/ Babbles(w) \/ Exits(w) \/ ReaderStep(w)

(* The workers and their readers leave the coordinator alone.               *)
LEMMA WorkersOnly ==
    ASSUME NEW w, WorkerStep(w)
    PROVE  UNCHANGED <<slot, pc, focusVars, bookVars, callVars>>
  BY DEF WorkerStep, Answers, Babbles, Exits, ReaderStep, ReadsLine, StopsDraining,
         MeetsEofInBatch, MeetsEof, Puts

LEMMA ProcessFields ==
    ASSUME NEW p \in Processes
    PROVE  /\ \A s \in {"none", "running", "exited"} : [p EXCEPT !.state = s] \in Processes
           /\ \A q \in Seq(Lines \cup {Garbled}) : [p EXCEPT !.pipe = q] \in Processes
           /\ \A q \in Seq(Lines \cup {Garbled}), d \in SUBSET Results :
                [p EXCEPT !.pipe = q, !.due = d] \in Processes
           /\ \A g, d \in SUBSET Results : [p EXCEPT !.given = g, !.due = d] \in Processes
           /\ p.pipe \in Seq(Lines \cup {Garbled}) /\ p.due \subseteq Results
           /\ p.given \subseteq Results
  BY DEF Processes

(* A reader that has something to put holds something.                      *)
ReadersHold ==
    \A w \in Workers :
        reader[w].at \in {"draining", "publishing", "finishing"} => reader[w].held # <<>>

LEMMA WorkersKeepTypes ==
    ASSUME PoolTypeOK, ReadersHold, NEW w \in Workers, WorkerStep(w)
    PROVE  PoolTypeOK'
<1>1. WorkersTyped /\ FocusTyped /\ BookTyped /\ CallTyped /\ SlotsTyped
  BY TypeIsTyped
<1>2. UNCHANGED <<slot, pc, cur, after, line, drained, why, seeds, todo, rows, failure, crashes,
                  restarts, primary, life, run, outcome>>
  BY WorkersOnly DEF focusVars, bookVars, callVars
<1>3. life' = life
  BY <1>2
<1>4. /\ Workers' = Workers /\ Jobs' = Jobs /\ Results' = Results /\ Lines' = Lines
      /\ Events' = Events /\ Slots' = Slots /\ Rows' = Rows /\ Processes' = Processes
      /\ Readers' = Readers
  BY <1>3, PoolFixed
<1>5. FocusTyped' /\ BookTyped' /\ CallTyped' /\ SlotsTyped'
  BY <1>1, <1>2, <1>4 DEF FocusTyped, BookTyped, CallTyped, SlotsTyped
<1>6. /\ process \in [Workers -> Processes] /\ process[w] \in Processes
      /\ reader \in [Workers -> Readers] /\ reader[w] \in Readers
      /\ queue \in [Workers -> Seq(Events)] /\ queue[w] \in Seq(Events)
      /\ extra \in 0..life.pool.extra
  BY <1>1 DEF WorkersTyped
<1>7. /\ Eof \in Events /\ ReaderError \in Events /\ Lines \subseteq Events /\ Other \in Lines
      /\ Results \subseteq Lines
  BY <1>1, DataTyped
<1>8. SUFFICES WorkersTyped'
  BY <1>5, TypeIsTyped, PTL
<1>9. CASE Answers(w)
  <2>1. PICK l \in process[w].due : process' =
          [process EXCEPT ![w].pipe = Append(@, l), ![w].due = @ \ {l}]
    BY <1>9 DEF Answers
  <2> DEFINE p == process[w]
             new == [p EXCEPT !.pipe = Append(p.pipe, l), !.due = p.due \ {l}]
  <2>2. Append(p.pipe, l) \in Seq(Lines \cup {Garbled}) /\ p.due \ {l} \in SUBSET Results
    <3>1. l \in Lines \cup {Garbled} /\ p.pipe \in Seq(Lines \cup {Garbled})
          /\ p.due \subseteq Results
      BY <1>6, <1>7, ProcessFields
    <3> HIDE DEF p
    <3> QED BY <3>1
  <2>3. new \in Processes
    BY <1>6, <2>2, ProcessFields
  <2>4. process' = [process EXCEPT ![w] = new]
    BY <1>6, <2>1 DEF Processes
  <2> HIDE DEF new
  <2>5. process' \in [Workers -> Processes]
    BY <1>6, <2>3, <2>4
  <2>6. UNCHANGED <<extra, reader, queue>>
    BY <1>9 DEF Answers
  <2> QED BY <1>3, <1>4, <1>6, <2>5, <2>6 DEF WorkersTyped
<1>10. CASE Babbles(w)
  <2>1. PICK l \in (process[w].given \ process[w].due) \cup {Other, Garbled} :
          process' = [process EXCEPT ![w].pipe = Append(@, l)]
    BY <1>10 DEF Babbles
  <2> DEFINE p == process[w]
             new == [p EXCEPT !.pipe = Append(p.pipe, l)]
  <2>2. Append(p.pipe, l) \in Seq(Lines \cup {Garbled})
    <3>1. l \in Lines \cup {Garbled} /\ p.pipe \in Seq(Lines \cup {Garbled})
      BY <1>6, <1>7, <2>1, ProcessFields
    <3> HIDE DEF p
    <3> QED BY <3>1
  <2>3. new \in Processes
    BY <1>6, <2>2, ProcessFields
  <2>4. process' = [process EXCEPT ![w] = new]
    BY <1>6, <2>1 DEF Processes
  <2> HIDE DEF new
  <2>5. process' \in [Workers -> Processes]
    BY <1>6, <2>3, <2>4
  <2>6. extra' \in 0..life.pool.extra
    <3>1. life.pool.extra \in Nat
      BY <1>1, PoolAssumption DEF CallTyped
    <3> QED BY <1>6, <1>10, <3>1 DEF Babbles
  <2>7. UNCHANGED <<reader, queue>>
    BY <1>10 DEF Babbles
  <2> QED BY <1>3, <1>4, <1>6, <2>5, <2>6, <2>7 DEF WorkersTyped
<1>11. CASE Exits(w)
  <2>1. /\ process' = [process EXCEPT ![w] = [process[w] EXCEPT !.state = "exited"]]
        /\ UNCHANGED <<extra, reader, queue>>
    BY <1>11 DEF Exits
  <2>2. [process[w] EXCEPT !.state = "exited"] \in Processes
    BY <1>6, ProcessFields
  <2> QED BY <1>3, <1>4, <1>6, <2>1, <2>2 DEF WorkersTyped
<1>12. CASE ReadsLine(w)
  <2> DEFINE l == Head(process[w].pipe)
             r == IF l = Garbled
                  THEN [at |-> "finishing", held |-> <<ReaderError, Eof>>]
                  ELSE [at |-> "draining", held |-> Append(reader[w].held, l)]
             p == [process[w] EXCEPT !.pipe = Tail(process[w].pipe)]
  <2>1. /\ reader' = [reader EXCEPT ![w] = r] /\ process' = [process EXCEPT ![w] = p]
        /\ UNCHANGED <<extra, queue>>
    BY <1>12 DEF ReadsLine
  <2>2. l \in Lines \cup {Garbled} /\ Tail(process[w].pipe) \in Seq(Lines \cup {Garbled})
    <3>1. process[w].pipe \in Seq(Lines \cup {Garbled}) /\ process[w].pipe # <<>>
      BY <1>6, <1>12, ProcessFields DEF ReadsLine
    <3> QED BY <3>1
  <2>3. p \in Processes
    BY <1>6, <2>2, ProcessFields
  <2>4. r \in Readers
    <3>1. l # Garbled => Append(reader[w].held, l) \in Seq(Events)
      <4>1. reader[w].held \in Seq(Events)
        BY <1>6 DEF Readers
      <4> HIDE DEF l
      <4> QED BY <1>7, <2>2, <4>1
    <3>2. <<ReaderError, Eof>> \in Seq(Events)
      BY <1>7
    <3> HIDE DEF l
    <3> QED BY <3>1, <3>2 DEF Readers
  <2> HIDE DEF p, r
  <2> QED BY <1>3, <1>4, <1>6, <2>1, <2>3, <2>4 DEF WorkersTyped
<1>13. CASE StopsDraining(w) \/ MeetsEof(w)
  <2>1. PICK a \in {"publishing", "done"} : reader' = [reader EXCEPT ![w].at = a]
    BY <1>13 DEF StopsDraining, MeetsEof
  <2>2. UNCHANGED <<extra, process, queue>>
    BY <1>13 DEF StopsDraining, MeetsEof
  <2>3. [reader[w] EXCEPT !.at = a] \in Readers
    BY <1>6 DEF Readers
  <2>4. reader' \in [Workers -> Readers]
    BY <1>6, <2>1, <2>3
  <2> QED BY <1>3, <1>4, <1>6, <2>2, <2>4 DEF WorkersTyped
<1>14. CASE MeetsEofInBatch(w)
  <2> DEFINE r == [at |-> "finishing", held |-> <<Eof>> \o reader[w].held]
  <2>1. reader' = [reader EXCEPT ![w] = r] /\ UNCHANGED <<extra, process, queue>>
    BY <1>14 DEF MeetsEofInBatch
  <2>2. r \in Readers
    <3>1. <<Eof>> \in Seq(Events) /\ reader[w].held \in Seq(Events)
      BY <1>6, <1>7 DEF Readers
    <3>2. <<Eof>> \o reader[w].held \in Seq(Events)
      BY <3>1
    <3> QED BY <3>2 DEF Readers
  <2> HIDE DEF r
  <2> QED BY <1>3, <1>4, <1>6, <2>1, <2>2 DEF WorkersTyped
<1>15. CASE Puts(w)
  <2> DEFINE r == [at |-> IF Tail(reader[w].held) # <<>> THEN reader[w].at
                          ELSE IF reader[w].at = "publishing" THEN "reading" ELSE "done",
                   held |-> Tail(reader[w].held)]
  <2>1. /\ queue' = [queue EXCEPT ![w] = Append(@, Head(reader[w].held))]
        /\ reader' = [reader EXCEPT ![w] = r] /\ UNCHANGED <<extra, process>>
    BY <1>15 DEF Puts
  <2>2. reader[w].held \in Seq(Events) /\ reader[w].held # <<>>
    <3>1. reader[w].at \in {"publishing", "finishing"}
      BY <1>15 DEF Puts
    <3> QED BY <1>6, <3>1 DEF Readers, ReadersHold
  <2>3. Head(reader[w].held) \in Events /\ Tail(reader[w].held) \in Seq(Events)
    BY <2>2
  <2>4. r \in Readers
    BY <1>15, <2>3 DEF Readers, Puts
  <2>5. Append(queue[w], Head(reader[w].held)) \in Seq(Events)
    <3> DEFINE e == Head(reader[w].held)
    <3> HIDE DEF e
    <3> QED BY <1>6, <2>3 DEF e
  <2> HIDE DEF r
  <2>6. queue' \in [Workers -> Seq(Events)] /\ reader' \in [Workers -> Readers]
    BY <1>6, <2>1, <2>4, <2>5
  <2> QED BY <1>3, <1>4, <1>6, <2>1, <2>6 DEF WorkersTyped
<1> QED
  BY <1>9, <1>10, <1>11, <1>12, <1>13, <1>14, <1>15 DEF WorkerStep, ReaderStep

LEMMA WorkersKeepHolding ==
    ASSUME PoolTypeOK, ReadersHold, NEW w \in Workers, WorkerStep(w)
    PROVE  ReadersHold'
<1>1. life' = life /\ Workers' = Workers
  BY WorkersOnly DEF callVars, Workers
<1>2. reader \in [Workers -> Readers] /\ reader[w].held \in Seq(Events)
  BY DEF PoolTypeOK, Readers
<1>3. CASE Answers(w) \/ Babbles(w) \/ Exits(w)
  BY <1>1, <1>3 DEF ReadersHold, Answers, Babbles, Exits
<1>4. CASE ReadsLine(w)
  <2>1. reader'[w].held # <<>> /\ \A v \in Workers \ {w} : reader'[v] = reader[v]
    <3> DEFINE l == Head(process[w].pipe)
    <3>1. reader' = [reader EXCEPT ![w] = IF l = Garbled
                       THEN [at |-> "finishing", held |-> <<ReaderError, Eof>>]
                       ELSE [at |-> "draining", held |-> Append(reader[w].held, l)]]
      BY <1>4 DEF ReadsLine
    <3> HIDE DEF l
    <3>2. Append(reader[w].held, l) # <<>>
      BY <1>2
    <3> QED BY <1>2, <3>1, <3>2
  <2> QED BY <1>1, <2>1 DEF ReadersHold
<1>5. CASE StopsDraining(w) \/ MeetsEof(w)
  <2>1. /\ reader'[w].held = reader[w].held
        /\ (reader'[w].at = "publishing" => reader[w].at = "draining")
        /\ reader'[w].at \in {"publishing", "done"}
        /\ \A v \in Workers \ {w} : reader'[v] = reader[v]
    BY <1>2, <1>5 DEF StopsDraining, MeetsEof, Readers
  <2> QED BY <1>1, <2>1 DEF ReadersHold
<1>6. CASE MeetsEofInBatch(w)
  <2>1. <<Eof>> \o reader[w].held # <<>>
    BY <1>2
  <2>2. reader'[w].held # <<>> /\ \A v \in Workers \ {w} : reader'[v] = reader[v]
    BY <1>2, <1>6, <2>1 DEF MeetsEofInBatch
  <2> QED BY <1>1, <2>2 DEF ReadersHold
<1>7. CASE Puts(w)
  <2>1. /\ reader'[w].held = Tail(reader[w].held)
        /\ Tail(reader[w].held) = <<>> => reader'[w].at \in {"reading", "done"}
        /\ \A v \in Workers \ {w} : reader'[v] = reader[v]
    BY <1>2, <1>7 DEF Puts
  <2> QED BY <1>1, <2>1 DEF ReadersHold
<1> QED
  BY <1>3, <1>4, <1>5, <1>6, <1>7 DEF WorkerStep, ReaderStep

LEMMA FailsTyped ==
    ASSUME FocusTyped, BookTyped, CallTyped, SlotsTyped, life' = life,
           NEW w \in Workers, NEW crashed \in BOOLEAN, NEW job \in Jobs \cup {NoJob},
           NEW next \in {"seeding", "assigning", "waiting", "settling_run"},
           Fails(w, crashed, job, next), seeds' \subseteq Workers, todo' \subseteq Jobs
    PROVE  FocusTyped' /\ BookTyped' /\ SlotsTyped'
<1>1. /\ Workers' = Workers /\ Jobs' = Jobs /\ Slots' = Slots /\ Rows' = Rows
      /\ Lines' = Lines /\ Events' = Events
  BY PoolFixed
<1>2. FailedRow \in Rows
  BY DataTyped
<1>3. SlotsTyped'
  <2>1. [slot[w] EXCEPT !.flight = NoJob, !.published = NoJob] \in Slots
    BY DEF SlotsTyped, Slots
  <2>2. slot' = [slot EXCEPT ![w] = [slot[w] EXCEPT !.flight = NoJob, !.published = NoJob]]
    BY DEF Fails, SlotsTyped
  <2> QED BY <1>1, <2>1, <2>2 DEF SlotsTyped
<1>4. BookTyped'
  BY <1>1, <1>2 DEF BookTyped, Fails
<1>5. FocusTyped'
  <2>1. <<>> \in Seq(Events)
    OBVIOUS
  <2> QED BY <1>1, <2>1 DEF FocusTyped, Fails
<1> QED
  BY <1>3, <1>4, <1>5

LEMMA ShutsDownTyped ==
    ASSUME PoolTypeOK, life'.pool = life.pool, NEW stuck, ShutsDown(stuck)
    PROVE  SlotsTyped' /\ process' \in [Workers -> Processes]
<1>1. Workers' = Workers /\ Slots' = Slots
  BY PoolFixed
<1>2. \A b \in BOOLEAN : RetiredSlot(b) \in Slots
  BY TypeIsTyped, DataTyped
<1>3. SlotsTyped'
  BY <1>1, <1>2 DEF SlotsTyped, ShutsDown
<1>4. \A v \in Workers : /\ process[v] \in Processes
                         /\ [process[v] EXCEPT !.state = "exited"] \in Processes
  BY ProcessFields DEF PoolTypeOK
<1> QED
  BY <1>3, <1>4 DEF ShutsDown

LEMMA FailsClosedTyped ==
    ASSUME PoolTypeOK, ReadersHold, FailsClosed, crashes' \in Nat, restarts' \in Nat
    PROVE  PoolTypeOK' /\ ReadersHold'
<1>1. WorkersTyped /\ FocusTyped /\ BookTyped /\ CallTyped /\ SlotsTyped
  BY TypeIsTyped
<1>2. /\ life' = [life EXCEPT !.usable = FALSE] /\ outcome' = "raised" /\ pc' = "idle"
      /\ todo' = {} /\ NoFocus /\ UNCHANGED <<extra, reader, queue, failure, run, primary>>
  BY DEF FailsClosed
<1>3. life'.pool = life.pool
  BY <1>1, <1>2 DEF CallTyped
<1>4. /\ Workers' = Workers /\ Jobs' = Jobs /\ Rows' = Rows /\ Events' = Events /\ Lines' = Lines
      /\ Processes' = Processes /\ Readers' = Readers
  BY <1>3, PoolFixed
<1>5. SlotsTyped' /\ process' \in [Workers -> Processes]
  BY <1>3, ShutsDownTyped DEF FailsClosed
<1>6. rows' \in [Jobs -> Rows]
  <2>1. FailedRow \in Rows
    BY <1>1, DataTyped
  <2> QED BY <1>1, <2>1 DEF BookTyped, FailsClosed
<1>7. WorkersTyped'
  BY <1>1, <1>2, <1>3, <1>4, <1>5 DEF WorkersTyped
<1>8. FocusTyped'
  <2>1. <<>> \in Seq(Events)
    OBVIOUS
  <2> QED BY <1>2, <1>4, <2>1 DEF FocusTyped, NoFocus
<1>9. BookTyped'
  BY <1>1, <1>2, <1>4, <1>6 DEF BookTyped
<1>10. CallTyped'
  BY <1>1, <1>2, <1>3 DEF CallTyped
<1>11. ReadersHold'
  BY <1>2, <1>4 DEF ReadersHold
<1>12. PoolTypeOK'
  BY <1>5, <1>7, <1>8, <1>9, <1>10, TypeIsTyped, PTL
<1> QED
  BY <1>11, <1>12

(* While it is busy with a worker, the coordinator knows which, and where   *)
(* it goes on; it works for a call.                                         *)
FocusKnown ==
    /\ pc \in {"examining", "restoring", "settling", "assigning", "giving", "reaping"} =>
         cur \in Workers
    /\ pc = "reaping" => after \in {"seeding", "assigning", "waiting", "settling_run"}
    /\ pc = "starting" => after \in {"idle", "calling"}
    /\ pc \notin {"idle", "starting"} \/ (pc = "starting" /\ after = "calling") => run # 0

Typed == PoolTypeOK /\ ReadersHold /\ FocusKnown

LEMMA TypedParts ==
    Typed <=> /\ WorkersTyped /\ FocusTyped /\ BookTyped /\ CallTyped /\ SlotsTyped
              /\ ReadersHold /\ FocusKnown
  BY TypeIsTyped DEF Typed

LEMMA CallerKeepsTypes == Typed /\ CallerStep => Typed'
<1> SUFFICES ASSUME Typed, CallerStep PROVE Typed'
  OBVIOUS
<1>1. /\ WorkersTyped /\ FocusTyped /\ BookTyped /\ CallTyped /\ SlotsTyped
      /\ ReadersHold /\ FocusKnown
  BY TypedParts
<1>2. life'.pool = life.pool
  <2>1. CASE CallsStart \/ CallsUnusable \/ CallsRun
    BY <2>1 DEF CallsStart, CallsUnusable, CallsRun, callVars
  <2>2. CASE Closes
    <3>1. PICK stuck \in SUBSET Running :
            life' = [life EXCEPT !.started = FALSE, !.closed = TRUE,
                                 !.usable = @ /\ stuck = {}]
      BY <2>2 DEF Closes
    <3> QED BY <1>1, <3>1 DEF CallTyped
  <2> QED BY <2>1, <2>2 DEF CallerStep
<1>3. /\ Workers' = Workers /\ Jobs' = Jobs /\ Results' = Results /\ Lines' = Lines
      /\ Events' = Events /\ Slots' = Slots /\ Rows' = Rows /\ Processes' = Processes
      /\ Readers' = Readers
  BY <1>2, PoolFixed
<1>4. SUFFICES /\ WorkersTyped' /\ FocusTyped' /\ BookTyped' /\ CallTyped' /\ SlotsTyped'
               /\ ReadersHold' /\ FocusKnown'
  BY TypedParts, PTL
<1>5. CASE CallsStart
  <2>1. /\ UNCHANGED <<process, extra, reader, queue, slot, cur, line, drained, why, seeds, todo,
                       rows, failure, crashes, restarts, primary, life, run, outcome>>
        /\ pc' = "starting" /\ after' = "idle"
    BY <1>5 DEF CallsStart, workerVars, bookVars, callVars
  <2> QED BY <1>1, <1>3, <2>1 DEF WorkersTyped, FocusTyped, BookTyped, CallTyped, SlotsTyped,
              ReadersHold, FocusKnown
<1>6. CASE CallsUnusable
  <2>1. /\ UNCHANGED <<process, extra, reader, queue, slot, pc, cur, after, line, drained, why,
                       seeds, todo, rows, failure, crashes, restarts, primary, life, run>>
        /\ outcome' = "refused"
    BY <1>6 DEF CallsUnusable, workerVars, focusVars, bookVars
  <2> QED BY <1>1, <1>3, <2>1 DEF WorkersTyped, FocusTyped, BookTyped, CallTyped, SlotsTyped,
              ReadersHold, FocusKnown
<1>7. CASE CallsRun
  <2>1. /\ UNCHANGED <<process, extra, reader, queue, slot, cur, line, drained, why, seeds, todo,
                       rows, crashes, restarts, life>>
        /\ primary' \in BOOLEAN /\ failure' = FALSE /\ outcome' = "running"
        /\ \/ pc' = "calling" /\ after' = after
           \/ pc' = "starting" /\ after' = "calling"
    BY <1>7 DEF CallsRun, workerVars
  <2>2. run' \in 0..life.pool.runs
    <3>1. life.pool.runs \in Nat
      BY <1>1, PoolAssumption DEF CallTyped
    <3> QED BY <1>1, <1>7, <3>1 DEF CallsRun, CallTyped
  <2>3. WorkersTyped' /\ BookTyped' /\ SlotsTyped' /\ ReadersHold'
    BY <1>1, <1>3, <2>1 DEF WorkersTyped, BookTyped, SlotsTyped, ReadersHold
  <2>4. FocusTyped' /\ FocusKnown'
    <3>1. run' # 0
      BY <1>1, <1>7 DEF CallsRun, CallTyped
    <3> QED BY <1>1, <1>3, <2>1, <3>1 DEF FocusTyped, FocusKnown
  <2>5. CallTyped'
    BY <1>1, <2>1, <2>2 DEF CallTyped
  <2> QED BY <2>3, <2>4, <2>5
<1>8. CASE Closes
  <2>1. PICK stuck \in SUBSET Running :
          /\ ShutsDown(stuck)
          /\ life' = [life EXCEPT !.started = FALSE, !.closed = TRUE,
                                  !.usable = @ /\ stuck = {}]
    BY <1>8 DEF Closes
  <2>2. SlotsTyped' /\ process' \in [Workers -> Processes]
    BY <1>2, <2>1, ShutsDownTyped DEF Typed
  <2>3. UNCHANGED <<extra, reader, queue, pc, cur, after, line, drained, why, seeds, todo,
                    rows, failure, crashes, restarts, primary, run, outcome>>
    BY <1>8 DEF Closes, focusVars, bookVars
  <2>4. WorkersTyped' /\ FocusTyped' /\ BookTyped' /\ ReadersHold' /\ FocusKnown'
    BY <1>1, <1>2, <1>3, <2>2, <2>3 DEF WorkersTyped, FocusTyped, BookTyped, ReadersHold,
       FocusKnown
  <2>5. CallTyped'
    <3>1. (life.usable /\ stuck = {}) \in BOOLEAN
      OBVIOUS
    <3> QED BY <1>1, <1>2, <2>1, <2>3, <3>1 DEF CallTyped
  <2> QED BY <2>2, <2>4, <2>5
<1> QED
  BY <1>5, <1>6, <1>7, <1>8 DEF CallerStep

(* The steps that give the run up. *)
GivesUp ==
    \/ CannotStart \/ RefusesCall \/ CannotBeReaped \/ TimesOut \/ NobodyAnswers \/ CannotReplace
    \/ LacksIntegrity

LEMMA GivingUpCloses == Typed /\ GivesUp => FailsClosed /\ crashes' \in Nat /\ restarts' \in Nat
<1> SUFFICES ASSUME Typed, GivesUp PROVE FailsClosed /\ crashes' \in Nat /\ restarts' \in Nat
  OBVIOUS
<1>1. crashes \in Nat /\ restarts \in Nat
  BY TypedParts DEF BookTyped
<1>2. CASE CannotReplace
  BY <1>1, <1>2 DEF CannotReplace
<1> QED
  BY <1>1, <1>2 DEF GivesUp, CannotStart, RefusesCall, CannotBeReaped, TimesOut, NobodyAnswers,
     LacksIntegrity

LEMMA GivingUpKeepsTypes == Typed /\ GivesUp => Typed'
<1> SUFFICES ASSUME Typed, GivesUp PROVE Typed'
  OBVIOUS
<1>1. FailsClosed /\ crashes' \in Nat /\ restarts' \in Nat
  BY GivingUpCloses
<1>2. PoolTypeOK' /\ ReadersHold'
  BY <1>1, FailsClosedTyped DEF Typed
<1>3. FocusKnown'
  BY <1>1 DEF FailsClosed, FocusKnown
<1> QED
  BY <1>2, <1>3 DEF Typed

(* Workers are started together, or one is started again.                   *)
LEMMA LaunchingKeepsTypes == Typed /\ (Launches \/ CannotLaunch \/ Replaces) => Typed'
<1> SUFFICES ASSUME Typed, Launches \/ CannotLaunch \/ Replaces PROVE Typed'
  OBVIOUS
<1>1. /\ WorkersTyped /\ FocusTyped /\ BookTyped /\ CallTyped /\ SlotsTyped
      /\ ReadersHold /\ FocusKnown
  BY TypedParts
<1>2. /\ NewProcess \in Processes /\ NoProcess \in Processes
      /\ NewReader \in Readers /\ NoReader \in Readers
      /\ NewSlot \in Slots /\ (\A b \in BOOLEAN : RetiredSlot(b) \in Slots)
      /\ <<>> \in Seq(Events)
      /\ NewReader.at = "reading" /\ NoReader.at = "done"
  BY <1>1, DataTyped DEF NewReader, NoReader
<1>3. SUFFICES /\ WorkersTyped' /\ FocusTyped' /\ BookTyped' /\ CallTyped' /\ SlotsTyped'
               /\ ReadersHold' /\ FocusKnown'
  BY TypedParts, PTL
<1>4. CASE Launches
  <2>1. /\ process' = [w \in Workers |-> NewProcess] /\ reader' = [w \in Workers |-> NewReader]
        /\ queue' = [w \in Workers |-> <<>>] /\ slot' = [w \in Workers |-> NewSlot]
        /\ life' = [life EXCEPT !.started = TRUE] /\ crashes' = 0 /\ restarts' = 0
        /\ pc' = after /\ after' = "none" /\ pc = "starting"
        /\ UNCHANGED <<extra, cur, line, drained, why, seeds, todo, rows, failure, primary, run,
                       outcome>>
    BY <1>4 DEF Launches
  <2>2. life'.pool = life.pool
    BY <1>1, <2>1 DEF CallTyped
  <2>3. /\ Workers' = Workers /\ Jobs' = Jobs /\ Results' = Results /\ Lines' = Lines
        /\ Events' = Events /\ Slots' = Slots /\ Rows' = Rows /\ Processes' = Processes
        /\ Readers' = Readers
    BY <2>2, PoolFixed
  <2>4. WorkersTyped' /\ SlotsTyped'
    BY <1>1, <1>2, <2>1, <2>2, <2>3 DEF WorkersTyped, SlotsTyped
  <2>5. FocusTyped' /\ FocusKnown' /\ BookTyped'
    BY <1>1, <2>1, <2>3 DEF FocusTyped, FocusKnown, BookTyped
  <2>6. CallTyped'
    BY <1>1, <2>1, <2>2 DEF CallTyped
  <2>7. ReadersHold'
    BY <1>2, <2>1, <2>3 DEF ReadersHold
  <2> QED BY <2>4, <2>5, <2>6, <2>7
<1>5. CASE CannotLaunch
  <2>1. PICK stuck \in SUBSET Workers :
          /\ process' = [w \in Workers |-> IF w \in stuck THEN NewProcess ELSE NoProcess]
          /\ reader' = [w \in Workers |-> IF w \in stuck THEN NewReader ELSE NoReader]
          /\ slot' = [w \in Workers |-> RetiredSlot(w \notin stuck)]
          /\ life' = [life EXCEPT !.usable = @ /\ after = "idle" /\ stuck = {}]
    BY <1>5 DEF CannotLaunch
  <2>2. /\ crashes' \in {0, 1} /\ restarts' = 0 /\ queue' = [w \in Workers |-> <<>>]
        /\ outcome' \in {outcome, "raised"} /\ pc' = "idle" /\ NoFocus
        /\ UNCHANGED <<extra, todo, rows, failure, primary, run>>
    BY <1>5 DEF CannotLaunch
  <2>3. life'.pool = life.pool
    BY <1>1, <2>1 DEF CallTyped
  <2>4. /\ Workers' = Workers /\ Jobs' = Jobs /\ Results' = Results /\ Lines' = Lines
        /\ Events' = Events /\ Slots' = Slots /\ Rows' = Rows /\ Processes' = Processes
        /\ Readers' = Readers
    BY <2>3, PoolFixed
  <2>5. WorkersTyped' /\ SlotsTyped'
    BY <1>1, <1>2, <2>1, <2>2, <2>3, <2>4 DEF WorkersTyped, SlotsTyped
  <2>6. FocusTyped' /\ FocusKnown' /\ BookTyped'
    BY <1>1, <1>2, <2>2, <2>4 DEF FocusTyped, FocusKnown, BookTyped, NoFocus
  <2>7. CallTyped'
    <3>1. (life.usable /\ after = "idle" /\ stuck = {}) \in BOOLEAN
      OBVIOUS
    <3> QED BY <1>1, <2>1, <2>2, <2>3, <3>1 DEF CallTyped
  <2>8. ReadersHold'
    BY <1>2, <2>1, <2>4 DEF ReadersHold
  <2> QED BY <2>5, <2>6, <2>7, <2>8
<1>6. CASE Replaces
  <2>1. /\ process' = [process EXCEPT ![cur] = NewProcess]
        /\ reader' = [reader EXCEPT ![cur] = NewReader]
        /\ queue' = [queue EXCEPT ![cur] = <<>>] /\ slot' = [slot EXCEPT ![cur] = NewSlot]
        /\ restarts' = restarts + 1 /\ pc' = "giving" /\ pc = "assigning"
        /\ UNCHANGED <<extra, cur, after, line, drained, why, seeds, todo, rows, failure, crashes,
                       primary, life, run, outcome>>
    BY <1>6 DEF Replaces, focusVars, callVars
  <2>2. life'.pool = life.pool
    BY <2>1
  <2>3. /\ Workers' = Workers /\ Jobs' = Jobs /\ Results' = Results /\ Lines' = Lines
        /\ Events' = Events /\ Slots' = Slots /\ Rows' = Rows /\ Processes' = Processes
        /\ Readers' = Readers
    BY <2>2, PoolFixed
  <2>4. WorkersTyped' /\ SlotsTyped'
    BY <1>1, <1>2, <2>1, <2>2, <2>3 DEF WorkersTyped, SlotsTyped
  <2>5. FocusTyped' /\ FocusKnown' /\ BookTyped'
    BY <1>1, <2>1, <2>3 DEF FocusTyped, FocusKnown, BookTyped
  <2>6. CallTyped'
    BY <1>1, <2>1, <2>2 DEF CallTyped
  <2>7. ReadersHold'
    BY <1>1, <1>2, <2>1, <2>3 DEF ReadersHold, WorkersTyped
  <2> QED BY <2>4, <2>5, <2>6, <2>7
<1> QED
  BY <1>4, <1>5, <1>6

(* What does not concern the workers, their readers and the call is kept.   *)
LEMMA KeptTypes ==
    ASSUME Typed, UNCHANGED <<extra, reader, callVars>>
    PROVE  /\ CallTyped' /\ ReadersHold'
           /\ process' \in [Workers -> Processes] /\ queue' \in [Workers -> Seq(Events)] =>
                WorkersTyped'
           /\ slot' \in [Workers -> Slots] => SlotsTyped'
<1>1. WorkersTyped /\ CallTyped /\ SlotsTyped /\ ReadersHold
  BY TypedParts
<1>2. life' = life
  BY DEF callVars
<1>3. /\ Workers' = Workers /\ Jobs' = Jobs /\ Results' = Results /\ Lines' = Lines
      /\ Events' = Events /\ Slots' = Slots /\ Rows' = Rows /\ Processes' = Processes
      /\ Readers' = Readers
  BY <1>2, PoolFixed
<1> QED
  BY <1>1, <1>2, <1>3 DEF WorkersTyped, CallTyped, SlotsTyped, ReadersHold, callVars

LEMMA MovesKeepTypes ==
    Typed /\ (\/ Terminates \/ IsReaped \/ AcceptsCall \/ IsSeeded \/ LeavesLoop \/ HasSettled
              \/ Publishes \/ ChecksPending \/ NothingToGive \/ RunHasSettled) => Typed'
<1> SUFFICES ASSUME Typed,
                    \/ Terminates \/ IsReaped \/ AcceptsCall \/ IsSeeded \/ LeavesLoop \/ HasSettled
                    \/ Publishes \/ ChecksPending \/ NothingToGive \/ RunHasSettled
             PROVE  Typed'
  OBVIOUS
<1>1. /\ WorkersTyped /\ FocusTyped /\ BookTyped /\ CallTyped /\ SlotsTyped
      /\ ReadersHold /\ FocusKnown
  BY TypedParts
<1>2. UNCHANGED <<extra, reader, queue, callVars>>
  BY DEF Terminates, IsReaped, AcceptsCall, IsSeeded, LeavesLoop, HasSettled, Publishes,
         ChecksPending, NothingToGive, RunHasSettled, workerVars
<1>3. life' = life /\ run' = run
  BY <1>2 DEF callVars
<1>4. /\ Workers' = Workers /\ Jobs' = Jobs /\ Results' = Results /\ Lines' = Lines
      /\ Events' = Events /\ Slots' = Slots /\ Rows' = Rows /\ Processes' = Processes
      /\ Readers' = Readers
  BY <1>3, PoolFixed
<1>5. CallTyped' /\ ReadersHold'
  BY <1>2, KeptTypes
<1>6. queue' \in [Workers -> Seq(Events)]
  BY <1>1, <1>2 DEF WorkersTyped
<1>7. process' \in [Workers -> Processes]
  <2>1. CASE Terminates
    <3>1. cur \in Workers /\ process[cur] \in Processes
      BY <1>1, <2>1 DEF Terminates, FocusKnown, WorkersTyped
    <3>2. [process[cur] EXCEPT !.state = "exited"] \in Processes
      BY <3>1, ProcessFields
    <3>3. process' = [process EXCEPT ![cur] = [process[cur] EXCEPT !.state = "exited"]]
      BY <2>1 DEF Terminates
    <3> QED BY <1>1, <3>2, <3>3 DEF WorkersTyped
  <2>2. CASE ~Terminates
    <3>1. process' = process
      BY <2>2 DEF IsReaped, AcceptsCall, IsSeeded, LeavesLoop, HasSettled, Publishes,
         ChecksPending, NothingToGive, RunHasSettled, workerVars
    <3> QED BY <1>1, <3>1 DEF WorkersTyped
  <2> QED BY <2>1, <2>2
<1>8. slot' \in [Workers -> Slots]
  <2>1. \A w \in Workers : slot[w] \in Slots
    BY <1>1 DEF SlotsTyped
  <2>2. CASE IsReaped
    <3>1. RetiredSlot(TRUE) \in Slots
      BY <1>1, DataTyped
    <3> QED BY <1>1, <2>2, <3>1 DEF IsReaped, SlotsTyped
  <2>3. CASE Publishes
    <3>1. cur \in Workers /\ slot[cur] \in Slots
      BY <1>1, <2>1, <2>3 DEF Publishes, FocusKnown
    <3>2. [slot[cur] EXCEPT !.published = slot[cur].flight, !.flight = NoJob] \in Slots
      BY <3>1 DEF Slots
    <3>3. slot' = [slot EXCEPT ![cur] =
                     [slot[cur] EXCEPT !.published = slot[cur].flight, !.flight = NoJob]]
      BY <1>1, <2>3, <3>1 DEF Publishes, SlotsTyped
    <3> QED BY <1>1, <3>2, <3>3 DEF SlotsTyped
  <2>4. CASE RunHasSettled
    <3>1. \A w \in Workers : [slot[w] EXCEPT !.published = NoJob] \in Slots
      BY <2>1 DEF Slots
    <3> QED BY <2>4, <3>1 DEF RunHasSettled
  <2>5. CASE ~IsReaped /\ ~Publishes /\ ~RunHasSettled
    <3>1. slot' = slot
      BY <2>5 DEF Terminates, AcceptsCall, IsSeeded, LeavesLoop, HasSettled,
         ChecksPending, NothingToGive
    <3> QED BY <1>1, <3>1 DEF SlotsTyped
  <2> QED BY <2>2, <2>3, <2>4, <2>5
<1>9. BookTyped'
  <2>1. CASE AcceptsCall
    <3>1. NoRow \in Rows /\ InvalidRow \in Rows
      BY <1>1, DataTyped
    <3>2. PICK refused \in SUBSET Jobs :
            /\ todo' = Jobs \ refused
            /\ rows' = [j \in Jobs |-> IF j \in refused THEN InvalidRow ELSE NoRow]
      BY <2>1 DEF AcceptsCall
    <3>3. crashes' = 0 /\ restarts' = 0 /\ failure' = failure
      BY <2>1 DEF AcceptsCall
    <3> QED BY <1>1, <1>4, <3>1, <3>2, <3>3 DEF BookTyped
  <2>2. CASE Publishes
    <3>1. line \in Lines \cup {NoLine}
      BY <1>1 DEF FocusTyped
    <3>2. life.pool.runs \in Nat
      BY <1>1, PoolAssumption DEF CallTyped
    <3>3. line.run \in 0..life.pool.runs
      BY <3>1, <3>2 DEF Lines, Results, Other, NoLine, Plain
    <3>4. CompletedRow(line) \in Rows
      BY <3>3 DEF CompletedRow, Rows
    <3>5. /\ rows' = [rows EXCEPT ![slot[cur].flight] = CompletedRow(line)]
          /\ UNCHANGED <<todo, failure, crashes, restarts>>
      BY <2>2 DEF Publishes
    <3> QED BY <1>1, <1>4, <3>4, <3>5 DEF BookTyped
  <2>3. CASE ~AcceptsCall /\ ~Publishes
    <3>1. UNCHANGED bookVars
      BY <2>3 DEF Terminates, IsReaped, IsSeeded, LeavesLoop, HasSettled,
         ChecksPending, NothingToGive, RunHasSettled
    <3> QED BY <1>1, <1>4, <3>1 DEF BookTyped, bookVars
  <2> QED BY <2>1, <2>2, <2>3
<1>10. FocusTyped' /\ FocusKnown'
  <2>1. CASE Terminates \/ LeavesLoop \/ HasSettled \/ ChecksPending \/ RunHasSettled
    BY <1>1, <1>3, <1>4, <2>1 DEF Terminates, LeavesLoop, HasSettled, ChecksPending, RunHasSettled,
       FocusTyped, FocusKnown, focusVars
  <2>2. CASE IsReaped \/ AcceptsCall \/ IsSeeded \/ NothingToGive
    BY <1>1, <1>3, <1>4, <2>2 DEF IsReaped, AcceptsCall, IsSeeded, NothingToGive,
       FocusTyped, FocusKnown, focusVars
  <2>3. CASE Publishes
    BY <1>1, <1>3, <1>4, <2>3 DEF Publishes, FocusTyped, FocusKnown, focusVars
  <2> QED BY <2>1, <2>2, <2>3
<1>11. WorkersTyped' /\ SlotsTyped'
  BY <1>2, <1>6, <1>7, <1>8, KeptTypes
<1> QED
  BY <1>5, <1>9, <1>10, <1>11, TypedParts, PTL

(* Some worker has just failed, and is to be reaped. *)
SomeFails ==
    \E w \in Workers, crashed \in BOOLEAN, job \in Jobs \cup {NoJob},
       next \in {"seeding", "assigning", "waiting", "settling_run"} : Fails(w, crashed, job, next)

LEMMA FailingTyped ==
    ASSUME Typed, SomeFails, UNCHANGED <<extra, reader, callVars>>, pc \notin {"idle", "starting"},
           process' \in [Workers -> Processes], queue' \in [Workers -> Seq(Events)],
           seeds' \subseteq Workers, todo' \subseteq Jobs
    PROVE  Typed'
<1>1. FocusTyped /\ BookTyped /\ CallTyped /\ SlotsTyped /\ FocusKnown
  BY TypedParts
<1>2. life' = life /\ run' = run
  BY DEF callVars
<1>3. FocusTyped' /\ BookTyped' /\ SlotsTyped'
  BY <1>1, <1>2, FailsTyped DEF SomeFails
<1>4. CallTyped' /\ ReadersHold' /\ WorkersTyped'
  BY KeptTypes
<1>5. FocusKnown'
  <2>1. Workers' = Workers
    BY <1>2 DEF Workers
  <2> QED BY <1>1, <1>2, <2>1 DEF SomeFails, Fails, FocusKnown
<1> QED
  BY <1>3, <1>4, <1>5, TypedParts, PTL

LEMMA FlightsTyped ==
    ASSUME Typed, NEW w \in Workers
    PROVE  /\ slot[w].flight \in Jobs \cup {NoJob} /\ slot[w].published \in Jobs \cup {NoJob}
           /\ process[w] \in Processes /\ queue[w] \in Seq(Events)
  BY TypedParts DEF SlotsTyped, Slots, WorkersTyped

LEMMA FailuresKeepTypes ==
    ASSUME Typed, NEW w \in Workers, SeesExit(w) \/ ExitsLate(w) \/ WritesLate(w)
    PROVE  Typed'
<1>1. SomeFails
  BY FlightsTyped DEF SomeFails, SeesExit, ExitsLate, WritesLate, FailsLate
<1>2. UNCHANGED <<extra, reader, callVars, process, seeds, todo>> /\ pc \notin {"idle", "starting"}
  BY DEF SeesExit, ExitsLate, WritesLate, workerVars
<1>3. queue' \in [Workers -> Seq(Events)] /\ process \in [Workers -> Processes]
  <2>1. queue \in [Workers -> Seq(Events)] /\ process \in [Workers -> Processes]
    BY TypedParts DEF WorkersTyped
  <2>2. CASE WritesLate(w)
    <3>1. Tail(queue[w]) \in Seq(Events) /\ queue' = [queue EXCEPT ![w] = Tail(queue[w])]
      BY <2>1, <2>2 DEF WritesLate
    <3> QED BY <2>1, <3>1
  <2>3. CASE ~WritesLate(w)
    BY <2>1, <2>3 DEF SeesExit, ExitsLate, workerVars
  <2> QED BY <2>1, <2>2, <2>3
<1>4. seeds' \subseteq Workers /\ todo' \subseteq Jobs
  BY <1>2, TypedParts DEF FocusTyped, BookTyped
<1> QED
  BY <1>1, <1>2, <1>3, <1>4, FailingTyped

LEMMA TakingKeepsTypes ==
    ASSUME Typed, NEW w \in Workers, TakesEvent(w)
    PROVE  Typed'
<1>1. /\ WorkersTyped /\ FocusTyped /\ BookTyped /\ CallTyped /\ SlotsTyped
      /\ ReadersHold /\ FocusKnown
  BY TypedParts
<1>2. queue[w] \in Seq(Events) /\ queue[w] # <<>> /\ queue' = [queue EXCEPT ![w] = Tail(queue[w])]
      /\ UNCHANGED <<extra, reader, callVars, process, seeds, todo>> /\ pc = "waiting"
  BY <1>1 DEF TakesEvent, WorkersTyped
<1>3. Head(queue[w]) \in Events /\ Tail(queue[w]) \in Seq(Events)
  BY <1>2
<1>4. queue' \in [Workers -> Seq(Events)] /\ process' \in [Workers -> Processes]
  BY <1>1, <1>2, <1>3 DEF WorkersTyped
<1>5. CASE IsFailure(Head(queue[w]))
  <2>1. Fails(w, Head(queue[w]) = Eof, slot[w].flight, "assigning")
    BY <1>5 DEF TakesEvent
  <2>2. SomeFails
    BY <2>1, FlightsTyped DEF SomeFails
  <2>3. seeds' \subseteq Workers /\ todo' \subseteq Jobs
    BY <1>1, <1>2 DEF FocusTyped, BookTyped
  <2> QED BY <1>2, <1>4, <2>2, <2>3, FailingTyped
<1>6. CASE ~IsFailure(Head(queue[w]))
  <2>1. /\ pc' = "examining" /\ cur' = w /\ line' = Head(queue[w]) /\ why' = "answer"
        /\ UNCHANGED <<slot, after, drained, rows, failure, crashes, restarts>>
    BY <1>6 DEF TakesEvent
  <2>2. line' \in Lines
    BY <1>1, <1>3, <1>6, <2>1, DataTyped
  <2>3. life' = life /\ run' = run
    BY <1>2 DEF callVars
  <2>4. /\ Workers' = Workers /\ Jobs' = Jobs /\ Lines' = Lines /\ Events' = Events
        /\ Rows' = Rows
    BY <2>3, PoolFixed
  <2>5. FocusTyped' /\ FocusKnown' /\ BookTyped'
    BY <1>1, <1>2, <2>1, <2>2, <2>3, <2>4 DEF FocusTyped, FocusKnown, BookTyped
  <2>6. CallTyped' /\ ReadersHold' /\ WorkersTyped' /\ SlotsTyped'
    BY <1>1, <1>2, <1>4, <2>1, KeptTypes DEF SlotsTyped
  <2> QED BY <2>5, <2>6, TypedParts, PTL
<1> QED
  BY <1>5, <1>6

LEMMA ExaminingKeepsTypes ==
    Typed /\ (FindsFailure \/ ExitsWhileSettling \/ FindsNoFailure \/ PutsBack \/ Judges
              \/ RejectsPending) => Typed'
<1> SUFFICES ASSUME Typed, \/ FindsFailure \/ ExitsWhileSettling \/ FindsNoFailure \/ PutsBack
                           \/ Judges \/ RejectsPending
             PROVE  Typed'
  OBVIOUS
<1>1. /\ WorkersTyped /\ FocusTyped /\ BookTyped /\ CallTyped /\ SlotsTyped
      /\ ReadersHold /\ FocusKnown
  BY TypedParts
<1>2. /\ UNCHANGED <<extra, reader, process, seeds, todo, callVars>>
      /\ pc \in {"examining", "restoring", "settling"}
  BY DEF FindsFailure, ExitsWhileSettling, FindsNoFailure, PutsBack, Judges, RejectsPending,
         workerVars, bookVars
<1>3. cur \in Workers /\ life' = life /\ run' = run
  BY <1>1, <1>2 DEF FocusKnown, callVars
<1>4. /\ Workers' = Workers /\ Jobs' = Jobs /\ Lines' = Lines /\ Events' = Events /\ Rows' = Rows
  BY <1>3, PoolFixed
<1>5. /\ slot[cur].flight \in Jobs \cup {NoJob} /\ queue[cur] \in Seq(Events)
      /\ drained \in Seq(Events)
  BY <1>1, <1>3, FlightsTyped DEF FocusTyped
<1>6. queue' \in [Workers -> Seq(Events)]
  <2>1. CASE FindsFailure \/ FindsNoFailure
    <3>1. <<>> \in Seq(Events)
      OBVIOUS
    <3>2. queue' = queue \/ queue' = [queue EXCEPT ![cur] = <<>>]
      BY <2>1 DEF FindsFailure, FindsNoFailure
    <3> QED BY <1>1, <1>3, <3>1, <3>2 DEF WorkersTyped
  <2>2. CASE PutsBack
    <3>1. drained # <<>> /\ queue' = [queue EXCEPT ![cur] = Append(queue[cur], Head(drained))]
      BY <2>2 DEF PutsBack
    <3> DEFINE e == Head(drained)
    <3>2. e \in Events
      BY <1>5, <3>1
    <3> HIDE DEF e
    <3>3. Append(queue[cur], e) \in Seq(Events)
      BY <1>5, <3>2
    <3> QED BY <1>1, <1>3, <3>1, <3>3 DEF WorkersTyped, e
  <2>3. CASE RejectsPending
    <3>1. queue[cur] # <<>> => Tail(queue[cur]) \in Seq(Events)
      BY <1>5
    <3>2. \/ queue' = queue
          \/ queue[cur] # <<>> /\ queue' = [queue EXCEPT ![cur] = Tail(queue[cur])]
      BY <2>3 DEF RejectsPending
    <3> QED BY <1>1, <1>3, <3>1, <3>2 DEF WorkersTyped
  <2>4. CASE ExitsWhileSettling \/ Judges
    BY <1>1, <2>4 DEF ExitsWhileSettling, Judges, workerVars, WorkersTyped
  <2> QED BY <2>1, <2>2, <2>3, <2>4
<1>7. process' \in [Workers -> Processes] /\ seeds' \subseteq Workers /\ todo' \subseteq Jobs
  BY <1>1, <1>2 DEF WorkersTyped, FocusTyped, BookTyped
<1>8. CASE SomeFails
  BY <1>2, <1>6, <1>7, <1>8, FailingTyped
<1>9. CASE ~SomeFails
  <2>1. ASSUME NEW crashed \in BOOLEAN, NEW job \in {slot[cur].flight, NoJob}
        PROVE  ~Fails(cur, crashed, job, "assigning")
    BY <1>3, <1>5, <1>9 DEF SomeFails
  <2>2. ~FindsFailure /\ ~ExitsWhileSettling
    BY <2>1 DEF FindsFailure, ExitsWhileSettling
  <2>3. /\ pc' \in {"restoring", "settling", "giving"} /\ cur' = cur /\ after' = after
        /\ line' = line /\ why' \in {why, "none"}
        /\ UNCHANGED <<slot, rows, failure, crashes, restarts>>
    <3>1. CASE FindsNoFailure \/ PutsBack
      BY <1>2, <3>1 DEF FindsNoFailure, PutsBack, bookVars
    <3>2. CASE Judges
      BY <2>1, <3>2 DEF Judges
    <3>3. CASE RejectsPending
      BY <2>1, <3>3 DEF RejectsPending
    <3> QED BY <2>2, <3>1, <3>2, <3>3
  <2>4. drained' \in Seq(Events)
    <3>1. drained # <<>> => Tail(drained) \in Seq(Events)
      BY <1>5
    <3>2. \/ drained' = drained \/ drained' = queue[cur]
          \/ drained # <<>> /\ drained' = Tail(drained)
      <4>1. CASE FindsNoFailure \/ PutsBack
        BY <4>1 DEF FindsNoFailure, PutsBack
      <4>2. CASE Judges
        BY <2>1, <4>2 DEF Judges
      <4>3. CASE RejectsPending
        BY <2>1, <4>3 DEF RejectsPending
      <4> QED BY <2>2, <4>1, <4>2, <4>3
    <3> QED BY <1>5, <3>1, <3>2
  <2>5. FocusTyped' /\ FocusKnown' /\ BookTyped'
    BY <1>1, <1>2, <1>3, <1>4, <2>3, <2>4 DEF FocusTyped, FocusKnown, BookTyped
  <2>6. CallTyped' /\ ReadersHold' /\ WorkersTyped' /\ SlotsTyped'
    BY <1>1, <1>2, <1>6, <1>7, <2>3, KeptTypes DEF SlotsTyped
  <2> QED BY <2>5, <2>6, TypedParts, PTL
<1> QED
  BY <1>8, <1>9

LEMMA DispatchTyped ==
    ASSUME Typed, NEW w \in Workers, NEW next \in {"seeding", "waiting"}, Dispatch(w, next),
           pc \in {"seeding", "giving"}, UNCHANGED <<extra, reader, queue, callVars>>,
           seeds' \subseteq Workers
    PROVE  Typed'
<1>1. /\ WorkersTyped /\ FocusTyped /\ BookTyped /\ CallTyped /\ SlotsTyped
      /\ ReadersHold /\ FocusKnown
  BY TypedParts
<1>2. life' = life /\ run' = run
  BY DEF callVars
<1>3. /\ Workers' = Workers /\ Jobs' = Jobs /\ Lines' = Lines /\ Events' = Events /\ Rows' = Rows
  BY <1>2, PoolFixed
<1>4. queue' \in [Workers -> Seq(Events)]
  BY <1>1 DEF WorkersTyped
<1>5. PICK j \in todo :
        /\ todo' = todo \ {j}
        /\ \/ /\ process' = [process EXCEPT
                    ![w].given = @ \cup {[kind |-> "result", job |-> j, run |-> run]},
                    ![w].due = @ \cup {[kind |-> "result", job |-> j, run |-> run]}]
              /\ slot' = [slot EXCEPT ![w].flight = j, ![w].published = NoJob]
              /\ pc' = next /\ cur' = NoWorker
              /\ UNCHANGED <<after, line, drained, why, rows, failure, crashes, restarts>>
           \/ Fails(w, TRUE, j, next) /\ UNCHANGED process
  BY DEF Dispatch
<1>6. j \in Jobs /\ todo' \subseteq Jobs
  BY <1>1, <1>5 DEF BookTyped
<1>7. CASE Fails(w, TRUE, j, next) /\ UNCHANGED process
  <2>1. SomeFails
    BY <1>6, <1>7 DEF SomeFails
  <2>2. process' \in [Workers -> Processes]
    BY <1>1, <1>7 DEF WorkersTyped
  <2> QED BY <1>4, <1>6, <2>1, <2>2, FailingTyped
<1>8. CASE /\ process' = [process EXCEPT
                ![w].given = @ \cup {[kind |-> "result", job |-> j, run |-> run]},
                ![w].due = @ \cup {[kind |-> "result", job |-> j, run |-> run]}]
           /\ slot' = [slot EXCEPT ![w].flight = j, ![w].published = NoJob]
           /\ pc' = next /\ cur' = NoWorker
           /\ UNCHANGED <<after, line, drained, why, rows, failure, crashes, restarts>>
  <2> DEFINE l == [kind |-> "result", job |-> j, run |-> run]
             p == process[w]
             new == [p EXCEPT !.given = p.given \cup {l}, !.due = p.due \cup {l}]
             s == [slot[w] EXCEPT !.flight = j, !.published = NoJob]
  <2>1. l \in Results
    <3>1. life.pool.runs \in Nat /\ run \in 0..life.pool.runs /\ run # 0
      BY <1>1, PoolAssumption DEF CallTyped, FocusKnown
    <3> QED BY <1>6, <3>1 DEF Results
  <2>2. p \in Processes
    BY <1>1 DEF WorkersTyped
  <2>3. new \in Processes
    <3>1. p.given \cup {l} \in SUBSET Results /\ p.due \cup {l} \in SUBSET Results
      BY <2>1, <2>2, ProcessFields
    <3> HIDE DEF l, p
    <3> QED BY <2>2, <3>1, ProcessFields
  <2>4. process' = [process EXCEPT ![w] = new]
    BY <1>1, <1>8, <2>2 DEF WorkersTyped, Processes
  <2>5. s \in Slots /\ slot' = [slot EXCEPT ![w] = s]
    BY <1>1, <1>6, <1>8 DEF SlotsTyped, Slots
  <2> HIDE DEF new, s
  <2>6. process' \in [Workers -> Processes] /\ slot' \in [Workers -> Slots]
    BY <1>1, <2>3, <2>4, <2>5 DEF WorkersTyped, SlotsTyped
  <2>7. CallTyped' /\ ReadersHold' /\ WorkersTyped' /\ SlotsTyped'
    BY <1>4, <2>6, KeptTypes
  <2>8. FocusTyped' /\ FocusKnown' /\ BookTyped'
    BY <1>1, <1>2, <1>3, <1>6, <1>8 DEF FocusTyped, FocusKnown, BookTyped
  <2> QED BY <2>7, <2>8, TypedParts, PTL
<1> QED
  BY <1>5, <1>7, <1>8

LEMMA OthersKeepTypes ==
    Typed /\ (Gives \/ (\E w \in Workers : Seeds(w)) \/ Returns \/ UNCHANGED vars) => Typed'
<1> SUFFICES ASSUME Typed, Gives \/ (\E w \in Workers : Seeds(w)) \/ Returns \/ UNCHANGED vars
             PROVE  Typed'
  OBVIOUS
<1>1. /\ WorkersTyped /\ FocusTyped /\ BookTyped /\ CallTyped /\ SlotsTyped
      /\ ReadersHold /\ FocusKnown
  BY TypedParts
<1>2. CASE Gives
  <2>1. cur \in Workers /\ seeds' \subseteq Workers
    BY <1>1, <1>2 DEF Gives, FocusKnown, FocusTyped
  <2> QED BY <1>2, <2>1, DispatchTyped DEF Gives
<1>3. CASE \E w \in Workers : Seeds(w)
  <2>1. PICK w \in Workers : Seeds(w)
    BY <1>3
  <2>2. seeds' \subseteq Workers
    BY <1>1, <2>1 DEF Seeds, FocusTyped
  <2> QED BY <2>1, <2>2, DispatchTyped DEF Seeds
<1>4. CASE Returns \/ UNCHANGED vars
  <2>1. /\ UNCHANGED <<process, extra, reader, queue, slot, todo, rows, failure, crashes,
                       restarts, primary, life, run>>
        /\ outcome' \in {outcome, "returned"}
        /\ \/ pc' = "idle" /\ NoFocus
           \/ UNCHANGED <<pc, cur, after, line, drained, why, seeds>>
    BY <1>4 DEF Returns, vars, workerVars, focusVars, bookVars, callVars
  <2>2. /\ Workers' = Workers /\ Jobs' = Jobs /\ Results' = Results /\ Lines' = Lines
        /\ Events' = Events /\ Slots' = Slots /\ Rows' = Rows /\ Processes' = Processes
        /\ Readers' = Readers
    BY <2>1, PoolFixed
  <2>3. WorkersTyped' /\ SlotsTyped' /\ ReadersHold' /\ BookTyped' /\ CallTyped'
    BY <1>1, <2>1, <2>2 DEF WorkersTyped, SlotsTyped, ReadersHold, BookTyped, CallTyped
  <2>4. FocusTyped' /\ FocusKnown'
    <3>1. <<>> \in Seq(Events)
      OBVIOUS
    <3> QED BY <1>1, <2>1, <2>2, <3>1 DEF FocusTyped, FocusKnown, NoFocus
  <2> QED BY <2>3, <2>4, TypedParts, PTL
<1> QED
  BY <1>2, <1>3, <1>4

LEMMA InitTyped == PoolInit => Typed
<1> SUFFICES ASSUME PoolInit PROVE Typed
  OBVIOUS
<1>1. /\ life \in [started : BOOLEAN, closed : BOOLEAN, usable : BOOLEAN, restarting : BOOLEAN,
                   pool : Pools]
      /\ life.pool \in Pools
  <2>1. PICK restarting \in BOOLEAN, p \in Pools :
          life = [started |-> FALSE, closed |-> FALSE, usable |-> TRUE,
                  restarting |-> restarting, pool |-> p]
    BY DEF PoolInit
  <2> QED BY <2>1
<1>2. 0 \in 0..life.pool.runs /\ 0 \in 0..life.pool.extra
  BY <1>1, PoolAssumption
<1>3. CallTyped
  BY <1>1, <1>2 DEF PoolInit, CallTyped
<1>4. /\ NoProcess \in Processes /\ NoReader \in Readers /\ RetiredSlot(TRUE) \in Slots
      /\ NoRow \in Rows
  BY <1>3, DataTyped
<1>5. NoReader.at = "done"
  BY DEF NoReader, NewReader
<1>6. <<>> \in Seq(Events)
  OBVIOUS
<1>7. WorkersTyped
  BY <1>2, <1>4, <1>6 DEF PoolInit, WorkersTyped
<1>8. SlotsTyped
  BY <1>4 DEF PoolInit, SlotsTyped
<1>9. ReadersHold
  BY <1>5 DEF PoolInit, ReadersHold
<1>10. FocusTyped /\ FocusKnown
  BY <1>6 DEF PoolInit, FocusTyped, FocusKnown
<1>11. BookTyped
  BY <1>4 DEF PoolInit, BookTyped
<1> QED
  BY <1>3, <1>7, <1>8, <1>9, <1>10, <1>11, TypedParts

LEMMA NextTyped == Typed /\ [PoolNext]_vars => Typed'
<1> SUFFICES ASSUME Typed, [PoolNext]_vars PROVE Typed'
  OBVIOUS
<1>1. CASE CallerStep
  BY <1>1, CallerKeepsTypes
<1>2. CASE CoordinatorStep
  BY <1>2, GivingUpKeepsTypes, LaunchingKeepsTypes, MovesKeepTypes, FailuresKeepTypes,
     TakingKeepsTypes, ExaminingKeepsTypes, OthersKeepTypes DEF CoordinatorStep, GivesUp
<1>3. CASE \E w \in Workers : WorkerStep(w)
  <2>1. PICK w \in Workers : WorkerStep(w)
    BY <1>3
  <2>2. PoolTypeOK' /\ ReadersHold'
    BY <2>1, WorkersKeepTypes, WorkersKeepHolding DEF Typed
  <2>3. UNCHANGED <<pc, cur, after, run>> /\ Workers' = Workers
    BY <2>1, WorkersOnly DEF focusVars, callVars, Workers
  <2>4. FocusKnown'
    BY <2>3 DEF Typed, FocusKnown
  <2> QED BY <2>2, <2>4 DEF Typed
<1>4. CASE UNCHANGED vars
  BY <1>4, OthersKeepTypes
<1> QED
  BY <1>1, <1>2, <1>3, <1>4 DEF PoolNext, WorkerStep

(* In every state of every pool the variables have their types, a reader    *)
(* that is to put an event holds one, and the coordinator knows which       *)
(* worker it is busy with and where it goes on.                             *)
THEOREM PoolTyped == PoolSpec => []Typed
<1> QED
  BY InitTyped, NextTyped, PTL DEF PoolSpec

(***************************************************************************)
(* The jobs.                                                               *)
(***************************************************************************)

(* A worker no job is entered for.                                          *)
Free(w) == slot[w].flight = NoJob /\ slot[w].published = NoJob

Rejecting == pc \in {"examining", "restoring"} /\ why = "reject"
Staged == pc = "settling" \/ (pc \in {"examining", "restoring"} /\ why = "publish")
GoesOn(next) == pc = next \/ (pc = "reaping" /\ after = next)

(* What the coordinator knows of the jobs at each place of a call.          *)
PlacesKnown ==
    /\ pc \in {"idle", "starting", "calling", "returning"} => \A w \in Workers : Free(w)
    /\ pc = "returning" \/ GoesOn("settling_run") =>
         todo = {} /\ \A w \in Workers : slot[w].flight = NoJob
    /\ GoesOn("seeding") => \A w \in seeds : slot[w].flight = NoJob
    /\ pc \in {"assigning", "giving"} \/ Rejecting => slot[cur].flight = NoJob
    /\ pc = "giving" \/ Rejecting => slot[cur].alive
    /\ Staged => slot[cur].flight # NoJob
    /\ pc = "reaping" => Free(cur)
    /\ \A w \in Workers : ~slot[w].alive => Free(w)
    /\ pc \notin {"idle", "starting"} \/ (pc = "starting" /\ after = "calling") =>
         outcome = "running"

(* A published job has its row.                                             *)
PublishedHaveRows ==
    \A w \in Workers : slot[w].published # NoJob =>
        rows[slot[w].published] = FailedRow \/ rows[slot[w].published].status = "completed"

BookHolds == EachJobInOnePlace /\ PlacesKnown /\ PublishedHaveRows

FliesAtOne(j) ==
    \E w \in Workers : slot[w].flight = j /\ \A v \in Workers : slot[v].flight = j => v = w
Placed ==
    \A j \in Jobs :
        \/ j \in todo /\ (\A w \in Workers : slot[w].flight # j) /\ ~HasRow(j)
        \/ j \notin todo /\ FliesAtOne(j) /\ ~HasRow(j)
        \/ j \notin todo /\ (\A w \in Workers : slot[w].flight # j) /\ HasRow(j)

AllHaveRows == \A j \in Jobs : HasRow(j)
ReturnedHaveRows == outcome = "returned" => AllHaveRows

LEMMA PlacedIsOnePlace ==
    EachJobInOnePlace <=> (Working => Placed) /\ ReturnedHaveRows
<1>1. ASSUME NEW j
      PROVE  /\ InFlight(j) = {} <=> \A w \in Workers : slot[w].flight # j
             /\ (\E w \in Workers : InFlight(j) = {w}) <=> FliesAtOne(j)
  <2>1. \A w : w \in InFlight(j) <=> w \in Workers /\ slot[w].flight = j
    BY DEF InFlight
  <2>2. InFlight(j) = {} <=> \A w \in Workers : slot[w].flight # j
    BY <2>1
  <2>3. ASSUME NEW w \in Workers, InFlight(j) = {w} PROVE FliesAtOne(j)
    BY <2>1, <2>3 DEF FliesAtOne
  <2>4. ASSUME FliesAtOne(j) PROVE \E w \in Workers : InFlight(j) = {w}
    <3>1. PICK w \in Workers : slot[w].flight = j /\ \A v \in Workers : slot[v].flight = j => v = w
      BY <2>4 DEF FliesAtOne
    <3>2. InFlight(j) = {w}
      BY <2>1, <3>1
    <3> QED BY <3>2
  <2> QED BY <2>2, <2>3, <2>4
<1> QED
  BY <1>1 DEF EachJobInOnePlace, Placed, AllHaveRows, ReturnedHaveRows

LEMMA BookParts ==
    BookHolds <=> /\ Working => Placed
                  /\ ReturnedHaveRows
                  /\ PlacesKnown /\ PublishedHaveRows
  BY PlacedIsOnePlace DEF BookHolds

JobsForward ==
    /\ todo' \subseteq todo
    /\ \A j \in Jobs : HasRow(j) =>
          \/ rows'[j] = rows[j]
          \/ rows[j].status = "completed" /\ rows'[j] = FailedRow

LEMMA NamesApart ==
    Typed => /\ NoJob \notin Jobs /\ NoWorker \notin Workers
             /\ \A w \in Workers : /\ slot[w].flight \in Jobs \cup {NoJob}
                                   /\ slot[w].published \in Jobs \cup {NoJob}
             /\ rows \in [Jobs -> Rows] /\ todo \subseteq Jobs
             /\ FailedRow.status = "failed" /\ NoRow.status = "none"
             /\ InvalidRow.status = "invalid"
<1> SUFFICES ASSUME Typed
             PROVE  /\ NoJob \notin Jobs /\ NoWorker \notin Workers
                    /\ \A w \in Workers : /\ slot[w].flight \in Jobs \cup {NoJob}
                                          /\ slot[w].published \in Jobs \cup {NoJob}
                    /\ rows \in [Jobs -> Rows] /\ todo \subseteq Jobs
                    /\ FailedRow.status = "failed" /\ NoRow.status = "none"
                    /\ InvalidRow.status = "invalid"
  OBVIOUS
<1>1. life.pool \in Pools
  BY TypedParts DEF CallTyped
<1>2. NoJob \notin Jobs /\ NoWorker \notin Workers
  BY <1>1, PoolAssumption DEF Jobs, Workers
<1>3. rows \in [Jobs -> Rows] /\ todo \subseteq Jobs
  BY TypedParts DEF BookTyped
<1>4. FailedRow.status = "failed" /\ NoRow.status = "none" /\ InvalidRow.status = "invalid"
  BY DEF FailedRow, NoRow, InvalidRow
<1> QED
  BY <1>2, <1>3, <1>4, FlightsTyped

(* A step that enters no row and moves no job, but may forget what was      *)
(* published.                                                               *)
LEMMA KeptBook ==
    ASSUME Typed, BookHolds, UNCHANGED <<todo, rows>>, life'.pool = life.pool,
           \A w \in Workers : /\ slot'[w].flight = slot[w].flight
                              /\ slot'[w].published \in {slot[w].published, NoJob},
           Working' => Working,
           outcome' = "returned" => outcome = "returned" \/ pc = "returning",
           PlacesKnown'
    PROVE  BookHolds' /\ JobsForward
<1>1. Workers' = Workers /\ Jobs' = Jobs
  BY PoolFixed
<1>2. /\ Working => Placed
      /\ ReturnedHaveRows
      /\ PlacesKnown /\ PublishedHaveRows
  BY BookParts
<1>3. Working' => Placed'
  BY <1>1, <1>2 DEF Placed, FliesAtOne, HasRow
<1>4. pc = "returning" => AllHaveRows
  <2> SUFFICES ASSUME pc = "returning", NEW j \in Jobs PROVE HasRow(j)
    BY DEF AllHaveRows
  <2>1. todo = {} /\ \A w \in Workers : slot[w].flight = NoJob
    BY <1>2 DEF PlacesKnown
  <2> QED BY <1>2, <2>1, NamesApart DEF Working, Placed, FliesAtOne
<1>5. ReturnedHaveRows'
  BY <1>1, <1>2, <1>4 DEF HasRow, AllHaveRows, ReturnedHaveRows
<1>6. PublishedHaveRows'
  BY <1>1, <1>2 DEF PublishedHaveRows, FailedRow
<1>7. BookHolds'
  BY <1>3, <1>5, <1>6, BookParts, PTL
<1> QED
  BY <1>7 DEF JobsForward

(* The step that gives a job its row, or takes a completed row back.        *)
LEMMA SettledBook ==
    ASSUME Typed, BookHolds, Working, life'.pool = life.pool, outcome' = outcome,
           NEW w \in Workers, NEW job \in Jobs \cup {NoJob}, NEW row,
           row = FailedRow \/ (row.status = "completed" /\ job = slot[w].flight),
           slot[w].flight \in {NoJob, job},
           job \in {NoJob, slot[w].flight, slot[w].published} \cup todo,
           todo' = todo \ {job},
           \A j \in Jobs : rows'[j] = IF j = job THEN row ELSE rows[j],
           \A v \in Workers : v # w => slot'[v] = slot[v],
           slot'[w].flight = NoJob, slot'[w].published \in {NoJob, job},
           PlacesKnown'
    PROVE  BookHolds' /\ JobsForward
<1>1. Workers' = Workers /\ Jobs' = Jobs
  BY PoolFixed
<1>2. Placed /\ ReturnedHaveRows' /\ PublishedHaveRows
  BY BookParts DEF PlacesKnown, Working, ReturnedHaveRows
<1>3. row.status # "none" /\ FailedRow.status = "failed"
  BY NamesApart
<1>4. Placed'
  <2> SUFFICES ASSUME NEW j \in Jobs
               PROVE  \/ j \in todo' /\ (\A v \in Workers : slot'[v].flight # j) /\ ~HasRow(j)'
                      \/ j \notin todo' /\ FliesAtOne(j)' /\ ~HasRow(j)'
                      \/ j \notin todo' /\ (\A v \in Workers : slot'[v].flight # j) /\ HasRow(j)'
    BY <1>1 DEF Placed
  <2>1. j # NoJob
    BY NamesApart
  <2>2. CASE j = job
    <3>1. HasRow(j)' /\ j \notin todo'
      BY <1>3, <2>2 DEF HasRow
    <3>2. ASSUME NEW v \in Workers, v # w PROVE slot[v].flight # j
      BY <1>2, <2>1, <2>2, <3>2 DEF Placed, FliesAtOne, PublishedHaveRows, HasRow, FailedRow
    <3>3. \A v \in Workers : slot'[v].flight # j
      BY <2>1, <3>2
    <3> QED BY <3>1, <3>3
  <2>3. CASE j # job
    <3>1. HasRow(j)' <=> HasRow(j)
      BY <2>3 DEF HasRow
    <3>2. j \in todo' <=> j \in todo
      BY <2>3
    <3>3. \A v \in Workers : slot'[v].flight = j <=> slot[v].flight = j
      BY <2>1, <2>3
    <3> QED BY <1>1, <1>2, <3>1, <3>2, <3>3 DEF Placed, FliesAtOne
  <2> QED BY <2>2, <2>3
<1>5. PublishedHaveRows'
  <2> SUFFICES ASSUME NEW v \in Workers, slot'[v].published # NoJob
               PROVE  \/ rows'[slot'[v].published] = FailedRow
                      \/ rows'[slot'[v].published].status = "completed"
    BY <1>1 DEF PublishedHaveRows, FailedRow
  <2>1. CASE v = w
    BY <2>1
  <2>2. CASE v # w
    <3>1. slot'[v].published = slot[v].published /\ slot[v].published \in Jobs
      BY <2>2, NamesApart
    <3> QED BY <1>2, <3>1 DEF PublishedHaveRows
  <2> QED BY <2>1, <2>2
<1>6. JobsForward
  <2> SUFFICES ASSUME NEW j \in Jobs, HasRow(j)
               PROVE  rows'[j] = rows[j] \/ (rows[j].status = "completed" /\ rows'[j] = FailedRow)
    BY DEF JobsForward
  <2>1. CASE j # job
    BY <2>1
  <2>2. CASE j = job
    <3>1. j # NoJob /\ j \notin todo /\ \A v \in Workers : slot[v].flight # j
      BY <1>2, NamesApart DEF Placed, FliesAtOne
    <3> QED BY <1>2, <2>2, <3>1 DEF PublishedHaveRows
  <2> QED BY <2>1, <2>2
<1>7. BookHolds'
  BY <1>2, <1>4, <1>5, BookParts, PTL
<1> QED
  BY <1>6, <1>7

(* The step that gives a job out.                                           *)
LEMMA GivenBook ==
    ASSUME Typed, BookHolds, Working, life'.pool = life.pool, outcome' = outcome, rows' = rows,
           NEW w \in Workers, NEW job \in todo, slot[w].flight = NoJob,
           todo' = todo \ {job},
           \A v \in Workers : v # w => slot'[v] = slot[v],
           slot'[w].flight = job, slot'[w].published = NoJob,
           PlacesKnown'
    PROVE  BookHolds' /\ JobsForward
<1>1. Workers' = Workers /\ Jobs' = Jobs
  BY PoolFixed
<1>2. Placed /\ ReturnedHaveRows' /\ PublishedHaveRows
  BY BookParts DEF PlacesKnown, Working, ReturnedHaveRows
<1>3. Placed'
  <2> SUFFICES ASSUME NEW j \in Jobs
               PROVE  \/ j \in todo' /\ (\A v \in Workers : slot'[v].flight # j) /\ ~HasRow(j)'
                      \/ j \notin todo' /\ FliesAtOne(j)' /\ ~HasRow(j)'
                      \/ j \notin todo' /\ (\A v \in Workers : slot'[v].flight # j) /\ HasRow(j)'
    BY <1>1 DEF Placed
  <2>1. j # NoJob /\ (HasRow(j)' <=> HasRow(j))
    BY NamesApart DEF HasRow
  <2>2. CASE j = job
    <3>1. j \notin todo' /\ ~HasRow(j) /\ \A v \in Workers : slot[v].flight # j
      BY <1>2, <2>2 DEF Placed
    <3>2. FliesAtOne(j)'
      BY <1>1, <2>2, <3>1 DEF FliesAtOne
    <3> QED BY <2>1, <3>1, <3>2
  <2>3. CASE j # job
    <3>1. \A v \in Workers : slot'[v].flight = j <=> slot[v].flight = j
      BY <2>1, <2>3
    <3> QED BY <1>1, <1>2, <2>1, <2>3, <3>1 DEF Placed, FliesAtOne
  <2> QED BY <2>2, <2>3
<1>4. PublishedHaveRows'
  BY <1>1, <1>2 DEF PublishedHaveRows, FailedRow
<1>5. BookHolds'
  BY <1>2, <1>3, <1>4, BookParts, PTL
<1> QED
  BY <1>5 DEF JobsForward

LEMMA FailedBook ==
    ASSUME Typed, BookHolds, Working, UNCHANGED callVars,
           NEW w \in Workers, NEW crashed, NEW job \in Jobs \cup {NoJob},
           NEW next \in {"seeding", "assigning", "waiting", "settling_run"},
           Fails(w, crashed, job, next),
           slot[w].flight \in {NoJob, job},
           \/ todo' = todo /\ job \in {NoJob, slot[w].flight, slot[w].published}
           \/ job \in todo /\ todo' = todo \ {job},
           seeds' \subseteq seeds,
           next = "seeding" => pc = "seeding",
           next = "settling_run" => pc = "settling_run"
    PROVE  BookHolds' /\ JobsForward
<1>1. life' = life /\ outcome' = outcome
  BY DEF callVars
<1>2. Workers' = Workers /\ Jobs' = Jobs
  BY <1>1, PoolFixed
<1>3. PlacesKnown /\ Placed /\ PublishedHaveRows
  BY BookParts
<1>4. todo' = todo \ {job}
  BY <1>3, NamesApart DEF Placed, FliesAtOne, PublishedHaveRows, HasRow
<1>5. /\ \A v \in Workers : v # w => slot'[v] = slot[v]
      /\ slot'[w].flight = NoJob /\ slot'[w].published = NoJob /\ slot'[w].alive = slot[w].alive
  BY TypedParts DEF SlotsTyped, Slots, Fails
<1>6. \A j \in Jobs : rows'[j] = IF j = job THEN FailedRow ELSE rows[j]
  BY NamesApart DEF Fails
<1>7. pc' = "reaping" /\ cur' = w /\ after' = next
  BY DEF Fails
<1>8. PlacesKnown'
  <2>1. next = "settling_run" => todo' = {} /\ \A v \in Workers : slot'[v].flight = NoJob
    BY <1>3, <1>4, <1>5 DEF PlacesKnown, GoesOn
  <2>2. next = "seeding" => \A v \in seeds' : slot'[v].flight = NoJob
    BY <1>3, <1>5, TypedParts DEF PlacesKnown, GoesOn, FocusTyped
  <2>3. \A v \in Workers : ~slot'[v].alive => slot'[v].flight = NoJob /\ slot'[v].published = NoJob
    BY <1>3, <1>5 DEF PlacesKnown, Free
  <2>4. outcome' = "running"
    BY <1>1, <1>3 DEF PlacesKnown, Working
  <2> QED
    BY <1>2, <1>5, <1>7, <2>1, <2>2, <2>3, <2>4 DEF PlacesKnown, Free, GoesOn, Rejecting, Staged
<1> QED
  BY <1>1, <1>4, <1>5, <1>6, <1>8, SettledBook

LEMMA WorkersKeepBook ==
    ASSUME Typed, BookHolds, NEW w \in Workers, WorkerStep(w)
    PROVE  BookHolds' /\ JobsForward
<1>1. UNCHANGED <<slot, pc, focusVars, bookVars, callVars>> /\ Workers' = Workers
  BY WorkersOnly DEF callVars, Workers
<1>2. PlacesKnown'
  BY <1>1, BookParts DEF PlacesKnown, Free, GoesOn, Rejecting, Staged, focusVars, bookVars, callVars
<1> QED
  BY <1>1, <1>2, KeptBook DEF Working, bookVars, callVars

LEMMA GivingUpKeepsBook == Typed /\ BookHolds /\ GivesUp => BookHolds' /\ JobsForward
<1> SUFFICES ASSUME Typed, BookHolds, GivesUp PROVE BookHolds' /\ JobsForward
  OBVIOUS
<1>1. FailsClosed /\ life'.pool = life.pool
  BY GivingUpCloses, TypedParts DEF FailsClosed, CallTyped
<1>2. Workers' = Workers /\ Jobs' = Jobs
  BY <1>1, PoolFixed
<1>3. PICK stuck \in SUBSET Running : ShutsDown(stuck)
  BY <1>1 DEF FailsClosed
<1>4. \A w \in Workers : slot'[w].flight = NoJob /\ slot'[w].published = NoJob
  BY <1>3 DEF ShutsDown, RetiredSlot, NewSlot
<1>5. pc' = "idle" /\ outcome' = "raised" /\ todo' = {}
  BY <1>1 DEF FailsClosed
<1>6. PlacesKnown'
  BY <1>2, <1>4, <1>5 DEF PlacesKnown, Free, GoesOn, Rejecting, Staged
<1>7. PublishedHaveRows'
  BY <1>2, <1>4 DEF PublishedHaveRows
<1>8. ReturnedHaveRows'
  BY <1>5 DEF ReturnedHaveRows
<1>9. BookHolds'
  <2>1. ~Working'
    BY <1>5 DEF Working
  <2> QED BY <1>6, <1>7, <1>8, <2>1, BookParts, PTL
<1>10. JobsForward
  <2> SUFFICES ASSUME NEW j \in Jobs, HasRow(j) PROVE rows'[j] = rows[j]
    BY <1>5 DEF JobsForward
  <2>1. \A w \in Workers : slot[w].flight # j
    BY BookParts, NamesApart DEF Working, Placed, FliesAtOne, PlacesKnown, Free
  <2> QED BY <1>1, <2>1 DEF FailsClosed
<1> QED
  BY <1>9, <1>10

LEMMA CallerKeepsBook ==
    Typed /\ BookHolds /\ (CallerStep \/ Launches \/ CannotLaunch) => BookHolds' /\ JobsForward
<1> SUFFICES ASSUME Typed, BookHolds, CallerStep \/ Launches \/ CannotLaunch
             PROVE  BookHolds' /\ JobsForward
  OBVIOUS
<1>1. PlacesKnown /\ CallTyped /\ FocusKnown
  BY BookParts, TypedParts
<1>2. UNCHANGED <<todo, rows>> /\ life'.pool = life.pool /\ ~Working
  BY <1>1 DEF CallerStep, CallsStart, CallsUnusable, CallsRun, Closes, Launches, CannotLaunch,
     bookVars, callVars, CallTyped, Working
<1>3. Workers' = Workers
  BY <1>2, PoolFixed
<1>4. \A w \in Workers : Free(w)
  BY <1>1, <1>2 DEF PlacesKnown, Working
<1>5. \A w \in Workers : slot'[w].flight = NoJob /\ slot'[w].published = NoJob
  <2>1. CASE UNCHANGED slot
    BY <1>4, <2>1 DEF Free
  <2>2. CASE Closes
    <3>1. PICK stuck \in SUBSET Running : ShutsDown(stuck)
      BY <2>2 DEF Closes
    <3> QED BY <3>1 DEF ShutsDown, RetiredSlot, NewSlot
  <2>3. CASE Launches
    BY <2>3 DEF Launches, NewSlot
  <2>4. CASE CannotLaunch
    <3>1. PICK stuck \in SUBSET Workers : slot' = [w \in Workers |-> RetiredSlot(w \notin stuck)]
      BY <2>4 DEF CannotLaunch
    <3> QED BY <3>1 DEF RetiredSlot, NewSlot
  <2> QED
    BY <2>1, <2>2, <2>3, <2>4 DEF CallerStep, CallsStart, CallsUnusable, CallsRun
<1>6. /\ pc' \in {"idle", "starting", "calling"}
      /\ pc' = "calling" \/ (pc' = "starting" /\ after' = "calling") => outcome' = "running"
      /\ outcome' = "returned" => outcome = "returned"
  BY <1>1 DEF CallerStep, CallsStart, CallsUnusable, CallsRun, Closes, Launches, CannotLaunch,
     PlacesKnown, FocusKnown, callVars, NoFocus
<1>7. PlacesKnown'
  BY <1>3, <1>5, <1>6 DEF PlacesKnown, Free, GoesOn, Rejecting, Staged
<1>8. ~Working'
  BY <1>6 DEF Working
<1>9. \A w \in Workers : /\ slot'[w].flight = slot[w].flight
                         /\ slot'[w].published \in {slot[w].published, NoJob}
  BY <1>4, <1>5 DEF Free
<1> QED
  BY <1>2, <1>6, <1>7, <1>8, <1>9, KeptBook

(* Steps that leave the slots and the jobs alone.                           *)
QuietMoves ==
    IsSeeded \/ Terminates \/ LeavesLoop \/ FindsNoFailure \/ PutsBack \/ HasSettled
    \/ ChecksPending \/ NothingToGive \/ Returns

LEMMA QuietMovesKeepBook ==
    Typed /\ BookHolds /\ (QuietMoves \/ UNCHANGED vars) => BookHolds' /\ JobsForward
<1> SUFFICES ASSUME Typed, BookHolds, QuietMoves \/ UNCHANGED vars PROVE BookHolds' /\ JobsForward
  OBVIOUS
<1>1. /\ UNCHANGED <<slot, todo, rows>> /\ life' = life /\ Workers' = Workers
      /\ outcome' = "returned" => outcome = "returned" \/ pc = "returning"
      /\ Working' => Working
  BY DEF QuietMoves, IsSeeded, Terminates, LeavesLoop, FindsNoFailure, PutsBack, HasSettled,
     ChecksPending, NothingToGive, Returns, vars, bookVars, callVars, Working, Workers
<1>2. PlacesKnown /\ FocusTyped /\ FocusKnown
  BY BookParts, TypedParts
<1>3. PlacesKnown'
  <2>1. CASE IsSeeded
    BY <1>1, <1>2, <2>1 DEF IsSeeded, PlacesKnown, Free, GoesOn, Rejecting, Staged, callVars
  <2>2. CASE Terminates \/ UNCHANGED vars
    BY <1>1, <1>2, <2>2 DEF Terminates, PlacesKnown, Free, GoesOn, Rejecting, Staged, vars,
       focusVars, callVars
  <2>3. CASE LeavesLoop
    BY <1>1, <1>2, <2>3 DEF LeavesLoop, Busy, PlacesKnown, Free, GoesOn, Rejecting, Staged,
       focusVars, callVars
  <2>4. CASE FindsNoFailure
    BY <1>1, <1>2, <2>4 DEF FindsNoFailure, PlacesKnown, Free, GoesOn, Rejecting, Staged, callVars
  <2>5. CASE PutsBack
    BY <1>1, <1>2, <2>5 DEF PutsBack, PlacesKnown, Free, GoesOn, Rejecting, Staged, callVars
  <2>6. CASE HasSettled
    BY <1>1, <1>2, <2>6 DEF HasSettled, PlacesKnown, Free, GoesOn, Rejecting, Staged, callVars
  <2>7. CASE ChecksPending
    BY <1>1, <1>2, <2>7 DEF ChecksPending, PlacesKnown, Free, GoesOn, Rejecting, Staged, callVars
  <2>8. CASE NothingToGive
    BY <1>1, <1>2, <2>8 DEF NothingToGive, PlacesKnown, Free, GoesOn, Rejecting, Staged, callVars
  <2>9. CASE Returns
    BY <1>1, <1>2, <2>9 DEF Returns, PlacesKnown, Free, GoesOn, Rejecting, Staged
  <2> QED
    BY <2>1, <2>2, <2>3, <2>4, <2>5, <2>6, <2>7, <2>8, <2>9 DEF QuietMoves
<1> QED
  BY <1>1, <1>3, KeptBook

(* Steps that replace a slot or forget what was published.                  *)
LEMMA SlotMovesKeepBook ==
    Typed /\ BookHolds /\ (IsReaped \/ Replaces \/ RunHasSettled) => BookHolds' /\ JobsForward
<1> SUFFICES ASSUME Typed, BookHolds, IsReaped \/ Replaces \/ RunHasSettled
             PROVE  BookHolds' /\ JobsForward
  OBVIOUS
<1>1. /\ UNCHANGED <<todo, rows>> /\ life' = life /\ outcome' = outcome /\ Workers' = Workers
      /\ Working
  BY DEF IsReaped, Replaces, RunHasSettled, bookVars, callVars, Working, Workers
<1>2. PlacesKnown /\ FocusTyped /\ FocusKnown /\ slot \in [Workers -> Slots]
  BY BookParts, TypedParts DEF SlotsTyped
<1>3. \A w \in Workers : /\ slot'[w].flight = slot[w].flight
                         /\ slot'[w].published \in {slot[w].published, NoJob}
                         /\ ~slot'[w].alive => Free(w)'
  <2>1. CASE IsReaped
    <3>1. cur \in Workers /\ Free(cur)
      BY <1>2, <2>1 DEF FocusKnown, PlacesKnown, IsReaped
    <3>2. slot'[cur].flight = NoJob /\ slot'[cur].published = NoJob
      BY <1>2, <2>1, <3>1 DEF IsReaped, RetiredSlot, NewSlot
    <3>3. \A w \in Workers : w # cur => slot'[w] = slot[w]
      BY <1>2, <2>1 DEF IsReaped
    <3> QED BY <1>2, <3>1, <3>2, <3>3 DEF PlacesKnown, Free
  <2>2. CASE Replaces
    <3>1. cur \in Workers /\ Free(cur)
      BY <1>2, <2>2 DEF FocusKnown, PlacesKnown, Replaces
    <3>2. slot'[cur] = NewSlot
      BY <1>2, <2>2, <3>1 DEF Replaces
    <3>3. \A w \in Workers : w # cur => slot'[w] = slot[w]
      BY <1>2, <2>2 DEF Replaces
    <3> QED BY <1>2, <3>1, <3>2, <3>3 DEF PlacesKnown, Free, NewSlot
  <2>3. CASE RunHasSettled
    <3>1. \A w \in Workers : slot'[w] = [slot[w] EXCEPT !.published = NoJob]
      BY <2>3 DEF RunHasSettled
    <3>2. \A w \in Workers : /\ slot'[w].flight = slot[w].flight /\ slot'[w].published = NoJob
                             /\ slot'[w].alive = slot[w].alive
      BY <1>2, <3>1 DEF Slots
    <3> QED BY <1>2, <3>2 DEF PlacesKnown, Free
  <2> QED BY <2>1, <2>2, <2>3
<1>4. PlacesKnown'
  <2>1. CASE IsReaped
    <3>1. slot'[cur].flight = NoJob
      BY <1>2, <1>3, <2>1 DEF PlacesKnown, FocusKnown, IsReaped, Free
    <3>2. /\ pc' = after /\ after \in {"seeding", "assigning", "waiting", "settling_run"}
          /\ seeds' = seeds /\ todo' = todo /\ pc = "reaping"
          /\ after = "assigning" => cur' = cur
      BY <1>1, <1>2, <2>1 DEF IsReaped, FocusKnown
    <3>3. after = "settling_run" => todo' = {} /\ \A w \in Workers : slot'[w].flight = NoJob
      BY <1>2, <1>3, <3>2 DEF PlacesKnown, GoesOn
    <3>4. after = "seeding" => \A w \in seeds' : slot'[w].flight = NoJob
      BY <1>2, <1>3, <3>2 DEF PlacesKnown, GoesOn, FocusTyped
    <3>5. outcome' = "running"
      BY <1>1, <1>2, <3>2 DEF PlacesKnown
    <3> QED
      BY <1>1, <1>3, <3>1, <3>2, <3>3, <3>4, <3>5 DEF PlacesKnown, Free, GoesOn, Rejecting, Staged
  <2>2. CASE Replaces
    <3>1. cur \in Workers /\ slot[cur].flight = NoJob /\ outcome = "running" /\ cur' = cur
      BY <1>2, <2>2 DEF FocusKnown, PlacesKnown, Replaces, Free, focusVars
    <3>2. slot'[cur].alive
      BY <1>2, <2>2, <3>1 DEF Replaces, NewSlot
    <3>3. pc' = "giving"
      BY <2>2 DEF Replaces
    <3> QED
      BY <1>1, <1>3, <3>1, <3>2, <3>3 DEF PlacesKnown, Free, GoesOn, Rejecting, Staged
  <2>3. CASE RunHasSettled
    <3>1. \A w \in Workers : slot'[w].published = NoJob
      BY <1>2, <2>3 DEF RunHasSettled, Slots
    <3>2. /\ todo = {} /\ (\A w \in Workers : slot[w].flight = NoJob) /\ outcome = "running"
          /\ pc' = "returning"
      BY <1>2, <2>3 DEF RunHasSettled, PlacesKnown, GoesOn
    <3> QED
      BY <1>1, <1>3, <3>1, <3>2 DEF PlacesKnown, Free, GoesOn, Rejecting, Staged
  <2> QED BY <2>1, <2>2, <2>3
<1> QED
  BY <1>1, <1>3, <1>4, KeptBook

(* Steps that only fail a worker.                                           *)
LEMMA FailuresKeepBook ==
    ASSUME Typed, BookHolds, NEW w \in Workers,
           \/ SeesExit(w) \/ ExitsLate(w) \/ WritesLate(w)
           \/ (w = cur /\ (FindsFailure \/ ExitsWhileSettling))
    PROVE  BookHolds' /\ JobsForward
<1>1. /\ UNCHANGED <<todo, seeds, callVars>> /\ Working
  BY DEF SeesExit, ExitsLate, WritesLate, FindsFailure, ExitsWhileSettling, Working
<1>2. PICK crashed \in BOOLEAN, job \in Jobs \cup {NoJob}, next \in {"assigning", "settling_run"} :
        /\ Fails(w, crashed, job, next)
        /\ slot[w].flight \in {NoJob, job}
        /\ job \in {NoJob, slot[w].flight, slot[w].published}
        /\ next = "settling_run" => pc = "settling_run"
  <2>1. CASE SeesExit(w)
    BY <2>1, NamesApart DEF SeesExit
  <2>2. CASE ExitsLate(w)
    BY <2>2, NamesApart DEF ExitsLate, FailsLate
  <2>3. CASE WritesLate(w)
    BY <2>3, NamesApart DEF WritesLate, FailsLate
  <2>4. CASE w = cur /\ FindsFailure
    BY <2>4, NamesApart DEF FindsFailure
  <2>5. CASE w = cur /\ ExitsWhileSettling
    BY <2>5, NamesApart DEF ExitsWhileSettling
  <2> QED BY <2>1, <2>2, <2>3, <2>4, <2>5
<1> QED
  BY <1>1, <1>2, FailedBook

(* Steps that go on with the worker of the line, or fail it.                *)
LEMMA JudgingKeepsBook ==
    ASSUME Typed, BookHolds,
           \/ Judges \/ RejectsPending \/ \E w \in Workers : TakesEvent(w)
    PROVE  BookHolds' /\ JobsForward
<1>1. /\ UNCHANGED <<todo, seeds, callVars>> /\ Working /\ life' = life /\ outcome' = outcome
      /\ Workers' = Workers
  BY DEF Judges, RejectsPending, TakesEvent, Working, callVars, Workers
<1>2. PlacesKnown /\ FocusKnown
  BY BookParts, TypedParts
<1>3. CASE \E w \in Workers, crashed \in BOOLEAN, job \in Jobs \cup {NoJob} :
             /\ Fails(w, crashed, job, "assigning")
             /\ slot[w].flight \in {NoJob, job} /\ job \in {NoJob, slot[w].flight}
  BY <1>1, <1>3, FailedBook
<1>4. CASE /\ UNCHANGED <<slot, rows>> /\ pc' \in {"settling", "giving", "examining"}
           /\ pc' = "settling" => cur' = cur /\ slot[cur].flight # NoJob
           /\ pc' = "giving" => cur' = cur /\ slot[cur].flight = NoJob /\ slot[cur].alive
           /\ pc' = "examining" => why' = "answer"
  <2>1. PlacesKnown'
    BY <1>1, <1>2, <1>4 DEF PlacesKnown, Free, GoesOn, Rejecting, Staged, Working
  <2>2. Working'
    BY <1>4 DEF Working
  <2> QED BY <1>1, <1>4, <2>1, KeptBook
<1>5. CASE Judges
  <2>1. cur \in Workers
    BY <1>2, <1>5 DEF FocusKnown, Judges
  <2>2. CASE IsDue
    <3>1. UNCHANGED <<slot, rows>> /\ pc' = "settling" /\ cur' = cur /\ slot[cur].flight # NoJob
      BY <1>5, <2>2 DEF Judges, IsDue
    <3> QED BY <1>4, <3>1
  <2>3. CASE ~IsDue
    <3>1. Fails(cur, FALSE, slot[cur].flight, "assigning")
      BY <1>5, <2>3 DEF Judges
    <3> QED BY <1>3, <2>1, <3>1, NamesApart
  <2> QED BY <2>2, <2>3
<1>6. CASE RejectsPending
  <2>1. cur \in Workers /\ slot[cur].flight = NoJob /\ slot[cur].alive
    BY <1>2, <1>6 DEF FocusKnown, PlacesKnown, Rejecting, RejectsPending
  <2>2. CASE queue[cur] = <<>>
    <3>1. UNCHANGED <<slot, rows>> /\ pc' = "giving" /\ cur' = cur
      BY <1>6, <2>2 DEF RejectsPending
    <3> QED BY <1>4, <2>1, <3>1
  <2>3. CASE queue[cur] # <<>>
    <3>1. Fails(cur, FALSE, NoJob, "assigning")
      BY <1>6, <2>3 DEF RejectsPending
    <3> QED BY <1>3, <2>1, <3>1
  <2> QED BY <2>2, <2>3
<1>7. CASE \E w \in Workers : TakesEvent(w)
  <2>1. PICK w \in Workers : TakesEvent(w)
    BY <1>7
  <2>2. CASE IsFailure(Head(queue[w]))
    <3>1. PICK crashed \in BOOLEAN : Fails(w, crashed, slot[w].flight, "assigning")
      BY <2>1, <2>2 DEF TakesEvent
    <3> QED BY <1>3, <3>1, NamesApart
  <2>3. CASE ~IsFailure(Head(queue[w]))
    <3>1. UNCHANGED <<slot, rows>> /\ pc' = "examining" /\ why' = "answer"
      BY <2>1, <2>3 DEF TakesEvent
    <3> QED BY <1>4, <3>1
  <2> QED BY <2>2, <2>3
<1> QED
  BY <1>5, <1>6, <1>7

LEMMA PublishingKeepsBook == Typed /\ BookHolds /\ Publishes => BookHolds' /\ JobsForward
<1> SUFFICES ASSUME Typed, BookHolds, Publishes PROVE BookHolds' /\ JobsForward
  OBVIOUS
<1>1. PlacesKnown /\ FocusKnown /\ slot \in [Workers -> Slots] /\ Placed
  BY BookParts, TypedParts DEF SlotsTyped, Publishes, Working
<1>2. /\ cur \in Workers /\ slot[cur].flight # NoJob /\ slot[cur].flight \in Jobs
      /\ outcome = "running" /\ Working
  BY <1>1, NamesApart DEF Publishes, FocusKnown, PlacesKnown, Staged, Working
<1>3. /\ todo' = todo /\ life' = life /\ outcome' = outcome /\ Workers' = Workers
      /\ pc' = "assigning" /\ cur' = cur
      /\ slot' = [slot EXCEPT ![cur].published = slot[cur].flight, ![cur].flight = NoJob]
      /\ rows' = [rows EXCEPT ![slot[cur].flight] = CompletedRow(line)]
  BY DEF Publishes, callVars, Workers
<1>4. /\ \A v \in Workers : v # cur => slot'[v] = slot[v]
      /\ slot'[cur].flight = NoJob /\ slot'[cur].published = slot[cur].flight
      /\ slot'[cur].alive = slot[cur].alive
  BY <1>1, <1>2, <1>3 DEF Slots
<1>5. todo' = todo \ {slot[cur].flight}
  BY <1>1, <1>2, <1>3 DEF Placed
<1>6. \A j \in Jobs : rows'[j] = IF j = slot[cur].flight THEN CompletedRow(line) ELSE rows[j]
  BY <1>3, NamesApart
<1>7. CompletedRow(line).status = "completed"
  BY DEF CompletedRow
<1>8. PlacesKnown'
  <2>1. slot[cur].alive
    BY <1>1, <1>2 DEF PlacesKnown, Free
  <2> QED
    BY <1>1, <1>2, <1>3, <1>4, <2>1 DEF PlacesKnown, Free, GoesOn, Rejecting, Staged
<1>9. PICK job \in Jobs : job = slot[cur].flight
  BY <1>2
<1> PICK row : row = CompletedRow(line)
  OBVIOUS
<1>10. life'.pool = life.pool /\ row.status = "completed" /\ todo' = todo \ {job}
  BY <1>3, <1>5, <1>7, <1>9
<1>11. \A j \in Jobs : rows'[j] = IF j = job THEN row ELSE rows[j]
  BY <1>6, <1>9
<1> QED
  <2>1. /\ outcome' = outcome /\ Working /\ cur \in Workers /\ job \in Jobs \cup {NoJob}
        /\ slot[cur].flight \in {NoJob, job}
        /\ job \in {NoJob, slot[cur].flight, slot[cur].published} \cup todo
        /\ row = FailedRow \/ (row.status = "completed" /\ job = slot[cur].flight)
        /\ slot'[cur].flight = NoJob /\ slot'[cur].published \in {NoJob, job}
    BY <1>2, <1>3, <1>4, <1>9, <1>10
  <2>2. \A v \in Workers : v # cur => slot'[v] = slot[v]
    BY <1>4
  <2> QED BY <1>8, <1>10, <1>11, <2>1, <2>2, SettledBook

LEMMA DispatchKeepsBook ==
    ASSUME Typed, BookHolds, NEW w \in Workers, NEW next \in {"seeding", "waiting"},
           Dispatch(w, next), UNCHANGED callVars, seeds' \subseteq seeds,
           slot[w].flight = NoJob, slot[w].alive, Working,
           next = "seeding" => pc = "seeding" /\ w \notin seeds'
    PROVE  BookHolds' /\ JobsForward
<1>1. PlacesKnown /\ slot \in [Workers -> Slots] /\ seeds \subseteq Workers /\ todo \subseteq Jobs
  BY BookParts, TypedParts DEF SlotsTyped, FocusTyped, BookTyped
<1>2. /\ life' = life /\ outcome' = outcome /\ outcome = "running" /\ Workers' = Workers
  BY <1>1 DEF callVars, Workers, PlacesKnown, Working
<1>3. PICK j \in todo :
       /\ todo' = todo \ {j}
       /\ \/ /\ slot' = [slot EXCEPT ![w].flight = j, ![w].published = NoJob]
             /\ pc' = next /\ rows' = rows
          \/ Fails(w, TRUE, j, next)
  BY DEF Dispatch
<1>4. CASE Fails(w, TRUE, j, next)
  BY <1>1, <1>2, <1>3, <1>4, FailedBook
<1>5. CASE /\ slot' = [slot EXCEPT ![w].flight = j, ![w].published = NoJob]
           /\ pc' = next /\ rows' = rows
  <2>1. /\ \A v \in Workers : v # w => slot'[v] = slot[v]
        /\ slot'[w].flight = j /\ slot'[w].published = NoJob /\ slot'[w].alive
    BY <1>1, <1>5 DEF Slots
  <2>2. next = "seeding" => \A v \in seeds' : slot'[v].flight = NoJob
    BY <1>1, <2>1 DEF PlacesKnown, GoesOn
  <2>3. \A v \in Workers : ~slot'[v].alive => Free(v)'
    BY <1>1, <2>1 DEF PlacesKnown, Free
  <2>4. PlacesKnown'
    BY <1>2, <1>5, <2>2, <2>3 DEF PlacesKnown, GoesOn, Rejecting, Staged
  <2> QED BY <1>2, <1>3, <1>5, <2>1, <2>4, GivenBook
<1> QED
  BY <1>3, <1>4, <1>5

LEMMA GivingKeepsBook ==
    ASSUME Typed, BookHolds, Gives \/ \E w \in Workers : Seeds(w)
    PROVE  BookHolds' /\ JobsForward
<1>1. PlacesKnown /\ FocusKnown
  BY BookParts, TypedParts
<1>2. CASE Gives
  <2>1. /\ cur \in Workers /\ slot[cur].flight = NoJob /\ slot[cur].alive /\ Working
        /\ Dispatch(cur, "waiting") /\ UNCHANGED <<seeds, callVars>>
    BY <1>1, <1>2 DEF Gives, PlacesKnown, FocusKnown, Working
  <2> QED BY <2>1, DispatchKeepsBook
<1>3. CASE \E w \in Workers : Seeds(w)
  <2>1. PICK w \in Workers : Seeds(w)
    BY <1>3
  <2>2. /\ slot[w].flight = NoJob /\ slot[w].alive /\ Working /\ pc = "seeding"
        /\ Dispatch(w, "seeding") /\ UNCHANGED callVars /\ seeds' = seeds \ {w}
    BY <1>1, <2>1 DEF Seeds, PlacesKnown, GoesOn, Working
  <2> QED BY <2>2, DispatchKeepsBook
<1> QED
  BY <1>2, <1>3

LEMMA AcceptingKeepsBook == Typed /\ BookHolds /\ AcceptsCall => BookHolds'
<1> SUFFICES ASSUME Typed, BookHolds, AcceptsCall PROVE BookHolds'
  OBVIOUS
<1>1. PICK refused \in SUBSET Jobs :
        /\ todo' = Jobs \ refused
        /\ rows' = [j \in Jobs |-> IF j \in refused THEN InvalidRow ELSE NoRow]
  BY DEF AcceptsCall
<1>2. /\ UNCHANGED <<slot, callVars>> /\ life' = life /\ outcome' = outcome /\ outcome = "running"
      /\ Workers' = Workers /\ Jobs' = Jobs
      /\ pc' = IF todo' = {} THEN "returning" ELSE "seeding"
      /\ seeds' = Workers
      /\ \A w \in Workers : slot[w].flight = NoJob /\ slot[w].published = NoJob
  BY BookParts DEF AcceptsCall, callVars, Workers, Jobs, PlacesKnown, Free
<1>3. PlacesKnown'
  BY <1>2 DEF PlacesKnown, Free, GoesOn, Rejecting, Staged
<1>4. Placed'
  BY <1>1, <1>2, NamesApart DEF Placed, FliesAtOne, HasRow
<1>5. PublishedHaveRows' /\ ReturnedHaveRows'
  BY <1>2 DEF PublishedHaveRows, ReturnedHaveRows
<1> QED
  BY <1>3, <1>4, <1>5, BookParts, PTL

LEMMA InitBook == PoolInit => BookHolds
<1> SUFFICES ASSUME PoolInit PROVE BookHolds
  OBVIOUS
<1>1. \A w \in Workers : slot[w].flight = NoJob /\ slot[w].published = NoJob
  BY DEF PoolInit, RetiredSlot, NewSlot
<1>2. ~Working /\ outcome = "none" /\ pc = "idle"
  BY DEF PoolInit, Working
<1>3. PlacesKnown /\ PublishedHaveRows /\ ReturnedHaveRows
  BY <1>1, <1>2 DEF PlacesKnown, PublishedHaveRows, ReturnedHaveRows, Free, GoesOn, Rejecting,
     Staged
<1> QED
  BY <1>2, <1>3, BookParts

LEMMA NextKeepsBook ==
    Typed /\ BookHolds /\ [PoolNext]_vars => BookHolds' /\ (pc # "calling" => JobsForward)
<1> SUFFICES ASSUME Typed, BookHolds, [PoolNext]_vars
             PROVE  BookHolds' /\ (pc # "calling" => JobsForward)
  OBVIOUS
<1>1. CASE CallerStep \/ UNCHANGED vars
  BY <1>1, CallerKeepsBook, QuietMovesKeepBook
<1>2. CASE CoordinatorStep
  <2>1. AcceptsCall => pc = "calling"
    BY DEF AcceptsCall
  <2> QED
    BY <1>2, <2>1, CallerKeepsBook, AcceptingKeepsBook, GivingUpKeepsBook, QuietMovesKeepBook,
       SlotMovesKeepBook, JudgingKeepsBook, PublishingKeepsBook, GivingKeepsBook,
       FailuresKeepBook, TypedParts
       DEF CoordinatorStep, GivesUp, QuietMoves, FocusKnown, FindsFailure, ExitsWhileSettling
<1>3. CASE \E w \in Workers : WorkerStep(w)
  BY <1>3, WorkersKeepBook
<1> QED
  BY <1>1, <1>2, <1>3 DEF PoolNext, WorkerStep

(* The inductive invariant of the jobs: the three places of a job, together *)
(* with what the coordinator knows of the jobs in flight at each place of   *)
(* its program, holds of every pool.                                        *)
THEOREM BookAlwaysHolds == PoolSpec => [](Typed /\ BookHolds)
<1>1. Typed /\ BookHolds /\ [PoolNext]_vars => (Typed /\ BookHolds)'
  <2>1. Typed /\ [PoolNext]_vars => Typed'
    BY NextTyped
  <2>2. Typed /\ BookHolds /\ [PoolNext]_vars => BookHolds'
    BY NextKeepsBook
  <2> QED BY <2>1, <2>2
<1> QED
  BY <1>1, InitTyped, InitBook, PTL DEF PoolSpec

(* Type correctness, for any number of workers, jobs and calls.             *)
THEOREM PoolTypeCorrect == PoolSpec => []PoolTypeOK
<1>1. Typed => PoolTypeOK
  BY DEF Typed
<1> QED
  BY <1>1, PoolTyped, PTL

(* Whatever the workers do and whenever they die, every job of a run is     *)
(* waiting, in flight at exactly one worker, or settled with a row, and a   *)
(* run that returns has a row for each: no job is lost, none is given out   *)
(* twice.                                                                   *)
THEOREM JobsStayInOnePlace == PoolSpec => []EachJobInOnePlace
<1>1. BookHolds => EachJobInOnePlace
  BY DEF BookHolds
<1> QED
  BY <1>1, BookAlwaysHolds, PTL

(* Within a run a job that was given out never comes back to be given out,  *)
(* and a row, once there, can only turn from completed to failed.           *)
THEOREM JobsAlwaysMoveForward == PoolSpec => JobsMoveForward
<1>1. Typed /\ BookHolds /\ [PoolNext]_vars =>
        [pc # "calling" =>
          /\ todo' \subseteq todo
          /\ \A j \in Jobs : HasRow(j) =>
                \/ rows'[j] = rows[j]
                \/ rows[j].status = "completed" /\ rows'[j] = FailedRow]_vars
  BY NextKeepsBook DEF JobsForward
<1> QED
  BY <1>1, BookAlwaysHolds, PTL DEF PoolSpec, JobsMoveForward

(***************************************************************************)
(* The lines.                                                              *)
(***************************************************************************)

(* What the present process of a slot may have said, or its reader adds.    *)
Sayable(w) == process[w].given \cup {Other, Garbled, Eof, ReaderError}

Says(w) ==
    /\ process[w].due \subseteq process[w].given
    /\ process[w].pipe \in Seq(Sayable(w)) /\ reader[w].held \in Seq(Sayable(w))
    /\ queue[w] \in Seq(Sayable(w))
PipesHold == \A w \in Workers : Says(w)

Handling == (pc \in {"examining", "restoring"} /\ why \in {"answer", "publish"}) \/ pc = "settling"
LineHolds ==
    /\ pc = "restoring" => drained \in Seq(Sayable(cur))
    /\ Handling => line \in Sayable(cur)
    /\ Staged => line.kind = "result" /\ line.job = slot[cur].flight

LEMMA OnlyGivenAreResults ==
    ASSUME NEW w \in Workers, NEW e \in Sayable(w), e.kind = "result" PROVE e \in process[w].given
  BY DEF Sayable, Other, Garbled, Eof, ReaderError, Plain

LEMMA StagedWasDue ==
    ASSUME Typed, BookHolds, LineHolds PROVE StagedIsDue
<1> SUFFICES ASSUME Staged
             PROVE  slot[cur].alive /\ line.job = slot[cur].flight /\ line \in process[cur].given
  BY DEF StagedIsDue, Staged
<1>1. cur \in Workers /\ slot[cur].flight # NoJob
  BY BookParts, TypedParts DEF PlacesKnown, FocusKnown, Staged
<1>2. slot[cur].alive
  BY <1>1, BookParts DEF PlacesKnown, Free
<1>3. line.job = slot[cur].flight /\ line.kind = "result" /\ line \in Sayable(cur)
  BY DEF LineHolds, Handling, Staged
<1> QED
  BY <1>1, <1>2, <1>3, OnlyGivenAreResults

LEMMA SeqFacts ==
    ASSUME NEW S, NEW s \in Seq(S)
    PROVE  /\ \A e \in S : Append(s, e) \in Seq(S) /\ <<e>> \o s \in Seq(S)
           /\ s # <<>> => Head(s) \in S /\ Tail(s) \in Seq(S)
           /\ \A T : S \subseteq T => s \in Seq(T)
<1>1. \A e \in S : Append(s, e) \in Seq(S)
  OBVIOUS
<1>2. \A e \in S : <<e>> \o s \in Seq(S)
  <2>1. \A e \in S : <<e>> \in Seq(S)
    OBVIOUS
  <2> QED BY <2>1
<1>3. s # <<>> => Head(s) \in S /\ Tail(s) \in Seq(S)
  OBVIOUS
<1>4. \A T : S \subseteq T => s \in Seq(T)
  <2> SUFFICES ASSUME NEW T, S \subseteq T PROVE s \in Seq(T)
    OBVIOUS
  <2>1. Len(s) \in Nat /\ (\A i \in 1..Len(s) : s[i] \in T) /\ DOMAIN s = 1..Len(s)
    OBVIOUS
  <2> QED BY <2>1
<1> QED
  BY <1>1, <1>2, <1>3, <1>4

(* A step that leaves the processes' jobs and pipes and the readers alone.  *)
LEMMA SaysKept ==
    ASSUME PipesHold, Workers' = Workers, reader' = reader,
           \A w \in Workers : /\ process'[w].given = process[w].given
                              /\ process'[w].due = process[w].due
                              /\ process'[w].pipe = process[w].pipe
                              /\ queue'[w] \in Seq(Sayable(w))
    PROVE  PipesHold'
<1>1. \A w \in Workers : Sayable(w)' = Sayable(w)
  BY DEF Sayable
<1> QED
  BY <1>1 DEF PipesHold, Says

LEMMA WorkersKeepPipes ==
    ASSUME Typed, PipesHold, NEW w \in Workers, WorkerStep(w)
    PROVE  PipesHold' /\ \A v \in Workers : process'[v].given = process[v].given
<1>1. Workers' = Workers
  BY WorkersOnly DEF callVars, Workers
<1>2. /\ process \in [Workers -> Processes] /\ reader \in [Workers -> Readers]
      /\ queue \in [Workers -> Seq(Events)] /\ ReadersHold
  BY TypedParts DEF WorkersTyped
<1>3. Says(w)
  BY DEF PipesHold
<1>4. \A v \in Workers : v # w =>
        process'[v] = process[v] /\ reader'[v] = reader[v] /\ queue'[v] = queue[v]
  BY <1>2 DEF WorkerStep, Answers, Babbles, Exits, ReaderStep, ReadsLine, StopsDraining,
     MeetsEofInBatch, MeetsEof, Puts
<1>5. SUFFICES process'[w].given = process[w].given /\ Says(w)'
  <2>1. ASSUME NEW v \in Workers, v # w, Says(v) PROVE Says(v)'
    BY <1>4, <2>1 DEF Says, Sayable
  <2> QED BY <1>1, <1>4, <2>1 DEF PipesHold
<1> DEFINE S == Sayable(w)
<1>6. S = process[w].given \cup {Other, Garbled, Eof, ReaderError}
  BY DEF Sayable
<1>7. /\ process[w].pipe \in Seq(S) /\ reader[w].held \in Seq(S) /\ queue[w] \in Seq(S)
      /\ process[w].due \subseteq process[w].given
  BY <1>3 DEF Says
<1>8. SUFFICES /\ process'[w].given = process[w].given /\ process'[w].due \subseteq process[w].due
               /\ process'[w].pipe \in Seq(S) /\ reader'[w].held \in Seq(S) /\ queue'[w] \in Seq(S)
  BY <1>6, <1>7 DEF Says, Sayable
<1> HIDE DEF S
<1>9. CASE Answers(w)
  <2>1. PICK l \in process[w].due :
          process' = [process EXCEPT ![w].pipe = Append(@, l), ![w].due = @ \ {l}]
    BY <1>9 DEF Answers
  <2>2. Append(process[w].pipe, l) \in Seq(S)
    BY <1>6, <1>7, SeqFacts
  <2> QED BY <1>2, <1>7, <1>9, <2>1, <2>2 DEF Answers, Processes
<1>10. CASE Babbles(w)
  <2>1. PICK l \in (process[w].given \ process[w].due) \cup {Other, Garbled} :
          process' = [process EXCEPT ![w].pipe = Append(@, l)]
    BY <1>10 DEF Babbles
  <2>2. Append(process[w].pipe, l) \in Seq(S)
    BY <1>6, <1>7, SeqFacts
  <2> QED BY <1>2, <1>7, <1>10, <2>1, <2>2 DEF Babbles, Processes
<1>11. CASE Exits(w)
  BY <1>2, <1>7, <1>11 DEF Exits, Processes
<1>12. CASE ReadsLine(w)
  <2> DEFINE l == Head(process[w].pipe)
  <2>1. l \in S /\ Tail(process[w].pipe) \in Seq(S) /\ Append(reader[w].held, l) \in Seq(S)
    BY <1>7, <1>12, SeqFacts DEF ReadsLine
  <2>2. <<ReaderError, Eof>> \in Seq(S)
    BY <1>6
  <2>3. /\ process' = [process EXCEPT ![w].pipe = Tail(@)]
        /\ reader'[w] = IF l = Garbled
                        THEN [at |-> "finishing", held |-> <<ReaderError, Eof>>]
                        ELSE [at |-> "draining", held |-> Append(reader[w].held, l)]
        /\ queue' = queue
    BY <1>2, <1>12 DEF ReadsLine
  <2> HIDE DEF l
  <2>4. process'[w].given = process[w].given /\ process'[w].due = process[w].due
        /\ process'[w].pipe = Tail(process[w].pipe)
    BY <1>2, <2>3 DEF Processes
  <2> QED BY <1>7, <2>1, <2>2, <2>3, <2>4
<1>13. CASE StopsDraining(w) \/ MeetsEof(w)
  BY <1>2, <1>7, <1>13 DEF StopsDraining, MeetsEof, Readers
<1>14. CASE MeetsEofInBatch(w)
  <2>1. <<Eof>> \o reader[w].held \in Seq(S)
    BY <1>6, <1>7, SeqFacts
  <2>2. reader'[w].held = <<Eof>> \o reader[w].held /\ UNCHANGED <<process, queue>>
    BY <1>2, <1>14 DEF MeetsEofInBatch
  <2> QED BY <1>7, <2>1, <2>2
<1>15. CASE Puts(w)
  <2>1. reader[w].held # <<>>
    BY <1>2, <1>15 DEF Puts, ReadersHold
  <2>2. /\ Head(reader[w].held) \in S /\ Tail(reader[w].held) \in Seq(S)
        /\ Append(queue[w], Head(reader[w].held)) \in Seq(S)
    BY <1>7, <2>1, SeqFacts
  <2>3. /\ queue'[w] = Append(queue[w], Head(reader[w].held)) /\ process' = process
        /\ reader'[w].held = Tail(reader[w].held)
    BY <1>2, <1>15 DEF Puts
  <2> QED BY <1>7, <2>2, <2>3
<1> QED
  BY <1>9, <1>10, <1>11, <1>12, <1>13, <1>14, <1>15 DEF WorkerStep, ReaderStep

(* The steps of the coordinator and the caller that start no process.       *)
LEMMA CoordinatorKeepsPipes ==
    ASSUME Typed, PipesHold, CallerStep \/ CoordinatorStep,
           ~(Launches \/ CannotLaunch \/ Replaces \/ Gives \/ \E w \in Workers : Seeds(w)),
           pc = "restoring" => drained \in Seq(Sayable(cur))
    PROVE  /\ PipesHold'
           /\ \A w \in Workers : process'[w].given = process[w].given
<1>1. /\ process \in [Workers -> Processes] /\ queue \in [Workers -> Seq(Events)] /\ CallTyped
      /\ FocusKnown
  BY TypedParts DEF WorkersTyped
<1>2. \A w \in Workers : queue[w] \in Seq(Sayable(w))
  BY DEF PipesHold, Says
<1>3. \A w \in Workers : \A s :
        /\ [process[w] EXCEPT !.state = s].given = process[w].given
        /\ [process[w] EXCEPT !.state = s].due = process[w].due
        /\ [process[w] EXCEPT !.state = s].pipe = process[w].pipe
  BY <1>1 DEF Processes
<1>4. \A w \in Workers : /\ process'[w].given = process[w].given
                         /\ process'[w].due = process[w].due
                         /\ process'[w].pipe = process[w].pipe
  <2>1. CASE UNCHANGED process
    BY <2>1
  <2>2. CASE GivesUp \/ Closes
    <3>1. PICK stuck : ShutsDown(stuck)
      BY <2>2, GivingUpCloses DEF FailsClosed, Closes
    <3> QED BY <1>3, <3>1 DEF ShutsDown
  <2>3. CASE Terminates
    BY <1>1, <1>3, <2>3 DEF Terminates, FocusKnown
  <2> QED
    BY <2>1, <2>2, <2>3 DEF CallerStep, CoordinatorStep, GivesUp, CallsStart, CallsUnusable,
       CallsRun, AcceptsCall, IsSeeded, IsReaped, LeavesLoop, FindsFailure, FindsNoFailure,
       PutsBack, Judges, ExitsWhileSettling, HasSettled, Publishes, ChecksPending,
       RejectsPending, NothingToGive, RunHasSettled, Returns, TakesEvent, SeesExit, ExitsLate,
       WritesLate, workerVars
<1>5. reader' = reader /\ life'.pool = life.pool
  <2>1. CASE GivesUp
    BY <1>1, <2>1, GivingUpCloses DEF FailsClosed, CallTyped
  <2>2. CASE Closes
    BY <1>1, <2>2 DEF Closes, CallTyped
  <2> QED
    BY <2>1, <2>2 DEF CallerStep, CoordinatorStep, GivesUp, CallsStart, CallsUnusable,
       CallsRun, AcceptsCall, IsSeeded, IsReaped, Terminates, LeavesLoop, FindsFailure,
       FindsNoFailure, PutsBack, Judges, ExitsWhileSettling, HasSettled, Publishes,
       ChecksPending, RejectsPending, NothingToGive, RunHasSettled, Returns, TakesEvent,
       SeesExit, ExitsLate, WritesLate, workerVars, callVars
<1>6. \A w \in Workers : queue'[w] \in Seq(Sayable(w))
  <2>1. CASE UNCHANGED queue
    BY <1>2, <2>1
  <2>2. ASSUME NEW w \in Workers, NEW s \in Seq(Sayable(w)), queue' = [queue EXCEPT ![w] = s]
        PROVE  \A v \in Workers : queue'[v] \in Seq(Sayable(v))
    BY <1>1, <1>2, <2>2
  <2>3. \A w \in Workers : queue[w] # <<>> => Tail(queue[w]) \in Seq(Sayable(w))
    BY <1>2, SeqFacts
  <2>4. \A w \in Workers : <<>> \in Seq(Sayable(w))
    OBVIOUS
  <2>5. CASE FindsFailure \/ FindsNoFailure
    BY <1>1, <2>1, <2>2, <2>4, <2>5 DEF FindsFailure, FindsNoFailure, FocusKnown
  <2>6. CASE PutsBack
    <3>1. cur \in Workers /\ Head(drained) \in Sayable(cur)
      BY <1>1, <2>6, SeqFacts DEF PutsBack, FocusKnown
    <3>2. Append(queue[cur], Head(drained)) \in Seq(Sayable(cur))
      BY <1>2, <3>1, SeqFacts
    <3>3. queue' = [queue EXCEPT ![cur] = Append(queue[cur], Head(drained))]
      BY <2>6 DEF PutsBack
    <3> QED BY <2>2, <3>1, <3>2, <3>3
  <2>7. CASE RejectsPending
    BY <1>1, <2>1, <2>2, <2>3, <2>7 DEF RejectsPending, FocusKnown
  <2>8. CASE \E w \in Workers : TakesEvent(w) \/ WritesLate(w)
    BY <2>2, <2>3, <2>8 DEF TakesEvent, WritesLate
  <2>9. CASE GivesUp
    BY <2>1, <2>9, GivingUpCloses DEF FailsClosed
  <2> QED
    BY <2>1, <2>5, <2>6, <2>7, <2>8, <2>9 DEF CallerStep, CoordinatorStep, GivesUp, CallsStart,
       CallsUnusable, CallsRun, Closes, AcceptsCall, IsSeeded, IsReaped, Terminates, LeavesLoop,
       Judges, ExitsWhileSettling, HasSettled, Publishes, ChecksPending, NothingToGive,
       RunHasSettled, Returns, SeesExit, ExitsLate, workerVars
<1> QED
  BY <1>4, <1>5, <1>6, SaysKept, PoolFixed

LEMMA NewSays ==
    ASSUME NEW w, Workers' = Workers, process'[w] \in {NewProcess, NoProcess},
           reader'[w] \in {NewReader, NoReader}, queue'[w] = <<>>
    PROVE  Says(w)'
<1>1. /\ process'[w].due = {} /\ process'[w].pipe = <<>> /\ reader'[w].held = <<>>
      /\ process'[w].given = {}
  BY DEF NewProcess, NoProcess, NewReader, NoReader
<1>2. \A S : <<>> \in Seq(S)
  OBVIOUS
<1> QED
  BY <1>1, <1>2 DEF Says

LEMMA LaunchingKeepsPipes ==
    Typed /\ PipesHold /\ (Launches \/ CannotLaunch \/ Replaces) => PipesHold'
<1> SUFFICES ASSUME Typed, PipesHold, Launches \/ CannotLaunch \/ Replaces PROVE PipesHold'
  OBVIOUS
<1>1. Workers' = Workers
  BY TypedParts, PoolFixed DEF Launches, CannotLaunch, Replaces, CallTyped, callVars
<1>2. CASE Launches
  BY <1>1, <1>2, NewSays DEF Launches, PipesHold
<1>3. CASE CannotLaunch
  <2>1. PICK stuck \in SUBSET Workers :
          /\ process' = [w \in Workers |-> IF w \in stuck THEN NewProcess ELSE NoProcess]
          /\ reader' = [w \in Workers |-> IF w \in stuck THEN NewReader ELSE NoReader]
    BY <1>3 DEF CannotLaunch
  <2>2. \A w \in Workers : queue'[w] = <<>>
    BY <1>3 DEF CannotLaunch
  <2> QED BY <1>1, <2>1, <2>2, NewSays DEF PipesHold
<1>4. CASE Replaces
  <2>1. /\ process \in [Workers -> Processes] /\ reader \in [Workers -> Readers]
        /\ queue \in [Workers -> Seq(Events)] /\ cur \in Workers
    BY <1>4, TypedParts DEF WorkersTyped, FocusKnown, Replaces
  <2>2. PICK w \in Workers : w = cur
    BY <2>1
  <2>3. process'[w] = NewProcess /\ reader'[w] = NewReader /\ queue'[w] = <<>>
    BY <1>4, <2>1, <2>2 DEF Replaces
  <2>4. Says(w)'
    BY <1>1, <2>3, NewSays
  <2>5. ASSUME NEW v \in Workers, v # w PROVE Says(v)'
    <3>1. process'[v] = process[v] /\ reader'[v] = reader[v] /\ queue'[v] = queue[v]
      BY <1>4, <2>1, <2>2, <2>5 DEF Replaces
    <3> QED BY <3>1 DEF PipesHold, Says, Sayable
  <2> QED BY <1>1, <2>4, <2>5 DEF PipesHold
<1> QED
  BY <1>2, <1>3, <1>4

LEMMA GivingKeepsPipes ==
    ASSUME Typed, PipesHold, Gives \/ \E w \in Workers : Seeds(w)
    PROVE  PipesHold'
<1>1. /\ process \in [Workers -> Processes] /\ reader \in [Workers -> Readers] /\ FocusKnown
  BY TypedParts DEF WorkersTyped
<1>2. PICK w \in Workers : \E next : Dispatch(w, next)
  BY <1>1 DEF Gives, Seeds, FocusKnown
<1>3. reader' = reader /\ queue' = queue /\ Workers' = Workers
  BY DEF Gives, Seeds, callVars, Workers
<1>4. \/ process' = process
      \/ \E l : process' = [process EXCEPT ![w].given = @ \cup {l}, ![w].due = @ \cup {l}]
  BY <1>2 DEF Dispatch
<1>5. CASE process' = process
  BY <1>3, <1>5 DEF PipesHold, Says, Sayable
<1>6. CASE \E l : process' = [process EXCEPT ![w].given = @ \cup {l}, ![w].due = @ \cup {l}]
  <2>1. PICK l : process' = [process EXCEPT ![w].given = @ \cup {l}, ![w].due = @ \cup {l}]
    BY <1>6
  <2>2. /\ process'[w].given = process[w].given \cup {l}
        /\ process'[w].due = process[w].due \cup {l} /\ process'[w].pipe = process[w].pipe
    BY <1>1, <2>1 DEF Processes
  <2>3. Says(w)'
    <3>1. Sayable(w) \subseteq Sayable(w)'
      BY <2>2 DEF Sayable
    <3>2. Says(w)
      BY DEF PipesHold
    <3>3. PICK S : S = Sayable(w)'
      OBVIOUS
    <3>4. process[w].pipe \in Seq(S) /\ reader[w].held \in Seq(S) /\ queue[w] \in Seq(S)
      BY <3>1, <3>2, <3>3, SeqFacts DEF Says
    <3> QED BY <1>3, <2>2, <3>2, <3>3, <3>4 DEF Says
  <2>4. ASSUME NEW v \in Workers, v # w PROVE Says(v)'
    <3>1. process'[v] = process[v]
      BY <1>1, <2>1, <2>4
    <3> QED BY <1>3, <3>1 DEF PipesHold, Says, Sayable
  <2> QED BY <1>3, <2>3, <2>4 DEF PipesHold
<1> QED
  BY <1>4, <1>5, <1>6

LEMMA LineKept ==
    ASSUME Typed, BookHolds, PipesHold, LineHolds, [PoolNext]_vars
    PROVE  LineHolds'
<1>1. /\ FocusKnown /\ PlacesKnown /\ queue \in [Workers -> Seq(Events)]
  BY BookParts, TypedParts DEF WorkersTyped
<1>2. CASE pc' \notin {"examining", "restoring", "settling"}
  BY <1>2 DEF LineHolds, Handling, Staged
<1>3. CASE UNCHANGED vars
  BY <1>3 DEF LineHolds, Handling, Staged, Sayable, vars, workerVars, focusVars
<1>4. CASE \E w \in Workers : WorkerStep(w)
  <2>1. PICK w \in Workers : WorkerStep(w)
    BY <1>4
  <2>2. UNCHANGED <<slot, pc, cur, line, drained, why>>
    BY <2>1, WorkersOnly DEF focusVars
  <2>3. cur \in Workers => Sayable(cur)' = Sayable(cur)
    BY <2>1, <2>2, WorkersKeepPipes DEF Sayable
  <2> QED BY <1>1, <2>2, <2>3 DEF LineHolds, Handling, Staged, FocusKnown
<1>5. CASE \E w \in Workers : TakesEvent(w) /\ pc' = "examining"
  <2>1. PICK w \in Workers : TakesEvent(w) /\ pc' = "examining"
    BY <1>5
  <2>2. /\ Head(queue[w]) \in Sayable(w) /\ process' = process
    BY <2>1, SeqFacts DEF TakesEvent, PipesHold, Says
  <2>3. cur' = w /\ line' = Head(queue[w]) /\ why' = "answer"
    BY <2>1 DEF TakesEvent, Fails
  <2> QED BY <2>1, <2>2, <2>3 DEF LineHolds, Handling, Staged, Sayable
<1>6. CASE FindsNoFailure
  <2>1. /\ cur \in Workers /\ queue[cur] \in Seq(Sayable(cur))
        /\ drained' = queue[cur] /\ UNCHANGED <<process, slot, cur, line, why>>
        /\ pc = "examining" /\ pc' = "restoring"
    BY <1>1, <1>6 DEF FindsNoFailure, FocusKnown, PipesHold, Says
  <2>2. Sayable(cur)' = Sayable(cur)
    BY <2>1 DEF Sayable
  <2> QED BY <2>1, <2>2 DEF LineHolds, Handling, Staged
<1>7. CASE PutsBack
  <2>1. /\ drained' = Tail(drained) /\ UNCHANGED <<process, slot, cur, line, why, pc>>
        /\ pc = "restoring" /\ drained # <<>>
    BY <1>7 DEF PutsBack
  <2>2. Sayable(cur)' = Sayable(cur)
    BY <2>1 DEF Sayable
  <2>3. Tail(drained) \in Seq(Sayable(cur))
    BY <2>1, SeqFacts DEF LineHolds
  <2> QED BY <2>1, <2>2, <2>3 DEF LineHolds, Handling, Staged
<1>8. CASE Judges /\ pc' = "settling"
  <2>1. /\ IsDue /\ UNCHANGED <<process, slot, cur, line>> /\ pc = "restoring" /\ why = "answer"
    BY <1>8 DEF Judges, Fails, workerVars
  <2>2. Sayable(cur)' = Sayable(cur)
    BY <2>1 DEF Sayable
  <2> QED BY <1>8, <2>1, <2>2 DEF LineHolds, Handling, Staged, IsDue
<1>9. CASE HasSettled
  <2>1. /\ UNCHANGED <<process, slot, cur, line>> /\ pc = "settling" /\ pc' = "examining"
    BY <1>9 DEF HasSettled, workerVars
  <2>2. Sayable(cur)' = Sayable(cur)
    BY <2>1 DEF Sayable
  <2> QED BY <2>1, <2>2 DEF LineHolds, Handling, Staged
<1>10. CASE ChecksPending
  BY <1>10 DEF ChecksPending, LineHolds, Handling, Staged
<1>11. CASE CallerStep
  BY <1>2, <1>11 DEF CallerStep, CallsStart, CallsUnusable, CallsRun, Closes
<1>12. CASE GivesUp
  BY <1>2, <1>12, GivingUpCloses DEF FailsClosed
<1>13. CASE Launches \/ CannotLaunch \/ Replaces \/ AcceptsCall \/ IsSeeded \/ LeavesLoop
            \/ Publishes \/ NothingToGive \/ RunHasSettled \/ Returns
  BY <1>1, <1>2, <1>13 DEF Launches, CannotLaunch, Replaces, AcceptsCall, IsSeeded, LeavesLoop,
     Publishes, NothingToGive, RunHasSettled, Returns, FocusKnown
<1>14. CASE Terminates \/ IsReaped
  BY <1>1, <1>2, <1>14 DEF Terminates, IsReaped, FocusKnown
<1>15. CASE FindsFailure \/ ExitsWhileSettling \/ (Judges /\ pc' # "settling") \/ RejectsPending
            \/ \E w \in Workers : \/ SeesExit(w) \/ ExitsLate(w) \/ WritesLate(w)
                                  \/ (TakesEvent(w) /\ pc' # "examining")
  BY <1>2, <1>15 DEF FindsFailure, ExitsWhileSettling, Judges, RejectsPending, SeesExit,
     ExitsLate, WritesLate, FailsLate, TakesEvent, Fails
<1>16. CASE Gives \/ \E w \in Workers : Seeds(w)
  BY <1>2, <1>16 DEF Gives, Seeds, Dispatch, Fails
<1> QED
  BY <1>3, <1>4, <1>5, <1>6, <1>7, <1>8, <1>9, <1>10, <1>11, <1>12, <1>13, <1>14, <1>15, <1>16
     DEF PoolNext, CoordinatorStep, GivesUp, WorkerStep

LEMMA NextKeepsPipes ==
    Typed /\ PipesHold /\ LineHolds /\ [PoolNext]_vars => PipesHold'
<1> SUFFICES ASSUME Typed, PipesHold, LineHolds, [PoolNext]_vars PROVE PipesHold'
  OBVIOUS
<1>1. CASE UNCHANGED vars
  BY <1>1 DEF PipesHold, Says, Sayable, vars, workerVars, callVars, Workers
<1>2. CASE \E w \in Workers : WorkerStep(w)
  BY <1>2, WorkersKeepPipes
<1>3. CASE CallerStep \/ CoordinatorStep
  <2>1. pc = "restoring" => drained \in Seq(Sayable(cur))
    BY DEF LineHolds
  <2> QED BY <1>3, <2>1, CoordinatorKeepsPipes, LaunchingKeepsPipes, GivingKeepsPipes
<1> QED
  BY <1>1, <1>2, <1>3 DEF PoolNext, WorkerStep

LEMMA InitPipes == PoolInit => PipesHold /\ LineHolds
<1> SUFFICES ASSUME PoolInit PROVE PipesHold /\ LineHolds
  OBVIOUS
<1>1. \A S : <<>> \in Seq(S)
  OBVIOUS
<1>2. \A w \in Workers : /\ process[w].due = {} /\ process[w].pipe = <<>>
                         /\ reader[w].held = <<>> /\ queue[w] = <<>>
  BY DEF PoolInit, NoProcess, NewProcess, NoReader, NewReader
<1>3. PipesHold
  BY <1>1, <1>2 DEF PipesHold, Says
<1>4. LineHolds
  BY DEF PoolInit, LineHolds, Handling, Staged
<1> QED
  BY <1>3, <1>4

(* The inductive invariant of the lines: whatever is in the pipe, held by   *)
(* the reader, queued, drained or being handled was said by the present     *)
(* process of its slot, of a job that process was given, or is no result; a *)
(* staged line is a result for the job in flight.                           *)
THEOREM LinesAlwaysHold == PoolSpec => [](Typed /\ BookHolds /\ PipesHold /\ LineHolds)
<1>1. PoolInit => Typed /\ BookHolds /\ PipesHold /\ LineHolds
  BY InitTyped, InitBook, InitPipes
<1>2. Typed /\ BookHolds /\ PipesHold /\ LineHolds /\ [PoolNext]_vars =>
        (Typed /\ BookHolds /\ PipesHold /\ LineHolds)'
  BY NextTyped, NextKeepsBook, NextKeepsPipes, LineKept
<1> QED
  BY <1>1, <1>2, PTL DEF PoolSpec

(* What is about to be published answers the very job in flight and was     *)
(* said by the present process of its worker: no line of a process that was *)
(* replaced, of another worker or about another job comes that far.         *)
THEOREM OnlyDueIsStaged == PoolSpec => []StagedIsDue
  BY StagedWasDue, LinesAlwaysHold, PTL

(***************************************************************************)
(* The dead.                                                               *)
(***************************************************************************)

Gone(w) ==
    /\ process[w].state # "running"
    /\ life.usable /\ life.started => slot[w].reaped /\ reader[w].at = "done"
SlotsKnown ==
    /\ \A w \in Workers : ~slot[w].alive => Gone(w)
    /\ pc = "starting" \/ life.closed => ~life.started

LEMMA DeadWereGone == BookHolds /\ SlotsKnown => DeadAreGone
  BY BookParts DEF SlotsKnown, Gone, DeadAreGone, PlacesKnown, Free

(* A slot whose process, reader and calls go on as they were.               *)
LEMMA StillGone ==
    ASSUME SlotsKnown, NEW w \in Workers, ~slot'[w].alive => ~slot[w].alive,
           slot[w].reaped /\ ~slot'[w].alive => slot'[w].reaped,
           process[w].state # "running" => process'[w].state # "running",
           reader[w].at = "done" => reader'[w].at = "done",
           life'.usable /\ life'.started => life.usable /\ life.started
    PROVE  ~slot'[w].alive => Gone(w)'
  BY DEF SlotsKnown, Gone

LEMMA WorkersKeepSlots ==
    ASSUME Typed, SlotsKnown, NEW v \in Workers, WorkerStep(v) PROVE SlotsKnown'
<1>1. UNCHANGED <<slot, pc, life>> /\ Workers' = Workers
  BY WorkersOnly DEF callVars, Workers
<1>2. process \in [Workers -> Processes] /\ reader \in [Workers -> Readers]
  BY TypedParts DEF WorkersTyped
<1>3. ASSUME NEW w \in Workers
      PROVE  /\ process[w].state # "running" => process'[w].state # "running"
             /\ reader[w].at = "done" => reader'[w].at = "done"
  BY <1>2 DEF WorkerStep, Answers, Babbles, Exits, ReaderStep, ReadsLine, StopsDraining,
     MeetsEofInBatch, MeetsEof, Puts, Processes, Readers
<1>4. \A w \in Workers : ~slot'[w].alive => Gone(w)'
  BY <1>1, <1>3, StillGone
<1> QED
  BY <1>1, <1>4 DEF SlotsKnown

(* A failed worker stays alive until it is reaped.                          *)
LEMMA FailingKeepsAlive ==
    ASSUME Typed, NEW w \in Workers, NEW crashed, NEW job, NEW next, Fails(w, crashed, job, next)
    PROVE  \A v \in Workers : slot'[v].alive = slot[v].alive /\ slot'[v].reaped = slot[v].reaped
<1>1. slot \in [Workers -> Slots]
  BY TypedParts DEF SlotsTyped
<1>2. \A v \in Workers : v # w => slot'[v] = slot[v]
  BY <1>1 DEF Fails
<1>3. slot'[w] = [slot[w] EXCEPT !.flight = NoJob, !.published = NoJob]
  BY <1>1 DEF Fails
<1> QED
  BY <1>1, <1>2, <1>3 DEF Slots

LEMMA ShuttingDownIsGone ==
    ASSUME NEW stuck, ShutsDown(stuck), Workers' = Workers, ~life'.usable \/ ~life'.started
    PROVE  \A w \in Workers : ~slot'[w].alive => Gone(w)'
<1> SUFFICES ASSUME NEW w \in Workers, ~slot'[w].alive PROVE Gone(w)'
  OBVIOUS
<1>1. w \notin stuck
  BY DEF ShutsDown, RetiredSlot, NewSlot
<1>2. process'[w].state # "running"
  <2>1. CASE process[w].state = "running"
    <3>1. process'[w] = [process[w] EXCEPT !.state = "exited"]
      BY <1>1, <2>1 DEF ShutsDown
    <3> QED BY <2>1, <3>1
  <2>2. CASE process[w].state # "running"
    BY <1>1, <2>2 DEF ShutsDown
  <2> QED BY <2>1, <2>2
<1> QED
  BY <1>2 DEF Gone

LEMMA CallerKeepsSlots ==
    Typed /\ SlotsKnown /\ (CallerStep \/ GivesUp \/ Launches \/ CannotLaunch) => SlotsKnown'
<1> SUFFICES ASSUME Typed, SlotsKnown, CallerStep \/ GivesUp \/ Launches \/ CannotLaunch
             PROVE  SlotsKnown'
  OBVIOUS
<1>1. CallTyped
  BY TypedParts
<1>2. CASE CallsStart \/ CallsUnusable \/ CallsRun
  <2>1. UNCHANGED <<process, reader, slot, life>> /\ (pc' = "starting" => ~life.started)
    BY <1>2 DEF CallsStart, CallsUnusable, CallsRun, workerVars, callVars
  <2> QED BY <2>1 DEF SlotsKnown, Gone, Workers
<1>3. CASE Closes
  <2>1. life' = [life EXCEPT !.started = FALSE, !.closed = TRUE, !.usable = life'.usable]
    BY <1>1, <1>3 DEF Closes, CallTyped
  <2>2. ~life'.started /\ life'.pool = life.pool /\ Workers' = Workers
    BY <1>1, <2>1, PoolFixed DEF CallTyped
  <2>3. PICK stuck \in SUBSET Running : ShutsDown(stuck)
    BY <1>3 DEF Closes
  <2> QED BY <2>2, <2>3, ShuttingDownIsGone DEF SlotsKnown
<1>4. CASE GivesUp
  <2>1. FailsClosed
    BY <1>4, GivingUpCloses
  <2>2. /\ ~life'.usable /\ life'.started = life.started /\ life'.closed = life.closed
        /\ life'.pool = life.pool /\ Workers' = Workers
    BY <1>1, <2>1, PoolFixed DEF FailsClosed, CallTyped
  <2>3. PICK stuck \in SUBSET Running : ShutsDown(stuck)
    BY <2>1 DEF FailsClosed
  <2>4. pc' = "idle"
    BY <2>1 DEF FailsClosed
  <2>5. \A w \in Workers : ~slot'[w].alive => Gone(w)'
    BY <2>2, <2>3, ShuttingDownIsGone
  <2> QED BY <2>2, <2>4, <2>5 DEF SlotsKnown
<1>5. CASE Launches
  <2>1. \A w \in Workers : slot'[w].alive
    BY <1>5 DEF Launches, NewSlot
  <2>2. /\ pc' # "starting" /\ ~life'.closed /\ life'.pool = life.pool /\ Workers' = Workers
    BY <1>1, <1>5, TypedParts, PoolFixed DEF Launches, CallTyped, FocusKnown
  <2> QED BY <2>1, <2>2 DEF SlotsKnown
<1>6. CASE CannotLaunch
  <2>1. PICK stuck \in SUBSET Workers :
          /\ process' = [w \in Workers |-> IF w \in stuck THEN NewProcess ELSE NoProcess]
          /\ reader' = [w \in Workers |-> IF w \in stuck THEN NewReader ELSE NoReader]
          /\ slot' = [w \in Workers |-> RetiredSlot(w \notin stuck)]
    BY <1>6 DEF CannotLaunch
  <2>2. \A w \in Workers : /\ ~slot'[w].alive => w \notin stuck
                           /\ w \notin stuck => slot'[w].reaped
    BY <2>1 DEF RetiredSlot, NewSlot
  <2>3. NoProcess.state # "running" /\ NoReader.at = "done"
    BY DEF NoProcess, NewProcess, NoReader, NewReader
  <2>4. /\ life'.started = life.started /\ life'.closed = life.closed /\ pc' = "idle"
        /\ life'.pool = life.pool /\ Workers' = Workers
    BY <1>1, <1>6, PoolFixed DEF CannotLaunch, CallTyped
  <2>5. \A w \in Workers : ~slot'[w].alive => Gone(w)'
    BY <2>1, <2>2, <2>3 DEF Gone
  <2> QED BY <2>4, <2>5 DEF SlotsKnown
<1> QED
  BY <1>2, <1>3, <1>4, <1>5, <1>6 DEF CallerStep

LEMMA CoordinatorKeepsSlots ==
    ASSUME Typed, SlotsKnown,
           CoordinatorStep, ~(GivesUp \/ Launches \/ CannotLaunch)
    PROVE  SlotsKnown'
<1>1. /\ FocusKnown /\ slot \in [Workers -> Slots] /\ process \in [Workers -> Processes]
      /\ reader \in [Workers -> Readers]
  BY TypedParts DEF SlotsTyped, WorkersTyped
<1>2. life' = life /\ Workers' = Workers
  BY DEF CoordinatorStep, GivesUp, callVars, AcceptsCall, IsSeeded, IsReaped, Terminates,
     LeavesLoop, FindsFailure, FindsNoFailure, PutsBack, Judges, ExitsWhileSettling, HasSettled,
     Publishes, ChecksPending, RejectsPending, NothingToGive, RunHasSettled, Returns, TakesEvent,
     SeesExit, ExitsLate, WritesLate, Replaces, Gives, Seeds, Workers
<1>3. pc' # "starting"
  BY <1>1 DEF CoordinatorStep, GivesUp, AcceptsCall, IsSeeded, IsReaped, Terminates,
     LeavesLoop, FindsFailure, FindsNoFailure, PutsBack, Judges, ExitsWhileSettling, HasSettled,
     Publishes, ChecksPending, RejectsPending, NothingToGive, RunHasSettled, Returns, TakesEvent,
     SeesExit, ExitsLate, WritesLate, FailsLate, Replaces, Gives, Seeds, Dispatch, Fails,
     FocusKnown
<1>4. SUFFICES \A w \in Workers : ~slot'[w].alive => Gone(w)'
  BY <1>2, <1>3 DEF SlotsKnown
<1>5. CASE /\ \A w \in Workers : /\ slot'[w].alive = slot[w].alive
                                 /\ slot'[w].reaped = slot[w].reaped
                                 /\ process'[w].state = process[w].state
           /\ reader' = reader
  BY <1>2, <1>5, StillGone
<1>6. CASE IsReaped
  <2>1. PICK v \in Workers : v = cur
    BY <1>1, <1>6 DEF IsReaped, FocusKnown
  <2>2. /\ slot' = [slot EXCEPT ![v] = RetiredSlot(TRUE)] /\ process' = process
        /\ reader' = reader /\ process[v].state = "exited" /\ reader[v].at = "done"
    BY <1>6, <2>1 DEF IsReaped, workerVars, Exited
  <2>3. Gone(v)'
    <3>1. slot'[v].reaped
      BY <1>1, <2>2 DEF RetiredSlot, NewSlot
    <3> QED BY <2>2, <3>1 DEF Gone
  <2>4. ASSUME NEW w \in Workers, w # v PROVE ~slot'[w].alive => Gone(w)'
    <3>1. slot'[w] = slot[w]
      BY <1>1, <2>2, <2>4
    <3> QED BY <1>2, <2>2, <3>1, StillGone
  <2> QED BY <2>3, <2>4
<1>7. CASE Replaces
  <2>1. PICK v \in Workers : v = cur
    BY <1>1, <1>7 DEF Replaces, FocusKnown
  <2>2. /\ slot' = [slot EXCEPT ![v] = NewSlot] /\ process' = [process EXCEPT ![v] = NewProcess]
        /\ reader' = [reader EXCEPT ![v] = NewReader]
    BY <1>7, <2>1 DEF Replaces
  <2>3. slot'[v].alive
    BY <1>1, <2>2 DEF NewSlot
  <2>4. ASSUME NEW w \in Workers, w # v PROVE ~slot'[w].alive => Gone(w)'
    <3>1. slot'[w] = slot[w] /\ process'[w] = process[w] /\ reader'[w] = reader[w]
      BY <1>1, <2>2, <2>4
    <3> QED BY <1>2, <3>1, StillGone
  <2> QED BY <2>3, <2>4
<1>8. CASE Terminates
  <2>1. UNCHANGED <<slot, reader>>
    BY <1>8 DEF Terminates
  <2>2. \A w \in Workers : process[w].state # "running" => process'[w].state # "running"
    BY <1>1, <1>8 DEF Terminates, FocusKnown, Processes
  <2> QED BY <1>2, <2>1, <2>2, StillGone
<1>9. CASE \E w \in Workers : \E crashed, job, next :
             Fails(w, crashed, job, next) /\ UNCHANGED <<process, reader>>
  BY <1>5, <1>9, FailingKeepsAlive
<1>10. CASE UNCHANGED <<slot, process, reader>>
  BY <1>5, <1>10
<1>11. CASE Publishes \/ RunHasSettled
  <2>1. \A w \in Workers : slot'[w].alive = slot[w].alive /\ slot'[w].reaped = slot[w].reaped
    BY <1>1, <1>11 DEF Publishes, RunHasSettled, FocusKnown, Slots
  <2>2. UNCHANGED <<process, reader>>
    BY <1>11 DEF Publishes, RunHasSettled, workerVars
  <2> QED BY <1>5, <2>1, <2>2
<1>12. CASE Gives \/ \E w \in Workers : Seeds(w)
  <2>1. PICK w \in Workers : (\E next : Dispatch(w, next)) /\ reader' = reader
    BY <1>1, <1>12 DEF Gives, Seeds, FocusKnown
  <2> PICK next : Dispatch(w, next)
    BY <2>1
  <2>2. PICK j \in todo :
          \/ /\ \E l : process' = [process EXCEPT ![w].given = @ \cup {l}, ![w].due = @ \cup {l}]
             /\ slot' = [slot EXCEPT ![w].flight = j, ![w].published = NoJob]
          \/ Fails(w, TRUE, j, next) /\ process' = process
    BY <2>1 DEF Dispatch
  <2>3. CASE Fails(w, TRUE, j, next) /\ process' = process
    BY <1>9, <2>1, <2>3
  <2>4. CASE /\ \E l : process' = [process EXCEPT ![w].given = @ \cup {l}, ![w].due = @ \cup {l}]
             /\ slot' = [slot EXCEPT ![w].flight = j, ![w].published = NoJob]
    <3>1. \A v \in Workers : slot'[v].alive = slot[v].alive /\ slot'[v].reaped = slot[v].reaped
      BY <1>1, <2>4 DEF Slots
    <3>2. \A v \in Workers : process'[v].state = process[v].state
      BY <1>1, <2>4 DEF Processes
    <3> QED BY <1>5, <2>1, <3>1, <3>2
  <2> QED BY <2>2, <2>3, <2>4
<1>13. CASE FindsFailure \/ ExitsWhileSettling \/ Judges \/ RejectsPending
  <2>1. cur \in Workers /\ UNCHANGED <<process, reader>>
    BY <1>1, <1>13 DEF FindsFailure, ExitsWhileSettling, Judges, RejectsPending, FocusKnown,
       workerVars
  <2> QED BY <1>9, <1>10, <1>13, <2>1 DEF FindsFailure, ExitsWhileSettling, Judges, RejectsPending
<1>14. CASE \E w \in Workers : TakesEvent(w) \/ SeesExit(w) \/ ExitsLate(w) \/ WritesLate(w)
  <2>1. PICK w \in Workers : TakesEvent(w) \/ SeesExit(w) \/ ExitsLate(w) \/ WritesLate(w)
    BY <1>14
  <2>2. UNCHANGED <<process, reader>>
    BY <2>1 DEF TakesEvent, SeesExit, ExitsLate, WritesLate, workerVars
  <2> QED BY <1>9, <1>10, <2>1, <2>2 DEF TakesEvent, SeesExit, ExitsLate, WritesLate, FailsLate
<1> QED
  BY <1>6, <1>7, <1>8, <1>10, <1>11, <1>12, <1>13, <1>14
     DEF CoordinatorStep, GivesUp, AcceptsCall, IsSeeded, LeavesLoop, FindsNoFailure, PutsBack,
         HasSettled, ChecksPending, NothingToGive, Returns, workerVars

(* The inductive invariant of the slots: a dead slot's process has ended    *)
(* and, while the pool is in use, its reader has too; a closed pool is      *)
(* never started.                                                           *)
THEOREM SlotsAlwaysKnown == PoolSpec => []SlotsKnown
<1>1. PoolInit => SlotsKnown
  <2> SUFFICES ASSUME PoolInit PROVE SlotsKnown
    OBVIOUS
  <2>1. PICK restarting \in BOOLEAN, p \in Pools :
          life = [started |-> FALSE, closed |-> FALSE, usable |-> TRUE,
                  restarting |-> restarting, pool |-> p]
    BY DEF PoolInit
  <2>2. ~life.started /\ \A w \in Workers : process[w].state = "none"
    BY <2>1 DEF PoolInit, NoProcess, NewProcess
  <2> QED BY <2>2 DEF SlotsKnown, Gone
<1>2. Typed /\ SlotsKnown /\ [PoolNext]_vars => SlotsKnown'
  <2> SUFFICES ASSUME Typed, SlotsKnown, [PoolNext]_vars PROVE SlotsKnown'
    OBVIOUS
  <2>1. CASE UNCHANGED vars
    BY <2>1 DEF SlotsKnown, Gone, vars, workerVars, callVars, Workers
  <2> QED
    BY <2>1, WorkersKeepSlots, CallerKeepsSlots, CoordinatorKeepsSlots
       DEF PoolNext, WorkerStep, CallerStep
<1> QED
  BY <1>1, <1>2, PoolTyped, PTL DEF PoolSpec

(* A worker the coordinator believes dead has ended, its reader puts        *)
(* nothing more on the queue, and no job is entered for it: a replacement   *)
(* never shares its slot with what it replaces.                             *)
THEOREM DeadStayGone == PoolSpec => []DeadAreGone
  BY DeadWereGone, BookAlwaysHolds, SlotsAlwaysKnown, PTL

============================================================================
