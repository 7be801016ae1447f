---------------------------- MODULE AdmissionProofs ----------------------------
(***************************************************************************)
(* What replay and admission decide, for every game, registry and roster:   *)
(* a record that replays is the recorder's own account of its keys, and an  *)
(* honest record always replays and is admitted.  Both are about values,    *)
(* and the proofs about the machines that record and admit rest on them.    *)
(***************************************************************************)
EXTENDS Admission, FiniteSetTheorems, FunctionTheorems, TLAPS

----------------------------------------------------------------------------
(* Sequences, as far as their own elements. *)

(* A function on an initial part of the numbers is a sequence.              *)
LEMMA FunctionIsSeq ==
    ASSUME NEW f, NEW n \in Nat, f = [i \in 1..n |-> f[i]]
    PROVE  f \in Seq(Range(f)) /\ Len(f) = n /\ DOMAIN f = 1..n
  <1>1. DOMAIN f = 1..n
    OBVIOUS
  <1>2. f \in [1..n -> Range(f)]
    BY <1>1 DEF Range
  <1>3. f \in Seq(Range(f))
    BY <1>2
  <1> QED
    BY <1>1, <1>3

(* A sequence is a function on the numbers up to its length.                *)
LEMMA SeqIsFunction ==
    ASSUME NEW S, NEW s \in Seq(S)
    PROVE  Len(s) \in Nat /\ DOMAIN s = 1..Len(s) /\ s = [i \in 1..Len(s) |-> s[i]]
  OBVIOUS

(* One more element at the end.                                             *)
LEMMA AppendedIsSeq ==
    ASSUME NEW s, s \in Seq(Range(s)), NEW x
    PROVE  /\ Append(s, x) \in Seq(Range(Append(s, x)))
           /\ Len(Append(s, x)) = Len(s) + 1 /\ DOMAIN Append(s, x) = 1..(Len(s) + 1)
           /\ \A i \in 1..Len(s) : Append(s, x)[i] = s[i]
           /\ Append(s, x)[Len(s) + 1] = x
  <1>1. s \in Seq(Range(s) \cup {x})
    BY SeqIsFunction DEF Range
  <1>2. Append(s, x) \in Seq(Range(s) \cup {x}) /\ Len(Append(s, x)) = Len(s) + 1
    BY <1>1
  <1>3. /\ DOMAIN Append(s, x) = 1..(Len(s) + 1)
        /\ Append(s, x) = [i \in 1..(Len(s) + 1) |-> Append(s, x)[i]]
    BY <1>2, SeqIsFunction
  <1>4. Append(s, x) \in Seq(Range(Append(s, x)))
    BY <1>3, FunctionIsSeq, Len(s) + 1 \in Nat
  <1> QED
    BY <1>1, <1>2, <1>3, <1>4

----------------------------------------------------------------------------
(* Answers of the environment *)

(* The environment answers with a frame, a terminal or an interruption.     *)
LEMMA AnswerKinds ==
    ASSUME NEW spec, NEW c, NEW keys
    PROVE  LET a == Answer(spec, c, keys)
           IN  /\ a.kind \in {"frame", "terminal", "interrupted"}
               /\ a.kind = "frame" => a = [kind |-> "frame", frame |-> Frame(spec, keys)]
  BY DEF Answer, Interruption

(* What it counts is the actions.                                           *)
LEMMA AnswerCounts ==
    ASSUME NEW spec, NEW c, NEW keys, Answer(spec, c, keys).kind # "frame"
    PROVE  Answer(spec, c, keys).count = Len(keys) /\ Answer(spec, c, keys).episode = spec
  BY DEF Answer, Interruption

(* The keys of an envelope up to a record are the first keys it played.     *)
Played(e) == [i \in DOMAIN e.records |-> e.records[i].key]

(* The first keys of an envelope are a sequence, of what it played.         *)
LEMMA KeysArePlayed ==
    ASSUME NEW e, e.records \in Seq(Range(e.records)), NEW i \in 0..Len(e.records)
    PROVE  /\ Keys(e, i) = SubSeq(Played(e), 1, i) /\ Len(Keys(e, i)) = i
           /\ Keys(e, i) \in Seq(Range(Keys(e, i)))
           /\ Keys(e, Len(e.records)) = Played(e)
  <1>1. DOMAIN e.records = 1..Len(e.records) /\ Len(e.records) \in Nat
    BY SeqIsFunction
  <1>2. Played(e) \in Seq(Range(Played(e))) /\ Len(Played(e)) = Len(e.records)
    BY <1>1, FunctionIsSeq DEF Played
  <1>3. Keys(e, i) \in Seq(Range(Keys(e, i))) /\ Len(Keys(e, i)) = i
    BY <1>1, FunctionIsSeq DEF Keys
  <1>4. Keys(e, i) = SubSeq(Played(e), 1, i)
    BY <1>1, <1>2 DEF Keys, Played
  <1> QED
    BY <1>1, <1>3, <1>4 DEF Keys, Played

(* Answers end where a frame does not follow: At is the answer, or refuses. *)
LEMMA AtAnswers ==
    ASSUME NEW e, NEW c, NEW i, At(e, c, i).kind # "rejected"
    PROVE  /\ Reached(e.manifest.episode, Keys(e, i))
           /\ At(e, c, i) = Answer(e.manifest.episode, c, Keys(e, i))
  BY DEF At

----------------------------------------------------------------------------
(* Replay is sound *)

(* What the environment reaches when a record replays, before and after it. *)
LEMMA ReplayReaches ==
    ASSUME NEW e, NEW c, NEW i, StepReplays(e, c, i)
    PROVE  LET s == e.manifest.episode
               next == Answer(s, c, Keys(e, i))
           IN  /\ Reached(s, Keys(e, i - 1)) /\ Reached(s, Keys(e, i))
               /\ WasOffered(e, c, i)
               /\ e.records[i].frame = Frame(s, Keys(e, i - 1))
               /\ e.records[i].class = Class(e.records[i].key, e.records[i].frame.request)
               /\ e.records[i].successor = next.kind
               /\ next.kind = "frame" =>
                    /\ e.records[i].target = Target(e.records[i].target.kind, Frame(s, Keys(e, i)))
                    /\ (i = Len(e.records)) = (e.records[i].target.kind = "pending")
                    /\ e.records[i].target.kind = "pending" =>
                            e.closure.pending = Frame(s, Keys(e, i))
               /\ next.kind # "frame" =>
                    i = Len(e.records) /\ e.closure.kind = next.kind /\ ~Pending(e)
  <1> DEFINE s == e.manifest.episode
             now == Answer(s, c, Keys(e, i - 1))
             next == Answer(s, c, Keys(e, i))
  <1>1. /\ At(e, c, i - 1).kind = "frame" /\ e.records[i].frame = At(e, c, i - 1).frame
        /\ e.records[i].class = Class(e.records[i].key, At(e, c, i - 1).frame.request)
    BY DEF StepReplays
  <1>2. Reached(s, Keys(e, i - 1)) /\ At(e, c, i - 1) = now
    BY <1>1, AtAnswers
  <1>3. now = [kind |-> "frame", frame |-> Frame(s, Keys(e, i - 1))]
    BY <1>1, <1>2, AnswerKinds
  <1>4. At(e, c, i).kind \in {"frame", "terminal", "interrupted"}
    BY DEF StepReplays
  <1>5. Reached(s, Keys(e, i)) /\ At(e, c, i) = next
    BY <1>4, AtAnswers
  <1>6. next.kind = "frame" => next.frame = Frame(s, Keys(e, i))
    <2>1. next.kind = "frame" => next = [kind |-> "frame", frame |-> Frame(s, Keys(e, i))]
      BY AnswerKinds
    <2> QED
      BY <2>1
  <1>7. /\ e.records[i].successor = next.kind
        /\ next.kind = "frame" =>
                    /\ e.records[i].target = Target(e.records[i].target.kind, next.frame)
                    /\ (i = Len(e.records)) = (e.records[i].target.kind = "pending")
                    /\ e.records[i].target.kind = "pending" => e.closure.pending = next.frame
        /\ next.kind # "frame" =>
                    i = Len(e.records) /\ e.closure.kind = next.kind /\ ~Pending(e)
    <2> HIDE DEF next
    <2> QED
      BY <1>5 DEF StepReplays
  <1>8. e.records[i].frame = Frame(s, Keys(e, i - 1))
    BY <1>1, <1>2, <1>3
  <1> HIDE DEF s, now, next
  <1>9. e.records[i].class = Class(e.records[i].key, e.records[i].frame.request)
    BY <1>1
  <1>10. WasOffered(e, c, i)
    <2>1. At(e, c, i - 1).kind = "frame"
          /\ e.records[i].key \in Range(At(e, c, i - 1).frame.request.keys)
      BY DEF StepReplays
    <2> QED
      BY <1>2, <2>1 DEF WasOffered, s, now
  <1> QED
    BY <1>2, <1>5, <1>6, <1>7, <1>8, <1>9, <1>10 DEF s, now, next

(* A record the pending frame is put behind keeps its other fields.          *)
LEMMA LedToRecord ==
    ASSUME NEW frame, NEW key, NEW a, NEW next, NEW pending
    PROVE  LedTo(NewRecord(frame, key, a, next), pending)
            = [frame |-> frame, key |-> key, class |-> Class(key, frame.request),
               assignment |-> a.assignment, rng |-> a, successor |-> "frame",
               target |-> Target("pending", pending)]
  <1> DEFINE to == IF next.kind = "frame" THEN Target("record", next.frame) ELSE None
             r == NewRecord(frame, key, a, next)
             class == Class(key, frame.request)
             target == Target("pending", pending)
  <1>1. r = [frame |-> frame, key |-> key, class |-> class, assignment |-> a.assignment,
             rng |-> a, successor |-> next.kind, target |-> to]
    BY DEF NewRecord
  <1> HIDE DEF to, r, class, target
  <1>2. LedTo(r, pending) \in
            [frame : {frame}, key : {key}, class : {class}, assignment : {a.assignment},
             rng : {a}, successor : {"frame"}, target : {target}]
    BY <1>1 DEF LedTo, target
  <1>3. LedTo(r, pending)
            = [frame |-> frame, key |-> key, class |-> class, assignment |-> a.assignment,
               rng |-> a, successor |-> "frame", target |-> target]
    BY <1>2
  <1> QED
    BY <1>3 DEF r, class, target

(* A record that replays is what the recorder writes of its key, if for the *)
(* last one of an interrupted episode the pending frame is put behind it.   *)
LEMMA ReplayedIsWritten ==
    ASSUME NEW e, NEW c, IsEnvelope(e), WellFormed(e), NEW i \in DOMAIN e.records,
           StepReplays(e, c, i)
    PROVE  LET s == e.manifest.episode
               r == e.records[i]
               written == NewRecord(Frame(s, Keys(e, i - 1)), r.key, r.rng,
                                    Answer(s, c, Keys(e, i)))
           IN  r = IF i = Len(e.records) /\ Answer(s, c, Keys(e, i)).kind = "frame"
                   THEN LedTo(written, Frame(s, Keys(e, i)))
                   ELSE written
  <1> DEFINE s == e.manifest.episode
             r == e.records[i]
             next == Answer(s, c, Keys(e, i))
  <1>1. IsRecord(r) /\ r.assignment = r.rng.assignment /\ LeadsTo(e, i)
    BY DEF IsEnvelope, WellFormed
  <1>2. /\ r.frame = Frame(s, Keys(e, i - 1)) /\ r.class = Class(r.key, r.frame.request)
        /\ r.successor = next.kind
        /\ next.kind = "frame" =>
              /\ r.target = Target(r.target.kind, Frame(s, Keys(e, i)))
              /\ (i = Len(e.records)) = (r.target.kind = "pending")
        /\ next.kind # "frame" => i = Len(e.records) /\ ~Pending(e)
    BY ReplayReaches
  <1>3. next.kind = "frame" => next.frame = Frame(s, Keys(e, i))
    <2>1. next.kind = "frame" => next = [kind |-> "frame", frame |-> Frame(s, Keys(e, i))]
      BY AnswerKinds
    <2> QED
      BY <2>1
  <1>4. next.kind # "frame" => r.target = None
    BY <1>1, <1>2 DEF LeadsTo, Pending
  <1>5. next.kind = "frame" /\ i # Len(e.records) => r.target = Target("record", next.frame)
    <2>1. i \in 1..Len(e.records) /\ Len(e.records) \in Nat
      BY SeqIsFunction DEF IsEnvelope
    <2>2. ASSUME i # Len(e.records)
          PROVE  r.target = Target("record", e.records[i + 1].frame)
      BY <1>1, <2>1, <2>2 DEF LeadsTo
    <2>3. ASSUME i # Len(e.records)
          PROVE  r.target.kind = "record"
      BY <2>2, <2>3 DEF Target
    <2> QED
      BY <1>2, <1>3, <2>3
  <1> HIDE DEF s, r, next
  <1>6. r = [frame |-> r.frame, key |-> r.key, class |-> r.class, assignment |-> r.assignment,
             rng |-> r.rng, successor |-> r.successor, target |-> r.target]
    BY <1>1 DEF IsRecord
  <1>7. CASE next.kind # "frame"
    BY <1>1, <1>2, <1>4, <1>6, <1>7 DEF NewRecord, s, r, next
  <1>8. CASE next.kind = "frame" /\ i # Len(e.records)
    BY <1>1, <1>2, <1>5, <1>6, <1>8 DEF NewRecord, s, r, next
  <1>9. CASE next.kind = "frame" /\ i = Len(e.records)
    <2>1. r.target = Target("pending", Frame(s, Keys(e, i)))
      BY <1>2, <1>9
    <2>2. LedTo(NewRecord(Frame(s, Keys(e, i - 1)), r.key, r.rng, next), Frame(s, Keys(e, i)))
            = [frame |-> r.frame, key |-> r.key, class |-> Class(r.key, r.frame.request),
               assignment |-> r.rng.assignment, rng |-> r.rng, successor |-> "frame",
               target |-> Target("pending", Frame(s, Keys(e, i)))]
      BY <1>2, LedToRecord
    <2>3. LedTo(NewRecord(Frame(s, Keys(e, i - 1)), r.key, r.rng, next), Frame(s, Keys(e, i))) = r
      BY <1>1, <1>2, <1>6, <1>9, <2>1, <2>2
    <2> QED
      BY <1>9, <2>3 DEF s, r, next
  <1> QED
    BY <1>7, <1>8, <1>9

(* The recorder's account, record by record. *)
Written(e, c) ==
    [i \in DOMAIN e.records |->
        NewRecord(Frame(e.manifest.episode, Keys(e, i - 1)), e.records[i].key, e.records[i].rng,
                  Answer(e.manifest.episode, c, Keys(e, i)))]

(* The recorder's account in terms of the keys an envelope has.             *)
LEMMA RecordingIs ==
    ASSUME NEW e, e.records \in Seq(Range(e.records)), NEW c, NEW cancelled \in BOOLEAN
    PROVE  LET s == e.manifest.episode
               all == Keys(e, Len(e.records))
           IN  RecordingOf(e, c, cancelled) =
                  IF cancelled
                  THEN [records |-> LedToPending(Written(e, c), Frame(s, all)),
                        closure |-> PendingClosure(Frame(s, all))]
                  ELSE [records |-> Written(e, c), closure |-> ClosureOf(Answer(s, c, all))]
  <1> DEFINE s == e.manifest.episode
             played == [i \in DOMAIN e.records |-> e.records[i].key]
             all == Keys(e, Len(e.records))
             written == [i \in DOMAIN e.records |->
                      NewRecord(Frame(s, SubSeq(played, 1, i - 1)), played[i],
                                e.records[i].rng, Answer(s, c, SubSeq(played, 1, i)))]
  <1>1. DOMAIN e.records = 1..Len(e.records) /\ Len(e.records) \in Nat
    BY SeqIsFunction
  <1>2. played = all
    BY KeysArePlayed, <1>1 DEF Played
  <1>3. \A i \in DOMAIN e.records : /\ SubSeq(played, 1, i) = Keys(e, i)
                                    /\ SubSeq(played, 1, i - 1) = Keys(e, i - 1)
                                    /\ played[i] = e.records[i].key
    <2> SUFFICES ASSUME NEW i \in DOMAIN e.records
                 PROVE  /\ SubSeq(played, 1, i) = Keys(e, i)
                        /\ SubSeq(played, 1, i - 1) = Keys(e, i - 1)
                        /\ played[i] = e.records[i].key
      OBVIOUS
    <2>1. i \in 0..Len(e.records) /\ i - 1 \in 0..Len(e.records)
      BY <1>1
    <2> QED
      BY <2>1, KeysArePlayed DEF Played
  <1>4. written = Written(e, c)
    <2> HIDE DEF played, s
    <2> QED
      BY <1>3 DEF Written, s
  <1>5. RecordingOf(e, c, cancelled) =
          IF cancelled
          THEN [records |-> LedToPending(written, Frame(s, played)),
                closure |-> PendingClosure(Frame(s, played))]
          ELSE [records |-> written, closure |-> ClosureOf(Answer(s, c, played))]
    BY DEF RecordingOf
  <1> HIDE DEF s, played, all, written
  <1>6. RecordingOf(e, c, cancelled) =
          IF cancelled
          THEN [records |-> LedToPending(Written(e, c), Frame(s, all)),
                closure |-> PendingClosure(Frame(s, all))]
          ELSE [records |-> Written(e, c), closure |-> ClosureOf(Answer(s, c, all))]
    BY <1>2, <1>4, <1>5
  <1> QED
    BY <1>6 DEF s, all

(* The frame behind the last record changes no other record.                *)
LEMMA LedToPendingIs ==
    ASSUME NEW rs, rs \in Seq(Range(rs)), NEW frame
    PROVE  LedToPending(rs, frame) =
              [i \in DOMAIN rs |-> IF i = Len(rs) THEN LedTo(rs[i], frame) ELSE rs[i]]
  <1>1. DOMAIN rs = 1..Len(rs) /\ Len(rs) \in Nat
    BY SeqIsFunction
  <1>2. CASE rs = <<>>
    BY <1>1, <1>2 DEF LedToPending
  <1>3. CASE rs # <<>>
    <2>1. LedToPending(rs, frame) = [rs EXCEPT ![Len(rs)] = LedTo(@, frame)]
      BY <1>3 DEF LedToPending
    <2>2. rs = [i \in DOMAIN rs |-> rs[i]]
      BY SeqIsFunction
    <2> QED
      BY <2>1, <2>2
  <1> QED
    BY <1>2, <1>3

(* Before its first record an envelope has played nothing.                  *)
LEMMA FirstKeys == ASSUME NEW e PROVE Keys(e, 0) = <<>>
  BY DEF Keys

(* Whether the closure is the recorder's is what the comparison at the end  *)
(* of replay comes to.                                                      *)
LEMMA ComparedClosure ==
    ASSUME NEW e, NEW x, NEW c, IsClosure(e.closure),
           LET s == e.manifest.episode
               all == Keys(e, Len(e.records))
           IN  \/ Pending(e) /\ e.closure.pending = Frame(s, all)
                  /\ CompareInterrupted(e, x, Cancelled(s, c, all))
                  /\ Len(all) = Len(e.records)
               \/ ~Pending(e) /\ Answer(s, c, all).kind = "terminal"
                  /\ CompareTerminal(e, Answer(s, c, all))
               \/ ~Pending(e) /\ Answer(s, c, all).kind = "interrupted"
                  /\ CompareInterrupted(e, x, Answer(s, c, all))
    PROVE  LET s == e.manifest.episode
               all == Keys(e, Len(e.records))
           IN  e.closure = IF Pending(e) THEN PendingClosure(Frame(s, all))
                           ELSE ClosureOf(Answer(s, c, all))
  <1> DEFINE s == e.manifest.episode
             all == Keys(e, Len(e.records))
             end == Answer(s, c, all)
  <1>1. CASE /\ Pending(e) /\ e.closure.pending = Frame(s, all)
             /\ CompareInterrupted(e, x, Cancelled(s, c, all)) /\ Len(all) = Len(e.records)
    <2>1. e.closure.kind = "interrupted" /\ e.closure.count = Len(e.records)
      BY <1>1 DEF CompareInterrupted
    <2>2. e.closure = InterruptedClosure(e.closure.count, e.closure.pending)
      BY <2>1 DEF IsClosure, TerminalClosure, FailedClosure
    <2>3. Frame(s, all).index = Len(all)
      BY DEF Frame
    <2> HIDE DEF s, all
    <2> QED
      BY <1>1, <2>1, <2>2, <2>3 DEF PendingClosure, s, all
  <1>2. CASE ~Pending(e) /\ end.kind = "terminal" /\ CompareTerminal(e, end)
    <2>1. /\ e.closure.kind = "terminal" /\ e.closure.count = end.count
          /\ e.closure.winner = end.winner /\ e.closure.views = end.views
          /\ e.closure.last = end.last
      BY <1>2 DEF CompareTerminal
    <2>2. e.closure = TerminalClosure(e.closure.count, e.closure.winner, e.closure.last,
                                      e.closure.views)
      BY <2>1 DEF IsClosure, InterruptedClosure, FailedClosure
    <2> HIDE DEF end
    <2>3. e.closure = ClosureOf(end)
      BY <1>2, <2>1, <2>2 DEF ClosureOf
    <2> QED
      BY <1>2, <2>3 DEF end
  <1>3. CASE ~Pending(e) /\ end.kind = "interrupted" /\ CompareInterrupted(e, x, end)
    <2>1. e.closure.kind = "interrupted" /\ e.closure.count = end.count
      BY <1>3 DEF CompareInterrupted
    <2>2. e.closure = InterruptedClosure(e.closure.count, None)
      BY <1>3, <2>1 DEF IsClosure, TerminalClosure, FailedClosure, Pending
    <2> HIDE DEF end
    <2>3. e.closure = ClosureOf(end)
      BY <1>3, <2>1, <2>2 DEF ClosureOf
    <2> QED
      BY <1>3, <2>3 DEF end
  <1> QED
    BY <1>1, <1>2, <1>3

(* The boundary a replay ends at is compared with the closure.              *)
LEMMA ReplayedClosure ==
    ASSUME NEW e, NEW x, NEW options, IsEnvelope(e), Replays(e, x, options)
    PROVE  LET s == e.manifest.episode
               all == Keys(e, Len(e.records))
               end == Answer(s, ReplayControl(e, x, options), all)
           IN  /\ Reached(s, all)
               /\ Pending(e) <=> (end.kind = "frame")
               /\ e.closure = IF Pending(e) THEN PendingClosure(Frame(s, all)) ELSE ClosureOf(end)
  <1> DEFINE s == e.manifest.episode
             all == Keys(e, Len(e.records))
             c == ReplayControl(e, x, options)
             end == Answer(s, c, all)
  <1>1. CASE Pending(e)
    <2>1. /\ At(e, c, Len(e.records)).kind = "frame"
          /\ At(e, c, Len(e.records)).frame = e.closure.pending
          /\ CompareInterrupted(e, x, Cancelled(s, c, all))
      BY <1>1 DEF Replays
    <2>2. Reached(s, all) /\ At(e, c, Len(e.records)) = end
      BY <2>1, AtAnswers
    <2>3. end = [kind |-> "frame", frame |-> Frame(s, all)]
      BY <2>1, <2>2, AnswerKinds
    <2>4. e.closure.pending = Frame(s, all)
      BY <2>1, <2>2, <2>3
    <2>5. Len(all) = Len(e.records)
      <3>1. e.records \in Seq(Range(e.records))
        BY DEF IsEnvelope
      <3>2. Len(e.records) \in 0..Len(e.records)
        BY <3>1
      <3> QED
        BY <3>1, <3>2, KeysArePlayed
    <2>6. IsClosure(e.closure)
      BY DEF IsEnvelope
    <2>7. e.closure = PendingClosure(Frame(s, all))
      <3> HIDE DEF c
      <3> QED
        BY <1>1, <2>1, <2>4, <2>5, <2>6, ComparedClosure
    <2>8. end.kind = "frame"
      BY <2>3
    <2> HIDE DEF s, all, c, end
    <2> QED
      BY <1>1, <2>2, <2>7, <2>8 DEF s, all, c, end
  <1>2. CASE ~Pending(e)
    <2>1. /\ At(e, c, Len(e.records)).kind \in {"terminal", "interrupted"}
          /\ \/ At(e, c, Len(e.records)).kind = "terminal"
                /\ CompareTerminal(e, At(e, c, Len(e.records)))
             \/ At(e, c, Len(e.records)).kind = "interrupted"
                /\ CompareInterrupted(e, x, At(e, c, Len(e.records)))
      BY <1>2 DEF Replays
    <2>2. Reached(s, all) /\ At(e, c, Len(e.records)) = end
      BY <2>1, AtAnswers
    <2>3. IsClosure(e.closure)
      BY DEF IsEnvelope
    <2>4. \/ end.kind = "terminal" /\ CompareTerminal(e, end)
          \/ end.kind = "interrupted" /\ CompareInterrupted(e, x, end)
      BY <2>1, <2>2
    <2>5. e.closure = ClosureOf(end)
      <3> HIDE DEF c
      <3> QED
        BY <1>2, <2>4, <2>3, ComparedClosure
    <2> HIDE DEF s, all, c, end
    <2> QED
      BY <1>2, <2>2, <2>4, <2>5 DEF s, all, c, end
  <1> QED
    BY <1>1, <1>2

(* What replays could have been recorded: the envelope is the recorder's    *)
(* account of its keys, under the control replay ran with.                  *)
THEOREM ReplayedWasPlayed ==
    ASSUME NEW e, NEW x, NEW options, IsEnvelope(e), Replays(e, x, options)
    PROVE  WasPlayed(e, ReplayControl(e, x, options))
  <1> DEFINE s == e.manifest.episode
             c == ReplayControl(e, x, options)
             all == Keys(e, Len(e.records))
             cancelled == Answer(s, c, all).kind = "frame"
  <1>1. /\ WellFormed(e) /\ s \in Specs
        /\ \A i \in DOMAIN e.records : StepReplays(e, c, i)
    BY DEF Replays, Resolved
  <1>2. /\ e.records \in Seq(Range(e.records)) /\ DOMAIN e.records = 1..Len(e.records)
        /\ Len(e.records) \in Nat /\ e.records = [i \in DOMAIN e.records |-> e.records[i]]
    <2>1. e.records \in Seq(Range(e.records))
      BY DEF IsEnvelope
    <2> QED
      BY <2>1, SeqIsFunction
  <1>3. /\ Reached(s, all)
        /\ Pending(e) <=> cancelled
        /\ e.closure = IF Pending(e) THEN PendingClosure(Frame(s, all))
                       ELSE ClosureOf(Answer(s, c, all))
    BY ReplayedClosure
  <1> HIDE DEF c
  <1>4. \A i \in 0..Len(e.records) : Reached(s, Keys(e, i))
    <2> SUFFICES ASSUME NEW i \in 0..Len(e.records)
                 PROVE  Reached(s, Keys(e, i))
      OBVIOUS
    <2>1. CASE i = 0
      BY <1>1, <2>1, FirstKeys, GameAssumption
    <2>2. CASE i # 0
      <3>1. i \in DOMAIN e.records
        BY <1>2, <2>2
      <3> QED
        BY <1>1, <3>1, ReplayReaches
    <2> QED
      BY <2>1, <2>2
  <1>5. \A i \in DOMAIN e.records :
            e.records[i] = IF i = Len(e.records) /\ cancelled
                           THEN LedTo(Written(e, c)[i], Frame(s, all)) ELSE Written(e, c)[i]
    <2> SUFFICES ASSUME NEW i \in DOMAIN e.records
                 PROVE  e.records[i] = IF i = Len(e.records) /\ cancelled
                                       THEN LedTo(Written(e, c)[i], Frame(s, all))
                                       ELSE Written(e, c)[i]
      OBVIOUS
    <2> DEFINE written == NewRecord(Frame(s, Keys(e, i - 1)), e.records[i].key, e.records[i].rng,
                                    Answer(s, c, Keys(e, i)))
    <2>1. e.records[i] = IF i = Len(e.records) /\ Answer(s, c, Keys(e, i)).kind = "frame"
                         THEN LedTo(written, Frame(s, Keys(e, i))) ELSE written
      BY <1>1, ReplayedIsWritten
    <2>2. Written(e, c)[i] = written
      BY DEF Written
    <2> HIDE DEF written
    <2> QED
      BY <2>1, <2>2
  <1>6. Written(e, c) \in Seq(Range(Written(e, c))) /\ Len(Written(e, c)) = Len(e.records)
        /\ DOMAIN Written(e, c) = DOMAIN e.records
    <2>1. Written(e, c) = [i \in 1..Len(e.records) |-> Written(e, c)[i]]
      BY <1>2 DEF Written
    <2> HIDE DEF Written
    <2> QED
      BY <1>2, <2>1, FunctionIsSeq
  <1>7. RecordingOf(e, c, cancelled) =
            IF cancelled
            THEN [records |-> LedToPending(Written(e, c), Frame(s, all)),
                  closure |-> PendingClosure(Frame(s, all))]
            ELSE [records |-> Written(e, c), closure |-> ClosureOf(Answer(s, c, all))]
    <2>1. cancelled \in BOOLEAN
      OBVIOUS
    <2> QED
      BY <1>2, <2>1, RecordingIs
  <1>8. cancelled => e.records = LedToPending(Written(e, c), Frame(s, all))
    <2>1. LedToPending(Written(e, c), Frame(s, all)) =
              [i \in DOMAIN e.records |->
                  IF i = Len(e.records) THEN LedTo(Written(e, c)[i], Frame(s, all))
                  ELSE Written(e, c)[i]]
      BY <1>6, LedToPendingIs
    <2> HIDE DEF s, all, cancelled
    <2> QED
      BY <1>2, <1>5, <2>1
  <1>9. ~cancelled => e.records = Written(e, c)
    <2>1. Written(e, c) = [i \in DOMAIN e.records |-> Written(e, c)[i]]
      BY DEF Written
    <2> HIDE DEF s, all, cancelled
    <2> QED
      BY <1>2, <1>5, <2>1
  <1>10. RecordingOf(e, c, cancelled) = [records |-> e.records, closure |-> e.closure]
    <2> DEFINE whole == RecordingOf(e, c, cancelled)
               led == LedToPending(Written(e, c), Frame(s, all))
               pendingClosure == PendingClosure(Frame(s, all))
               ended == ClosureOf(Answer(s, c, all))
    <2>1. whole = IF cancelled THEN [records |-> led, closure |-> pendingClosure]
                  ELSE [records |-> Written(e, c), closure |-> ended]
      BY <1>7
    <2>2. /\ e.closure = IF cancelled THEN pendingClosure ELSE ended
          /\ cancelled => e.records = led
      BY <1>3, <1>8
    <2> HIDE DEF whole, led, pendingClosure, ended, cancelled
    <2>3. whole = [records |-> e.records, closure |-> e.closure]
      BY <1>9, <2>1, <2>2
    <2> QED
      BY <2>3 DEF whole, cancelled
  <1>11. \A i \in DOMAIN e.records : WasOffered(e, c, i)
    BY <1>1, ReplayReaches
  <1>12. WasPlayed(e, c)
    BY <1>4, <1>10, <1>11 DEF WasPlayed
  <1> QED
    BY <1>12 DEF c

(* A record whose attribution holds was chosen by the policy in charge.     *)
LEMMA AttributedFits ==
    ASSUME NEW e, NEW r, NEW bundle, Attributed(e, r, bundle)
    PROVE  AttributionFits(e.manifest.provenance, r.frame, r.rng)
  <1>1. /\ r.assignment \in Active(e.manifest.provenance, r.frame.player, r.frame.index)
        /\ r.rng.assignment = r.assignment /\ r.rng.index = r.frame.index
    BY DEF Attributed
  <1>2. CASE r.rng.mode = "none"
    BY <1>1, <1>2 DEF Attributed, AttributionFits
  <1>3. CASE r.rng.mode # "none"
    BY <1>1, <1>3 DEF Attributed, AttributionFits
  <1> QED
    BY <1>2, <1>3

(* Where a valid control of replay comes from.                              *)
LEMMA ReplayControlIs ==
    ASSUME NEW e, NEW x, NEW options, ValidControl(ReplayControl(e, x, options))
    PROVE  ReplayControl(e, x, options) =
              IF e.closure.kind = "terminal" THEN options.control
              ELSE [process |-> x.process, actions |-> x.actions]
  <1>1. ~ValidControl(NoControl)
    BY DEF ValidControl, NoControl
  <1>2. ReplayControl(e, x, options) # NoControl
    BY <1>1
  <1> QED
    BY <1>2 DEF ReplayControl

(* What is admissible was played, clean and to a proper end, under the      *)
(* verifier's control or that of its evidence, by the policies in charge.   *)
THEOREM AdmissibleWasPlayed ==
    ASSUME NEW e, NEW bundle, NEW options, IsEnvelope(e), Admissible(e, bundle, options)
    PROVE  /\ Eligible(e)
           /\ \E c \in {options.control}
                       \cup {[process |-> x.evidence.process, actions |-> x.evidence.actions] :
                                x \in EvidenceFor(bundle, e)} : WasPlayed(e, c)
           /\ \A i \in DOMAIN e.records :
                 AttributionFits(e.manifest.provenance, e.records[i].frame, e.records[i].rng)
  <1> DEFINE own == EvidenceFor(bundle, e)
             x == IF own = {} THEN None ELSE (CHOOSE x \in own : TRUE).evidence
             c == ReplayControl(e, x, options)
  <1>1. Eligible(e) /\ Replays(e, x, options)
        /\ \A i \in DOMAIN e.records : Attributed(e, e.records[i], bundle)
    BY DEF Admissible
  <1>2. WasPlayed(e, c)
    BY <1>1, ReplayedWasPlayed
  <1>3. ValidControl(c) /\ (x # None \/ e.closure.kind = "terminal")
    <2>1. ValidControl(c)
      BY <1>1 DEF Replays
    <2>2. c # NoControl
      BY <2>1 DEF ValidControl, NoControl
    <2> HIDE DEF x
    <2> QED
      BY <2>1, <2>2 DEF ReplayControl
  <1>4. c = IF e.closure.kind = "terminal" THEN options.control
            ELSE [process |-> x.process, actions |-> x.actions]
    BY <1>3, ReplayControlIs
  <1>5. c \in {options.control}
              \cup {[process |-> y.evidence.process, actions |-> y.evidence.actions] : y \in own}
    <2>1. CASE e.closure.kind = "terminal"
      BY <1>4, <2>1
    <2>2. CASE e.closure.kind # "terminal"
      <3>1. own # {}
        BY <1>3, <2>2
      <3>2. PICK y \in own : x = y.evidence
        BY <3>1
      <3> HIDE DEF own, x, c
      <3> QED
        BY <1>4, <2>2, <3>2
    <2> QED
      BY <2>1, <2>2
  <1>6. \A i \in DOMAIN e.records :
            AttributionFits(e.manifest.provenance, e.records[i].frame, e.records[i].rng)
    BY <1>1, AttributedFits
  <1> HIDE DEF c
  <1> QED
    BY <1>1, <1>2, <1>5, <1>6

----------------------------------------------------------------------------
(* Replay is complete *)

(* An envelope the recorder sealed of an episode played under a control,    *)
(* and the evidence the runner keeps of it.                                 *)
Ending(e, c) ==
    IF Pending(e) THEN Cancelled(e.manifest.episode, c, Keys(e, Len(e.records)))
    ELSE Answer(e.manifest.episode, c, Keys(e, Len(e.records)))

HonestPlay(e, c, x) ==
    /\ IsEnvelope(e) /\ WellFormed(e) /\ e.closure.kind # "failed" /\ Resolved(e.manifest)
    /\ c \in [process : Nat \ {0}, actions : Nat \ {0}] /\ c # None
    /\ WasPlayed(e, c)
    /\ IF e.closure.kind = "interrupted" THEN x = EvidenceOf(Ending(e, c)) /\ x # None
       ELSE x = None

(* What an envelope that was played says of each of its keys and of the end *)
LEMMA PlayedSays ==
    ASSUME NEW e, NEW c, IsEnvelope(e), WasPlayed(e, c)
    PROVE  LET s == e.manifest.episode
               all == Keys(e, Len(e.records))
               cancelled == Answer(s, c, all).kind = "frame"
           IN  /\ e.closure = IF cancelled THEN PendingClosure(Frame(s, all))
                              ELSE ClosureOf(Answer(s, c, all))
               /\ \A i \in DOMAIN e.records :
                    e.records[i] = IF cancelled /\ i = Len(e.records)
                                   THEN LedTo(Written(e, c)[i], Frame(s, all))
                                   ELSE Written(e, c)[i]
  <1> DEFINE s == e.manifest.episode
             all == Keys(e, Len(e.records))
             cancelled == Answer(s, c, all).kind = "frame"
             led == LedToPending(Written(e, c), Frame(s, all))
             pendingClosure == PendingClosure(Frame(s, all))
             ended == ClosureOf(Answer(s, c, all))
             whole == RecordingOf(e, c, cancelled)
  <1>1. /\ e.records \in Seq(Range(e.records)) /\ DOMAIN e.records = 1..Len(e.records)
        /\ Len(e.records) \in Nat
    <2>1. e.records \in Seq(Range(e.records))
      BY DEF IsEnvelope
    <2> QED
      BY <2>1, SeqIsFunction
  <1>2. whole = IF cancelled THEN [records |-> led, closure |-> pendingClosure]
                ELSE [records |-> Written(e, c), closure |-> ended]
    <2>1. cancelled \in BOOLEAN
      OBVIOUS
    <2> QED
      BY <1>1, <2>1, RecordingIs
  <1>3. whole = [records |-> e.records, closure |-> e.closure]
    BY DEF WasPlayed
  <1>4. /\ e.closure = IF cancelled THEN pendingClosure ELSE ended
        /\ e.records = IF cancelled THEN led ELSE Written(e, c)
    <2> HIDE DEF whole, led, pendingClosure, ended, cancelled
    <2>1. whole.closure = IF cancelled THEN pendingClosure ELSE ended
      BY <1>2
    <2>2. whole.records = IF cancelled THEN led ELSE Written(e, c)
      BY <1>2
    <2> QED
      BY <1>3, <2>1, <2>2
  <1>5. Written(e, c) \in Seq(Range(Written(e, c))) /\ Len(Written(e, c)) = Len(e.records)
        /\ DOMAIN Written(e, c) = DOMAIN e.records
    <2>1. Written(e, c) = [i \in 1..Len(e.records) |-> Written(e, c)[i]]
      BY <1>1 DEF Written
    <2> HIDE DEF Written
    <2> QED
      BY <1>1, <2>1, FunctionIsSeq
  <1>6. led = [i \in DOMAIN e.records |->
                  IF i = Len(e.records) THEN LedTo(Written(e, c)[i], Frame(s, all))
                  ELSE Written(e, c)[i]]
    BY <1>5, LedToPendingIs
  <1> HIDE DEF s, all, cancelled, led, pendingClosure, ended
  <1>7. \A i \in DOMAIN e.records :
            e.records[i] = IF cancelled /\ i = Len(e.records)
                           THEN LedTo(Written(e, c)[i], Frame(s, all)) ELSE Written(e, c)[i]
    BY <1>4, <1>6
  <1> QED
    BY <1>4, <1>7 DEF s, all, cancelled, pendingClosure, ended

(* The closure tells whether the episode was cancelled: frames are not None *)
LEMMA PlayedEnds ==
    ASSUME NEW e, NEW c, IsEnvelope(e), WasPlayed(e, c), e.manifest.episode \in Specs
    PROVE  LET s == e.manifest.episode
               all == Keys(e, Len(e.records))
               end == Answer(s, c, all)
           IN  /\ Pending(e) <=> (end.kind = "frame")
               /\ Pending(e) => e.closure = PendingClosure(Frame(s, all))
               /\ ~Pending(e) => e.closure = ClosureOf(end) /\ e.closure.kind = end.kind
  <1> DEFINE s == e.manifest.episode
             all == Keys(e, Len(e.records))
             end == Answer(s, c, all)
  <1>1. e.closure = IF end.kind = "frame" THEN PendingClosure(Frame(s, all)) ELSE ClosureOf(end)
    BY PlayedSays
  <1>2. CASE end.kind = "frame"
    <2>1. ~Turn(s, all).over
      BY <1>2 DEF Answer, Interruption
    <2>2. all \in DOMAIN Game[s]
      <3>1. Len(e.records) \in 0..Len(e.records)
        BY SeqIsFunction DEF IsEnvelope
      <3> QED
        BY <3>1 DEF WasPlayed, Reached
    <2>3. Frame(s, all) # None
      BY <2>1, <2>2, FrameAssumption
    <2>4. e.closure.pending = Frame(s, all)
      BY <1>1, <1>2 DEF PendingClosure, InterruptedClosure
    <2> QED
      BY <1>1, <1>2, <2>3, <2>4 DEF Pending
  <1>3. CASE end.kind # "frame"
    <2>1. end.kind \in {"terminal", "interrupted"}
      BY <1>3, AnswerKinds
    <2> HIDE DEF s, all, end
    <2>2. e.closure.pending = None /\ e.closure.kind = end.kind
      BY <1>1, <1>3, <2>1 DEF ClosureOf, TerminalClosure, InterruptedClosure
    <2>3. ~Pending(e)
      BY <2>2 DEF Pending
    <2> QED
      BY <1>1, <1>3, <2>2, <2>3 DEF s, all, end
  <1> QED
    BY <1>2, <1>3

(* A reached boundary is answered.                                          *)
LEMMA ReachedAnswers ==
    ASSUME NEW e, NEW c, NEW i, Reached(e.manifest.episode, Keys(e, i))
    PROVE  At(e, c, i) = Answer(e.manifest.episode, c, Keys(e, i))
  BY DEF At

(* The fields of an honest record.                                          *)
LEMMA HonestRecord ==
    ASSUME NEW e, NEW c, IsEnvelope(e), WasPlayed(e, c), NEW i \in DOMAIN e.records
    PROVE  LET s == e.manifest.episode
               r == e.records[i]
               next == Answer(s, c, Keys(e, i))
               last == i = Len(e.records) /\ next.kind = "frame"
           IN  /\ r.frame = Frame(s, Keys(e, i - 1))
               /\ r.successor = next.kind
               /\ r.target = IF last THEN Target("pending", Frame(s, Keys(e, i)))
                             ELSE IF next.kind = "frame" THEN Target("record", next.frame)
                             ELSE None
  <1> DEFINE s == e.manifest.episode
             r == e.records[i]
             next == Answer(s, c, Keys(e, i))
             last == i = Len(e.records) /\ next.kind = "frame"
             frame == Frame(s, Keys(e, i - 1))
             there == Frame(s, Keys(e, i))
             written == NewRecord(frame, r.key, r.rng, next)
  <1>1. Written(e, c)[i] = written
    BY DEF Written
  <1>2. r = IF last THEN LedTo(written, there) ELSE written
    <2>1. r = IF Answer(s, c, Keys(e, Len(e.records))).kind = "frame" /\ i = Len(e.records)
              THEN LedTo(Written(e, c)[i], Frame(s, Keys(e, Len(e.records))))
              ELSE Written(e, c)[i]
      BY PlayedSays
    <2> HIDE DEF s, written, r
    <2>2. i = Len(e.records) =>
             r = IF next.kind = "frame" THEN LedTo(written, there) ELSE written
      BY <1>1, <2>1
    <2>3. i # Len(e.records) => r = written
      BY <1>1, <2>1
    <2> HIDE DEF next
    <2> QED
      BY <2>2, <2>3
  <1>3. LedTo(written, there) =
            [frame |-> frame, key |-> r.key, class |-> Class(r.key, frame.request),
             assignment |-> r.rng.assignment, rng |-> r.rng, successor |-> "frame",
             target |-> Target("pending", there)]
    BY LedToRecord
  <1>4. written =
            [frame |-> frame, key |-> r.key, class |-> Class(r.key, frame.request),
             assignment |-> r.rng.assignment, rng |-> r.rng, successor |-> next.kind,
             target |-> IF next.kind = "frame" THEN Target("record", next.frame) ELSE None]
    BY DEF NewRecord
  <1> HIDE DEF s, r, next, frame, there, written
  <1>5. /\ r.frame = frame /\ r.successor = next.kind
        /\ r.target = IF last THEN Target("pending", there)
                      ELSE IF next.kind = "frame" THEN Target("record", next.frame) ELSE None
    <2>1. CASE last
      BY <1>2, <1>3, <2>1
    <2>2. CASE ~last
      BY <1>2, <1>4, <2>2
    <2> QED
      BY <2>1, <2>2
  <1> QED
    BY <1>5 DEF s, r, next, frame, there

(* An honest record replays.                                                *)
LEMMA HonestStepReplays ==
    ASSUME NEW e, NEW c, NEW x, HonestPlay(e, c, x), NEW i \in DOMAIN e.records
    PROVE  StepReplays(e, c, i)
  <1> DEFINE s == e.manifest.episode
             r == e.records[i]
             now == At(e, c, i - 1)
             next == At(e, c, i)
  <1>1. /\ IsEnvelope(e) /\ WellFormed(e) /\ e.closure.kind # "failed" /\ s \in Specs
        /\ WasPlayed(e, c)
    BY DEF HonestPlay, Resolved
  <1>2. i \in 1..Len(e.records) /\ Len(e.records) \in Nat
    BY <1>1, SeqIsFunction DEF IsEnvelope
  <1>3. /\ now = Answer(s, c, Keys(e, i - 1)) /\ next = Answer(s, c, Keys(e, i))
        /\ now.kind = "frame" /\ r.key \in Range(now.frame.request.keys)
    <2>1. i \in 0..Len(e.records) /\ i - 1 \in 0..Len(e.records)
      BY <1>2
    <2>2. now = Answer(s, c, Keys(e, i - 1)) /\ next = Answer(s, c, Keys(e, i))
      BY <1>1, <2>1, ReachedAnswers DEF WasPlayed
    <2>3. WasOffered(e, c, i)
      BY <1>1 DEF WasPlayed
    <2> QED
      BY <2>2, <2>3 DEF WasOffered
  <1>4. now = [kind |-> "frame", frame |-> Frame(s, Keys(e, i - 1))]
    BY <1>3, AnswerKinds
  <1>5. /\ next.kind \in {"frame", "terminal", "interrupted"}
        /\ next.kind = "frame" => next = [kind |-> "frame", frame |-> Frame(s, Keys(e, i))]
    BY <1>3, AnswerKinds
  <1>6. /\ r.frame = Frame(s, Keys(e, i - 1))
        /\ r.successor = next.kind
        /\ r.target = IF i = Len(e.records) /\ next.kind = "frame"
                      THEN Target("pending", Frame(s, Keys(e, i)))
                      ELSE IF next.kind = "frame" THEN Target("record", next.frame) ELSE None
    BY <1>1, <1>3, HonestRecord
  <1>7. r.class = Class(r.key, r.frame.request) /\ LeadsTo(e, i)
    BY <1>1 DEF WellFormed
  <1>8. CASE next.kind = "frame"
    <2>0. next.frame = Frame(s, Keys(e, i))
      BY <1>5, <1>8
    <2>1. r.target = Target(IF i = Len(e.records) THEN "pending" ELSE "record", next.frame)
      BY <1>6, <1>8, <2>0
    <2>2. r.target.kind = IF i = Len(e.records) THEN "pending" ELSE "record"
      BY <2>1 DEF Target
    <2>3. i = Len(e.records) => e.closure.pending = next.frame
      <3>1. ASSUME i = Len(e.records)
            PROVE  e.closure = PendingClosure(Frame(s, Keys(e, i)))
        <4>1. Answer(s, c, Keys(e, Len(e.records))).kind = "frame"
          BY <1>3, <1>8, <3>1
        <4>2. Pending(e) /\ e.closure = PendingClosure(Frame(s, Keys(e, Len(e.records))))
          BY <1>1, <4>1, PlayedEnds
        <4> QED
          BY <3>1, <4>2
      <3> QED
        BY <2>0, <3>1 DEF PendingClosure, InterruptedClosure
    <2>4. now.frame = r.frame
      BY <1>4, <1>6
    <2> HIDE DEF s, r, now, next
    <2>5. /\ now.kind = "frame" /\ r.frame = now.frame /\ r.key \in Range(now.frame.request.keys)
          /\ r.class = Class(r.key, now.frame.request)
          /\ r.successor = next.kind /\ next.kind \in {"frame", "terminal", "interrupted"}
      BY <1>3, <1>5, <1>6, <1>7, <2>4
    <2>6. /\ r.target = Target(r.target.kind, next.frame)
          /\ (i = Len(e.records)) = (r.target.kind = "pending")
          /\ r.target.kind = "pending" => e.closure.pending = next.frame
      BY <2>1, <2>2, <2>3
    <2> QED
      BY <1>8, <2>5, <2>6 DEF StepReplays, r, now, next
  <1>9. CASE next.kind # "frame"
    <2>1. i = Len(e.records)
      <3> HIDE DEF next
      <3> QED
        BY <1>2, <1>6, <1>7, <1>9 DEF LeadsTo
    <2>2. ~Pending(e) /\ e.closure.kind = next.kind
      <3>1. next = Answer(s, c, Keys(e, Len(e.records)))
        BY <1>3, <2>1
      <3>2. Answer(s, c, Keys(e, Len(e.records))).kind # "frame"
        BY <1>9, <3>1
      <3>3. ~Pending(e) /\ e.closure.kind = Answer(s, c, Keys(e, Len(e.records))).kind
        BY <1>1, <3>2, PlayedEnds
      <3> QED
        BY <3>1, <3>3
    <2>3. now.frame = r.frame
      BY <1>4, <1>6
    <2> HIDE DEF s, r, now, next
    <2>4. /\ now.kind = "frame" /\ r.frame = now.frame /\ r.key \in Range(now.frame.request.keys)
          /\ r.class = Class(r.key, now.frame.request)
          /\ r.successor = next.kind /\ next.kind \in {"frame", "terminal", "interrupted"}
      BY <1>3, <1>5, <1>6, <1>7, <2>3
    <2> QED
      BY <1>9, <2>1, <2>2, <2>4 DEF StepReplays, r, now, next
  <1> QED
    BY <1>8, <1>9

(* What an honest episode ended with is what the comparison asks for.       *)
LEMMA HonestInterruption ==
    ASSUME NEW e, NEW c, NEW x, HonestPlay(e, c, x), e.closure.kind = "interrupted"
    PROVE  CompareInterrupted(e, x, Ending(e, c))
  <1> DEFINE s == e.manifest.episode
             all == Keys(e, Len(e.records))
             end == Ending(e, c)
  <1>1. /\ IsEnvelope(e) /\ WellFormed(e) /\ s \in Specs /\ WasPlayed(e, c)
        /\ x = EvidenceOf(end) /\ x # None
    BY DEF HonestPlay, Resolved
  <1>2. /\ e.records \in Seq(Range(e.records)) /\ DOMAIN e.records = 1..Len(e.records)
        /\ Len(e.records) \in Nat /\ e.closure.count = Len(e.records)
    <2>1. e.records \in Seq(Range(e.records)) /\ e.closure.count = Len(e.records)
      BY <1>1 DEF IsEnvelope, WellFormed
    <2> QED
      BY <2>1, SeqIsFunction
  <1>3. Len(all) = Len(e.records) /\ all \in Seq(Range(all))
    <2>1. Len(e.records) \in 0..Len(e.records)
      BY <1>2
    <2> QED
      BY <1>2, <2>1, KeysArePlayed
  <1>4. LastFrame(s, all) = IF e.records = <<>> THEN None ELSE Last(e.records).frame
    <2>1. CASE e.records = <<>>
      <3>1. all = <<>>
        BY <2>1, FirstKeys
      <3> QED
        BY <2>1, <3>1 DEF LastFrame
    <2>2. CASE e.records # <<>>
      <3>1. Len(e.records) \in DOMAIN e.records /\ Len(e.records) - 1 \in 0..Len(e.records)
        BY <1>2, <2>2
      <3>2. all # <<>>
        BY <1>3, <3>1, <1>2
      <3>3. Front(all) = Keys(e, Len(e.records) - 1)
        BY <1>2, <1>3, <3>1 DEF Front, Keys
      <3>4. e.records[Len(e.records)].frame = Frame(s, Keys(e, Len(e.records) - 1))
        BY <1>1, <3>1, HonestRecord
      <3> HIDE DEF s, all
      <3> QED
        BY <2>2, <3>2, <3>3, <3>4 DEF LastFrame, Last
    <2> QED
      BY <2>1, <2>2
  <1>5. /\ end.episode = s /\ end.count = Len(e.records) /\ end.kind = "interrupted"
        /\ end.last = IF Pending(e) THEN e.closure.pending
                      ELSE IF e.records = <<>> THEN None ELSE Last(e.records).frame
    <2>1. CASE Pending(e)
      <3>1. end = Interruption(s, c, all, "administrative_cancel", Turn(s, all).work,
                               Frame(s, all))
        BY <2>1 DEF Ending, Cancelled
      <3>2. e.closure.pending = Frame(s, all)
        <4>1. e.closure = PendingClosure(Frame(s, all))
          BY <1>1, <2>1, PlayedEnds
        <4> QED
          BY <4>1 DEF PendingClosure, InterruptedClosure
      <3>3. /\ end.episode = s /\ end.count = Len(all) /\ end.last = Frame(s, all)
            /\ end.kind = "interrupted"
        <4> HIDE DEF end
        <4> QED
          BY <3>1 DEF Interruption
      <3> QED
        BY <1>3, <2>1, <3>2, <3>3
    <2>2. CASE ~Pending(e)
      <3>1. end = Answer(s, c, all)
        BY <2>2 DEF Ending
      <3>2. Answer(s, c, all).kind = "interrupted"
        <4>1. e.closure.kind = Answer(s, c, all).kind
          BY <1>1, <2>2, PlayedEnds
        <4> QED
          BY <4>1
      <3>3. /\ Answer(s, c, all).episode = s /\ Answer(s, c, all).count = Len(all)
            /\ Answer(s, c, all).last = LastFrame(s, all)
        BY <3>2 DEF Answer, Interruption
      <3> HIDE DEF end, s, all
      <3> QED
        BY <1>3, <1>4, <2>2, <3>1, <3>2, <3>3
    <2> QED
      BY <2>1, <2>2
  <1> HIDE DEF end, s
  <1>6. /\ x.reason = end.reason /\ x.process = end.process /\ x.actions = end.actions
        /\ x.processes = end.processes /\ x.step = end.step /\ x.counted = end.count
    BY <1>1 DEF EvidenceOf
  <1>7. \A field \in {"reason", "process", "actions", "processes", "step"} :
            end[field] = x[field]
    BY <1>6
  <1> QED
    BY <1>1, <1>2, <1>5, <1>6, <1>7 DEF CompareInterrupted, end, s

(* An episode played to its terminal compares equal to its replay.          *)
LEMMA HonestTerminal ==
    ASSUME NEW e, NEW c, NEW x, HonestPlay(e, c, x), e.closure.kind = "terminal"
    PROVE  CompareTerminal(e, Ending(e, c)) /\ Ending(e, c).kind = "terminal" /\ ~Pending(e)
  <1> DEFINE s == e.manifest.episode
             all == Keys(e, Len(e.records))
             end == Answer(s, c, all)
  <1>1. IsEnvelope(e) /\ WellFormed(e) /\ s \in Specs /\ WasPlayed(e, c)
    BY DEF HonestPlay, Resolved
  <1>2. ~Pending(e)
    <2>1. ASSUME Pending(e) PROVE FALSE
      <3>1. e.closure = PendingClosure(Frame(s, all))
        BY <1>1, <2>1, PlayedEnds
      <3> QED
        BY <3>1 DEF PendingClosure, InterruptedClosure
    <2> QED
      BY <2>1
  <1>3. e.closure = ClosureOf(end) /\ end.kind = "terminal"
    <2>1. e.closure = ClosureOf(end) /\ e.closure.kind = end.kind
      BY <1>1, <1>2, PlayedEnds
    <2> QED
      BY <2>1
  <1>4. Ending(e, c) = end
    BY <1>2 DEF Ending
  <1>5. end.episode = s /\ e.closure.count = Len(e.records)
    <2>1. end.episode = s
      BY <1>3 DEF Answer, Interruption
    <2> QED
      BY <1>1, <2>1 DEF WellFormed
  <1> HIDE DEF end
  <1>6. /\ e.closure.winner = end.winner /\ e.closure.last = end.last
        /\ e.closure.views = end.views /\ e.closure.count = end.count
    BY <1>3 DEF ClosureOf, TerminalClosure
  <1> QED
    BY <1>2, <1>3, <1>4, <1>5, <1>6 DEF CompareTerminal, s

(* What was recorded from play replays, under the control it was played     *)
(* with: budgets, cancellations and ends of the game, with or without       *)
(* records.                                                                 *)
THEOREM HonestReplays ==
    ASSUME NEW e, NEW c, NEW x, NEW options, HonestPlay(e, c, x), options.source = TRUE,
           e.closure.kind = "terminal" => options.control = c
    PROVE  Replays(e, x, options)
  <1> DEFINE s == e.manifest.episode
             all == Keys(e, Len(e.records))
             control == ReplayControl(e, x, options)
             end == At(e, c, Len(e.records))
  <1>1. /\ IsEnvelope(e) /\ WellFormed(e) /\ e.closure.kind # "failed" /\ Resolved(e.manifest)
        /\ s \in Specs /\ WasPlayed(e, c) /\ c \in [process : Nat \ {0}, actions : Nat \ {0}]
        /\ c # None
    BY DEF HonestPlay, Resolved
  <1>2. e.closure.kind \in {"terminal", "interrupted"}
    BY <1>1 DEF IsEnvelope, IsClosure, TerminalClosure, InterruptedClosure, FailedClosure
  <1>3. /\ e.closure.kind = "interrupted" => x = EvidenceOf(Ending(e, c)) /\ x # None
        /\ e.closure.kind = "terminal" => x = None
    BY DEF HonestPlay
  <1>4. e.closure.kind = "interrupted" =>
            /\ CompareInterrupted(e, x, Ending(e, c))
            /\ x.episode = s
            /\ x.process = c.process /\ x.actions = c.actions
    <2>1. ASSUME e.closure.kind = "interrupted"
          PROVE  CompareInterrupted(e, x, Ending(e, c))
      BY <2>1, HonestInterruption
    <2>2. ASSUME e.closure.kind = "interrupted"
          PROVE  x.episode = s
      <3>1. Ending(e, c).episode = s
        BY <2>1, <2>2 DEF CompareInterrupted
      <3> QED
        BY <1>3, <2>2, <3>1 DEF EvidenceOf
    <2>3. ASSUME e.closure.kind = "interrupted"
          PROVE  Ending(e, c).process = c.process /\ Ending(e, c).actions = c.actions
      <3>1. CASE Pending(e)
        BY <3>1 DEF Ending, Cancelled, Interruption
      <3>2. CASE ~Pending(e)
        <4>1. Ending(e, c) = Answer(s, c, all)
          BY <3>2 DEF Ending
        <4>2. Answer(s, c, all).kind = "interrupted"
          <5>1. e.closure.kind = Answer(s, c, all).kind
            BY <1>1, <3>2, PlayedEnds
          <5> QED
            BY <2>3, <5>1
        <4>3. Answer(s, c, all).process = c.process /\ Answer(s, c, all).actions = c.actions
          BY <4>2 DEF Answer, Interruption
        <4> QED
          BY <4>1, <4>3
      <3> QED
        BY <3>1, <3>2
    <2>4. ASSUME e.closure.kind = "interrupted"
          PROVE  x.process = c.process /\ x.actions = c.actions
      BY <1>3, <2>3, <2>4 DEF EvidenceOf
    <2> QED
      BY <2>1, <2>2, <2>4
  <1>5. control = c /\ ValidControl(c)
    <2>1. c = [process |-> c.process, actions |-> c.actions] /\ ValidControl(c)
      BY <1>1 DEF ValidControl
    <2>2. CASE e.closure.kind = "terminal"
      BY <1>1, <1>3, <2>1, <2>2 DEF ReplayControl
    <2>3. CASE e.closure.kind = "interrupted"
      BY <1>3, <1>4, <2>1, <2>3 DEF ReplayControl
    <2> QED
      BY <1>2, <2>1, <2>2, <2>3
  <1>6. \A i \in DOMAIN e.records : StepReplays(e, c, i)
    BY HonestStepReplays
  <1>7. end = Answer(s, c, all)
    <2>1. Len(e.records) \in 0..Len(e.records)
      BY <1>1, SeqIsFunction DEF IsEnvelope
    <2> QED
      BY <1>1, <2>1, ReachedAnswers DEF WasPlayed
  <1>8. CASE Pending(e)
    <2>1. /\ Answer(s, c, all).kind = "frame" /\ e.closure = PendingClosure(Frame(s, all))
      BY <1>1, <1>8, PlayedEnds
    <2>2. Answer(s, c, all).frame = Frame(s, all)
      <3>1. Answer(s, c, all) = [kind |-> "frame", frame |-> Frame(s, all)]
        BY <2>1, AnswerKinds
      <3> QED
        BY <3>1
    <2>3. e.closure.kind = "interrupted" /\ e.closure.pending = Frame(s, all)
      BY <2>1 DEF PendingClosure, InterruptedClosure
    <2>4. Ending(e, c) = Cancelled(s, c, all)
      BY <1>8 DEF Ending
    <2>5. CompareInterrupted(e, x, Cancelled(s, c, all))
      BY <1>4, <2>3, <2>4
    <2>6. end.kind = "frame" /\ end.frame = e.closure.pending
      BY <1>7, <2>1, <2>2, <2>3
    <2> HIDE DEF end, control
    <2> QED
      BY <1>1, <1>3, <1>4, <1>5, <1>6, <1>8, <2>3, <2>5, <2>6 DEF Replays, end, control
  <1>9. CASE ~Pending(e)
    <2>1. e.closure.kind = end.kind /\ Ending(e, c) = end
      <3>1. e.closure.kind = Answer(s, c, all).kind
        BY <1>1, <1>9, PlayedEnds
      <3> QED
        BY <1>7, <1>9, <3>1 DEF Ending
    <2>2. e.closure.kind = "terminal" => CompareTerminal(e, end)
      <3>1. ASSUME e.closure.kind = "terminal"
            PROVE  CompareTerminal(e, Ending(e, c))
        BY <3>1, HonestTerminal
      <3> QED
        BY <2>1, <3>1
    <2>3. e.closure.kind = "interrupted" => CompareInterrupted(e, x, end)
      BY <1>4, <2>1
    <2> HIDE DEF end, control
    <2>4. x # None => x.episode = s
      BY <1>2, <1>3, <1>4
    <2>5. CASE end.kind = "terminal"
      BY <1>1, <1>5, <1>6, <1>9, <2>1, <2>2, <2>4, <2>5 DEF Replays, end, control
    <2>6. CASE end.kind = "interrupted"
      BY <1>1, <1>5, <1>6, <1>9, <2>1, <2>3, <2>4, <2>6 DEF Replays, end, control
    <2> QED
      BY <1>2, <2>1, <2>5, <2>6
  <1> QED
    BY <1>8, <1>9

----------------------------------------------------------------------------
(* Admission is complete *)

(* Choices by the policies in charge, whose draws come from streams with an *)
(* initialization of their own.                                             *)
HonestChoices(e) ==
    /\ ValidProvenance(e.manifest.provenance, e.manifest.episode)
    /\ \A a \in e.manifest.provenance.assignments : a.from \in Nat
    /\ \A i \in DOMAIN e.records :
          AttributionFits(e.manifest.provenance, e.records[i].frame, e.records[i].rng)
    /\ \A i \in Drawn(e) :
          LET stream == e.records[i].rng.stream
          IN  /\ stream.init = Initialization(stream.contract, stream.stream, stream.init.material)
              /\ UniqueCursor(stream.init, stream.init)

(* No two assignments of a player are active at once.                       *)
LEMMA ActiveIsOne ==
    ASSUME NEW p, NEW spec, NEW player, NEW index, ValidProvenance(p, spec),
           \A a \in p.assignments : a.from \in Nat,
           NEW a \in Active(p, player, index)
    PROVE  Active(p, player, index) = {a} /\ a.artifact \in p.artifacts
  <1>1. a \in Of(p, player) /\ a \in p.assignments /\ a.player = player
    BY DEF Active, Of
  <1>2. a.player \in {0, 1} /\ a.artifact \in p.artifacts
    BY <1>1 DEF ValidProvenance, ValidAssignment
  <1>3. EpochsAdvance(Of(p, player))
    BY <1>1, <1>2 DEF ValidProvenance
  <1>4. ASSUME NEW b \in Active(p, player, index)
        PROVE  b = a
    <2>1. b \in Of(p, player) /\ b \in p.assignments
      BY <1>4 DEF Active, Of
    <2>2. a.from <= b.from /\ b.from <= a.from
      BY <1>1, <1>4, <2>1 DEF Active
    <2>3. a.from \in Nat /\ b.from \in Nat
      BY <1>1, <2>1
    <2> QED
      BY <1>1, <1>3, <2>1, <2>2, <2>3 DEF EpochsAdvance
  <1> QED
    BY <1>2, <1>4

(* The attribution of an honest record holds, if its draw is in evidence.   *)
LEMMA HonestAttributed ==
    ASSUME NEW e, NEW bundle, NEW i \in DOMAIN e.records, HonestChoices(e), WellFormed(e),
           i \in Drawn(e) =>
              version = 1 /\ InitEvidence(e.records[i].rng.stream.init) \in bundle.inits
    PROVE  Attributed(e, e.records[i], bundle)
  <1> DEFINE p == e.manifest.provenance
             r == e.records[i]
             entry == InitEvidence(r.rng.stream.init)
  <1>1. PICK a \in Active(p, r.frame.player, r.frame.index) :
          /\ r.rng.assignment = a /\ r.rng.index = r.frame.index
          /\ IF r.rng.mode = "none" THEN ~UsesRng(a.artifact)
             ELSE /\ UsesRng(a.artifact) /\ HasDescriptor(a.artifact.rng)
                  /\ Recomputes(r.rng.stream, a)
                  /\ Descriptor(a.artifact.rng).uniqueCursor
    BY DEF HonestChoices, AttributionFits
  <1>2. r.assignment = a
    BY <1>1 DEF WellFormed
  <1>3. /\ Active(p, r.frame.player, r.frame.index) = {r.assignment}
        /\ r.assignment.artifact \in p.artifacts
    BY <1>2, ActiveIsOne DEF HonestChoices
  <1>4. CASE r.rng.mode = "none"
    BY <1>1, <1>2, <1>3, <1>4 DEF Attributed
  <1>5. CASE r.rng.mode # "none"
    <2>1. i \in Drawn(e)
      BY <1>5 DEF Drawn
    <2>2. version = 1 /\ entry \in bundle.inits
      BY <2>1
    <2>3. entry.identity = r.rng.stream.init /\ entry.material = r.rng.stream.init.material
      BY DEF InitEvidence
    <2>4. /\ r.rng.stream.init = Initialization(r.rng.stream.contract, r.rng.stream.stream,
                                                r.rng.stream.init.material)
          /\ UniqueCursor(r.rng.stream.init, r.rng.stream.init)
      BY <2>1 DEF HonestChoices
    <2>5. UniqueCursor(Initialization(r.rng.stream.contract, r.rng.stream.stream, entry.material),
                       entry.identity)
      BY <2>3, <2>4
    <2> HIDE DEF entry
    <2>6. \E x \in bundle.inits :
                  /\ x.identity = r.rng.stream.init
                  /\ Descriptor(r.assignment.artifact.rng).uniqueCursor
                  /\ UniqueCursor(Initialization(r.rng.stream.contract, r.rng.stream.stream,
                                                 x.material), x.identity)
      BY <1>1, <1>2, <1>5, <2>2, <2>3, <2>5
    <2> HIDE DEF r
    <2>7. Attributed(e, r, bundle)
      BY <1>1, <1>2, <1>3, <1>5, <2>2, <2>6 DEF Attributed
    <2> QED
      BY <2>7 DEF r
  <1> QED
    BY <1>4, <1>5

(* The evidence of an honest interrupted episode names it and its reason.   *)
LEMMA HonestEvidence ==
    ASSUME NEW e, NEW c, NEW x, HonestPlay(e, c, x), e.closure.kind = "interrupted"
    PROVE  /\ x.episode = e.manifest.episode
           /\ Pending(e) <=> (x.reason = "administrative_cancel")
  <1> DEFINE s == e.manifest.episode
             all == Keys(e, Len(e.records))
  <1>1. CompareInterrupted(e, x, Ending(e, c)) /\ x = EvidenceOf(Ending(e, c))
    BY HonestInterruption DEF HonestPlay
  <1>2. x.episode = s
    BY <1>1 DEF CompareInterrupted, EvidenceOf
  <1>3. CASE Pending(e)
    <2>1. Ending(e, c).reason = "administrative_cancel"
      BY <1>3 DEF Ending, Cancelled, Interruption
    <2> QED
      BY <1>1, <1>2, <1>3, <2>1 DEF EvidenceOf
  <1>4. CASE ~Pending(e)
    <2>1. Ending(e, c) = Answer(s, c, all)
      BY <1>4 DEF Ending
    <2>2. Answer(s, c, all).kind = "interrupted"
      <3>1. IsEnvelope(e) /\ WasPlayed(e, c) /\ s \in Specs
        BY DEF HonestPlay, Resolved
      <3>2. e.closure.kind = Answer(s, c, all).kind
        BY <1>4, <3>1, PlayedEnds
      <3> QED
        BY <3>2
    <2>3. Answer(s, c, all).reason # "administrative_cancel"
      BY <2>2 DEF Answer, Interruption
    <2> QED
      BY <1>1, <1>2, <1>4, <2>1, <2>3 DEF EvidenceOf
  <1> QED
    BY <1>3, <1>4

(* What a function makes of a finite set is finite, and as large if it      *)
(* keeps the elements apart.                                                *)
LEMMA ImageIsFinite ==
    ASSUME NEW S, IsFiniteSet(S), NEW f, DOMAIN f = S
    PROVE  IsFiniteSet({f[x] : x \in S})
  <1> DEFINE g == [x \in S |-> f[x]]
             T == {f[x] : x \in S}
  <1>1. g \in [S -> T] /\ \A t \in T : \E x \in S : g[x] = t
    OBVIOUS
  <1>2. g \in Surjection(S, T)
    <2> HIDE DEF g, T
    <2> QED
      BY <1>1, Fun_IsSurj
  <1> HIDE DEF g, T
  <1>3. IsFiniteSet(T)
    BY <1>2, FS_Surjection
  <1> QED
    BY <1>3 DEF T

(* A one-to-one image is as large as what it is an image of.                *)
LEMMA ImageIsAsLarge ==
    ASSUME NEW S, NEW T, NEW f \in [S -> T], IsFiniteSet(S),
           \A x, y \in S : f[x] = f[y] => x = y, \A t \in T : \E x \in S : f[x] = t
    PROVE  IsFiniteSet(T) /\ Cardinality(T) = Cardinality(S)
  <1>1. f \in Bijection(S, T)
    BY Fun_IsBij
  <1>2. ExistsBijection(S, T)
    BY <1>1 DEF ExistsBijection
  <1> QED
    BY <1>2, FS_Bijection

(* A finite shard draws from finitely many initializations.                 *)
LEMMA RequiredIsFinite ==
    ASSUME NEW shard, IsFiniteSet(shard), \A e \in shard : IsEnvelope(e)
    PROVE  IsFiniteSet(Required(shard))
  <1> DEFINE f == [e \in shard |-> Initializations(e)]
             S == {f[e] : e \in shard}
  <1>1. \A e \in shard : IsFiniteSet(Initializations(e))
    <2> SUFFICES ASSUME NEW e \in shard
                 PROVE  IsFiniteSet(Initializations(e))
      OBVIOUS
    <2>1. DOMAIN e.records = 1..Len(e.records) /\ Len(e.records) \in Nat
      BY SeqIsFunction DEF IsEnvelope
    <2>2. IsFiniteSet(DOMAIN e.records)
      <3>1. 1 \in Int /\ Len(e.records) \in Int
        BY <2>1
      <3>2. IsFiniteSet(1..Len(e.records))
        BY <3>1, FS_Interval
      <3> QED
        BY <2>1, <3>2
    <2>3. IsFiniteSet(Drawn(e))
      BY <2>2, FS_Subset DEF Drawn
    <2> DEFINE g == [i \in Drawn(e) |-> e.records[i].rng.stream.init]
    <2>4. IsFiniteSet({g[i] : i \in Drawn(e)})
      BY <2>3, ImageIsFinite
    <2>5. {g[i] : i \in Drawn(e)} = Initializations(e)
      BY DEF Initializations
    <2> QED
      BY <2>4, <2>5
  <1>2. IsFiniteSet(S)
    BY ImageIsFinite
  <1>3. \A T \in S : IsFiniteSet(T)
    BY <1>1
  <1>4. IsFiniteSet(UNION S)
    <2> HIDE DEF S
    <2> QED
      BY <1>2, <1>3, FS_UNION
  <1>5. S = {Initializations(e) : e \in shard}
    OBVIOUS
  <1> QED
    BY <1>4, <1>5 DEF Required

(* The initializations a runner puts in the bundle of a first-version shard *)
(* are the ones its verification asks for.                                  *)
LEMMA HonestInitializations ==
    ASSUME NEW shard, IsFiniteSet(shard), NEW bundle,
           \A e \in shard : IsEnvelope(e) /\ HonestChoices(e),
           bundle.inits = {InitEvidence(init) : init \in Required(shard)}
    PROVE  InitializationsExact(bundle, shard)
  <1>1. Cardinality(bundle.inits) = Cardinality(Required(shard))
    <2> DEFINE f == [init \in Required(shard) |-> InitEvidence(init)]
    <2>1. /\ f \in [Required(shard) -> bundle.inits]
          /\ \A t \in bundle.inits : \E x \in Required(shard) : f[x] = t
      OBVIOUS
    <2>2. \A x, y \in Required(shard) : f[x] = f[y] => x = y
      <3>1. \A x \in Required(shard) : f[x].identity = x
        BY DEF InitEvidence
      <3> HIDE DEF f
      <3> QED
        BY <3>1
    <2>3. IsFiniteSet(Required(shard))
      BY RequiredIsFinite
    <2> HIDE DEF f
    <2> QED
      BY <2>1, <2>2, <2>3, ImageIsAsLarge
  <1>2. ASSUME NEW init \in Required(shard)
        PROVE  /\ InitEvidence(init) \in bundle.inits /\ InitEvidence(init).identity = init
               /\ ValidInitialization(Initialization(init.contract, init.stream,
                                                     InitEvidence(init).material), init)
    <2>1. PICK e \in shard : \E i \in Drawn(e) : init = e.records[i].rng.stream.init
      BY DEF Required, Initializations
    <2>2. PICK i \in Drawn(e) : init = e.records[i].rng.stream.init
      BY <2>1
    <2> DEFINE stream == e.records[i].rng.stream
    <2>3. /\ stream.init = Initialization(stream.contract, stream.stream, stream.init.material)
          /\ UniqueCursor(stream.init, stream.init)
      BY <2>2 DEF HonestChoices
    <2>4. HasDescriptor(stream.contract)
      <3>1. i \in DOMAIN e.records /\ e.records[i].rng.mode # "none"
        BY <2>2 DEF Drawn
      <3>2. \E a \in Active(e.manifest.provenance, e.records[i].frame.player,
                            e.records[i].frame.index) :
               HasDescriptor(a.artifact.rng) /\ Recomputes(stream, a)
        BY <3>1 DEF HonestChoices, AttributionFits
      <3>3. PICK a : HasDescriptor(a.artifact.rng) /\ Recomputes(stream, a)
        BY <3>2
      <3>4. stream = Stream(a, a.artifact.rng, stream.stream, stream.init)
        BY <3>3 DEF Recomputes
      <3>5. Stream(a, a.artifact.rng, stream.stream, stream.init).contract = a.artifact.rng
        BY DEF Stream
      <3> HIDE DEF stream
      <3>6. stream.contract = a.artifact.rng
        BY <3>4, <3>5
      <3> QED
        BY <3>3, <3>6
    <2>5. /\ init.contract = stream.contract
          /\ init = Initialization(init.contract, init.stream, init.material)
      <3>1. LET made == Initialization(stream.contract, stream.stream, stream.init.material)
            IN  made.contract = stream.contract /\ made.stream = stream.stream
        BY DEF Initialization
      <3> HIDE DEF stream
      <3>2. init = stream.init
        BY <2>2 DEF stream
      <3> QED
        BY <2>3, <3>1, <3>2
    <2>6. CanonicalMaterial(init.material)
      BY <2>2, <2>3 DEF UniqueCursor
    <2>7. InitEvidence(init).material = init.material /\ InitEvidence(init).identity = init
      BY DEF InitEvidence
    <2> HIDE DEF stream
    <2>8. ValidInitialization(init, init) /\ HasDescriptor(init.contract)
      BY <2>4, <2>5, <2>6 DEF ValidInitialization
    <2>9. ValidInitialization(Initialization(init.contract, init.stream,
                                             InitEvidence(init).material), init)
      BY <2>5, <2>7, <2>8
    <2> QED
      BY <2>7, <2>9
  <1> QED
    BY <1>1, <1>2 DEF InitializationsExact

(* What a runner assembles of its items.                                    *)
Envelopes(items) == {p.envelope : p \in items}
Assembled(items) ==
    Bundle(Envelopes(items),
           {[envelope |-> p.envelope, evidence |-> p.evidence] :
               p \in {q \in items : q.evidence # None}},
           IF version = 1 THEN {InitEvidence(init) : init \in Required(Envelopes(items))} ELSE {})

HonestItem(p, options) ==
    /\ HonestPlay(p.envelope, p.control, p.evidence) /\ HonestChoices(p.envelope)
    /\ p.envelope.manifest.rejections = 0
    /\ p.envelope.closure.kind = "terminal" => options.control = p.control
    /\ version = 2 => Drawn(p.envelope) = {}

HonestItems(items, options) ==
    /\ IsFiniteSet(items) /\ items # {}
    /\ \A p, q \in items : p.envelope = q.envelope => p = q
    /\ \A p \in items : HonestItem(p, options)
    /\ version \in {1, 2} /\ options.source = TRUE

(* An honest item has evidence exactly if its episode was interrupted.      *)
LEMMA HonestItemHas ==
    ASSUME NEW p, NEW options, HonestItem(p, options)
    PROVE  p.evidence # None <=> p.envelope.closure.kind = "interrupted"
  BY DEF HonestItem, HonestPlay

(* The bundle of honest items has one entry for each interrupted episode,   *)
(* its own.                                                                 *)
LEMMA AssembledEvidence ==
    ASSUME NEW items, NEW options, HonestItems(items, options)
    PROVE  /\ EvidenceExact(Assembled(items), Envelopes(items))
           /\ \A p \in items :
                IF p.evidence = None THEN EvidenceFor(Assembled(items), p.envelope) = {}
                ELSE EvidenceFor(Assembled(items), p.envelope)
                        = {[envelope |-> p.envelope, evidence |-> p.evidence]}
  <1> DEFINE interrupted == {[envelope |-> p.envelope, evidence |-> p.evidence] :
                                p \in {q \in items : q.evidence # None}}
  <1>1. /\ \A p, q \in items : p.envelope = q.envelope => p = q
        /\ \A p \in items : HonestItem(p, options)
        /\ \A p \in items : p.evidence # None <=> p.envelope.closure.kind = "interrupted"
    BY HonestItemHas DEF HonestItems
  <1>2. Assembled(items).interrupted = interrupted
    BY DEF Assembled, Bundle
  <1>3. \A x \in interrupted : \E p \in items :
            p.evidence # None /\ x.envelope = p.envelope /\ x.evidence = p.evidence
            /\ x = [envelope |-> p.envelope, evidence |-> p.evidence]
    OBVIOUS
  <1>4. \A p \in items : p.evidence # None =>
            [envelope |-> p.envelope, evidence |-> p.evidence] \in interrupted
    OBVIOUS
  <1> HIDE DEF interrupted
  <1>5. \A x, y \in interrupted : x.envelope = y.envelope => x = y
    BY <1>1, <1>3
  <1>6. {x.envelope : x \in interrupted} = InterruptedIn(Envelopes(items))
    <2>1. ASSUME NEW x \in interrupted
          PROVE  x.envelope \in InterruptedIn(Envelopes(items))
      BY <1>1, <1>3 DEF InterruptedIn, Envelopes
    <2>2. ASSUME NEW e \in InterruptedIn(Envelopes(items))
          PROVE  \E x \in interrupted : e = x.envelope
      <3>1. PICK p \in items : e = p.envelope /\ p.envelope.closure.kind = "interrupted"
        BY DEF InterruptedIn, Envelopes
      <3>2. [envelope |-> p.envelope, evidence |-> p.evidence] \in interrupted
        BY <1>1, <1>4, <3>1
      <3>3. [envelope |-> p.envelope, evidence |-> p.evidence].envelope = p.envelope
        OBVIOUS
      <3> QED
        BY <3>1, <3>2, <3>3
    <2> QED
      BY <2>1, <2>2
  <1>7. \A x \in interrupted :
            /\ x.evidence.episode = x.envelope.manifest.episode
            /\ Pending(x.envelope) = (x.evidence.reason = "administrative_cancel")
    <2> SUFFICES ASSUME NEW x \in interrupted
                 PROVE  /\ x.evidence.episode = x.envelope.manifest.episode
                        /\ Pending(x.envelope) = (x.evidence.reason = "administrative_cancel")
      OBVIOUS
    <2>1. PICK p \in items :
            p.evidence # None /\ x.envelope = p.envelope /\ x.evidence = p.evidence
      BY <1>3
    <2>2. HonestPlay(p.envelope, p.control, p.evidence) /\ p.envelope.closure.kind = "interrupted"
      BY <1>1, <2>1 DEF HonestItem
    <2>3. /\ p.evidence.episode = p.envelope.manifest.episode
          /\ Pending(p.envelope) <=> (p.evidence.reason = "administrative_cancel")
      BY <2>2, HonestEvidence
    <2>4. Pending(p.envelope) \in BOOLEAN
      BY DEF Pending
    <2> QED
      BY <2>1, <2>3, <2>4
  <1>8. EvidenceExact(Assembled(items), Envelopes(items))
    BY <1>2, <1>5, <1>6, <1>7 DEF EvidenceExact
  <1>9. ASSUME NEW p \in items
        PROVE  IF p.evidence = None THEN EvidenceFor(Assembled(items), p.envelope) = {}
               ELSE EvidenceFor(Assembled(items), p.envelope)
                        = {[envelope |-> p.envelope, evidence |-> p.evidence]}
    <2>1. EvidenceFor(Assembled(items), p.envelope) = {x \in interrupted : x.envelope = p.envelope}
      BY <1>2 DEF EvidenceFor
    <2>2. \A x \in interrupted : x.envelope = p.envelope =>
              p.evidence # None /\ x = [envelope |-> p.envelope, evidence |-> p.evidence]
      BY <1>1, <1>3
    <2>3. p.evidence # None =>
              /\ [envelope |-> p.envelope, evidence |-> p.evidence] \in interrupted
              /\ [envelope |-> p.envelope, evidence |-> p.evidence].envelope = p.envelope
      BY <1>4
    <2> QED
      BY <2>1, <2>2, <2>3
  <1> QED
    BY <1>8, <1>9

(* What the recorder sealed and the runner put beside it passes every check *)
(* of the verification: no honest shard is refused.                         *)
THEOREM HonestIsVerified ==
    ASSUME NEW items, NEW options, HonestItems(items, options)
    PROVE  Verified(Envelopes(items), Assembled(items), options)
  <1> DEFINE shard == Envelopes(items)
             bundle == Assembled(items)
  <1>1. /\ IsFiniteSet(items) /\ items # {} /\ version \in {1, 2} /\ options.source = TRUE
        /\ \A p \in items : HonestItem(p, options)
    BY DEF HonestItems
  <1>2. \A p \in items :
            /\ HonestPlay(p.envelope, p.control, p.evidence) /\ HonestChoices(p.envelope)
            /\ IsEnvelope(p.envelope) /\ WellFormed(p.envelope) /\ Eligible(p.envelope)
            /\ Resolved(p.envelope.manifest)
            /\ ValidProvenance(p.envelope.manifest.provenance, p.envelope.manifest.episode)
    BY <1>1 DEF HonestItem, HonestPlay, HonestChoices, Eligible
  <1>3. /\ bundle.shard = shard
        /\ bundle.inits = IF version = 1 THEN {InitEvidence(init) : init \in Required(shard)}
                         ELSE {}
    BY DEF Assembled, Bundle
  <1>4. IsFiniteSet(shard)
    <2> DEFINE f == [p \in items |-> p.envelope]
    <2>1. IsFiniteSet({f[p] : p \in items})
      <3>1. IsFiniteSet(items) /\ DOMAIN f = items
        BY <1>1
      <3> HIDE DEF f
      <3> QED
        BY ONLY <3>1, ImageIsFinite
    <2>2. {f[p] : p \in items} = shard
      <3>1. \A p \in items : f[p] = p.envelope
        OBVIOUS
      <3> HIDE DEF f
      <3> QED
        BY ONLY <3>1 DEF Envelopes
    <2> QED
      BY <2>1, <2>2
  <1>5. ValidBundle(bundle, shard)
    <2>1. EvidenceExact(bundle, shard)
      BY AssembledEvidence
    <2>2. version = 1 => InitializationsExact(bundle, shard)
      <3>1. \A e \in shard : IsEnvelope(e) /\ HonestChoices(e)
        BY <1>2 DEF Envelopes
      <3> HIDE DEF shard, bundle
      <3> QED
        BY <1>3, <1>4, <3>1, HonestInitializations
    <2> HIDE DEF shard, bundle
    <2> QED
      BY <1>3, <2>1, <2>2 DEF ValidBundle
  <1>6. ASSUME NEW p \in items
        PROVE  Admissible(p.envelope, bundle, options)
    <2> DEFINE e == p.envelope
               own == EvidenceFor(bundle, e)
    <2>1. HonestItem(p, options)
      BY <1>1
    <2>2. (IF own = {} THEN None ELSE (CHOOSE x \in own : TRUE).evidence) = p.evidence
      <3>1. IF p.evidence = None THEN own = {}
            ELSE own = {[envelope |-> p.envelope, evidence |-> p.evidence]}
        BY AssembledEvidence
      <3> HIDE DEF own
      <3>2. ASSUME p.evidence # None
            PROVE  (CHOOSE x \in own : TRUE) = [envelope |-> p.envelope, evidence |-> p.evidence]
        BY <3>1, <3>2
      <3> QED
        BY <3>1, <3>2
    <2>3. Replays(e, p.evidence, options)
      BY <1>1, <2>1, HonestReplays DEF HonestItem
    <2>4. \A i \in DOMAIN e.records : Attributed(e, e.records[i], bundle)
      <3> SUFFICES ASSUME NEW i \in DOMAIN e.records
                   PROVE  Attributed(e, e.records[i], bundle)
        OBVIOUS
      <3>1. ASSUME i \in Drawn(e)
            PROVE  version = 1 /\ InitEvidence(e.records[i].rng.stream.init) \in bundle.inits
        <4>1. version = 1
          BY <1>1, <2>1, <3>1 DEF HonestItem
        <4>2. e.records[i].rng.stream.init \in Initializations(e)
          BY <3>1 DEF Initializations
        <4>3. e.records[i].rng.stream.init \in Required(shard)
          BY <4>2 DEF Required, Envelopes
        <4> HIDE DEF bundle, shard, e
        <4> QED
          BY <1>3, <4>1, <4>3
      <3>2. HonestChoices(e) /\ WellFormed(e)
        BY <1>2
      <3> HIDE DEF bundle, e
      <3> QED
        BY <3>1, <3>2, HonestAttributed
    <2> HIDE DEF bundle
    <2> QED
      BY <1>2, <2>2, <2>3, <2>4 DEF Admissible
  <1>7. OneOwner(shard)
    <2>1. ASSUME NEW e \in shard, NEW i \in Drawn(e)
          PROVE  e.records[i].rng.assignment = e.records[i].rng.stream.assignment
      <3>1. HonestChoices(e) /\ i \in DOMAIN e.records /\ e.records[i].rng.mode # "none"
        BY <1>2, <2>1 DEF Envelopes, Drawn
      <3>2. PICK a : e.records[i].rng.assignment = a /\ Recomputes(e.records[i].rng.stream, a)
        BY <3>1 DEF HonestChoices, AttributionFits
      <3>3. Stream(a, a.artifact.rng, e.records[i].rng.stream.stream,
                   e.records[i].rng.stream.init).assignment = a
        BY DEF Stream
      <3> QED
        BY <3>2, <3>3 DEF Recomputes
    <2> HIDE DEF shard
    <2> QED
      BY <2>1 DEF OneOwner
  <1>8. \A e \in shard : WellFormed(e) /\ Admissible(e, bundle, options)
    <2> HIDE DEF bundle
    <2> QED
      BY <1>2, <1>6 DEF Envelopes
  <1>9. shard # {}
    BY <1>1 DEF Envelopes
  <1> HIDE DEF shard, bundle
  <1> QED
    BY <1>5, <1>7, <1>8, <1>9 DEF Verified, shard, bundle

----------------------------------------------------------------------------
(* Recording *)

(* A choice of the policy in charge, whose draw is from a stream with an    *)
(* initialization of its own.                                               *)
ChoiceHolds(p, r) ==
    /\ AttributionFits(p, r.frame, r.rng)
    /\ r.rng.mode # "none" =>
          LET stream == r.rng.stream
          IN  /\ stream.init = Initialization(stream.contract, stream.stream, stream.init.material)
              /\ UniqueCursor(stream.init, stream.init)

(* The records a recorder has of keys played so far.                        *)
Sofar(s, rs) == [manifest |-> [episode |-> s], records |-> rs]

PlayedSoFar(s, p, rs, c, ks) ==
    LET e == Sofar(s, rs)
    IN  /\ rs \in Seq(Range(rs)) /\ ks = Keys(e, Len(rs))
        /\ \A i \in 0..Len(rs) : Reached(s, Keys(e, i))
        /\ \A i \in DOMAIN rs :
              WasOffered(e, c, i) /\ rs[i] = Written(e, c)[i] /\ ChoiceHolds(p, rs[i])

(* The records of two envelopes that play the same keys of the same duel.   *)
SameChoices(e, f) ==
    /\ e.manifest.episode = f.manifest.episode
    /\ DOMAIN e.records = DOMAIN f.records /\ DOMAIN e.records = 1..Len(e.records)
    /\ Len(e.records) \in Nat
    /\ \A i \in DOMAIN e.records : /\ e.records[i].key = f.records[i].key
                                    /\ e.records[i].rng = f.records[i].rng

(* Of the same choices the recorder writes the same.                        *)
LEMMA SameKeysSameRecords ==
    ASSUME NEW e, NEW f, NEW c, SameChoices(e, f)
    PROVE  /\ \A i \in 0..Len(e.records) : Keys(e, i) = Keys(f, i)
           /\ Written(e, c) = Written(f, c)
           /\ \A i \in DOMAIN e.records : WasOffered(e, c, i) = WasOffered(f, c, i)
  <1>0. /\ e.manifest.episode = f.manifest.episode
        /\ DOMAIN e.records = DOMAIN f.records /\ DOMAIN e.records = 1..Len(e.records)
        /\ Len(e.records) \in Nat
        /\ \A i \in DOMAIN e.records : /\ e.records[i].key = f.records[i].key
                                        /\ e.records[i].rng = f.records[i].rng
    BY DEF SameChoices
  <1>1. \A i \in 0..Len(e.records) : Keys(e, i) = Keys(f, i)
    BY <1>0 DEF Keys
  <1>2. \A i \in DOMAIN e.records : i \in 0..Len(e.records) /\ i - 1 \in 0..Len(e.records)
    BY <1>0
  <1>3. \A i \in DOMAIN e.records : Written(e, c)[i] = Written(f, c)[i]
    <2> SUFFICES ASSUME NEW i \in DOMAIN e.records
                 PROVE  Written(e, c)[i] = Written(f, c)[i]
      OBVIOUS
    <2>1. Keys(e, i) = Keys(f, i) /\ Keys(e, i - 1) = Keys(f, i - 1)
      BY <1>1, <1>2
    <2> QED
      BY <1>0, <2>1 DEF Written
  <1>4. Written(e, c) = Written(f, c)
    <2>1. Written(e, c) = [i \in DOMAIN e.records |-> Written(e, c)[i]]
      BY DEF Written
    <2>2. Written(f, c) = [i \in DOMAIN e.records |-> Written(f, c)[i]]
      BY <1>0 DEF Written
    <2> QED
      BY <1>3, <2>1, <2>2
  <1>5. \A i \in DOMAIN e.records : WasOffered(e, c, i) = WasOffered(f, c, i)
    <2> SUFFICES ASSUME NEW i \in DOMAIN e.records
                 PROVE  WasOffered(e, c, i) = WasOffered(f, c, i)
      OBVIOUS
    <2>1. Keys(e, i - 1) = Keys(f, i - 1) /\ e.records[i].key = f.records[i].key
      BY <1>0, <1>1, <1>2
    <2> QED
      BY <1>0, <2>1 DEF WasOffered
  <1> QED
    BY <1>1, <1>4, <1>5

(* What is recorded has the fields of a record, led to a pending frame too.  *)
LEMMA NewIsRecord ==
    ASSUME NEW frame, NEW key, NEW a, NEW next, NEW pending
    PROVE  /\ IsRecord(NewRecord(frame, key, a, next))
           /\ IsRecord(LedTo(NewRecord(frame, key, a, next), pending))
           /\ LedTo(NewRecord(frame, key, a, next), pending).frame = frame
           /\ LedTo(NewRecord(frame, key, a, next), pending).key = key
           /\ LedTo(NewRecord(frame, key, a, next), pending).rng = a
  <1>1. IsRecord(NewRecord(frame, key, a, next))
    BY DEF IsRecord, NewRecord
  <1> DEFINE r == LedTo(NewRecord(frame, key, a, next), pending)
  <1>2. r = [frame |-> frame, key |-> key, class |-> Class(key, frame.request),
               assignment |-> a.assignment, rng |-> a, successor |-> "frame",
               target |-> Target("pending", pending)]
    BY LedToRecord
  <1> HIDE DEF r
  <1>3. IsRecord(r) /\ r.frame = frame /\ r.key = key /\ r.rng = a
    BY <1>2 DEF IsRecord
  <1> QED
    BY <1>1, <1>3 DEF r

(* What closes an episode has the fields of a closure.                      *)
LEMMA ClosuresAreTyped ==
    /\ \A next : IsClosure(ClosureOf(next)) /\ ClosureOf(next).pending = None
    /\ \A frame : IsClosure(PendingClosure(frame)) /\ PendingClosure(frame).kind = "interrupted"
    /\ \A n : IsClosure(FailedClosure(n)) /\ FailedClosure(n).kind = "failed"
  <1>1. \A next : IsClosure(ClosureOf(next)) /\ ClosureOf(next).pending = None
    BY DEF IsClosure, ClosureOf, TerminalClosure, InterruptedClosure, FailedClosure
  <1>2. \A frame : IsClosure(PendingClosure(frame)) /\ PendingClosure(frame).kind = "interrupted"
    BY DEF IsClosure, PendingClosure, InterruptedClosure
  <1>3. \A n : IsClosure(FailedClosure(n)) /\ FailedClosure(n).kind = "failed"
    BY DEF IsClosure, FailedClosure
  <1> QED
    BY <1>1, <1>2, <1>3

(* Every record of play has the fields of its type. *)
LEMMA SoFarRecords ==
    ASSUME NEW s, NEW p, NEW rs, NEW c, NEW ks, PlayedSoFar(s, p, rs, c, ks)
    PROVE  /\ rs \in Seq(Range(rs)) /\ DOMAIN rs = 1..Len(rs) /\ Len(rs) \in Nat
           /\ Len(ks) = Len(rs) /\ ks \in Seq(Range(ks)) /\ Reached(s, ks)
           /\ \A i \in DOMAIN rs : IsRecord(rs[i])
  <1>1. rs \in Seq(Range(rs)) /\ ks = Keys(Sofar(s, rs), Len(rs))
    BY DEF PlayedSoFar
  <1>2. DOMAIN rs = 1..Len(rs) /\ Len(rs) \in Nat
    BY <1>1, SeqIsFunction
  <1>3. Len(ks) = Len(rs) /\ ks \in Seq(Range(ks))
    <2>1. Sofar(s, rs).records = rs
      BY DEF Sofar
    <2>2. Len(rs) \in 0..Len(rs)
      BY <1>2
    <2> HIDE DEF Sofar
    <2> QED
      BY <1>1, <2>1, <2>2, KeysArePlayed
  <1>4. Reached(s, ks)
    BY <1>1, <1>2 DEF PlayedSoFar
  <1>5. ASSUME NEW i \in DOMAIN rs
        PROVE  IsRecord(rs[i])
    <2>1. rs[i] = Written(Sofar(s, rs), c)[i]
      BY DEF PlayedSoFar
    <2>2. rs[i] = NewRecord(Frame(s, Keys(Sofar(s, rs), i - 1)), rs[i].key, rs[i].rng,
                            Answer(s, c, Keys(Sofar(s, rs), i)))
      BY <2>1 DEF Written, Sofar
    <2> QED
      BY <2>2, NewIsRecord
  <1> QED
    BY <1>1, <1>2, <1>3, <1>4, <1>5

(* At the first frame the recorder has what was played: nothing.            *)
LEMMA NothingPlayed ==
    ASSUME NEW s \in Specs, NEW p, NEW c
    PROVE  PlayedSoFar(s, p, <<>>, c, <<>>)
  <1>1. Keys(Sofar(s, <<>>), 0) = <<>>
    BY FirstKeys
  <1>2. Reached(s, <<>>)
    BY GameAssumption
  <1>3. <<>> \in Seq(Range(<<>>)) /\ Len(<<>>) = 0 /\ DOMAIN <<>> = {}
    <2>1. \A S : <<>> \in Seq(S)
      OBVIOUS
    <2> QED
      BY <2>1
  <1>4. \A i \in 0..Len(<<>>) : i = 0
    BY <1>3
  <1> HIDE DEF Sofar
  <1> QED
    BY <1>1, <1>2, <1>3, <1>4 DEF PlayedSoFar

(* An accepted choice is one more record.                                   *)
LEMMA OnePlayed ==
    ASSUME NEW s \in Specs, NEW p, NEW rs, NEW c, NEW ks, PlayedSoFar(s, p, rs, c, ks),
           Answer(s, c, ks).kind = "frame", NEW key \in Range(Frame(s, ks).request.keys),
           NEW a, NEW r,
           r = NewRecord(Frame(s, ks), key, a, Answer(s, c, Append(ks, key))), ChoiceHolds(p, r)
    PROVE  PlayedSoFar(s, p, Append(rs, r), c, Append(ks, key)) /\ Reached(s, Append(ks, key))
  <1> DEFINE e == Sofar(s, rs)
             f == Sofar(s, Append(rs, r))
             n == Len(rs)
  <1>1. /\ rs \in Seq(Range(rs)) /\ DOMAIN rs = 1..n /\ n \in Nat
        /\ Len(ks) = n /\ ks \in Seq(Range(ks)) /\ Reached(s, ks)
    BY SoFarRecords
  <1>2. /\ Append(rs, r) \in Seq(Range(Append(rs, r))) /\ Len(Append(rs, r)) = n + 1
        /\ DOMAIN Append(rs, r) = 1..(n + 1)
        /\ \A i \in 1..n : Append(rs, r)[i] = rs[i]
        /\ Append(rs, r)[n + 1] = r
    BY <1>1, AppendedIsSeq
  <1>3. /\ e.records = rs /\ f.records = Append(rs, r) /\ e.manifest.episode = s
        /\ f.manifest.episode = s
    BY DEF Sofar
  <1>4. ks = Keys(e, n) /\ r.key = key /\ r.rng = a /\ r.frame = Frame(s, ks)
    BY DEF PlayedSoFar, NewRecord
  <1> HIDE DEF e, f, n
  <1>5. \A i \in 0..n : Keys(f, i) = Keys(e, i)
    BY <1>1, <1>2, <1>3 DEF Keys
  <1>6. Keys(f, n + 1) = Append(ks, key)
    <2>1. Append(ks, key) = [i \in 1..(n + 1) |-> IF i = n + 1 THEN key ELSE ks[i]]
      <3>1. /\ Append(ks, key) \in Seq(Range(Append(ks, key))) /\ Len(Append(ks, key)) = n + 1
            /\ \A i \in 1..n : Append(ks, key)[i] = ks[i]
            /\ Append(ks, key)[n + 1] = key
        BY <1>1, AppendedIsSeq
      <3>2. Append(ks, key) = [i \in 1..(n + 1) |-> Append(ks, key)[i]]
        BY <3>1, SeqIsFunction
      <3>3. \A i \in 1..(n + 1) : Append(ks, key)[i] = IF i = n + 1 THEN key ELSE ks[i]
        BY <1>1, <3>1
      <3> QED
        BY <3>2, <3>3
    <2>2. \A i \in 1..n : ks[i] = rs[i].key
      BY <1>3, <1>4 DEF Keys
    <2>3. Keys(f, n + 1) = [i \in 1..(n + 1) |-> Append(rs, r)[i].key]
      BY <1>3 DEF Keys
    <2>4. \A i \in 1..(n + 1) : Append(rs, r)[i].key = IF i = n + 1 THEN key ELSE ks[i]
      BY <1>1, <1>2, <1>4, <2>2
    <2> QED
      BY <2>1, <2>3, <2>4
  <1>7. Reached(s, Append(ks, key))
    <2>1. ~Turn(s, ks).over
      BY DEF Answer, Interruption
    <2>2. key \in Range(Turn(s, ks).request.keys)
      BY DEF Frame
    <2> QED
      BY <1>1, <2>1, <2>2, GameAssumption DEF Reached
  <1>8. \A i \in 0..(n + 1) : Reached(s, Keys(f, i))
    <2>1. \A i \in 0..n : Reached(s, Keys(e, i))
      BY DEF PlayedSoFar, e, n
    <2>2. \A i \in 0..(n + 1) : i \in 0..n \/ i = n + 1
      BY <1>1
    <2> QED
      BY <1>5, <1>6, <1>7, <2>1, <2>2
  <1>9. ASSUME NEW i \in 1..(n + 1)
        PROVE  /\ WasOffered(f, c, i) /\ Append(rs, r)[i] = Written(f, c)[i]
               /\ ChoiceHolds(p, Append(rs, r)[i])
    <2>1. CASE i \in 1..n
      <3>1. WasOffered(e, c, i) /\ rs[i] = Written(e, c)[i] /\ ChoiceHolds(p, rs[i])
        BY <1>1, <2>1 DEF PlayedSoFar, e
      <3>2. i \in 0..n /\ i - 1 \in 0..n
        BY <1>1, <2>1
      <3>3. Keys(f, i) = Keys(e, i) /\ Keys(f, i - 1) = Keys(e, i - 1)
        BY <1>5, <3>2
      <3>4. f.records[i] = e.records[i]
        BY <1>2, <1>3, <2>1
      <3>5. WasOffered(f, c, i)
        BY <1>3, <3>1, <3>3, <3>4 DEF WasOffered
      <3>6. Written(f, c)[i] = Written(e, c)[i]
        BY <1>1, <1>2, <1>3, <2>1, <3>3, <3>4 DEF Written
      <3> QED
        BY <1>2, <2>1, <3>1, <3>5, <3>6
    <2>2. CASE i = n + 1
      <3>1. Keys(f, i - 1) = ks /\ Keys(f, i) = Append(ks, key)
        <4>1. i - 1 = n /\ n \in 0..n
          BY <1>1, <2>2
        <4> QED
          BY <1>4, <1>5, <1>6, <2>2, <4>1
      <3>2. f.records[i] = r
        BY <1>2, <1>3, <2>2
      <3>3. Answer(s, c, ks).frame = Frame(s, ks)
        <4>1. Answer(s, c, ks) = [kind |-> "frame", frame |-> Frame(s, ks)]
          BY AnswerKinds
        <4> QED
          BY <4>1
      <3>4. WasOffered(f, c, i)
        BY <1>3, <1>4, <3>1, <3>2, <3>3 DEF WasOffered
      <3>5. Written(f, c)[i] = NewRecord(Frame(s, ks), key, a, Answer(s, c, Append(ks, key)))
        BY <1>2, <1>3, <1>4, <3>1, <3>2 DEF Written
      <3> QED
        BY <1>2, <2>2, <3>4, <3>5
    <2> QED
      BY <1>1, <2>1, <2>2
  <1>10. PlayedSoFar(s, p, Append(rs, r), c, Append(ks, key))
    BY <1>2, <1>6, <1>8, <1>9 DEF PlayedSoFar, f
  <1> QED
    BY <1>7, <1>10

(* What the recorder has when play ends by itself, and when it is cut off.  *)
EndedBy(e, m, rs, c, ks) ==
    LET end == Answer(m.episode, c, ks)
    IN  /\ PlayedSoFar(m.episode, m.provenance, rs, c, ks) /\ end.kind # "frame"
        /\ e.manifest = m /\ e.records = rs /\ e.closure = ClosureOf(end)

CutOffAt(e, m, rs, c, ks) ==
    LET frame == Frame(m.episode, ks)
    IN  /\ PlayedSoFar(m.episode, m.provenance, rs, c, ks) /\ m.episode \in Specs
        /\ Answer(m.episode, c, ks).kind = "frame"
        /\ e.manifest = m /\ e.records = LedToPending(rs, frame)
        /\ e.closure = PendingClosure(frame)

(* The records of play that ended by itself are an envelope that was played *)
LEMMA PlayedToEnd ==
    ASSUME NEW e, NEW m, NEW rs, NEW c, NEW ks, EndedBy(e, m, rs, c, ks)
    PROVE  /\ IsEnvelope(e) /\ WasPlayed(e, c) /\ Ending(e, c) = Answer(m.episode, c, ks)
           /\ \A i \in DOMAIN e.records : ChoiceHolds(m.provenance, e.records[i])
           /\ e.closure.kind = Answer(m.episode, c, ks).kind
  <1>0. /\ PlayedSoFar(m.episode, m.provenance, rs, c, ks)
        /\ Answer(m.episode, c, ks).kind # "frame"
        /\ e.manifest = m /\ e.records = rs /\ e.closure = ClosureOf(Answer(m.episode, c, ks))
    BY DEF EndedBy
  <1> USE <1>0
  <1> DEFINE s == m.episode
             f == Sofar(s, rs)
             end == Answer(s, c, ks)
  <1>1. /\ rs \in Seq(Range(rs)) /\ DOMAIN rs = 1..Len(rs) /\ Len(rs) \in Nat
        /\ \A i \in DOMAIN rs : IsRecord(rs[i])
    BY SoFarRecords
  <1>2. e.records = rs /\ e.manifest = m /\ e.closure = ClosureOf(end)
    OBVIOUS
  <1>3. f.records = rs /\ f.manifest.episode = s
    BY DEF Sofar
  <1>4. /\ ks = Keys(f, Len(rs)) /\ \A i \in 0..Len(rs) : Reached(s, Keys(f, i))
        /\ \A i \in DOMAIN rs :
              WasOffered(f, c, i) /\ rs[i] = Written(f, c)[i] /\ ChoiceHolds(m.provenance, rs[i])
    BY DEF PlayedSoFar
  <1> HIDE DEF s, f, end
  <1>5. /\ \A i \in 0..Len(rs) : Keys(e, i) = Keys(f, i)
        /\ Written(e, c) = Written(f, c)
        /\ \A i \in DOMAIN rs : WasOffered(e, c, i) = WasOffered(f, c, i)
    <2>1. e.manifest.episode = f.manifest.episode
      BY <1>2, <1>3 DEF s
    <2>2. /\ DOMAIN e.records = DOMAIN f.records /\ DOMAIN e.records = 1..Len(e.records)
          /\ Len(e.records) \in Nat /\ e.records = f.records
      BY <1>1, <1>2, <1>3
    <2>3. /\ \A i \in 0..Len(e.records) : Keys(e, i) = Keys(f, i)
          /\ Written(e, c) = Written(f, c)
          /\ \A i \in DOMAIN e.records : WasOffered(e, c, i) = WasOffered(f, c, i)
      <3>1. SameChoices(e, f)
        BY <2>1, <2>2 DEF SameChoices
      <3> QED
        BY <3>1, SameKeysSameRecords
    <2> QED
      BY <1>2, <2>3
  <1>6. Keys(e, Len(rs)) = ks
    BY <1>1, <1>4, <1>5
  <1>7. IsClosure(e.closure) /\ e.closure.pending = None /\ e.closure.kind = end.kind
    <2>1. IsClosure(e.closure) /\ e.closure.pending = None
      BY <1>2, ClosuresAreTyped
    <2>2. end.kind \in {"terminal", "interrupted"}
      BY AnswerKinds DEF end, s
    <2>3. ClosureOf(end).kind = end.kind
      BY <2>2 DEF ClosureOf, TerminalClosure, InterruptedClosure
    <2> QED
      BY <1>2, <2>1, <2>3
  <1>8. Ending(e, c) = end
    <2>1. ~Pending(e)
      BY <1>7 DEF Pending
    <2>2. e.manifest.episode = s
      BY <1>2 DEF s
    <2>3. Keys(e, Len(e.records)) = ks
      BY <1>2, <1>6
    <2> QED
      BY <2>1, <2>2, <2>3 DEF Ending, end
  <1>9. IsEnvelope(e)
    BY <1>1, <1>2, <1>7 DEF IsEnvelope
  <1>10. rs = Written(e, c)
    <2>1. rs = [i \in DOMAIN rs |-> rs[i]]
      BY <1>1, SeqIsFunction
    <2>2. Written(e, c) = [i \in DOMAIN rs |-> Written(e, c)[i]]
      BY <1>2 DEF Written
    <2>3. \A i \in DOMAIN rs : rs[i] = Written(e, c)[i]
      BY <1>4, <1>5
    <2> QED
      BY <2>1, <2>2, <2>3
  <1>11. WasPlayed(e, c)
    <2>1. e.manifest.episode = s /\ Keys(e, Len(e.records)) = ks
      BY <1>2, <1>6 DEF s
    <2>2. end.kind # "frame"
      BY DEF end, s
    <2>3. RecordingOf(e, c, FALSE) = [records |-> Written(e, c), closure |-> ClosureOf(end)]
      <3>1. RecordingOf(e, c, FALSE) =
              IF FALSE THEN [records |-> LedToPending(Written(e, c), Frame(s, ks)),
                             closure |-> PendingClosure(Frame(s, ks))]
              ELSE [records |-> Written(e, c), closure |-> ClosureOf(end)]
        BY <1>1, <1>2, <2>1, RecordingIs DEF end
      <3> QED
        BY <3>1
    <2>4. RecordingOf(e, c, FALSE) = [records |-> e.records, closure |-> e.closure]
      BY <1>2, <1>10, <2>3
    <2>5. (Answer(e.manifest.episode, c, Keys(e, Len(e.records))).kind = "frame") = FALSE
      BY <2>1, <2>2 DEF end
    <2>6. \A i \in 0..Len(e.records) : Reached(e.manifest.episode, Keys(e, i))
      BY <1>2, <1>4, <1>5, <2>1
    <2>7. \A i \in DOMAIN e.records : WasOffered(e, c, i)
      BY <1>2, <1>4, <1>5
    <2> QED
      BY <2>4, <2>5, <2>6, <2>7 DEF WasPlayed
  <1> QED
    BY <1>2, <1>4, <1>7, <1>8, <1>9, <1>11 DEF end, s

(* And so are they with the open frame behind them, of play cut off at it.  *)
LEMMA PlayedToCancel ==
    ASSUME NEW e, NEW m, NEW rs, NEW c, NEW ks, CutOffAt(e, m, rs, c, ks)
    PROVE  /\ IsEnvelope(e) /\ WasPlayed(e, c) /\ Ending(e, c) = Cancelled(m.episode, c, ks)
           /\ \A i \in DOMAIN e.records : ChoiceHolds(m.provenance, e.records[i])
           /\ e.closure.kind = "interrupted"
  <1>0. /\ PlayedSoFar(m.episode, m.provenance, rs, c, ks)
        /\ Answer(m.episode, c, ks).kind = "frame" /\ m.episode \in Specs
        /\ e.manifest = m /\ e.records = LedToPending(rs, Frame(m.episode, ks))
        /\ e.closure = PendingClosure(Frame(m.episode, ks))
    BY DEF CutOffAt
  <1> USE <1>0
  <1> DEFINE s == m.episode
             f == Sofar(s, rs)
             frame == Frame(s, ks)
             led == LedToPending(rs, frame)
  <1>1. /\ rs \in Seq(Range(rs)) /\ DOMAIN rs = 1..Len(rs) /\ Len(rs) \in Nat /\ Reached(s, ks)
    BY SoFarRecords
  <1>2. e.records = led /\ e.manifest = m /\ e.closure = PendingClosure(frame)
    OBVIOUS
  <1>3. f.records = rs /\ f.manifest.episode = s
    BY DEF Sofar
  <1>4. /\ ks = Keys(f, Len(rs)) /\ \A i \in 0..Len(rs) : Reached(s, Keys(f, i))
        /\ \A i \in DOMAIN rs :
              WasOffered(f, c, i) /\ rs[i] = Written(f, c)[i] /\ ChoiceHolds(m.provenance, rs[i])
    BY DEF PlayedSoFar
  <1>5. led = [i \in DOMAIN rs |-> IF i = Len(rs) THEN LedTo(rs[i], frame) ELSE rs[i]]
    BY <1>1, LedToPendingIs
  <1> HIDE DEF s, f, frame, led
  <1>6. led \in Seq(Range(led)) /\ DOMAIN led = DOMAIN rs /\ Len(led) = Len(rs)
    <2>1. led = [i \in 1..Len(rs) |-> led[i]]
      BY <1>1, <1>5
    <2> QED
      BY <1>1, <2>1, FunctionIsSeq
  <1>7. ASSUME NEW i \in DOMAIN rs
        PROVE  /\ led[i].key = rs[i].key /\ led[i].rng = rs[i].rng /\ led[i].frame = rs[i].frame
               /\ IsRecord(led[i])
    <2>1. rs[i] = NewRecord(Frame(s, Keys(f, i - 1)), rs[i].key, rs[i].rng,
                            Answer(s, c, Keys(f, i)))
      BY <1>3, <1>4 DEF Written
    <2>2. rs[i].frame = Frame(s, Keys(f, i - 1))
      BY <2>1 DEF NewRecord
    <2>3. /\ IsRecord(rs[i]) /\ IsRecord(LedTo(rs[i], frame))
          /\ LedTo(rs[i], frame).frame = rs[i].frame /\ LedTo(rs[i], frame).key = rs[i].key
          /\ LedTo(rs[i], frame).rng = rs[i].rng
      BY <2>1, <2>2, NewIsRecord
    <2> QED
      BY <1>5, <2>3
  <1>8. /\ \A i \in 0..Len(rs) : Keys(e, i) = Keys(f, i)
        /\ Written(e, c) = Written(f, c)
        /\ \A i \in DOMAIN rs : WasOffered(e, c, i) = WasOffered(f, c, i)
    <2>1. e.manifest.episode = f.manifest.episode
      BY <1>2, <1>3 DEF s
    <2>2. /\ DOMAIN e.records = DOMAIN f.records /\ DOMAIN e.records = 1..Len(e.records)
          /\ Len(e.records) \in Nat /\ Len(e.records) = Len(rs) /\ DOMAIN e.records = DOMAIN rs
      BY <1>1, <1>2, <1>3, <1>6
    <2>3. \A i \in DOMAIN e.records : /\ e.records[i].key = f.records[i].key
                                      /\ e.records[i].rng = f.records[i].rng
      BY <1>2, <1>3, <1>6, <1>7
    <2>4. /\ \A i \in 0..Len(e.records) : Keys(e, i) = Keys(f, i)
          /\ Written(e, c) = Written(f, c)
          /\ \A i \in DOMAIN e.records : WasOffered(e, c, i) = WasOffered(f, c, i)
      <3>1. SameChoices(e, f)
        BY <2>1, <2>2, <2>3 DEF SameChoices
      <3> QED
        BY <3>1, SameKeysSameRecords
    <2> QED
      BY <2>2, <2>4
  <1>9. Keys(e, Len(e.records)) = ks
    BY <1>1, <1>2, <1>4, <1>6, <1>8
  <1>10. /\ IsClosure(e.closure) /\ e.closure.kind = "interrupted" /\ e.closure.pending = frame
         /\ frame # None
    <2>1. IsClosure(e.closure) /\ e.closure.kind = "interrupted"
      BY <1>2, ClosuresAreTyped
    <2>2. e.closure.pending = frame
      BY <1>2 DEF PendingClosure, InterruptedClosure
    <2>3. ~Turn(s, ks).over
      BY DEF Answer, Interruption, s
    <2>4. frame # None
      BY <1>1, <2>3, FrameAssumption DEF frame, s, Reached
    <2> QED
      BY <2>1, <2>2, <2>4
  <1>11. IsEnvelope(e)
    BY <1>2, <1>6, <1>7, <1>10 DEF IsEnvelope
  <1>12. Ending(e, c) = Cancelled(s, c, ks)
    BY <1>2, <1>9, <1>10 DEF Ending, Pending, s
  <1>13. \A i \in DOMAIN e.records : ChoiceHolds(m.provenance, e.records[i])
    BY <1>2, <1>4, <1>6, <1>7 DEF ChoiceHolds
  <1>14. led = LedToPending(Written(e, c), frame)
    <2>1. Written(e, c) = [i \in DOMAIN rs |-> Written(e, c)[i]]
      BY <1>2, <1>6 DEF Written
    <2>2. rs = [i \in DOMAIN rs |-> rs[i]]
      BY <1>1, SeqIsFunction
    <2>3. \A i \in DOMAIN rs : rs[i] = Written(e, c)[i]
      BY <1>4, <1>8
    <2>4. rs = Written(e, c)
      BY <2>1, <2>2, <2>3
    <2> QED
      BY <2>4 DEF led
  <1>15. WasPlayed(e, c)
    <2>1. e.manifest.episode = s
      BY <1>2 DEF s
    <2>2. RecordingOf(e, c, TRUE) =
              IF TRUE THEN [records |-> LedToPending(Written(e, c), frame),
                             closure |-> PendingClosure(frame)]
              ELSE [records |-> Written(e, c), closure |-> ClosureOf(Answer(s, c, ks))]
      BY <1>2, <1>6, <1>9, <2>1, RecordingIs DEF frame
    <2>3. RecordingOf(e, c, TRUE) = [records |-> e.records, closure |-> e.closure]
      BY <1>2, <1>14, <2>2
    <2>4. (Answer(e.manifest.episode, c, Keys(e, Len(e.records))).kind = "frame") = TRUE
      BY <1>9, <2>1 DEF s
    <2>5. \A i \in 0..Len(e.records) : Reached(e.manifest.episode, Keys(e, i))
      BY <1>2, <1>4, <1>6, <1>8, <2>1
    <2>6. \A i \in DOMAIN e.records : WasOffered(e, c, i)
      BY <1>2, <1>4, <1>6, <1>8
    <2> QED
      BY <2>3, <2>4, <2>5, <2>6 DEF WasPlayed
  <1> QED
    BY <1>10, <1>11, <1>12, <1>13, <1>15 DEF s

(* Choices that hold are honest, under a valid provenance.                  *)
LEMMA ChoicesAreHonest ==
    ASSUME NEW e, ValidProvenance(e.manifest.provenance, e.manifest.episode),
           \A a \in e.manifest.provenance.assignments : a.from \in Nat,
           \A i \in DOMAIN e.records : ChoiceHolds(e.manifest.provenance, e.records[i])
    PROVE  HonestChoices(e)
  BY DEF HonestChoices, ChoiceHolds, Drawn

============================================================================
