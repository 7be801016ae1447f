------------------------ MODULE GameplayEvaluationProofs ------------------------
(***************************************************************************)
(* The evaluation of a checkpoint, for every game, schedule of profiles and *)
(* sequence of answers and failures: the best answer to the open frame is   *)
(* what is played, every job of the schedule has one result, a trusted one  *)
(* is the engine's, and each failure is blamed on what failed.              *)
(***************************************************************************)
EXTENDS GameplayEvaluation, AdmissionProofs, WellFoundedInduction, NaturalsInduction

----------------------------------------------------------------------------
(* The best score *)

(* Every nonempty set of natural numbers has a smallest element.            *)
LEMMA SmallestOf ==
    ASSUME NEW S \in SUBSET Nat, S # {}
    PROVE  \E n \in S : \A m \in S : n <= m
  <1> DEFINE R == {ss \in Nat \X Nat : ss[1] < ss[2]}
  <1>1. IsWellFoundedOn(R, Nat)
    BY NatLessThanWellFounded DEF OpToRel
  <1>2. \E n \in S : \A m \in S : ~(<<m, n>> \in R)
    <2> HIDE DEF R
    <2> QED
      BY <1>1, WFMin
  <1>3. PICK n \in S : \A m \in S : ~(<<m, n>> \in R)
    BY <1>2
  <1>4. \A m \in S : ~(m < n)
    BY <1>3
  <1> QED
    BY <1>4

(* The ordinals kept up to each position, of a relation of one to another.  *)
KeepsBest(f, m, B) ==
    /\ f = [i \in 1..m |-> f[i]]
    /\ \A i \in 1..m : f[i] = IF i = 1 THEN 1 ELSE IF <<i, f[i - 1]>> \in B THEN i ELSE f[i - 1]

(* They can be kept up to any position.                                     *)
LEMMA BestIsKept ==
    ASSUME NEW n \in Nat, NEW B
    PROVE  \E f : KeepsBest(f, n, B)
  <1> DEFINE Bad == {m \in Nat : ~\E f : KeepsBest(f, m, B)}
  <1>1. SUFFICES Bad = {}
    BY <1>1
  <1>2. SUFFICES ASSUME Bad # {} PROVE FALSE
    OBVIOUS
  <1>3. PICK m \in Bad : \A k \in Bad : m <= k
    <2> HIDE DEF Bad
    <2>1. Bad \in SUBSET Nat
      BY DEF Bad
    <2> QED
      BY <1>2, <2>1, SmallestOf
  <1>4. CASE m = 0
    <2>1. KeepsBest([i \in 1..0 |-> 1], 0, B)
      BY DEF KeepsBest
    <2> QED
      BY <1>3, <1>4, <2>1
  <1>5. CASE m # 0
    <2>1. m - 1 \in Nat /\ m \in Nat /\ m >= 1
      BY <1>3, <1>5
    <2>2. PICK f : KeepsBest(f, m - 1, B)
      <3>1. m - 1 \notin Bad
        BY <1>3, <2>1
      <3> QED
        BY <2>1, <3>1
    <2> DEFINE new == IF m = 1 THEN 1 ELSE IF <<m, f[m - 1]>> \in B THEN m ELSE f[m - 1]
               g == [i \in 1..m |-> IF i = m THEN new ELSE f[i]]
    <2>3. \A i \in 1..m : i # m => g[i] = f[i] /\ i \in 1..(m - 1)
      BY <2>1
    <2>4. g[m] = new /\ (m # 1 => g[m - 1] = f[m - 1])
      BY <2>1
    <2>5. g = [i \in 1..m |-> g[i]]
      OBVIOUS
    <2>6. ASSUME NEW i \in 1..m
          PROVE  g[i] = IF i = 1 THEN 1 ELSE IF <<i, g[i - 1]>> \in B THEN i ELSE g[i - 1]
      <3>1. CASE i = m
        <4> HIDE DEF g
        <4> QED
          BY <2>4, <3>1
      <3>2. CASE i # m
        <4>1. g[i] = f[i] /\ i \in 1..(m - 1)
          BY <2>3, <3>2
        <4>2. i # 1 => g[i - 1] = f[i - 1]
          <5> SUFFICES ASSUME i # 1 PROVE g[i - 1] = f[i - 1]
            OBVIOUS
          <5>1. i - 1 \in 1..m /\ i - 1 # m
            BY <2>1
          <5> HIDE DEF g
          <5> QED
            BY <2>3, <5>1
        <4>3. f[i] = IF i = 1 THEN 1 ELSE IF <<i, f[i - 1]>> \in B THEN i ELSE f[i - 1]
          BY <2>2, <4>1 DEF KeepsBest
        <4> HIDE DEF g
        <4> QED
          BY <4>1, <4>2, <4>3
      <3> QED
        BY <3>1, <3>2
    <2>7. KeepsBest(g, m, B)
      <3> HIDE DEF g
      <3> QED
        BY <2>5, <2>6 DEF KeepsBest
    <2> HIDE DEF g
    <2> QED
      BY <1>3, <2>1, <2>7
  <1> QED
    BY <1>4, <1>5

(* What is kept last beats or ties with all before it, in an order.         *)
LEMMA KeptIsBest ==
    ASSUME NEW n \in Nat \ {0}, NEW score \in [1..n -> Int], NEW rank \in [1..n -> Int],
           NEW B, NEW f, KeepsBest(f, n, B),
           B = {p \in (1..n) \X (1..n) : \/ score[p[1]] > score[p[2]]
                                         \/ score[p[1]] = score[p[2]] /\ rank[p[1]] < rank[p[2]]}
    PROVE  /\ f[n] \in 1..n
           /\ \A i \in 1..n : \/ score[i] < score[f[n]]
                              \/ score[i] = score[f[n]] /\ rank[f[n]] <= rank[i]
  <1> DEFINE Over(x, y) == score[y] < score[x] \/ (score[y] = score[x] /\ rank[x] <= rank[y])
             Good(m) == f[m] \in 1..m /\ \A i \in 1..m : Over(f[m], i)
             Bad == {m \in 1..n : ~Good(m)}
  <1>1. SUFFICES Bad = {}
    <2>1. n \in 1..n
      OBVIOUS
    <2>2. Good(n)
      BY <1>1, <2>1
    <2> QED
      BY <2>2
  <1>2. SUFFICES ASSUME Bad # {} PROVE FALSE
    OBVIOUS
  <1>3. PICK m \in Bad : \A k \in Bad : m <= k
    <2> HIDE DEF Bad
    <2>1. Bad \in SUBSET Nat
      BY DEF Bad
    <2> QED
      BY <1>2, <2>1, SmallestOf
  <1>4. \A i \in 1..n : score[i] \in Int /\ rank[i] \in Int
    OBVIOUS
  <1>5. f[m] = IF m = 1 THEN 1 ELSE IF <<m, f[m - 1]>> \in B THEN m ELSE f[m - 1]
    BY <1>3 DEF KeepsBest
  <1>6. CASE m = 1
    <2>1. f[m] = 1 /\ 1 \in 1..n
      BY <1>5, <1>6
    <2>2. Over(1, 1)
      BY <1>4, <2>1
    <2>3. Good(m)
      BY <1>6, <2>1, <2>2
    <2> QED
      BY <1>3, <2>3
  <1>7. CASE m # 1
    <2>1. m \in 1..n /\ m - 1 \in 1..n /\ m - 1 \notin Bad /\ ~Good(m)
      BY <1>3, <1>7
    <2>2. Good(m - 1)
      <3> HIDE DEF Good
      <3> QED
        BY <2>1
    <2> DEFINE b == f[m - 1]
    <2>3. b \in 1..(m - 1) /\ b \in 1..n /\ \A i \in 1..(m - 1) : Over(b, i)
      BY <2>1, <2>2
    <2>4. CASE <<m, b>> \in B
      <3>1. score[m] > score[b] \/ (score[m] = score[b] /\ rank[m] < rank[b])
        BY <2>4
      <3>2. f[m] = m
        BY <1>5, <1>7, <2>4
      <3>3. \A i \in 1..(m - 1) : Over(m, i)
        <4> SUFFICES ASSUME NEW i \in 1..(m - 1) PROVE Over(m, i)
          OBVIOUS
        <4>1. Over(b, i)
          <5> HIDE DEF Over, b
          <5> QED
            BY <2>3
        <4>2. i \in 1..n
          BY <2>1
        <4>3. /\ score[m] \in Int /\ score[b] \in Int /\ score[i] \in Int
              /\ rank[m] \in Int /\ rank[b] \in Int /\ rank[i] \in Int
          BY <1>4, <2>1, <2>3, <4>2
        <4> HIDE DEF b
        <4> QED
          BY ONLY <3>1, <4>1, <4>3
      <3>4. Over(m, m)
        BY <1>4, <2>1
      <3>5. \A i \in 1..m : Over(m, i)
        <4> HIDE DEF Over
        <4>1. \A i \in 1..m : i = m \/ i \in 1..(m - 1)
          BY <2>1
        <4> QED
          BY <3>3, <3>4, <4>1
      <3>6. Good(m)
        <4>1. m \in 1..m
          BY <2>1
        <4> HIDE DEF Over
        <4> QED
          BY <3>2, <3>5, <4>1
      <3> QED
        BY <2>1, <3>6
    <2>5. CASE <<m, b>> \notin B
      <3>1. ~(score[m] > score[b] \/ (score[m] = score[b] /\ rank[m] < rank[b]))
        BY <2>1, <2>3, <2>5
      <3>2. f[m] = b
        BY <1>5, <1>7, <2>5
      <3>3. Over(b, m)
        BY <1>4, <2>1, <2>3, <3>1
      <3>4. \A i \in 1..m : Over(b, i)
        <4> HIDE DEF Over, b
        <4>1. \A i \in 1..m : i = m \/ i \in 1..(m - 1)
          BY <2>1
        <4> QED
          BY <2>3, <3>3, <4>1
      <3>5. b \in 1..m
        BY <2>1, <2>3
      <3>6. Good(m)
        <4> HIDE DEF Over, b
        <4> QED
          BY <3>2, <3>4, <3>5
      <3> QED
        BY <2>1, <3>6
    <2> QED
      BY <2>4, <2>5
  <1> QED
    BY <1>6, <1>7

(* Where each is kept or stays the one before, it is one of those so far.   *)
LEMMA KeptIsEarlier ==
    ASSUME NEW n \in Nat, NEW f, n # 0 => f[1] = 1,
           \A i \in 1..n : i # 1 => f[i] = i \/ f[i] = f[i - 1]
    PROVE  \A i \in 1..n : f[i] \in 1..i
  <1> DEFINE Bad == {m \in 1..n : f[m] \notin 1..m}
  <1>1. SUFFICES ASSUME Bad # {} PROVE FALSE
    OBVIOUS
  <1>2. PICK m \in Bad : \A k \in Bad : m <= k
    <2> HIDE DEF Bad
    <2>1. Bad \in SUBSET Nat
      BY DEF Bad
    <2> QED
      BY <1>1, <2>1, SmallestOf
  <1>3. m \in 1..n /\ f[m] \notin 1..m
    BY <1>2
  <1>4. m # 1
    BY <1>3
  <1>5. m - 1 \in 1..n /\ m - 1 \notin Bad
    BY <1>2, <1>3, <1>4
  <1>6. f[m - 1] \in 1..(m - 1)
    BY <1>5
  <1>7. f[m] = m \/ f[m] = f[m - 1]
    BY <1>3, <1>4
  <1> QED
    BY <1>3, <1>6, <1>7

(* The selected ordinal has the highest score, and of equal ones the key    *)
(* that comes first (selected_score_ordinal).                               *)
THEOREM BestIsBest ==
    ASSUME NEW scores \in Seq(Int), scores # <<>>, NEW keysOf,
           \A i \in DOMAIN scores : KeyRank[keysOf[i]] \in Nat
    PROVE  LET b == Best(scores, keysOf)
           IN  /\ b \in DOMAIN scores
               /\ \A i \in DOMAIN scores :
                    \/ scores[i] < scores[b]
                    \/ scores[i] = scores[b] /\ KeyRank[keysOf[b]] <= KeyRank[keysOf[i]]
  <1> DEFINE n == Len(scores)
             rank == [i \in 1..n |-> KeyRank[keysOf[i]]]
             B == {p \in (1..n) \X (1..n) : \/ scores[p[1]] > scores[p[2]]
                                            \/ /\ scores[p[1]] = scores[p[2]]
                                               /\ rank[p[1]] < rank[p[2]]}
             Beats(i, best) == \/ scores[i] > scores[best]
                               \/ /\ scores[i] = scores[best]
                                  /\ KeyRank[keysOf[i]] < KeyRank[keysOf[best]]
             Up(f) == f = [i \in 1..n |->
                             IF i = 1 THEN 1 ELSE IF Beats(i, f[i - 1]) THEN i ELSE f[i - 1]]
             u == CHOOSE f : Up(f)
  <1>1. n \in Nat \ {0} /\ DOMAIN scores = 1..n /\ scores \in [1..n -> Int]
    OBVIOUS
  <1>2. rank \in [1..n -> Int]
    BY <1>1
  <1>3. Best(scores, keysOf) = u[n]
    BY DEF Best
  <1>4. \A i, b \in 1..n : <<i, b>> \in B <=> Beats(i, b)
    OBVIOUS
  <1>5. \A f : KeepsBest(f, n, B) => Up(f)
    <2> SUFFICES ASSUME NEW f, KeepsBest(f, n, B) PROVE Up(f)
      OBVIOUS
    <2> HIDE DEF B, Beats
    <2>1. \A i \in 1..n : f[i] \in 1..i
      <3>1. \A i \in 1..n : i # 1 => f[i] = i \/ f[i] = f[i - 1]
        BY DEF KeepsBest
      <3>2. n # 0 => f[1] = 1
        <4>1. 1 \in 1..n
          BY <1>1
        <4> HIDE DEF n
        <4> QED
          BY <4>1 DEF KeepsBest
      <3> HIDE DEF n
      <3> QED
        BY <1>1, <3>1, <3>2, KeptIsEarlier
    <2>2. ASSUME NEW i \in 1..n
          PROVE  f[i] = IF i = 1 THEN 1 ELSE IF Beats(i, f[i - 1]) THEN i ELSE f[i - 1]
      <3>1. i # 1 => i - 1 \in 1..n
        BY <1>1
      <3>2. i # 1 => f[i - 1] \in 1..n
        <4>1. i # 1 => f[i - 1] \in 1..(i - 1)
          BY <2>1, <3>1
        <4> QED
          BY <4>1
      <3> HIDE DEF n
      <3>3. f[i] = IF i = 1 THEN 1 ELSE IF <<i, f[i - 1]>> \in B THEN i ELSE f[i - 1]
        BY DEF KeepsBest
      <3> QED
        BY <1>4, <3>2, <3>3
    <2>3. f = [i \in 1..n |-> f[i]]
      BY DEF KeepsBest
    <2> HIDE DEF n
    <2> QED
      BY <2>2, <2>3
  <1>6. Up(u)
    <2>1. \E f : KeepsBest(f, n, B)
      <3> HIDE DEF n, B
      <3> QED
        BY <1>1, BestIsKept
    <2> HIDE DEF Up, B
    <2> QED
      BY <1>5, <2>1
  <1>7. KeepsBest(u, n, B)
    <2> HIDE DEF u, B, Beats
    <2>1. \A i \in 1..n : u[i] = IF i = 1 THEN 1 ELSE IF Beats(i, u[i - 1]) THEN i ELSE u[i - 1]
      BY <1>6
    <2>2. u = [i \in 1..n |-> u[i]]
      BY <1>6
    <2> HIDE DEF n
    <2>3. \A i \in 1..n : u[i] \in 1..i
      <3>1. \A i \in 1..n : i # 1 => u[i] = i \/ u[i] = u[i - 1]
        BY <2>1
      <3>2. n # 0 => u[1] = 1
        <4>1. 1 \in 1..n
          BY <1>1
        <4> HIDE DEF n
        <4> QED
          BY <4>1, <2>1
      <3> QED
        BY <1>1, <3>1, <3>2, KeptIsEarlier
    <2>4. ASSUME NEW i \in 1..n
          PROVE  u[i] = IF i = 1 THEN 1 ELSE IF <<i, u[i - 1]>> \in B THEN i ELSE u[i - 1]
      <3>1. i # 1 => i - 1 \in 1..n
        BY <1>1
      <3>2. i # 1 => u[i - 1] \in 1..n
        <4>1. i # 1 => u[i - 1] \in 1..(i - 1)
          BY <2>3, <3>1
        <4> QED
          BY <1>1, <4>1
      <3> QED
        BY <1>4, <2>1, <3>2
    <2> QED
      BY <2>2, <2>4 DEF KeepsBest
  <1>8. /\ u[n] \in 1..n
        /\ \A i \in 1..n : \/ scores[i] < scores[u[n]]
                           \/ scores[i] = scores[u[n]] /\ rank[u[n]] <= rank[i]
    <2> HIDE DEF n, u, rank
    <2> QED
      BY <1>1, <1>2, <1>7, KeptIsBest
  <1>9. \A i \in 1..n : rank[i] = KeyRank[keysOf[i]]
    OBVIOUS
  <1> HIDE DEF n, u, rank
  <1> QED
    BY <1>1, <1>3, <1>8, <1>9

----------------------------------------------------------------------------
(* The inductive invariant *)

(* A job's episode, as the recorder is to have it. *)
ManifestOf(j, rejections) ==
    [environment |-> "certified", episode |-> SpecOf(j), provenance |-> Provenance(j),
     rejections |-> rejections]

Offered == stage \in {"offered", "refused"}
Open == stage \in {"deciding", "proposed", "closed"}

ContextInv == ~Offered => ValidContext(context)

(* Between jobs there is none, and one is under way only if one is left.    *)
JobsInv ==
    /\ results \in Seq(Range(results)) /\ faults \in Seq(Range(faults))
    /\ Offered => results = <<>>
    /\ ~Offered => Len(results) <= Len(context.jobs)
    /\ IF Open THEN Len(results) < Len(context.jobs)
       ELSE keys = <<>> /\ records = <<>> /\ prior = NoFailure /\ pending = None
    /\ stage # "closed" => prior = NoFailure /\ Len(faults) = Len(results)
    /\ Len(faults) \in {Len(results), Len(results) + 1}

PlayingInv ==
    stage \in {"deciding", "proposed"} =>
        /\ manifest = ManifestOf(Now, 0)
        /\ ValidProvenance(Provenance(Now), SpecOf(Now))
        /\ PlayedSoFar(SpecOf(Now), Provenance(Now), records, Control, keys)
        /\ Answer(SpecOf(Now), Control, keys).kind = "frame"
        /\ current = Frame(SpecOf(Now), keys)

(* What went wrong in the job under way. *)
Fault == IF Len(faults) = Len(results) THEN "none" ELSE faults[Len(results) + 1]

(* What a job that was played comes to: the ways it may have ended.         *)
EndedWell(e, j, end, failure, fault) ==
    /\ fault = "none" /\ failure = NoFailure
    /\ e.manifest = ManifestOf(j, 0) /\ ValidProvenance(Provenance(j), SpecOf(j))
    /\ \E rs, ks : EndedBy(e, ManifestOf(j, 0), rs, Control, ks)
    /\ end = Ending(e, Control)
EndedByEngine(e, failure, fault) ==
    /\ fault = "engine" /\ failure = NoFailure
    /\ e.closure.kind = "failed"
EndedByPolicy(e, failure, fault) ==
    /\ fault \in {"public_frame", "model_input", "inference", "selection"}
    /\ failure.stage = fault /\ failure.code \in Codes /\ failure # NoFailure
    /\ e.closure.kind = "interrupted"
EndedByOpponent(m, failure, fault) ==
    /\ fault = "opponent"
    /\ \/ failure = Environment("OPPONENT_POLICY_FAILURE") /\ m.rejections = 0
       \/ failure = Environment("STEP_REJECTED") /\ m.rejections = 1
EndedByCommit(m, failure, fault) ==
    fault = "commit" /\ failure = Environment("POLICY_COMMIT_FAILURE") /\ m.rejections = 0

ClosedInv ==
    stage = "closed" =>
        \/ /\ closure # None /\ WellFormed(Envelope)
           /\ \/ EndedWell(Envelope, Now, ending, prior, Fault)
              \/ EndedByEngine(Envelope, prior, Fault)
              \/ EndedByPolicy(Envelope, prior, Fault)
        \/ EndedByOpponent(manifest, prior, Fault)
        \/ EndedByCommit(manifest, prior, Fault)

(* A result deserves the blame it has, is valid, and is of its job.         *)
EarnedFor(checkpoint, r, made) ==
    LET j == r.job
        played == [k \in DOMAIN made |-> made[k].key]
    IN  /\ Reached(SpecOf(j), played) /\ Turn(SpecOf(j), played).over
        /\ r.outcome = Turn(SpecOf(j), played).winner
        /\ r.status = (CASE r.outcome = 2 -> "draw"
                         [] r.outcome = j.seat -> "win"
                         [] OTHER -> "loss")
        /\ \A k \in DOMAIN made :
             LET by == made[k].assignment.artifact
             IN  IF made[k].frame.player = j.seat
                 THEN by.kind = "neural" /\ by.checkpoint = checkpoint
                 ELSE by = Teacher(made[k].assignment.deck)

Deserved(r, fault) ==
    CASE fault = "none" -> r.status \in Trusted \cup {"interrupted"} /\ r.stage = None
      [] fault \in {"public_frame", "model_input", "inference", "selection"} ->
            /\ r.status = "failed" /\ r.stage = fault
            /\ r.record # {} /\ r.summary.replay = "not_run"
      [] fault = "opponent" ->
            /\ r.stage = "environment"
            /\ r.status = (IF r.code = "STEP_REJECTED" THEN "quarantined" ELSE "failed")
      [] fault = "engine" -> r.status = "failed" /\ r.stage = "replay"
      [] OTHER -> r.status = "failed" /\ r.stage = "environment"

ResultHolds(r, j, fault, checkpoint) ==
    /\ r.job = j /\ r.started = TRUE
    /\ r.status \in Trusted \cup {"interrupted", "failed", "quarantined"}
    /\ ValidResult(r) /\ ValidReplaySummary(r.summary) /\ Deserved(r, fault)
    /\ r.summary.replay = "failed" <=> fault = "engine"
    /\ r.summary.admission # "failed"
    /\ r.stage = "inference" <=> fault = "inference"
    /\ r.status \in Trusted =>
          fault = "none" /\ \E record \in r.record : EarnedFor(checkpoint, r, record.records)

ResultsInv ==
    \A i \in DOMAIN results :
        ResultHolds(results[i], context.jobs[i], faults[i], context.checkpoint)

SummaryInv ==
    summary # None =>
        /\ stage \in {"created", "done"}
        /\ summary.inference = Cardinality({i \in DOMAIN faults : faults[i] = "inference"})
        /\ summary.replay = Cardinality({i \in DOMAIN faults : faults[i] = "engine"})
        /\ summary.admission = 0

EvaluationInv ==
    /\ version = 1 /\ ContextInv /\ JobsInv /\ PlayingInv /\ ClosedInv /\ ResultsInv
    /\ SummaryInv /\ AnswersAreCurrent

----------------------------------------------------------------------------
(* The schedule *)

JobFits(j) ==
    /\ j.seat \in {0, 1} /\ j.mirror \in BOOLEAN /\ j.starting \in {0, 1}
    /\ j.opponent = Teacher(Decks[IF j.mirror THEN j.seat ELSE 1 - j.seat])
    /\ SpecOf(j) \in Specs

(* The jobs of a schedule are a sequence, one for each seed, placement and  *)
(* starting player, each of the checkpoint.                                 *)
LEMMA ScheduleFits ==
    ASSUME NEW profile, NEW checkpoint
    PROVE  LET jobs == Schedule(profile, checkpoint)
               n == IF profile = Implementation THEN 8 ELSE 16
           IN  /\ jobs = [i \in 1..n |-> jobs[i]]
               /\ \A i \in 1..n : JobFits(jobs[i]) /\ jobs[i].checkpoint = checkpoint
  <1> DEFINE jobs == Schedule(profile, checkpoint)
  <1>1. ASSUME NEW seed \in {1, 2}, NEW mirror \in BOOLEAN, NEW seat \in {0, 1},
               NEW starting \in {0, 1},
               NEW j, j = Job(profile, checkpoint, seed, mirror, seat, starting)
        PROVE  JobFits(j) /\ j.checkpoint = checkpoint
    <2>1. /\ j.seed = seed /\ j.mirror = mirror /\ j.seat = seat /\ j.starting = starting
          /\ j.opponent = Teacher(Decks[IF mirror THEN seat ELSE 1 - seat])
          /\ j.checkpoint = checkpoint
      BY <1>1 DEF Job
    <2>2. SpecOf(j) = [seed |-> seed, mirror |-> mirror, starting |-> starting]
      BY <2>1 DEF SpecOf
    <2>3. SpecOf(j) \in Specs
      BY <2>2, DuelsAssumption
    <2> QED
      BY <2>1, <2>3 DEF JobFits
  <1>2. CASE profile = Implementation
    <2>1. jobs = [i \in 1..8 |->
                    Job(profile, checkpoint, 1 + (i - 1) \div 4, ((i - 1) \div 2) % 2 = 1, 0,
                        (i - 1) % 2)]
      BY <1>2 DEF Schedule
    <2>2. \A i \in 1..8 : 1 + (i - 1) \div 4 \in {1, 2} /\ (i - 1) % 2 \in {0, 1}
      OBVIOUS
    <2>3. ASSUME NEW i \in 1..8
          PROVE  JobFits(jobs[i]) /\ jobs[i].checkpoint = checkpoint
      <3>1. jobs[i] = Job(profile, checkpoint, 1 + (i - 1) \div 4, ((i - 1) \div 2) % 2 = 1, 0,
                          (i - 1) % 2)
        BY <2>1
      <3>2. (((i - 1) \div 2) % 2 = 1) \in BOOLEAN /\ 0 \in {0, 1}
        OBVIOUS
      <3> HIDE DEF jobs
      <3> QED
        BY <1>1, <2>2, <3>1, <3>2
    <2>4. jobs = [i \in 1..8 |-> jobs[i]]
      BY <2>1
    <2> HIDE DEF jobs
    <2> QED
      BY <1>2, <2>3, <2>4 DEF jobs
  <1>3. CASE profile # Implementation
    <2>1. jobs = [i \in 1..16 |->
                    Job(profile, checkpoint, 1 + (i - 1) \div 8, ((i - 1) \div 4) % 2 = 1,
                        ((i - 1) \div 2) % 2, (i - 1) % 2)]
      BY <1>3 DEF Schedule
    <2>2. \A i \in 1..16 : /\ 1 + (i - 1) \div 8 \in {1, 2} /\ (i - 1) % 2 \in {0, 1}
                           /\ ((i - 1) \div 2) % 2 \in {0, 1}
      OBVIOUS
    <2>3. ASSUME NEW i \in 1..16
          PROVE  JobFits(jobs[i]) /\ jobs[i].checkpoint = checkpoint
      <3> DEFINE mirror == ((i - 1) \div 4) % 2 = 1
                 seed == 1 + (i - 1) \div 8
                 seat == ((i - 1) \div 2) % 2
                 starting == (i - 1) % 2
      <3>1. jobs[i] = Job(profile, checkpoint, seed, mirror, seat, starting)
        BY <2>1
      <3>2. mirror \in BOOLEAN /\ seed \in {1, 2} /\ seat \in {0, 1} /\ starting \in {0, 1}
        BY <2>2
      <3> HIDE DEF jobs, mirror, seed, seat, starting
      <3> QED
        BY <1>1, <3>1, <3>2
    <2>4. jobs = [i \in 1..16 |-> jobs[i]]
      BY <2>1
    <2> HIDE DEF jobs
    <2> QED
      BY <1>3, <2>3, <2>4 DEF jobs
  <1> QED
    BY <1>2, <1>3

(* The jobs of a valid context.                                             *)
LEMMA ContextFits ==
    ASSUME NEW c, ValidContext(c)
    PROVE  /\ c.jobs \in Seq(Range(c.jobs)) /\ DOMAIN c.jobs = 1..Len(c.jobs)
           /\ Len(c.jobs) = IF c.profile = Implementation THEN 8 ELSE 16
           /\ \A i \in DOMAIN c.jobs : JobFits(c.jobs[i]) /\ c.jobs[i].checkpoint = c.checkpoint
  <1> DEFINE n == IF c.profile = Implementation THEN 8 ELSE 16
  <1>1. /\ c.jobs = [i \in 1..n |-> c.jobs[i]]
        /\ \A i \in 1..n : JobFits(c.jobs[i]) /\ c.jobs[i].checkpoint = c.checkpoint
    BY ScheduleFits DEF ValidContext
  <1>2. n \in Nat
    OBVIOUS
  <1>3. c.jobs \in Seq(Range(c.jobs)) /\ Len(c.jobs) = n /\ DOMAIN c.jobs = 1..n
    <2> HIDE DEF n
    <2> QED
      BY <1>1, <1>2, FunctionIsSeq
  <1> QED
    BY <1>1, <1>3

(* Different places in the schedule are different quadruples, and every     *)
(* quadruple has its place.                                                 *)
Quadruple(j) == <<j.seed, j.mirror, j.seat, j.starting>>

(* The quadruples of a schedule, each once.                                 *)
LEMMA ScheduleCovers ==
    ASSUME NEW c, ValidContext(c)
    PROVE  /\ \A i, k \in DOMAIN c.jobs : i # k => c.jobs[i] # c.jobs[k]
           /\ {Quadruple(c.jobs[i]) : i \in DOMAIN c.jobs}
                 = {1, 2} \X BOOLEAN \X (IF c.profile = Meaningful THEN {0, 1} ELSE {0}) \X {0, 1}
  <1>1. CASE c.profile = Implementation
    <2>1. DOMAIN c.jobs = 1..8
      BY <1>1, ContextFits
    <2>2. ASSUME NEW i \in 1..8
          PROVE  Quadruple(c.jobs[i])
                    = <<1 + (i - 1) \div 4, ((i - 1) \div 2) % 2 = 1, 0, (i - 1) % 2>>
      <3>1. c.jobs[i] = Job(c.profile, c.checkpoint, 1 + (i - 1) \div 4,
                            ((i - 1) \div 2) % 2 = 1, 0, (i - 1) % 2)
        BY <1>1 DEF ValidContext, Schedule
      <3> QED
        BY <3>1 DEF Job, Quadruple
    <2>3. ASSUME NEW i \in 1..8, NEW k \in 1..8, c.jobs[i] = c.jobs[k] PROVE i = k
      <3>1. /\ 1 + (i - 1) \div 4 = 1 + (k - 1) \div 4
            /\ (((i - 1) \div 2) % 2 = 1) <=> (((k - 1) \div 2) % 2 = 1)
            /\ (i - 1) % 2 = (k - 1) % 2
        BY <2>2, <2>3
      <3> QED
        BY <3>1
    <2>4. ASSUME NEW i \in 1..8
          PROVE  Quadruple(c.jobs[i]) \in {1, 2} \X BOOLEAN \X {0} \X {0, 1}
      <3> DEFINE seed == 1 + (i - 1) \div 4
                 mirror == ((i - 1) \div 2) % 2 = 1
                 starting == (i - 1) % 2
      <3>1. seed \in {1, 2} /\ mirror \in BOOLEAN /\ starting \in {0, 1}
        OBVIOUS
      <3>2. Quadruple(c.jobs[i]) = <<seed, mirror, 0, starting>>
        BY <2>2
      <3> HIDE DEF seed, mirror, starting
      <3> QED
        BY <3>1, <3>2
    <2>5. ASSUME NEW seed \in {1, 2}, NEW mirror \in BOOLEAN, NEW starting \in {0, 1}
          PROVE  \E i \in 1..8 : Quadruple(c.jobs[i]) = <<seed, mirror, 0, starting>>
      <3> DEFINE m == IF mirror THEN 1 ELSE 0
                 i == 1 + 4 * (seed - 1) + 2 * m + starting
      <3>1. /\ i \in 1..8 /\ 1 + (i - 1) \div 4 = seed /\ ((i - 1) \div 2) % 2 = m
            /\ (i - 1) % 2 = starting
        OBVIOUS
      <3>2. (m = 1) = mirror
        OBVIOUS
      <3> HIDE DEF i, m
      <3> QED
        BY <2>2, <3>1, <3>2
    <2>6. Meaningful # Implementation
      BY DEF Meaningful, Implementation
    <2>7. {Quadruple(c.jobs[i]) : i \in 1..8} = {1, 2} \X BOOLEAN \X {0} \X {0, 1}
      <3>1. ASSUME NEW t \in {1, 2} \X BOOLEAN \X {0} \X {0, 1}
            PROVE  \E i \in 1..8 : Quadruple(c.jobs[i]) = t
        <4>1. PICK seed \in {1, 2}, mirror \in BOOLEAN, starting \in {0, 1} :
                t = <<seed, mirror, 0, starting>>
          OBVIOUS
        <4> QED
          BY ONLY <2>5, <4>1
      <3> QED
        BY ONLY <2>4, <3>1
    <2> QED
      BY ONLY <1>1, <2>1, <2>3, <2>6, <2>7
  <1>2. CASE c.profile # Implementation
    <2>1. DOMAIN c.jobs = 1..16 /\ c.profile = Meaningful
      BY <1>2, ContextFits DEF ValidContext
    <2>2. ASSUME NEW i \in 1..16
          PROVE  Quadruple(c.jobs[i])
                    = <<1 + (i - 1) \div 8, ((i - 1) \div 4) % 2 = 1, ((i - 1) \div 2) % 2,
                        (i - 1) % 2>>
      <3>1. c.jobs[i] = Job(c.profile, c.checkpoint, 1 + (i - 1) \div 8,
                            ((i - 1) \div 4) % 2 = 1, ((i - 1) \div 2) % 2, (i - 1) % 2)
        BY <1>2 DEF ValidContext, Schedule
      <3> QED
        BY <3>1 DEF Job, Quadruple
    <2>3. ASSUME NEW i \in 1..16, NEW k \in 1..16, c.jobs[i] = c.jobs[k] PROVE i = k
      <3>1. /\ 1 + (i - 1) \div 8 = 1 + (k - 1) \div 8
            /\ (((i - 1) \div 4) % 2 = 1) <=> (((k - 1) \div 4) % 2 = 1)
            /\ ((i - 1) \div 2) % 2 = ((k - 1) \div 2) % 2
            /\ (i - 1) % 2 = (k - 1) % 2
        BY <2>2, <2>3
      <3> QED
        BY <3>1
    <2>4. ASSUME NEW i \in 1..16
          PROVE  Quadruple(c.jobs[i]) \in {1, 2} \X BOOLEAN \X {0, 1} \X {0, 1}
      <3> DEFINE seed == 1 + (i - 1) \div 8
                 mirror == ((i - 1) \div 4) % 2 = 1
                 seat == ((i - 1) \div 2) % 2
                 starting == (i - 1) % 2
      <3>1. seed \in {1, 2} /\ mirror \in BOOLEAN /\ seat \in {0, 1} /\ starting \in {0, 1}
        OBVIOUS
      <3>2. Quadruple(c.jobs[i]) = <<seed, mirror, seat, starting>>
        BY <2>2
      <3> HIDE DEF seed, mirror, seat, starting
      <3> QED
        BY <3>1, <3>2
    <2>5. ASSUME NEW seed \in {1, 2}, NEW mirror \in BOOLEAN, NEW seat \in {0, 1},
                 NEW starting \in {0, 1}
          PROVE  \E i \in 1..16 : Quadruple(c.jobs[i]) = <<seed, mirror, seat, starting>>
      <3> DEFINE m == IF mirror THEN 1 ELSE 0
                 i == 1 + 8 * (seed - 1) + 4 * m + 2 * seat + starting
      <3>1. /\ i \in 1..16 /\ 1 + (i - 1) \div 8 = seed /\ ((i - 1) \div 4) % 2 = m
            /\ ((i - 1) \div 2) % 2 = seat /\ (i - 1) % 2 = starting
        OBVIOUS
      <3>2. (m = 1) = mirror
        OBVIOUS
      <3> HIDE DEF i, m
      <3> QED
        BY <2>2, <3>1, <3>2
    <2>6. {Quadruple(c.jobs[i]) : i \in DOMAIN c.jobs} = {1, 2} \X BOOLEAN \X {0, 1} \X {0, 1}
      <3> DEFINE all == {Quadruple(c.jobs[i]) : i \in DOMAIN c.jobs}
                 product == {1, 2} \X BOOLEAN \X {0, 1} \X {0, 1}
      <3>1. all \subseteq product
        <4> HIDE DEF product
        <4> QED
          BY <2>1, <2>4 DEF product
      <3>2. product \subseteq all
        <4> SUFFICES ASSUME NEW q \in product PROVE q \in all
          OBVIOUS
        <4>1. PICK seed \in {1, 2}, mirror \in BOOLEAN, seat \in {0, 1}, starting \in {0, 1} :
                q = <<seed, mirror, seat, starting>>
          OBVIOUS
        <4>2. \E i \in 1..16 : Quadruple(c.jobs[i]) = q
          BY ONLY <2>5, <4>1
        <4> QED
          BY <2>1, <4>2
      <3> QED
        BY <3>1, <3>2
    <2> QED
      BY <2>1, <2>3, <2>6
  <1> QED
    BY <1>1, <1>2

----------------------------------------------------------------------------
(* What is played is well formed *)

(* A record of play, whatever comes after it.                               *)
RecordFits(r, s, i) ==
    /\ r.frame.episode = s /\ r.frame.index = i - 1
    /\ r.key \in Range(r.frame.request.keys)
    /\ r.class = Class(r.key, r.frame.request)
    /\ r.assignment = r.rng.assignment /\ r.rng.index = i - 1

(* A record as the recorder writes it at an open frame.                     *)
LEMMA WrittenFits ==
    ASSUME NEW s, NEW ks, Len(ks) \in Nat, NEW key \in Range(Frame(s, ks).request.keys),
           NEW a, NEW next, NEW p,
           NEW r, r = NewRecord(Frame(s, ks), key, a, next), ChoiceHolds(p, r)
    PROVE  RecordFits(r, s, Len(ks) + 1) /\ r.frame = Frame(s, ks)
  <1>1. /\ r.frame = Frame(s, ks) /\ r.key = key /\ r.class = Class(key, Frame(s, ks).request)
        /\ r.assignment = a.assignment /\ r.rng = a
    BY DEF NewRecord
  <1>2. Frame(s, ks).episode = s /\ Frame(s, ks).index = Len(ks)
    BY DEF Frame
  <1>3. a.index = Frame(s, ks).index
    BY <1>1 DEF ChoiceHolds, AttributionFits
  <1>4. Len(ks) + 1 - 1 = Len(ks)
    OBVIOUS
  <1> QED
    BY <1>1, <1>2, <1>3, <1>4 DEF RecordFits

(* The records so far are in order, each leading to the next.               *)
LEMMA SoFarFits ==
    ASSUME NEW s \in Specs, NEW p, NEW rs, NEW c, NEW ks, PlayedSoFar(s, p, rs, c, ks),
           NEW i \in DOMAIN rs
    PROVE  /\ RecordFits(rs[i], s, i)
           /\ i < Len(rs) =>
                rs[i].successor = "frame" /\ rs[i].target = Target("record", rs[i + 1].frame)
           /\ i = Len(rs) =>
                LET next == Answer(s, c, ks)
                IN  /\ rs[i].successor = next.kind
                    /\ rs[i].target = IF next.kind = "frame" THEN Target("record", next.frame)
                                      ELSE None
  <1> DEFINE e == Sofar(s, rs)
             next == Answer(s, c, Keys(e, i))
  <1>1. /\ rs \in Seq(Range(rs)) /\ DOMAIN rs = 1..Len(rs) /\ Len(rs) \in Nat
        /\ ks = Keys(e, Len(rs))
    BY SoFarRecords DEF PlayedSoFar
  <1>2. e.records = rs /\ e.manifest.episode = s
    BY DEF Sofar
  <1>3. \A k \in DOMAIN rs : /\ WasOffered(e, c, k) /\ rs[k] = Written(e, c)[k]
                             /\ ChoiceHolds(p, rs[k])
    BY DEF PlayedSoFar
  <1>4. \A k \in DOMAIN rs :
            rs[k] = NewRecord(Frame(s, Keys(e, k - 1)), rs[k].key, rs[k].rng,
                              Answer(s, c, Keys(e, k)))
    <2> HIDE DEF e
    <2> QED
      BY <1>2, <1>3 DEF Written
  <1>5. \A k \in DOMAIN rs : /\ Answer(s, c, Keys(e, k - 1)).kind = "frame"
                             /\ rs[k].key \in Range(Frame(s, Keys(e, k - 1)).request.keys)
    <2> SUFFICES ASSUME NEW k \in DOMAIN rs
                 PROVE  /\ Answer(s, c, Keys(e, k - 1)).kind = "frame"
                        /\ rs[k].key \in Range(Frame(s, Keys(e, k - 1)).request.keys)
      OBVIOUS
    <2> HIDE DEF e
    <2>1. /\ Answer(s, c, Keys(e, k - 1)).kind = "frame"
          /\ rs[k].key \in Range(Answer(s, c, Keys(e, k - 1)).frame.request.keys)
      BY <1>2, <1>3 DEF WasOffered
    <2>2. Answer(s, c, Keys(e, k - 1)) = [kind |-> "frame", frame |-> Frame(s, Keys(e, k - 1))]
      BY <2>1, AnswerKinds
    <2> QED
      BY <2>1, <2>2
  <1>6. Len(Keys(e, i - 1)) = i - 1
    <2> i - 1 \in 0..Len(e.records)
      BY <1>1, <1>2
    <2> HIDE DEF e
    <2> QED
      BY <1>1, <1>2, KeysArePlayed
  <1>7. RecordFits(rs[i], s, i) /\ \A k \in DOMAIN rs : rs[k].frame = Frame(s, Keys(e, k - 1))
    <2>1. \A k \in DOMAIN rs : rs[k].frame = Frame(s, Keys(e, k - 1))
      <3> HIDE DEF e
      <3> QED
        BY <1>4 DEF NewRecord
    <2>2. RecordFits(rs[i], s, Len(Keys(e, i - 1)) + 1)
      <3>1. Len(Keys(e, i - 1)) \in Nat
        BY <1>1, <1>6
      <3> HIDE DEF e
      <3> QED
        BY <1>3, <1>4, <1>5, <3>1, WrittenFits
    <2>3. i - 1 + 1 = i
      BY <1>1
    <2> QED
      BY <1>6, <2>1, <2>2, <2>3
  <1>8. /\ rs[i].successor = next.kind
        /\ rs[i].target = IF next.kind = "frame" THEN Target("record", next.frame) ELSE None
    <2> HIDE DEF e
    <2> QED
      BY <1>4 DEF NewRecord
  <1>9. ASSUME i < Len(rs)
        PROVE  rs[i].successor = "frame" /\ rs[i].target = Target("record", rs[i + 1].frame)
    <2>1. PICK k \in DOMAIN rs : k = i + 1 /\ k - 1 = i
      BY <1>1, <1>9
    <2> HIDE DEF e
    <2>2. next.kind = "frame"
      BY <1>5, <2>1
    <2>3. next = [kind |-> "frame", frame |-> Frame(s, Keys(e, i))]
      BY <2>2, AnswerKinds
    <2>4. rs[k].frame = Frame(s, Keys(e, i))
      BY <1>7, <2>1
    <2> QED
      BY <1>8, <2>1, <2>2, <2>3, <2>4
  <1> HIDE DEF e
  <1> QED
    BY <1>1, <1>7, <1>8, <1>9

(* Well formed is a sequence of records that fit and lead to one another,   *)
(* and a closure that counts them.                                          *)
LEMMA FitIsWellFormed ==
    ASSUME NEW e, \A i \in DOMAIN e.records : RecordFits(e.records[i], e.manifest.episode, i)
                                               /\ LeadsTo(e, i),
           e.closure.count = Len(e.records),
           e.closure.kind = "terminal" =>
              e.closure.last = IF e.records = <<>> THEN None ELSE Len(e.records) - 1,
           e.closure.pending # None =>
              /\ e.closure.pending.episode = e.manifest.episode
              /\ e.closure.pending.index = Len(e.records)
    PROVE  WellFormed(e)
  <1>1. \A i \in DOMAIN e.records :
            LET r == e.records[i]
            IN  /\ r.frame.episode = e.manifest.episode /\ r.frame.index = i - 1
                /\ r.key \in Range(r.frame.request.keys)
                /\ r.class = Class(r.key, r.frame.request)
                /\ r.assignment = r.rng.assignment /\ r.rng.index = i - 1
                /\ LeadsTo(e, i)
    BY DEF RecordFits
  <1> QED
    BY <1>1 DEF WellFormed

(* The frame before the last choice, if there was one.                      *)
LEMMA LastIndex ==
    ASSUME NEW s \in Specs, NEW p, NEW rs, NEW c, NEW ks, PlayedSoFar(s, p, rs, c, ks)
    PROVE  IndexOf(LastFrame(s, ks)) = IF rs = <<>> THEN None ELSE Len(rs) - 1
  <1> DEFINE e == Sofar(s, rs)
             n == Len(rs)
  <1>1. /\ rs \in Seq(Range(rs)) /\ DOMAIN rs = 1..n /\ n \in Nat
        /\ ks = Keys(e, n) /\ Len(ks) = n /\ ks \in Seq(Range(ks))
    <2>1. ks = Keys(e, n)
      BY DEF PlayedSoFar
    <2> HIDE DEF e
    <2> QED
      BY <2>1, SoFarRecords
  <1>2. e.records = rs /\ e.manifest.episode = s
    BY DEF Sofar
  <1>3. CASE rs = <<>>
    <2>1. ks = <<>>
      BY <1>1, <1>3
    <2> QED
      BY <1>3, <2>1 DEF LastFrame, IndexOf
  <1>4. CASE rs # <<>>
    <2>1. n \in 1..n /\ n - 1 \in 0..n /\ ks # <<>>
      BY <1>1, <1>4
    <2>2. Front(ks) = Keys(e, n - 1)
      <3>1. Front(ks) = SubSeq(ks, 1, n - 1)
        BY <1>1, <2>1 DEF Front
      <3>2. ks = [k \in 1..n |-> rs[k].key] /\ Keys(e, n - 1) = [k \in 1..(n - 1) |-> rs[k].key]
        <4> HIDE DEF e
        <4> QED
          BY <1>1, <1>2 DEF Keys
      <3>3. SubSeq(ks, 1, n - 1) = [k \in 1..(n - 1) |-> ks[k]]
        BY <1>1, <2>1
      <3>4. \A k \in 1..(n - 1) : ks[k] = rs[k].key
        <4>1. \A k \in 1..(n - 1) : k \in 1..n
          BY <1>1
        <4> HIDE DEF n
        <4> QED
          BY <3>2, <4>1
      <3> QED
        BY <3>1, <3>2, <3>3, <3>4
    <2>3. Len(Front(ks)) = n - 1
      BY <1>1, <2>1 DEF Front
    <2>4. Frame(s, Front(ks)) # None
      <3>1. WasOffered(e, c, n) /\ Reached(s, Keys(e, n - 1))
        <4>1. \A i \in 0..Len(rs) : Reached(s, Keys(e, i))
          BY DEF PlayedSoFar
        <4>2. \A i \in DOMAIN rs : WasOffered(e, c, i)
          BY DEF PlayedSoFar
        <4> HIDE DEF e
        <4> QED
          BY <1>1, <2>1, <4>1, <4>2
      <3>2. Answer(s, c, Front(ks)).kind = "frame"
        <4> HIDE DEF e
        <4> QED
          BY <1>2, <2>2, <3>1 DEF WasOffered
      <3>3. ~Turn(s, Front(ks)).over
        BY <3>2 DEF Answer, Interruption
      <3> HIDE DEF e
      <3> QED
        BY <2>2, <3>1, <3>3, FrameAssumption DEF Reached
    <2>5. Frame(s, Front(ks)).index = n - 1
      BY <2>3 DEF Frame
    <2> QED
      BY <1>4, <2>1, <2>4, <2>5 DEF LastFrame, IndexOf
  <1> QED
    BY <1>3, <1>4

(* What was played to an end of its own is well formed.                     *)
LEMMA EndedIsWellFormed ==
    ASSUME NEW e, NEW m, m.episode \in Specs, NEW rs, NEW c, NEW ks, EndedBy(e, m, rs, c, ks)
    PROVE  WellFormed(e)
  <1> DEFINE s == m.episode
             end == Answer(s, c, ks)
  <1>1. /\ PlayedSoFar(s, m.provenance, rs, c, ks) /\ end.kind # "frame"
        /\ e.manifest = m /\ e.records = rs /\ e.closure = ClosureOf(end)
    BY DEF EndedBy
  <1>2. DOMAIN rs = 1..Len(rs) /\ Len(rs) \in Nat /\ Len(ks) = Len(rs)
    BY <1>1, SoFarRecords
  <1>3. end.kind \in {"terminal", "interrupted"}
    BY <1>1, AnswerKinds
  <1>4. end.count = Len(ks)
    BY <1>1, AnswerCounts
  <1>5. /\ e.closure.kind = end.kind /\ e.closure.pending = None /\ e.closure.count = end.count
        /\ end.kind = "terminal" => e.closure.last = end.last
    <2> HIDE DEF end
    <2> QED
      BY <1>1, <1>3 DEF ClosureOf, TerminalClosure, InterruptedClosure, FailedClosure
  <1>6. end.kind = "terminal" => end.last = IndexOf(LastFrame(s, ks))
    BY DEF Answer, Interruption
  <1>7. ASSUME NEW i \in DOMAIN e.records
        PROVE  RecordFits(e.records[i], e.manifest.episode, i) /\ LeadsTo(e, i)
    <2>1. i \in DOMAIN rs /\ e.records[i] = rs[i]
      BY <1>1
    <2>2. /\ RecordFits(rs[i], s, i)
          /\ i < Len(rs) =>
                rs[i].successor = "frame" /\ rs[i].target = Target("record", rs[i + 1].frame)
          /\ i = Len(rs) =>
                rs[i].successor = end.kind /\ (end.kind # "frame" => rs[i].target = None)
      <3> HIDE DEF end
      <3> QED
        BY <1>1, <2>1, SoFarFits DEF end
    <2>3. i < Len(rs) \/ i = Len(rs)
      BY <1>2, <2>1
    <2> HIDE DEF end
    <2> QED
      BY <1>1, <1>2, <1>5, <2>1, <2>2, <2>3 DEF LeadsTo
  <1>8. e.closure.kind = "terminal" =>
            e.closure.last = IF e.records = <<>> THEN None ELSE Len(e.records) - 1
    <2> HIDE DEF end
    <2> QED
      BY <1>1, <1>5, <1>6, LastIndex
  <1> HIDE DEF end
  <1> QED
    BY <1>1, <1>2, <1>4, <1>5, <1>7, <1>8, FitIsWellFormed

(* What a record becomes that leads to a pending frame.                     *)
LEMMA LedToIs ==
    ASSUME NEW r, IsRecord(r), NEW frame
    PROVE  LedTo(r, frame) =
              [frame |-> r.frame, key |-> r.key, class |-> r.class, assignment |-> r.assignment,
               rng |-> r.rng, successor |-> "frame", target |-> Target("pending", frame)]
  <1> DEFINE target == Target("pending", frame)
             f == r.frame
             k == r.key
             c == r.class
             a == r.assignment
             g == r.rng
             x == r.successor
             t == r.target
  <1>1. r = [frame |-> f, key |-> k, class |-> c, assignment |-> a, rng |-> g, successor |-> x,
             target |-> t]
    BY DEF IsRecord
  <1> HIDE DEF target, f, k, c, a, g, x, t
  <1>2. LedTo(r, frame) \in
            [frame : {f}, key : {k}, class : {c}, assignment : {a}, rng : {g},
             successor : {"frame"}, target : {target}]
    BY <1>1 DEF LedTo, target
  <1>3. LedTo(r, frame)
            = [frame |-> f, key |-> k, class |-> c, assignment |-> a, rng |-> g,
               successor |-> "frame", target |-> target]
    BY <1>2
  <1> QED
    BY <1>3 DEF target, f, k, c, a, g, x, t

(* And so is what was cut off at a frame.                                   *)
LEMMA CutOffIsWellFormed ==
    ASSUME NEW e, NEW m, NEW rs, NEW c, NEW ks, CutOffAt(e, m, rs, c, ks)
    PROVE  WellFormed(e)
  <1> DEFINE s == m.episode
             frame == Frame(s, ks)
  <1>1. /\ PlayedSoFar(s, m.provenance, rs, c, ks) /\ s \in Specs
        /\ Answer(s, c, ks).kind = "frame"
        /\ e.manifest = m /\ e.records = LedToPending(rs, frame)
        /\ e.closure = PendingClosure(frame)
    BY DEF CutOffAt
  <1>2. /\ rs \in Seq(Range(rs)) /\ DOMAIN rs = 1..Len(rs) /\ Len(rs) \in Nat
        /\ Len(ks) = Len(rs) /\ Reached(s, ks) /\ \A i \in DOMAIN rs : IsRecord(rs[i])
    BY <1>1, SoFarRecords
  <1>3. frame.episode = s /\ frame.index = Len(rs) /\ frame # None
    <2>1. ~Turn(s, ks).over
      BY <1>1 DEF Answer, Interruption
    <2> QED
      BY <1>1, <1>2, <2>1, FrameAssumption DEF Frame, Reached
  <1> HIDE DEF frame
  <1>4. /\ e.closure.kind = "interrupted" /\ e.closure.pending = frame
        /\ e.closure.count = Len(rs)
    BY <1>1, <1>3 DEF PendingClosure, InterruptedClosure
  <1>5. e.records = [i \in DOMAIN rs |-> IF i = Len(rs) THEN LedTo(rs[i], frame) ELSE rs[i]]
    BY <1>1, <1>2, LedToPendingIs
  <1>6. DOMAIN e.records = DOMAIN rs /\ Len(e.records) = Len(rs)
    <2>1. e.records = [i \in 1..Len(rs) |-> e.records[i]]
      BY <1>2, <1>5
    <2> QED
      BY <1>2, <1>5, <2>1, FunctionIsSeq
  <1>7. ASSUME NEW i \in DOMAIN e.records
        PROVE  RecordFits(e.records[i], e.manifest.episode, i) /\ LeadsTo(e, i)
    <2>1. i \in DOMAIN rs /\ IsRecord(rs[i])
      BY <1>2, <1>6
    <2>2. /\ RecordFits(rs[i], s, i)
          /\ i < Len(rs) =>
                rs[i].successor = "frame" /\ rs[i].target = Target("record", rs[i + 1].frame)
      BY <1>1, <2>1, SoFarFits
    <2>3. CASE i < Len(rs)
      <3>1. PICK k \in DOMAIN rs : k = i + 1
        BY <1>2, <2>1, <2>3
      <3>2. e.records[i] = rs[i]
        BY <1>2, <1>5, <2>1, <2>3
      <3>3. e.records[k].frame = rs[k].frame
        <4>1. CASE k = Len(rs)
          <5>1. e.records[k] = LedTo(rs[k], frame) /\ IsRecord(rs[k])
            BY <1>2, <1>5, <4>1
          <5> QED
            BY <5>1, LedToIs
        <4>2. CASE k # Len(rs)
          BY <1>5, <4>2
        <4> QED
          BY <4>1, <4>2
      <3> QED
        BY <1>1, <1>6, <2>2, <2>3, <3>1, <3>2, <3>3 DEF LeadsTo
    <2>4. CASE i = Len(rs)
      <3>1. e.records[i] = LedTo(rs[i], frame)
        BY <1>5, <2>1, <2>4
      <3>2. LedTo(rs[i], frame)
              = [frame |-> rs[i].frame, key |-> rs[i].key, class |-> rs[i].class,
                 assignment |-> rs[i].assignment, rng |-> rs[i].rng, successor |-> "frame",
                 target |-> Target("pending", frame)]
        BY <2>1, LedToIs
      <3>3. RecordFits(e.records[i], s, i)
        BY <2>2, <3>1, <3>2 DEF RecordFits
      <3>4. LeadsTo(e, i)
        <4>1. ~(i < Len(e.records))
          BY <1>2, <1>6, <2>4
        <4> QED
          BY <1>3, <1>4, <3>1, <3>2, <4>1 DEF LeadsTo
      <3> QED
        BY <1>1, <3>3, <3>4
    <2>5. i < Len(rs) \/ i = Len(rs)
      BY <1>2, <2>1
    <2> QED
      BY <2>3, <2>4, <2>5
  <1> QED
    BY <1>1, <1>3, <1>4, <1>6, <1>7, FitIsWellFormed

(* And so is what the engine failed in.                                     *)
LEMMA FailedIsWellFormed ==
    ASSUME NEW s \in Specs, NEW p, NEW rs, NEW c, NEW ks, PlayedSoFar(s, p, rs, c, ks),
           Answer(s, c, ks).kind = "frame", NEW key \in Range(Frame(s, ks).request.keys), NEW a,
           NEW r, r = NewRecord(Frame(s, ks), key, a, Failure(s, Append(ks, key))),
           ChoiceHolds(p, r), NEW e, e.manifest.episode = s, e.records = Append(rs, r),
           e.closure = ClosureOf(Failure(s, Append(ks, key)))
    PROVE  WellFormed(e) /\ e.closure.kind = "failed"
  <1>1. /\ rs \in Seq(Range(rs)) /\ DOMAIN rs = 1..Len(rs) /\ Len(rs) \in Nat
        /\ Len(ks) = Len(rs) /\ ks \in Seq(Range(ks))
    BY SoFarRecords
  <1>2. /\ Len(e.records) = Len(rs) + 1 /\ DOMAIN e.records = 1..(Len(rs) + 1)
        /\ \A i \in 1..Len(rs) : e.records[i] = rs[i]
        /\ e.records[Len(rs) + 1] = r
    BY <1>1, AppendedIsSeq
  <1>3. Len(Append(ks, key)) = Len(rs) + 1
    BY <1>1, AppendedIsSeq
  <1>4. /\ e.closure.kind = "failed" /\ e.closure.pending = None
        /\ e.closure.count = Len(rs) + 1
    BY <1>3 DEF ClosureOf, Failure, FailedClosure
  <1>5. RecordFits(r, s, Len(rs) + 1) /\ r.frame = Frame(s, ks)
    BY <1>1, WrittenFits
  <1>6. r.successor = "failed" /\ r.target = None
    BY DEF NewRecord, Failure
  <1>7. ASSUME NEW i \in DOMAIN e.records
        PROVE  RecordFits(e.records[i], e.manifest.episode, i) /\ LeadsTo(e, i)
    <2>1. CASE i = Len(rs) + 1
      <3>1. ~(i < Len(e.records))
        BY <1>1, <1>2, <2>1
      <3> QED
        BY <1>2, <1>4, <1>5, <1>6, <2>1, <3>1 DEF LeadsTo
    <2>2. CASE i # Len(rs) + 1
      <3>1. i \in DOMAIN rs /\ e.records[i] = rs[i] /\ i < Len(e.records)
        BY <1>1, <1>2, <2>2
      <3>2. PICK k \in DOMAIN e.records : k = i + 1
        BY <1>1, <1>2, <3>1
      <3>3. /\ RecordFits(rs[i], s, i)
            /\ i < Len(rs) =>
                  rs[i].successor = "frame" /\ rs[i].target = Target("record", rs[i + 1].frame)
            /\ i = Len(rs) =>
                  /\ rs[i].successor = "frame"
                  /\ rs[i].target = Target("record", Answer(s, c, ks).frame)
        BY <3>1, SoFarFits
      <3>4. Answer(s, c, ks).frame = Frame(s, ks)
        BY AnswerKinds
      <3>5. /\ rs[i].successor = "frame"
            /\ rs[i].target = Target("record", e.records[k].frame)
        <4>1. CASE i < Len(rs)
          <5>1. e.records[k] = rs[i + 1]
            BY <1>1, <1>2, <3>1, <3>2, <4>1
          <5> QED
            BY <3>3, <4>1, <5>1
        <4>2. CASE i = Len(rs)
          <5>1. e.records[k] = r
            BY <1>2, <3>2, <4>2
          <5> QED
            BY <1>5, <3>3, <3>4, <4>2, <5>1
        <4> QED
          BY <1>1, <3>1, <4>1, <4>2
      <3> QED
        BY <3>1, <3>2, <3>3, <3>5 DEF LeadsTo
    <2> QED
      BY <2>1, <2>2
  <1> QED
    BY <1>2, <1>4, <1>7, FitIsWellFormed

----------------------------------------------------------------------------
(* Who plays *)

(* Of a job's record, the seat of the evaluated policy was played by the    *)
(* checkpoint, and the other one by the teacher of its deck.                *)
LEMMA ChoosersAreRight ==
    ASSUME NEW j, JobFits(j), NEW r, ChoiceHolds(Provenance(j), r), r.assignment = r.rng.assignment
    PROVE  /\ r.rng.mode = "none"
           /\ LET by == r.assignment.artifact
              IN  IF r.frame.player = j.seat
                  THEN by.kind = "neural" /\ by.checkpoint = j.checkpoint
                  ELSE by = Teacher(r.assignment.deck)
  <1> DEFINE spec == SpecOf(j)
             artifact(player) == IF player = j.seat THEN Evaluated(j.checkpoint) ELSE j.opponent
             p == Provenance(j)
  <1>1. PICK a \in Active(p, r.frame.player, r.frame.index) :
            /\ r.rng.assignment = a
            /\ r.rng.mode # "none" => UsesRng(a.artifact)
    BY DEF ChoiceHolds, AttributionFits
  <1>2. a \in p.assignments /\ a.player = r.frame.player
    BY <1>1 DEF Active, Of
  <1>3. p.assignments = {AssignmentFor(j, player, artifact(player)) : player \in {0, 1}}
    BY DEF Provenance
  <1>4. PICK player \in {0, 1} : a = AssignmentFor(j, player, artifact(player))
    <2> HIDE DEF p, artifact
    <2> QED
      BY <1>2, <1>3
  <1>5. /\ a.player = player /\ a.artifact = artifact(player)
        /\ a.deck = Decks[IF j.mirror THEN 1 - player ELSE player]
    BY <1>4 DEF AssignmentFor, DeckIndex, SpecOf
  <1>6. ~UsesRng(a.artifact)
    BY <1>5 DEF UsesRng, Evaluated, Teacher, JobFits
  <1>7. CASE player = j.seat
    <2>1. a.artifact = Evaluated(j.checkpoint)
      BY <1>5, <1>7
    <2>2. Evaluated(j.checkpoint).kind = "neural"
          /\ Evaluated(j.checkpoint).checkpoint = j.checkpoint
      BY DEF Evaluated, Teacher
    <2> QED
      BY <1>1, <1>2, <1>5, <1>6, <1>7, <2>1, <2>2
  <1>8. CASE player # j.seat
    <2>1. a.artifact = j.opponent
      BY <1>5, <1>8
    <2>2. (IF j.mirror THEN 1 - player ELSE player) = (IF j.mirror THEN j.seat ELSE 1 - j.seat)
      BY <1>8 DEF JobFits
    <2>3. a.artifact = Teacher(a.deck)
      BY <1>5, <2>1, <2>2 DEF JobFits
    <2> QED
      BY <1>1, <1>2, <1>5, <1>6, <1>8, <2>3
  <1> QED
    BY <1>7, <1>8

----------------------------------------------------------------------------
(* What becomes of a job *)

(* A failure is a valid result, if its blame is deserved.                   *)
LEMMA FailureHolds ==
    ASSUME NEW j, NEW failure, failure.stage \in Stages, failure.code \in Codes,
           NEW status \in {"failed", "quarantined"}, NEW envelopes,
           NEW replay \in {"not_run", "failed"}, NEW admission \in {"not_run", "quarantined"},
           NEW r, r = Outcome(j, status, failure, None, envelopes, replay, admission),
           NEW fault, Deserved(r, fault), replay = "failed" <=> fault = "engine",
           failure.stage = "inference" <=> fault = "inference", NEW checkpoint
    PROVE  ResultHolds(r, j, fault, checkpoint)
  <1>1. /\ r.job = j /\ r.status = status /\ r.started = TRUE /\ r.outcome = None
        /\ r.stage = failure.stage /\ r.code = failure.code
        /\ r.summary.replay = replay /\ r.summary.admission = admission
        /\ r.summary.stage = failure.stage /\ r.summary.code = failure.code
    BY DEF Outcome
  <1>2. failure.stage # None /\ failure.code # None
    BY NoneAssumption
  <1>3. status \notin Trusted
    BY DEF Trusted
  <1>4. ValidResult(r)
    BY <1>1, <1>2, <1>3 DEF ValidResult, ValidFailure
  <1>5. ValidReplaySummary(r.summary)
    BY <1>1, <1>2 DEF ValidReplaySummary, ValidFailure
  <1> QED
    BY <1>1, <1>3, <1>4, <1>5 DEF ResultHolds

(* A job that has no envelope failed in the environment.                    *)
LEMMA NoEnvelopeHolds ==
    ASSUME NEW j, NEW code \in Codes, code # "STEP_REJECTED", NEW checkpoint,
           NEW fault \in {"environment", "caller", "opponent", "commit"}
    PROVE  ResultHolds(NoEnvelope(j, Environment(code)), j, fault, checkpoint)
  <1> DEFINE failure == Environment(code)
             r == Outcome(j, "failed", failure, None, {}, "not_run", "not_run")
  <1>1. failure.stage = "environment" /\ failure.code = code /\ failure.stage \in Stages
    BY DEF Environment, Fails, Stages
  <1>2. r.stage = "environment" /\ r.code = code /\ r.status = "failed"
    <2> HIDE DEF failure
    <2> QED
      BY <1>1 DEF Outcome
  <1>3. Deserved(r, fault)
    <2> HIDE DEF r
    <2> QED
      BY <1>2 DEF Deserved
  <1> HIDE DEF r, failure
  <1>4. ResultHolds(r, j, fault, checkpoint)
    BY <1>1, <1>3, FailureHolds DEF r
  <1> QED
    BY <1>4 DEF NoEnvelope, r, failure

(* The evidence that is kept of an episode. *)
EvidenceKept(e, end) == IF e.closure.kind # "interrupted" THEN None ELSE EvidenceOf(end)

(* A job no failure ended is honest play, without a random choice.          *)
LEMMA EndedWellIsHonest ==
    ASSUME NEW j, JobFits(j), NEW e, NEW end, NEW failure, NEW fault,
           EndedWell(e, j, end, failure, fault)
    PROVE  /\ HonestPlay(e, Control, EvidenceKept(e, end)) /\ HonestChoices(e)
           /\ e.manifest.rejections = 0 /\ Drawn(e) = {}
           /\ e.closure.kind \in {"terminal", "interrupted"}
           /\ e.closure.kind = "terminal" => EarnedFor(j.checkpoint,
                [job |-> j, outcome |-> e.closure.winner,
                 status |-> IF e.closure.winner = j.seat THEN "win"
                            ELSE IF e.closure.winner = 2 THEN "draw" ELSE "loss"],
                e.records) /\ e.closure.winner # None
  <1> DEFINE m == ManifestOf(j, 0)
             s == SpecOf(j)
             p == Provenance(j)
  <1>1. /\ e.manifest = m /\ ValidProvenance(p, s) /\ end = Ending(e, Control)
    BY DEF EndedWell
  <1>2. PICK rs, ks : EndedBy(e, m, rs, Control, ks)
    BY DEF EndedWell
  <1>3. m.environment = "certified" /\ m.episode = s /\ m.provenance = p /\ m.rejections = 0
    BY DEF ManifestOf
  <1>4. s \in Specs
    BY DEF JobFits
  <1> DEFINE a == Answer(s, Control, ks)
  <1>5. /\ PlayedSoFar(s, p, rs, Control, ks) /\ a.kind # "frame"
        /\ e.records = rs /\ e.closure = ClosureOf(a)
    <2> HIDE DEF m
    <2> QED
      BY <1>2, <1>3 DEF EndedBy
  <1> HIDE DEF m, s, p
  <1>6. a.kind \in {"terminal", "interrupted"}
    BY <1>5, AnswerKinds
  <1>7. /\ IsEnvelope(e) /\ WasPlayed(e, Control) /\ Ending(e, Control) = a
        /\ \A i \in DOMAIN e.records : ChoiceHolds(p, e.records[i])
        /\ e.closure.kind = a.kind
    BY <1>2, <1>3, PlayedToEnd
  <1>8. WellFormed(e)
    BY <1>2, <1>3, <1>4, EndedIsWellFormed
  <1>9. ks \in DOMAIN Game[s]
    BY <1>5, SoFarRecords DEF Reached
  <1>10. a.kind = "interrupted" => EvidenceOf(end) # None
    BY <1>1, <1>4, <1>7, <1>9, NoneAssumption
  <1>11. Resolved(e.manifest)
    BY <1>1, <1>3, <1>4 DEF Resolved
  <1>12. HonestPlay(e, Control, EvidenceKept(e, end))
    <2> HIDE DEF a
    <2> QED
      BY <1>1, <1>6, <1>7, <1>8, <1>10, <1>11, ControlAssumption DEF HonestPlay, EvidenceKept
  <1>13. \A b \in p.assignments : b.from \in Nat
    BY DEF p, Provenance, AssignmentFor
  <1>14. HonestChoices(e)
    BY <1>1, <1>3, <1>7, <1>13, ChoicesAreHonest
  <1>15. \A i \in DOMAIN e.records : ChoiceHolds(p, e.records[i])
            /\ e.records[i].assignment = e.records[i].rng.assignment
    BY <1>7, <1>8 DEF WellFormed
  <1>16. ASSUME NEW i \in DOMAIN e.records
         PROVE  /\ e.records[i].rng.mode = "none"
                /\ LET by == e.records[i].assignment.artifact
                   IN  IF e.records[i].frame.player = j.seat
                       THEN by.kind = "neural" /\ by.checkpoint = j.checkpoint
                       ELSE by = Teacher(e.records[i].assignment.deck)
    BY <1>15, ChoosersAreRight DEF p
  <1>17. Drawn(e) = {}
    BY <1>16 DEF Drawn
  <1>18. ASSUME e.closure.kind = "terminal"
         PROVE  EarnedFor(j.checkpoint,
                    [job |-> j, outcome |-> e.closure.winner,
                     status |-> IF e.closure.winner = j.seat THEN "win"
                                ELSE IF e.closure.winner = 2 THEN "draw" ELSE "loss"],
                    e.records) /\ e.closure.winner # None
    <2> DEFINE played == [k \in DOMAIN e.records |-> e.records[k].key]
    <2>1. a.kind = "terminal"
      BY <1>7, <1>18
    <2>2. Turn(s, ks).over /\ a.winner = Turn(s, ks).winner
      BY <2>1 DEF Answer, Interruption
    <2>3. e.closure.winner = Turn(s, ks).winner
      <3> HIDE DEF a
      <3> QED
        BY <1>5, <2>1, <2>2 DEF ClosureOf, TerminalClosure
    <2>4. ks = played
      <3>1. ks = Keys(Sofar(s, rs), Len(rs)) /\ DOMAIN rs = 1..Len(rs)
        BY <1>5, SoFarRecords DEF PlayedSoFar
      <3> QED
        BY <1>5, <3>1 DEF Keys, Sofar
    <2>5. e.closure.winner # None /\ j.seat # 2
      BY <1>4, <1>9, <2>2, <2>3, DuelsAssumption DEF JobFits
    <2> DEFINE w == e.closure.winner
               status == IF w = j.seat THEN "win" ELSE IF w = 2 THEN "draw" ELSE "loss"
               r == [job |-> j, outcome |-> w, status |-> status]
    <2>6. r.job = j /\ r.outcome = w /\ r.status = status
      OBVIOUS
    <2>7. status = (CASE w = 2 -> "draw" [] w = j.seat -> "win" [] OTHER -> "loss")
      BY <2>5
    <2>8. Reached(s, played)
      BY <1>9, <2>4 DEF Reached
    <2> HIDE DEF played, w, status, r
    <2>9. EarnedFor(j.checkpoint, r, e.records)
      BY <1>16, <2>2, <2>3, <2>4, <2>6, <2>7, <2>8 DEF EarnedFor, played, s, w
    <2> QED
      BY <2>5, <2>9 DEF r, w, status
  <1> HIDE DEF a
  <1> QED
    BY <1>1, <1>3, <1>6, <1>7, <1>12, <1>14, <1>17, <1>18

(* What ended well replays and is admitted, and has earned what it won.     *)
LEMMA WellIsTrusted ==
    ASSUME version = 1, stage = "closed", closure # None, WellFormed(Envelope), JobFits(Now),
           EndedWell(Envelope, Now, ending, prior, Fault)
    PROVE  ResultHolds(FinalOutcome, Now, "none", Now.checkpoint)
  <1> DEFINE e == Envelope
             x == EvidenceKept(e, ending)
             j == Now
             item == [envelope |-> e, control |-> Control, evidence |-> x]
             items == {item}
  <1>1. /\ e.closure = closure /\ prior = NoFailure
    BY DEF Envelope, EndedWell
  <1>2. /\ HonestPlay(e, Control, x) /\ HonestChoices(e)
        /\ e.manifest.rejections = 0 /\ Drawn(e) = {}
        /\ e.closure.kind \in {"terminal", "interrupted"}
        /\ e.closure.kind = "terminal" => EarnedFor(j.checkpoint,
                [job |-> j, outcome |-> e.closure.winner,
                 status |-> IF e.closure.winner = j.seat THEN "win"
                            ELSE IF e.closure.winner = 2 THEN "draw" ELSE "loss"],
                e.records) /\ e.closure.winner # None
    BY EndedWellIsHonest
  <1>3. EvidenceNow = x
    BY <1>1 DEF EvidenceNow, EvidenceKept
  <1>4. Options.source = TRUE /\ (e.closure.kind = "terminal" => Options.control = Control)
    BY <1>1 DEF Options
  <1>5. Replays(e, EvidenceNow, Options)
    <2> HIDE DEF e, x
    <2> QED
      BY <1>2, <1>3, <1>4, HonestReplays
  <1>6. Verified({e}, TheBundle, Options)
    <2>1. item.envelope = e /\ item.control = Control /\ item.evidence = x
      OBVIOUS
    <2> HIDE DEF e, x, item
    <2>2. HonestItem(item, Options)
      BY <1>2, <1>4, <2>1 DEF HonestItem
    <2>3. HonestItems(items, Options)
      <3>1. IsFiniteSet({item})
        BY FS_Singleton
      <3> QED
        BY <1>4, <2>2, <3>1 DEF HonestItems
    <2>4. Verified(Envelopes(items), Assembled(items), Options)
      BY <2>3, HonestIsVerified
    <2>5. Envelopes(items) = {e}
      BY <2>1 DEF Envelopes
    <2>6. Assembled(items) = TheBundle
      <3>1. Required({e}) = {}
        BY <1>2 DEF Required, Initializations
      <3>2. {InitEvidence(init) : init \in Required({e})} = {}
        BY <3>1
      <3>3. x # None <=> e.closure.kind = "interrupted"
        BY <1>2 DEF HonestPlay
      <3>4. {[envelope |-> q.envelope, evidence |-> q.evidence] :
                q \in {q \in items : q.evidence # None}}
            = IF e.closure.kind # "interrupted" THEN {} ELSE {[envelope |-> e, evidence |-> x]}
        BY <2>1, <3>3
      <3>5. Assembled(items)
            = Bundle({e}, IF e.closure.kind # "interrupted" THEN {}
                          ELSE {[envelope |-> e, evidence |-> x]}, {})
        BY <2>5, <3>2, <3>4 DEF Assembled
      <3>6. x = EvidenceOf(ending) \/ e.closure.kind # "interrupted"
        BY DEF x, EvidenceKept
      <3>7. TheBundle
            = Bundle({e}, IF e.closure.kind # "interrupted" THEN {}
                          ELSE {[envelope |-> e, evidence |-> x]}, {})
        BY <1>1, <3>6 DEF TheBundle, e
      <3> QED
        BY <3>5, <3>7
    <2> QED
      BY <2>4, <2>5, <2>6
  <1>7. FinalOutcome =
            IF closure.kind = "terminal"
            THEN Outcome(j, StatusOfWinner, NoFailure, closure.winner, {e}, "passed", "passed")
            ELSE Outcome(j, "interrupted", NoFailure, None, {e}, "passed", "passed")
    BY <1>1, <1>5, <1>6 DEF FinalOutcome, PlayedOutcome, Sealed
  <1>8. NoFailure.stage = None /\ NoFailure.code = None
    BY DEF NoFailure, Fails
  <1> DEFINE r == FinalOutcome
  <1>9. CASE closure.kind = "terminal"
    <2> DEFINE w == closure.winner
    <2>1. r = Outcome(j, StatusOfWinner, NoFailure, w, {e}, "passed", "passed")
      BY <1>7, <1>9
    <2> HIDE DEF r, e
    <2>2. /\ r.job = j /\ r.status = StatusOfWinner /\ r.started = TRUE /\ r.outcome = w
          /\ r.stage = None /\ r.code = None
          /\ r.summary.replay = "passed" /\ r.summary.admission = "passed"
          /\ r.summary.stage = None /\ r.summary.code = None
      BY <1>8, <2>1 DEF Outcome
    <2>3. RecordId(e) \in r.record /\ r.gameplay # {}
      BY <1>1, <1>9, <2>1 DEF Outcome
    <2>4. StatusOfWinner = IF w = j.seat THEN "win" ELSE IF w = 2 THEN "draw" ELSE "loss"
      BY DEF StatusOfWinner
    <2>5. r.status \in Trusted
      BY <2>2, <2>4 DEF Trusted
    <2>6. EarnedFor(j.checkpoint, r, e.records) /\ w # None
      <3> DEFINE q == [job |-> j, outcome |-> w,
                       status |-> IF w = j.seat THEN "win" ELSE IF w = 2 THEN "draw" ELSE "loss"]
      <3>1. EarnedFor(j.checkpoint, q, e.records) /\ w # None
        BY <1>1, <1>2, <1>9
      <3>2. r.job = q.job /\ r.outcome = q.outcome /\ r.status = q.status
        BY <2>2, <2>4
      <3> HIDE DEF q
      <3> QED
        BY <3>1, <3>2 DEF EarnedFor
    <2>7. RecordId(e).records = e.records
      BY DEF RecordId
    <2>8. ValidResult(r)
      BY <2>2, <2>3, <2>5, <2>6 DEF ValidResult, ValidFailure, Trusted
    <2>9. ValidReplaySummary(r.summary)
      BY <2>2 DEF ValidReplaySummary, ValidFailure
    <2>10. Deserved(r, "none")
      BY <2>2, <2>5 DEF Deserved
    <2>11. r.stage # "inference"
      BY <2>2, NoneAssumption DEF Stages
    <2> HIDE DEF w, j
    <2>12. ResultHolds(r, j, "none", j.checkpoint)
      BY <2>2, <2>3, <2>5, <2>6, <2>7, <2>8, <2>9, <2>10, <2>11 DEF ResultHolds
    <2> QED
      BY <2>12 DEF r, j
  <1>10. CASE closure.kind # "terminal"
    <2>1. r = Outcome(j, "interrupted", NoFailure, None, {e}, "passed", "passed")
      BY <1>7, <1>10
    <2> HIDE DEF r, e
    <2>2. /\ r.job = j /\ r.status = "interrupted" /\ r.started = TRUE /\ r.outcome = None
          /\ r.stage = None /\ r.code = None
          /\ r.summary.replay = "passed" /\ r.summary.admission = "passed"
          /\ r.summary.stage = None /\ r.summary.code = None
      BY <1>8, <2>1 DEF Outcome
    <2>3. r.status \notin Trusted
      BY <2>2 DEF Trusted
    <2>4. ValidResult(r)
      BY <2>2, <2>3 DEF ValidResult, ValidFailure
    <2>5. ValidReplaySummary(r.summary)
      BY <2>2 DEF ValidReplaySummary, ValidFailure
    <2>6. Deserved(r, "none")
      BY <2>2 DEF Deserved
    <2>7. r.stage # "inference"
      BY <2>2, NoneAssumption DEF Stages
    <2> HIDE DEF j
    <2>8. ResultHolds(r, j, "none", j.checkpoint)
      BY <2>2, <2>3, <2>4, <2>5, <2>6, <2>7 DEF ResultHolds
    <2> QED
      BY <2>8 DEF r, j
  <1> QED
    BY <1>9, <1>10

(* What did not end well fails, for what it failed of.                      *)
LEMMA FinalHolds ==
    ASSUME version = 1, stage = "closed", JobFits(Now), ClosedInv
    PROVE  ResultHolds(FinalOutcome, Now, Fault, Now.checkpoint)
  <1> DEFINE e == Envelope
             j == Now
             r == FinalOutcome
  <1>1. e.closure = closure /\ e.manifest = manifest
    BY DEF Envelope
  <1>2. CASE closure # None /\ WellFormed(e) /\ EndedWell(e, j, ending, prior, Fault)
    <2>1. Fault = "none"
      BY <1>2 DEF EndedWell
    <2> QED
      BY <1>2, <2>1, WellIsTrusted
  <1>3. CASE closure # None /\ WellFormed(e) /\ EndedByEngine(e, prior, Fault)
    <2>1. /\ prior = NoFailure /\ Fault = "engine" /\ closure.kind = "failed"
      BY <1>1, <1>3 DEF EndedByEngine
    <2>2. ~Replays(e, EvidenceNow, Options)
      BY <1>1, <2>1 DEF Replays
    <2> DEFINE f == Fails("replay", "REPLAY_FAILURE")
    <2>3. r = Outcome(j, "failed", f, None, {e}, "failed", "not_run")
      BY <1>3, <2>1, <2>2 DEF FinalOutcome, PlayedOutcome, Sealed
    <2>4. f.stage = "replay" /\ f.code \in Codes /\ f.stage \in Stages
      BY DEF Fails, Codes, Stages
    <2> HIDE DEF f, e, r, j
    <2>5. r.status = "failed" /\ r.stage = "replay"
      BY <2>3, <2>4 DEF Outcome
    <2>6. Deserved(r, Fault)
      BY <2>1, <2>5 DEF Deserved
    <2>7. ResultHolds(r, j, Fault, j.checkpoint)
      BY <2>1, <2>3, <2>4, <2>6, FailureHolds
    <2> QED
      BY <2>7 DEF r, j
  <1>4. CASE closure # None /\ WellFormed(e) /\ EndedByPolicy(e, prior, Fault)
    <2>1. /\ Fault \in {"public_frame", "model_input", "inference", "selection"}
          /\ prior.stage = Fault /\ prior.code \in Codes /\ prior # NoFailure
          /\ closure.kind = "interrupted"
      BY <1>1, <1>4 DEF EndedByPolicy
    <2>2. r = Outcome(j, "failed", prior, None, {e}, "not_run", "not_run")
      BY <1>4, <2>1 DEF FinalOutcome, Sealed
    <2>3. prior.stage \in Stages
      BY <2>1 DEF Stages
    <2> HIDE DEF e, r, j
    <2>4. /\ r.status = "failed" /\ r.stage = Fault /\ r.summary.replay = "not_run"
          /\ r.record # {}
      BY <1>1, <2>1, <2>2 DEF Outcome
    <2>5. Deserved(r, Fault)
      BY <2>1, <2>4 DEF Deserved
    <2>6. ResultHolds(r, j, Fault, j.checkpoint)
      BY <2>1, <2>2, <2>3, <2>5, FailureHolds
    <2> QED
      BY <2>6 DEF r, j
  <1>5. CASE EndedByOpponent(manifest, prior, Fault) \/ EndedByCommit(manifest, prior, Fault)
    <2>1. PICK code \in {"OPPONENT_POLICY_FAILURE", "STEP_REJECTED", "POLICY_COMMIT_FAILURE"} :
            /\ prior = Environment(code)
            /\ manifest.rejections = IF code = "STEP_REJECTED" THEN 1 ELSE 0
            /\ Fault = IF code = "POLICY_COMMIT_FAILURE" THEN "commit" ELSE "opponent"
      BY <1>5 DEF EndedByOpponent, EndedByCommit
    <2>2. prior.stage = "environment" /\ prior.code = code /\ prior # NoFailure
          /\ prior.stage \in Stages /\ prior.code \in Codes
      BY <2>1, NoneAssumption DEF Environment, Fails, NoFailure, Stages, Codes
    <2>3. CASE ~Sealed
      <3>1. r = NoEnvelope(j, Environment("TRAJECTORY_SEAL_FAILURE"))
        BY <2>3 DEF FinalOutcome
      <3>2. "TRAJECTORY_SEAL_FAILURE" \in Codes
        BY DEF Codes
      <3> HIDE DEF r, j
      <3>3. ResultHolds(r, j, Fault, j.checkpoint)
        BY <2>1, <3>1, <3>2, NoEnvelopeHolds
      <3> QED
        BY <3>3 DEF r, j
    <2>4. CASE Sealed /\ code # "STEP_REJECTED"
      <3>1. r = Outcome(j, "failed", prior, None, {e}, "not_run", "not_run")
        BY <2>1, <2>2, <2>4 DEF FinalOutcome
      <3> HIDE DEF r, e, j
      <3>2. r.status = "failed" /\ r.stage = "environment" /\ r.code = code
        BY <2>2, <3>1 DEF Outcome
      <3>3. Deserved(r, Fault)
        BY <2>1, <2>4, <3>2 DEF Deserved
      <3>4. ResultHolds(r, j, Fault, j.checkpoint)
        BY <2>1, <2>2, <3>1, <3>3, FailureHolds
      <3> QED
        BY <3>4 DEF r, j
    <2>5. CASE Sealed /\ code = "STEP_REJECTED"
      <3>1. manifest.rejections # 0
        BY <2>1, <2>5
      <3>2. ~Verified({e}, TheBundle, Options)
        BY <1>1, <3>1 DEF Verified, Admissible, Eligible
      <3>3. r = Outcome(j, "quarantined", prior, None, {e}, "not_run", "quarantined")
        BY <2>2, <2>5, <3>1, <3>2 DEF FinalOutcome
      <3> HIDE DEF r, e, j
      <3>4. r.status = "quarantined" /\ r.stage = "environment" /\ r.code = "STEP_REJECTED"
        BY <2>2, <2>5, <3>3 DEF Outcome
      <3>5. Deserved(r, Fault)
        BY <2>1, <2>5, <3>4 DEF Deserved
      <3>6. ResultHolds(r, j, Fault, j.checkpoint)
        BY <2>1, <2>2, <2>5, <3>3, <3>5, FailureHolds
      <3> QED
        BY <3>6 DEF r, j
    <2> QED
      BY <2>3, <2>4, <2>5
  <1> QED
    BY <1>2, <1>3, <1>4, <1>5 DEF ClosedInv

----------------------------------------------------------------------------
(* What each step preserves *)

(* Before anything is offered there is no job and no result.                *)
LEMMA NothingEvaluated == EvaluationInit => EvaluationInv
  <1> SUFFICES ASSUME EvaluationInit PROVE EvaluationInv
    OBVIOUS
  <1>1. /\ version = 1 /\ stage = "offered" /\ results = <<>> /\ faults = <<>> /\ summary = None
        /\ keys = <<>> /\ records = <<>> /\ prior = NoFailure /\ pending = None
    BY DEF EvaluationInit, NoJob
  <1>2. \A S : <<>> \in Seq(S)
    OBVIOUS
  <1>3. results \in Seq(Range(results)) /\ faults \in Seq(Range(faults)) /\ DOMAIN results = {}
        /\ Len(results) = 0 /\ Len(faults) = 0
    BY <1>1, <1>2
  <1>4. ContextInv /\ JobsInv
    BY <1>1, <1>3 DEF ContextInv, JobsInv, Offered, Open
  <1>5. PlayingInv /\ ClosedInv
    BY <1>1 DEF PlayingInv, ClosedInv
  <1>6. ResultsInv /\ SummaryInv /\ AnswersAreCurrent
    BY <1>1, <1>3 DEF ResultsInv, SummaryInv, AnswersAreCurrent
  <1> QED
    BY <1>1, <1>4, <1>5, <1>6 DEF EvaluationInv

(* The job under way, or the next one, is one of the schedule.              *)
LEMMA NowFits ==
    ASSUME ContextInv, JobsInv, Open \/ MoreJobs
    PROVE  /\ JobFits(Now) /\ Now.checkpoint = context.checkpoint
           /\ Len(results) + 1 \in DOMAIN context.jobs /\ Now = context.jobs[Len(results) + 1]
           /\ Len(results) \in Nat /\ Len(results) < Len(context.jobs)
  <1>1. ValidContext(context) /\ Len(results) < Len(context.jobs) /\ Len(results) \in Nat
    <2>1. ~Offered
      BY DEF Open, MoreJobs, Offered
    <2>2. Len(results) \in Nat
      BY DEF JobsInv
    <2> QED
      BY <2>1, <2>2 DEF ContextInv, JobsInv, MoreJobs
  <1>2. /\ DOMAIN context.jobs = 1..Len(context.jobs) /\ Len(context.jobs) \in Nat
        /\ \A i \in DOMAIN context.jobs :
              JobFits(context.jobs[i]) /\ context.jobs[i].checkpoint = context.checkpoint
    BY <1>1, ContextFits
  <1>3. Len(results) + 1 \in DOMAIN context.jobs
    BY <1>1, <1>2
  <1> QED
    BY <1>1, <1>2, <1>3 DEF Now

(* A context is accepted once, and valid.                                   *)
LEMMA ContextStep ==
    ASSUME ContextInv, [EvaluationNext]_evaluationVars
    PROVE  ContextInv'
  <1>1. CASE UNCHANGED evaluationVars
    BY <1>1 DEF evaluationVars, ContextInv, Offered
  <1>2. ASSUME NEW c, Create(c) PROVE ContextInv'
    BY <1>2 DEF Create, ContextInv, Offered
  <1>3. ASSUME context' = context, ~Offered PROVE ContextInv'
    BY <1>3 DEF ContextInv
  <1>4. ASSUME NEW code, Run \/ BeginFails(code) \/ Begin
        PROVE  context' = context /\ ~Offered
    BY <1>4 DEF Run, BeginFails, Begin, MoreJobs, Offered
  <1>5. ASSUME NEW answer, NEW key,
               EvaluatedSelects(answer) \/ OpponentSelects(key) \/ OpponentFails \/ Rejected
        PROVE  context' = context /\ ~Offered
    BY <1>5 DEF EvaluatedSelects, OpponentSelects, OpponentFails, Rejected, Offered
  <1>6. ASSUME NEW fails, NEW knows, Accepted(fails, knows) \/ Finalize \/ Summarize
        PROVE  context' = context /\ ~Offered
    BY <1>6 DEF Accepted, Finalize, Summarize, Offered
  <1> QED
    BY <1>1, <1>2, <1>3, <1>4, <1>5, <1>6 DEF EvaluationNext, Step

(* A step takes over the boundary the environment comes to. *)
LEMMA BoundaryIs ==
    ASSUME NEW next, TakeBoundary(next)
    PROVE  /\ stage' \in {"deciding", "closed"}
           /\ stage' = "deciding" => next.kind = "frame" /\ current' = next.frame
           /\ stage' = "closed" =>
                next.kind # "frame" /\ closure' = ClosureOf(next) /\ ending' = next
  BY DEF TakeBoundary

(* Of every job under way there is at most one thing that went wrong, and   *)
(* every other one has its result.                                          *)
LEMMA JobsStep ==
    ASSUME ContextInv, JobsInv, [EvaluationNext]_evaluationVars
    PROVE  JobsInv'
  <1> DEFINE n == Len(results)
  <1>1. /\ results \in Seq(Range(results)) /\ faults \in Seq(Range(faults))
        /\ n \in Nat /\ Len(faults) \in {n, n + 1}
    BY DEF JobsInv
  <1>2. CASE UNCHANGED evaluationVars
    <2>1. /\ context' = context /\ stage' = stage /\ results' = results /\ faults' = faults
          /\ keys' = keys /\ records' = records /\ prior' = prior /\ pending' = pending
      BY <1>2 DEF evaluationVars, job
    <2> QED
      BY <2>1 DEF JobsInv, Open, Offered
  <1>3. ASSUME NEW c, Create(c) PROVE JobsInv'
    <2>1. /\ stage = "offered" /\ results' = results /\ faults' = faults
          /\ keys' = keys /\ records' = records /\ prior' = prior /\ pending' = pending
          /\ stage' \in {"created", "refused"}
          /\ stage' = "created" => ValidContext(context')
      BY <1>3 DEF Create, job
    <2>2. results = <<>> /\ n = 0 /\ keys = <<>> /\ records = <<>> /\ prior = NoFailure
          /\ pending = None /\ Len(faults) = n
      BY <2>1 DEF JobsInv, Offered, Open
    <2>3. stage' = "created" => Len(context'.jobs) \in Nat
      BY <2>1, ContextFits
    <2>4. stage' = "created" => 0 <= Len(context'.jobs)
      BY <2>3
    <2> QED
      BY <1>1, <2>1, <2>2, <2>4 DEF JobsInv, Offered, Open
  <1>4. ASSUME Run PROVE JobsInv'
    <2>1. /\ stage = "created" /\ stage' = "between" /\ context' = context
          /\ keys' = keys /\ records' = records /\ prior' = prior /\ pending' = pending
      BY <1>4 DEF Run, job
    <2>2. keys = <<>> /\ records = <<>> /\ prior = NoFailure /\ pending = None
      BY <2>1 DEF JobsInv, Open
    <2>3. ValidContext(context)
      BY <2>1 DEF ContextInv, Offered
    <2>4. DOMAIN context.jobs = 1..Len(context.jobs) /\ Len(context.jobs) \in Nat
      BY <2>3, ContextFits
    <2>5. /\ results' \in Seq(Range(results')) /\ faults' \in Seq(Range(faults'))
          /\ Len(results') <= Len(context.jobs) /\ Len(faults') = Len(results')
      <3>1. CASE runs = 0
        <4>1. results' = <<>> /\ faults' = <<>>
          BY <1>4, <3>1 DEF Run
        <4>2. \A S : <<>> \in Seq(S)
          OBVIOUS
        <4>3. Len(results') = 0 /\ Len(faults') = 0
          BY <4>1
        <4> QED
          BY <2>4, <4>1, <4>2, <4>3
      <3>2. CASE runs # 0
        <4>1. /\ results' = [i \in 1..Len(context.jobs) |->
                                NoEnvelope(context.jobs[i], Environment("EVALUATOR_ALREADY_RAN"))]
              /\ faults' = [i \in 1..Len(context.jobs) |-> "caller"]
          BY <1>4, <2>4, <3>2 DEF Run
        <4>2. /\ results' = [i \in 1..Len(context.jobs) |-> results'[i]]
              /\ faults' = [i \in 1..Len(context.jobs) |-> faults'[i]]
          BY <4>1
        <4>3. results' \in Seq(Range(results')) /\ Len(results') = Len(context.jobs)
          BY <2>4, <4>2, FunctionIsSeq
        <4>4. faults' \in Seq(Range(faults')) /\ Len(faults') = Len(context.jobs)
          BY <2>4, <4>2, FunctionIsSeq
        <4> QED
          BY <2>4, <4>3, <4>4
      <3> QED
        BY <3>1, <3>2
    <2> QED
      BY <2>1, <2>2, <2>5 DEF JobsInv, Open, Offered
  <1>5. ASSUME NEW result, Ended(result), context' = context, ~Offered,
               Len(results) < Len(context.jobs), faults' \in Seq(Range(faults')),
               Len(faults') = n + 1
        PROVE  JobsInv'
    <2>1. /\ results' = Append(results, result) /\ stage' = "between"
          /\ keys' = <<>> /\ records' = <<>> /\ prior' = NoFailure /\ pending' = None
      BY <1>5 DEF Ended
    <2>2. results' \in Seq(Range(results')) /\ Len(results') = n + 1
      BY <1>1, <2>1, AppendedIsSeq
    <2>3. n + 1 <= Len(context.jobs)
      <3>1. Len(context.jobs) \in Nat
        BY <1>5, ContextFits DEF ContextInv
      <3> QED
        BY <1>1, <1>5, <3>1
    <2> QED
      BY <1>5, <2>1, <2>2, <2>3 DEF JobsInv, Open, Offered
  <1>6. ASSUME NEW code, BeginFails(code) PROVE JobsInv'
    <2>1. /\ Ended(NoEnvelope(Now, Environment(code))) /\ context' = context /\ ~Offered
          /\ Len(results) < Len(context.jobs) /\ faults' = Append(faults, "environment")
          /\ stage = "between"
      BY <1>6 DEF BeginFails, MoreJobs, Blame, Offered
    <2>2. Len(faults) = n
      BY <2>1 DEF JobsInv
    <2>3. faults' \in Seq(Range(faults')) /\ Len(faults') = n + 1
      BY <1>1, <2>1, <2>2, AppendedIsSeq
    <2> QED
      BY <1>5, <2>1, <2>3
  <1>7. ASSUME Finalize PROVE JobsInv'
    <2>1. /\ Ended(FinalOutcome) /\ context' = context /\ ~Offered /\ Open
          /\ faults' = IF Len(faults) = Len(results) THEN Append(faults, "none") ELSE faults
      BY <1>7 DEF Finalize, Offered, Open
    <2>2. faults' \in Seq(Range(faults')) /\ Len(faults') = n + 1
      BY <1>1, <2>1, AppendedIsSeq
    <2>3. Len(results) < Len(context.jobs)
      BY <2>1 DEF JobsInv
    <2> QED
      BY <1>5, <2>1, <2>2, <2>3
  <1>8. ASSUME Summarize PROVE JobsInv'
    <2>1. /\ context' = context /\ stage = "between" /\ results' = results /\ faults' = faults
          /\ keys' = keys /\ records' = records /\ prior' = prior /\ pending' = pending
          /\ stage' \in {"created", "done"}
      BY <1>8 DEF Summarize, job
    <2> QED
      BY <2>1 DEF JobsInv, Open, Offered
  <1>9. ASSUME context' = context, results' = results, Open' /\ ~Offered,
               Len(results) < Len(context.jobs),
               \/ faults' = faults /\ Len(faults) = n /\ prior' = NoFailure
               \/ (\E what : faults' = Append(faults, what)) /\ Len(faults) = n
                  /\ stage' = "closed"
        PROVE  JobsInv'
    <2>1. /\ faults' \in Seq(Range(faults')) /\ Len(faults') \in {n, n + 1}
          /\ stage' # "closed" => Len(faults') = n /\ prior' = NoFailure
      <3>1. CASE faults' = faults /\ Len(faults) = n /\ prior' = NoFailure
        BY <1>1, <3>1
      <3>2. ASSUME NEW what, faults' = Append(faults, what), Len(faults) = n, stage' = "closed"
            PROVE  faults' \in Seq(Range(faults')) /\ Len(faults') = n + 1
        BY <1>1, <3>2, AppendedIsSeq
      <3> QED
        BY <1>9, <3>1, <3>2
    <2>2. ~Offered'
      BY <1>9 DEF Open, Offered
    <2> QED
      BY <1>1, <1>9, <2>1, <2>2 DEF JobsInv
  <1>10. ASSUME Begin PROVE JobsInv'
    <2>1. /\ context' = context /\ results' = results /\ faults' = faults /\ prior' = prior
          /\ stage = "between" /\ stage' \in {"deciding", "closed"}
          /\ Len(results) < Len(context.jobs)
      BY <1>10, BoundaryIs DEF Begin, MoreJobs
    <2>2. Len(faults) = n /\ prior = NoFailure
      BY <2>1 DEF JobsInv
    <2> QED
      BY <1>9, <2>1, <2>2 DEF Open, Offered
  <1>11. ASSUME NEW answer, EvaluatedSelects(answer) PROVE JobsInv'
    <2>1. /\ context' = context /\ results' = results /\ stage = "deciding"
          /\ \/ faults' = faults /\ prior' = prior /\ stage' = "proposed"
             \/ (\E what : faults' = Append(faults, what)) /\ stage' = "closed"
      BY <1>11 DEF EvaluatedSelects, CancelFor, Blame
    <2>2. Len(faults) = n /\ prior = NoFailure /\ Len(results) < Len(context.jobs)
      BY <2>1 DEF JobsInv, Open
    <2> QED
      BY <1>9, <2>1, <2>2 DEF Open, Offered
  <1>12. ASSUME NEW key, OpponentSelects(key) \/ OpponentFails \/ Rejected PROVE JobsInv'
    <2>1. /\ context' = context /\ results' = results /\ stage \in {"deciding", "proposed"}
          /\ \/ faults' = faults /\ prior' = prior /\ stage' = "proposed"
             \/ (\E what : faults' = Append(faults, what)) /\ stage' = "closed"
      BY <1>12 DEF OpponentSelects, OpponentFails, Rejected, CancelFor, Blame
    <2>2. Len(faults) = n /\ prior = NoFailure /\ Len(results) < Len(context.jobs)
      BY <2>1 DEF JobsInv, Open
    <2> QED
      BY <1>9, <2>1, <2>2 DEF Open, Offered
  <1>13. ASSUME NEW fails \in BOOLEAN, NEW knows \in BOOLEAN, Accepted(fails, knows)
         PROVE  JobsInv'
    <2> DEFINE next == IF fails THEN Failure(manifest.episode, keys')
                       ELSE Answer(manifest.episode, Control, keys')
    <2>1. /\ context' = context /\ results' = results /\ stage = "proposed"
          /\ IF knows THEN TakeBoundary(next) ELSE stage' = "closed"
          /\ prior' = IF knows THEN NoFailure ELSE Environment("POLICY_COMMIT_FAILURE")
          /\ IF knows /\ ~fails THEN faults' = faults
             ELSE faults' = Append(faults, IF fails THEN "engine" ELSE "commit")
      BY <1>13 DEF Accepted, Blame
    <2>2. Len(faults) = n /\ Len(results) < Len(context.jobs)
      BY <2>1 DEF JobsInv, Open
    <2>3. stage' \in {"deciding", "closed"} /\ (fails => stage' = "closed")
      <3>1. knows => /\ stage' \in {"deciding", "closed"}
                     /\ stage' = "deciding" => next.kind = "frame"
        <4> HIDE DEF next
        <4> QED
          BY <2>1, BoundaryIs
      <3>2. fails => next.kind = "failed"
        BY DEF Failure
      <3> QED
        BY <2>1, <3>1, <3>2
    <2> HIDE DEF next
    <2>4. \/ faults' = faults /\ prior' = NoFailure
          \/ (\E what : faults' = Append(faults, what)) /\ stage' = "closed"
      BY <2>1, <2>3
    <2> QED
      BY <1>9, <2>1, <2>2, <2>3, <2>4 DEF Open, Offered
  <1> QED
    BY <1>2, <1>3, <1>4, <1>6, <1>7, <1>8, <1>10, <1>11, <1>12, <1>13 DEF EvaluationNext, Step

(* A choice of the job under way is played on: the recorder has one more    *)
(* record of it.                                                            *)
LEMMA PlayedOnBy ==
    ASSUME NEW s \in Specs, NEW p, PlayedSoFar(s, p, records, Control, keys),
           Answer(s, Control, keys).kind = "frame", current = Frame(s, keys),
           NEW m, m = manifest, m.episode = s, m.provenance = p,
           NEW fails \in BOOLEAN, NEW knows \in BOOLEAN, Accepted(fails, knows)
    PROVE  /\ ~fails => PlayedSoFar(s, p, records', Control, keys')
           /\ fails => /\ WellFormed([manifest |-> m, records |-> records',
                                      closure |-> ClosureOf(Failure(s, keys'))])
                       /\ ClosureOf(Failure(s, keys')).kind = "failed"
                       /\ ClosureOf(Failure(s, keys')) # None
  <1> DEFINE next == IF fails THEN Failure(s, Append(keys, proposed))
                     ELSE Answer(s, Control, Append(keys, proposed))
             a == NoDraw(Deciding, current.index)
             r == NewRecord(current, proposed, a, next)
  <1>1. /\ keys' = Append(keys, proposed) /\ records' = Append(records, r)
        /\ AttributionFits(p, current, a) /\ proposed \in Range(current.request.keys)
    BY DEF Accepted
  <1>2. r.frame = current /\ r.rng = a /\ a.mode = "none"
    BY DEF NewRecord, NoDraw
  <1>3. ChoiceHolds(p, r)
    <2> HIDE DEF r, a
    <2> QED
      BY <1>1, <1>2 DEF ChoiceHolds
  <1>4. proposed \in Range(Frame(s, keys).request.keys)
    BY <1>1
  <1>5. ASSUME ~fails PROVE PlayedSoFar(s, p, records', Control, keys')
    <2>1. r = NewRecord(Frame(s, keys), proposed, a, Answer(s, Control, Append(keys, proposed)))
      BY <1>5
    <2> HIDE DEF r, a, next
    <2> QED
      BY <1>1, <1>3, <1>4, <2>1, OnePlayed
  <1>6. ASSUME fails
        PROVE  LET e == [manifest |-> m, records |-> records',
                         closure |-> ClosureOf(Failure(s, keys'))]
               IN  WellFormed(e) /\ e.closure.kind = "failed"
    <2> DEFINE e == [manifest |-> m, records |-> records', closure |-> ClosureOf(Failure(s, keys'))]
    <2>1. r = NewRecord(Frame(s, keys), proposed, a, Failure(s, Append(keys, proposed)))
      BY <1>6
    <2>2. /\ e.manifest.episode = s /\ e.records = Append(records, r)
          /\ e.closure = ClosureOf(Failure(s, Append(keys, proposed)))
      BY <1>1
    <2> HIDE DEF r, a, next, e
    <2>3. WellFormed(e) /\ e.closure.kind = "failed"
      BY <1>3, <1>4, <2>1, <2>2, FailedIsWellFormed
    <2> QED
      BY <2>3 DEF e
  <1>7. ClosureOf(Failure(s, keys')) # None
    <2>1. Append(keys, proposed) \in DOMAIN Game[s]
      <3>1. keys \in DOMAIN Game[s] /\ ~Turn(s, keys).over
        BY SoFarRecords DEF Answer, Reached, Interruption
      <3> QED
        BY <1>4, <3>1, GameAssumption DEF Frame, Reached
    <2> QED
      BY <1>1, <2>1, NoneAssumption
  <1> QED
    BY <1>5, <1>6, <1>7

(* The duel of the job under way, as its manifest has it. *)
LEMMA PlayingIs ==
    ASSUME ContextInv, JobsInv, PlayingInv, stage \in {"deciding", "proposed"}
    PROVE  /\ JobFits(Now) /\ SpecOf(Now) \in Specs
           /\ manifest.episode = SpecOf(Now) /\ manifest.provenance = Provenance(Now)
           /\ manifest = ManifestOf(Now, 0)
           /\ PlayedSoFar(SpecOf(Now), Provenance(Now), records, Control, keys)
           /\ Answer(SpecOf(Now), Control, keys).kind = "frame"
           /\ current = Frame(SpecOf(Now), keys)
           /\ keys \in DOMAIN Game[SpecOf(Now)] /\ ~Turn(SpecOf(Now), keys).over
  <1>1. JobFits(Now)
    BY NowFits DEF Open
  <1>2. /\ PlayedSoFar(SpecOf(Now), Provenance(Now), records, Control, keys)
        /\ Answer(SpecOf(Now), Control, keys).kind = "frame"
        /\ manifest = ManifestOf(Now, 0) /\ current = Frame(SpecOf(Now), keys)
    BY DEF PlayingInv
  <1>3. keys \in DOMAIN Game[SpecOf(Now)]
    BY <1>2, SoFarRecords DEF Reached
  <1>4. ~Turn(SpecOf(Now), keys).over
    BY <1>2 DEF Answer, Interruption
  <1> QED
    BY <1>1, <1>2, <1>3, <1>4 DEF JobFits, ManifestOf

(* A job under way is an account of its play, step by step.                 *)
LEMMA PlayingStep ==
    ASSUME ContextInv, JobsInv, PlayingInv, [EvaluationNext]_evaluationVars
    PROVE  PlayingInv'
  <1>1. CASE UNCHANGED evaluationVars
    BY <1>1 DEF evaluationVars, job, PlayingInv, Now
  <1>2. ASSUME NEW c, NEW code, NEW answer, stage' \in {"deciding", "proposed"}
        PROVE  /\ ~Create(c) /\ ~Run /\ ~BeginFails(code) /\ ~OpponentFails /\ ~Rejected
               /\ ~Finalize /\ ~Summarize
    BY <1>2 DEF Create, Run, BeginFails, OpponentFails, Rejected, Finalize, Summarize, Ended,
                CancelFor
  <1>3. ASSUME Begin, stage' \in {"deciding", "proposed"} PROVE PlayingInv'
    <2> DEFINE s == SpecOf(Now)
               next == Answer(s, Control, <<>>)
    <2>1. /\ MoreJobs /\ ValidProvenance(Provenance(Now), s)
          /\ manifest' = ManifestOf(Now, 0) /\ TakeBoundary(next)
          /\ context' = context /\ results' = results /\ keys' = keys /\ records' = records
      BY <1>3 DEF Begin, ManifestOf
    <2>2. keys = <<>> /\ records = <<>>
      BY <2>1 DEF JobsInv, MoreJobs, Open
    <2>3. s \in Specs
      BY <2>1, NowFits DEF JobFits
    <2>4. PlayedSoFar(s, Provenance(Now), <<>>, Control, <<>>)
      BY <2>3, NothingPlayed
    <2>5. next.kind = "frame" /\ current' = next.frame
      <3> HIDE DEF next
      <3> QED
        BY <1>3, <2>1, BoundaryIs
    <2>6. current' = Frame(s, <<>>)
      BY <2>5, AnswerKinds
    <2>7. Now' = Now
      BY <2>1 DEF Now
    <2> HIDE DEF next
    <2> QED
      BY <2>1, <2>2, <2>4, <2>5, <2>6, <2>7 DEF PlayingInv, next
  <1>4. ASSUME NEW key, NEW answer, EvaluatedSelects(answer) \/ OpponentSelects(key),
               stage' \in {"deciding", "proposed"}
        PROVE  PlayingInv'
    <2>1. /\ stage = "deciding" /\ context' = context /\ results' = results /\ keys' = keys
          /\ records' = records /\ manifest' = manifest /\ current' = current
      BY <1>4 DEF EvaluatedSelects, OpponentSelects, CancelFor
    <2>2. Now' = Now
      BY <2>1 DEF Now
    <2> QED
      BY <2>1, <2>2 DEF PlayingInv
  <1>5. ASSUME NEW fails \in BOOLEAN, NEW knows \in BOOLEAN, Accepted(fails, knows),
               stage' \in {"deciding", "proposed"}
        PROVE  PlayingInv'
    <2> DEFINE s == SpecOf(Now)
               p == Provenance(Now)
               next == IF fails THEN Failure(s, keys') ELSE Answer(s, Control, keys')
    <2>1. /\ stage = "proposed" /\ context' = context /\ results' = results
          /\ manifest' = manifest
      BY <1>5 DEF Accepted
    <2>2. /\ manifest.episode = s /\ manifest.provenance = p /\ s \in Specs
          /\ PlayedSoFar(s, p, records, Control, keys) /\ manifest = ManifestOf(Now, 0)
          /\ Answer(s, Control, keys).kind = "frame" /\ current = Frame(s, keys)
          /\ ValidProvenance(p, s)
      BY <2>1, PlayingIs DEF PlayingInv
    <2>3. Now' = Now
      BY <2>1 DEF Now
    <2>4. IF knows THEN TakeBoundary(next) ELSE stage' = "closed"
      BY <1>5, <2>2 DEF Accepted
    <2>5. next.kind = "frame" /\ current' = next.frame
      <3> HIDE DEF next
      <3> QED
        BY <1>5, <2>4, BoundaryIs
    <2>6. ~fails
      BY <2>5 DEF Failure
    <2>7. next = Answer(s, Control, keys')
      BY <2>6
    <2>8. current' = Frame(s, keys') /\ Answer(s, Control, keys').kind = "frame"
      <3> HIDE DEF next
      <3> QED
        BY <2>5, <2>7, AnswerKinds
    <2>9. PlayedSoFar(s, p, records', Control, keys')
      <3> HIDE DEF s, p
      <3> QED
        BY <1>5, <2>2, <2>6, PlayedOnBy
    <2> HIDE DEF next
    <2> QED
      BY <2>1, <2>2, <2>3, <2>8, <2>9 DEF PlayingInv
  <1>6. ASSUME stage' \notin {"deciding", "proposed"} PROVE PlayingInv'
    BY <1>6 DEF PlayingInv
  <1> QED
    BY <1>1, <1>2, <1>3, <1>4, <1>5, <1>6 DEF EvaluationNext, Step

(* A job whose episode ends by itself ends well.                            *)
LEMMA EndsWell ==
    ASSUME NEW j, JobFits(j), ValidProvenance(Provenance(j), SpecOf(j)), NEW rs, NEW ks,
           PlayedSoFar(SpecOf(j), Provenance(j), rs, Control, ks),
           NEW end, end = Answer(SpecOf(j), Control, ks), end.kind # "frame",
           NEW e, e.manifest = ManifestOf(j, 0), e.records = rs, e.closure = ClosureOf(end)
    PROVE  e.closure # None /\ WellFormed(e) /\ EndedWell(e, j, end, NoFailure, "none")
  <1> DEFINE m == ManifestOf(j, 0)
  <1>1. m.episode = SpecOf(j) /\ m.provenance = Provenance(j) /\ SpecOf(j) \in Specs
    BY DEF ManifestOf, JobFits
  <1>2. ks \in DOMAIN Game[SpecOf(j)]
    BY SoFarRecords DEF Reached
  <1>3. EndedBy(e, m, rs, Control, ks)
    BY <1>1 DEF EndedBy
  <1> HIDE DEF m
  <1>4. WellFormed(e) /\ Ending(e, Control) = end
    BY <1>1, <1>3, EndedIsWellFormed, PlayedToEnd
  <1>5. e.closure # None
    BY <1>1, <1>2, NoneAssumption
  <1> QED
    BY <1>3, <1>4, <1>5 DEF EndedWell, m

(* One that is cut off at a frame leaves an envelope all the same.          *)
LEMMA CutsOff ==
    ASSUME NEW s \in Specs, NEW p, NEW rs, NEW ks, PlayedSoFar(s, p, rs, Control, ks),
           Answer(s, Control, ks).kind = "frame", NEW e, e.manifest.episode = s,
           e.manifest.provenance = p, e.records = LedToPending(rs, Frame(s, ks)),
           e.closure = PendingClosure(Frame(s, ks))
    PROVE  e.closure # None /\ WellFormed(e) /\ e.closure.kind = "interrupted"
  <1>1. ks \in DOMAIN Game[s]
    BY SoFarRecords DEF Reached
  <1>2. CutOffAt(e, e.manifest, rs, Control, ks)
    BY DEF CutOffAt
  <1>3. WellFormed(e) /\ e.closure.kind = "interrupted"
    BY <1>2, CutOffIsWellFormed, PlayedToCancel
  <1>4. Answer(s, Control, ks).frame = Frame(s, ks)
    BY AnswerKinds
  <1>5. e.closure # None
    BY <1>1, NoneAssumption
  <1> QED
    BY <1>3, <1>5

(* What the evaluated policy fails with. *)
LEMMA SelectFailureIs ==
    ASSUME NEW checkpoint, NEW participant, NEW before, NEW frame, NEW answer,
           NEW failure, failure = SelectFailure(checkpoint, participant, before, frame, answer),
           failure # NoFailure
    PROVE  /\ failure.stage \in {"public_frame", "model_input", "inference", "selection"}
           /\ failure.code \in Codes
  <1>1. failure \in {FrameInvalid, InputInvalid, InferenceFailed, ResponseInvalid,
                     SelectionInvalid}
    BY DEF SelectFailure
  <1> QED
    BY <1>1 DEF FrameInvalid, InputInvalid, InferenceFailed, ResponseInvalid, SelectionInvalid,
                Fails, Codes

(* What went wrong in the job under way is what was last blamed. *)
LEMMA BlameIs ==
    ASSUME JobsInv, Len(faults) = Len(results), results' = results
    PROVE  /\ \A what : faults' = Append(faults, what) => Fault' = what
           /\ faults' = faults => Fault' = "none"
  <1>1. faults \in Seq(Range(faults)) /\ Len(faults) \in Nat
    BY DEF JobsInv
  <1>2. ASSUME NEW what, faults' = Append(faults, what) PROVE Fault' = what
    <2>1. Len(faults') = Len(faults) + 1 /\ faults'[Len(faults) + 1] = what
      BY <1>1, <1>2, AppendedIsSeq
    <2> QED
      BY <1>1, <2>1 DEF Fault
  <1> QED
    BY <1>2 DEF Fault

(* A job that has ended did so in one of the ways it may.                   *)
LEMMA ClosedStep ==
    ASSUME ContextInv, JobsInv, PlayingInv, ClosedInv, [EvaluationNext]_evaluationVars
    PROVE  ClosedInv'
  <1> DEFINE e == Envelope'
  <1>1. e.manifest = manifest' /\ e.records = records' /\ e.closure = closure'
    BY DEF Envelope
  <1>2. CASE UNCHANGED evaluationVars
    <2>1. /\ stage' = stage /\ closure' = closure /\ Envelope' = Envelope /\ Now' = Now
          /\ ending' = ending /\ prior' = prior /\ Fault' = Fault /\ manifest' = manifest
      BY <1>2 DEF evaluationVars, job, Envelope, Now, Fault
    <2> QED
      BY <2>1 DEF ClosedInv
  <1>3. ASSUME stage' # "closed" PROVE ClosedInv'
    BY <1>3 DEF ClosedInv
  <1>4. ASSUME NEW c, NEW code, NEW key, stage' = "closed"
        PROVE  /\ ~Create(c) /\ ~Run /\ ~BeginFails(code) /\ ~OpponentSelects(key)
               /\ ~Finalize /\ ~Summarize
    BY <1>4 DEF Create, Run, BeginFails, OpponentSelects, Finalize, Summarize, Ended
  <1>5. ASSUME Begin, stage' = "closed" PROVE ClosedInv'
    <2> DEFINE s == SpecOf(Now)
               next == Answer(s, Control, <<>>)
    <2>1. /\ MoreJobs /\ ValidProvenance(Provenance(Now), s)
          /\ manifest' = ManifestOf(Now, 0) /\ TakeBoundary(next) /\ faults' = faults
          /\ context' = context /\ results' = results /\ records' = records /\ prior' = prior
      BY <1>5 DEF Begin, ManifestOf
    <2>2. records = <<>> /\ prior = NoFailure /\ Len(faults) = Len(results)
      BY <2>1 DEF JobsInv, MoreJobs, Open
    <2>3. JobFits(Now) /\ s \in Specs /\ Now' = Now
      BY <2>1, NowFits DEF JobFits, Now
    <2>4. PlayedSoFar(s, Provenance(Now), <<>>, Control, <<>>)
      BY <2>3, NothingPlayed
    <2>5. next.kind # "frame" /\ closure' = ClosureOf(next) /\ ending' = next
      <3> HIDE DEF next
      <3> QED
        BY <1>5, <2>1, BoundaryIs
    <2>6. Fault' = "none"
      BY <2>1, <2>2, BlameIs
    <2>7. e.manifest = ManifestOf(Now, 0) /\ e.records = <<>> /\ e.closure = ClosureOf(next)
      BY <1>1, <2>1, <2>2, <2>5
    <2>8. next = Answer(SpecOf(Now), Control, <<>>)
      OBVIOUS
    <2> HIDE DEF next, e
    <2>9. e.closure # None /\ WellFormed(e) /\ EndedWell(e, Now, next, NoFailure, "none")
      BY <2>1, <2>3, <2>4, <2>5, <2>7, <2>8, EndsWell
    <2> QED
      BY <1>1, <2>1, <2>2, <2>3, <2>5, <2>6, <2>9 DEF ClosedInv, e
  <1>6. ASSUME stage \in {"deciding", "proposed"}, NEW failure, CancelFor(failure),
               context' = context, results' = results, NEW what, faults' = Append(faults, what)
        PROVE  /\ prior' = failure /\ Fault' = what /\ manifest = ManifestOf(Now, 0)
               /\ manifest' = manifest =>
                    e.closure # None /\ WellFormed(e) /\ e.closure.kind = "interrupted"
    <2>1. /\ closure' = PendingClosure(current) /\ records' = LedToPending(records, current)
          /\ prior' = failure
      BY <1>6 DEF CancelFor
    <2>2. /\ manifest.episode = SpecOf(Now) /\ manifest.provenance = Provenance(Now)
          /\ SpecOf(Now) \in Specs /\ manifest = ManifestOf(Now, 0)
          /\ PlayedSoFar(SpecOf(Now), Provenance(Now), records, Control, keys)
          /\ Answer(SpecOf(Now), Control, keys).kind = "frame"
          /\ current = Frame(SpecOf(Now), keys)
      BY <1>6, PlayingIs
    <2>3. Fault' = what
      BY <1>6, BlameIs DEF JobsInv
    <2>4. ASSUME manifest' = manifest
          PROVE  e.closure # None /\ WellFormed(e) /\ e.closure.kind = "interrupted"
      <3>1. /\ e.manifest.episode = SpecOf(Now) /\ e.manifest.provenance = Provenance(Now)
            /\ e.records = LedToPending(records, Frame(SpecOf(Now), keys))
            /\ e.closure = PendingClosure(Frame(SpecOf(Now), keys))
        BY <1>1, <2>1, <2>2, <2>4
      <3> HIDE DEF e
      <3> QED
        BY <2>2, <3>1, CutsOff
    <2> QED
      BY <2>1, <2>2, <2>3, <2>4
  <1>7. ASSUME NEW answer, EvaluatedSelects(answer), stage' = "closed" PROVE ClosedInv'
    <2> DEFINE failure == SelectFailure(Now.checkpoint, Now.seat, pending, current, answer)
    <2>1. /\ stage = "deciding" /\ context' = context /\ results' = results
          /\ manifest' = manifest /\ failure # NoFailure /\ CancelFor(failure)
          /\ faults' = Append(faults, failure.stage)
      BY <1>7 DEF EvaluatedSelects, Blame
    <2> HIDE DEF failure, e
    <2>2. prior' = failure /\ Fault' = failure.stage
          /\ e.closure # None /\ WellFormed(e) /\ e.closure.kind = "interrupted"
      BY <1>6, <2>1
    <2>3. /\ failure.stage \in {"public_frame", "model_input", "inference", "selection"}
          /\ failure.code \in Codes
      BY <2>1, SelectFailureIs DEF failure
    <2>4. EndedByPolicy(e, prior', Fault')
      BY <2>1, <2>2, <2>3 DEF EndedByPolicy
    <2> QED
      BY <1>1, <2>2, <2>4 DEF ClosedInv, e
  <1>8. ASSUME OpponentFails PROVE ClosedInv'
    <2>1. /\ stage = "deciding" /\ context' = context /\ results' = results
          /\ manifest' = manifest /\ CancelFor(Environment("OPPONENT_POLICY_FAILURE"))
          /\ faults' = Append(faults, "opponent")
      BY <1>8 DEF OpponentFails, Blame
    <2>2. /\ prior' = Environment("OPPONENT_POLICY_FAILURE") /\ Fault' = "opponent"
          /\ manifest' = ManifestOf(Now, 0)
      BY <1>6, <2>1
    <2>3. EndedByOpponent(manifest', prior', Fault')
      BY <2>2 DEF EndedByOpponent, ManifestOf
    <2> QED
      BY <2>3 DEF ClosedInv
  <1>9. ASSUME Rejected PROVE ClosedInv'
    <2>1. /\ stage = "proposed" /\ context' = context /\ results' = results
          /\ manifest' = [manifest EXCEPT !.rejections = manifest.rejections + 1]
          /\ CancelFor(Environment("STEP_REJECTED")) /\ faults' = Append(faults, "opponent")
      BY <1>9 DEF Rejected, Blame
    <2>2. /\ prior' = Environment("STEP_REJECTED") /\ Fault' = "opponent"
          /\ manifest = ManifestOf(Now, 0)
      BY <1>6, <2>1
    <2>3. manifest'.rejections = 1
      BY <2>1, <2>2 DEF ManifestOf
    <2>4. EndedByOpponent(manifest', prior', Fault')
      BY <2>2, <2>3 DEF EndedByOpponent
    <2> QED
      BY <2>4 DEF ClosedInv
  <1>10. ASSUME NEW fails \in BOOLEAN, NEW knows \in BOOLEAN, Accepted(fails, knows),
                stage' = "closed"
         PROVE  ClosedInv'
    <2> DEFINE s == SpecOf(Now)
               p == Provenance(Now)
               next == IF fails THEN Failure(s, keys') ELSE Answer(s, Control, keys')
    <2>1. /\ stage = "proposed" /\ context' = context /\ results' = results
          /\ manifest' = manifest
      BY <1>10 DEF Accepted
    <2>2. /\ manifest.episode = s /\ manifest.provenance = p /\ s \in Specs /\ JobFits(Now)
          /\ PlayedSoFar(s, p, records, Control, keys) /\ manifest = ManifestOf(Now, 0)
          /\ Answer(s, Control, keys).kind = "frame" /\ current = Frame(s, keys)
          /\ ValidProvenance(p, s)
      BY <2>1, PlayingIs DEF PlayingInv
    <2>3. /\ Now' = Now /\ Len(faults) = Len(results)
      BY <2>1 DEF Now, JobsInv
    <2>4. /\ ~fails => PlayedSoFar(s, p, records', Control, keys')
          /\ fails => /\ WellFormed([manifest |-> manifest, records |-> records',
                                     closure |-> ClosureOf(Failure(s, keys'))])
                      /\ ClosureOf(Failure(s, keys')).kind = "failed"
                      /\ ClosureOf(Failure(s, keys')) # None
      <3> HIDE DEF s, p
      <3> QED
        BY <1>10, <2>2, PlayedOnBy
    <2>5. knows => TakeBoundary(next)
      BY <1>10, <2>2 DEF Accepted
    <2>6. knows => next.kind # "frame" /\ closure' = ClosureOf(next) /\ ending' = next
      <3> HIDE DEF next
      <3> QED
        BY <1>10, <2>5, BoundaryIs
    <2>7. CASE knows /\ ~fails
      <3>1. faults' = faults /\ prior' = NoFailure
        BY <1>10, <2>7 DEF Accepted
      <3>2. Fault' = "none"
        BY <2>1, <2>3, <3>1, BlameIs
      <3>3. next = Answer(SpecOf(Now), Control, keys')
        BY <2>7
      <3>4. e.manifest = ManifestOf(Now, 0) /\ e.records = records' /\ e.closure = ClosureOf(next)
        BY <1>1, <2>1, <2>2, <2>6, <2>7
      <3>5. next.kind # "frame" /\ closure' = ClosureOf(next) /\ ending' = next
        BY <2>6, <2>7
      <3> HIDE DEF next, e
      <3>6. e.closure # None /\ WellFormed(e) /\ EndedWell(e, Now, next, NoFailure, "none")
        BY <2>2, <2>4, <2>7, <3>3, <3>4, <3>5, EndsWell
      <3> QED
        BY <1>1, <2>3, <3>1, <3>2, <3>5, <3>6 DEF ClosedInv, e
    <2>8. CASE knows /\ fails
      <3>1. faults' = Append(faults, "engine") /\ prior' = NoFailure
        BY <1>10, <2>8 DEF Accepted, Blame
      <3>2. Fault' = "engine"
        BY <2>1, <2>3, <3>1, BlameIs
      <3>3. closure' = ClosureOf(Failure(s, keys'))
        BY <2>6, <2>8
      <3>4. e = [manifest |-> manifest, records |-> records',
                 closure |-> ClosureOf(Failure(s, keys'))]
        BY <2>1, <3>3 DEF Envelope
      <3>5. WellFormed(e) /\ e.closure # None /\ e.closure.kind = "failed"
        BY <1>1, <2>4, <2>8, <3>3, <3>4
      <3> HIDE DEF e
      <3>6. EndedByEngine(e, prior', Fault')
        BY <3>1, <3>2, <3>5 DEF EndedByEngine
      <3> QED
        BY <1>1, <3>5, <3>6 DEF ClosedInv, e
    <2>9. CASE ~knows
      <3>1. ~fails
        BY <1>10, <2>9 DEF Accepted
      <3>2. faults' = Append(faults, "commit") /\ prior' = Environment("POLICY_COMMIT_FAILURE")
        BY <1>10, <2>9, <3>1 DEF Accepted, Blame
      <3>3. Fault' = "commit"
        BY <2>1, <2>3, <3>2, BlameIs
      <3>4. EndedByCommit(manifest', prior', Fault')
        BY <2>1, <2>2, <3>2, <3>3 DEF EndedByCommit, ManifestOf
      <3> QED
        BY <3>4 DEF ClosedInv
    <2> QED
      BY <2>7, <2>8, <2>9
  <1> HIDE DEF e
  <1> QED
    BY <1>2, <1>3, <1>4, <1>5, <1>7, <1>8, <1>9, <1>10 DEF EvaluationNext, Step

(* What is appended to the blame changes none that was there.               *)
LEMMA BlameKept ==
    ASSUME JobsInv, NEW what, faults' = Append(faults, what)
    PROVE  \A i \in DOMAIN results : faults'[i] = faults[i]
  <1>1. /\ faults \in Seq(Range(faults)) /\ Len(faults) \in {Len(results), Len(results) + 1}
        /\ results \in Seq(Range(results)) /\ Len(results) \in Nat
    BY DEF JobsInv
  <1>2. \A i \in 1..Len(faults) : faults'[i] = faults[i]
    BY <1>1, AppendedIsSeq
  <1>3. DOMAIN results = 1..Len(results)
    BY <1>1
  <1> QED
    BY <1>1, <1>2, <1>3

(* Every job that is over has the result it deserves.                       *)
LEMMA ResultsStep ==
    ASSUME version = 1, ContextInv, JobsInv, ClosedInv, ResultsInv,
           [EvaluationNext]_evaluationVars
    PROVE  ResultsInv'
  <1> DEFINE n == Len(results)
  <1>1. /\ results \in Seq(Range(results)) /\ faults \in Seq(Range(faults))
        /\ n \in Nat /\ Len(faults) \in {n, n + 1} /\ DOMAIN results = 1..n
    BY DEF JobsInv
  <1>2. ASSUME context' = context, results' = results,
               faults' = faults \/ \E what : faults' = Append(faults, what)
        PROVE  ResultsInv'
    <2>1. \A i \in DOMAIN results : faults'[i] = faults[i]
      BY <1>2, BlameKept
    <2> QED
      BY <1>2, <2>1 DEF ResultsInv
  <1>3. CASE UNCHANGED evaluationVars
    <2>1. context' = context /\ results' = results /\ faults' = faults
      BY <1>3 DEF evaluationVars
    <2> QED
      BY <1>2, <2>1
  <1>4. ASSUME NEW c, Create(c) PROVE ResultsInv'
    <2>1. results' = <<>>
      BY <1>4 DEF Create, JobsInv, Offered
    <2>2. DOMAIN results' = {}
      BY <2>1
    <2> QED
      BY <2>2 DEF ResultsInv
  <1>5. ASSUME Run PROVE ResultsInv'
    <2>1. CASE runs = 0
      <3>1. results' = <<>>
        BY <1>5, <2>1 DEF Run
      <3>2. DOMAIN results' = {}
        BY <3>1
      <3> QED
        BY <3>2 DEF ResultsInv
    <2>2. CASE runs # 0
      <3>1. /\ context' = context
            /\ results' = [i \in DOMAIN context.jobs |->
                              NoEnvelope(context.jobs[i], Environment("EVALUATOR_ALREADY_RAN"))]
            /\ faults' = [i \in DOMAIN context.jobs |-> "caller"]
        BY <1>5, <2>2 DEF Run
      <3>2. "EVALUATOR_ALREADY_RAN" \in Codes /\ "caller" \in {"environment", "caller", "opponent",
                                                               "commit"}
        BY DEF Codes
      <3>3. ASSUME NEW i \in DOMAIN results'
            PROVE  ResultHolds(results'[i], context'.jobs[i], faults'[i], context'.checkpoint)
        <4>1. /\ results'[i] = NoEnvelope(context.jobs[i], Environment("EVALUATOR_ALREADY_RAN"))
              /\ faults'[i] = "caller"
          BY <3>1
        <4>2. ResultHolds(NoEnvelope(context.jobs[i], Environment("EVALUATOR_ALREADY_RAN")),
                          context.jobs[i], "caller", context.checkpoint)
          BY <3>2, NoEnvelopeHolds
        <4> QED
          BY <3>1, <4>1, <4>2
      <3> QED
        BY <3>3 DEF ResultsInv
    <2> QED
      BY <2>1, <2>2
  <1>6. ASSUME NEW result, results' = Append(results, result), context' = context,
               \A i \in DOMAIN results : faults'[i] = faults[i],
               ResultHolds(result, context.jobs[n + 1], faults'[n + 1], context.checkpoint)
        PROVE  ResultsInv'
    <2>1. /\ DOMAIN results' = 1..(n + 1) /\ \A i \in 1..n : results'[i] = results[i]
          /\ results'[n + 1] = result
      BY <1>1, <1>6, AppendedIsSeq
    <2>2. ASSUME NEW i \in DOMAIN results'
          PROVE  ResultHolds(results'[i], context'.jobs[i], faults'[i], context'.checkpoint)
      <3>1. CASE i = n + 1
        BY <1>6, <2>1, <3>1
      <3>2. CASE i \in 1..n
        BY <1>1, <1>6, <2>1, <3>2 DEF ResultsInv
      <3> QED
        BY <1>1, <2>1, <3>1, <3>2
    <2> QED
      BY <2>2 DEF ResultsInv
  <1>7. ASSUME NEW code, BeginFails(code) PROVE ResultsInv'
    <2>1. /\ MoreJobs /\ code \in Codes /\ code # "STEP_REJECTED" /\ context' = context
          /\ results' = Append(results, NoEnvelope(Now, Environment(code)))
          /\ faults' = Append(faults, "environment")
      BY <1>7 DEF BeginFails, Ended, Blame, Codes
    <2>2. Len(faults) = n
      BY <2>1 DEF JobsInv, MoreJobs
    <2>3. faults'[n + 1] = "environment"
      BY <1>1, <2>1, <2>2, AppendedIsSeq
    <2>4. Now = context.jobs[n + 1]
      BY DEF Now
    <2>5. ResultHolds(NoEnvelope(Now, Environment(code)), Now, "environment", context.checkpoint)
      BY <2>1, NoEnvelopeHolds
    <2>6. \A i \in DOMAIN results : faults'[i] = faults[i]
      BY <2>1, BlameKept
    <2> QED
      BY <1>6, <2>1, <2>3, <2>4, <2>5, <2>6
  <1>8. ASSUME Finalize PROVE ResultsInv'
    <2>1. /\ stage = "closed" /\ context' = context /\ results' = Append(results, FinalOutcome)
          /\ faults' = IF Len(faults) = n THEN Append(faults, "none") ELSE faults
      BY <1>8 DEF Finalize, Ended
    <2>2. JobFits(Now) /\ Now.checkpoint = context.checkpoint /\ Now = context.jobs[n + 1]
      BY <2>1, NowFits DEF Open
    <2>3. ResultHolds(FinalOutcome, Now, Fault, context.checkpoint)
      BY <2>1, <2>2, FinalHolds
    <2>4. Fault = faults'[n + 1]
      <3>1. CASE Len(faults) = n
        BY <1>1, <2>1, <3>1, AppendedIsSeq DEF Fault
      <3>2. CASE Len(faults) # n
        BY <2>1, <3>2 DEF Fault
      <3> QED
        BY <3>1, <3>2
    <2>5. \A i \in DOMAIN results : faults'[i] = faults[i]
      BY <2>1, BlameKept
    <2> QED
      BY <1>6, <2>1, <2>2, <2>3, <2>4, <2>5
  <1>9. ASSUME NEW answer, NEW key,
               \/ Begin \/ EvaluatedSelects(answer) \/ OpponentSelects(key) \/ OpponentFails
               \/ Rejected \/ Summarize
        PROVE  ResultsInv'
    <2>1. /\ context' = context /\ results' = results
          /\ faults' = faults \/ \E what : faults' = Append(faults, what)
      BY <1>9 DEF Begin, EvaluatedSelects, OpponentSelects, OpponentFails, Rejected, Summarize,
                  Blame
    <2> QED
      BY <1>2, <2>1
  <1>10. ASSUME NEW fails, NEW knows, Accepted(fails, knows) PROVE ResultsInv'
    <2>1. /\ context' = context /\ results' = results
          /\ faults' = faults \/ \E what : faults' = Append(faults, what)
      BY <1>10 DEF Accepted, Blame
    <2> QED
      BY <1>2, <2>1
  <1> QED
    BY <1>3, <1>4, <1>5, <1>7, <1>8, <1>9, <1>10 DEF EvaluationNext, Step

(* How many results have a status. *)
Having(status) == Cardinality({i \in DOMAIN results : results[i].status = status})

(* The fields of a summary, each a number of results.                       *)
LEMMA SummaryIs ==
    /\ Summary.scheduled = Len(results) /\ Summary.identities = results
    /\ Summary.wins = Having("win") /\ Summary.losses = Having("loss")
    /\ Summary.draws = Having("draw") /\ Summary.interrupted = Having("interrupted")
    /\ Summary.failed = Having("failed") /\ Summary.quarantined = Having("quarantined")
    /\ Summary.completed = Cardinality({i \in DOMAIN results : results[i].status \in Trusted})
    /\ Summary.started = Cardinality({i \in DOMAIN results : results[i].started})
    /\ Summary.inference = Cardinality({i \in DOMAIN results : results[i].stage = "inference"})
    /\ Summary.replay
          = Cardinality({i \in DOMAIN results : results[i].summary.replay = "failed"})
    /\ Summary.admission
          = Cardinality({i \in DOMAIN results : results[i].summary.admission = "failed"})
    /\ Summary.numerator = Having("win") /\ Summary.denominator = Having("win") + Having("loss")
  BY DEF Summary, Count, CountsAsInference, Having

(* A summary counts what went wrong.                                        *)
LEMMA SummaryStep ==
    ASSUME JobsInv, ResultsInv, SummaryInv, [EvaluationNext]_evaluationVars
    PROVE  SummaryInv'
  <1>1. CASE UNCHANGED evaluationVars
    <2>1. summary' = summary /\ stage' = stage /\ faults' = faults
      BY <1>1 DEF evaluationVars
    <2> QED
      BY <2>1 DEF SummaryInv
  <1>2. ASSUME summary' = summary, stage \notin {"created", "done"} PROVE SummaryInv'
    BY <1>2 DEF SummaryInv
  <1>3. CASE Run
    BY <1>3 DEF Run, SummaryInv
  <1>4. CASE Summarize
    <2>1. /\ stage = "between" /\ summary' = Summary /\ stage' \in {"created", "done"}
          /\ faults' = faults
      BY <1>4 DEF Summarize
    <2>2. /\ Len(faults) = Len(results) /\ faults \in Seq(Range(faults))
          /\ results \in Seq(Range(results))
      BY <2>1 DEF JobsInv
    <2>3. DOMAIN faults = DOMAIN results
      BY <2>2
    <2>4. \A i \in DOMAIN results :
            /\ results[i].stage = "inference" <=> faults[i] = "inference"
            /\ results[i].summary.replay = "failed" <=> faults[i] = "engine"
            /\ results[i].summary.admission # "failed"
      BY DEF ResultsInv, ResultHolds
    <2>5. /\ {i \in DOMAIN results : results[i].stage = "inference"}
                = {i \in DOMAIN faults : faults[i] = "inference"}
          /\ {i \in DOMAIN results : results[i].summary.replay = "failed"}
                = {i \in DOMAIN faults : faults[i] = "engine"}
          /\ {i \in DOMAIN results : results[i].summary.admission = "failed"} = {}
      BY <2>3, <2>4
    <2>6. /\ Summary.inference = Cardinality({i \in DOMAIN faults : faults[i] = "inference"})
          /\ Summary.replay = Cardinality({i \in DOMAIN faults : faults[i] = "engine"})
          /\ Summary.admission = 0
      BY <2>5, SummaryIs, FS_EmptySet
    <2> HIDE DEF Summary
    <2> QED
      BY <2>1, <2>6 DEF SummaryInv
  <1>5. ASSUME NEW c, NEW code, NEW answer, NEW key,
               \/ Create(c) \/ BeginFails(code) \/ Begin \/ EvaluatedSelects(answer)
               \/ OpponentSelects(key)
        PROVE  summary' = summary /\ stage \notin {"created", "done"}
    BY <1>5 DEF Create, BeginFails, Begin, MoreJobs, EvaluatedSelects, OpponentSelects
  <1>6. ASSUME NEW fails, NEW knows,
               OpponentFails \/ Rejected \/ Accepted(fails, knows) \/ Finalize
        PROVE  summary' = summary /\ stage \notin {"created", "done"}
    BY <1>6 DEF OpponentFails, Rejected, Accepted, Finalize
  <1> QED
    BY <1>1, <1>2, <1>3, <1>4, <1>5, <1>6 DEF EvaluationNext, Step

(* A policy that fails with nothing was answered, about this frame, and     *)
(* selects what it was answered.                                            *)
LEMMA NothingFailed ==
    ASSUME NEW checkpoint, NEW participant, NEW before, NEW frame, NEW answer,
           SelectFailure(checkpoint, participant, before, frame, answer) = NoFailure
    PROVE  /\ before = None /\ FrameFits(frame, participant) /\ answer # None
           /\ Binds(InferenceRequest(checkpoint, frame), answer)
           /\ Selects(InferenceRequest(checkpoint, frame), answer)
  <1>1. NoFailure \notin {FrameInvalid, InputInvalid, InferenceFailed, ResponseInvalid,
                          SelectionInvalid}
    <2>1. None \notin {"PUBLIC_FRAME_INVALID", "MODEL_INPUT_INVALID", "INFERENCE_FAILURE",
                       "INFERENCE_RESPONSE_INVALID", "SELECTION_INVALID"}
      BY NoneAssumption DEF Codes
    <2>2. NoFailure.code = None
      BY DEF NoFailure, Fails
    <2> QED
      BY <2>1, <2>2 DEF FrameInvalid, InputInvalid, InferenceFailed, ResponseInvalid,
                        SelectionInvalid, Fails
  <1> QED
    BY <1>1 DEF SelectFailure

(* An answer that binds has a number for every candidate.                   *)
LEMMA ScoresAreNumbers ==
    ASSUME NEW request, NEW answer, answer # None, IsAnswer(answer), Binds(request, answer),
           request.domain \in Seq(Range(request.domain))
    PROVE  /\ answer.scores \in Seq(Int) /\ answer.scores # <<>>
           /\ DOMAIN answer.scores = DOMAIN request.domain
  <1> DEFINE scores == answer.scores
             n == Len(answer.scores)
  <1>1. /\ scores \in Seq(Int \cup {NotFinite}) /\ n = Len(request.domain) /\ n > 0
        /\ \A i \in DOMAIN scores : scores[i] # NotFinite
    BY DEF IsAnswer, Binds, Finite
  <1> HIDE DEF scores, n
  <1>2. /\ n = Len(scores) /\ n \in Nat /\ DOMAIN scores = 1..n
        /\ \A i \in 1..n : scores[i] \in Int \cup {NotFinite}
    BY <1>1 DEF n, scores
  <1>3. \A i \in 1..n : scores[i] \in Int
    BY <1>1, <1>2
  <1>4. scores = [i \in 1..n |-> scores[i]]
    BY <1>1, <1>2, SeqIsFunction
  <1>5. scores \in Seq(Int)
    <2>1. scores \in [1..n -> Int]
      BY <1>3, <1>4
    <2>2. [1..n -> Int] \subseteq Seq(Int)
      BY <1>2
    <2> QED
      BY <2>1, <2>2
  <1>6. scores # <<>>
    BY <1>1, <1>2
  <1>7. DOMAIN scores = DOMAIN request.domain
    <2> DEFINE domain == request.domain
    <2>1. domain \in Seq(Range(domain)) /\ Len(domain) = n
      BY <1>1
    <2> HIDE DEF domain
    <2>2. DOMAIN domain = 1..n
      BY <2>1
    <2> QED
      BY <1>2, <2>2 DEF domain
  <1> QED
    BY <1>5, <1>6, <1>7 DEF scores

(* Whatever answers arrive, only the best-scored candidate of the open      *)
(* frame is proposed.                                                       *)
LEMMA AnswerUsed ==
    ASSUME ContextInv, JobsInv, PlayingInv, NEW answer, IsAnswer(answer),
           EvaluatedSelects(answer), stage' = "proposed"
    PROVE  AnswersAreCurrent'
  <1> DEFINE s == SpecOf(Now)
             request == InferenceRequest(Now.checkpoint, current)
             offered == current.request.keys
  <1>1. /\ stage = "deciding" /\ EvaluatedTurn /\ context' = context /\ results' = results
        /\ current' = current
        /\ SelectFailure(Now.checkpoint, Now.seat, pending, current, answer) = NoFailure
        /\ pending' = Proposal(current, answer.key) /\ proposed' = answer.key /\ used' = answer
    BY DEF EvaluatedSelects, CancelFor
  <1>2. /\ FrameFits(current, Now.seat) /\ answer # None
        /\ Binds(request, answer) /\ Selects(request, answer)
    BY <1>1, NothingFailed
  <1>3. /\ s \in Specs /\ keys \in DOMAIN Game[s] /\ ~Turn(s, keys).over
        /\ current = Frame(s, keys) /\ Answer(s, Control, keys).kind = "frame"
    BY <1>1, PlayingIs
  <1>4. /\ offered = Turn(s, keys).request.keys /\ offered \in Seq(Range(offered))
        /\ \A key \in Range(offered) : KeyRank[key] \in Nat
        /\ \A key \in Range(offered) : Proposal(current, key) # None
    <2>1. offered = Turn(s, keys).request.keys
      BY <1>3 DEF Frame
    <2>2. offered \in Seq(Range(offered))
      BY <1>3, <2>1, GameAssumption
    <2>3. \A key \in Range(offered) : KeyRank[key] \in Nat
      BY <1>3, <2>1, DuelsAssumption
    <2>4. \A key \in Range(offered) : Proposal(current, key) # None
      BY <1>3, NoneAssumption
    <2> QED
      BY <2>1, <2>2, <2>3, <2>4
  <1>5. request.domain = offered /\ request.checkpoint = Now.checkpoint
    BY DEF InferenceRequest
  <1>6. PICK o \in DOMAIN offered : /\ o = answer.ordinal /\ offered[o] = answer.key
                                    /\ Best(answer.scores, offered) = o
    BY <1>2, <1>5 DEF Selects
  <1>7. answer.key \in Range(offered)
    BY <1>6 DEF Range
  <1>8. /\ answer.scores \in Seq(Int) /\ answer.scores # <<>>
        /\ DOMAIN answer.scores = DOMAIN offered
    <2> HIDE DEF request, offered
    <2> QED
      BY <1>2, <1>4, <1>5, ScoresAreNumbers
  <1>9. \A i \in DOMAIN answer.scores : KeyRank[offered[i]] \in Nat
    BY <1>4, <1>8 DEF Range
  <1>10. \A i \in DOMAIN offered :
            \/ answer.scores[i] < answer.scores[o]
            \/ answer.scores[i] = answer.scores[o] /\ KeyRank[offered[o]] <= KeyRank[offered[i]]
    <2> DEFINE scores == answer.scores
    <2>1. /\ scores \in Seq(Int) /\ scores # <<>> /\ DOMAIN scores = DOMAIN offered
          /\ \A i \in DOMAIN scores : KeyRank[offered[i]] \in Nat
          /\ Best(scores, offered) = o
      BY <1>6, <1>8, <1>9
    <2> HIDE DEF offered, scores
    <2>2. LET b == Best(scores, offered)
          IN  \A i \in DOMAIN scores :
                \/ scores[i] < scores[b]
                \/ scores[i] = scores[b] /\ KeyRank[offered[b]] <= KeyRank[offered[i]]
      BY <2>1, BestIsBest
    <2>3. \A i \in DOMAIN offered :
             \/ scores[i] < scores[o]
             \/ scores[i] = scores[o] /\ KeyRank[offered[o]] <= KeyRank[offered[i]]
      BY <2>1, <2>2
    <2> QED
      BY <2>3 DEF scores
  <1>11. (CHOOSE i \in DOMAIN offered : offered[i] = answer.key) = o
    <2>1. \A i \in DOMAIN offered : offered[i] = answer.key => i = o
      BY <1>2, <1>6 DEF FrameFits
    <2> HIDE DEF offered
    <2> QED
      BY <1>6, <2>1
  <1>12. Now.checkpoint = context.checkpoint /\ Now' = Now
    BY <1>1, NowFits DEF Open, Now
  <1>13. /\ pending' # None /\ EvaluatedTurn'
         /\ pending'.decision = current' /\ pending'.key = proposed'
         /\ used'.request = InferenceRequest(context'.checkpoint, current')
    BY <1>1, <1>2, <1>4, <1>7, <1>12 DEF EvaluatedTurn, Proposal, Binds
  <1>14. LET now == current'.request.keys
             chosen == CHOOSE i \in DOMAIN now : now[i] = proposed'
         IN  \A i \in DOMAIN now :
                \/ used'.scores[i] < used'.scores[chosen]
                \/ /\ used'.scores[i] = used'.scores[chosen]
                   /\ KeyRank[proposed'] <= KeyRank[now[i]]
    <2>1. current'.request.keys = offered /\ proposed' = answer.key /\ used' = answer
      BY <1>1
    <2> HIDE DEF offered
    <2> QED
      BY <1>6, <1>10, <1>11, <2>1
  <1> QED
    BY <1>13, <1>14 DEF AnswersAreCurrent

(* No proposal outlives its frame.                                          *)
LEMMA AnswersStep ==
    ASSUME ContextInv, JobsInv, PlayingInv, AnswersAreCurrent, [EvaluationNext]_evaluationVars
    PROVE  AnswersAreCurrent'
  <1>1. CASE UNCHANGED evaluationVars
    <2>1. /\ pending' = pending /\ stage' = stage /\ current' = current /\ proposed' = proposed
          /\ used' = used /\ context' = context /\ results' = results
      BY <1>1 DEF evaluationVars, job
    <2>2. EvaluatedTurn' = EvaluatedTurn
      BY <2>1 DEF EvaluatedTurn, Now
    <2> QED
      BY <2>1, <2>2 DEF AnswersAreCurrent
  <1>2. ASSUME pending' = None, stage' # "proposed" PROVE AnswersAreCurrent'
    BY <1>2 DEF AnswersAreCurrent
  <1>3. ASSUME NEW c, Create(c) PROVE AnswersAreCurrent'
    <2>1. pending' = pending /\ stage = "offered" /\ stage' \in {"created", "refused"}
      BY <1>3 DEF Create, job
    <2> QED
      BY <1>2, <2>1 DEF JobsInv, Open
  <1>4. ASSUME Run \/ Summarize PROVE AnswersAreCurrent'
    <2>1. /\ pending' = pending /\ stage \in {"created", "between"}
          /\ stage' \in {"between", "created", "done"}
      BY <1>4 DEF Run, Summarize, job
    <2> QED
      BY <1>2, <2>1 DEF JobsInv, Open
  <1>5. ASSUME NEW code, BeginFails(code) \/ Finalize PROVE AnswersAreCurrent'
    <2>1. pending' = None /\ stage' = "between"
      BY <1>5 DEF BeginFails, Finalize, Ended
    <2> QED
      BY <1>2, <2>1
  <1>6. ASSUME Begin PROVE AnswersAreCurrent'
    <2>1. pending' = pending /\ stage = "between" /\ stage' \in {"deciding", "closed"}
      BY <1>6, BoundaryIs DEF Begin, MoreJobs
    <2> QED
      BY <1>2, <2>1 DEF JobsInv, Open
  <1>7. ASSUME NEW answer, IsAnswer(answer), EvaluatedSelects(answer) PROVE AnswersAreCurrent'
    <2>1. stage' = "proposed" \/ (pending' = None /\ stage' = "closed")
      BY <1>7 DEF EvaluatedSelects, CancelFor
    <2> QED
      BY <1>2, <1>7, <2>1, AnswerUsed
  <1>8. ASSUME NEW key, OpponentSelects(key) PROVE AnswersAreCurrent'
    <2>1. /\ stage = "deciding" /\ ~EvaluatedTurn /\ pending' = pending /\ current' = current
          /\ context' = context /\ results' = results
      BY <1>8 DEF OpponentSelects
    <2>2. pending' = None /\ ~EvaluatedTurn'
      BY <2>1 DEF AnswersAreCurrent, EvaluatedTurn, Now
    <2> QED
      BY <2>2 DEF AnswersAreCurrent
  <1>9. ASSUME OpponentFails \/ Rejected PROVE AnswersAreCurrent'
    <2>1. pending' = None /\ stage' = "closed"
      BY <1>9 DEF OpponentFails, Rejected, CancelFor
    <2> QED
      BY <1>2, <2>1
  <1>10. ASSUME NEW fails, NEW knows, Accepted(fails, knows) PROVE AnswersAreCurrent'
    <2> DEFINE next == IF fails THEN Failure(manifest.episode, keys')
                       ELSE Answer(manifest.episode, Control, keys')
    <2>1. IF knows THEN TakeBoundary(next) ELSE stage' = "closed"
      BY <1>10 DEF Accepted
    <2> HIDE DEF next
    <2>2. stage' # "proposed"
      BY <2>1, BoundaryIs
    <2>3. IF EvaluatedTurn THEN pending' = None ELSE pending' = pending
      BY <1>10 DEF Accepted
    <2>4. pending' = None
      BY <2>3 DEF AnswersAreCurrent
    <2> QED
      BY <1>2, <2>2, <2>4
  <1> QED
    BY <1>1, <1>3, <1>4, <1>5, <1>6, <1>7, <1>8, <1>9, <1>10 DEF EvaluationNext, Step

(* The invariant is inductive: every step keeps it. *)
LEMMA EvaluationStep == EvaluationInv /\ [EvaluationNext]_evaluationVars => EvaluationInv'
  <1> SUFFICES ASSUME EvaluationInv, [EvaluationNext]_evaluationVars PROVE EvaluationInv'
    OBVIOUS
  <1>1. /\ version = 1 /\ ContextInv /\ JobsInv /\ PlayingInv /\ ClosedInv /\ ResultsInv
        /\ SummaryInv /\ AnswersAreCurrent
    BY DEF EvaluationInv
  <1>2. version' = 1
    BY <1>1 DEF EvaluationNext, evaluationVars
  <1>3. ContextInv' /\ JobsInv'
    BY <1>1, ContextStep, JobsStep
  <1>4. PlayingInv' /\ ClosedInv'
    BY <1>1, PlayingStep, ClosedStep
  <1>5. ResultsInv' /\ SummaryInv' /\ AnswersAreCurrent'
    BY <1>1, ResultsStep, SummaryStep, AnswersStep
  <1> QED
    BY <1>2, <1>3, <1>4, <1>5 DEF EvaluationInv

(* However an evaluation goes, each of its jobs is an account of its play,  *)
(* and each result what that deserves.                                      *)
LEMMA EvaluationIsSafe == EvaluationSpec => []EvaluationInv
  <1>1. EvaluationInit => EvaluationInv
    BY NothingEvaluated
  <1>2. EvaluationInv /\ [EvaluationNext]_evaluationVars => EvaluationInv'
    BY EvaluationStep
  <1> QED
    BY <1>1, <1>2, PTL DEF EvaluationSpec

----------------------------------------------------------------------------
(* The theorems *)

(* Whatever a provider answers, and whenever, the evaluated policy proposes *)
(* only what the frozen model, asked about the frame that is open, scored   *)
(* highest (CheckpointBoundPolicyV1::select).                               *)
THEOREM OnlyCurrentAnswersCount == EvaluationSpec => []AnswersAreCurrent
  <1>1. EvaluationInv => AnswersAreCurrent
    BY DEF EvaluationInv
  <1> QED
    BY <1>1, EvaluationIsSafe, PTL

(* A win, loss or draw that is counted was earned in the engine's own game  *)
(* of the job's duel, and nothing failed on the way (finalize_run).         *)
THEOREM TrustIsEarned == EvaluationSpec => []TrustedIsEarned
  <1>1. EvaluationInv => TrustedIsEarned
    <2>1. SUFFICES ASSUME ResultsInv, NEW i \in DOMAIN results, results[i].status \in Trusted
                   PROVE  /\ faults[i] = "none"
                          /\ \E record \in results[i].record : Earned(results[i], record.records)
      BY DEF EvaluationInv, TrustedIsEarned
    <2>2. /\ faults[i] = "none"
          /\ \E record \in results[i].record :
                EarnedFor(context.checkpoint, results[i], record.records)
      BY <2>1 DEF ResultsInv, ResultHolds
    <2>3. \A r, made : EarnedFor(context.checkpoint, r, made) => Earned(r, made)
      BY DEF EarnedFor, Earned
    <2> QED
      BY <2>2, <2>3
  <1> QED
    BY <1>1, EvaluationIsSafe, PTL

(* Every job ends the way that what went wrong in it deserves, and the      *)
(* summary counts just that (classify_policy_selection_failure,             *)
(* finalize_run).                                                           *)
THEOREM BlameIsAlwaysDeserved == EvaluationSpec => []BlameIsDeserved
  <1>1. EvaluationInv => BlameIsDeserved
    <2>1. SUFFICES ASSUME EvaluationInv PROVE BlameIsDeserved
      OBVIOUS
    <2>2. \A i \in DOMAIN results : Deserved(results[i], faults[i])
      BY <2>1 DEF EvaluationInv, ResultsInv, ResultHolds
    <2>3. SummaryInv
      BY <2>1 DEF EvaluationInv
    <2> QED
      BY <2>2, <2>3 DEF BlameIsDeserved, Deserved, SummaryInv
  <1> QED
    BY <1>1, EvaluationIsSafe, PTL

(* How large sets are that share nothing, together.                         *)
LEMMA DisjointAdd ==
    ASSUME NEW S, IsFiniteSet(S), NEW T, IsFiniteSet(T), S \cap T = {}
    PROVE  IsFiniteSet(S \cup T) /\ Cardinality(S \cup T) = Cardinality(S) + Cardinality(T)
  <1>1. Cardinality(S \cap T) = 0
    BY FS_EmptySet
  <1>2. Cardinality(S) \in Nat /\ Cardinality(T) \in Nat
    BY FS_CardinalityType
  <1>3. /\ IsFiniteSet(S \cup T)
        /\ Cardinality(S \cup T) = Cardinality(S) + Cardinality(T) - Cardinality(S \cap T)
    BY FS_Union
  <1> QED
    BY <1>1, <1>2, <1>3

(* The results of each status make up all of them.                          *)
LEMMA StatusesAddUp ==
    ASSUME results \in Seq(Range(results)),
           \A i \in DOMAIN results :
              results[i].status \in Trusted \cup {"interrupted", "failed", "quarantined"}
    PROVE  /\ Having("win") + Having("loss") + Having("draw") + Having("interrupted")
                + Having("failed") + Having("quarantined") = Len(results)
           /\ Cardinality({i \in DOMAIN results : results[i].status \in Trusted})
                = Having("win") + Having("loss") + Having("draw")
           /\ \A S \in SUBSET DOMAIN results : Cardinality(S) <= Len(results)
  <1> DEFINE D == DOMAIN results
             Scored(status) == {i \in D : results[i].status = status}
             A == Scored("win")
             B == A \cup Scored("loss")
             C == B \cup Scored("draw")
             E == C \cup Scored("interrupted")
             F == E \cup Scored("failed")
             G == F \cup Scored("quarantined")
  <1>1. D = 1..Len(results) /\ Len(results) \in Nat
    OBVIOUS
  <1>2. IsFiniteSet(D) /\ Cardinality(D) = Len(results)
    <2>1. IsFiniteSet(1..Len(results)) /\ Cardinality(1..Len(results)) = Len(results)
      BY <1>1, FS_Interval
    <2> QED
      BY <1>1, <2>1
  <1>3. \A S \in SUBSET D : IsFiniteSet(S) /\ Cardinality(S) <= Len(results)
    BY <1>2, FS_Subset
  <1>4. \A status : IsFiniteSet(Scored(status)) /\ Cardinality(Scored(status)) = Having(status)
    <2>1. \A status : Scored(status) \in SUBSET D
      OBVIOUS
    <2>2. \A status : Cardinality(Scored(status)) = Having(status)
      BY DEF Having
    <2> QED
      BY <1>3, <2>1, <2>2
  <1>5. A \in SUBSET D /\ B \in SUBSET D /\ C \in SUBSET D /\ E \in SUBSET D /\ F \in SUBSET D
    OBVIOUS
  <1>6. /\ A \cap Scored("loss") = {} /\ B \cap Scored("draw") = {} /\ C \cap Scored("interrupted") = {}
        /\ E \cap Scored("failed") = {} /\ F \cap Scored("quarantined") = {}
    OBVIOUS
  <1>7. C = {i \in D : results[i].status \in Trusted} /\ G = D
    BY DEF Trusted
  <1>8. \A x, y, z \in SUBSET D : x = y \cup z /\ y \cap z = {} =>
                                    Cardinality(x) = Cardinality(y) + Cardinality(z)
    <2> HIDE DEF D
    <2> QED
      BY <1>3, DisjointAdd
  <1>9. \A status : Scored(status) \in SUBSET D
    OBVIOUS
  <1>10. /\ Cardinality(B) = Having("win") + Having("loss")
         /\ Cardinality(C) = Cardinality(B) + Having("draw")
         /\ Cardinality(E) = Cardinality(C) + Having("interrupted")
         /\ Cardinality(F) = Cardinality(E) + Having("failed")
         /\ Cardinality(G) = Cardinality(F) + Having("quarantined")
    <2>1. B = A \cup Scored("loss") /\ C = B \cup Scored("draw") /\ E = C \cup Scored("interrupted")
          /\ F = E \cup Scored("failed") /\ G = F \cup Scored("quarantined") /\ A = Scored("win")
      OBVIOUS
    <2>2. G \in SUBSET D
      BY <1>7
    <2> HIDE DEF A, B, C, D, E, F, G, Of
    <2>3. Cardinality(B) = Cardinality(A) + Cardinality(Scored("loss"))
      BY <1>5, <1>6, <1>8, <1>9, <2>1
    <2>4. Cardinality(C) = Cardinality(B) + Cardinality(Scored("draw"))
      BY <1>5, <1>6, <1>8, <1>9, <2>1
    <2>5. Cardinality(E) = Cardinality(C) + Cardinality(Scored("interrupted"))
      BY <1>5, <1>6, <1>8, <1>9, <2>1
    <2>6. Cardinality(F) = Cardinality(E) + Cardinality(Scored("failed"))
      BY <1>5, <1>6, <1>8, <1>9, <2>1
    <2>7. Cardinality(G) = Cardinality(F) + Cardinality(Scored("quarantined"))
      BY <1>5, <1>6, <1>8, <1>9, <2>1, <2>2
    <2> QED
      BY <1>4, <2>1, <2>3, <2>4, <2>5, <2>6, <2>7
  <1>11. \A status : Having(status) \in Nat
    <2> HIDE DEF Of
    <2> QED
      BY <1>4, FS_CardinalityType
  <1> QED
    <2>1. Cardinality(G) = Len(results)
      BY <1>2, <1>7
    <2>2. Cardinality(C) = Cardinality({i \in D : results[i].status \in Trusted})
      BY <1>7
    <2> HIDE DEF A, B, C, E, F, G, Of
    <2> QED
      BY <1>3, <1>10, <1>11, <2>1, <2>2

(* Of a whole schedule of results the summary validates.                    *)
LEMMA WholeIsValid ==
    ASSUME ContextInv, JobsInv, ResultsInv, ~Offered, Len(results) = Len(context.jobs)
    PROVE  /\ ValidSummary(Summary)
           /\ [i \in DOMAIN results |-> results[i].job] = context.jobs
           /\ \A i, k \in DOMAIN results : i # k => results[i].job # results[k].job
           /\ {<<r.job.seed, r.job.mirror, r.job.seat, r.job.starting>> : r \in Range(results)}
                 = {1, 2} \X BOOLEAN
                   \X (IF context.profile = Meaningful THEN {0, 1} ELSE {0}) \X {0, 1}
  <1>1. ValidContext(context) /\ results \in Seq(Range(results)) /\ DOMAIN results = 1..Len(results)
        /\ Len(results) \in Nat
    BY DEF ContextInv, JobsInv
  <1>2. /\ context.jobs \in Seq(Range(context.jobs))
        /\ DOMAIN context.jobs = 1..Len(context.jobs)
        /\ \A i, k \in DOMAIN context.jobs : i # k => context.jobs[i] # context.jobs[k]
        /\ {Quadruple(context.jobs[i]) : i \in DOMAIN context.jobs}
              = {1, 2} \X BOOLEAN
                \X (IF context.profile = Meaningful THEN {0, 1} ELSE {0}) \X {0, 1}
    BY <1>1, ContextFits, ScheduleCovers
  <1>3. DOMAIN results = DOMAIN context.jobs
    BY <1>1, <1>2
  <1>4. \A i \in DOMAIN results :
          /\ results[i].job = context.jobs[i] /\ results[i].started = TRUE
          /\ results[i].status \in Trusted \cup {"interrupted", "failed", "quarantined"}
    BY DEF ResultsInv, ResultHolds
  <1>5. [i \in DOMAIN results |-> results[i].job] = context.jobs
    <2> DEFINE jobs == context.jobs
    <2>1. jobs \in Seq(Range(jobs))
      BY <1>2
    <2>2. jobs = [i \in 1..Len(jobs) |-> jobs[i]]
      <3> HIDE DEF jobs
      <3> QED
        BY <2>1
    <2>3. \A i \in DOMAIN results : results[i].job = jobs[i]
      BY <1>4
    <2>4. DOMAIN results = 1..Len(jobs)
      BY <1>2, <1>3
    <2> HIDE DEF jobs
    <2>5. [i \in DOMAIN results |-> results[i].job] = jobs
      BY <2>2, <2>3, <2>4
    <2> QED
      BY <2>5 DEF jobs
  <1>6. \A i, k \in DOMAIN results : i # k => results[i].job # results[k].job
    BY <1>2, <1>3, <1>4
  <1>7. {<<r.job.seed, r.job.mirror, r.job.seat, r.job.starting>> : r \in Range(results)}
           = {Quadruple(context.jobs[i]) : i \in DOMAIN context.jobs}
    <2>1. {Quadruple(r.job) : r \in Range(results)}
             = {Quadruple(results[i].job) : i \in DOMAIN results}
      BY DEF Range
    <2>2. {Quadruple(results[i].job) : i \in DOMAIN results}
             = {Quadruple(context.jobs[i]) : i \in DOMAIN context.jobs}
      BY <1>3, <1>4
    <2> QED
      BY <2>1, <2>2 DEF Quadruple
  <1>8. ValidSummary(Summary)
    <2>1. /\ Having("win") + Having("loss") + Having("draw") + Having("interrupted")
               + Having("failed") + Having("quarantined") = Len(results)
          /\ Cardinality({i \in DOMAIN results : results[i].status \in Trusted})
               = Having("win") + Having("loss") + Having("draw")
          /\ \A S \in SUBSET DOMAIN results : Cardinality(S) <= Len(results)
      BY <1>1, <1>4, StatusesAddUp
    <2>2. \A i, k \in DOMAIN results : results[i] = results[k] => i = k
      BY <1>6
    <2>3. /\ Summary.started <= Len(results) /\ Summary.replay <= Len(results)
          /\ Summary.admission <= Len(results) /\ Summary.inference <= Len(results)
      <3> DEFINE D == DOMAIN results
      <3>1. /\ {i \in D : results[i].started} \in SUBSET D
            /\ {i \in D : results[i].stage = "inference"} \in SUBSET D
            /\ {i \in D : results[i].summary.replay = "failed"} \in SUBSET D
            /\ {i \in D : results[i].summary.admission = "failed"} \in SUBSET D
        OBVIOUS
      <3> QED
        BY <2>1, <3>1, SummaryIs
    <2> HIDE DEF Summary
    <2> QED
      BY <2>1, <2>2, <2>3, SummaryIs DEF ValidSummary
  <1> QED
    BY <1>2, <1>5, <1>6, <1>7, <1>8

(* However a run goes, its summary is about the whole frozen schedule, in   *)
(* order and each job once, and validates (summarize,                       *)
(* validate_gameplay_summary, evaluation_corpus_v1).                        *)
THEOREM PopulationIsAlwaysConserved == EvaluationSpec => []PopulationIsConserved
  <1>1. EvaluationInv => PopulationIsConserved
    <2>1. SUFFICES ASSUME EvaluationInv PROVE PopulationIsConserved
      OBVIOUS
    <2>2. \A i \in DOMAIN results :
             ValidResult(results[i]) /\ ValidReplaySummary(results[i].summary)
      BY <2>1 DEF EvaluationInv, ResultsInv, ResultHolds
    <2>3. ContextInv /\ JobsInv /\ ResultsInv
      BY <2>1 DEF EvaluationInv
    <2>4. stage = "between" => ~Offered
      BY DEF Offered
    <2> QED
      BY <2>2, <2>3, <2>4, WholeIsValid DEF PopulationIsConserved
  <1> QED
    BY <1>1, EvaluationIsSafe, PTL

============================================================================
