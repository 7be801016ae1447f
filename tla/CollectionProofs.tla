---------------------------- MODULE CollectionProofs ----------------------------
(***************************************************************************)
(* From play to dataset, for every game, roster and sequence of duels: what *)
(* the recorder has is what was played, so that no honest shard is refused, *)
(* what is admitted was played, and a dataset holds what was admitted.      *)
(* Last, from dataset to model: for every validator and all samples, widths *)
(* and batch sizes, a batch that is padded comes back as it was laid out.   *)
(***************************************************************************)
EXTENDS Collection, ModelBatch, AdmissionProofs, NaturalsInduction, SequenceTheorems

----------------------------------------------------------------------------
(* The inductive invariant *)

VersionInv == version \in {1, 2}

IsManifest(m) ==
    /\ m = [environment |-> m.environment, episode |-> m.episode, provenance |-> m.provenance,
            rejections |-> m.rejections]
    /\ Resolved(m)
    /\ ValidProvenance(m.provenance, m.episode)
    /\ \A a \in m.provenance.assignments : a.from \in Nat

(* The streams of a run: those of the random players, or none is needed.    *)
SessionsHold(ss, p) ==
    IF ss # None
    THEN /\ SessionsFit(ss, p)
         /\ \A player \in {0, 1} :
              LET init == ss[player].init
              IN  init = Initialization(init.contract, init.stream, init.material)
    ELSE \A a \in p.assignments : ~UsesRng(a.artifact)

(* Between runs the recorder has nothing. *)
IdleInv == stage \notin {"playing", "closed"} => keys = <<>> /\ records = <<>>

PlayingInv ==
    stage = "playing" =>
        /\ IsManifest(manifest) /\ control \in Controls
        /\ SessionsHold(sessions, manifest.provenance)
        /\ PlayedSoFar(manifest.episode, manifest.provenance, records, control, keys)
        /\ Answer(manifest.episode, control, keys).kind = "frame"
        /\ current = Frame(manifest.episode, keys)

(* An episode that did not fail is the recorder's account of it, and ended  *)
(* the way the evidence will say.                                           *)
HonestEnd(e, c, end) ==
    /\ WasPlayed(e, c) /\ HonestChoices(e) /\ Resolved(e.manifest)
    /\ e.closure.kind = "interrupted" => end = Ending(e, c) /\ EvidenceOf(end) # None

ClosedInv ==
    stage = "closed" =>
        /\ control \in Controls /\ IsEnvelope(Envelope)
        /\ closure.kind # "failed" => HonestEnd(Envelope, control, ending)

IsItem(item) ==
    /\ item = [envelope |-> item.envelope, control |-> item.control, evidence |-> item.evidence]
    /\ IsEnvelope(item.envelope) /\ item.control \in Controls

ItemHolds(item) ==
    item.envelope.closure.kind # "failed" =>
        HonestPlay(item.envelope, item.control, item.evidence) /\ HonestChoices(item.envelope)

ShelfInv ==
    /\ shelf \in Seq(Range(shelf))
    /\ \A i \in DOMAIN shelf : IsItem(shelf[i]) /\ (~altered => ItemHolds(shelf[i]))

(* What is before admission is made of the shelf. *)
BatchInv ==
    /\ stage \in {"assembled", "refused"} =>
        /\ shard = {shelf[i].envelope : i \in DOMAIN shelf} /\ Distinct /\ shelf # <<>>
        /\ options.control \in Controls /\ options.source = TRUE
        /\ ~altered => bundle = Assembled(Range(shelf))
    /\ stage = "refused" => ~Verified(shard, bundle, options)

ReceiptsInv ==
    \A r \in receipts : r.shard \in admitted /\ r.entries = {Commitment(e) : e \in r.shard}

(* The cursors are where the streams have come to. *)
StreamsInv ==
    /\ stage # "playing" => current = None
    /\ stage = "playing" =>
        /\ cursors \in [{0, 1} -> Nat]
        /\ \A player \in {0, 1} : ComesTo(player, Len(records) + 1, cursors[player])

DrawsTile ==
    \A player \in {0, 1} : \A i \in {i \in DOMAIN records : Draws(player, i)} :
        /\ ComesTo(player, i, records[i].rng.pre)
        /\ records[i].rng.post - records[i].rng.pre \in
              IF R!Bounded(Len(records[i].frame.request.keys)) THEN 1..2 ELSE {0}

CollectionInv ==
    /\ VersionInv /\ IdleInv /\ PlayingInv /\ ClosedInv /\ ShelfInv /\ BatchInv /\ ReceiptsInv
    /\ StreamsInv /\ DrawsTile /\ AdmittedWasPlayed /\ DatasetWasAdmitted

----------------------------------------------------------------------------
(* Choices *)

(* The policy in charge draws from a stream of its own.                     *)
LEMMA AttributionHolds ==
    ASSUME IsManifest(manifest), SessionsHold(sessions, manifest.provenance), NEW cursor,
           AttributionFits(manifest.provenance, current, Attribution(cursor)),
           NEW r, r.frame = current, r.rng = Attribution(cursor)
    PROVE  /\ ChoiceHolds(manifest.provenance, r)
           /\ current.player \in {0, 1}
           /\ r.rng.mode # "none" =>
                /\ r.rng.pre = cursors[current.player] /\ r.rng.post = cursor
                /\ r.rng.mode = "cursor" /\ UsesRng(Deciding.artifact)
           /\ r.rng.mode = "none" => ~UsesRng(Deciding.artifact)
  <1> DEFINE p == manifest.provenance
             player == current.player
             stream == sessions[player].stream
             init == sessions[player].init
  <1>1. PICK a \in Active(p, player, current.index) : Attribution(cursor).assignment = a
    BY DEF AttributionFits
  <1>2. a \in p.assignments /\ a.player = player /\ a.player \in {0, 1}
    BY <1>1 DEF Active, Of, IsManifest, ValidProvenance, ValidAssignment
  <1>3. CASE ~UsesRng(Deciding.artifact)
    <2>1. r.rng.mode = "none"
      BY <1>3 DEF Attribution, NoDraw
    <2> QED
      BY <1>2, <1>3, <2>1 DEF ChoiceHolds
  <1>4. CASE UsesRng(Deciding.artifact)
    <2>1. /\ r.rng.mode = "cursor" /\ r.rng.assignment = Deciding /\ r.rng.stream = stream
          /\ r.rng.pre = cursors[player] /\ r.rng.post = cursor
      BY <1>4 DEF Attribution, Draw
    <2>2. Deciding = a
      BY <1>1, <2>1
    <2>3. sessions # None
      BY <1>2, <1>4, <2>2 DEF SessionsHold
    <2>4. /\ SessionsFit(sessions, p)
          /\ init = Initialization(init.contract, init.stream, init.material)
      BY <1>2, <2>3 DEF SessionsHold
    <2>5. PICK b \in Of(p, player) :
            /\ init.contract = b.artifact.rng
            /\ stream = Stream(b, b.artifact.rng, init.stream, init)
            /\ UniqueCursor(init, init)
      BY <1>2, <2>4 DEF SessionsFit, BindingFits
    <2> HIDE DEF stream, init
    <2>6. stream.contract = init.contract /\ stream.stream = init.stream /\ stream.init = init
      BY <2>5 DEF Stream
    <2>7. /\ stream.init = Initialization(stream.contract, stream.stream, stream.init.material)
          /\ UniqueCursor(stream.init, stream.init)
      BY <2>4, <2>5, <2>6
    <2> QED
      BY <1>2, <1>4, <2>1, <2>7 DEF ChoiceHolds
  <1> QED
    BY <1>3, <1>4

(* The recorder takes over a boundary that follows a choice.                *)
LEMMA BoundaryTaken ==
    ASSUME NEW e, NEW m, NEW rs, NEW c \in Controls, NEW ks, NEW next, IsManifest(m),
           EndedBy(e, m, rs, c, ks), next = Answer(m.episode, c, ks)
    PROVE  IsEnvelope(e) /\ HonestEnd(e, c, next)
  <1>1. /\ IsEnvelope(e) /\ WasPlayed(e, c) /\ Ending(e, c) = next
        /\ \A i \in DOMAIN e.records : ChoiceHolds(m.provenance, e.records[i])
        /\ e.closure.kind = next.kind
    BY PlayedToEnd
  <1>2. e.manifest = m /\ PlayedSoFar(m.episode, m.provenance, rs, c, ks)
    BY DEF EndedBy
  <1>3. HonestChoices(e)
    BY <1>1, <1>2, ChoicesAreHonest DEF IsManifest
  <1>4. next.kind = "interrupted" => EvidenceOf(next) # None
    <2>1. ks \in DOMAIN Game[m.episode] /\ m.episode \in Specs
      BY <1>2, SoFarRecords DEF Reached, IsManifest, Resolved
    <2> QED
      BY <2>1, EvidenceAssumption
  <1>5. Resolved(e.manifest)
    BY <1>2 DEF IsManifest
  <1>6. HonestEnd(e, c, next)
    BY <1>1, <1>3, <1>4, <1>5 DEF HonestEnd
  <1> QED
    BY <1>1, <1>6

----------------------------------------------------------------------------
(* Draws *)

(* Division with a remainder.                                               *)
LEMMA Divided ==
    ASSUME NEW a \in Nat, NEW n \in Nat \ {0}
    PROVE  /\ a \div n \in Nat /\ a % n \in Nat /\ a % n < n
           /\ a = n * (a \div n) + (a % n)
  BY SMTT(30)

(* The multiples of a number are that number apart.                         *)
LEMMA NextMultiple ==
    ASSUME NEW n \in Nat \ {0}, NEW q \in Nat, NEW k \in Nat, q < k
    PROVE  n * q + n <= n * k
  OBVIOUS

(* What is left of a sum of intervals and a part of one is the part.        *)
LEMMA Residue ==
    ASSUME NEW n \in Nat \ {0}, NEW q \in Nat, NEW r \in 0..(n - 1)
    PROVE  (n * q + r) % n = r
  <1> DEFINE a == n * q + r
             p == a \div n
             o == a % n
  <1>1. a \in Nat /\ r \in Nat /\ r < n
    OBVIOUS
  <1> HIDE DEF a
  <1>2. p \in Nat /\ o \in Nat /\ o < n /\ a = n * p + o
    BY <1>1, Divided
  <1> HIDE DEF p, o
  <1>3. n * p \in Nat /\ n * q \in Nat /\ a = n * q + r
    BY <1>2 DEF a
  <1>4. ~(p < q)
    <2> SUFFICES ASSUME p < q PROVE FALSE
      OBVIOUS
    <2>1. n * p + n <= n * q
      BY <1>2, NextMultiple
    <2> QED
      BY <1>1, <1>2, <1>3, <2>1
  <1>5. ~(q < p)
    <2> SUFFICES ASSUME q < p PROVE FALSE
      OBVIOUS
    <2>1. n * q + n <= n * p
      BY <1>2, NextMultiple
    <2> QED
      BY <1>1, <1>2, <1>3, <2>1
  <1>6. p = q
    BY <1>2, <1>4, <1>5
  <1>7. o = r
    BY <1>1, <1>2, <1>3, <1>6
  <1> QED
    BY <1>7 DEF o, a

(* The words of k intervals from a threshold on that leave i.               *)
Congruent(n, t, k, i) == {raw \in t..(t + n * k - 1) : raw % n = i}

(* Of the words from a threshold on, a whole number of intervals, as many   *)
(* are congruent to one residue as to any other.                            *)
LEMMA ResiduesAreEven ==
    ASSUME NEW n \in Nat \ {0}, NEW t \in 0..(n - 1), NEW k \in Nat, NEW i \in 0..(n - 1)
    PROVE  /\ IsFiniteSet(Congruent(n, t, k, i)) /\ Cardinality(Congruent(n, t, k, i)) = k
  <1> DEFINE leading == {raw \in t..(t + n * k - 1) : raw % n = i}
             o == IF i >= t THEN i - t ELSE i - t + n
             s == IF i >= t THEN 0 ELSE 1
             f == [j \in 0..(k - 1) |-> t + n * j + o]
  <1>1. n * k \in Nat /\ o \in 0..(n - 1) /\ s \in {0, 1} /\ t + o = n * s + i
    OBVIOUS
  <1> HIDE DEF o, s
  <1>2. ASSUME NEW j \in 0..(k - 1)
        PROVE  /\ n * j \in Nat /\ f[j] = t + n * j + o /\ f[j] = n * (j + s) + i
               /\ f[j] \in leading
    <2>1. n * j \in Nat /\ n * j + n <= n * k /\ j \in Nat
      BY NextMultiple
    <2>2. f[j] = t + n * j + o
      OBVIOUS
    <2>3. n * (j + s) = n * j + n * s
      BY <1>1, <2>1
    <2>4. f[j] = n * (j + s) + i
      BY <1>1, <2>1, <2>2, <2>3
    <2>5. (n * (j + s) + i) % n = i
      <3> DEFINE q == j + s
      <3>1. q \in Nat
        BY <1>1, <2>1
      <3> HIDE DEF q
      <3>2. (n * q + i) % n = i
        BY <3>1, Residue
      <3> QED
        BY <3>2 DEF q
    <2>6. f[j] \in t..(t + n * k - 1)
      BY <1>1, <2>1, <2>2
    <2> QED
      BY <2>1, <2>2, <2>4, <2>5, <2>6
  <1>3. ASSUME NEW raw \in leading PROVE \E j \in 0..(k - 1) : f[j] = raw
    <2> DEFINE q == raw \div n
    <2>1. raw \in Nat /\ raw >= t /\ raw < t + n * k /\ raw % n = i
      BY <1>1
    <2>2. q \in Nat /\ raw = n * q + i
      BY <2>1, Divided
    <2> HIDE DEF q, leading
    <2>3. n * q \in Nat
      BY <2>2
    <2>4. q - s \in Nat
      <3>1. CASE s = 0
        BY <2>2, <3>1
      <3>2. CASE s = 1
        <4>1. i < t
          BY <3>2 DEF s
        <4>2. q # 0
          BY <2>1, <2>2, <4>1
        <4> QED
          BY <2>2, <3>2, <4>2
      <3> QED
        BY <1>1, <3>1, <3>2
    <2>5. q - s < k
      <3> SUFFICES ASSUME ~(q - s < k) PROVE FALSE
        OBVIOUS
      <3>1. CASE s = 0
        <4>1. n * k <= n * q
          <5>1. CASE q = k
            BY <1>1, <5>1
          <5>2. CASE k < q
            BY <1>1, <2>2, <2>3, <5>2, NextMultiple
          <5> QED
            BY <2>2, <3>1, <5>1, <5>2
        <4>2. i >= t
          BY <3>1 DEF s
        <4> QED
          BY <1>1, <2>1, <2>2, <2>3, <4>1, <4>2
      <3>2. CASE s = 1
        <4>1. k < q
          BY <2>2, <3>2
        <4>2. n * k + n <= n * q
          BY <2>2, <4>1, NextMultiple
        <4> QED
          BY <1>1, <2>1, <2>2, <2>3, <4>2
      <3> QED
        BY <1>1, <3>1, <3>2
    <2>6. q - s \in 0..(k - 1)
      BY <2>4, <2>5
    <2>7. f[q - s] = n * ((q - s) + s) + i
      BY <1>2, <2>6
    <2>8. (q - s) + s = q
      BY <1>1, <2>2
    <2>9. f[q - s] = raw
      BY <2>2, <2>7, <2>8
    <2> QED
      BY <2>6, <2>9
  <1>4. ASSUME NEW x \in 0..(k - 1), NEW y \in 0..(k - 1), f[x] = f[y] PROVE x = y
    <2>1. /\ f[x] = t + n * x + o /\ f[y] = t + n * y + o /\ n * x \in Nat /\ n * y \in Nat
          /\ x \in Nat /\ y \in Nat
      BY <1>2
    <2>2. n * x = n * y
      BY <1>1, <1>4, <2>1
    <2>3. ~(x < y) /\ ~(y < x)
      BY <2>1, <2>2, NextMultiple
    <2> QED
      BY <2>1, <2>3
  <1>5. f \in [0..(k - 1) -> leading]
    BY <1>2
  <1>6. IsFiniteSet(0..(k - 1)) /\ Cardinality(0..(k - 1)) = k
    BY FS_Interval
  <1> HIDE DEF f, leading
  <1>7. IsFiniteSet(leading) /\ Cardinality(leading) = Cardinality(0..(k - 1))
    <2> DEFINE blocks == 0..(k - 1)
    <2>1. \A x, y \in blocks : f[x] = f[y] => x = y
      BY <1>4
    <2>2. \A raw \in leading : \E j \in blocks : f[j] = raw
      BY <1>3
    <2>3. f \in [blocks -> leading] /\ IsFiniteSet(blocks)
      BY <1>5, <1>6
    <2> HIDE DEF blocks
    <2>4. IsFiniteSet(leading) /\ Cardinality(leading) = Cardinality(blocks)
      BY <2>1, <2>2, <2>3, ImageIsAsLarge
    <2> QED
      BY <2>4 DEF blocks
  <1> QED
    BY <1>6, <1>7 DEF leading, Congruent

(* The positions of a frame's candidates are drawn alike: each by as many   *)
(* of the accepted words as any other, and by at least one.                 *)
LEMMA DrawsAreEven ==
    ASSUME NEW n \in Nat, R!Bounded(n), n <= Words, NEW i \in 0..(n - 1)
    PROVE  LET leading == {raw \in 0..(Words - 1) : R!Accepted(raw, n) /\ R!Choice(raw, n) = i}
           IN  leading # {} /\ Cardinality(leading) = (Words - n) \div n + 1
  <1> DEFINE leading == {raw \in 0..(Words - 1) : R!Accepted(raw, n) /\ R!Choice(raw, n) = i}
             t == (Words - n) % n
             k == (Words - n) \div n + 1
  <1>1. n > 1 /\ Words \in Nat /\ n \in Nat \ {0} /\ Words - n \in Nat
    BY WordsAssumption DEF R!Bounded
  <1>2. /\ (Words - n) \div n \in Nat /\ t \in Nat /\ t < n
        /\ Words - n = n * ((Words - n) \div n) + t
    BY <1>1, Divided
  <1>3. t \in 0..(n - 1) /\ k \in Nat /\ k > 0
    BY <1>1, <1>2
  <1>4. t + n * k = Words
    <2>1. n * k = n * ((Words - n) \div n) + n
      BY <1>1, <1>2
    <2> QED
      BY <1>1, <1>2, <2>1
  <1>5. R!Threshold(n) = t
    <2>1. (Words - n) % Words = Words - n
      BY <1>1, Residue, Words - n = Words * 0 + (Words - n), Words - n \in 0..(Words - 1)
    <2> QED
      BY <2>1 DEF R!Threshold
  <1> HIDE DEF t, k
  <1>6. leading = Congruent(n, t, k, i)
    BY <1>1, <1>3, <1>4, <1>5 DEF R!Accepted, R!Choice, Congruent
  <1> HIDE DEF leading
  <1>7. IsFiniteSet(leading) /\ Cardinality(leading) = k
    BY <1>1, <1>3, <1>6, ResiduesAreEven
  <1>8. leading # {}
    BY <1>3, <1>7, FS_EmptySet
  <1> QED
    BY <1>7, <1>8 DEF leading, k

----------------------------------------------------------------------------
(* What each step preserves *)

(* The invariant holds before the first episode.                            *)
LEMMA NothingCollected == CollectionInit => CollectionInv
  <1> SUFFICES ASSUME CollectionInit PROVE CollectionInv
    OBVIOUS
  <1>1. /\ stage = "collecting" /\ keys = <<>> /\ records = <<>> /\ shelf = <<>>
        /\ receipts = {} /\ dataset = {} /\ version \in {1, 2} /\ current = None
    BY DEF CollectionInit, Idle
  <1>2. DOMAIN shelf = {} /\ shelf \in Seq(Range(shelf))
    <2>1. \A S : <<>> \in Seq(S)
      OBVIOUS
    <2> QED
      BY <1>1, <2>1
  <1> QED
    BY <1>1, <1>2 DEF CollectionInv, VersionInv, IdleInv, PlayingInv, ClosedInv, ShelfInv,
                      BatchInv, ReceiptsInv, StreamsInv, DrawsTile, AdmittedWasPlayed,
                      DatasetWasAdmitted

(* The version stays, and sealing leaves the recorder with nothing.         *)
LEMMA IdleStep ==
    ASSUME CollectionInv, [CollectionNext]_vars
    PROVE  VersionInv' /\ IdleInv'
  <1>1. VersionInv /\ IdleInv
    BY DEF CollectionInv
  <1>2. CASE UNCHANGED vars
    BY <1>1, <1>2 DEF vars, run, VersionInv, IdleInv
  <1>3. CASE CollectionNext
    <2>1. VersionInv'
      BY <1>1, <1>3 DEF CollectionNext, VersionInv
    <2>2. ASSUME NEW spec, NEW c, NEW roster, Begin(spec, c, roster) PROVE IdleInv'
      BY <2>2 DEF Begin, TakeBoundary, IdleInv
    <2>3. ASSUME NEW key, NEW cursor, NEW fails, Play(key, cursor, fails) PROVE IdleInv'
      BY <2>3 DEF Play, Record, TakeBoundary, IdleInv
    <2>4. ASSUME NEW key, NEW wrong, Misattribute(key, wrong) PROVE IdleInv'
      BY <2>4 DEF Misattribute, IdleInv
    <2>5. ASSUME Rejected PROVE IdleInv'
      <3>1. stage' = stage /\ stage = "playing"
        BY <2>5 DEF Rejected
      <3> QED
        BY <3>1 DEF IdleInv
    <2>6. ASSUME Cancel \/ Seal PROVE IdleInv'
      BY <2>6 DEF Cancel, Seal, IdleInv
    <2>7. ASSUME Alter \/ (\E c : Assemble(c)) \/ Misplace \/ Admit \/ Refuse PROVE IdleInv'
      <3>1. keys' = keys /\ records' = records /\ stage \in {"collecting", "assembled"}
        BY <2>7 DEF Alter, Assemble, Misplace, Admit, Refuse, run
      <3> QED
        BY <1>1, <3>1 DEF IdleInv
    <2>8. ASSUME NEW members, Publish(members) PROVE IdleInv'
      BY <1>1, <2>8 DEF Publish, IdleInv, run
    <2> QED
      BY <1>3, <2>1, <2>2, <2>3, <2>4, <2>5, <2>6, <2>7, <2>8 DEF CollectionNext, Step
  <1> QED
    BY <1>2, <1>3

(* A run begins with a manifest and streams that fit.                       *)
LEMMA Begun ==
    ASSUME NEW spec \in Specs, NEW c \in Controls, NEW roster \in Rosters(spec),
           Begin(spec, c, roster), IdleInv
    PROVE  /\ IsManifest(manifest') /\ manifest'.episode = spec /\ control' = c
           /\ SessionsHold(sessions', manifest'.provenance)
           /\ PlayedSoFar(spec, manifest'.provenance, records', c, keys')
           /\ keys' = <<>>
  <1>1. /\ manifest' = [environment |-> "certified", episode |-> spec,
                        provenance |-> roster.provenance, rejections |-> 0]
        /\ control' = c /\ sessions' = roster.sessions
        /\ keys' = keys /\ records' = records /\ stage = "collecting"
        /\ ValidProvenance(roster.provenance, spec)
    BY DEF Begin
  <1>2. IsManifest(manifest')
    <2>1. \A a \in roster.provenance.assignments : a.from \in Nat
      BY RostersAssumption
    <2> QED
      BY <1>1, <2>1 DEF IsManifest, Resolved
  <1>3. SessionsHold(sessions', manifest'.provenance)
    BY <1>1, RostersAssumption DEF SessionsHold, Begin
  <1>4. keys' = <<>> /\ records' = <<>>
    BY <1>1 DEF IdleInv
  <1> QED
    BY <1>1, <1>2, <1>3, <1>4, NothingPlayed

(* A choice is played on: the recorder has one more record of it.           *)
LEMMA PlayedOn ==
    ASSUME PlayingInv, NEW key \in Range(current.request.keys), NEW cursor, NEW fails \in BOOLEAN,
           Play(key, cursor, fails)
    PROVE  /\ records' \in Seq(Range(records')) /\ \A i \in DOMAIN records' : IsRecord(records'[i])
           /\ manifest' = manifest /\ control' = control /\ sessions' = sessions
           /\ ~fails => PlayedSoFar(manifest.episode, manifest.provenance, records', control, keys')
           /\ TakeBoundary(IF fails THEN Failure(manifest.episode, keys')
                           ELSE Answer(manifest.episode, control, keys'))
  <1> DEFINE s == manifest.episode
             p == manifest.provenance
             next == IF fails THEN Failure(s, keys') ELSE Answer(s, control, keys')
             r == NewRecord(current, key, Attribution(cursor), next)
  <1>1. /\ IsManifest(manifest) /\ control \in Controls /\ SessionsHold(sessions, p)
        /\ PlayedSoFar(s, p, records, control, keys)
        /\ Answer(s, control, keys).kind = "frame" /\ current = Frame(s, keys)
    BY DEF PlayingInv, Play
  <1>2. /\ keys' = Append(keys, key) /\ records' = Append(records, r)
        /\ AttributionFits(p, current, Attribution(cursor)) /\ TakeBoundary(next)
        /\ manifest' = manifest /\ control' = control /\ sessions' = sessions
    BY DEF Play, Record
  <1>3. r.frame = current /\ r.rng = Attribution(cursor) /\ IsRecord(r)
    BY NewIsRecord DEF NewRecord
  <1>4. records \in Seq(Range(records)) /\ \A i \in DOMAIN records : IsRecord(records[i])
    BY <1>1, SoFarRecords
  <1>5. records' \in Seq(Range(records')) /\ \A i \in DOMAIN records' : IsRecord(records'[i])
    <2> HIDE DEF r
    <2>1. /\ Append(records, r) \in Seq(Range(Append(records, r)))
          /\ DOMAIN Append(records, r) = 1..(Len(records) + 1)
          /\ \A i \in 1..Len(records) : Append(records, r)[i] = records[i]
          /\ Append(records, r)[Len(records) + 1] = r
      BY <1>4, AppendedIsSeq
    <2>2. DOMAIN records = 1..Len(records) /\ Len(records) \in Nat
      BY <1>1, SoFarRecords
    <2> QED
      BY <1>2, <1>3, <1>4, <2>1, <2>2
  <1>6. ASSUME ~fails PROVE PlayedSoFar(s, p, records', control, keys')
    <2>1. ChoiceHolds(p, r)
      <3> HIDE DEF r
      <3> QED
        BY <1>1, <1>2, <1>3, AttributionHolds
    <2>2. r = NewRecord(Frame(s, keys), key, Attribution(cursor),
                        Answer(s, control, Append(keys, key)))
      BY <1>1, <1>2, <1>6
    <2>3. s \in Specs /\ key \in Range(Frame(s, keys).request.keys)
      BY <1>1 DEF IsManifest, Resolved
    <2> HIDE DEF r, s, p
    <2> QED
      BY <1>1, <1>2, <2>1, <2>2, <2>3, OnePlayed
  <1> HIDE DEF r, s, p, next
  <1> QED
    BY <1>2, <1>5, <1>6 DEF next, s, p

(* What goes on between runs leaves none open.                              *)
Between ==
    \/ Seal \/ Alter \/ (\E c \in {shelf[i].control : i \in DOMAIN shelf} : Assemble(c))
    \/ Misplace \/ Admit \/ Refuse \/ (\E members : Publish(members))

(* After any of it no run is open.                                          *)
LEMMA NoneOpen == ASSUME Between PROVE stage' \notin {"playing", "closed"}
  <1>1. CASE Seal \/ Alter \/ (\E c : Assemble(c)) \/ Misplace
    BY <1>1 DEF Seal, Alter, Assemble, Misplace
  <1>2. CASE Admit \/ Refuse \/ (\E members : Publish(members))
    BY <1>2 DEF Admit, Refuse, Publish
  <1> QED
    BY <1>1, <1>2 DEF Between

(* An open run is an account of its play, step by step.                     *)
LEMMA PlayingStep ==
    ASSUME CollectionInv, [CollectionNext]_vars
    PROVE  PlayingInv'
  <1>1. PlayingInv /\ IdleInv
    BY DEF CollectionInv
  <1>2. CASE UNCHANGED vars
    BY <1>1, <1>2 DEF vars, run, PlayingInv, SessionsHold
  <1>3. ASSUME NEW spec \in Specs, NEW c \in Controls, NEW roster \in Rosters(spec),
               Begin(spec, c, roster)
        PROVE  PlayingInv'
    <2>1. /\ IsManifest(manifest') /\ manifest'.episode = spec /\ control' = c /\ keys' = <<>>
          /\ SessionsHold(sessions', manifest'.provenance)
          /\ PlayedSoFar(spec, manifest'.provenance, records', c, keys')
      BY <1>1, <1>3, Begun
    <2>2. ASSUME stage' = "playing"
          PROVE  Answer(spec, c, <<>>).kind = "frame" /\ current' = Frame(spec, <<>>)
      <3>1. /\ Answer(spec, c, <<>>).kind = "frame" /\ current' = Answer(spec, c, <<>>).frame
        BY <1>3, <2>2 DEF Begin, TakeBoundary
      <3>2. Answer(spec, c, <<>>) = [kind |-> "frame", frame |-> Frame(spec, <<>>)]
        BY <3>1, AnswerKinds
      <3> QED
        BY <3>1, <3>2
    <2> QED
      BY <2>1, <2>2 DEF PlayingInv
  <1>4. ASSUME NEW key \in Range(current.request.keys), NEW cursor, NEW fails \in BOOLEAN,
               Play(key, cursor, fails)
        PROVE  PlayingInv'
    <2> DEFINE next == IF fails THEN Failure(manifest.episode, keys')
                       ELSE Answer(manifest.episode, control, keys')
    <2>1. /\ manifest' = manifest /\ control' = control /\ sessions' = sessions
          /\ ~fails => PlayedSoFar(manifest.episode, manifest.provenance, records', control, keys')
          /\ TakeBoundary(next)
      BY <1>1, <1>4, PlayedOn
    <2>2. /\ IsManifest(manifest) /\ control \in Controls
          /\ SessionsHold(sessions, manifest.provenance)
      BY <1>1, <1>4 DEF PlayingInv, Play
    <2>3. ASSUME stage' = "playing"
          PROVE  /\ ~fails /\ Answer(manifest.episode, control, keys').kind = "frame"
                 /\ current' = Frame(manifest.episode, keys')
      <3>1. next.kind = "frame" /\ current' = next.frame
        BY <2>1, <2>3 DEF TakeBoundary
      <3>2. ~fails
        BY <3>1 DEF Failure
      <3>3. next = Answer(manifest.episode, control, keys')
        BY <3>2
      <3>4. Answer(manifest.episode, control, keys').kind = "frame"
        BY <3>1, <3>3
      <3>5. Answer(manifest.episode, control, keys')
                = [kind |-> "frame", frame |-> Frame(manifest.episode, keys')]
        BY <3>4, AnswerKinds
      <3> QED
        BY <3>1, <3>2, <3>3, <3>4, <3>5
    <2> QED
      BY <2>1, <2>2, <2>3 DEF PlayingInv
  <1>5. ASSUME Rejected PROVE PlayingInv'
    <2>1. /\ manifest' = [manifest EXCEPT !.rejections = manifest.rejections + 1]
          /\ stage = "playing" /\ control' = control /\ sessions' = sessions /\ keys' = keys
          /\ current' = current /\ records' = records
      BY <1>5 DEF Rejected
    <2>2. IsManifest(manifest)
      BY <1>1, <2>1 DEF PlayingInv
    <2>3. manifest' = [environment |-> manifest.environment, episode |-> manifest.episode,
                       provenance |-> manifest.provenance, rejections |-> manifest.rejections + 1]
      <3>1. manifest = [environment |-> manifest.environment, episode |-> manifest.episode,
                        provenance |-> manifest.provenance, rejections |-> manifest.rejections]
        BY <2>2 DEF IsManifest
      <3> QED
        BY <2>1, <3>1
    <2>4. IsManifest(manifest')
      BY <2>2, <2>3 DEF IsManifest, Resolved
    <2>5. manifest'.episode = manifest.episode /\ manifest'.provenance = manifest.provenance
      BY <2>3
    <2> QED
      BY <1>1, <2>1, <2>4, <2>5 DEF PlayingInv
  <1>6. ASSUME NEW key, NEW wrong, Misattribute(key, wrong) PROVE PlayingInv'
    BY <1>6 DEF Misattribute, PlayingInv
  <1>7. ASSUME Cancel PROVE PlayingInv'
    BY <1>7 DEF Cancel, PlayingInv
  <1>8. ASSUME Between PROVE PlayingInv'
    BY <1>8, NoneOpen DEF PlayingInv
  <1> QED
    BY <1>2, <1>3, <1>4, <1>5, <1>6, <1>7, <1>8 DEF CollectionNext, Step, Between

(* An episode that has ended is one, and unless it failed an account of its *)
(* play.                                                                    *)
LEMMA ClosedStep ==
    ASSUME CollectionInv, [CollectionNext]_vars
    PROVE  ClosedInv'
  <1>1. PlayingInv /\ IdleInv /\ ClosedInv
    BY DEF CollectionInv
  <1>2. CASE UNCHANGED vars
    BY <1>1, <1>2 DEF vars, run, ClosedInv, Envelope
  <1> DEFINE e == Envelope'
  <1>3. e.manifest = manifest' /\ e.records = records' /\ e.closure = closure'
    BY DEF Envelope
  <1>4. ASSUME NEW spec \in Specs, NEW c \in Controls, NEW roster \in Rosters(spec),
               Begin(spec, c, roster)
        PROVE  ClosedInv'
    <2> DEFINE next == Answer(spec, c, <<>>)
    <2>1. /\ IsManifest(manifest') /\ manifest'.episode = spec /\ control' = c /\ keys' = <<>>
          /\ PlayedSoFar(spec, manifest'.provenance, records', c, keys')
      BY <1>1, <1>4, Begun
    <2>2. ASSUME stage' = "closed"
          PROVE  next.kind # "frame" /\ closure' = ClosureOf(next) /\ ending' = next
      BY <1>4, <2>2 DEF Begin, TakeBoundary
    <2> HIDE DEF next
    <2>3. ASSUME stage' = "closed" PROVE IsEnvelope(e) /\ HonestEnd(e, c, next)
      <3>1. EndedBy(e, manifest', records', c, keys')
        BY <1>3, <2>1, <2>2, <2>3 DEF EndedBy, next
      <3>2. next = Answer(manifest'.episode, c, keys')
        BY <2>1 DEF next
      <3> HIDE DEF e
      <3> QED
        BY <2>1, <3>1, <3>2, BoundaryTaken
    <2> QED
      BY <2>1, <2>2, <2>3 DEF ClosedInv
  <1>5. ASSUME NEW key \in Range(current.request.keys), NEW cursor, NEW fails \in BOOLEAN,
               Play(key, cursor, fails)
        PROVE  ClosedInv'
    <2> DEFINE next == IF fails THEN Failure(manifest.episode, keys')
                       ELSE Answer(manifest.episode, control, keys')
    <2>1. /\ records' \in Seq(Range(records')) /\ \A i \in DOMAIN records' : IsRecord(records'[i])
          /\ manifest' = manifest /\ control' = control
          /\ ~fails => PlayedSoFar(manifest.episode, manifest.provenance, records', control, keys')
          /\ TakeBoundary(next)
      BY <1>1, <1>5, PlayedOn
    <2>2. IsManifest(manifest) /\ control \in Controls
      BY <1>1, <1>5 DEF PlayingInv, Play
    <2>3. ASSUME stage' = "closed"
          PROVE  next.kind # "frame" /\ closure' = ClosureOf(next) /\ ending' = next
      BY <2>1, <2>3 DEF TakeBoundary
    <2>4. ASSUME stage' = "closed" PROVE IsEnvelope(e)
      <3>1. IsClosure(closure')
        BY <2>3, <2>4, ClosuresAreTyped
      <3> QED
        BY <1>3, <2>1, <3>1 DEF IsEnvelope
    <2>5. ASSUME stage' = "closed", ~fails PROVE HonestEnd(e, control', ending')
      <3>1. next = Answer(manifest.episode, control, keys')
        BY <2>5
      <3>2. EndedBy(e, manifest, records', control, keys')
        BY <1>3, <2>1, <2>3, <2>5, <3>1 DEF EndedBy
      <3> HIDE DEF e, next
      <3> QED
        BY <2>1, <2>2, <2>3, <2>5, <3>1, <3>2, BoundaryTaken
    <2>6. ASSUME stage' = "closed", fails PROVE closure'.kind = "failed"
      <3>1. closure' = ClosureOf(Failure(manifest.episode, keys'))
        BY <2>3, <2>6
      <3> QED
        BY <3>1 DEF ClosureOf, Failure, FailedClosure
    <2> QED
      BY <2>1, <2>2, <2>4, <2>5, <2>6 DEF ClosedInv
  <1>6. ASSUME NEW key, NEW wrong, Misattribute(key, wrong) PROVE ClosedInv'
    <2>1. /\ records' = records /\ closure' = FailedClosure(Len(records)) /\ control' = control
          /\ stage = "playing"
      BY <1>6 DEF Misattribute
    <2>2. records \in Seq(Range(records)) /\ \A i \in DOMAIN records : IsRecord(records[i])
      BY <1>1, <2>1, SoFarRecords DEF PlayingInv
    <2>3. IsClosure(closure') /\ closure'.kind = "failed"
      BY <2>1, ClosuresAreTyped
    <2> QED
      BY <1>1, <1>3, <2>1, <2>2, <2>3 DEF ClosedInv, IsEnvelope, PlayingInv
  <1>7. ASSUME Rejected PROVE ClosedInv'
    BY <1>7 DEF Rejected, ClosedInv
  <1>8. ASSUME Cancel PROVE ClosedInv'
    <2> DEFINE s == manifest.episode
               end == Cancelled(s, control, keys)
    <2>1. /\ stage = "playing" /\ manifest' = manifest /\ control' = control
          /\ ending' = end /\ closure' = PendingClosure(current)
          /\ records' = LedToPending(records, current)
      BY <1>8 DEF Cancel
    <2>2. /\ IsManifest(manifest) /\ control \in Controls /\ s \in Specs
          /\ PlayedSoFar(s, manifest.provenance, records, control, keys)
          /\ Answer(s, control, keys).kind = "frame" /\ current = Frame(s, keys)
      BY <1>1, <2>1 DEF PlayingInv, IsManifest, Resolved
    <2>3. CutOffAt(e, manifest, records, control, keys)
      BY <1>3, <2>1, <2>2 DEF CutOffAt
    <2>4. /\ IsEnvelope(e) /\ WasPlayed(e, control) /\ Ending(e, control) = end
          /\ \A i \in DOMAIN e.records : ChoiceHolds(manifest.provenance, e.records[i])
      <3> HIDE DEF e
      <3> QED
        BY <2>3, PlayedToCancel
    <2>5. HonestChoices(e)
      <3> e.manifest = manifest
        BY <1>3, <2>1
      <3> HIDE DEF e
      <3> QED
        BY <2>2, <2>4, ChoicesAreHonest DEF IsManifest
    <2>6. EvidenceOf(end) # None
      <3>1. keys \in DOMAIN Game[s]
        BY <2>2, SoFarRecords DEF Reached
      <3> QED
        BY <2>2, <3>1, EvidenceAssumption
    <2>7. Resolved(e.manifest)
      BY <1>3, <2>1, <2>2 DEF IsManifest
    <2> HIDE DEF e, end
    <2>8. HonestEnd(e, control, end)
      BY <2>4, <2>5, <2>6, <2>7 DEF HonestEnd
    <2> QED
      BY <2>1, <2>2, <2>4, <2>8 DEF ClosedInv, e
  <1>9. ASSUME Between PROVE ClosedInv'
    BY <1>9, NoneOpen DEF ClosedInv
  <1> QED
    BY <1>2, <1>4, <1>5, <1>6, <1>7, <1>8, <1>9 DEF CollectionNext, Step, Between

(* Everything on the shelf was an episode of a run, and was played as it    *)
(* says until something is altered.                                         *)
LEMMA ShelfStep ==
    ASSUME CollectionInv, [CollectionNext]_vars
    PROVE  ShelfInv'
  <1>1. ShelfInv /\ ClosedInv
    BY DEF CollectionInv
  <1>2. ASSUME shelf' = shelf, altered' = altered PROVE ShelfInv'
    BY <1>1, <1>2 DEF ShelfInv
  <1>3. ASSUME UNCHANGED vars PROVE ShelfInv'
    BY <1>2, <1>3 DEF vars
  <1>4. ASSUME NEW spec, NEW c, NEW roster, Begin(spec, c, roster) PROVE ShelfInv'
    BY <1>2, <1>4 DEF Begin
  <1>5. ASSUME NEW key, NEW cursor, NEW fails, Play(key, cursor, fails) PROVE ShelfInv'
    BY <1>2, <1>5 DEF Play
  <1>6. ASSUME NEW key, NEW wrong, Misattribute(key, wrong) PROVE ShelfInv'
    BY <1>2, <1>6 DEF Misattribute
  <1>7. ASSUME Rejected \/ Cancel PROVE ShelfInv'
    BY <1>2, <1>7 DEF Rejected, Cancel
  <1>8. ASSUME Seal PROVE ShelfInv'
    <2> DEFINE x == IF closure.kind = "interrupted" THEN EvidenceOf(ending) ELSE None
               item == [envelope |-> Envelope, control |-> control, evidence |-> x]
    <2>1. /\ shelf' = Append(shelf, item) /\ altered' = altered /\ WellFormed(Envelope)
          /\ control \in Controls /\ IsEnvelope(Envelope)
          /\ closure.kind # "failed" => HonestEnd(Envelope, control, ending)
      BY <1>1, <1>8 DEF Seal, ClosedInv
    <2>2. Envelope.closure = closure
      BY DEF Envelope
    <2>3. IsItem(item)
      BY <2>1 DEF IsItem
    <2>4. ItemHolds(item)
      <3>1. control \in [process : Nat \ {0}, actions : Nat \ {0}] /\ control # None
        BY <2>1, ControlsAssumption
      <3>2. item.envelope = Envelope /\ item.control = control /\ item.evidence = x
        OBVIOUS
      <3> HIDE DEF item
      <3>3. ASSUME closure.kind # "failed"
            PROVE  HonestPlay(Envelope, control, x) /\ HonestChoices(Envelope)
        BY <2>1, <2>2, <3>1, <3>3 DEF HonestPlay, HonestEnd
      <3> QED
        BY <2>2, <3>2, <3>3 DEF ItemHolds
    <2> HIDE DEF item
    <2>5. /\ Append(shelf, item) \in Seq(Range(Append(shelf, item)))
          /\ DOMAIN Append(shelf, item) = 1..(Len(shelf) + 1)
          /\ \A i \in 1..Len(shelf) : Append(shelf, item)[i] = shelf[i]
          /\ Append(shelf, item)[Len(shelf) + 1] = item
      BY <1>1, AppendedIsSeq DEF ShelfInv
    <2>6. Len(shelf) \in Nat /\ DOMAIN shelf = 1..Len(shelf)
      BY <1>1 DEF ShelfInv
    <2>7. \A i \in 1..(Len(shelf) + 1) : i \in 1..Len(shelf) \/ i = Len(shelf) + 1
      BY <2>6
    <2> QED
      BY <1>1, <2>1, <2>3, <2>4, <2>5, <2>6, <2>7 DEF ShelfInv
  <1>9. ASSUME Alter PROVE ShelfInv'
    <2> DEFINE n == Len(shelf)
    <2>1. shelf \in Seq(Range(shelf)) /\ n \in Nat /\ DOMAIN shelf = 1..n /\ shelf # <<>>
      BY <1>1, <1>9 DEF ShelfInv, Alter
    <2>2. n \in DOMAIN shelf
      BY <2>1
    <2>3. IsItem(shelf[n]) /\ altered'
      BY <1>1, <1>9, <2>2 DEF ShelfInv, Alter
    <2>4. \E item : IsItem(item) /\ shelf' = [shelf EXCEPT ![n] = item]
      <3>1. CASE \E e \in Altered(Last(shelf).envelope) :
                    IsEnvelope(e) /\ shelf' = [shelf EXCEPT ![n].envelope = e]
        <4>1. PICK e : IsEnvelope(e) /\ shelf' = [shelf EXCEPT ![n].envelope = e]
          BY <3>1
        <4>2. IsItem([shelf[n] EXCEPT !.envelope = e])
          <5>1. [shelf[n] EXCEPT !.envelope = e] =
                    [envelope |-> e, control |-> shelf[n].control, evidence |-> shelf[n].evidence]
            BY <2>3 DEF IsItem
          <5> QED
            BY <2>3, <4>1, <5>1 DEF IsItem
        <4> QED
          BY <4>1, <4>2
      <3>2. CASE \E x \in AlteredEvidence(Last(shelf).evidence) :
                    shelf' = [shelf EXCEPT ![n].evidence = x]
        <4>1. PICK x : shelf' = [shelf EXCEPT ![n].evidence = x]
          BY <3>2
        <4>2. IsItem([shelf[n] EXCEPT !.evidence = x])
          <5>1. [shelf[n] EXCEPT !.evidence = x] =
                    [envelope |-> shelf[n].envelope, control |-> shelf[n].control, evidence |-> x]
            BY <2>3 DEF IsItem
          <5> QED
            BY <2>3, <5>1 DEF IsItem
        <4> QED
          BY <4>1, <4>2
      <3> QED
        BY <1>9, <3>1, <3>2 DEF Alter
    <2>5. PICK item : IsItem(item) /\ shelf' = [shelf EXCEPT ![n] = item]
      BY <2>4
    <2>6. /\ shelf' = [i \in 1..n |-> shelf'[i]]
          /\ \A i \in 1..n : shelf'[i] = IF i = n THEN item ELSE shelf[i]
      BY <2>1, <2>5
    <2>7. shelf' \in Seq(Range(shelf'))
      BY <2>1, <2>6, FunctionIsSeq
    <2>8. \A i \in DOMAIN shelf' : IsItem(shelf'[i])
      BY <1>1, <2>1, <2>5, <2>6 DEF ShelfInv
    <2> QED
      BY <2>3, <2>7, <2>8 DEF ShelfInv
  <1>10. ASSUME (\E c : Assemble(c)) \/ Refuse \/ (\E members : Publish(members)) PROVE ShelfInv'
    BY <1>2, <1>10 DEF Assemble, Refuse, Publish
  <1>11. ASSUME Misplace PROVE ShelfInv'
    <2>1. shelf' = shelf /\ altered'
      BY <1>11 DEF Misplace
    <2> QED
      BY <1>1, <2>1 DEF ShelfInv
  <1>12. ASSUME Admit PROVE ShelfInv'
    <2>1. shelf' = <<>>
      BY <1>12 DEF Admit
    <2>2. shelf' \in Seq(Range(shelf')) /\ DOMAIN shelf' = {}
      <3>1. \A S : <<>> \in Seq(S)
        OBVIOUS
      <3> QED
        BY <2>1, <3>1
    <2> QED
      BY <2>2 DEF ShelfInv
  <1> QED
    BY <1>3, <1>4, <1>5, <1>6, <1>7, <1>8, <1>9, <1>10, <1>11, <1>12
       DEF CollectionNext, Step

(* The envelopes of the shelf and the bundle made of it.                    *)
LEMMA ShelfAsSet ==
    ASSUME NEW s
    PROVE  /\ {s[i].envelope : i \in DOMAIN s} = Envelopes(Range(s))
           /\ {[envelope |-> s[i].envelope, evidence |-> s[i].evidence] :
                  i \in {j \in DOMAIN s : s[j].evidence # None}}
              = {[envelope |-> p.envelope, evidence |-> p.evidence] :
                    p \in {q \in Range(s) : q.evidence # None}}
  <1>1. \A p : p \in Range(s) <=> \E i \in DOMAIN s : p = s[i]
    BY DEF Range
  <1>2. {s[i].envelope : i \in DOMAIN s} = Envelopes(Range(s))
    <2>1. \A x : (\E i \in DOMAIN s : x = s[i].envelope) <=> \E p \in Range(s) : x = p.envelope
      BY <1>1
    <2> QED
      BY <2>1 DEF Envelopes
  <1> DEFINE entry(p) == [envelope |-> p.envelope, evidence |-> p.evidence]
  <1>3. {entry(s[i]) : i \in {j \in DOMAIN s : s[j].evidence # None}}
            = {entry(p) : p \in {q \in Range(s) : q.evidence # None}}
    <2> HIDE DEF entry
    <2>1. \A x : (\E i \in {j \in DOMAIN s : s[j].evidence # None} : x = entry(s[i]))
                    <=> \E p \in {q \in Range(s) : q.evidence # None} : x = entry(p)
      BY <1>1
    <2> QED
      BY <2>1
  <1> QED
    BY <1>2, <1>3

(* What is put before admission is the shelf, until something is altered or *)
(* admitted.                                                                *)
LEMMA BatchStep ==
    ASSUME CollectionInv, [CollectionNext]_vars
    PROVE  BatchInv'
  <1>1. BatchInv /\ ShelfInv
    BY DEF CollectionInv
  <1>2. version' = version
    BY DEF CollectionNext, vars
  <1>3. ASSUME UNCHANGED vars PROVE BatchInv'
    <2>1. /\ stage' = stage /\ shelf' = shelf /\ altered' = altered /\ shard' = shard
          /\ bundle' = bundle /\ options' = options
      BY <1>3 DEF vars, batch
    <2>2. Distinct' = Distinct /\ (Assembled(Range(shelf)))' = Assembled(Range(shelf))
      BY <1>2, <2>1 DEF Distinct, Assembled
    <2>3. Verified(shard, bundle, options)' = Verified(shard, bundle, options)
      BY <1>2, <2>1 DEF Verified, ValidBundle, Attributed, Admissible, EvidenceExact
    <2> QED
      BY <1>1, <2>1, <2>2, <2>3 DEF BatchInv
  <1>4. ASSUME stage' \notin {"assembled", "refused"} PROVE BatchInv'
    BY <1>4 DEF BatchInv
  <1>5. ASSUME NEW spec, NEW c, NEW roster, Begin(spec, c, roster) PROVE BatchInv'
    BY <1>4, <1>5 DEF Begin, TakeBoundary
  <1>6. ASSUME NEW key, NEW cursor, NEW fails, Play(key, cursor, fails) PROVE BatchInv'
    BY <1>4, <1>6 DEF Play, Record, TakeBoundary
  <1>7. ASSUME NEW key, NEW wrong, Misattribute(key, wrong) PROVE BatchInv'
    BY <1>4, <1>7 DEF Misattribute
  <1>8. ASSUME Rejected PROVE BatchInv'
    <2>1. stage' = "playing"
      BY <1>8 DEF Rejected
    <2> QED
      BY <1>4, <2>1
  <1>9. ASSUME Cancel \/ Seal \/ Alter \/ Admit \/ (\E members : Publish(members))
        PROVE  BatchInv'
    <2>1. stage' \in {"closed", "collecting", "published"}
      BY <1>9 DEF Cancel, Seal, Alter, Admit, Publish
    <2> QED
      BY <1>4, <2>1
  <1>10. ASSUME NEW c \in {shelf[i].control : i \in DOMAIN shelf}, Assemble(c) PROVE BatchInv'
    <2>1. /\ stage' = "assembled" /\ shelf' = shelf /\ altered' = altered
          /\ Distinct /\ shelf # <<>>
          /\ shard' = {shelf[i].envelope : i \in DOMAIN shelf}
          /\ bundle' = Bundle(shard',
                  {[envelope |-> shelf[i].envelope, evidence |-> shelf[i].evidence] :
                      i \in {j \in DOMAIN shelf : shelf[j].evidence # None}},
                  InitializationEvidence(shard'))
          /\ options' = [control |-> c, source |-> TRUE]
      BY <1>10 DEF Assemble
    <2>2. options'.control \in Controls /\ options'.source = TRUE
      BY <1>1, <1>10, <2>1 DEF ShelfInv, IsItem
    <2>3. shard' = Envelopes(Range(shelf))
      BY <2>1, ShelfAsSet
    <2>4. bundle' = Assembled(Range(shelf))
      <3>1. InitializationEvidence(shard') =
              IF version = 1 THEN {InitEvidence(init) : init \in Required(Envelopes(Range(shelf)))}
              ELSE {}
        BY <2>3 DEF InitializationEvidence
      <3> QED
        BY <2>1, <2>3, <3>1, ShelfAsSet DEF Assembled
    <2>5. (Assembled(Range(shelf)))' = Assembled(Range(shelf))
      BY <1>2, <2>1 DEF Assembled
    <2>6. Distinct'
      BY <2>1 DEF Distinct
    <2> QED
      BY <2>1, <2>2, <2>4, <2>5, <2>6 DEF BatchInv
  <1>11. ASSUME Misplace PROVE BatchInv'
    <2>1. /\ stage = "assembled" /\ stage' = "assembled" /\ altered' /\ shelf' = shelf
          /\ shard' = shard /\ options' = options
      BY <1>11 DEF Misplace
    <2>2. Distinct'
      BY <1>1, <2>1 DEF BatchInv, Distinct
    <2> QED
      BY <1>1, <2>1, <2>2 DEF BatchInv
  <1>12. ASSUME Refuse PROVE BatchInv'
    <2>1. /\ stage = "assembled" /\ stage' = "refused" /\ altered' = altered /\ shelf' = shelf
          /\ shard' = shard /\ options' = options /\ bundle' = bundle
          /\ ~Verified(shard, bundle, options)
      BY <1>12 DEF Refuse, batch
    <2>2. Distinct' /\ (Assembled(Range(shelf)))' = Assembled(Range(shelf))
      BY <1>1, <1>2, <2>1 DEF BatchInv, Distinct, Assembled
    <2>3. Verified(shard, bundle, options)' = Verified(shard, bundle, options)
      <3>1. ValidBundle(bundle, shard)' = ValidBundle(bundle, shard)
        BY <1>2, <2>1 DEF ValidBundle, EvidenceExact
      <3>2. ASSUME NEW e
            PROVE  Admissible(e, bundle, options)' = Admissible(e, bundle, options)
        <4>1. ASSUME NEW r PROVE Attributed(e, r, bundle)' = Attributed(e, r, bundle)
          BY <1>2, <2>1 DEF Attributed
        <4> QED
          BY <2>1, <4>1 DEF Admissible
      <3> QED
        BY <1>2, <2>1, <3>1, <3>2 DEF Verified
    <2> QED
      BY <1>1, <2>1, <2>2, <2>3 DEF BatchInv
  <1> QED
    BY <1>3, <1>5, <1>6, <1>7, <1>8, <1>9, <1>10, <1>11, <1>12 DEF CollectionNext, Step

(* A receipt is issued for a shard that was admitted, and for what could    *)
(* have been played.                                                        *)
LEMMA ReceiptsStep ==
    ASSUME CollectionInv, [CollectionNext]_vars
    PROVE  ReceiptsInv' /\ AdmittedWasPlayed'
  <1>1. BatchInv /\ ShelfInv /\ ReceiptsInv /\ AdmittedWasPlayed
    BY DEF CollectionInv
  <1>2. ASSUME receipts' = receipts, admitted' = admitted PROVE ReceiptsInv' /\ AdmittedWasPlayed'
    BY <1>1, <1>2 DEF ReceiptsInv, AdmittedWasPlayed
  <1>3. ASSUME UNCHANGED vars PROVE ReceiptsInv' /\ AdmittedWasPlayed'
    BY <1>2, <1>3 DEF vars
  <1>4. ASSUME NEW spec, NEW c, NEW roster, Begin(spec, c, roster)
        PROVE  ReceiptsInv' /\ AdmittedWasPlayed'
    BY <1>2, <1>4 DEF Begin
  <1>5. ASSUME NEW key, NEW cursor, NEW fails, Play(key, cursor, fails)
        PROVE  ReceiptsInv' /\ AdmittedWasPlayed'
    BY <1>2, <1>5 DEF Play
  <1>6. ASSUME NEW key, NEW wrong, Misattribute(key, wrong)
        PROVE  ReceiptsInv' /\ AdmittedWasPlayed'
    BY <1>2, <1>6 DEF Misattribute
  <1>7. ASSUME Rejected \/ Cancel \/ Seal \/ Alter PROVE ReceiptsInv' /\ AdmittedWasPlayed'
    BY <1>2, <1>7 DEF Rejected, Cancel, Seal, Alter
  <1>8. ASSUME (\E c : Assemble(c)) \/ Misplace \/ Refuse \/ (\E members : Publish(members))
        PROVE  ReceiptsInv' /\ AdmittedWasPlayed'
    BY <1>2, <1>8 DEF Assemble, Misplace, Refuse, Publish
  <1>9. ASSUME Admit PROVE ReceiptsInv' /\ AdmittedWasPlayed'
    <2> DEFINE r == Receipt(shard, bundle)
    <2>1. /\ stage = "assembled" /\ Verified(shard, bundle, options)
          /\ receipts' = receipts \cup {r} /\ admitted' = admitted \cup {shard}
      BY <1>9 DEF Admit
    <2>2. r.shard = shard /\ r.entries = {Commitment(e) : e \in shard} /\ r.evidence = bundle
      BY DEF Receipt
    <2> HIDE DEF r
    <2>3. ReceiptsInv'
      BY <1>1, <2>1, <2>2 DEF ReceiptsInv
    <2>4. options.control \in Controls /\ \A e \in shard : IsEnvelope(e)
      BY <1>1, <2>1 DEF BatchInv, ShelfInv, IsItem
    <2>5. ASSUME NEW e \in r.shard
          PROVE  /\ e.manifest.rejections = 0
                 /\ \E c \in Controls \cup
                        {[process |-> x.evidence.process, actions |-> x.evidence.actions] :
                            x \in EvidenceFor(r.evidence, e)} : WasPlayed(e, c)
                 /\ \A i \in DOMAIN e.records :
                       AttributionFits(e.manifest.provenance, e.records[i].frame, e.records[i].rng)
      <3>1. Admissible(e, bundle, options) /\ IsEnvelope(e)
        BY <2>1, <2>2, <2>4, <2>5 DEF Verified
      <3>2. /\ Eligible(e)
            /\ \E c \in {options.control}
                       \cup {[process |-> x.evidence.process, actions |-> x.evidence.actions] :
                                x \in EvidenceFor(bundle, e)} : WasPlayed(e, c)
            /\ \A i \in DOMAIN e.records :
                 AttributionFits(e.manifest.provenance, e.records[i].frame, e.records[i].rng)
        BY <3>1, AdmissibleWasPlayed
      <3> QED
        BY <2>2, <2>4, <3>2 DEF Eligible
    <2>6. AdmittedWasPlayed'
      BY <1>1, <2>1, <2>5 DEF AdmittedWasPlayed
    <2> QED
      BY <2>3, <2>6
  <1> QED
    BY <1>3, <1>4, <1>5, <1>6, <1>7, <1>8, <1>9 DEF CollectionNext, Step

(* A dataset is made of admitted episodes.                                  *)
LEMMA DatasetStep ==
    ASSUME CollectionInv, [CollectionNext]_vars
    PROVE  DatasetWasAdmitted'
  <1>1. ReceiptsInv /\ DatasetWasAdmitted
    BY DEF CollectionInv
  <1>2. ASSUME dataset' = dataset, admitted \subseteq admitted' PROVE DatasetWasAdmitted'
    BY <1>1, <1>2 DEF DatasetWasAdmitted
  <1>3. ASSUME UNCHANGED vars PROVE DatasetWasAdmitted'
    BY <1>2, <1>3 DEF vars
  <1>4. ASSUME NEW spec, NEW c, NEW roster, Begin(spec, c, roster) PROVE DatasetWasAdmitted'
    BY <1>2, <1>4 DEF Begin
  <1>5. ASSUME NEW key, NEW cursor, NEW fails, Play(key, cursor, fails)
        PROVE  DatasetWasAdmitted'
    BY <1>2, <1>5 DEF Play
  <1>6. ASSUME NEW key, NEW wrong, Misattribute(key, wrong) PROVE DatasetWasAdmitted'
    BY <1>2, <1>6 DEF Misattribute
  <1>7. ASSUME Rejected \/ Cancel \/ Seal \/ Alter PROVE DatasetWasAdmitted'
    BY <1>2, <1>7 DEF Rejected, Cancel, Seal, Alter
  <1>8. ASSUME (\E c : Assemble(c)) \/ Misplace \/ Refuse \/ Admit PROVE DatasetWasAdmitted'
    BY <1>2, <1>8 DEF Assemble, Misplace, Refuse, Admit
  <1>9. ASSUME NEW members, Publish(members) PROVE DatasetWasAdmitted'
    <2>1. dataset' = members /\ admitted' = admitted /\ ValidDataset(members, receipts)
      BY <1>9 DEF Publish
    <2>2. ASSUME NEW m \in members
          PROVE  /\ m.shard \in admitted /\ m.envelope \in m.shard
                 /\ m.record = RecordId(m.envelope) /\ m.gameplay = GameplayId(m.envelope)
      <3>1. /\ m.receipt \in receipts /\ m.receipt.shard = m.shard
            /\ \E c \in m.receipt.entries :
                  c.record = m.record /\ c.gameplay = m.gameplay /\ c.envelope = m.envelope
        BY <2>1 DEF ValidDataset, Committed
      <3>2. PICK e \in m.shard : /\ Commitment(e).record = m.record
                                 /\ Commitment(e).gameplay = m.gameplay
                                 /\ Commitment(e).envelope = m.envelope
        BY <1>1, <3>1 DEF ReceiptsInv
      <3>3. e = m.envelope /\ m.record = RecordId(e) /\ m.gameplay = GameplayId(e)
        BY <3>2 DEF Commitment
      <3> QED
        BY <1>1, <3>1, <3>2, <3>3 DEF ReceiptsInv
    <2>3. \A m, o \in members : o.envelope = m.envelope => o = m
      BY <2>1, <2>2 DEF ValidDataset
    <2> QED
      BY <2>1, <2>2, <2>3 DEF DatasetWasAdmitted
  <1> QED
    BY <1>3, <1>4, <1>5, <1>6, <1>7, <1>8, <1>9 DEF CollectionNext, Step

(* Records with the same frames and attributions have the same draws.       *)
LEMMA SameDraws ==
    ASSUME NEW n \in Nat,
           \A j \in 1..n : records'[j].frame = records[j].frame /\ records'[j].rng = records[j].rng
    PROVE  /\ \A player : \A i \in 1..n : Draws(player, i)' <=> Draws(player, i)
           /\ \A player, word : \A i \in 1..(n + 1) :
                ComesTo(player, i, word)' <=> ComesTo(player, i, word)
  <1>1. ASSUME NEW player, NEW i \in 1..n PROVE Draws(player, i)' <=> Draws(player, i)
    BY DEF Draws
  <1>2. ASSUME NEW player, NEW word, NEW i \in 1..(n + 1)
        PROVE  ComesTo(player, i, word)' <=> ComesTo(player, i, word)
    <2>1. DrawsBefore(player, i)' = DrawsBefore(player, i)
      BY <1>1 DEF DrawsBefore
    <2>2. \A j \in DrawsBefore(player, i) : records'[j].rng = records[j].rng
      BY DEF DrawsBefore
    <2> QED
      BY <2>1, <2>2 DEF ComesTo
  <1> QED
    BY <1>1, <1>2

(* How far a choice takes the cursor of its stream.                         *)
LEMMA WordsUsed ==
    ASSUME NEW key, NEW cursor, Select(key, cursor), cursors[current.player] \in Nat
    PROVE  /\ cursor \in Nat
           /\ IF UsesRng(Deciding.artifact)
              THEN cursor - cursors[current.player] \in
                      IF R!Bounded(Len(current.request.keys)) THEN 1..2 ELSE {0}
              ELSE cursor = cursors[current.player]
  BY DEF Select, CursorAfter

(* A choice that is drawn continues the stream of who decides, and no other *)
(* stream; a choice that is not drawn continues none.                       *)
LEMMA DrawnOn ==
    ASSUME CollectionInv, NEW key \in Range(current.request.keys), NEW cursor,
           NEW fails \in BOOLEAN, Play(key, cursor, fails)
    PROVE  /\ DrawsTile' /\ cursors' \in [{0, 1} -> Nat]
           /\ \A player \in {0, 1} : ComesTo(player, Len(records) + 1, cursors[player])'
  <1>0. PICK n : n = Len(records)
    OBVIOUS
  <1> DEFINE d == current.player
             next == IF fails THEN Failure(manifest.episode, keys')
                     ELSE Answer(manifest.episode, control, keys')
             r == NewRecord(current, key, Attribution(cursor), next)
  <1>1. /\ PlayingInv /\ DrawsTile /\ stage = "playing" /\ Select(key, cursor)
        /\ cursors \in [{0, 1} -> Nat]
        /\ \A player \in {0, 1} : ComesTo(player, n + 1, cursors[player])
    BY <1>0 DEF CollectionInv, StreamsInv, Play
  <1>2. /\ IsManifest(manifest) /\ SessionsHold(sessions, manifest.provenance)
        /\ PlayedSoFar(manifest.episode, manifest.provenance, records, control, keys)
    BY <1>1 DEF PlayingInv
  <1>3. /\ records' = Append(records, r) /\ cursors' = [cursors EXCEPT ![d] = cursor]
        /\ AttributionFits(manifest.provenance, current, Attribution(cursor))
    BY DEF Play, Record
  <1>4. r.frame = current /\ r.rng = Attribution(cursor)
    BY DEF NewRecord
  <1> HIDE DEF r, next
  <1>5. n \in Nat /\ DOMAIN records = 1..n /\ records \in Seq(Range(records))
    BY <1>0, <1>2, SoFarRecords
  <1>6. /\ DOMAIN records' = 1..(n + 1) /\ Len(records') = n + 1
        /\ \A j \in 1..n : records'[j] = records[j]
        /\ records'[n + 1] = r
    BY <1>0, <1>3, <1>5, AppendedIsSeq
  <1>7. /\ d \in {0, 1}
        /\ r.rng.mode # "none" =>
             /\ r.rng.pre = cursors[d] /\ r.rng.post = cursor
             /\ r.rng.mode = "cursor" /\ UsesRng(Deciding.artifact)
        /\ r.rng.mode = "none" => ~UsesRng(Deciding.artifact)
    BY <1>2, <1>3, <1>4, AttributionHolds
  <1>8. cursors[d] \in Nat
    BY <1>1, <1>7
  <1>9. /\ cursor \in Nat
        /\ IF UsesRng(Deciding.artifact)
           THEN cursor - cursors[d] \in
                   IF R!Bounded(Len(current.request.keys)) THEN 1..2 ELSE {0}
           ELSE cursor = cursors[d]
    BY <1>1, <1>8, WordsUsed
  <1>10. cursors' \in [{0, 1} -> Nat]
    BY <1>1, <1>3, <1>9
  <1>11. /\ \A player : \A i \in 1..n : Draws(player, i)' <=> Draws(player, i)
         /\ \A player, word : \A i \in 1..(n + 1) :
                ComesTo(player, i, word)' <=> ComesTo(player, i, word)
    BY <1>5, <1>6, SameDraws
  <1>12. ASSUME NEW player \in {0, 1}
         PROVE  Draws(player, n + 1)' <=> (player = d /\ r.rng.mode = "cursor")
    BY <1>4, <1>6 DEF Draws
  <1>13. DrawsTile'
    <2>1. ASSUME NEW player \in {0, 1}, NEW i \in 1..n, Draws(player, i)'
          PROVE  /\ ComesTo(player, i, records[i].rng.pre)'
                 /\ records'[i].rng.post - records'[i].rng.pre \in
                       IF R!Bounded(Len(records'[i].frame.request.keys)) THEN 1..2 ELSE {0}
      <3>1. records'[i] = records[i] /\ Draws(player, i) /\ i \in 1..(n + 1)
        BY <1>5, <1>6, <1>11, <2>1
      <3>2. /\ ComesTo(player, i, records[i].rng.pre)
            /\ records[i].rng.post - records[i].rng.pre \in
                  IF R!Bounded(Len(records[i].frame.request.keys)) THEN 1..2 ELSE {0}
        BY <1>1, <1>5, <3>1 DEF DrawsTile
      <3> QED
        BY <1>11, <3>1, <3>2
    <2>2. ASSUME NEW player \in {0, 1}, Draws(player, n + 1)'
          PROVE  /\ ComesTo(player, n + 1, records[n + 1].rng.pre)'
                 /\ records'[n + 1].rng.post - records'[n + 1].rng.pre \in
                       IF R!Bounded(Len(records'[n + 1].frame.request.keys)) THEN 1..2 ELSE {0}
      <3>1. player = d /\ r.rng.mode = "cursor"
        BY <1>12, <2>2
      <3>2. r.rng.pre = cursors[d] /\ r.rng.post = cursor /\ UsesRng(Deciding.artifact)
        BY <1>7, <3>1
      <3>3. ComesTo(player, n + 1, cursors[d])
        BY <1>1, <3>1
      <3>4. n + 1 \in 1..(n + 1)
        BY <1>5
      <3> QED
        BY <1>4, <1>6, <1>9, <1>11, <3>2, <3>3, <3>4
    <2>3. \A i \in DOMAIN records' : i \in 1..n \/ i = n + 1
      BY <1>5, <1>6
    <2> QED
      BY <2>1, <2>2, <2>3 DEF DrawsTile
  <1>14. ASSUME NEW player \in {0, 1}
         PROVE  ComesTo(player, Len(records) + 1, cursors[player])'
    <2>1. DrawsBefore(player, n + 2)' =
            IF Draws(player, n + 1)' THEN DrawsBefore(player, n + 1)' \cup {n + 1}
            ELSE DrawsBefore(player, n + 1)'
      <3>1. (n + 2) - 1 = n + 1 /\ (n + 1) - 1 = n /\ 1..(n + 1) = 1..n \cup {n + 1}
        BY <1>5
      <3> QED
        BY <3>1 DEF DrawsBefore
    <2>2. Len(records') + 1 = n + 2
      BY <1>5, <1>6
    <2>3. CASE Draws(player, n + 1)'
      <3>1. player = d /\ r.rng.mode = "cursor"
        BY <1>12, <2>3
      <3>2. cursors'[player] = cursor /\ records'[n + 1].rng.post = cursor
        BY <1>1, <1>3, <1>6, <1>7, <3>1
      <3>3. /\ DrawsBefore(player, n + 2)' \subseteq 1..(n + 1)
            /\ n + 1 \in DrawsBefore(player, n + 2)'
        <4>1. DrawsBefore(player, n + 1)' \subseteq 1..(n + 1)
          BY <1>5 DEF DrawsBefore
        <4>2. n + 1 \in 1..(n + 1)
          BY <1>5
        <4> QED
          BY <2>1, <2>3, <4>1, <4>2
      <3> QED
        BY <2>2, <3>2, <3>3 DEF ComesTo
    <2>4. CASE ~Draws(player, n + 1)'
      <3>1. cursors'[player] = cursors[player]
        <4>1. CASE player = d
          <5>1. r.rng.mode = "none"
            BY <1>7, <1>12, <2>4, <4>1
          <5> QED
            BY <1>1, <1>3, <1>7, <1>9, <4>1, <5>1
        <4>2. CASE player # d
          BY <1>1, <1>3, <4>2
        <4> QED
          BY <4>1, <4>2
      <3>2. ComesTo(player, n + 1, cursors[player])
        BY <1>1
      <3>3. DrawsBefore(player, n + 2)' = DrawsBefore(player, n + 1)
        <4>1. DrawsBefore(player, n + 1)' = DrawsBefore(player, n + 1)
          BY <1>5, <1>11 DEF DrawsBefore
        <4> QED
          BY <2>1, <2>4, <4>1
      <3>4. \A j \in DrawsBefore(player, n + 1) : records'[j] = records[j]
        BY <1>5, <1>6 DEF DrawsBefore
      <3> QED
        BY <2>2, <3>1, <3>2, <3>3, <3>4 DEF ComesTo
    <2> QED
      BY <2>3, <2>4
  <1> QED
    BY <1>10, <1>13, <1>14

(* The streams are used one word after the other.                           *)
LEMMA StreamsStep ==
    ASSUME CollectionInv, [CollectionNext]_vars
    PROVE  StreamsInv' /\ DrawsTile'
  <1>1. StreamsInv /\ DrawsTile /\ IdleInv /\ PlayingInv
    BY DEF CollectionInv
  <1>2. ASSUME records' = records PROVE DrawsTile'
    BY <1>1, <1>2 DEF DrawsTile, Draws, DrawsBefore, ComesTo
  <1>3. ASSUME stage' # "playing", current' = None PROVE StreamsInv'
    BY <1>3 DEF StreamsInv
  <1>4. ASSUME stage' = stage, cursors' = cursors, records' = records, current' = current
        PROVE  StreamsInv'
    BY <1>1, <1>4 DEF StreamsInv, Draws, DrawsBefore, ComesTo
  <1>5. ASSUME UNCHANGED vars PROVE StreamsInv' /\ DrawsTile'
    BY <1>2, <1>4, <1>5 DEF vars, run
  <1>6. ASSUME NEW spec, NEW c, NEW roster, Begin(spec, c, roster)
        PROVE  StreamsInv' /\ DrawsTile'
    <2>1. /\ records' = records /\ cursors' = [player \in {0, 1} |-> 0] /\ stage = "collecting"
          /\ stage' = "playing" \/ (stage' = "closed" /\ current' = None)
      BY <1>6 DEF Begin, TakeBoundary
    <2>2. records' = <<>>
      BY <1>1, <2>1 DEF IdleInv
    <2>3. ASSUME NEW player \in {0, 1}
          PROVE  (ComesTo(player, Len(records) + 1, cursors[player]))'
      <3>1. Len(records') + 1 = 1 /\ 1..(1 - 1) = {}
        BY <2>2
      <3>2. cursors'[player] = 0
        BY <2>1
      <3> QED
        BY <3>1, <3>2 DEF ComesTo, DrawsBefore
    <2>4. cursors' \in [{0, 1} -> Nat]
      BY <2>1
    <2> QED
      BY <1>2, <2>1, <2>3, <2>4 DEF StreamsInv
  <1>7. ASSUME NEW key \in Range(current.request.keys), NEW cursor, NEW fails \in BOOLEAN,
               Play(key, cursor, fails)
        PROVE  StreamsInv' /\ DrawsTile'
    <2>1. stage' # "playing" => current' = None
      BY <1>7 DEF Play, Record, TakeBoundary
    <2> QED
      BY <1>7, <2>1, DrawnOn DEF StreamsInv
  <1>8. ASSUME NEW key, NEW wrong, Misattribute(key, wrong) PROVE StreamsInv' /\ DrawsTile'
    BY <1>2, <1>3, <1>8 DEF Misattribute
  <1>9. ASSUME Rejected PROVE StreamsInv' /\ DrawsTile'
    BY <1>2, <1>4, <1>9 DEF Rejected
  <1>10. ASSUME Cancel PROVE StreamsInv' /\ DrawsTile'
    <2>0. PICK n : n = Len(records)
      OBVIOUS
    <2>1. /\ stage = "playing" /\ records' = LedToPending(records, current)
          /\ stage' = "closed" /\ current' = None
      BY <1>10 DEF Cancel
    <2>2. /\ records \in Seq(Range(records)) /\ n \in Nat /\ DOMAIN records = 1..n
          /\ \A i \in DOMAIN records : IsRecord(records[i])
      BY <1>1, <2>0, <2>1, SoFarRecords DEF PlayingInv
    <2>3. records' = [i \in 1..n |-> IF i = n THEN LedTo(records[i], current) ELSE records[i]]
      BY <2>0, <2>1, <2>2, LedToPendingIs
    <2>4. ASSUME NEW i \in 1..n
          PROVE  records'[i].frame = records[i].frame /\ records'[i].rng = records[i].rng
      <3>1. /\ LedTo(records[i], current).frame = records[i].frame
            /\ LedTo(records[i], current).rng = records[i].rng
        BY <2>2 DEF LedTo, IsRecord
      <3> QED
        BY <2>3, <3>1
    <2>5. DOMAIN records' = 1..n
      BY <2>3
    <2>6. /\ \A player : \A i \in 1..n : Draws(player, i)' <=> Draws(player, i)
          /\ \A player, word : \A i \in 1..(n + 1) :
                ComesTo(player, i, word)' <=> ComesTo(player, i, word)
      BY <2>2, <2>4, SameDraws
    <2>7. DrawsTile'
      <3> SUFFICES ASSUME NEW player \in {0, 1}, NEW i \in 1..n, Draws(player, i)'
                   PROVE  /\ (ComesTo(player, i, records[i].rng.pre))'
                          /\ records'[i].rng.post - records'[i].rng.pre \in
                                IF R!Bounded(Len(records'[i].frame.request.keys)) THEN 1..2
                                ELSE {0}
        BY <2>5 DEF DrawsTile
      <3>1. Draws(player, i) /\ i \in 1..(n + 1)
        BY <2>2, <2>6
      <3>2. /\ ComesTo(player, i, records[i].rng.pre)
            /\ records[i].rng.post - records[i].rng.pre \in
                  IF R!Bounded(Len(records[i].frame.request.keys)) THEN 1..2 ELSE {0}
        BY <1>1, <2>2, <3>1 DEF DrawsTile
      <3> QED
        BY <2>4, <2>6, <3>1, <3>2
    <2> QED
      BY <1>3, <2>1, <2>7
  <1>11. ASSUME Seal PROVE StreamsInv' /\ DrawsTile'
    <2>1. stage' = "collecting" /\ current' = None /\ records' = <<>>
      BY <1>11 DEF Seal
    <2>2. DOMAIN records' = {}
      BY <2>1
    <2> QED
      BY <1>3, <2>1, <2>2 DEF DrawsTile
  <1>12. ASSUME Alter \/ (\E c : Assemble(c)) \/ Misplace \/ Admit \/ Refuse
                \/ (\E members : Publish(members))
         PROVE  StreamsInv' /\ DrawsTile'
    <2>1. /\ stage \in {"collecting", "assembled"}
          /\ stage' \in {"collecting", "assembled", "refused", "published"}
      BY <1>12 DEF Alter, Assemble, Misplace, Admit, Refuse, Publish
    <2>2. records' = records /\ current' = current
      BY <1>12 DEF Alter, Assemble, Misplace, Admit, Refuse, Publish, run
    <2>3. current' = None /\ stage' # "playing"
      BY <1>1, <2>1, <2>2 DEF StreamsInv
    <2> QED
      BY <1>2, <1>3, <2>2, <2>3
  <1> QED
    BY <1>5, <1>6, <1>7, <1>8, <1>9, <1>10, <1>11, <1>12 DEF CollectionNext, Step

----------------------------------------------------------------------------
(* The theorems *)

(* The invariant is inductive.                                             *)
LEMMA CollectionStep == CollectionInv /\ [CollectionNext]_vars => CollectionInv'
  <1> SUFFICES ASSUME CollectionInv, [CollectionNext]_vars PROVE CollectionInv'
    OBVIOUS
  <1> QED
    BY IdleStep, PlayingStep, ClosedStep, ShelfStep, BatchStep, ReceiptsStep, DatasetStep,
       StreamsStep DEF CollectionInv

(* It holds of every behaviour.                                             *)
LEMMA CollectionIsSafe == CollectionSpec => []CollectionInv
  BY NothingCollected, CollectionStep, PTL DEF CollectionSpec

(* The shelf before admission, unaltered and of admittable episodes only,   *)
(* is what passes every check.                                              *)
LEMMA ShelfIsVerified ==
    ASSUME CollectionInv, stage = "refused", ~altered,
           \A i \in DOMAIN shelf : Admittable(shelf[i], options.control)
    PROVE  Verified(shard, bundle, options)
  <1> DEFINE items == Range(shelf)
  <1>1. /\ shard = {shelf[i].envelope : i \in DOMAIN shelf} /\ Distinct /\ shelf # <<>>
        /\ options.source = TRUE /\ bundle = Assembled(items) /\ version \in {1, 2}
    BY DEF CollectionInv, BatchInv, VersionInv
  <1>2. shelf \in Seq(Range(shelf)) /\ \A i \in DOMAIN shelf : ItemHolds(shelf[i])
    BY DEF CollectionInv, ShelfInv
  <1>3. DOMAIN shelf = 1..Len(shelf) /\ Len(shelf) \in Nat /\ Len(shelf) > 0
    BY <1>1, <1>2
  <1>4. IsFiniteSet(items) /\ items # {}
    <2>1. IsFiniteSet(DOMAIN shelf)
      BY <1>3, FS_Interval
    <2>2. IsFiniteSet({shelf[i] : i \in DOMAIN shelf})
      BY <2>1, ImageIsFinite
    <2>3. 1 \in DOMAIN shelf
      BY <1>3
    <2> QED
      BY <2>2, <2>3 DEF Range
  <1>5. \A p, q \in items : p.envelope = q.envelope => p = q
    BY <1>1 DEF Range, Distinct
  <1>6. ASSUME NEW i \in DOMAIN shelf PROVE HonestItem(shelf[i], options)
    <2>1. Admittable(shelf[i], options.control) /\ ItemHolds(shelf[i])
      BY <1>2
    <2> QED
      BY <2>1 DEF Admittable, ItemHolds, HonestItem
  <1>7. HonestItems(items, options)
    <2>1. \A p \in items : HonestItem(p, options)
      BY <1>6 DEF Range
    <2> HIDE DEF items
    <2> QED
      BY <1>1, <1>4, <1>5, <2>1 DEF HonestItems
  <1>8. shard = Envelopes(items)
    BY <1>1, ShelfAsSet
  <1> QED
    BY <1>1, <1>7, <1>8, HonestIsVerified

(* No honest shard is refused: what the recorder sealed, and the runner put *)
(* beside it, passes the replay and every check of the verification         *)
(* (verify_candidate_shard_for_admission, verify_collection_for_admission_v2). *)
THEOREM HonestIsNeverRefused == CollectionSpec => []HonestIsAdmitted
  <1>1. CollectionInv => HonestIsAdmitted
    BY ShelfIsVerified DEF HonestIsAdmitted, CollectionInv, BatchInv
  <1> QED
    BY CollectionIsSafe, <1>1, PTL

(* What holds a receipt could have been recorded from play, each of its     *)
(* choices made by the policy in charge (issue_admission_receipt).          *)
THEOREM OnlyPlayIsAdmitted == CollectionSpec => []AdmittedWasPlayed
  <1>1. CollectionInv => AdmittedWasPlayed
    BY DEF CollectionInv
  <1> QED
    BY CollectionIsSafe, <1>1, PTL

(* A dataset holds admitted episodes, each once and under its own identity  *)
(* (validate_dataset_manifest).                                             *)
THEOREM OnlyAdmittedIsPublished == CollectionSpec => []DatasetWasAdmitted
  <1>1. CollectionInv => DatasetWasAdmitted
    BY DEF CollectionInv
  <1> QED
    BY CollectionIsSafe, <1>1, PTL

(* The draws of a run tile each stream from its first word on, and every    *)
(* candidate of a frame is as likely as any other (RandomLegalPolicy::select, *)
(* uniform_below_u64).                                                      *)
THEOREM EveryDrawIsFair == CollectionSpec => []DrawsAreFair
  <1>1. ASSUME CollectionInv, current # None
        PROVE  Len(current.request.keys) \in Nat /\ Len(current.request.keys) <= Words
    <2> DEFINE s == manifest.episode
    <2>1. /\ current = Frame(s, keys) /\ Answer(s, control, keys).kind = "frame" /\ s \in Specs
          /\ PlayedSoFar(s, manifest.provenance, records, control, keys)
      BY <1>1 DEF CollectionInv, StreamsInv, PlayingInv, IsManifest, Resolved
    <2>2. keys \in DOMAIN Game[s]
      BY <2>1, SoFarRecords DEF Reached
    <2>3. current.request = Turn(s, keys).request /\ ~Turn(s, keys).over
      BY <2>1 DEF Frame, Answer, Interruption
    <2> QED
      BY <2>1, <2>2, <2>3, GameAssumption, WordsAssumption
  <1>2. CollectionInv => DrawsAreFair
    <2> SUFFICES ASSUME CollectionInv PROVE DrawsAreFair
      OBVIOUS
    <2>1. DrawsTile
      BY DEF CollectionInv
    <2>2. ASSUME current # None, R!Bounded(Len(current.request.keys))
          PROVE  LET n == Len(current.request.keys)
                     Leading(i) == {raw \in 0..(Words - 1) :
                                      R!Accepted(raw, n) /\ R!Choice(raw, n) = i}
                 IN  \A i \in 0..(n - 1) :
                       Leading(i) # {} /\ Cardinality(Leading(i)) = Cardinality(Leading(0))
      <3> DEFINE n == Len(current.request.keys)
                 Leading(i) == {raw \in 0..(Words - 1) :
                                      R!Accepted(raw, n) /\ R!Choice(raw, n) = i}
                 k == (Words - n) \div n + 1
      <3>1. \A i \in 0..(n - 1) : Leading(i) # {} /\ Cardinality(Leading(i)) = k
        BY <1>1, <2>2, DrawsAreEven
      <3>2. 0 \in 0..(n - 1)
        <4>1. n > 1
          BY <2>2 DEF R!Bounded
        <4>2. n \in Nat
          BY <1>1, <2>2
        <4> QED
          BY <4>1, <4>2
      <3> HIDE DEF n, Leading, k
      <3>3. \A i \in 0..(n - 1) :
               Leading(i) # {} /\ Cardinality(Leading(i)) = Cardinality(Leading(0))
        BY <3>1, <3>2
      <3> QED
        BY <3>3 DEF n, Leading
    <2> QED
      BY <2>1, <2>2 DEF DrawsAreFair, DrawsTile
  <1> QED
    BY CollectionIsSafe, <1>2, PTL

----------------------------------------------------------------------------
(* Batches (ModelBatch).  Numbers first: a cell of a padded batch is a row  *)
(* of a sample, and the other way round.                                    *)

(* A product grows with what is multiplied. *)
LEMMA TimesGrows ==
    ASSUME NEW a \in Nat, NEW b \in Nat, NEW w \in Nat, a <= b
    PROVE  a * w \in Nat /\ b * w \in Nat /\ a * w <= b * w
<1>1. PICK d \in Nat : b = a + d
  <2>1. b - a \in Nat /\ b = a + (b - a)
    OBVIOUS
  <2> QED
    BY <2>1
<1>2. b * w = a * w + d * w
  BY <1>1
<1>3. a * w \in Nat /\ d * w \in Nat
  OBVIOUS
<1> QED
  BY <1>2, <1>3

(* Quotient and remainder. *)
LEMMA DividedIs ==
    ASSUME NEW a \in Nat, NEW w \in Nat \ {0}
    PROVE  a \div w \in Nat /\ a % w \in 0..(w - 1) /\ a = (a \div w) * w + (a % w)
  OBVIOUS

LEMMA DividedOnce ==
    ASSUME NEW q \in Nat, NEW w \in Nat \ {0}, NEW m \in 0..(w - 1)
    PROVE  (q * w + m) \div w = q /\ (q * w + m) % w = m
<1> DEFINE a == q * w + m
           x == a \div w
<1>1. a \in Nat /\ q * w \in Nat
  OBVIOUS
<1>2. x \in Nat /\ a % w \in 0..(w - 1) /\ a = x * w + (a % w)
  BY <1>1, DividedIs
<1>3. ASSUME x < q PROVE FALSE
  <2>1. (x + 1) * w <= q * w
    BY <1>2, <1>3, TimesGrows
  <2>2. (x + 1) * w = x * w + w /\ x * w \in Nat
    BY <1>2
  <2> HIDE DEF x
  <2> QED
    BY <1>1, <1>2, <2>1, <2>2
<1>4. ASSUME q < x PROVE FALSE
  <2>1. (q + 1) * w <= x * w
    BY <1>2, <1>4, TimesGrows
  <2>2. (q + 1) * w = q * w + w /\ x * w \in Nat
    BY <1>2
  <2> HIDE DEF x
  <2> QED
    BY <1>1, <1>2, <2>1, <2>2
<1>5. x = q
  BY <1>2, <1>3, <1>4
<1> QED
  BY <1>1, <1>2, <1>5

(* A cell is a row of a sample. *)
LEMMA CellIs ==
    ASSUME NEW n \in Nat, NEW w \in Nat, NEW cell \in 1..(n * w)
    PROVE  /\ w # 0 /\ SampleOf(cell, w) \in 1..n /\ RowOf(cell, w) \in 1..w
           /\ CellOf(SampleOf(cell, w), RowOf(cell, w), w) = cell
<1>1. n * w \in Nat /\ w # 0 /\ cell - 1 \in Nat /\ w \in Nat \ {0}
  OBVIOUS
<1> DEFINE q == (cell - 1) \div w
           m == (cell - 1) % w
<1>2. q \in Nat /\ m \in 0..(w - 1) /\ cell - 1 = q * w + m
  <2> HIDE DEF q, m
  <2>1. PICK a \in Nat : a = cell - 1
    BY <1>1
  <2>2. a \div w \in Nat /\ a % w \in 0..(w - 1) /\ a = (a \div w) * w + (a % w)
    BY <1>1, DividedIs
  <2> QED
    BY <2>1, <2>2 DEF q, m
<1>3. q < n
  <2> SUFFICES ASSUME n <= q PROVE FALSE
    BY <1>2
  <2>1. n * w <= q * w /\ q * w \in Nat
    BY <1>2, TimesGrows
  <2> HIDE DEF q, m
  <2> QED
    BY <1>1, <1>2, <2>1
<1> HIDE DEF q, m
<1>4. (q + 1) - 1 = q /\ (m + 1) - 1 = m /\ q + 1 \in 1..n /\ m + 1 \in 1..w
  BY <1>2, <1>3
<1>5. q * w + (m + 1) = cell
  BY <1>1, <1>2
<1>6. SampleOf(cell, w) = q + 1 /\ RowOf(cell, w) = m + 1
  BY DEF SampleOf, RowOf, q, m
<1> QED
  BY <1>1, <1>4, <1>5, <1>6 DEF CellOf

LEMMA CellBack ==
    ASSUME NEW n \in Nat, NEW w \in Nat, NEW i \in 1..n, NEW row \in 1..w
    PROVE  /\ CellOf(i, row, w) \in 1..(n * w)
           /\ SampleOf(CellOf(i, row, w), w) = i /\ RowOf(CellOf(i, row, w), w) = row
<1> DEFINE q == i - 1
           m == row - 1
<1>1. q \in Nat /\ m \in 0..(w - 1) /\ w \in Nat \ {0} /\ q + 1 = i /\ m + 1 = row
  OBVIOUS
<1>2. q * w \in Nat /\ n * w \in Nat /\ (q + 1) * w <= n * w /\ (q + 1) * w = q * w + w
  BY <1>1, TimesGrows
<1>3. (q * w + m) \div w = q /\ (q * w + m) % w = m
  <2> HIDE DEF q, m
  <2> QED
    BY ONLY <1>1, DividedOnce
<1>4. CellOf(i, row, w) = q * w + row /\ q * w + row - 1 = q * w + m
  BY <1>1, <1>2 DEF CellOf
<1>5. q * w + row \in 1..(n * w)
  BY <1>1, <1>2
<1> QED
  BY <1>1, <1>3, <1>4, <1>5 DEF SampleOf, RowOf

(* What holds of zero, and of the next number when of one, holds of all.    *)
LEMMA CountingUp ==
    ASSUME NEW G, 0 \in G, \A n \in Nat : n \in G => n + 1 \in G
    PROVE  \A n \in Nat : n \in G
<1> DEFINE Below == OpToRel(<, Nat)
           S == Nat \ G
<1>1. IsWellFoundedOn(Below, Nat)
  BY NatLessThanWellFounded
<1>2. \A a, b \in Nat : <<a, b>> \in Below <=> a < b
  BY DEF OpToRel
<1> HIDE DEF Below
<1>3. ASSUME S # {} PROVE FALSE
  <2>1. PICK k \in S : \A j \in S : ~(<<j, k>> \in Below)
    BY <1>1, <1>3, WFMin
  <2>2. k \in Nat /\ k \notin G /\ k # 0
    BY <2>1
  <2>3. k - 1 \in Nat /\ k - 1 < k /\ (k - 1) + 1 = k
    BY <2>2
  <2>4. k - 1 \in G
    BY <1>2, <2>1, <2>2, <2>3
  <2> QED
    BY <2>2, <2>3, <2>4
<1> QED
  BY <1>3

(* The offsets add up what is counted. *)
Up(counts, n, f) ==
    f = [i \in 0..n |-> IF i = 0 THEN 0 ELSE f[i - 1] + counts[i]]

LEMMA UpAt ==
    ASSUME NEW counts, NEW n \in Nat, NEW f
    PROVE  Up(counts, n, f) <=>
               /\ f = [i \in 0..n |-> f[i]] /\ f[0] = 0
               /\ \A i \in 1..n : f[i] = f[i - 1] + counts[i]
<1> DEFINE h == [i \in 0..n |-> IF i = 0 THEN 0 ELSE f[i - 1] + counts[i]]
<1>1. h[0] = 0 /\ \A i \in 1..n : h[i] = f[i - 1] + counts[i]
  OBVIOUS
<1>2. DOMAIN h = 0..n
  OBVIOUS
<1>5. \A i \in 0..n : h[i] = IF i = 0 THEN 0 ELSE f[i - 1] + counts[i]
  OBVIOUS
<1>6. h = [i \in 0..n |-> h[i]]
  OBVIOUS
<1> HIDE DEF h
<1>3. ASSUME f = h
      PROVE  f = [i \in 0..n |-> f[i]] /\ f[0] = 0 /\ \A i \in 1..n : f[i] = f[i - 1] + counts[i]
  BY <1>1, <1>3, <1>6
<1>4. ASSUME f = [i \in 0..n |-> f[i]], f[0] = 0, \A i \in 1..n : f[i] = f[i - 1] + counts[i]
      PROVE  f = h
  <2>1. ASSUME NEW i \in 0..n PROVE f[i] = h[i]
    <3>1. i = 0 \/ i \in 1..n
      OBVIOUS
    <3> QED
      BY <1>1, <1>4, <3>1
  <2> QED
    BY <1>4, <1>6, <2>1
<1> QED
  BY <1>3, <1>4 DEF Up, h

LEMMA UpExists ==
    ASSUME NEW counts, NEW n \in Nat
    PROVE  \E f : Up(counts, n, f)
<1> DEFINE G == {m \in Nat : \E f : Up(counts, m, f)}
<1>1. 0 \in G
  <2> DEFINE f == [i \in 0..0 |-> 0]
  <2>1. f = [i \in 0..0 |-> f[i]] /\ f[0] = 0 /\ 0 \in Nat /\ \A i \in 1..0 : FALSE
    OBVIOUS
  <2>3. \A i \in 1..0 : f[i] = f[i - 1] + counts[i]
    BY <2>1
  <2> HIDE DEF f
  <2>2. Up(counts, 0, f)
    BY ONLY <2>1, <2>3, UpAt
  <2> QED
    BY <2>2
<1>2. ASSUME NEW m \in Nat, m \in G PROVE m + 1 \in G
  <2>1. PICK f : Up(counts, m, f)
    BY <1>2
  <2> DEFINE g == [i \in 0..(m + 1) |-> IF i = m + 1 THEN f[m] + counts[m + 1] ELSE f[i]]
  <2>2. f[0] = 0 /\ \A i \in 1..m : f[i] = f[i - 1] + counts[i]
    BY ONLY <1>2, <2>1, UpAt
  <2>3. g[0] = 0 /\ g = [i \in 0..(m + 1) |-> g[i]]
    BY <2>2
  <2>4. ASSUME NEW i \in 1..(m + 1) PROVE g[i] = g[i - 1] + counts[i]
    <3>1. i - 1 \in 0..m /\ i - 1 # m + 1 /\ i - 1 \in 0..(m + 1)
      OBVIOUS
    <3>2. g[i - 1] = f[i - 1]
      BY <3>1
    <3>3. CASE i = m + 1
      BY <3>2, <3>3
    <3>4. CASE i # m + 1
      BY <2>2, <3>2, <3>4
    <3> QED
      BY <3>3, <3>4
  <2> HIDE DEF g
  <2>5. m + 1 \in Nat
    OBVIOUS
  <2>6. Up(counts, m + 1, g)
    BY <2>3, <2>4, <2>5, UpAt
  <2> QED
    BY <2>5, <2>6
<1> HIDE DEF G
<1>3. n \in G
  BY <1>1, <1>2, CountingUp
<1> QED
  BY <1>3 DEF G

LEMMA OffsetsAre ==
    ASSUME NEW counts \in Seq(Nat)
    PROVE  /\ Offsets(counts) \in [1..(Len(counts) + 1) -> Nat] /\ Offsets(counts)[1] = 0
           /\ \A i \in 1..Len(counts) : Offsets(counts)[i + 1] = Offsets(counts)[i] + counts[i]
<1> DEFINE n == Len(counts)
           f == CHOOSE g : Up(counts, n, g)
           o == [i \in 1..(n + 1) |-> f[i - 1]]
<1>1. n \in Nat
  OBVIOUS
<1>2. Up(counts, n, f)
  BY <1>1, UpExists
<1>3. Offsets(counts) = o
  BY DEF Offsets, Up
<1> HIDE DEF f
<1>4. f[0] = 0 /\ \A i \in 1..n : f[i] = f[i - 1] + counts[i]
  <2> HIDE DEF n
  <2> QED
    BY ONLY <1>1, <1>2, UpAt
<1> DEFINE G == {m \in Nat : m <= n => f[m] \in Nat}
<1>5. \A m \in Nat : m \in G
  <2>1. 0 \in G
    BY <1>4
  <2>2. ASSUME NEW m \in Nat, m \in G PROVE m + 1 \in G
    <3>1. CASE m + 1 <= n
      <4>1. m <= n /\ m + 1 \in 1..n /\ (m + 1) - 1 = m
        BY <1>1, <3>1
      <4>2. f[m + 1] = f[m] + counts[m + 1] /\ counts[m + 1] \in Nat /\ f[m] \in Nat
        BY <1>4, <2>2, <4>1
      <4> QED
        BY <4>2
    <3> QED
      BY <3>1
  <2> HIDE DEF G
  <2> QED
    BY <2>1, <2>2, CountingUp
<1>6. \A m \in 0..n : f[m] \in Nat
  BY <1>5
<1> HIDE DEF n
<1>7. ASSUME NEW i \in 1..(n + 1) PROVE o[i] \in Nat
  <2>1. i - 1 \in 0..n
    BY <1>1
  <2> QED
    BY <1>6, <2>1
<1>8. o[1] = 0
  BY <1>1, <1>4
<1>9. ASSUME NEW i \in 1..n PROVE o[i + 1] = o[i] + counts[i]
  <2>1. i + 1 \in 1..(n + 1) /\ (i + 1) - 1 = i /\ i \in 1..(n + 1)
    BY <1>1
  <2> QED
    BY <1>4, <2>1
<1>10. o \in [1..(n + 1) -> Nat]
  BY <1>7
<1> HIDE DEF o
<1> QED
  BY <1>3, <1>8, <1>9, <1>10 DEF n

(* One sequence after the other. *)
LEMMA Appended ==
    ASSUME NEW T, NEW a \in Seq(T), NEW b \in Seq(T)
    PROVE  /\ a \o b \in Seq(T) /\ Len(a \o b) = Len(a) + Len(b)
           /\ \A k \in 1..Len(a) : (a \o b)[k] = a[k]
           /\ \A k \in 1..Len(b) : (a \o b)[Len(a) + k] = b[k]
  OBVIOUS

Then(a, b) == a \o b

(* The first of a sequence of sequences, flattened, for as many as there are. *)
Joining(s, n, f) == f = [i \in 1..n |-> IF i = 1 THEN s[i] ELSE Then(f[i - 1], s[i])]

LEMMA JoiningAt ==
    ASSUME NEW s, NEW n \in Nat, NEW f
    PROVE  Joining(s, n, f) <=>
               /\ f = [i \in 1..n |-> f[i]] /\ (n # 0 => f[1] = s[1])
               /\ \A i \in 2..n : f[i] = Then(f[i - 1], s[i])
<1> DEFINE h == [i \in 1..n |-> IF i = 1 THEN s[i] ELSE Then(f[i - 1], s[i])]
<1>5. \A i \in 1..n : h[i] = IF i = 1 THEN s[i] ELSE Then(f[i - 1], s[i])
  OBVIOUS
<1>7. (n # 0 => 1 \in 1..n) /\ \A i \in 2..n : i \in 1..n /\ i # 1
  OBVIOUS
<1>2. DOMAIN h = 1..n
  OBVIOUS
<1>6. h = [i \in 1..n |-> h[i]]
  OBVIOUS
<1> HIDE DEF h
<1>1. (n # 0 => h[1] = s[1]) /\ \A i \in 2..n : h[i] = Then(f[i - 1], s[i])
  BY <1>5, <1>7
<1>3. ASSUME f = h
      PROVE  f = [i \in 1..n |-> f[i]] /\ (n # 0 => f[1] = s[1])
             /\ \A i \in 2..n : f[i] = Then(f[i - 1], s[i])
  BY <1>1, <1>3, <1>6
<1>4. ASSUME f = [i \in 1..n |-> f[i]], n # 0 => f[1] = s[1],
             \A i \in 2..n : f[i] = Then(f[i - 1], s[i])
      PROVE  f = h
  <2>1. ASSUME NEW i \in 1..n PROVE f[i] = h[i]
    <3>1. n # 0 /\ (i = 1 \/ i \in 2..n)
      OBVIOUS
    <3> QED
      BY <1>1, <1>4, <3>1
  <2> QED
    BY <1>4, <1>6, <2>1
<1> QED
  BY <1>3, <1>4 DEF Joining, h

LEMMA JoiningExists ==
    ASSUME NEW s, NEW n \in Nat
    PROVE  \E f : Joining(s, n, f)
<1> DEFINE G == {m \in Nat : \E f : Joining(s, m, f)}
<1>1. 0 \in G
  <2> DEFINE f == [i \in 1..0 |-> s[i]]
  <2>1. f = [i \in 1..0 |-> f[i]] /\ 0 \in Nat /\ \A i \in 2..0 : FALSE
    OBVIOUS
  <2> HIDE DEF f
  <2>2. Joining(s, 0, f)
    BY <2>1, JoiningAt
  <2> QED
    BY <2>2
<1>2. ASSUME NEW m \in Nat, m \in G PROVE m + 1 \in G
  <2>1. PICK f : Joining(s, m, f)
    BY <1>2
  <2> DEFINE g == [i \in 1..(m + 1) |->
                      IF i = m + 1 THEN IF m = 0 THEN s[1] ELSE Then(f[m], s[m + 1]) ELSE f[i]]
  <2>2. (m # 0 => f[1] = s[1]) /\ \A i \in 2..m : f[i] = Then(f[i - 1], s[i])
    BY <2>1, JoiningAt
  <2>3. g[1] = s[1] /\ g = [i \in 1..(m + 1) |-> g[i]]
    <3>1. 1 \in 1..(m + 1) /\ (1 = m + 1 <=> m = 0)
      OBVIOUS
    <3> QED
      BY <2>2, <3>1
  <2>4. ASSUME NEW i \in 2..(m + 1) PROVE g[i] = Then(g[i - 1], s[i])
    <3>1. i - 1 \in 1..m /\ i - 1 # m + 1 /\ i - 1 \in 1..(m + 1) /\ i \in 1..(m + 1) /\ m # 0
      OBVIOUS
    <3>2. g[i - 1] = f[i - 1]
      BY <3>1
    <3>3. CASE i = m + 1
      BY <3>1, <3>2, <3>3
    <3>4. CASE i # m + 1
      BY <2>2, <3>1, <3>2, <3>4
    <3> QED
      BY <3>3, <3>4
  <2> HIDE DEF g
  <2>5. m + 1 \in Nat
    OBVIOUS
  <2>6. Joining(s, m + 1, g)
    BY <2>3, <2>4, <2>5, JoiningAt
  <2> QED
    BY <2>5, <2>6
<1> HIDE DEF G
<1>3. n \in G
  BY <1>1, <1>2, CountingUp
<1> QED
  BY <1>3 DEF G

Lengths(s) == [i \in 1..Len(s) |-> Len(s[i])]

(* Flattened, every sequence is where the offsets say. *)
LEMMA FlattenedIs ==
    ASSUME NEW T, NEW s \in Seq(Seq(T)), Len(s) # 0, NEW o, o = Offsets(Lengths(s))
    PROVE  /\ FlattenSeq(s) \in Seq(T) /\ Len(FlattenSeq(s)) = o[Len(s) + 1]
           /\ o \in [1..(Len(s) + 1) -> Nat] /\ o[1] = 0
           /\ \A i \in 1..Len(s) : Len(s[i]) \in Nat /\ o[i + 1] = o[i] + Len(s[i])
           /\ \A i \in 1..Len(s) : \A k \in 1..Len(s[i]) :
                 o[i] + k <= o[Len(s) + 1] /\ FlattenSeq(s)[o[i] + k] = s[i][k]
<1> DEFINE n == Len(s)
           f == CHOOSE g : Joining(s, n, g)
<1>1. n \in Nat /\ n # 0 /\ n \in 1..n
  OBVIOUS
<1>2. Joining(s, n, f)
  BY <1>1, JoiningExists
<1>3. FlattenSeq(s) = f[n]
  BY <1>1 DEF FlattenSeq, Joining, Then
<1> HIDE DEF f
<1>4. f[1] = s[1] /\ \A i \in 2..n : f[i] = Then(f[i - 1], s[i])
  <2> HIDE DEF n
  <2> QED
    BY <1>1, <1>2, JoiningAt
<1>5. Lengths(s) \in Seq(Nat) /\ Len(Lengths(s)) = n /\ \A i \in 1..n : Lengths(s)[i] = Len(s[i])
  BY <1>1 DEF Lengths
<1>6. /\ o \in [1..(n + 1) -> Nat] /\ o[1] = 0
      /\ \A i \in 1..n : Len(s[i]) \in Nat /\ o[i + 1] = o[i] + Len(s[i])
  BY <1>5, OffsetsAre
<1>7. \A i \in 1..n : s[i] \in Seq(T)
  OBVIOUS
<1> DEFINE Good(m) == /\ f[m] \in Seq(T) /\ Len(f[m]) = o[m + 1]
                      /\ \A i \in 1..m : \A k \in 1..Len(s[i]) :
                            o[i] + k <= o[m + 1] /\ f[m][o[i] + k] = s[i][k]
<1> HIDE DEF n
<1>8. Good(1)
  <2>1. 1 \in 1..n
    BY <1>1
  <2>2. f[1] \in Seq(T) /\ f[1] = s[1] /\ Len(s[1]) \in Nat /\ o[1] = 0 /\ o[1 + 1] = Len(s[1])
    BY <1>4, <1>6, <1>7, <2>1
  <2> QED
    BY <2>2
<1>9. ASSUME NEW m \in 1..n, m + 1 \in 1..n, Good(m) PROVE Good(m + 1)
  <2>1. f[m + 1] = f[m] \o s[m + 1] /\ s[m + 1] \in Seq(T) /\ f[m] \in Seq(T) /\ Len(f[m]) = o[m + 1]
    <3>1. m + 1 \in 2..n /\ (m + 1) - 1 = m
      BY <1>1, <1>9
    <3> QED
      BY <1>4, <1>7, <1>9, <3>1 DEF Then
  <2>2. o[m + 1] \in Nat /\ o[(m + 1) + 1] = o[m + 1] + Len(s[m + 1]) /\ Len(s[m + 1]) \in Nat
    <3>1. m + 1 \in 1..(n + 1)
      BY <1>1, <1>9
    <3> QED
      BY <1>6, <1>9, <3>1
  <2> DEFINE a == f[m]
             b == s[m + 1]
  <2>3. a \in Seq(T) /\ b \in Seq(T) /\ f[m + 1] = a \o b /\ f[m] = a /\ s[m + 1] = b
    BY <2>1
  <2> HIDE DEF a, b
  <2>4. /\ a \o b \in Seq(T) /\ Len(a \o b) = Len(a) + Len(b)
        /\ \A k \in 1..Len(a) : (a \o b)[k] = a[k]
        /\ \A k \in 1..Len(b) : (a \o b)[Len(a) + k] = b[k]
    BY <2>3, Appended
  <2>5. ASSUME NEW i \in 1..(m + 1), NEW k \in 1..Len(s[i])
        PROVE  o[i] + k <= o[(m + 1) + 1] /\ f[m + 1][o[i] + k] = s[i][k]
    <3>1. CASE i = m + 1
      <4>1. Len(a) = o[i] /\ b = s[i] /\ k \in 1..Len(b) /\ o[i] + k <= o[i] + Len(b)
        BY <2>1, <2>2, <2>3, <3>1
      <4> QED
        BY <2>2, <2>3, <2>4, <3>1, <4>1
    <3>2. CASE i # m + 1
      <4>1. i \in 1..m /\ i \in 1..n /\ i \in 1..(n + 1)
        BY <1>1, <1>9, <3>2
      <4>2. o[i] + k <= o[m + 1] /\ a[o[i] + k] = s[i][k] /\ o[i] \in Nat /\ Len(s[i]) \in Nat
        BY <1>6, <1>9, <2>3, <4>1
      <4>3. k \in Nat /\ k >= 1
        BY <4>2
      <4>6. PICK x \in Nat, y \in Nat, z \in Nat, l \in Nat :
               x = o[i] /\ y = o[m + 1] /\ z = Len(s[m + 1]) /\ l = k
        BY <2>2, <4>2, <4>3
      <4>7. x + l <= y /\ Len(a) = y /\ o[(m + 1) + 1] = y + z /\ l >= 1
        BY <2>1, <2>2, <2>3, <4>2, <4>3, <4>6
      <4>9. x + l \in 1..y /\ x + l <= y + z
        BY <4>7
      <4>8. x + k \in 1..y /\ x + k <= y + z
        BY <4>6, <4>9
      <4>4. o[i] + k \in 1..Len(a)
        BY <4>6, <4>7, <4>8
      <4>5. o[i] + k <= o[(m + 1) + 1]
        BY <4>6, <4>7, <4>8
      <4> QED
        BY <2>3, <2>4, <4>2, <4>4, <4>5
    <3> QED
      BY <3>1, <3>2
  <2>6. f[m + 1] \in Seq(T) /\ Len(f[m + 1]) = o[(m + 1) + 1]
    BY <2>1, <2>2, <2>3, <2>4
  <2> QED
    BY <2>5, <2>6
<1> HIDE DEF Good
<1> DEFINE G == {m \in Nat : m + 1 \in 1..n => Good(m + 1)}
<1>10. Good(n)
  <2>1. 0 \in G
    BY <1>8
  <2>2. ASSUME NEW m \in Nat, m \in G PROVE m + 1 \in G
    <3>1. CASE (m + 1) + 1 \in 1..n
      <4>1. m + 1 \in 1..n /\ m + 1 \in Nat
        BY <1>1, <3>1
      <4>2. Good(m + 1)
        BY <2>2, <4>1
      <4>3. Good((m + 1) + 1)
        BY <1>9, <3>1, <4>1, <4>2
      <4> QED
        BY <4>1, <4>3
    <3>2. m + 1 \in Nat
      OBVIOUS
    <3> QED
      BY <3>1, <3>2
  <2> HIDE DEF G
  <2>3. n - 1 \in G
    <3>1. n - 1 \in Nat
      BY <1>1
    <3> QED
      BY <2>1, <2>2, <3>1, CountingUp
  <2> USE DEF G
  <2>4. (n - 1) + 1 = n
    BY <1>1
  <2> QED
    BY <1>1, <2>3, <2>4
<1> USE DEF Good
<1> QED
  BY <1>3, <1>6, <1>10 DEF n

(* Rows that come with those before them are the first ones.                *)
LEMMA FirstRows ==
    ASSUME NEW w \in Nat, NEW S \in SUBSET (1..w),
           \A row \in S : row # 1 => row - 1 \in S
    PROVE  Cardinality(S) \in 0..w /\ S = 1..Cardinality(S)
<1> DEFINE First(m) == \E k \in 0..m : S \cap (1..m) = 1..k
           G == {m \in Nat : m <= w => First(m)}
<1>1. First(0)
  <2>1. 0 \in 0..0 /\ S \cap (1..0) = 1..0
    OBVIOUS
  <2> QED
    BY <2>1
<1>2. ASSUME NEW m \in Nat, m + 1 <= w, First(m) PROVE First(m + 1)
  <2>1. PICK k \in 0..m : S \cap (1..m) = 1..k
    BY <1>2
  <2>2. CASE m + 1 \notin S
    <3>1. S \cap (1..(m + 1)) = 1..k /\ k \in 0..(m + 1)
      BY <2>1, <2>2
    <3> QED
      BY <3>1
  <2>3. CASE m + 1 \in S
    <3>1. k = m
      <4>1. CASE m = 0
        BY <2>1, <4>1
      <4>2. CASE m # 0
        <5>1. m \in S /\ m \in 1..m
          BY <2>3, <4>2
        <5>2. m \in 1..k
          BY <2>1, <5>1
        <5> QED
          BY <2>1, <5>2
      <4> QED
        BY <4>1, <4>2
    <3>2. S \cap (1..(m + 1)) = 1..(m + 1)
      BY <2>1, <2>3, <3>1
    <3>3. m + 1 \in 0..(m + 1)
      OBVIOUS
    <3> QED
      BY <3>2, <3>3
  <2> QED
    BY <2>2, <2>3
<1> HIDE DEF First
<1>3. w \in G
  <2>1. 0 \in G
    BY <1>1
  <2>2. ASSUME NEW m \in Nat, m \in G PROVE m + 1 \in G
    BY <1>2, <2>2
  <2> HIDE DEF G
  <2> QED
    BY <2>1, <2>2, CountingUp
<1>4. First(w)
  BY <1>3
<1> USE DEF First
<1>5. PICK k \in 0..w : S \cap (1..w) = 1..k
  BY <1>4
<1>6. S = 1..k
  BY <1>5
<1>7. Cardinality(1..k) = k
  BY FS_Interval
<1> QED
  BY <1>6, <1>7

(***************************************************************************)
(* A padded batch has its cells, row by row and sample by sample.           *)
(***************************************************************************)
WidthOf(p, column) == p.widths[LaidOutAs(column)]
Cells(p, column) == 1..(Len(p.headers) * WidthOf(p, column))

Shaped(p) ==
    /\ p = [headers |-> p.headers, widths |-> p.widths, values |-> p.values, masks |-> p.masks]
    /\ Len(p.headers) \in Nat \ {0} /\ DOMAIN p.headers = 1..Len(p.headers)
    /\ p.headers = [i \in DOMAIN p.headers |-> p.headers[i]]
    /\ p.widths \in [Lists -> Nat]
    /\ p.values = [column \in Columns |-> p.values[column]]
    /\ p.masks = [list \in Lists |-> p.masks[list]]
    /\ \A column \in Columns :
          p.values[column] = [cell \in Cells(p, column) |-> p.values[column][cell]]
    /\ \A list \in Lists : p.masks[list] \in [Cells(p, list) -> 0..2]

LEMMA ListsAreColumns ==
    /\ Lists \subseteq Columns /\ Stored \subseteq Columns
    /\ \A list \in Lists : LaidOutAs(list) = list
    /\ \A column \in Columns : LaidOutAs(column) \in Lists
  BY DEF Lists, Stored, Columns, LaidOutAs

(* When its masks put rows first, a list has as many rows of a sample as    *)
(* are kept, and they are the first ones.                                   *)
LEMMA KeptAreFirst ==
    ASSUME NEW p, Shaped(p), NEW list \in Lists, RowsFirst(p, list),
           NEW i \in 1..Len(p.headers)
    PROVE  /\ Kept(p, list, i) \in 0..p.widths[list]
           /\ \A row \in 1..p.widths[list] :
                 p.masks[list][CellOf(i, row, p.widths[list])] =
                     IF row <= Kept(p, list, i) THEN 1 ELSE 0
<1> DEFINE w == p.widths[list]
           n == Len(p.headers)
           S == {row \in 1..w : p.masks[list][CellOf(i, row, w)] = 1}
<1>1. w \in Nat /\ n \in Nat
  BY DEF Shaped
<1>2. DOMAIN p.masks[list] = 1..(n * w)
  BY ListsAreColumns DEF Shaped, Cells, WidthOf
<1>3. \A cell \in 1..(n * w) :
         /\ p.masks[list][cell] <= 1
         /\ p.masks[list][cell] = 1 /\ RowOf(cell, w) > 1 => p.masks[list][cell - 1] = 1
  BY <1>2 DEF RowsFirst
<1>4. \A cell \in 1..(n * w) : p.masks[list][cell] \in {0, 1}
  <2> SUFFICES ASSUME NEW cell \in 1..(n * w) PROVE p.masks[list][cell] \in {0, 1}
    OBVIOUS
  <2>1. p.masks[list][cell] \in 0..2
    BY ListsAreColumns DEF Shaped, Cells, WidthOf
  <2>2. p.masks[list][cell] <= 1
    BY <1>3
  <2> QED
    BY <2>1, <2>2
<1> HIDE DEF w, n
<1>5. S \in SUBSET (1..w)
  OBVIOUS
<1>6. ASSUME NEW row \in S, row # 1 PROVE row - 1 \in S
  <2>1. row \in 1..w /\ i \in 1..n /\ row - 1 \in 1..w
    BY <1>1, <1>6 DEF n
  <2>2. CellOf(i, row, w) \in 1..(n * w) /\ RowOf(CellOf(i, row, w), w) = row
    BY <1>1, <2>1, CellBack
  <2>3. CellOf(i, row - 1, w) = CellOf(i, row, w) - 1
    <3>1. PICK x \in Int : x = (i - 1) * w
      BY <1>1, <2>1
    <3> QED
      BY <1>1, <2>1, <3>1 DEF CellOf
  <2>4. row > 1
    BY <1>1, <1>6, <2>1
  <2>5. p.masks[list][CellOf(i, row, w) - 1] = 1
    BY <1>3, <2>2, <2>4
  <2> QED
    BY <2>1, <2>3, <2>5
<1>7. Cardinality(S) \in 0..w /\ S = 1..Cardinality(S)
  <2> HIDE DEF S
  <2> QED
    BY <1>1, <1>5, <1>6, FirstRows
<1>8. Kept(p, list, i) = Cardinality(S)
  BY DEF Kept, w
<1>9. ASSUME NEW row \in 1..w
      PROVE  p.masks[list][CellOf(i, row, w)] = IF row <= Cardinality(S) THEN 1 ELSE 0
  <2>1. CellOf(i, row, w) \in 1..(n * w)
    BY <1>1, CellBack DEF n
  <2>2. p.masks[list][CellOf(i, row, w)] \in {0, 1}
    BY <1>4, <2>1
  <2>3. row \in S <=> p.masks[list][CellOf(i, row, w)] = 1
    OBVIOUS
  <2>4. row \in S <=> row <= Cardinality(S)
    <3> DEFINE c == Cardinality(S)
    <3>1. c \in 0..w /\ S = 1..c
      BY <1>7
    <3> HIDE DEF c, S
    <3>2. row \in 1..c <=> row <= c
      BY <1>1, <3>1
    <3> QED
      BY <3>1, <3>2 DEF c
  <2> HIDE DEF S
  <2> QED
    BY <2>2, <2>3, <2>4
<1> HIDE DEF S
<1> QED
  BY <1>7, <1>8, <1>9 DEF w

(* Numbers that are bounded have a greatest. *)
LEMMA MaxIs ==
    ASSUME NEW S \in SUBSET Nat, S # {}, NEW b \in Nat, \A x \in S : x <= b
    PROVE  Max(S) \in S /\ \A x \in S : x <= Max(S)
<1> DEFINE Greatest == \E m \in S : \A x \in S : x <= m
           G == {n \in Nat : (\A x \in S : x <= n) => Greatest}
<1>1. 0 \in G
  <2> SUFFICES ASSUME \A x \in S : x <= 0 PROVE Greatest
    BY DEF G
  <2>1. PICK m \in S : TRUE
    OBVIOUS
  <2>2. \A x \in S : x = 0
    OBVIOUS
  <2>3. \A x \in S : x <= m
    BY <2>1, <2>2
  <2> QED
    BY <2>1, <2>3
<1>2. ASSUME NEW n \in Nat, n \in G PROVE n + 1 \in G
  <2> SUFFICES ASSUME \A x \in S : x <= n + 1 PROVE Greatest
    BY DEF G
  <2>1. CASE n + 1 \in S
    BY <2>1
  <2>2. CASE n + 1 \notin S
    <3>1. \A x \in S : x <= n
      BY <2>2
    <3> QED
      BY <1>2, <3>1
  <2> QED
    BY <2>1, <2>2
<1> HIDE DEF G
<1>3. b \in G
  BY <1>1, <1>2, CountingUp
<1>4. Greatest
  BY <1>3 DEF G
<1>5. \E m \in S : \A x \in S : m >= x
  BY <1>4
<1>6. Max(S) = CHOOSE m \in S : \A x \in S : m >= x
  BY DEF Max
<1>7. Max(S) \in S /\ \A x \in S : Max(S) >= x
  BY <1>5, <1>6
<1> QED
  BY <1>7

(***************************************************************************)
(* What is laid out is found again.                                         *)
(***************************************************************************)
Fits(headers, rows) ==
    /\ Len(headers) \in Nat \ {0} /\ DOMAIN headers = 1..Len(headers)
    /\ \A column \in Columns :
          /\ \E T : rows[column] \in Seq(Seq(T))
          /\ Len(rows[column]) = Len(headers)
          /\ \A i \in 1..Len(headers) :
                Len(rows[column][i]) = Len(rows[LaidOutAs(column)][i])

LEMMA SliceOf ==
    ASSUME NEW T, NEW s \in Seq(T), NEW a \in Nat, NEW t \in Seq(T), a + Len(t) <= Len(s),
           \A k \in 1..Len(t) : s[a + k] = t[k]
    PROVE  SubSeq(s, a + 1, a + Len(t)) = t
<1> DEFINE l == Len(t)
           u == SubSeq(s, a + 1, a + l)
<1>1. l \in Nat /\ Len(s) \in Nat
  OBVIOUS
<1>2. u \in Seq(T) /\ Len(u) = l /\ \A k \in 1..l : u[k] = s[a + k]
  <2> HIDE DEF l
  <2>1. (a + l) - (a + 1) + 1 = l /\ a + 1 \in Int /\ a + l \in Int
        /\ \A k \in 1..l : (a + 1) + k - 1 = a + k
    BY <1>1
  <2>2. ASSUME NEW i \in (a + 1)..(a + l) PROVE s[i] \in T
    <3>1. i \in 1..Len(s)
      BY <1>1 DEF l
    <3> QED
      BY <3>1
  <2> HIDE DEF u
  <2>3. /\ u \in Seq(T) /\ Len(u) = IF a + 1 <= a + l THEN (a + l) - (a + 1) + 1 ELSE 0
        /\ \A k \in 1..((a + l) - (a + 1) + 1) : u[k] = s[(a + 1) + k - 1]
    <3> DEFINE b == a + 1
               c == a + l
    <3>1. b \in Int /\ c \in Int /\ \A i \in b..c : s[i] \in T
      BY <2>1, <2>2
    <3> HIDE DEF b, c
    <3>2. /\ SubSeq(s, b, c) \in Seq(T)
          /\ Len(SubSeq(s, b, c)) = IF b <= c THEN c - b + 1 ELSE 0
          /\ \A k \in 1..(c - b + 1) : SubSeq(s, b, c)[k] = s[b + k - 1]
      BY ONLY <3>1, SubSeqProperties
    <3> QED
      BY <3>2 DEF u, b, c
  <2>4. (IF a + 1 <= a + l THEN (a + l) - (a + 1) + 1 ELSE 0) = l
    BY <1>1
  <2> QED
    BY <2>1, <2>3, <2>4
<1>3. \A k \in 1..l : u[k] = t[k]
  BY <1>2
<1> HIDE DEF u
<1>4. u = [k \in 1..l |-> u[k]] /\ t = [k \in 1..l |-> t[k]]
  BY <1>2
<1> QED
  BY <1>3, <1>4 DEF u

LEMMA LaidIs ==
    ASSUME NEW headers, NEW rows, Fits(headers, rows), NEW r, r = Laid(headers, rows)
    PROVE  /\ Size(r) = Len(headers)
           /\ \A list \in Lists : \A i \in 1..Size(r) :
                 Length(r, list, i) = Len(rows[list][i]) /\ Length(r, list, i) \in Nat
           /\ \A column \in Columns : \A i \in 1..Size(r) :
                 Slice(r, column, i) = rows[column][i]
<1> DEFINE n == Len(headers)
<1>1. n \in Nat \ {0} /\ DOMAIN headers = 1..n
  BY DEF Fits
<1>2. Size(r) = n /\ r.headers = headers
  BY DEF Laid, Size
<1> HIDE DEF n
<1>3. ASSUME NEW column \in Columns
      PROVE  LET s == rows[column]
                 o == r.offsets[LaidOutAs(column)]
             IN  /\ o \in [1..(n + 1) -> Nat]
                 /\ \A i \in 1..n : Len(s[i]) \in Nat /\ o[i + 1] = o[i] + Len(s[i])
                 /\ \A i \in 1..n : Slice(r, column, i) = s[i]
  <2> DEFINE s == rows[column]
             list == LaidOutAs(column)
             o == r.offsets[list]
  <2>1. PICK T : s \in Seq(Seq(T))
    BY DEF Fits
  <2>2. Len(s) = n /\ list \in Lists /\ \A i \in 1..n : Len(s[i]) = Len(rows[list][i])
    BY ListsAreColumns DEF Fits, n
  <2>3. o = Offsets([i \in 1..n |-> Len(rows[list][i])])
    BY <1>1, <2>2 DEF Laid
  <2>4. [i \in 1..n |-> Len(rows[list][i])] = Lengths(s)
    BY <2>2 DEF Lengths
  <2>5. o = Offsets(Lengths(s))
    BY <2>3, <2>4
  <2>6. r.flat[column] = FlattenSeq(s)
    BY DEF Laid
  <2> HIDE DEF s, o, list
  <2>7. /\ FlattenSeq(s) \in Seq(T) /\ Len(FlattenSeq(s)) = o[n + 1]
        /\ o \in [1..(n + 1) -> Nat] /\ o[1] = 0
        /\ \A i \in 1..n : Len(s[i]) \in Nat /\ o[i + 1] = o[i] + Len(s[i])
        /\ \A i \in 1..n : \A k \in 1..Len(s[i]) :
              o[i] + k <= o[n + 1] /\ FlattenSeq(s)[o[i] + k] = s[i][k]
    <3>1. Len(s) # 0
      BY <1>1, <2>2
    <3>2. /\ FlattenSeq(s) \in Seq(T) /\ Len(FlattenSeq(s)) = o[Len(s) + 1]
          /\ o \in [1..(Len(s) + 1) -> Nat] /\ o[1] = 0
          /\ \A i \in 1..Len(s) : Len(s[i]) \in Nat /\ o[i + 1] = o[i] + Len(s[i])
          /\ \A i \in 1..Len(s) : \A k \in 1..Len(s[i]) :
                o[i] + k <= o[Len(s) + 1] /\ FlattenSeq(s)[o[i] + k] = s[i][k]
      BY <2>1, <2>5, <3>1, FlattenedIs
    <3>3. Len(s) = n
      BY <2>2
    <3> QED
      BY <3>2, <3>3
  <2>8. ASSUME NEW i \in 1..n PROVE SubSeq(FlattenSeq(s), o[i] + 1, o[i + 1]) = s[i]
    <3> DEFINE f == FlattenSeq(s)
               t == s[i]
               a == o[i]
    <3>1. f \in Seq(T) /\ t \in Seq(T) /\ a \in Nat /\ Len(t) \in Nat
      <4>1. i \in 1..(n + 1) /\ i \in 1..Len(s)
        BY <1>1, <2>2
      <4>2. s[i] \in Seq(T)
        BY <2>1, <4>1
      <4>3. o[i] \in Nat
        BY <2>7, <4>1
      <4> QED
        BY <2>7, <4>2, <4>3
    <3>2. \A k \in 1..Len(t) : a + k <= Len(f) /\ f[a + k] = t[k]
      BY <2>7
    <3>3. o[i + 1] = a + Len(t)
      BY <2>7
    <3>4. \A j \in 1..n : o[j] <= o[n + 1]
      <4> DEFINE G == {d \in Nat : d <= n => o[n + 1 - d] <= o[n + 1]}
      <4>1. 0 \in G
        <5>1. o[n + 1] \in Nat /\ (n + 1) - 0 = n + 1
          BY <1>1, <2>7
        <5> QED
          BY <5>1
      <4>2. ASSUME NEW d \in Nat, d \in G PROVE d + 1 \in G
        <5> SUFFICES ASSUME d + 1 <= n PROVE o[n + 1 - (d + 1)] <= o[n + 1]
          OBVIOUS
        <5> DEFINE j == n + 1 - (d + 1)
        <5>1. j \in 1..n /\ j + 1 = n + 1 - d /\ d <= n /\ j \in 1..(n + 1)
          BY <1>1
        <5>2. o[j + 1] = o[j] + Len(s[j]) /\ Len(s[j]) \in Nat /\ o[j] \in Nat
          BY <2>7, <5>1
        <5>3. o[j + 1] <= o[n + 1] /\ o[n + 1] \in Nat
          BY <1>1, <2>7, <4>2, <5>1
        <5> HIDE DEF j
        <5>4. o[j] <= o[n + 1]
          BY <5>2, <5>3
        <5> QED
          BY <5>4 DEF j
      <4> HIDE DEF G
      <4>3. \A d \in Nat : d \in G
        BY <4>1, <4>2, CountingUp
      <4> SUFFICES ASSUME NEW j \in 1..n PROVE o[j] <= o[n + 1]
        OBVIOUS
      <4>4. n + 1 - j \in G /\ n + 1 - j <= n /\ n + 1 - (n + 1 - j) = j
        BY <1>1, <4>3
      <4> QED
        BY <4>4 DEF G
    <3>5. a + Len(t) <= Len(f)
      <4>1. CASE Len(t) = 0
        BY <2>7, <3>1, <3>4, <4>1
      <4>2. CASE Len(t) # 0
        <5>1. Len(t) \in 1..Len(t)
          BY <3>1, <4>2
        <5> QED
          BY <3>2, <5>1
      <4> QED
        BY <4>1, <4>2
    <3> HIDE DEF f, t, a
    <3>6. SubSeq(f, a + 1, a + Len(t)) = t
      BY <3>1, <3>2, <3>5, SliceOf
    <3> QED
      BY <3>3, <3>6 DEF f, t, a
  <2>9. \A i \in 1..n : Slice(r, column, i) = s[i]
    BY <2>6, <2>8 DEF Slice, o, list
  <2> QED
    BY <2>7, <2>9 DEF s, o, list
<1>4. ASSUME NEW list \in Lists, NEW i \in 1..n
      PROVE  Length(r, list, i) = Len(rows[list][i]) /\ Length(r, list, i) \in Nat
  <2>1. list \in Columns /\ LaidOutAs(list) = list /\ i \in 1..(n + 1)
    BY <1>1, ListsAreColumns
  <2> DEFINE o == r.offsets[list]
  <2>2. o[i] \in Nat /\ Len(rows[list][i]) \in Nat /\ o[i + 1] = o[i] + Len(rows[list][i])
    BY <1>3, <2>1
  <2> HIDE DEF o
  <2>3. o[i + 1] - o[i] = Len(rows[list][i])
    BY <2>2
  <2> QED
    BY <2>2, <2>3 DEF Length, o
<1> QED
  BY <1>2, <1>3, <1>4 DEF n

(* Padded batches with the same rows and widths are the same.               *)
LEMMA SameCells ==
    ASSUME NEW p, NEW q, Shaped(p), Shaped(q), p.headers = q.headers, p.widths = q.widths,
           \A column \in Columns : \A i \in 1..Len(p.headers) :
              \A row \in 1..WidthOf(p, column) :
                 p.values[column][CellOf(i, row, WidthOf(p, column))] =
                     q.values[column][CellOf(i, row, WidthOf(p, column))],
           \A list \in Lists : \A i \in 1..Len(p.headers) : \A row \in 1..WidthOf(p, list) :
                 p.masks[list][CellOf(i, row, WidthOf(p, list))] =
                     q.masks[list][CellOf(i, row, WidthOf(p, list))]
    PROVE  p = q
<1> DEFINE n == Len(p.headers)
<1>1. ASSUME NEW column \in Columns
      PROVE  /\ Cells(p, column) = Cells(q, column)
             /\ \A cell \in Cells(p, column) : \E i \in 1..n : \E row \in 1..WidthOf(p, column) :
                   cell = CellOf(i, row, WidthOf(p, column))
  <2> DEFINE w == WidthOf(p, column)
  <2>1. n \in Nat /\ w \in Nat
    BY ListsAreColumns DEF Shaped, WidthOf
  <2>2. Cells(p, column) = 1..(n * w) /\ Cells(q, column) = 1..(n * w)
    BY DEF Cells, WidthOf
  <2> HIDE DEF n, w
  <2>3. ASSUME NEW cell \in 1..(n * w)
        PROVE  \E i \in 1..n : \E row \in 1..w : cell = CellOf(i, row, w)
    BY <2>1, CellIs
  <2> QED
    BY <2>2, <2>3 DEF n, w
<1>2. ASSUME NEW column \in Columns PROVE p.values[column] = q.values[column]
  <2>1. \A cell \in Cells(p, column) : p.values[column][cell] = q.values[column][cell]
    BY <1>1
  <2>2. /\ p.values[column] = [cell \in Cells(p, column) |-> p.values[column][cell]]
        /\ q.values[column] = [cell \in Cells(p, column) |-> q.values[column][cell]]
    BY <1>1 DEF Shaped
  <2>3. [cell \in Cells(p, column) |-> p.values[column][cell]]
            = [cell \in Cells(p, column) |-> q.values[column][cell]]
    BY <2>1
  <2> QED
    BY <2>2, <2>3
<1>3. ASSUME NEW list \in Lists PROVE p.masks[list] = q.masks[list]
  <2>1. list \in Columns
    BY ListsAreColumns
  <2>2. \A cell \in Cells(p, list) : p.masks[list][cell] = q.masks[list][cell]
    BY <1>1, <2>1
  <2>3. p.masks[list] \in [Cells(p, list) -> 0..2] /\ q.masks[list] \in [Cells(p, list) -> 0..2]
    BY <1>1, <2>1 DEF Shaped
  <2> QED
    BY <2>2, <2>3
<1>4. p.values = q.values
  <2>1. /\ p.values = [column \in Columns |-> p.values[column]]
        /\ q.values = [column \in Columns |-> q.values[column]]
    BY DEF Shaped
  <2>2. [column \in Columns |-> p.values[column]] = [column \in Columns |-> q.values[column]]
    BY <1>2
  <2> QED
    BY <2>1, <2>2
<1>5. p.masks = q.masks
  <2>1. /\ p.masks = [list \in Lists |-> p.masks[list]]
        /\ q.masks = [list \in Lists |-> q.masks[list]]
    BY DEF Shaped
  <2>2. [list \in Lists |-> p.masks[list]] = [list \in Lists |-> q.masks[list]]
    BY <1>3
  <2> QED
    BY <2>1, <2>2
<1>6. /\ p = [headers |-> p.headers, widths |-> p.widths, values |-> p.values, masks |-> p.masks]
      /\ q = [headers |-> q.headers, widths |-> q.widths, values |-> q.values, masks |-> q.masks]
  BY DEF Shaped
<1> QED
  BY <1>4, <1>5, <1>6

(***************************************************************************)
(* What is padded is laid out in rows, those of the sample first.           *)
(***************************************************************************)
Filled(q, rows) ==
    /\ \A column \in Columns : \A i \in 1..Len(q.headers) : \A row \in 1..WidthOf(q, column) :
          q.values[column][CellOf(i, row, WidthOf(q, column))] =
              IF row <= Len(rows[LaidOutAs(column)][i]) THEN rows[column][i][row]
              ELSE Padding(column)
    /\ \A list \in Lists : \A i \in 1..Len(q.headers) : \A row \in 1..WidthOf(q, list) :
          q.masks[list][CellOf(i, row, WidthOf(q, list))] =
              IF row <= Len(rows[list][i]) THEN 1 ELSE 0

(* What is asked for is what there is room for. *)
LEMMA WideEnough ==
    ASSUME NEW headers, NEW rows, Fits(headers, rows), NEW r, r = Laid(headers, rows),
           NEW list \in Lists, NEW w \in Nat
    PROVE  /\ Longest(r, list) \in Nat
           /\ ~(w < Longest(r, list)) <=> \A i \in 1..Size(r) : Len(rows[list][i]) <= w
<1> DEFINE S == {0} \cup {Length(r, list, i) : i \in 1..Size(r)}
           n == Size(r)
           o == Offsets(Lengths(rows[list]))
<1>1. \A i \in 1..Size(r) : Length(r, list, i) = Len(rows[list][i]) /\ Length(r, list, i) \in Nat
  BY LaidIs
<1>2. S \in SUBSET Nat /\ S # {}
  BY <1>1
<1>3. Size(r) = Len(headers) /\ list \in Columns
  BY LaidIs, ListsAreColumns
<1>4. PICK T : rows[list] \in Seq(Seq(T))
  BY <1>3 DEF Fits
<1>5. Len(rows[list]) = Size(r) /\ Size(r) \in Nat \ {0}
  BY <1>3 DEF Fits
<1>6. \E b \in Nat : \A x \in S : x <= b
  <2> DEFINE s == rows[list]
  <2>1. s \in Seq(Seq(T)) /\ Len(s) # 0
    BY <1>4, <1>5
  <2> HIDE DEF s
  <2>2. /\ Offsets(Lengths(s)) \in [1..(Len(s) + 1) -> Nat]
        /\ \A i \in 1..Len(s) : \A k \in 1..Len(s[i]) :
              Offsets(Lengths(s))[i] + k <= Offsets(Lengths(s))[Len(s) + 1]
    BY <2>1, FlattenedIs
  <2> DEFINE b == Offsets(Lengths(s))[Len(s) + 1]
  <2>3. Len(s) \in Nat /\ Len(s) = Size(r)
    BY <1>5 DEF s
  <2>4. b \in Nat
    BY <2>2, <2>3
  <2>5. ASSUME NEW x \in S PROVE x <= b
    <3>1. CASE x = 0
      BY <2>4, <3>1
    <3>2. CASE x # 0
      <4>1. PICK i \in 1..Size(r) : x = Length(r, list, i)
        BY <3>2
      <4>2. x = Len(s[i]) /\ x \in Nat
        BY <1>1, <4>1 DEF s
      <4>3. x \in 1..Len(s[i]) /\ i \in 1..Len(s) /\ i \in 1..(Len(s) + 1)
        BY <2>3, <3>2, <4>2
      <4>4. Offsets(Lengths(s))[i] + x <= b
        BY <2>2, <4>3
      <4>5. PICK y \in Nat : y = Offsets(Lengths(s))[i]
        BY <2>2, <4>3
      <4>6. y + x <= b
        BY <4>4, <4>5
      <4> HIDE DEF b
      <4> QED
        BY <2>4, <4>2, <4>6
    <3> QED
      BY <3>1, <3>2
  <2> QED
    BY <2>4, <2>5
<1>7. Longest(r, list) = Max(S)
  BY DEF Longest
<1> HIDE DEF S
<1>8. Max(S) \in S /\ \A x \in S : x <= Max(S)
  BY <1>2, <1>6, MaxIs
<1>9. ~(w < Max(S)) <=> \A x \in S : x <= w
  <2>1. PICK m \in S : m = Max(S) /\ \A x \in S : x <= m
    BY <1>8
  <2>2. m \in Nat /\ \A x \in S : x \in Nat
    BY <1>2
  <2>3. ASSUME ~(w < m), NEW x \in S PROVE x <= w
    BY <2>1, <2>2, <2>3
  <2>4. ASSUME \A x \in S : x <= w PROVE ~(w < m)
    BY <2>1, <2>2, <2>4
  <2> QED
    BY <2>1, <2>3, <2>4
<1>10. (\A x \in S : x <= w) <=> \A i \in 1..Size(r) : Len(rows[list][i]) <= w
  BY <1>1 DEF S
<1> QED
  BY <1>2, <1>7, <1>8, <1>9, <1>10

(* A batch that is padded has its rows where they belong, and all of them.  *)
LEMMA PaddedIs ==
    ASSUME NEW headers, NEW rows, Fits(headers, rows), NEW r, r = Laid(headers, rows),
           headers = [i \in DOMAIN headers |-> headers[i]], ValidRagged(r),
           NEW widths, \A list \in Lists : Width(r, widths, list) \in Nat
    PROVE  /\ Padded(r, widths).ok <=>
                  \A list \in Lists : \A i \in 1..Size(r) :
                     Len(rows[list][i]) <= Width(r, widths, list)
           /\ Padded(r, widths).ok =>
                 \E q : /\ Padded(r, widths) = Batch(q) /\ q.headers = headers /\ Shaped(q)
                        /\ q.widths = [list \in Lists |-> Width(r, widths, list)]
                        /\ Filled(q, rows)
<1> DEFINE W(list) == Width(r, widths, list)
           there(list, cell) == RowOf(cell, W(list)) <= Length(r, list, SampleOf(cell, W(list)))
           value(column, list, cell) ==
               IF there(list, cell)
               THEN Slice(r, column, SampleOf(cell, W(list)))[RowOf(cell, W(list))]
               ELSE Padding(column)
           mask(list, cell) == IF there(list, cell) THEN 1 ELSE 0
           q == [headers |-> r.headers, widths |-> [list \in Lists |-> W(list)],
                 values |-> [column \in Columns |->
                                [cell \in 1..(Size(r) * W(LaidOutAs(column))) |->
                                    value(column, LaidOutAs(column), cell)]],
                 masks |-> [list \in Lists |->
                               [cell \in 1..(Size(r) * W(list)) |-> mask(list, cell)]]]
<1>1. Padded(r, widths) =
          IF \E list \in Lists : W(list) < Longest(r, list) THEN NoBatch ELSE Batch(q)
  BY DEF Padded
<1>2. /\ Size(r) = Len(headers) /\ Size(r) \in Nat \ {0} /\ DOMAIN headers = 1..Size(r)
      /\ r.headers = headers
      /\ \A list \in Lists : \A i \in 1..Size(r) :
            Length(r, list, i) = Len(rows[list][i]) /\ Length(r, list, i) \in Nat
      /\ \A column \in Columns : \A i \in 1..Size(r) : Slice(r, column, i) = rows[column][i]
  <2>1. r.headers = headers
    BY DEF Laid
  <2>2. Len(headers) \in Nat \ {0} /\ DOMAIN headers = 1..Len(headers)
    BY DEF Fits
  <2> QED
    BY <2>1, <2>2, LaidIs
<1>3. /\ NoBatch.ok = FALSE /\ Batch(q).ok = TRUE
  BY DEF NoBatch, Batch
<1>4. \A list \in Lists : ~(W(list) < Longest(r, list)) <=>
         \A i \in 1..Size(r) : Len(rows[list][i]) <= W(list)
  BY WideEnough
<1> HIDE DEF W
<1>5. Padded(r, widths).ok <=> \A list \in Lists : ~(W(list) < Longest(r, list))
  <2> HIDE DEF q
  <2> QED
    BY <1>1, <1>3
<1>6. \A list \in Lists : W(list) \in Nat
  BY DEF W
<1>7. q.headers = headers /\ q.widths = [list \in Lists |-> W(list)] /\ Len(q.headers) = Size(r)
  BY <1>2
<1>8. \A column \in Columns : WidthOf(q, column) = W(LaidOutAs(column)) /\ LaidOutAs(column) \in Lists
  <2> HIDE DEF q
  <2> QED
    BY <1>7, ListsAreColumns DEF WidthOf
<1>9. \A list \in Lists : WidthOf(q, list) = W(list) /\ list \in Columns
  BY <1>8, ListsAreColumns
<1>10. /\ q.values = [column \in Columns |->
                        [cell \in 1..(Size(r) * W(LaidOutAs(column))) |-> value(column, LaidOutAs(column), cell)]]
       /\ q.masks = [list \in Lists |-> [cell \in 1..(Size(r) * W(list)) |-> mask(list, cell)]]
       /\ q = [headers |-> q.headers, widths |-> q.widths, values |-> q.values,
               masks |-> q.masks]
  OBVIOUS
<1>0. \A list, cell : mask(list, cell) \in 0..2
  OBVIOUS
<1> HIDE DEF q, value, mask, there
<1>11. \A column \in Columns :
         q.values[column] = [cell \in 1..(Size(r) * W(LaidOutAs(column))) |-> value(column, LaidOutAs(column), cell)]
  BY <1>10
<1>12. \A list \in Lists :
         q.masks[list] = [cell \in 1..(Size(r) * W(list)) |-> mask(list, cell)]
  BY <1>10
<1>13. \A column \in Columns : Cells(q, column) = 1..(Size(r) * W(LaidOutAs(column)))
  BY <1>7, <1>8 DEF Cells
<1>14. Shaped(q)
  <2>1. /\ Len(q.headers) \in Nat \ {0} /\ DOMAIN q.headers = 1..Len(q.headers)
        /\ q.headers = [i \in DOMAIN q.headers |-> q.headers[i]]
    BY <1>2, <1>7
  <2>2. q.widths \in [Lists -> Nat]
    BY <1>6, <1>7
  <2>3. /\ q.values = [column \in Columns |-> q.values[column]]
        /\ q.masks = [list \in Lists |-> q.masks[list]]
    BY <1>10, <1>11, <1>12
  <2>4. ASSUME NEW column \in Columns
        PROVE  q.values[column] = [cell \in Cells(q, column) |-> q.values[column][cell]]
    BY <1>11, <1>13
  <2>5. ASSUME NEW list \in Lists
        PROVE  q.masks[list] \in [Cells(q, list) -> 0..2]
    <3>1. Cells(q, list) = 1..(Size(r) * W(list))
      BY <1>8, <1>9 , <1>7 DEF Cells
    <3>2. q.masks[list] = [cell \in 1..(Size(r) * W(list)) |-> mask(list, cell)]
      BY <1>12
    <3>3. \A cell : mask(list, cell) \in 0..2
      BY <1>0
    <3>4. [cell \in 1..(Size(r) * W(list)) |-> mask(list, cell)]
              \in [1..(Size(r) * W(list)) -> 0..2]
      BY <3>3
    <3> QED
      BY <3>1, <3>2, <3>4
  <2> QED
    BY <1>10, <2>1, <2>2, <2>3, <2>4, <2>5 DEF Shaped
<1>15. ASSUME NEW list \in Lists, NEW i \in 1..Size(r), NEW row \in 1..W(list)
       PROVE  /\ CellOf(i, row, W(list)) \in 1..(Size(r) * W(list))
              /\ mask(list, CellOf(i, row, W(list))) = IF row <= Len(rows[list][i]) THEN 1 ELSE 0
              /\ \A column \in Columns :
                    value(column, list, CellOf(i, row, W(list))) =
                        IF row <= Len(rows[list][i]) THEN rows[column][i][row]
                        ELSE Padding(column)
  <2> DEFINE w == W(list)
             cell == CellOf(i, row, w)
  <2>1. w \in Nat /\ Size(r) \in Nat /\ row \in 1..w
    BY <1>2, <1>6
  <2> HIDE DEF w
  <2>2. cell \in 1..(Size(r) * w) /\ SampleOf(cell, w) = i /\ RowOf(cell, w) = row
    BY <2>1, CellBack
  <2> HIDE DEF cell
  <2>3. there(list, cell) <=> row <= Length(r, list, i)
    BY <2>2 DEF there, w
  <2>4. Length(r, list, i) = Len(rows[list][i])
    BY <1>2
  <2>5. mask(list, cell) = IF row <= Len(rows[list][i]) THEN 1 ELSE 0
    BY <2>2, <2>4 DEF mask, there, w
  <2>6. ASSUME NEW column \in Columns
        PROVE  value(column, list, cell) =
                   IF row <= Len(rows[list][i]) THEN rows[column][i][row] ELSE Padding(column)
    <3>1. Slice(r, column, i) = rows[column][i]
      BY <1>2
    <3>2. value(column, list, cell) =
              IF row <= Length(r, list, i) THEN Slice(r, column, i)[row] ELSE Padding(column)
      BY <2>2 DEF value, there, w
    <3> QED
      BY <2>4, <3>1, <3>2
  <2> QED
    BY <2>2, <2>5, <2>6 DEF cell, w
<1>16. ASSUME NEW column \in Columns, NEW i \in 1..Size(r), NEW row \in 1..WidthOf(q, column)
       PROVE  q.values[column][CellOf(i, row, WidthOf(q, column))] =
                  IF row <= Len(rows[LaidOutAs(column)][i]) THEN rows[column][i][row]
                  ELSE Padding(column)
  <2> DEFINE list == LaidOutAs(column)
             cell == CellOf(i, row, W(list))
  <2>1. list \in Lists /\ WidthOf(q, column) = W(list) /\ row \in 1..W(list)
    BY <1>8
  <2>2. q.values[column] = [c \in 1..(Size(r) * W(list)) |-> value(column, list, c)]
    BY <1>11
  <2> HIDE DEF list
  <2>3. /\ cell \in 1..(Size(r) * W(list))
        /\ value(column, list, cell) =
              IF row <= Len(rows[list][i]) THEN rows[column][i][row] ELSE Padding(column)
    BY <1>15, <2>1
  <2> HIDE DEF cell
  <2>4. q.values[column][cell] = value(column, list, cell)
    BY <2>2, <2>3
  <2>5. q.values[column][cell] =
            IF row <= Len(rows[list][i]) THEN rows[column][i][row] ELSE Padding(column)
    BY <2>3, <2>4
  <2> QED
    BY <2>1, <2>5 DEF cell, list
<1>17. ASSUME NEW list \in Lists, NEW i \in 1..Size(r), NEW row \in 1..WidthOf(q, list)
       PROVE  q.masks[list][CellOf(i, row, WidthOf(q, list))] =
                  IF row <= Len(rows[list][i]) THEN 1 ELSE 0
  <2> DEFINE cell == CellOf(i, row, W(list))
  <2>1. WidthOf(q, list) = W(list) /\ row \in 1..W(list)
    BY <1>9
  <2>2. /\ cell \in 1..(Size(r) * W(list))
        /\ mask(list, cell) = IF row <= Len(rows[list][i]) THEN 1 ELSE 0
    BY <1>15, <2>1
  <2>3. q.masks[list] = [c \in 1..(Size(r) * W(list)) |-> mask(list, c)]
    BY <1>12
  <2> HIDE DEF cell
  <2>4. q.masks[list][cell] = mask(list, cell)
    BY <2>2, <2>3
  <2>5. q.masks[list][cell] = IF row <= Len(rows[list][i]) THEN 1 ELSE 0
    BY <2>2, <2>4
  <2> QED
    BY <2>1, <2>5 DEF cell
<1>18. Filled(q, rows)
  BY <1>7, <1>16, <1>17 DEF Filled
<1>19. Padded(r, widths).ok => Padded(r, widths) = Batch(q)
  BY <1>1, <1>3
<1>20. Padded(r, widths).ok <=>
          \A list \in Lists : \A i \in 1..Size(r) : Len(rows[list][i]) <= W(list)
  BY <1>4, <1>5
<1> QED
  BY <1>7, <1>14, <1>18, <1>19, <1>20 DEF W

LEMMA BatchesAre ==
    /\ NoBatch.ok = FALSE /\ \A v : Batch(v).ok = TRUE /\ Batch(v).value = v
    /\ \A v : Batch(v) # NoBatch
  BY DEF Batch, NoBatch

LEMMA KeptRowsAre ==
    ASSUME NEW p, NEW column \in Columns, NEW i \in DOMAIN p.headers
    PROVE  KeptRows(p)[column][i] =
               [row \in 1..Kept(p, LaidOutAs(column), i) |->
                   p.values[column][CellOf(i, row, WidthOf(p, column))]]
  BY DEF KeptRows, WidthOf

(* The rows that are kept can be laid out. *)
LEMMA KeptFit ==
    ASSUME NEW p, Shaped(p), \A list \in Lists : RowsFirst(p, list)
    PROVE  /\ Fits(p.headers, KeptRows(p))
           /\ \A column \in Columns : \A i \in 1..Len(p.headers) :
                 Len(KeptRows(p)[column][i]) = Kept(p, LaidOutAs(column), i)
<1> DEFINE n == Len(p.headers)
           rows == KeptRows(p)
<1>1. n \in Nat \ {0} /\ DOMAIN p.headers = 1..n
  BY DEF Shaped
<1>2. \A list \in Lists : \A i \in 1..n : Kept(p, list, i) \in Nat
  <2> SUFFICES ASSUME NEW list \in Lists, NEW i \in 1..n PROVE Kept(p, list, i) \in Nat
    OBVIOUS
  <2>1. p.widths[list] \in Nat /\ Kept(p, list, i) \in 0..p.widths[list]
    BY KeptAreFirst DEF Shaped
  <2> QED
    BY <2>1
<1> HIDE DEF n
<1>3. ASSUME NEW column \in Columns
      PROVE  /\ \E T : rows[column] \in Seq(Seq(T))
             /\ Len(rows[column]) = n
             /\ \A i \in 1..n : Len(rows[column][i]) = Kept(p, LaidOutAs(column), i)
  <2> DEFINE T == {p.values[column][c] : c \in Int}
             l == LaidOutAs(column)
             w == WidthOf(p, column)
             s == rows[column]
  <2>1. l \in Lists /\ w \in Nat
    BY ListsAreColumns DEF Shaped, WidthOf
  <2>2. s = [i \in 1..n |-> s[i]]
    BY <1>1 DEF KeptRows
  <2>3. \A i \in 1..n : s[i] = [row \in 1..Kept(p, l, i) |-> p.values[column][CellOf(i, row, w)]]
    BY <1>1, KeptRowsAre
  <2> HIDE DEF s, l, w
  <2>4. ASSUME NEW i \in 1..n
        PROVE  s[i] \in Seq(T) /\ Len(s[i]) = Kept(p, l, i)
    <3> DEFINE k == Kept(p, l, i)
    <3>1. k \in Nat
      BY <1>2, <2>1
    <3> HIDE DEF k
    <3>2. ASSUME NEW row \in 1..k PROVE p.values[column][CellOf(i, row, w)] \in T
      <4>1. CellOf(i, row, w) \in Int
        <5>1. (i - 1) * w \in Int
          BY <1>1, <2>1
        <5> QED
          BY <3>1, <5>1 DEF CellOf
      <4> QED
        BY <4>1
    <3> HIDE DEF T
    <3>3. s[i] \in [1..k -> T]
      BY <2>3, <3>2 DEF k
    <3> QED
      BY <3>1, <3>3 DEF k
  <2> HIDE DEF T
  <2>5. s \in Seq(Seq(T)) /\ Len(s) = n
    BY <1>1, <2>2, <2>4
  <2> QED
    BY <2>4, <2>5 DEF s, l
<1>4. \A column \in Columns : \A i \in 1..n : Len(rows[column][i]) = Len(rows[LaidOutAs(column)][i])
  <2> SUFFICES ASSUME NEW column \in Columns, NEW i \in 1..n
               PROVE  Len(rows[column][i]) = Len(rows[LaidOutAs(column)][i])
    OBVIOUS
  <2>1. LaidOutAs(column) \in Columns /\ LaidOutAs(LaidOutAs(column)) = LaidOutAs(column)
    BY ListsAreColumns
  <2> QED
    BY <1>3, <2>1
<1> HIDE DEF rows
<1> QED
  BY <1>1, <1>3, <1>4 DEF Fits, n, rows

(***************************************************************************)
(* A padded batch that can be unpadded is what is padded again.             *)
(***************************************************************************)
LEMMA PadsBack ==
    ASSUME NEW p, Shaped(p), Unpadded(p).ok
    PROVE  Padded(Unpadded(p).value, [list \in Lists |-> <<p.widths[list]>>]) = Batch(p)
<1> DEFINE r == Collected(p)
           rows == KeptRows(p)
           widths == [list \in Lists |-> <<p.widths[list]>>]
           n == Len(p.headers)
<1>1. /\ Unpadded(p) = Batch(r) /\ Collectable(p) /\ ValidRagged(r)
  BY BatchesAre DEF Unpadded
<1>2. Unpadded(p).value = r
  BY <1>1, BatchesAre
<1>3. \A list \in Lists : RowsFirst(p, list)
  BY <1>1 DEF Collectable
<1>4. \A column \in Columns : NothingElse(p, column)
  BY <1>1 DEF Collectable
<1>5. /\ Fits(p.headers, rows) /\ \A column \in Columns : \A i \in 1..n :
            Len(rows[column][i]) = Kept(p, LaidOutAs(column), i)
  BY <1>3, KeptFit
<1>6. r = Laid(p.headers, rows)
  BY DEF Collected
<1>7. n \in Nat \ {0} /\ DOMAIN p.headers = 1..n /\ p.headers = [i \in DOMAIN p.headers |-> p.headers[i]]
  BY DEF Shaped
<1> HIDE DEF r, rows
<1>8. \A list \in Lists : Width(r, widths, list) = p.widths[list] /\ p.widths[list] \in Nat
  <2> SUFFICES ASSUME NEW list \in Lists
               PROVE  Width(r, widths, list) = p.widths[list] /\ p.widths[list] \in Nat
    OBVIOUS
  <2>1. widths[list] = <<p.widths[list]>>
    OBVIOUS
  <2>2. widths[list] # <<>> /\ widths[list][1] = p.widths[list]
    BY <2>1
  <2>3. p.widths[list] \in Nat
    BY DEF Shaped
  <2> HIDE DEF widths
  <2> QED
    BY <2>2, <2>3 DEF Width
<1> HIDE DEF widths, n
<1>9. Size(r) = n
  BY <1>5, <1>6, LaidIs DEF n
<1>10. \A list \in Lists : \A i \in 1..n :
          Len(rows[list][i]) = Kept(p, list, i) /\ Kept(p, list, i) \in 0..p.widths[list]
  <2> SUFFICES ASSUME NEW list \in Lists, NEW i \in 1..n
               PROVE  Len(rows[list][i]) = Kept(p, list, i) /\ Kept(p, list, i) \in 0..p.widths[list]
    OBVIOUS
  <2>1. list \in Columns /\ LaidOutAs(list) = list
    BY ListsAreColumns
  <2>2. Kept(p, list, i) \in 0..p.widths[list]
    BY <1>3, KeptAreFirst DEF n
  <2> QED
    BY <1>5, <2>1, <2>2 DEF n
<1>11. Padded(r, widths).ok
  <2>1. \A list \in Lists : \A i \in 1..Size(r) : Len(rows[list][i]) <= Width(r, widths, list)
    BY <1>8, <1>9, <1>10
  <2>2. \A list \in Lists : Width(r, widths, list) \in Nat
    BY <1>8
  <2> QED
    BY <1>1, <1>5, <1>6, <1>7, <2>1, <2>2, PaddedIs
<1>12. PICK q : /\ Padded(r, widths) = Batch(q) /\ q.headers = p.headers /\ Shaped(q)
                /\ q.widths = [list \in Lists |-> Width(r, widths, list)]
                /\ Filled(q, rows)
  <2>1. \A list \in Lists : Width(r, widths, list) \in Nat
    BY <1>8
  <2> QED
    BY <1>1, <1>5, <1>6, <1>7, <1>11, <2>1, PaddedIs
<1>13. p.widths = q.widths
  <2>1. p.widths = [list \in Lists |-> p.widths[list]]
    BY DEF Shaped
  <2>2. [list \in Lists |-> p.widths[list]] = [list \in Lists |-> Width(r, widths, list)]
    BY <1>8
  <2> QED
    BY <1>12, <2>1, <2>2
<1>14. ASSUME NEW column \in Columns
       PROVE  WidthOf(q, column) = WidthOf(p, column)
  BY <1>13 DEF WidthOf
<1>15. ASSUME NEW list \in Lists, NEW i \in 1..n, NEW row \in 1..WidthOf(p, list)
       PROVE  p.masks[list][CellOf(i, row, WidthOf(p, list))] =
                  q.masks[list][CellOf(i, row, WidthOf(p, list))]
  <2>1. list \in Columns /\ WidthOf(p, list) = p.widths[list] /\ WidthOf(q, list) = WidthOf(p, list)
    BY <1>14, ListsAreColumns DEF WidthOf
  <2>2. p.masks[list][CellOf(i, row, WidthOf(p, list))] = IF row <= Kept(p, list, i) THEN 1 ELSE 0
    BY <1>3, <2>1, KeptAreFirst DEF n
  <2>3. q.masks[list][CellOf(i, row, WidthOf(p, list))] =
            IF row <= Len(rows[list][i]) THEN 1 ELSE 0
    BY <1>12, <2>1 DEF Filled, n
  <2> QED
    BY <1>10, <2>2, <2>3
<1>16. ASSUME NEW column \in Columns, NEW i \in 1..n, NEW row \in 1..WidthOf(p, column)
       PROVE  p.values[column][CellOf(i, row, WidthOf(p, column))] =
                  q.values[column][CellOf(i, row, WidthOf(p, column))]
  <2> DEFINE l == LaidOutAs(column)
             w == WidthOf(p, column)
             cell == CellOf(i, row, w)
  <2>1. l \in Lists /\ w = WidthOf(p, l) /\ w = p.widths[l] /\ w \in Nat
    BY ListsAreColumns DEF WidthOf, Shaped
  <2>2. WidthOf(q, column) = w
    BY <1>14
  <2>3. q.values[column][cell] =
            IF row <= Len(rows[l][i]) THEN rows[column][i][row] ELSE Padding(column)
    BY <1>12, <2>2 DEF Filled, n
  <2>4. Len(rows[l][i]) = Kept(p, l, i) /\ Kept(p, l, i) \in 0..w
    BY <1>10, <2>1
  <2>5. p.masks[l][cell] = IF row <= Kept(p, l, i) THEN 1 ELSE 0
    BY <1>3, <2>1, KeptAreFirst DEF n
  <2>6. cell \in DOMAIN p.values[column]
    <3>1. n \in Nat /\ Cells(p, column) = 1..(n * w)
      BY <1>7 DEF Cells, n
    <3>4. row \in 1..w /\ w \in Nat
      BY <2>1
    <3> HIDE DEF w
    <3>2. cell \in 1..(n * w)
      BY <3>1, <3>4, CellBack
    <3>3. p.values[column] = [c \in Cells(p, column) |-> p.values[column][c]]
      BY DEF Shaped
    <3> QED
      BY <3>1, <3>2, <3>3
  <2>7. rows[column][i] = [j \in 1..Kept(p, l, i) |-> p.values[column][CellOf(i, j, w)]]
    BY <1>7, KeptRowsAre DEF rows, n
  <2> HIDE DEF l, w, cell
  <2>8. CASE row <= Kept(p, l, i)
    <3>1. row \in 1..Kept(p, l, i)
      BY <2>1, <2>4, <2>8 DEF w
    <3>2. rows[column][i][row] = p.values[column][cell]
      BY <2>7, <3>1 DEF cell
    <3>3. q.values[column][cell] = rows[column][i][row]
      BY <2>3, <2>4, <2>8
    <3> QED
      BY <3>2, <3>3 DEF cell, w
  <2>9. CASE ~(row <= Kept(p, l, i))
    <3>1. p.masks[l][cell] = 0
      BY <2>5, <2>9
    <3>2. p.values[column][cell] = Padding(column)
      BY <1>4, <2>6, <3>1 DEF NothingElse, l
    <3>3. q.values[column][cell] = Padding(column)
      BY <2>3, <2>4, <2>9
    <3> QED
      BY <3>2, <3>3 DEF cell, w
  <2> QED
    BY <2>8, <2>9
<1>17. \A list \in Lists : \A i \in 1..n : \A row \in 1..WidthOf(p, list) :
          p.masks[list][CellOf(i, row, WidthOf(p, list))] =
              q.masks[list][CellOf(i, row, WidthOf(p, list))]
  BY <1>15
<1>18. \A column \in Columns : \A i \in 1..n : \A row \in 1..WidthOf(p, column) :
          p.values[column][CellOf(i, row, WidthOf(p, column))] =
              q.values[column][CellOf(i, row, WidthOf(p, column))]
  BY <1>16
<1>19. p = q
  BY <1>12, <1>13, <1>17, <1>18, SameCells DEF n
<1> QED
  BY <1>2, <1>12, <1>19 DEF widths

(***************************************************************************)
(* What was laid out in rows and padded is unpadded to the same.            *)
(***************************************************************************)
Listed(headers, rows) ==
    /\ rows = [column \in Columns |-> rows[column]]
    /\ \A column \in Columns :
          /\ rows[column] = [i \in 1..Len(headers) |-> rows[column][i]]
          /\ \A i \in 1..Len(headers) :
                rows[column][i] = [row \in 1..Len(rows[column][i]) |-> rows[column][i][row]]

LEMMA FilledIsCollected ==
    ASSUME NEW q, Shaped(q), NEW rows, Fits(q.headers, rows), Listed(q.headers, rows), Filled(q, rows),
           \A list \in Lists : \A i \in 1..Len(q.headers) : Len(rows[list][i]) \in 0..q.widths[list]
    PROVE  RightSizes(q) /\ Collectable(q) /\ KeptRows(q) = rows
<1> DEFINE n == Len(q.headers)
<1>1. n \in Nat \ {0} /\ DOMAIN q.headers = 1..n
  BY DEF Shaped
<1> HIDE DEF n
<1>2. ASSUME NEW column \in Columns
      PROVE  /\ LaidOutAs(column) \in Lists /\ WidthOf(q, column) \in Nat
             /\ WidthOf(q, column) = q.widths[LaidOutAs(column)]
             /\ WidthOf(q, LaidOutAs(column)) = WidthOf(q, column)
             /\ Cells(q, column) = 1..(n * WidthOf(q, column))
             /\ DOMAIN q.values[column] = Cells(q, column)
             /\ Len(q.values[column]) = n * WidthOf(q, column)
  <2>1. LaidOutAs(column) \in Lists /\ LaidOutAs(LaidOutAs(column)) = LaidOutAs(column)
    BY ListsAreColumns
  <2>2. WidthOf(q, column) = q.widths[LaidOutAs(column)] /\ WidthOf(q, column) \in Nat
    BY <2>1 DEF WidthOf, Shaped
  <2>3. WidthOf(q, LaidOutAs(column)) = WidthOf(q, column)
    BY <2>1 DEF WidthOf
  <2>4. Cells(q, column) = 1..(n * WidthOf(q, column))
    BY DEF Cells, n
  <2>5. q.values[column] = [cell \in Cells(q, column) |-> q.values[column][cell]]
    BY DEF Shaped
  <2>6. DOMAIN q.values[column] = Cells(q, column)
    BY <2>5
  <2>7. n * WidthOf(q, column) \in Nat
    BY <1>1, <2>2
  <2>8. Len(q.values[column]) = n * WidthOf(q, column)
    BY <2>4, <2>5, <2>7
  <2> QED
    BY <2>1, <2>2, <2>3, <2>4, <2>6, <2>8
<1>3. ASSUME NEW list \in Lists
      PROVE  /\ list \in Columns /\ LaidOutAs(list) = list /\ WidthOf(q, list) = q.widths[list]
             /\ q.widths[list] \in Nat
             /\ DOMAIN q.masks[list] = 1..(n * q.widths[list])
             /\ Len(q.masks[list]) = n * q.widths[list]
  <2>1. list \in Columns /\ LaidOutAs(list) = list /\ WidthOf(q, list) = q.widths[list]
    BY ListsAreColumns DEF WidthOf
  <2>2. q.masks[list] \in [1..(n * q.widths[list]) -> 0..2]
    BY <1>2, <2>1 DEF Shaped
  <2>3. q.widths[list] \in Nat /\ n * q.widths[list] \in Nat
    BY <1>1, <1>2, <2>1
  <2> QED
    BY <2>1, <2>2, <2>3
<1>4. RightSizes(q)
  BY <1>2, <1>3 DEF RightSizes, n
<1>5. ASSUME NEW column \in Columns, NEW i \in 1..n, NEW row \in 1..WidthOf(q, column)
      PROVE  q.values[column][CellOf(i, row, WidthOf(q, column))] =
                 IF row <= Len(rows[LaidOutAs(column)][i]) THEN rows[column][i][row]
                 ELSE Padding(column)
  BY <1>5 DEF Filled, n
<1>6. ASSUME NEW list \in Lists, NEW i \in 1..n, NEW row \in 1..q.widths[list]
      PROVE  q.masks[list][CellOf(i, row, q.widths[list])] =
                 IF row <= Len(rows[list][i]) THEN 1 ELSE 0
  BY <1>3 DEF Filled, n
<1>7. ASSUME NEW list \in Lists PROVE RowsFirst(q, list)
  <2> DEFINE w == q.widths[list]
  <2>1. w \in Nat /\ n \in Nat /\ DOMAIN q.masks[list] = 1..(n * w)
    BY <1>1, <1>3
  <2> SUFFICES ASSUME NEW cell \in 1..(n * w)
               PROVE  /\ q.masks[list][cell] <= 1
                      /\ q.masks[list][cell] = 1 /\ RowOf(cell, w) > 1 =>
                            q.masks[list][cell - 1] = 1
    BY <2>1 DEF RowsFirst
  <2> DEFINE i == SampleOf(cell, w)
             row == RowOf(cell, w)
  <2> HIDE DEF w
  <2>2. i \in 1..n /\ row \in 1..w /\ CellOf(i, row, w) = cell
    BY <2>1, CellIs
  <2> HIDE DEF i, row
  <2>3. q.masks[list][cell] = IF row <= Len(rows[list][i]) THEN 1 ELSE 0
    BY <1>6, <2>2 DEF w
  <2>4. ASSUME q.masks[list][cell] = 1, row > 1 PROVE q.masks[list][cell - 1] = 1
    <3>1. row <= Len(rows[list][i])
      BY <2>3, <2>4
    <3>2. row - 1 \in 1..w
      BY <2>1, <2>2, <2>4
    <3>3. CellOf(i, row - 1, w) = cell - 1
      <4>1. PICK x \in Int : x = (i - 1) * w
        BY <2>1, <2>2
      <4> QED
        BY <2>1, <2>2, <4>1 DEF CellOf
    <3>4. row - 1 <= Len(rows[list][i])
      <4>1. PICK l \in Nat : l = Len(rows[list][i])
        BY <2>1, <2>2 DEF n, w
      <4> QED
        BY <2>1, <2>2, <3>1, <4>1
    <3> QED
      BY <1>6, <2>2, <3>2, <3>3, <3>4 DEF w
  <2> QED
    BY <2>3, <2>4 DEF row
<1>13. ASSUME NEW w \in Nat, NEW cell \in 1..(n * w)
       PROVE  \E i \in 1..n : \E row \in 1..w : CellOf(i, row, w) = cell
  BY <1>1, CellIs
<1>8. ASSUME NEW column \in Columns PROVE NothingElse(q, column)
  <2> DEFINE w == WidthOf(q, column)
             l == LaidOutAs(column)
  <2>1. w \in Nat /\ n \in Nat /\ DOMAIN q.values[column] = 1..(n * w) /\ l \in Lists
        /\ w = q.widths[l]
    BY <1>1, <1>2
  <2> SUFFICES ASSUME NEW cell \in 1..(n * w), q.masks[l][cell] = 0
               PROVE  q.values[column][cell] = Padding(column)
    BY <2>1 DEF NothingElse
  <2>6. w \in Nat
    BY <2>1
  <2> HIDE DEF w, l
  <2>2. PICK i \in 1..n, row \in 1..w : CellOf(i, row, w) = cell
    BY <1>13, <2>6
  <2>3. q.masks[l][cell] = IF row <= Len(rows[l][i]) THEN 1 ELSE 0
    BY <1>6, <2>1, <2>2
  <2>4. ~(row <= Len(rows[l][i]))
    BY <2>3
  <2>5. q.values[column][cell] =
            IF row <= Len(rows[l][i]) THEN rows[column][i][row] ELSE Padding(column)
    BY <1>5, <2>2 DEF w, l
  <2> QED
    BY <2>4, <2>5
<1>9. Collectable(q)
  BY <1>7, <1>8 DEF Collectable
<1>10. ASSUME NEW list \in Lists, NEW i \in 1..n PROVE Kept(q, list, i) = Len(rows[list][i])
  <2> DEFINE w == q.widths[list]
             l == Len(rows[list][i])
  <2>1. w \in Nat /\ l \in 0..w
    BY <1>3 DEF n
  <2>2. {row \in 1..w : q.masks[list][CellOf(i, row, w)] = 1} = 1..l
    <3>1. ASSUME NEW row \in 1..w PROVE q.masks[list][CellOf(i, row, w)] = 1 <=> row <= l
      BY <1>6
    <3> HIDE DEF w, l
    <3> QED
      BY <2>1, <3>1
  <2>3. Kept(q, list, i) = Cardinality(1..l)
    BY <2>2 DEF Kept
  <2> HIDE DEF w, l
  <2>4. Cardinality(1..l) = l
    BY <2>1, FS_Interval
  <2> QED
    BY <2>3, <2>4 DEF l
<1>11. ASSUME NEW column \in Columns, NEW i \in 1..n PROVE KeptRows(q)[column][i] = rows[column][i]
  <2> DEFINE w == WidthOf(q, column)
             l == LaidOutAs(column)
             k == Len(rows[l][i])
  <2>1. l \in Lists /\ w = q.widths[l] /\ w \in Nat
    BY <1>2
  <2>2. k \in 0..w
    BY <2>1 DEF n
  <2>3. KeptRows(q)[column][i] = [row \in 1..k |-> q.values[column][CellOf(i, row, w)]]
    BY <1>1, <1>10, <2>1, KeptRowsAre
  <2>4. ASSUME NEW row \in 1..k PROVE q.values[column][CellOf(i, row, w)] = rows[column][i][row]
    <3>1. row \in 1..w /\ row <= k
      BY <2>1, <2>2
    <3> QED
      BY <1>5, <3>1
  <2>5. Len(rows[column][i]) = k
    BY DEF Fits, n
  <2> HIDE DEF k, w, l
  <2>6. [row \in 1..k |-> q.values[column][CellOf(i, row, w)]] = [row \in 1..k |-> rows[column][i][row]]
    BY <2>4
  <2>7. rows[column][i] = [row \in 1..k |-> rows[column][i][row]]
    BY <2>5 DEF Listed, n
  <2> QED
    BY <2>3, <2>6, <2>7
<1>12. KeptRows(q) = rows
  <2>1. ASSUME NEW column \in Columns PROVE KeptRows(q)[column] = rows[column]
    <3>1. KeptRows(q)[column] = [i \in 1..n |-> KeptRows(q)[column][i]]
      BY <1>1 DEF KeptRows
    <3>2. rows[column] = [i \in 1..n |-> rows[column][i]]
      BY DEF Listed, n
    <3>3. [i \in 1..n |-> KeptRows(q)[column][i]] = [i \in 1..n |-> rows[column][i]]
      BY <1>11
    <3> QED
      BY <3>1, <3>2, <3>3
  <2>2. KeptRows(q) = [column \in Columns |-> KeptRows(q)[column]]
    BY DEF KeptRows
  <2>3. rows = [column \in Columns |-> rows[column]]
    BY DEF Listed
  <2>4. [column \in Columns |-> KeptRows(q)[column]] = [column \in Columns |-> rows[column]]
    BY <2>1
  <2> QED
    BY <2>2, <2>3, <2>4
<1> QED
  BY <1>4, <1>9, <1>12

LEMMA UnpadsBack ==
    ASSUME NEW headers, NEW rows, Fits(headers, rows), Listed(headers, rows),
           headers = [i \in DOMAIN headers |-> headers[i]],
           NEW r, r = Laid(headers, rows), ValidRagged(r),
           NEW widths, \A list \in Lists : Width(r, widths, list) \in Nat,
           Padded(r, widths).ok
    PROVE  /\ Shaped(Padded(r, widths).value)
           /\ Unpadded(Padded(r, widths).value) = Batch(r)
<1>1. PICK q : /\ Padded(r, widths) = Batch(q) /\ q.headers = headers /\ Shaped(q)
               /\ q.widths = [list \in Lists |-> Width(r, widths, list)]
               /\ Filled(q, rows)
  BY PaddedIs
<1>2. \A list \in Lists : \A i \in 1..Size(r) : Len(rows[list][i]) <= Width(r, widths, list)
  BY PaddedIs
<1>3. Size(r) = Len(headers) /\ \A list \in Lists : \A i \in 1..Size(r) : Len(rows[list][i]) \in Nat
  <2>1. Size(r) = Len(headers)
    BY LaidIs
  <2>2. ASSUME NEW list \in Lists, NEW i \in 1..Size(r) PROVE Len(rows[list][i]) \in Nat
    <3>1. Length(r, list, i) = Len(rows[list][i]) /\ Length(r, list, i) \in Nat
      BY LaidIs
    <3> QED
      BY <3>1
  <2> QED
    BY <2>1, <2>2
<1>4. \A list \in Lists : \A i \in 1..Len(q.headers) : Len(rows[list][i]) \in 0..q.widths[list]
  <2> SUFFICES ASSUME NEW list \in Lists, NEW i \in 1..Len(q.headers)
               PROVE  Len(rows[list][i]) \in 0..q.widths[list]
    OBVIOUS
  <2>1. i \in 1..Size(r) /\ q.widths[list] = Width(r, widths, list) /\ q.widths[list] \in Nat
    BY <1>1, <1>3
  <2>2. Len(rows[list][i]) \in Nat /\ Len(rows[list][i]) <= q.widths[list]
    BY <1>2, <1>3, <2>1
  <2> QED
    BY <2>1, <2>2
<1>5. RightSizes(q) /\ Collectable(q) /\ KeptRows(q) = rows
  BY <1>1, <1>4, FilledIsCollected
<1>6. Collected(q) = r
  BY <1>1, <1>5 DEF Collected
<1>7. q.headers # <<>>
  <2>1. Len(q.headers) # 0
    BY <1>1 DEF Shaped
  <2> QED
    BY <2>1
<1>8. Unpadded(q) = Batch(r)
  BY <1>5, <1>6, <1>7 DEF Unpadded
<1>9. Padded(r, widths).value = q
  BY <1>1, BatchesAre
<1> QED
  BY <1>1, <1>8, <1>9

(***************************************************************************)
(* Samples                                                                  *)
(***************************************************************************)
LEMMA SamplesFit ==
    ASSUME NEW n \in Nat \ {0}, NEW samples, samples = [i \in 1..n |-> samples[i]],
           \A i \in 1..n : IsSample(samples[i])
    PROVE  /\ Fits(Headers(samples), SampleRows(samples))
           /\ Listed(Headers(samples), SampleRows(samples))
           /\ Headers(samples) = [i \in 1..n |-> Header(samples[i])]
           /\ Len(Headers(samples)) = n
<1> DEFINE rows == SampleRows(samples)
<1>1. DOMAIN samples = 1..n
  OBVIOUS
<1>2. Headers(samples) = [i \in 1..n |-> Header(samples[i])] /\ Len(Headers(samples)) = n
  BY <1>1 DEF Headers
<1>3. \A column \in Columns : rows[column] = [i \in 1..n |-> Rows(samples[i], column)]
  BY <1>1 DEF SampleRows
<1>4. rows = [column \in Columns |-> rows[column]]
  BY DEF SampleRows
<1> HIDE DEF rows
<1>5. ASSUME NEW column \in Columns, NEW i \in 1..n
      PROVE  /\ \E S : rows[column][i] \in Seq(S)
             /\ Len(rows[column][i]) = Len(rows[LaidOutAs(column)][i])
  <2> DEFINE e == samples[i]
  <2>1. IsSample(e) /\ rows[column][i] = Rows(e, column)
        /\ rows[LaidOutAs(column)][i] = Rows(e, LaidOutAs(column))
    BY <1>3, ListsAreColumns
  <2> HIDE DEF e
  <2>2. "candidates" \in Stored /\ LaidOutAs("candidates") = "candidates"
    BY DEF Stored, Lists, LaidOutAs
  <2>3. e.candidates \in Seq(Range(e.candidates))
    BY <2>1, <2>2 DEF IsSample
  <2>4. CASE column = "presence"
    <3>1. Rows(e, column) = Presences(e.candidates) /\ LaidOutAs(column) = "candidates"
      BY <2>4 DEF Rows, LaidOutAs, Lists
    <3>2. Rows(e, "candidates") = e.candidates
      BY DEF Rows
    <3>3. DOMAIN e.candidates = 1..Len(e.candidates) /\ Len(e.candidates) \in Nat
      BY <2>3
    <3> DEFINE l == Len(e.candidates)
               S == {Presence(e.candidates[j]) : j \in 1..l}
    <3>4. Presences(e.candidates) = [j \in 1..l |-> Presence(e.candidates[j])]
      BY <3>3 DEF Presences
    <3>5. Presences(e.candidates) \in [1..l -> S]
      BY <3>4
    <3> HIDE DEF l, S
    <3>7. l \in Nat
      BY <3>3 DEF l
    <3>8. PICK g \in [1..l -> S] : g = Presences(e.candidates)
      BY <3>5
    <3>6. Presences(e.candidates) \in Seq(S) /\ Len(Presences(e.candidates)) = l
      BY <3>7, <3>8
    <3> QED
      BY <2>1, <3>1, <3>2, <3>6 DEF l
  <2>5. CASE column # "presence"
    <3>1. column \in Stored /\ Rows(e, column) = e[column]
      BY <2>5 DEF Columns, Rows
    <3>2. e[column] \in Seq(Range(e[column]))
      BY <2>1, <3>1 DEF IsSample
    <3>3. LaidOutAs(column) # "presence" /\ Rows(e, LaidOutAs(column)) = e[LaidOutAs(column)]
      BY DEF LaidOutAs, Lists, Rows
    <3>4. CASE column = "keys"
      <4>1. LaidOutAs(column) = "candidates"
        BY <3>4 DEF LaidOutAs, Lists
      <4>2. Len(e.keys) = Len(e.candidates)
        BY <2>1 DEF IsSample
      <4> QED
        BY <2>1, <3>1, <3>2, <3>3, <3>4, <4>1, <4>2
    <3>5. CASE column # "keys"
      <4>1. LaidOutAs(column) = column
        BY <3>1, <3>5 DEF LaidOutAs, Stored
      <4> QED
        BY <2>1, <3>1, <3>2, <4>1
    <3> QED
      BY <3>4, <3>5
  <2> QED
    BY <2>4, <2>5
<1>6. ASSUME NEW column \in Columns
      PROVE  /\ \E T : rows[column] \in Seq(Seq(T))
             /\ Len(rows[column]) = n
             /\ rows[column] = [i \in 1..n |-> rows[column][i]]
             /\ \A i \in 1..n :
                   rows[column][i] = [row \in 1..Len(rows[column][i]) |-> rows[column][i][row]]
  <2> DEFINE s == rows[column]
             T == UNION {Range(s[i]) : i \in 1..n}
  <2>1. s = [i \in 1..n |-> s[i]]
    BY <1>3
  <2>2. ASSUME NEW i \in 1..n PROVE s[i] \in Seq(T) /\ s[i] = [row \in 1..Len(s[i]) |-> s[i][row]]
    <3>1. PICK S : s[i] \in Seq(S)
      BY <1>5
    <3> DEFINE t == s[i]
    <3>2. t \in Seq(S)
      BY <3>1
    <3> HIDE DEF t
    <3>3. Len(t) \in Nat /\ t = [row \in 1..Len(t) |-> t[row]] /\ DOMAIN t = 1..Len(t)
      BY <3>2
    <3>4. \A row \in 1..Len(t) : t[row] \in Range(t)
      BY <3>3 DEF Range
    <3>5. Range(t) \subseteq T
      BY DEF t
    <3> HIDE DEF T
    <3>6. t \in [1..Len(t) -> T]
      BY <3>3, <3>4, <3>5
    <3>7. t \in Seq(T)
      BY <3>3, <3>6
    <3> QED
      BY <3>3, <3>7 DEF t
  <2> HIDE DEF s, T
  <2>3. s \in Seq(Seq(T)) /\ Len(s) = n
    <3>1. s \in [1..n -> Seq(T)]
      BY <2>1, <2>2
    <3> QED
      BY <3>1
  <2> QED
    BY <2>1, <2>2, <2>3 DEF s
<1>7. Fits(Headers(samples), rows)
  <2>1. DOMAIN Headers(samples) = 1..n
    BY <1>2
  <2> QED
    BY <1>2, <1>5, <1>6, <2>1 DEF Fits
<1>8. Listed(Headers(samples), rows)
  BY <1>2, <1>4, <1>6 DEF Listed
<1> QED
  BY <1>2, <1>7, <1>8 DEF rows

(* Every sample is found again in its batch. *)
LEMMA SamplesAreFound ==
    ASSUME NEW n \in Nat \ {0}, NEW samples, samples = [i \in 1..n |-> samples[i]],
           \A i \in 1..n : IsSample(samples[i]), NEW i \in 1..n
    PROVE  Reconstructed(Ragged(samples), i) = samples[i]
<1> DEFINE r == Ragged(samples)
           e == samples[i]
<1>1. /\ Fits(Headers(samples), SampleRows(samples))
      /\ Headers(samples) = [j \in 1..n |-> Header(samples[j])] /\ Len(Headers(samples)) = n
  BY SamplesFit
<1>2. r = Laid(Headers(samples), SampleRows(samples))
  BY DEF Ragged
<1> HIDE DEF r
<1>3. Size(r) = n /\ \A column \in Columns : Slice(r, column, i) = SampleRows(samples)[column][i]
  <2> DEFINE headers == Headers(samples)
             rows == SampleRows(samples)
  <2>1. Fits(headers, rows) /\ r = Laid(headers, rows) /\ Len(headers) = n
    BY <1>1, <1>2
  <2> HIDE DEF headers, rows, e
  <2>2. Size(r) = Len(headers)
        /\ \A column \in Columns : \A j \in 1..Size(r) : Slice(r, column, j) = rows[column][j]
    BY <2>1, LaidIs
  <2> QED
    BY <2>1, <2>2 DEF rows
<1>4. r.headers[i] = Header(e)
  BY <1>1, <1>2 DEF Laid
<1>5. \A column \in Stored : Slice(r, column, i) = e[column]
  <2> SUFFICES ASSUME NEW column \in Stored PROVE Slice(r, column, i) = e[column]
    OBVIOUS
  <2>1. column \in Columns /\ column # "presence"
    BY DEF Stored, Columns, Lists
  <2>2. DOMAIN samples = 1..n
    OBVIOUS
  <2>3. SampleRows(samples)[column][i] = e[column]
    BY <2>1, <2>2 DEF SampleRows, Rows
  <2> QED
    BY <1>3, <2>1, <2>3
<1>6. e = [f \in DOMAIN e |-> e[f]] /\ Stored \subseteq DOMAIN e
  BY DEF IsSample
<1> HIDE DEF e
<1>7. DOMAIN Header(e) = DOMAIN e \ Stored /\ \A f \in DOMAIN e \ Stored : Header(e)[f] = e[f]
  BY DEF Header
<1>8. DOMAIN r.headers[i] \cup Stored = DOMAIN e
  BY <1>4, <1>6, <1>7
<1>9. Reconstructed(r, i) =
          [f \in DOMAIN e |-> IF f \in Stored THEN Slice(r, f, i) ELSE r.headers[i][f]]
  BY <1>8 DEF Reconstructed
<1>10. \A f \in DOMAIN e :
          (IF f \in Stored THEN Slice(r, f, i) ELSE r.headers[i][f]) = e[f]
  BY <1>4, <1>5, <1>7
<1>11. Reconstructed(r, i) = [f \in DOMAIN e |-> e[f]]
  BY <1>9, <1>10
<1> QED
  BY <1>6, <1>11 DEF r, e

(***************************************************************************)
(* The batch, its samples and what it is padded to.                         *)
(***************************************************************************)
Pads(widths) == \A list \in Lists : widths[list] # <<>> => widths[list][1] \in Nat

LayoutInv ==
    /\ taken \in Seq({Made(f) : f \in Frames})
    /\ padded = <<>> \/ padded = <<padded[1]>>
    /\ padded # <<>> =>
          /\ taken # <<>> /\ \A i \in DOMAIN taken : taken[i].frame \in Batched
          /\ Shaped(padded[1])
          /\ ~changed => \E widths : /\ Pads(widths) /\ Padded(Ragged(Samples), widths).ok
                                     /\ padded[1] = Padded(Ragged(Samples), widths).value

LEMMA SamplesAre ==
    ASSUME taken \in Seq({Made(f) : f \in Frames}), taken # <<>>,
           \A i \in DOMAIN taken : taken[i].frame \in Batched
    PROVE  /\ Len(taken) \in Nat \ {0} /\ DOMAIN taken = 1..Len(taken)
           /\ Samples = [i \in 1..Len(taken) |-> Samples[i]]
           /\ \A i \in 1..Len(taken) : IsSample(Samples[i])
<1>1. Len(taken) \in Nat \ {0} /\ DOMAIN taken = 1..Len(taken)
  OBVIOUS
<1>2. Samples = [i \in 1..Len(taken) |-> taken[i].encoded.value]
  BY <1>1 DEF Samples
<1>3. ASSUME NEW i \in 1..Len(taken) PROVE IsSample(taken[i].encoded.value)
  <2>1. PICK f \in Frames : taken[i] = Made(f)
    OBVIOUS
  <2>2. f \in Batched
    BY <1>1, <2>1, SamplesAssumption
  <2> QED
    BY <2>1, <2>2, SamplesAssumption
<1> QED
  BY <1>1, <1>2, <1>3

LEMMA WidthIs ==
    ASSUME NEW headers, NEW rows, Fits(headers, rows), NEW r, r = Laid(headers, rows),
           NEW widths, Pads(widths), NEW list \in Lists
    PROVE  Width(r, widths, list) \in Nat
<1>1. Longest(r, list) \in Nat
  <2>1. 0 \in Nat
    OBVIOUS
  <2> QED
    BY <2>1, WideEnough
<1> QED
  BY <1>1 DEF Width, Pads

(* What goes in comes out. *)
LEMMA GoesInComesOut ==
    ASSUME NEW n \in Nat \ {0}, NEW samples, samples = [i \in 1..n |-> samples[i]],
           \A i \in 1..n : IsSample(samples[i]), NEW widths, Pads(widths),
           Padded(Ragged(samples), widths).ok
    PROVE  /\ Shaped(Padded(Ragged(samples), widths).value)
           /\ Unpadded(Padded(Ragged(samples), widths).value) = Batch(Ragged(samples))
<1> DEFINE headers == Headers(samples)
           rows == SampleRows(samples)
           r == Ragged(samples)
<1>1. /\ Fits(headers, rows) /\ Listed(headers, rows) /\ r = Laid(headers, rows)
      /\ headers = [i \in 1..n |-> Header(samples[i])] 
  BY SamplesFit DEF Ragged
<1>2. headers = [i \in DOMAIN headers |-> headers[i]]
  BY <1>1
<1>3. ValidRagged(r)
  BY BatchesAre DEF Padded
<1> HIDE DEF headers, rows, r
<1>4. \A list \in Lists : Width(r, widths, list) \in Nat
  BY <1>1, WidthIs
<1>5. Padded(r, widths).ok
  BY DEF r
<1>6. /\ Shaped(Padded(r, widths).value)
      /\ Unpadded(Padded(r, widths).value) = Batch(r)
  BY <1>1, <1>2, <1>3, <1>4, <1>5, UnpadsBack
<1> QED
  BY <1>6 DEF r

LEMMA ChangedStaysShaped ==
    ASSUME NEW p, Shaped(p), NEW q,
           \/ \E column \in Columns : \E cell, value :
                 q = [p EXCEPT !.values[column][cell] = value]
           \/ \E list \in Lists : \E cell : \E bit \in 0..2 :
                 q = [p EXCEPT !.masks[list][cell] = bit]
    PROVE  Shaped(q)
<1>1. /\ p = [headers |-> p.headers, widths |-> p.widths, values |-> p.values, masks |-> p.masks]
      /\ p.values = [column \in Columns |-> p.values[column]]
      /\ p.masks = [list \in Lists |-> p.masks[list]]
      /\ \A column \in Columns :
            p.values[column] = [cell \in Cells(p, column) |-> p.values[column][cell]]
      /\ \A list \in Lists : p.masks[list] \in [Cells(p, list) -> 0..2]
  BY DEF Shaped
<1>2. CASE \E column \in Columns : \E cell, value : q = [p EXCEPT !.values[column][cell] = value]
  <2>0. PICK column \in Columns : \E cell, value : q = [p EXCEPT !.values[column][cell] = value]
    BY <1>2
  <2>1. PICK cell, value : q = [p EXCEPT !.values[column][cell] = value]
    BY <2>0
  <2>2. /\ q.headers = p.headers /\ q.widths = p.widths /\ q.masks = p.masks
        /\ q.values = [p.values EXCEPT ![column][cell] = value]
        /\ q = [headers |-> q.headers, widths |-> q.widths, values |-> q.values,
                masks |-> q.masks]
    BY <1>1, <2>1
  <2>3. \A c \in Columns : Cells(q, c) = Cells(p, c)
    BY <2>2 DEF Cells, WidthOf
  <2>4. \A list \in Lists : Cells(q, list) = Cells(p, list)
    BY <2>3, ListsAreColumns
  <2>5. q.values = [c \in Columns |-> q.values[c]]
    BY <1>1, <2>2
  <2>6. ASSUME NEW c \in Columns
        PROVE  q.values[c] = [k \in Cells(q, c) |-> q.values[c][k]]
    <3>1. CASE c = column
      <4>1. q.values[c] = [p.values[c] EXCEPT ![cell] = value]
        BY <1>1, <2>2, <3>1
      <4>2. DOMAIN p.values[c] = Cells(p, c)
        <5>1. p.values[c] = [k \in Cells(p, c) |-> p.values[c][k]]
          BY ONLY <1>1, <2>6
        <5> QED
          BY ONLY <5>1
      <4> QED
        BY <2>3, <4>1, <4>2
    <3>2. CASE c # column
      <4>1. q.values[c] = p.values[c]
        BY <1>1, <2>2, <3>2
      <4> QED
        BY <1>1, <2>3, <4>1
    <3> QED
      BY <3>1, <3>2
  <2>7. \A list \in Lists : q.masks[list] \in [Cells(q, list) -> 0..2]
    BY <1>1, <2>2, <2>4
  <2>8. q.masks = [list \in Lists |-> q.masks[list]]
    BY <1>1, <2>2
  <2> QED
    BY <2>2, <2>5, <2>6, <2>7, <2>8 DEF Shaped
<1>3. CASE \E list \in Lists : \E cell : \E bit \in 0..2 : q = [p EXCEPT !.masks[list][cell] = bit]
  <2>0. PICK list \in Lists : \E cell : \E bit \in 0..2 : q = [p EXCEPT !.masks[list][cell] = bit]
    BY <1>3
  <2>9. PICK cell : \E bit \in 0..2 : q = [p EXCEPT !.masks[list][cell] = bit]
    BY <2>0
  <2>1. PICK bit \in 0..2 : q = [p EXCEPT !.masks[list][cell] = bit]
    BY <2>9
  <2>2. /\ q.headers = p.headers /\ q.widths = p.widths /\ q.values = p.values
        /\ q.masks = [p.masks EXCEPT ![list][cell] = bit]
        /\ q = [headers |-> q.headers, widths |-> q.widths, values |-> q.values,
                masks |-> q.masks]
    BY <1>1, <2>1
  <2>3. \A c \in Columns : Cells(q, c) = Cells(p, c)
    BY <2>2 DEF Cells, WidthOf
  <2>4. \A l \in Lists : Cells(q, l) = Cells(p, l)
    BY <2>3, ListsAreColumns
  <2>5. q.masks = [l \in Lists |-> q.masks[l]]
    BY <1>1, <2>2
  <2>6. ASSUME NEW l \in Lists PROVE q.masks[l] \in [Cells(q, l) -> 0..2]
    <3>1. CASE l = list
      <4>1. q.masks[l] = [p.masks[l] EXCEPT ![cell] = bit]
        BY <1>1, <2>2, <3>1
      <4>2. p.masks[l] \in [Cells(p, l) -> 0..2]
        BY <1>1
      <4> QED
        BY <2>4, <4>1, <4>2
    <3>2. CASE l # list
      <4>1. q.masks[l] = p.masks[l]
        BY <1>1, <2>2, <3>2
      <4> QED
        BY <1>1, <2>4, <4>1
    <3> QED
      BY <3>1, <3>2
  <2>7. q.values = [c \in Columns |-> q.values[c]]
    BY <1>1, <2>2
  <2>8. \A c \in Columns : q.values[c] = [k \in Cells(q, c) |-> q.values[c][k]]
    BY <1>1, <2>2, <2>3
  <2> QED
    BY <2>2, <2>5, <2>6, <2>7, <2>8 DEF Shaped
<1> QED
  BY <1>2, <1>3

(* No step leaves it: a batch is made once, and one cell changes in place.  *)
LEMMA LayoutStep == LayoutInv /\ [BatchNext]_batchVars => LayoutInv'
<1> SUFFICES ASSUME LayoutInv, [BatchNext]_batchVars PROVE LayoutInv'
  OBVIOUS
<1> DEFINE M == {Made(f) : f \in Frames}
<1>1. /\ taken \in Seq(M) /\ (padded = <<>> \/ padded = <<padded[1]>>)
      /\ padded # <<>> =>
            /\ taken # <<>> /\ \A i \in DOMAIN taken : taken[i].frame \in Batched
            /\ Shaped(padded[1])
            /\ ~changed => \E widths : /\ Pads(widths) /\ Padded(Ragged(Samples), widths).ok
                                       /\ padded[1] = Padded(Ragged(Samples), widths).value
  BY DEF LayoutInv
<1>2. ASSUME NEW f \in Frames, Take(f) PROVE LayoutInv'
  <2>1. taken' = Append(taken, Made(f)) /\ padded' = <<>>
    BY <1>2 DEF Take
  <2>2. taken' \in Seq(M)
    <3>1. Made(f) \in M
      OBVIOUS
    <3> HIDE DEF M
    <3> QED
      BY <1>1, <2>1, <3>1
  <2> QED
    BY <2>1, <2>2 DEF LayoutInv
<1>3. ASSUME NEW widths \in Widths, Pad(widths) PROVE LayoutInv'
  <2> DEFINE made == Padded(Ragged(Samples), widths)
  <2>1. /\ taken # <<>> /\ \A i \in DOMAIN taken : taken[i].frame \in Batched
        /\ made.ok /\ padded' = <<made.value>> /\ taken' = taken
    BY <1>3 DEF Pad
  <2>2. Samples' = Samples
    BY <2>1 DEF Samples
  <2>3. Pads(widths)
    BY WidthsAssumption DEF Pads
  <2>4. /\ Len(taken) \in Nat \ {0} /\ Samples = [i \in 1..Len(taken) |-> Samples[i]]
        /\ \A i \in 1..Len(taken) : IsSample(Samples[i])
    BY <1>1, <2>1, SamplesAre
  <2>5. Shaped(made.value)
    BY <2>1, <2>3, <2>4, GoesInComesOut
  <2>6. padded' # <<>> /\ padded'[1] = made.value /\ padded' = <<padded'[1]>>
    BY <2>1
  <2>7. Padded(Ragged(Samples'), widths) = made
    BY <2>2
  <2> HIDE DEF made, M
  <2>8. \E w : /\ Pads(w) /\ Padded(Ragged(Samples'), w).ok
               /\ padded'[1] = Padded(Ragged(Samples'), w).value
    BY <2>1, <2>3, <2>6, <2>7
  <2> QED
    BY <1>1, <2>1, <2>5, <2>6, <2>8 DEF LayoutInv, M
<1>4. ASSUME Change PROVE LayoutInv'
  <2>1. padded # <<>>
    BY <1>4 DEF Change
  <2>2. /\ taken' = taken /\ changed' = TRUE
        /\ \E q : /\ padded' = <<q>>
                  /\ \/ \E column \in Columns : \E cell, value :
                           q = [padded[1] EXCEPT !.values[column][cell] = value]
                     \/ \E list \in Lists : \E cell : \E bit \in 0..2 :
                           q = [padded[1] EXCEPT !.masks[list][cell] = bit]
    <3>1. CASE \E column \in Columns : \E cell \in DOMAIN padded[1].values[column] :
                  ChangeValue(column, cell)
      BY <3>1 DEF ChangeValue
    <3>2. CASE \E list \in Lists : \E cell \in DOMAIN padded[1].masks[list] :
                  ChangeMask(list, cell)
      <4>6. PICK list \in Lists : \E cell : ChangeMask(list, cell)
        BY <3>2
      <4>1. PICK cell : ChangeMask(list, cell)
        BY <4>6
      <4>2. /\ taken' = taken /\ changed' = TRUE
            /\ \E bit \in 0..2 : padded' = <<[padded[1] EXCEPT !.masks[list][cell] = bit]>>
        BY <4>1 DEF ChangeMask
      <4>3. PICK bit \in 0..2 : padded' = <<[padded[1] EXCEPT !.masks[list][cell] = bit]>>
        BY <4>2
      <4> DEFINE q == [padded[1] EXCEPT !.masks[list][cell] = bit]
      <4>4. \E l \in Lists : \E c : \E b \in 0..2 : q = [padded[1] EXCEPT !.masks[l][c] = b]
        OBVIOUS
      <4>5. padded' = <<q>>
        BY <4>3
      <4> HIDE DEF q
      <4> QED
        BY <4>2, <4>4, <4>5
    <3> QED
      BY <1>4, <3>1, <3>2 DEF Change
  <2>3. PICK q : /\ padded' = <<q>>
                 /\ \/ \E column \in Columns : \E cell, value :
                          q = [padded[1] EXCEPT !.values[column][cell] = value]
                    \/ \E list \in Lists : \E cell : \E bit \in 0..2 :
                          q = [padded[1] EXCEPT !.masks[list][cell] = bit]
    BY <2>2
  <2>4. Shaped(q)
    BY <1>1, <2>1, <2>3, ChangedStaysShaped
  <2>5. padded'[1] = q /\ padded' # <<>>
    BY <2>3
  <2> QED
    BY <1>1, <2>1, <2>2, <2>3, <2>4, <2>5 DEF LayoutInv
<1>5. CASE UNCHANGED batchVars
  <2>1. taken' = taken /\ padded' = padded /\ changed' = changed
    BY <1>5 DEF batchVars
  <2>2. Samples' = Samples
    BY <2>1 DEF Samples
  <2> QED
    BY <1>1, <2>1, <2>2 DEF LayoutInv
<1> QED
  BY <1>2, <1>3, <1>4, <1>5 DEF BatchNext

(* And what it says of the batch is enough. *)
LEMMA LayoutIsExact == LayoutInv => UnpaddingIsExact
<1> SUFFICES ASSUME LayoutInv, padded # <<>>
             PROVE  LET p == padded[1]
                        r == Unpadded(p)
                    IN  /\ ~changed => /\ r = Batch(Ragged(Samples))
                                       /\ Samples = [i \in DOMAIN taken |->
                                                        Reconstructed(r.value, i)]
                        /\ r.ok => Padded(r.value, [list \in Lists |-> <<p.widths[list]>>])
                                       = Batch(p)
  BY DEF UnpaddingIsExact
<1> DEFINE p == padded[1]
           r == Unpadded(p)
<1>1. /\ taken # <<>> /\ \A i \in DOMAIN taken : taken[i].frame \in Batched
      /\ Shaped(p) /\ taken \in Seq({Made(f) : f \in Frames})
      /\ ~changed => \E widths : /\ Pads(widths) /\ Padded(Ragged(Samples), widths).ok
                                 /\ p = Padded(Ragged(Samples), widths).value
  BY DEF LayoutInv
<1>2. /\ Len(taken) \in Nat \ {0} /\ DOMAIN taken = 1..Len(taken)
      /\ Samples = [i \in 1..Len(taken) |-> Samples[i]]
      /\ \A i \in 1..Len(taken) : IsSample(Samples[i])
  BY <1>1, SamplesAre
<1>3. ASSUME ~changed
      PROVE  r = Batch(Ragged(Samples)) /\ Samples = [i \in DOMAIN taken |-> Reconstructed(r.value, i)]
  <2>1. PICK widths : /\ Pads(widths) /\ Padded(Ragged(Samples), widths).ok
                      /\ p = Padded(Ragged(Samples), widths).value
    BY <1>1, <1>3
  <2>2. r = Batch(Ragged(Samples))
    BY <1>2, <2>1, GoesInComesOut
  <2>3. r.value = Ragged(Samples)
    BY <2>2, BatchesAre
  <2>4. ASSUME NEW i \in 1..Len(taken) PROVE Reconstructed(r.value, i) = Samples[i]
    BY <1>2, <2>3, SamplesAreFound
  <2> HIDE DEF r
  <2>5. [i \in 1..Len(taken) |-> Reconstructed(r.value, i)] = [i \in 1..Len(taken) |-> Samples[i]]
    BY <2>4
  <2> QED
    BY <1>2, <2>2, <2>5
<1>4. ASSUME r.ok
      PROVE  Padded(r.value, [list \in Lists |-> <<p.widths[list]>>]) = Batch(p)
  BY <1>1, <1>4, PadsBack
<1> QED
  BY <1>3, <1>4

(* Whatever the samples are, however many go into a batch and however wide  *)
(* it is padded, unpad_model_batch_v1 gives back the ragged batch that      *)
(* pad_model_batch_v1 was given, and every sample is found in it again; and *)
(* once a cell or a mask bit is another, what is still accepted pads to the *)
(* very batch that was unpadded, so no cell of a padded batch is ignored.   *)
THEOREM UnpaddingHolds == BatchSpec => []UnpaddingIsExact
<1>1. BatchInit => LayoutInv
  <2> SUFFICES ASSUME BatchInit PROVE LayoutInv
    OBVIOUS
  <2>1. <<>> \in Seq({Made(f) : f \in Frames})
    OBVIOUS
  <2> QED
    BY <2>1 DEF BatchInit, LayoutInv
<1> QED
  BY <1>1, LayoutStep, LayoutIsExact, PTL DEF BatchSpec

============================================================================
