--------------------------- MODULE PolicyProvenance ---------------------------
(***************************************************************************)
(* Who decides for whom: policy artifacts, the assignments that give the    *)
(* players to them, and the random streams stochastic policies draw from.   *)
(* An identity is a digest of what it identifies, so here a thing is its    *)
(* own identity; how identities are written is the subject of               *)
(* TrajectoryWire.                                                          *)
(***************************************************************************)
EXTENDS Naturals, FiniteSets

CONSTANTS
    None,       \* an absent optional value
    Decks,      \* the two locked decks of the certified environment, by role 0 and 1
    Registry    \* registrations with typed authority

NoRng == "no_policy_rng"

----------------------------------------------------------------------------
(* The resolver: a registration is a category, an identity and, where the   *)
(* category has them, capabilities.                                         *)
ContractKinds == {"producer", "inference", "observation", "action", "sampling", "rng", "search"}
ContentKinds == {"checkpoint", "demonstration", "metadata", "immutable"}

ValidRegistration(r) ==
    /\ r.kind \in ContractKinds \cup ContentKinds
    /\ (r.kind = "sampling") = (r.capabilities # None /\ r.descriptor = None)
    /\ r.kind # "rng" => r.descriptor = None
    /\ r.kind = "rng" =>
        IF r.identity = NoRng THEN r.descriptor = None
        ELSE r.descriptor # None /\ (r.descriptor.canonicalStates \/ r.descriptor.uniqueCursor)

ASSUME RegistryAssumption ==
    /\ \A r \in Registry : ValidRegistration(r)
    /\ \A r, s \in Registry : r.kind = s.kind /\ r.identity = s.identity => r = s
    /\ DOMAIN Decks = {0, 1}

Registered(kind, identity) == {r \in Registry : r.kind = kind /\ r.identity = identity}
CanResolve(kind, identity) == Registered(kind, identity) # {}
Sampling(identity) == (CHOOSE r \in Registered("sampling", identity) : TRUE).capabilities
HasDescriptor(rng) == \E r \in Registered("rng", rng) : r.descriptor # None
Descriptor(rng) == (CHOOSE r \in Registered("rng", rng) : TRUE).descriptor

----------------------------------------------------------------------------
(* validate_policy_kind: what each kind of policy must and must not have.   *)
UsesRng(artifact) == artifact.rng # NoRng

ValidPolicyKind(a) ==
    /\ CanResolve("sampling", a.sampling) /\ Sampling(a.sampling).complete
    /\ CanResolve("rng", a.rng)
    /\ UsesRng(a) => HasDescriptor(a.rng)
    /\ ~Sampling(a.sampling).deterministic => UsesRng(a)
    /\ a.kind \in {"random_legal", "heuristic"} =>
        /\ UsesRng(a) = (a.kind = "random_legal")
        /\ Sampling(a.sampling).deterministic = (a.kind = "heuristic")
        /\ a.checkpoint = None /\ a.search = None /\ a.demonstration = None
    /\ a.kind = "neural" => a.checkpoint # None
    /\ a.kind = "search" => a.search # None
    /\ a.kind = "imported" => a.demonstration # None

Resolves(a) ==
    /\ \A kind \in {"producer", "inference", "observation", "action"} : CanResolve(kind, a[kind])
    /\ \A kind \in {"checkpoint", "search", "demonstration", "metadata"} :
          a[kind] # None => CanResolve(kind, a[kind])

(* Whose seat and deck is whose. *)
DeckIndex(spec, player) == IF spec.mirror THEN 1 - player ELSE player
Seat(spec, player) == IF player = spec.starting THEN "starting" ELSE "second"

ValidAssignment(p, spec, a) ==
    /\ a.player \in {0, 1}
    /\ a.artifact \in p.artifacts
    /\ a.role = DeckIndex(spec, a.player) /\ a.deck = Decks[a.role]
    /\ a.seat = Seat(spec, a.player)

Of(p, player) == {a \in p.assignments : a.player = player}

(* A player's epochs, which take effect one after the other, the first at   *)
(* once.                                                                    *)
EpochsAdvance(assignments) ==
    /\ \E a \in assignments : a.epoch = 0 /\ a.from = 0
    /\ \A a, b \in assignments : a # b =>
          \/ a.epoch < b.epoch /\ a.from < b.from
          \/ b.epoch < a.epoch /\ b.from < a.from

ValidProvenance(p, spec) ==
    /\ \A a \in p.artifacts : ValidPolicyKind(a) /\ Resolves(a)
    /\ \A a \in p.assignments : ValidAssignment(p, spec, a)
    /\ \A player \in {0, 1} : EpochsAdvance(Of(p, player))

(* The assignment that decides for a player at a decision: the latest that  *)
(* has taken effect.  A set, for there may be none or, unvalidated, two.    *)
Active(p, player, index) ==
    {a \in Of(p, player) : /\ a.from <= index
                           /\ \A b \in Of(p, player) : b.from <= index => b.from <= a.from}

----------------------------------------------------------------------------
(* Random streams.  Raw material is secret; an initialization identifies    *)
(* it, a stream is an initialization in the hands of an assignment.         *)
Material(root, assignment, stream) == [root |-> root, assignment |-> assignment, stream |-> stream]
Initialization(contract, stream, material) ==
    [contract |-> contract, stream |-> stream, material |-> material]
Stream(assignment, contract, stream, init) ==
    [artifact |-> assignment.artifact, assignment |-> assignment, contract |-> contract,
     stream |-> stream, init |-> init]

CanonicalMaterial(material) == material # None

(* unique_initialization_identity: material, initialization and the stream  *)
(* name it declares are of one another.                                     *)
UniqueCursor(init, identity) ==
    CanonicalMaterial(init.material) /\ init.material.stream = init.stream /\ init = identity

ValidInitialization(init, identity) ==
    /\ HasDescriptor(init.contract)
    /\ CanonicalMaterial(init.material)
    /\ init = identity

(* What a record says of the randomness behind a choice. *)
NoDraw(assignment, index) ==
    [mode |-> "none", assignment |-> assignment, index |-> index, stream |-> None,
     pre |-> None, post |-> None]
Draw(assignment, index, stream, pre, post) ==
    [mode |-> "cursor", assignment |-> assignment, index |-> index, stream |-> stream,
     pre |-> pre, post |-> post]

(* A stream recomputes from the assignment and artifact it is attributed to *)
Recomputes(stream, assignment) ==
    stream = Stream(assignment, assignment.artifact.rng, stream.stream, stream.init)

----------------------------------------------------------------------------
(* What a runner requires of the sessions it is given, one for each player: *)
(* exactly one assignment each, to a random artifact, and a stream of its   *)
(* own from the first word on.                                              *)
BindingFits(binding, p, player) ==
    \E a \in Of(p, player) :
        /\ Of(p, player) = {a}
        /\ a.artifact.kind = "random_legal" /\ a.artifact \in p.artifacts
        /\ binding.init.contract = a.artifact.rng
        /\ binding.stream = Stream(a, a.artifact.rng, binding.init.stream, binding.init)
        /\ ValidInitialization(binding.init, binding.init)
        /\ UniqueCursor(binding.init, binding.init)

SessionsFit(sessions, p) ==
    /\ \A player \in {0, 1} : BindingFits(sessions[player], p, player)
    /\ sessions[0].stream # sessions[1].stream

(* make_random_legal_execution_binding *)
Binding(assignment, root, stream) ==
    LET init == Initialization(assignment.artifact.rng, stream,
                               Material(root, assignment, stream))
    IN  [init |-> init, stream |-> Stream(assignment, assignment.artifact.rng, stream, init)]
================================================================================
