-------------------------- MODULE ArtifactStorage --------------------------
(***************************************************************************)
(* publish_content_addressed_artifact (src/src/trajectory/storage.cpp):     *)
(* several processes, each with several threads, publish artifacts into one *)
(* directory.  A publisher prepares the bytes in a temporary directory of   *)
(* its own, rereads them, and links the file to its final name; a process   *)
(* may die between any two steps and leaves what it had on disk.            *)
(*                                                                          *)
(* A hard link gives the final name and the temporary payload the SAME      *)
(* file: whoever wrote to that payload again would change what is published. *)
(***************************************************************************)
EXTENDS Naturals

CONSTANTS
    Artifacts,     \* kind, digest and bytes of an artifact, as one value
    Processes,     \* operating system processes
    Threads,       \* publishing threads of a process
    MaxAttempts,   \* temporary names one call tries (1024 in the code)
    SeqMax,        \* bound of the model on a process's counter of temporary names
    Nothing        \* no artifact, no directory, no file

ASSUME StorageAssumption ==
    /\ MaxAttempts \in Nat \ {0}
    /\ SeqMax \in Nat
    /\ Nothing \notin Artifacts \cup {"complete", "partial", "different", "irregular", "dangling"}

Publishers == Processes \X Threads

(* Temporary directories are named after the final name and a number. *)
TempNames == [artifact : Artifacts, seq : 0..(SeqMax - 1)]

ASSUME NamesAssumption == Nothing \notin TempNames

(* What a final name can hold: the artifact, other bytes, a directory or a  *)
(* link to one, or a link to nothing, which exists() does not see.          *)
ForeignFinals == {"different", "irregular", "dangling"}

(* What a temporary directory can hold; "absent" when there is none. *)
TempContents == {"absent", "bare", "partial", "complete"}

VARIABLES
    final,      \* content under the final name of each artifact
    temp,       \* content of the temporary directory of each name
    tied,       \* temporary payloads that are the same file as their final name
    sequence,   \* temporary_directory_sequence of each process
    stage,      \* where each publisher is
    artifact,   \* what it publishes
    own,        \* temporary_directory it has created
    attempts,   \* names it has tried
    outcome,    \* what its last call returned, or will return after cleaning
    abandoned   \* history: directories nobody will remove any more

diskVars == <<final, temp, tied>>
publisherVars == <<stage, artifact, own, attempts, outcome>>
storageVars == <<diskVars, sequence, publisherVars, abandoned>>

Stages == {"idle", "probe", "inspect", "allocate", "open", "write", "verify", "link",
           "contend", "clean"}
Outcomes == {"none", "published", "conflict", "failed"}

StorageTypeOK ==
    /\ final \in [Artifacts -> ForeignFinals \cup {"complete", "partial", Nothing}]
    /\ temp \in [TempNames -> TempContents]
    /\ tied \subseteq TempNames
    /\ sequence \in [Processes -> 0..SeqMax]
    /\ stage \in [Publishers -> Stages]
    /\ artifact \in [Publishers -> Artifacts \cup {Nothing}]
    /\ own \in [Publishers -> TempNames \cup {Nothing}]
    /\ attempts \in [Publishers -> 0..MaxAttempts]
    /\ outcome \in [Publishers -> Outcomes]
    /\ abandoned \subseteq TempNames

----------------------------------------------------------------------------
(* A directory that may already hold anything under the final names. *)
StorageInit ==
    /\ final \in [Artifacts -> ForeignFinals \cup {"complete", Nothing}]
    /\ temp = [n \in TempNames |-> "absent"]
    /\ tied = {}
    /\ sequence = [p \in Processes |-> 0]
    /\ stage = [t \in Publishers |-> "idle"]
    /\ artifact = [t \in Publishers |-> Nothing]
    /\ own = [t \in Publishers |-> Nothing]
    /\ attempts = [t \in Publishers |-> 0]
    /\ outcome = [t \in Publishers |-> "none"]
    /\ abandoned = {}

At(t, s) == stage[t] = s
Goto(t, s) == stage' = [stage EXCEPT ![t] = s]

(* Return now, with nothing to clean. *)
Finish(t, result) ==
    /\ Goto(t, "idle")
    /\ outcome' = [outcome EXCEPT ![t] = result]
    /\ artifact' = [artifact EXCEPT ![t] = Nothing]
    /\ attempts' = [attempts EXCEPT ![t] = 0]

(* Leave the block that owns the temporary directory. *)
Leave(t, result) ==
    /\ Goto(t, "clean")
    /\ outcome' = [outcome EXCEPT ![t] = result]
    /\ UNCHANGED <<artifact, own, attempts>>

(* std::filesystem::exists follows links. *)
FinalExists(a) == final[a] \notin {Nothing, "dangling"}

----------------------------------------------------------------------------
(* The arguments are wrong: kind, digest, or bytes that do not have it.     *)
Reject(t) ==
    /\ At(t, "idle")
    /\ outcome' = [outcome EXCEPT ![t] = "failed"]
    /\ UNCHANGED <<diskVars, sequence, stage, artifact, own, attempts, abandoned>>

Start(t, a) ==
    /\ At(t, "idle")
    /\ Goto(t, "probe")
    /\ artifact' = [artifact EXCEPT ![t] = a]
    /\ outcome' = [outcome EXCEPT ![t] = "none"]
    /\ UNCHANGED <<diskVars, sequence, own, attempts, abandoned>>

(* The directory can be made and its final name inspected, or not. *)
Probe(t) ==
    /\ At(t, "probe")
    /\ \/ Finish(t, "failed")
       \/ /\ Goto(t, IF FinalExists(artifact[t]) THEN "inspect" ELSE "allocate")
          /\ UNCHANGED <<artifact, attempts, outcome>>
    /\ UNCHANGED <<diskVars, sequence, own, abandoned>>

(* Mutant: whatever exists under the name is taken for the artifact. *)
ComparedByName(a) == "published"

(* A regular file with exactly the same bytes, or a conflict. *)
Compared(a) == IF final[a] = "complete" THEN "published" ELSE "conflict"

(* The final name existed before the call; reading it may fail. *)
Inspect(t) ==
    /\ At(t, "inspect")
    /\ \E result \in {Compared(artifact[t]), "failed"} : Finish(t, result)
    /\ UNCHANGED <<diskVars, sequence, own, abandoned>>

TempName(t) == [artifact |-> artifact[t], seq |-> sequence[t[1]]]

(* Beyond SeqMax names the model follows a call only when it fails. *)
CounterLeft(t) == sequence[t[1]] < SeqMax

NextName(t) ==
    sequence' = [sequence EXCEPT ![t[1]] = IF CounterLeft(t) THEN @ + 1 ELSE @]

AttemptsLeft(t) == attempts[t] < MaxAttempts

(* create_directory fails for another reason than that the name exists. *)
AllocateFails(t) ==
    /\ At(t, "allocate")
    /\ AttemptsLeft(t)
    /\ NextName(t)
    /\ Finish(t, "failed")
    /\ UNCHANGED <<diskVars, own, abandoned>>

(* create_directory is true only for the one that creates the directory. *)
Created(name) == temp[name] = "absent"

Allocate(t) ==
    /\ At(t, "allocate")
    /\ AttemptsLeft(t) /\ CounterLeft(t)
    /\ Created(TempName(t))
    /\ NextName(t)
    /\ temp' = [temp EXCEPT ![TempName(t)] = "bare"]
    /\ own' = [own EXCEPT ![t] = TempName(t)]
    /\ Goto(t, "open")
    /\ UNCHANGED <<final, tied, artifact, attempts, outcome, abandoned>>

NameTaken(t) ==
    /\ At(t, "allocate")
    /\ AttemptsLeft(t) /\ CounterLeft(t)
    /\ ~Created(TempName(t))
    /\ NextName(t)
    /\ attempts' = [attempts EXCEPT ![t] = @ + 1]
    /\ UNCHANGED <<diskVars, stage, artifact, own, outcome, abandoned>>

(* Every name tried was taken. *)
AllocateGivesUp(t) ==
    /\ At(t, "allocate")
    /\ ~AttemptsLeft(t)
    /\ Finish(t, "failed")
    /\ UNCHANGED <<diskVars, sequence, own, abandoned>>

----------------------------------------------------------------------------
(* Writing to a payload that is tied to its final name changes that, too.   *)
WritePayload(t, content) ==
    /\ temp' = [temp EXCEPT ![own[t]] = content]
    /\ final' = IF own[t] \in tied THEN [final EXCEPT ![own[t].artifact] = content] ELSE final
    /\ UNCHANGED tied

(* Opening truncates. *)
Open(t) ==
    /\ At(t, "open")
    /\ WritePayload(t, "partial")
    /\ Goto(t, "write")
    /\ UNCHANGED <<sequence, artifact, own, attempts, outcome, abandoned>>

Write(t) ==
    /\ At(t, "write")
    /\ WritePayload(t, "complete")
    /\ Goto(t, "verify")
    /\ UNCHANGED <<sequence, artifact, own, attempts, outcome, abandoned>>

(* Opening, writing, flushing, closing, rereading or linking fails; a short *)
(* write that no call reported is caught by the rereading.                  *)
PreparationFails(t) ==
    /\ stage[t] \in {"open", "write", "verify"}
    /\ Leave(t, "failed")
    /\ UNCHANGED <<diskVars, sequence, abandoned>>

ShortWrite(t) ==
    /\ At(t, "write")
    /\ Goto(t, "verify")
    /\ UNCHANGED <<diskVars, sequence, artifact, own, attempts, outcome, abandoned>>

Verified(t) == temp[own[t]] = "complete"

Verify(t) ==
    /\ At(t, "verify")
    /\ Verified(t)
    /\ Goto(t, "link")
    /\ UNCHANGED <<diskVars, sequence, artifact, own, attempts, outcome, abandoned>>

----------------------------------------------------------------------------
(* create_hard_link never replaces a name. *)
Linkable(a) == final[a] = Nothing

Link(t) ==
    /\ At(t, "link")
    /\ Linkable(artifact[t])
    /\ final' = [final EXCEPT ![artifact[t]] = temp[own[t]]]
    /\ tied' = tied \cup {own[t]}
    /\ Leave(t, "published")
    /\ UNCHANGED <<temp, sequence, abandoned>>

(* The name is taken, or the link fails for a reason of its own. *)
LinkFails(t) ==
    /\ At(t, "link")
    /\ Goto(t, "contend")
    /\ UNCHANGED <<diskVars, sequence, artifact, own, attempts, outcome, abandoned>>

(* Mutant: a name that is taken is a conflict. *)
ContendConflicts(t) ==
    /\ At(t, "contend")
    /\ Leave(t, IF FinalExists(artifact[t]) THEN "conflict" ELSE "failed")
    /\ UNCHANGED <<diskVars, sequence, abandoned>>

(* Whoever lost the race succeeds if the winner published the same bytes. A *)
(* winner that cannot be read is reported as a conflict as well, here as    *)
(* "failed".                                                                *)
Contend(t) ==
    /\ At(t, "contend")
    /\ \/ FinalExists(artifact[t]) /\ Leave(t, Compared(artifact[t]))
       \/ Leave(t, "failed")
    /\ UNCHANGED <<diskVars, sequence, abandoned>>

(* Mutant: a call that failed leaves its directory. *)
CleanAfterSuccess(t) ==
    /\ At(t, "clean")
    /\ IF outcome[t] = "published"
       THEN temp' = [temp EXCEPT ![own[t]] = "absent"] /\ tied' = tied \ {own[t]}
       ELSE UNCHANGED <<temp, tied>>
    /\ own' = [own EXCEPT ![t] = Nothing]
    /\ Finish(t, outcome[t])
    /\ UNCHANGED <<final, sequence, abandoned>>

Clean(t) ==
    /\ At(t, "clean")
    /\ temp' = [temp EXCEPT ![own[t]] = "absent"]
    /\ tied' = tied \ {own[t]}
    /\ own' = [own EXCEPT ![t] = Nothing]
    /\ Finish(t, outcome[t])
    /\ UNCHANGED <<final, sequence, abandoned>>

(* remove_all fails, and its error is ignored. *)
CleanFails(t) ==
    /\ At(t, "clean")
    /\ abandoned' = abandoned \cup {own[t]}
    /\ own' = [own EXCEPT ![t] = Nothing]
    /\ Finish(t, outcome[t])
    /\ UNCHANGED <<diskVars, sequence>>

----------------------------------------------------------------------------
(* A process dies: its threads are gone, its counter starts at zero in the  *)
(* next process, its directories stay.                                      *)
Crash(p) ==
    LET dead == {t \in Publishers : t[1] = p}
        Reset(f, value) == [t \in Publishers |-> IF t \in dead THEN value ELSE f[t]]
    IN  /\ sequence' = [sequence EXCEPT ![p] = 0]
        /\ stage' = Reset(stage, "idle")
        /\ artifact' = Reset(artifact, Nothing)
        /\ own' = Reset(own, Nothing)
        /\ attempts' = Reset(attempts, 0)
        /\ outcome' = Reset(outcome, "none")
        /\ abandoned' = abandoned \cup ({own[t] : t \in dead} \ {Nothing})
        /\ UNCHANGED diskVars

(* Another program puts something of its own under a free final name. *)
Intrude(a) ==
    /\ final[a] = Nothing
    /\ \E foreign \in ForeignFinals : final' = [final EXCEPT ![a] = foreign]
    /\ UNCHANGED <<temp, tied, sequence, publisherVars, abandoned>>

Step(t) ==
    \/ Probe(t)
    \/ Inspect(t)
    \/ AllocateFails(t)
    \/ Allocate(t)
    \/ NameTaken(t)
    \/ AllocateGivesUp(t)
    \/ Open(t)
    \/ Write(t)
    \/ ShortWrite(t)
    \/ PreparationFails(t)
    \/ Verify(t)
    \/ Link(t)
    \/ LinkFails(t)
    \/ Contend(t)
    \/ Clean(t)
    \/ CleanFails(t)

StorageNext ==
    \/ \E t \in Publishers : Reject(t) \/ (\E a \in Artifacts : Start(t, a)) \/ Step(t)
    \/ \E p \in Processes : Crash(p)
    \/ \E a \in Artifacts : Intrude(a)

(* A thread that has started a call goes on until it returns; nobody is     *)
(* made to start a call or to die.                                          *)
StorageSpec ==
    /\ StorageInit
    /\ [][StorageNext]_storageVars
    /\ \A t \in Publishers : WF_storageVars(Step(t))

----------------------------------------------------------------------------
(***************************************************************************)
(* Properties.                                                              *)
(***************************************************************************)

(* Nobody ever sees a partial artifact under a final name: not while it is  *)
(* written, not after a crash, and not when a directory that is still tied  *)
(* to a final name lies around.                                             *)
FinalIsWhole == \A a \in Artifacts : final[a] # "partial"

(* What lies under a final name stays what it is. *)
FinalIsImmutable == [][\A a \in Artifacts : final[a] # Nothing => final'[a] = final[a]]_storageVars

(* A call reports success only when the artifact is there, whoever put it   *)
(* there; publishers of the same bytes never report a conflict to one       *)
(* another.                                                                 *)
ReturnIsTrue(t) ==
    stage[t] # "idle" /\ stage'[t] = "idle" =>
        /\ outcome'[t] = "published" => final[artifact[t]] = "complete"
        /\ outcome'[t] = "conflict" => final[artifact[t]] \in ForeignFinals

ReturnsAreTrue == \A t \in Publishers : ReturnIsTrue(t)

OutcomeIsTrue == [][ReturnsAreTrue]_storageVars

(* Every temporary directory belongs to exactly one call that is going to   *)
(* remove it, or nobody will: no call takes over a directory that somebody  *)
(* left, and none is left behind without a crash or a failed removal.       *)
TempsAreAccountedFor ==
    /\ \A t, u \in Publishers : own[t] # Nothing /\ own[t] = own[u] => t = u
    /\ \A n \in TempNames : temp[n] # "absent" =>
           (n \in abandoned <=> \A t \in Publishers : own[t] # n)

(* The caller's view: a name is what lies under it, and a call is the       *)
(* artifact it is about.                                                    *)
AnswerSeen == [t \in Publishers |-> IF stage[t] = "idle" THEN outcome[t] ELSE "none"]

WriteOnce == INSTANCE WriteOnceStore WITH
    Artifact <- Artifacts,
    Caller   <- Publishers,
    Foreign  <- ForeignFinals,
    Whole    <- "complete",
    Free     <- Nothing,
    NoCall   <- Nothing,
    stored   <- final,
    calling  <- artifact,
    answer   <- AnswerSeen

(* Publication through temporary directories and links is a write-once store. *)
ImplementsStore == WriteOnce!StoreSpec

=============================================================================
