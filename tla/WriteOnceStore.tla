--------------------------- MODULE WriteOnceStore ---------------------------
(***************************************************************************)
(* What publish_content_addressed_artifact promises to its callers, without *)
(* its temporary directories: a name is filled once, with the whole         *)
(* artifact, and never changes again; a call that reports success has a     *)
(* whole artifact under its name.                                           *)
(***************************************************************************)
CONSTANTS
    Artifact,     \* artifacts; the final name is a function of kind and digest
    Caller,       \* those who publish
    Foreign,      \* what may lie under a final name that no publisher put there
    Whole,        \* the complete artifact
    Free,         \* nothing under the name
    NoCall        \* a caller that waits for no answer, and no artifact

VARIABLES
    stored,    \* what lies under the final name of each artifact
    calling,   \* the artifact each caller is publishing, or NoCall
    answer     \* the last answer each caller got

storeVars == <<stored, calling, answer>>

Answers == {"none", "published", "conflict", "failed"}

StoreInit ==
    /\ stored \in [Artifact -> Foreign \cup {Whole, Free}]
    /\ calling = [c \in Caller |-> NoCall]
    /\ answer = [c \in Caller |-> "none"]

Ask(c, a) ==
    /\ calling[c] = NoCall
    /\ calling' = [calling EXCEPT ![c] = a]
    /\ answer' = [answer EXCEPT ![c] = "none"]
    /\ UNCHANGED stored

(* A call refused for its arguments. *)
Refuse(c) ==
    /\ calling[c] = NoCall
    /\ answer' = [answer EXCEPT ![c] = "failed"]
    /\ UNCHANGED <<stored, calling>>

Store(a) ==
    /\ \E c \in Caller : calling[c] = a
    /\ stored[a] = Free
    /\ stored' = [stored EXCEPT ![a] = Whole]
    /\ UNCHANGED <<calling, answer>>

(* Somebody else takes a free name. *)
Intrude(a) ==
    /\ stored[a] = Free
    /\ \E foreign \in Foreign : stored' = [stored EXCEPT ![a] = foreign]
    /\ UNCHANGED <<calling, answer>>

(* Success needs the whole artifact, a conflict needs something foreign, a  *)
(* failure may always be reported.                                          *)
Answer(c, a) ==
    /\ calling[c] # NoCall
    /\ a = "published" => stored[calling[c]] = Whole
    /\ a = "conflict" => stored[calling[c]] \in Foreign
    /\ calling' = [calling EXCEPT ![c] = NoCall]
    /\ answer' = [answer EXCEPT ![c] = a]
    /\ UNCHANGED stored

(* Callers that die together get no answer. *)
Die(callers) ==
    /\ calling' = [c \in Caller |-> IF c \in callers THEN NoCall ELSE calling[c]]
    /\ answer' = [c \in Caller |-> IF c \in callers THEN "none" ELSE answer[c]]
    /\ UNCHANGED stored

StoreNext ==
    \/ \E c \in Caller, a \in Artifact : Ask(c, a)
    \/ \E c \in Caller : Refuse(c)
    \/ \E a \in Artifact : Store(a) \/ Intrude(a)
    \/ \E c \in Caller, a \in Answers \ {"none"} : Answer(c, a)
    \/ \E callers \in SUBSET Caller : Die(callers)

StoreSpec == StoreInit /\ [][StoreNext]_storeVars

=============================================================================
