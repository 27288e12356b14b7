---------------------------- MODULE PostPerfResult ----------------------------
(***************************************************************************)
(* postPerfResult.js, run by several pipelines that were requested in one  *)
(* pull-request comment and share its status comment.  Each poster creates *)
(* a results comment of its own, then replaces its placeholder in the body *)
(* of the shared comment by a link.  GitHub offers no compare-and-set: the *)
(* body is read, edited and written back whole, so that a poster can undo  *)
(* what another has written in between.  Against that, the script reads    *)
(* the comment again RetryDelay later, and repeats up to MaxTries times.   *)
(*                                                                         *)
(* Time passes in ticks.  MaxLatency bounds the age of a body that a write *)
(* brings in: from the moment GitHub answers the read to the last moment   *)
(* at which the write, or a retry of it by the client library, is applied. *)
(* It is an assumption on the network, and no bound on it is in the code.  *)
(***************************************************************************)
EXTENDS Naturals

CONSTANTS
    Posters,        \* the script runs that share the comment, by DISTINCT_ID
    MaxTries,       \* iterations of the loop
    RetryDelay,     \* ticks between a write and the next read
    MaxLatency      \* ticks between a read and the write of what it gave

ASSUME PostAssumption ==
    /\ MaxTries \in Nat \ {0}
    /\ RetryDelay \in Nat
    /\ MaxLatency \in Nat

VARIABLES
    comment,    \* body of the status comment: the entry of each poster
    pc,         \* what each poster awaits
    tries,      \* loop iterations it has completed
    copy,       \* the body it has read and is about to write back, edited
    age,        \* ticks since that read, or since its write
    results     \* whether its results comment is on the pull request

vars == <<comment, pc, tries, copy, age, results>>

(* An entry is a placeholder to fill in, the link that replaces it, or is not *)
(* there at all: the status comment was written by a bot outside this code.   *)
Entry == {"placeholder", "link", "absent"}
Body == [Posters -> Entry]

Init ==
    /\ comment \in [Posters -> {"placeholder", "absent"}]
    /\ pc = [p \in Posters |-> "create"]
    /\ tries = [p \in Posters |-> 0]
    /\ copy = [p \in Posters |-> comment]
    /\ age = [p \in Posters |-> 0]
    /\ results = [p \in Posters |-> FALSE]

-----------------------------------------------------------------------------
(* await createComment: the results are on the pull request.  If the answer is *)
(* lost, the client library posts them again.                                  *)
CreateResults(p) ==
    /\ pc[p] = "create"
    /\ results' = [results EXCEPT ![p] = TRUE]
    /\ \/ pc' = [pc EXCEPT ![p] = "get"]
       \/ UNCHANGED pc
    /\ UNCHANGED <<comment, tries, copy, age>>

(* Mutant: the script trusts its own write. *)
VerifiedAfterOne(p) == tries[p] > 0 \/ comment[p] # "placeholder"

(* The loop ends well once the placeholder is gone, whoever removed it. *)
Verified(p) == comment[p] # "placeholder"

(* await getComment, answered with the body of this moment. *)
GetComment(p) ==
    /\ pc[p] = "get"
    /\ IF Verified(p)
       THEN /\ pc' = [pc EXCEPT ![p] = "done"]
            /\ UNCHANGED <<copy, age>>
       ELSE /\ pc' = [pc EXCEPT ![p] = "put"]
            /\ copy' = [copy EXCEPT ![p] = comment]
            /\ age' = [age EXCEPT ![p] = 0]
    /\ UNCHANGED <<comment, tries, results>>

(* Mutants: the old body is written back as it was; the link alone is written. *)
NotEdited(p) == copy[p]
LinkAlone(p) == [q \in {p} |-> "link"]

Edited(p) == [copy[p] EXCEPT ![p] = "link"]

(* await updateComment is applied.  Its answer starts the delay; if the answer *)
(* is lost, the client library sends the same body again.                      *)
UpdateComment(p) ==
    /\ pc[p] = "put"
    /\ comment' = Edited(p)
    /\ \/ /\ pc' = [pc EXCEPT ![p] = "sleep"]
          /\ age' = [age EXCEPT ![p] = 0]
       \/ UNCHANGED <<pc, age>>
    /\ UNCHANGED <<tries, copy, results>>

(* Mutant: no delay between the write and the next read. *)
RestedAtOnce(p) == TRUE

(* setTimeout may fire late, never early. *)
Rested(p) == age[p] >= RetryDelay

(* Mutant: the body of the loop is not repeated. *)
OutOfTriesAtOnce(p) == TRUE

OutOfTries(p) == tries[p] + 1 = MaxTries

(* The delay is over: read again, or give up after the last iteration. *)
Wake(p) ==
    /\ pc[p] = "sleep"
    /\ Rested(p)
    /\ tries' = [tries EXCEPT ![p] = @ + 1]
    /\ pc' = [pc EXCEPT ![p] = IF OutOfTries(p) THEN "gaveUp" ELSE "get"]
    /\ UNCHANGED <<comment, copy, age, results>>

(* A request fails for good and the exception ends the process.  A write may   *)
(* have been applied all the same.                                             *)
RequestFails(p) ==
    /\ pc[p] \in {"create", "get", "put"}
    /\ pc' = [pc EXCEPT ![p] = "failed"]
    /\ \/ UNCHANGED <<comment, results>>
       \/ pc[p] = "put" /\ comment' = Edited(p) /\ UNCHANGED results
       \/ pc[p] = "create" /\ results' = [results EXCEPT ![p] = TRUE] /\ UNCHANGED comment
    /\ UNCHANGED <<tries, copy, age>>

(* A write in flight cannot outlive MaxLatency, a sleep may last. *)
Tick ==
    /\ \A p \in Posters : pc[p] = "put" => age[p] < MaxLatency
    /\ \E p \in Posters : pc[p] = "put" \/ (pc[p] = "sleep" /\ ~Rested(p))
    /\ age' = [p \in Posters |->
                 IF pc[p] = "put" \/ (pc[p] = "sleep" /\ age[p] < RetryDelay)
                 THEN age[p] + 1 ELSE age[p]]
    /\ UNCHANGED <<comment, pc, tries, copy, results>>

(* Every script has ended. *)
Ended == (\A p \in Posters : pc[p] \in {"done", "gaveUp", "failed"}) /\ UNCHANGED vars

Step(p) == CreateResults(p) \/ GetComment(p) \/ UpdateComment(p) \/ Wake(p)

Next ==
    \/ \E p \in Posters : Step(p) \/ RequestFails(p)
    \/ Tick
    \/ Ended

Spec == Init /\ [][Next]_vars

(* Requests are answered and timers fire; an answer is not lost for ever. *)
Created(p) == CreateResults(p) /\ pc'[p] = "get"
Answered(p) == UpdateComment(p) /\ pc'[p] = "sleep"

FairSpec ==
    /\ Spec
    /\ WF_vars(Tick)
    /\ \A p \in Posters : /\ WF_vars(Created(p))
                          /\ WF_vars(GetComment(p))
                          /\ WF_vars(Answered(p))
                          /\ WF_vars(Wake(p))

-----------------------------------------------------------------------------
TypeOK ==
    /\ comment \in Body
    /\ pc \in [Posters -> {"create", "get", "put", "sleep", "done", "gaveUp", "failed"}]
    /\ tries \in [Posters -> 0 .. MaxTries]
    /\ copy \in [Posters -> Body]
    /\ age \in [Posters -> Nat]
    /\ results \in [Posters -> BOOLEAN]

(* "Repeat; someone may have edited the comment at the same time.": a poster   *)
(* that has ended well has its placeholder replaced, and it stays replaced     *)
(* whatever the other posters still write.                                     *)
SuccessIsVisible ==
    \A p \in Posters : pc[p] = "done" => comment[p] # "placeholder"

(* The tries are enough: interference alone never drives a poster to           *)
(* "Failed to update status comment".                                          *)
TriesSuffice == \A p \in Posters : pc[p] # "gaveUp"

(* The posters implement the abstract board. *)
Filled == {p \in Posters : comment[p] # "placeholder"}

Fate(step) ==
    CASE step = "done" -> "done"
      [] step \in {"gaveUp", "failed"} -> "failed"
      [] step \in {"create", "get", "put", "sleep"} -> "working"

Outcome == [p \in Posters |-> Fate(pc[p])]

Board == INSTANCE ResultBoard WITH filled <- Filled, outcome <- Outcome

ImplementsBoard == Board!Spec

(* "Repeat": interference is repaired in the end.  Unless a request fails for *)
(* good, there comes a time from which no entry of the status comment is a     *)
(* placeholder any more.                                                       *)
EventuallyAllReported ==
    <>[]( \/ \A p \in Posters : comment[p] # "placeholder"
          \/ \E p \in Posters : pc[p] = "failed" )
=============================================================================
