------------------------ MODULE PostPerfResult_proofs ------------------------
(***************************************************************************)
(* Proofs about PostPerfResult.  The type invariant holds for every value  *)
(* of the constants.  That a reported success stays visible, that the      *)
(* posters implement ResultBoard and that the tries are enough is proved   *)
(* twice: for at most three posters and a latency below the delay, and     *)
(* for any number of posters, N, if N - 1 latencies are.  For four posters *)
(* the former is not enough: MCPostLost.cfg.                               *)
(***************************************************************************)
EXTENDS PostPerfResult, FiniteSetTheorems, TLAPS

AtMostThree == \E a, b, c \in Posters : Posters = {a, b, c}
Prompt == MaxLatency < RetryDelay

-----------------------------------------------------------------------------
(* Every variable of the script keeps its type, for any number of posters,    *)
(* tries and ticks; in particular the loop of postPerfResult.ts never makes   *)
(* more than MaxTries tries.                                                  *)
TypeInv ==
    /\ TypeOK
    /\ \A p \in Posters : pc[p] \notin {"gaveUp", "failed"} => tries[p] < MaxTries

THEOREM TypeCorrect == Spec => []TypeOK
<1>1. Init => TypeInv
  BY PostAssumption DEF Init, TypeInv, TypeOK, Body, Entry
<1>2. TypeInv /\ [Next]_vars => TypeInv'
  <2> SUFFICES ASSUME TypeInv, [Next]_vars PROVE TypeInv'
    OBVIOUS
  <2> USE PostAssumption DEF TypeInv, TypeOK, Body, Entry
  <2>1. ASSUME NEW p \in Posters, CreateResults(p) PROVE TypeInv'
    BY <2>1 DEF CreateResults
  <2>2. ASSUME NEW p \in Posters, GetComment(p) PROVE TypeInv'
    <3>1. CASE Verified(p)
      BY <2>2, <3>1 DEF GetComment
    <3>2. CASE ~Verified(p)
      <4>1. /\ pc' = [pc EXCEPT ![p] = "put"]
            /\ copy' = [copy EXCEPT ![p] = comment]
            /\ age' = [age EXCEPT ![p] = 0]
            /\ UNCHANGED <<comment, tries, results>>
        BY <2>2, <3>2 DEF GetComment
      <4>2. copy' \in [Posters -> Body] /\ age' \in [Posters -> Nat]
        BY <4>1
      <4>3. QED
        BY <2>2, <4>1, <4>2 DEF GetComment
    <3>3. QED
      BY <3>1, <3>2
  <2>3. ASSUME NEW p \in Posters, UpdateComment(p) PROVE TypeInv'
    BY <2>3 DEF UpdateComment, Edited
  <2>4. ASSUME NEW p \in Posters, Wake(p) PROVE TypeInv'
    <3>1. tries[p] < MaxTries /\ tries[p] + 1 \in 0 .. MaxTries
      BY <2>4 DEF Wake
    <3>2. tries' = [tries EXCEPT ![p] = tries[p] + 1]
      BY <2>4 DEF Wake
    <3>3. OutOfTries(p) \/ tries[p] + 1 < MaxTries
      BY <3>1 DEF OutOfTries
    <3>4. CASE OutOfTries(p)
      <4>1. pc' = [pc EXCEPT ![p] = "gaveUp"]
        BY <2>4, <3>4 DEF Wake
      <4>2. QED
        BY <2>4, <3>1, <3>2, <4>1 DEF Wake
    <3>5. CASE ~OutOfTries(p)
      <4>1. pc' = [pc EXCEPT ![p] = "get"]
        BY <2>4, <3>5 DEF Wake
      <4>2. QED
        BY <2>4, <3>1, <3>2, <3>3, <3>5, <4>1 DEF Wake
    <3>6. QED
      BY <3>4, <3>5
  <2>5. ASSUME NEW p \in Posters, RequestFails(p) PROVE TypeInv'
    <3>1. pc' = [pc EXCEPT ![p] = "failed"]
      BY <2>5 DEF RequestFails
    <3>2. UNCHANGED <<tries, copy, age>>
      BY <2>5 DEF RequestFails
    <3>3. comment' \in Body
      BY <2>5 DEF RequestFails, Edited
    <3>4. results' \in [Posters -> BOOLEAN]
      BY <2>5 DEF RequestFails
    <3>5. QED
      BY <3>1, <3>2, <3>3, <3>4
  <2>6. CASE Tick
    BY <2>6 DEF Tick
  <2>7. CASE UNCHANGED vars
    BY <2>7 DEF vars
  <2>8. QED
    BY <2>1, <2>2, <2>3, <2>4, <2>5, <2>6, <2>7 DEF Next, Step, Ended
<1>3. TypeInv => TypeOK
  BY DEF TypeInv
<1>4. QED
  BY <1>1, <1>2, <1>3, PTL DEF Spec

-----------------------------------------------------------------------------
(* The inductive invariant behind SuccessIsVisible.  A body that q is about   *)
(* to write back is dangerous to p if it carries p's placeholder.             *)
Resting(p) == pc[p] \in {"sleep", "get"}
Carries(q, p, e) == pc[q] = "put" /\ copy[q][p] = e
NoLinkCopy(p) == \A x \in Posters : ~Carries(x, p, "link")

PutYoung == \A p \in Posters : pc[p] = "put" => age[p] <= MaxLatency

(* A poster writes to replace its placeholder, and nobody adds an entry that   *)
(* is not there.                                                               *)
AbsentKept ==
    \A q \in Posters : pc[q] = "put" =>
        /\ copy[q][q] = "placeholder"
        /\ \A p \in Posters : copy[q][p] = "absent" <=> comment[p] = "absent"

NotYetLinked ==
    \A p \in Posters : pc[p] = "create" => comment[p] # "link" /\ NoLinkCopy(p)

(* While p sleeps, a dangerous body was read before p's last write, or else    *)
(* p's link is lost for good: then p will see it.                              *)
Stale ==
    \A p, q \in Posters :
        pc[p] = "sleep" /\ Carries(q, p, "placeholder") =>
            age[q] >= age[p] \/ (comment[p] = "placeholder" /\ NoLinkCopy(p))

(* If the lost link may still be restored by q, the third poster is the one    *)
(* that has lost it, and it does not read while q's write is in flight.        *)
Restored ==
    \A p, q, x \in Posters :
        /\ Resting(p)
        /\ comment[p] = "placeholder"
        /\ Carries(q, p, "link")
        /\ x \notin {p, q}
        => \/ pc[x] \in {"put", "done", "gaveUp", "failed"}
           \/ pc[x] = "sleep" /\ age[x] <= age[q]

Awake ==
    \A p, q \in Posters :
        pc[p] = "get" /\ Carries(q, p, "placeholder") =>
            comment[p] = "placeholder" /\ NoLinkCopy(p)

(* What makes it stay: no body still to be written back would bring the        *)
(* placeholder of a successful poster to life again.                           *)
NoStaleWriteAfterSuccess ==
    \A p, q \in Posters :
        pc[p] = "done" /\ pc[q] = "put" => copy[q][p] # "placeholder"

SafeInv ==
    /\ TypeOK
    /\ PutYoung
    /\ AbsentKept
    /\ NotYetLinked
    /\ Stale
    /\ Restored
    /\ Awake
    /\ SuccessIsVisible
    /\ NoStaleWriteAfterSuccess

LEMMA SafeInit == Init => SafeInv
  BY PostAssumption DEF Init, SafeInv, TypeOK, Body, Entry, PutYoung, AbsentKept, NotYetLinked,
     NoLinkCopy, Carries, Stale, Restored, Resting, Awake, SuccessIsVisible,
     NoStaleWriteAfterSuccess

(* The results comment concerns no body. *)
LEMMA SafeCreate ==
  ASSUME SafeInv, TypeOK', NEW r \in Posters, CreateResults(r)
  PROVE  SafeInv'
<1> USE DEF SafeInv, TypeOK, Body, CreateResults, Carries
<1>1. PutYoung'
  BY DEF PutYoung
<1>2. AbsentKept'
  BY DEF AbsentKept
<1>3. NotYetLinked'
  BY DEF NotYetLinked, NoLinkCopy
<1>4. Stale'
  BY DEF Stale, NoLinkCopy
<1>5. Restored'
  <2> SUFFICES ASSUME NEW p \in Posters, NEW q \in Posters, NEW x \in Posters,
                      Resting(p)', comment[p] = "placeholder", Carries(q, p, "link")',
                      x \notin {p, q}
               PROVE  \/ pc'[x] \in {"put", "done", "gaveUp", "failed"}
                      \/ pc'[x] = "sleep" /\ age[x] <= age[q]
    BY DEF Restored
  <2>1. Carries(q, p, "link") /\ q # r
    OBVIOUS
  <2>2. p # r
    BY <2>1 DEF NotYetLinked, NoLinkCopy
  <2>3. QED
    BY <2>1, <2>2 DEF Restored, Resting
<1>6. Awake'
  <2> SUFFICES ASSUME NEW p \in Posters, NEW q \in Posters,
                      pc'[p] = "get", Carries(q, p, "placeholder")'
               PROVE  comment[p] = "placeholder" /\ NoLinkCopy(p)'
    BY DEF Awake
  <2>1. CASE p = r
    BY <2>1 DEF NotYetLinked, NoLinkCopy, AbsentKept, Entry
  <2>2. CASE p # r
    BY <2>2 DEF Awake, NoLinkCopy
  <2>3. QED
    BY <2>1, <2>2
<1>7. SuccessIsVisible' /\ NoStaleWriteAfterSuccess'
  BY DEF SuccessIsVisible, NoStaleWriteAfterSuccess
<1>8. QED
  BY <1>1, <1>2, <1>3, <1>4, <1>5, <1>6, <1>7

(* A read finds no body in flight that restores what it finds lost. *)
LEMMA SafeGet ==
  ASSUME SafeInv, TypeOK', NEW r \in Posters, GetComment(r)
  PROVE  SafeInv'
<1> USE PostAssumption DEF SafeInv, TypeOK, Body, Entry, Carries, Resting
<1>0. pc[r] = "get" /\ comment' = comment
  BY DEF GetComment
<1>1. CASE Verified(r)
  <2>1. pc' = [pc EXCEPT ![r] = "done"] /\ copy' = copy /\ age' = age /\ comment[r] # "placeholder"
    BY <1>1 DEF GetComment, Verified
  <2>2. \A q \in Posters : ~Carries(q, r, "placeholder")
    BY <1>0, <2>1 DEF Awake
  <2>3. PutYoung' /\ AbsentKept' /\ NotYetLinked'
    BY <1>0, <2>1 DEF PutYoung, AbsentKept, NotYetLinked, NoLinkCopy
  <2>4. Stale' /\ Awake'
    BY <1>0, <2>1 DEF Stale, Awake, NoLinkCopy
  <2>5. Restored'
    BY <1>0, <2>1 DEF Restored
  <2>6. SuccessIsVisible' /\ NoStaleWriteAfterSuccess'
    BY <1>0, <2>1, <2>2 DEF SuccessIsVisible, NoStaleWriteAfterSuccess
  <2>7. QED
    BY <2>3, <2>4, <2>5, <2>6
<1>2. CASE ~Verified(r)
  <2>1. /\ pc' = [pc EXCEPT ![r] = "put"]
        /\ copy' = [copy EXCEPT ![r] = comment]
        /\ age' = [age EXCEPT ![r] = 0]
        /\ comment[r] = "placeholder"
    BY <1>2 DEF GetComment, Verified
  <2>2. PutYoung' /\ AbsentKept' /\ NotYetLinked'
    BY <1>0, <2>1 DEF PutYoung, AbsentKept, NotYetLinked, NoLinkCopy
  <2>3. ASSUME NEW p \in Posters \ {r}, Resting(p), comment[p] = "placeholder"
        PROVE  NoLinkCopy(p)
    <3> SUFFICES ASSUME NEW z \in Posters, Carries(z, p, "link") PROVE FALSE
      BY DEF NoLinkCopy
    <3>1. r \notin {p, z}
      BY <1>0, <2>3
    <3>2. QED
      BY <1>0, <2>3, <3>1 DEF Restored
  <2>4. Stale'
    <3> SUFFICES ASSUME NEW p \in Posters, NEW q \in Posters,
                        pc'[p] = "sleep", Carries(q, p, "placeholder")'
                 PROVE  age'[q] >= age'[p] \/ (comment[p] = "placeholder" /\ NoLinkCopy(p)')
      BY <1>0 DEF Stale
    <3>1. CASE q = r
      BY <1>0, <2>1, <2>3, <3>1 DEF NoLinkCopy
    <3>2. CASE q # r
      BY <1>0, <2>1, <3>2 DEF Stale, NoLinkCopy
    <3>3. QED
      BY <3>1, <3>2
  <2>5. Awake'
    <3> SUFFICES ASSUME NEW p \in Posters, NEW q \in Posters,
                        pc'[p] = "get", Carries(q, p, "placeholder")'
                 PROVE  comment[p] = "placeholder" /\ NoLinkCopy(p)'
      BY <1>0 DEF Awake
    <3>1. CASE q = r
      BY <1>0, <2>1, <2>3, <3>1 DEF NoLinkCopy
    <3>2. CASE q # r
      BY <1>0, <2>1, <3>2 DEF Awake, NoLinkCopy
    <3>3. QED
      BY <3>1, <3>2
  <2>6. Restored'
    BY <1>0, <2>1 DEF Restored
  <2>7. SuccessIsVisible' /\ NoStaleWriteAfterSuccess'
    BY <1>0, <2>1 DEF SuccessIsVisible, NoStaleWriteAfterSuccess
  <2>8. QED
    BY <2>2, <2>4, <2>5, <2>6, <2>7
<1>3. QED
  BY <1>1, <1>2

(* A body is written back, by an update or by one whose request fails. *)
LEMMA SafeWrite ==
  ASSUME SafeInv, TypeOK', AtMostThree, NEW r \in Posters, NEW next \in {"put", "sleep", "failed"},
         pc[r] = "put", comment' = Edited(r), copy' = copy, pc' = [pc EXCEPT ![r] = next],
         age' = IF next = "sleep" THEN [age EXCEPT ![r] = 0] ELSE age
  PROVE  SafeInv'
<1> USE PostAssumption DEF SafeInv, TypeOK, Body, Entry, Carries, Resting
<1>1. comment'[r] = "link" /\ \A p \in Posters \ {r} : comment'[p] = copy[r][p]
  BY DEF Edited
<1>2. \A p \in Posters : pc'[p] # "put" \/ age'[p] = age[p]
  OBVIOUS
<1>3. PutYoung' /\ AbsentKept' /\ NotYetLinked'
  <2>1. PutYoung'
    BY <1>2 DEF PutYoung
  <2>2. AbsentKept'
    BY <1>1 DEF AbsentKept
  <2>3. NotYetLinked'
    BY <1>1 DEF NotYetLinked, NoLinkCopy
  <2>4. QED
    BY <2>1, <2>2, <2>3
<1>4. Stale'
  <2> SUFFICES ASSUME NEW p \in Posters, NEW q \in Posters,
                      pc'[p] = "sleep", Carries(q, p, "placeholder")'
               PROVE  age'[q] >= age'[p] \/ (comment'[p] = "placeholder" /\ NoLinkCopy(p)')
    BY DEF Stale
  <2>1. CASE p = r
    BY <1>1, <2>1
  <2>2. CASE p # r
    <3>1. pc[p] = "sleep" /\ Carries(q, p, "placeholder") /\ age'[p] = age[p] /\ age'[q] = age[q]
      BY <2>2, <1>2
    <3>2. CASE age[q] >= age[p]
      BY <3>1, <3>2
    <3>3. CASE comment[p] = "placeholder" /\ NoLinkCopy(p)
      <4>1. copy[r][p] = "placeholder"
        BY <3>3 DEF NoLinkCopy, AbsentKept
      <4>2. QED
        BY <4>1, <3>3, <2>2, <1>1 DEF NoLinkCopy
    <3>4. QED
      BY <3>1, <3>2, <3>3 DEF Stale
  <2>3. QED
    BY <2>1, <2>2
<1>5. Restored'
  <2> SUFFICES ASSUME NEW p \in Posters, NEW q \in Posters, NEW x \in Posters,
                      Resting(p)', comment'[p] = "placeholder", Carries(q, p, "link")',
                      x \notin {p, q}
               PROVE  \/ pc'[x] \in {"put", "done", "gaveUp", "failed"}
                      \/ pc'[x] = "sleep" /\ age'[x] <= age'[q]
    BY DEF Restored
  <2>1. /\ p # r
        /\ copy[r][p] = "placeholder"
        /\ Resting(p)
        /\ Carries(q, p, "link")
        /\ age'[q] = age[q]
        /\ q # p
        /\ q # r
    BY <1>1, <1>2
  <2>2. x = r
    BY <2>1 DEF AtMostThree
  <2>3. QED
    BY <2>1, <2>2
<1>6. Awake'
  <2> SUFFICES ASSUME NEW p \in Posters, NEW q \in Posters,
                      pc'[p] = "get", Carries(q, p, "placeholder")'
               PROVE  comment'[p] = "placeholder" /\ NoLinkCopy(p)'
    BY DEF Awake
  <2>1. p # r /\ pc[p] = "get" /\ Carries(q, p, "placeholder")
    OBVIOUS
  <2>2. comment[p] = "placeholder" /\ NoLinkCopy(p)
    BY <2>1 DEF Awake
  <2>3. copy[r][p] = "placeholder"
    BY <2>2 DEF NoLinkCopy, AbsentKept
  <2>4. QED
    BY <2>1, <2>2, <2>3, <1>1 DEF NoLinkCopy
<1>7. SuccessIsVisible' /\ NoStaleWriteAfterSuccess'
  BY <1>1 DEF SuccessIsVisible, NoStaleWriteAfterSuccess
<1>8. QED
  BY <1>3, <1>4, <1>5, <1>6, <1>7

(* Whoever wakes has slept for longer than any write is in flight. *)
LEMMA SafeWake ==
  ASSUME SafeInv, TypeOK', Prompt, NEW r \in Posters, Wake(r)
  PROVE  SafeInv'
<1> USE PostAssumption DEF SafeInv, TypeOK, Body, Entry, Carries, Resting, Prompt
<1>1. /\ pc[r] = "sleep"
      /\ age[r] >= RetryDelay
      /\ UNCHANGED <<comment, copy, age>>
      /\ \E next \in {"gaveUp", "get"} : pc' = [pc EXCEPT ![r] = next]
  BY DEF Wake, Rested
<1>2. \A q \in Posters : pc[q] = "put" => age[q] < age[r]
  BY <1>1 DEF PutYoung
<1>3. PutYoung' /\ AbsentKept' /\ NotYetLinked' /\ Stale'
  BY <1>1 DEF PutYoung, AbsentKept, NotYetLinked, Stale, NoLinkCopy
<1>4. Restored'
  BY <1>1, <1>2 DEF Restored
<1>5. Awake'
  <2> SUFFICES ASSUME NEW p \in Posters, NEW q \in Posters,
                      pc'[p] = "get", Carries(q, p, "placeholder")'
               PROVE  comment[p] = "placeholder" /\ NoLinkCopy(p)'
    BY <1>1 DEF Awake
  <2>1. CASE p = r
    BY <1>1, <1>2, <2>1 DEF Stale, NoLinkCopy
  <2>2. CASE p # r
    BY <1>1, <2>2 DEF Awake, NoLinkCopy
  <2>3. QED
    BY <2>1, <2>2
<1>6. SuccessIsVisible' /\ NoStaleWriteAfterSuccess'
  BY <1>1 DEF SuccessIsVisible, NoStaleWriteAfterSuccess
<1>7. QED
  BY <1>3, <1>4, <1>5, <1>6

(* A poster that ends with an exception, its request having had no effect. *)
LEMMA SafeStop ==
  ASSUME SafeInv, TypeOK', NEW r \in Posters,
         pc' = [pc EXCEPT ![r] = "failed"], UNCHANGED <<comment, copy, age>>
  PROVE  SafeInv'
<1> USE DEF SafeInv, TypeOK, Body, Carries, Resting
<1>1. PutYoung' /\ AbsentKept' /\ NotYetLinked' /\ Stale'
  BY DEF PutYoung, AbsentKept, NotYetLinked, Stale, NoLinkCopy
<1>2. Restored' /\ Awake'
  BY DEF Restored, Awake, NoLinkCopy
<1>3. SuccessIsVisible' /\ NoStaleWriteAfterSuccess'
  BY DEF SuccessIsVisible, NoStaleWriteAfterSuccess
<1>4. QED
  BY <1>1, <1>2, <1>3

LEMMA SafeTick ==
  ASSUME SafeInv, TypeOK', Tick
  PROVE  SafeInv'
<1> USE PostAssumption DEF SafeInv, TypeOK, Body, Carries, Resting
<1>1. UNCHANGED <<comment, pc, copy>>
  BY DEF Tick
<1>2. \A p \in Posters :
        /\ pc[p] = "put" => age[p] < MaxLatency /\ age'[p] = age[p] + 1
        /\ age'[p] \in {age[p], age[p] + 1}
  BY DEF Tick
<1>3. PutYoung' /\ AbsentKept' /\ NotYetLinked'
  BY <1>1, <1>2 DEF PutYoung, AbsentKept, NotYetLinked, NoLinkCopy
<1>4. Stale'
  BY <1>1, <1>2 DEF Stale, NoLinkCopy
<1>5. Restored'
  BY <1>1, <1>2 DEF Restored
<1>6. Awake' /\ SuccessIsVisible' /\ NoStaleWriteAfterSuccess'
  BY <1>1 DEF Awake, NoLinkCopy, SuccessIsVisible, NoStaleWriteAfterSuccess
<1>7. QED
  BY <1>3, <1>4, <1>5, <1>6

LEMMA SafeStep ==
  ASSUME SafeInv, TypeOK', AtMostThree, Prompt, [Next]_vars
  PROVE  SafeInv'
<1>1. ASSUME NEW r \in Posters, CreateResults(r) PROVE SafeInv'
  BY <1>1, SafeCreate
<1>2. ASSUME NEW r \in Posters, GetComment(r) PROVE SafeInv'
  BY <1>2, SafeGet
<1>3. ASSUME NEW r \in Posters, UpdateComment(r) PROVE SafeInv'
  <2>1. pc[r] = "put" /\ comment' = Edited(r) /\ copy' = copy
    BY <1>3 DEF UpdateComment
  <2>2. CASE pc' = [pc EXCEPT ![r] = "sleep"] /\ age' = [age EXCEPT ![r] = 0]
    BY <2>1, <2>2, SafeWrite
  <2>3. CASE UNCHANGED <<pc, age>>
    <3>1. pc' = [pc EXCEPT ![r] = "put"]
      BY <2>1, <2>3 DEF SafeInv, TypeOK
    <3>2. QED
      BY <2>1, <2>3, <3>1, SafeWrite
  <2>4. QED
    BY <1>3, <2>2, <2>3 DEF UpdateComment
<1>4. ASSUME NEW r \in Posters, Wake(r) PROVE SafeInv'
  BY <1>4, SafeWake
<1>5. ASSUME NEW r \in Posters, RequestFails(r) PROVE SafeInv'
  <2>1. pc' = [pc EXCEPT ![r] = "failed"] /\ UNCHANGED <<copy, age>>
    BY <1>5 DEF RequestFails
  <2>2. CASE UNCHANGED comment
    BY <2>1, <2>2, SafeStop
  <2>3. CASE pc[r] = "put" /\ comment' = Edited(r)
    BY <2>1, <2>3, SafeWrite
  <2>4. QED
    BY <1>5, <2>2, <2>3 DEF RequestFails
<1>6. CASE Tick
  BY <1>6, SafeTick
<1>7. CASE UNCHANGED vars
  BY <1>7 DEF vars, SafeInv, PutYoung, AbsentKept, NotYetLinked, Stale, Restored, Awake, Resting,
     Carries, NoLinkCopy, SuccessIsVisible, NoStaleWriteAfterSuccess
<1>8. QED
  BY <1>1, <1>2, <1>3, <1>4, <1>5, <1>6, <1>7 DEF Next, Step, Ended

(* With at most three posters and a latency below the delay, a run that has    *)
(* reported success keeps its link: "Repeat; someone may have edited the       *)
(* comment at the same time." is then enough.                                  *)
THEOREM SuccessStaysVisible ==
  ASSUME AtMostThree, Prompt
  PROVE  Spec => [](SuccessIsVisible /\ NoStaleWriteAfterSuccess)
<1>1. SafeInv /\ TypeOK' /\ [Next]_vars => SafeInv'
  BY SafeStep
<1>2. SafeInv => SuccessIsVisible /\ NoStaleWriteAfterSuccess
  BY DEF SafeInv
<1>3. QED
  BY <1>1, <1>2, SafeInit, TypeCorrect, PTL DEF Spec

-----------------------------------------------------------------------------
LEMMA BoardInit == Init => Board!Init
  BY DEF Init, Board!Init, Filled, Outcome, Fate

(* The outcome of a poster that ends changes, and no other. *)
LEMMA OutcomeOfStep ==
  ASSUME TypeOK, NEW r \in Posters, NEW next, pc' = [pc EXCEPT ![r] = next]
  PROVE  Outcome' = [Outcome EXCEPT ![r] = Fate(next)]
  BY DEF TypeOK, Outcome

(* Each step of a script is a step of the board, or leaves it as it is. *)
LEMMA BoardStep ==
  ASSUME TypeOK, TypeOK', SuccessIsVisible, SuccessIsVisible', [Next]_vars
  PROVE  [Board!Next]_(Board!bvars)
<1> USE DEF Fate
<1>1. /\ Filled \subseteq Posters
      /\ Filled' \subseteq Posters
      /\ \A p \in Posters : Outcome'[p] = "done" => p \in Filled'
      /\ \A p \in Posters : Outcome[p] = Fate(pc[p])
      /\ Outcome = [p \in Posters |-> Outcome[p]]
  BY DEF Filled, Outcome, SuccessIsVisible, TypeOK
<1>2. ASSUME Outcome' = Outcome PROVE Board!Next
  BY <1>1, <1>2 DEF Board!Next, Board!Rewrite
<1>3. ASSUME NEW r \in Posters, Outcome[r] = "working", NEW next \in {"gaveUp", "failed"},
             pc' = [pc EXCEPT ![r] = next]
      PROVE  Board!Next
  <2>1. Outcome' = [Outcome EXCEPT ![r] = "failed"]
    BY <1>3, OutcomeOfStep
  <2>2. \A p \in Posters : Outcome[p] = "done" => Outcome'[p] = "done"
    BY <1>1, <1>3, <2>1
  <2>3. Board!Fail(r)
    BY <1>1, <1>3, <2>1, <2>2 DEF Board!Fail
  <2>4. QED
    BY <2>3 DEF Board!Next
<1>4. ASSUME NEW r \in Posters, Fate(pc[r]) = "working", NEW next \in {"get", "put", "sleep"},
             pc' = [pc EXCEPT ![r] = next]
      PROVE  Outcome' = Outcome
  <2>1. Outcome' = [Outcome EXCEPT ![r] = "working"]
    BY <1>4, OutcomeOfStep
  <2>2. Outcome[r] = "working"
    BY <1>1, <1>4
  <2>3. QED
    BY <2>1, <2>2 DEF Outcome
<1>5. ASSUME NEW r \in Posters, CreateResults(r) PROVE Board!Next
  <2>1. CASE pc' = [pc EXCEPT ![r] = "get"]
    BY <1>2, <1>4, <1>5, <2>1 DEF CreateResults
  <2>2. CASE UNCHANGED pc
    BY <1>2, <2>2 DEF Outcome
  <2>3. QED
    BY <1>5, <2>1, <2>2 DEF CreateResults
<1>6. ASSUME NEW r \in Posters, GetComment(r) PROVE Board!Next
  <2>1. CASE Verified(r)
    <3>1. /\ pc[r] = "get"
          /\ pc' = [pc EXCEPT ![r] = "done"]
          /\ comment' = comment
          /\ comment[r] # "placeholder"
      BY <1>6, <2>1 DEF GetComment, Verified
    <3>2. Outcome' = [Outcome EXCEPT ![r] = "done"]
      BY <3>1, OutcomeOfStep
    <3>3. Outcome[r] = "working" /\ r \in Filled /\ Filled' = Filled
      BY <1>1, <3>1 DEF Filled
    <3>4. QED
      BY <3>2, <3>3 DEF Board!Next, Board!Succeed
  <2>2. CASE ~Verified(r)
    BY <1>2, <1>4, <1>6, <2>2 DEF GetComment
  <2>3. QED
    BY <2>1, <2>2
<1>7. ASSUME NEW r \in Posters, UpdateComment(r) PROVE Board!Next
  <2>1. CASE pc' = [pc EXCEPT ![r] = "sleep"]
    BY <1>2, <1>4, <1>7, <2>1 DEF UpdateComment
  <2>2. CASE UNCHANGED pc
    BY <1>2, <2>2 DEF Outcome
  <2>3. QED
    BY <1>7, <2>1, <2>2 DEF UpdateComment
<1>8. ASSUME NEW r \in Posters, Wake(r) PROVE Board!Next
  <2>1. pc[r] = "sleep" /\ pc' = [pc EXCEPT ![r] = IF OutOfTries(r) THEN "gaveUp" ELSE "get"]
    BY <1>8 DEF Wake
  <2>2. CASE OutOfTries(r)
    BY <1>1, <1>3, <2>1, <2>2
  <2>3. CASE ~OutOfTries(r)
    BY <1>2, <1>4, <2>1, <2>3
  <2>4. QED
    BY <2>2, <2>3
<1>9. ASSUME NEW r \in Posters, RequestFails(r) PROVE Board!Next
  BY <1>1, <1>3, <1>9 DEF RequestFails
<1>10. CASE Tick
  BY <1>2, <1>10 DEF Tick, Outcome
<1>11. CASE UNCHANGED vars
  BY <1>11 DEF vars, Board!bvars, Filled, Outcome
<1>12. QED
  BY <1>5, <1>6, <1>7, <1>8, <1>9, <1>10, <1>11 DEF Next, Step, Ended

(* postPerfResult.ts keeps the promise of ResultBoard, under the same          *)
(* conditions.                                                                 *)
THEOREM PostersImplementBoard ==
  ASSUME AtMostThree, Prompt
  PROVE  Spec => ImplementsBoard
<1>1. SafeInv /\ TypeOK' /\ [Next]_vars => SafeInv'
  BY SafeStep
<1>2. SafeInv /\ SafeInv' /\ [Next]_vars => [Board!Next]_(Board!bvars)
  BY BoardStep DEF SafeInv
<1>3. QED
  BY <1>1, <1>2, SafeInit, BoardInit, TypeCorrect, PTL DEF Spec, ImplementsBoard, Board!Spec

-----------------------------------------------------------------------------
(* The inductive invariant behind TriesSuffice.  A poster needs another try    *)
(* only if its link has been lost meanwhile, and each time that happens one of *)
(* the others has settled: its link is in the comment and in every body in     *)
(* flight, for good.  With two others the fourth try is the last at most.      *)
Threatens(q, p) == Carries(q, p, "placeholder")
Over(q) == pc[q] \in {"done", "gaveUp", "failed"}

Settled(p) == comment[p] # "placeholder" /\ \A q \in Posters : ~Threatens(q, p)
Rival(q) == pc[q] \notin {"gaveUp", "failed"} /\ ~Settled(q)

(* n tries have failed, and at most 2 - n posters may still make one fail. *)
Room(p, n) ==
    /\ n <= 2
    /\ n >= 1 => \A x, y \in Posters \ {p} : Rival(x) /\ Rival(y) => x = y
    /\ n >= 2 => \A x \in Posters \ {p} : ~Rival(x)

(* No body of another poster would bring the placeholder of p back. *)
Free(p) == \A q \in Posters \ {p} : ~Threatens(q, p)

(* q does not read before x has written. *)
HeldBack(q, x) == pc[q] = "put" \/ Over(q) \/ (pc[q] = "sleep" /\ age[q] <= age[x])

(* p's link is lost, but x is about to write it back, and until then nobody   *)
(* reads: the next write of p will settle it.                                 *)
RescuedBy(p, x) ==
    /\ Carries(x, p, "link")
    /\ \A q \in Posters \ {p, x} :
         /\ HeldBack(q, x)
         /\ pc[q] = "sleep" => comment[q] # "placeholder" /\ ~Threatens(p, q)

Rescued(p) == comment[p] = "placeholder" /\ Free(p) /\ \E x \in Posters : RescuedBy(p, x)

(* What was read before p's last write is still in flight. *)
Menaced(p) == \E x \in Posters \ {p} : Threatens(x, p) /\ age[x] >= age[p]

(* Whoever has taken a link away has written, and sleeps. *)
LostTo ==
    \A p \in Posters : pc[p] = "sleep" /\ comment[p] = "placeholder" =>
        \/ age[p] >= RetryDelay
        \/ \E y \in Posters \ {p} : HeldBack(y, p)

(* Once the link of a sleeping p is lost while x may still take it away, either *)
(* x has its own link, or the third poster does not read before x has written. *)
OneLinked ==
    \A p, x, q \in Posters :
        /\ pc[p] = "sleep" /\ comment[p] = "placeholder"
        /\ Threatens(x, p) /\ age[x] >= age[p]
        /\ q \notin {p, x}
        => comment[x] # "placeholder" \/ HeldBack(q, x)

(* Who has read after p wrote does not threaten both p and the poster that    *)
(* threatened p before.                                                       *)
NoCircle ==
    \A p, x, q \in Posters :
        /\ pc[p] = "sleep"
        /\ Threatens(x, p) /\ age[x] >= age[p]
        /\ Threatens(q, p) /\ Threatens(q, x)
        => age[q] >= age[p]

(* At each await, what the tries that have failed leave room for. *)
Fresh(p) == pc[p] = "create" => tries[p] = 0
AtGet(p) ==
    pc[p] = "get" /\ comment[p] = "placeholder" =>
        tries[p] <= 2 /\ (Room(p, tries[p]) \/ Rescued(p))
AtPut(p) ==
    pc[p] = "put" =>
        /\ tries[p] <= 2
        /\ Room(p, tries[p]) \/ Rescued(p) \/ (comment[p] # "placeholder" /\ Free(p))
AtSleep(p) ==
    pc[p] = "sleep" =>
        /\ tries[p] <= 2
        /\ \/ Settled(p)
           \/ Room(p, tries[p] + 1)
           \/ tries[p] <= 1 /\ Rescued(p)
           \/ Room(p, tries[p]) /\ Menaced(p)

InTime == \A p \in Posters : Fresh(p) /\ AtGet(p) /\ AtPut(p) /\ AtSleep(p)

TriesInv == SafeInv /\ LostTo /\ OneLinked /\ NoCircle /\ InTime /\ TriesSuffice

LEMMA ThirdPoster ==
  ASSUME AtMostThree, NEW p \in Posters, NEW x \in Posters \ {p}
  PROVE  \A q, y \in Posters \ {p, x} : q = y
BY DEF AtMostThree

(* Whoever has nothing to fear has nothing to fear from then on. *)
LEMMA SettledKept ==
  ASSUME TypeOK, TypeOK', [Next]_vars, NEW q \in Posters
  PROVE  /\ Settled(q) => Settled(q)'
         /\ Rival(q)' => Rival(q)
<1> USE DEF TypeOK, Body, Entry, Settled, Threatens, Carries
<1>1. pc[q] \in {"gaveUp", "failed"} => pc'[q] \in {"gaveUp", "failed"}
  BY DEF Next, Step, CreateResults, GetComment, UpdateComment, Wake, RequestFails, Tick, Ended, vars
<1>2. ASSUME Settled(q), NEW r \in Posters, comment' = Edited(r), pc[r] = "put", copy' = copy,
             \A y \in Posters : pc'[y] = "put" => pc[y] = "put"
      PROVE Settled(q)'
  BY <1>2 DEF Edited
<1>3. ASSUME Settled(q), comment' = comment, copy' = copy,
             \A y \in Posters : pc'[y] = "put" => pc[y] = "put"
      PROVE Settled(q)'
  BY <1>3
<1>4. ASSUME Settled(q), NEW r \in Posters, GetComment(r) PROVE Settled(q)'
  <2>1. CASE Verified(r)
    BY <1>3, <1>4, <2>1 DEF GetComment
  <2>2. CASE ~Verified(r)
    BY <1>4, <2>2 DEF GetComment
  <2>3. QED  BY <2>1, <2>2
<1>5. ASSUME Settled(q), NEW r \in Posters, UpdateComment(r) PROVE Settled(q)'
  BY <1>2, <1>5 DEF UpdateComment
<1>6. ASSUME Settled(q), NEW r \in Posters, RequestFails(r) PROVE Settled(q)'
  <2>1. \A y \in Posters : pc'[y] = "put" => pc[y] = "put"
    BY <1>6 DEF RequestFails
  <2>2. CASE comment' = comment
    BY <1>3, <1>6, <2>1, <2>2 DEF RequestFails
  <2>3. CASE pc[r] = "put" /\ comment' = Edited(r)
    BY <1>2, <1>6, <2>1, <2>3 DEF RequestFails
  <2>4. QED  BY <1>6, <2>2, <2>3 DEF RequestFails
<1>7. ASSUME Settled(q), NEW r \in Posters, CreateResults(r) \/ Wake(r) PROVE Settled(q)'
  <2>1. comment' = comment /\ copy' = copy /\ \A y \in Posters : pc'[y] = "put" => pc[y] = "put"
    BY <1>7 DEF CreateResults, Wake
  <2>2. QED  BY <1>3, <1>7, <2>1
<1>8. ASSUME Settled(q), Tick \/ UNCHANGED vars PROVE Settled(q)'
  BY <1>3, <1>8 DEF Tick, vars
<1>9. Settled(q) => Settled(q)'
  BY <1>4, <1>5, <1>6, <1>7, <1>8 DEF Next, Step, Ended
<1>10. QED
  BY <1>1, <1>9 DEF Rival

LEMMA SettledStays ==
  ASSUME SafeInv, SafeInv', [Next]_vars, NEW q \in Posters
  PROVE  /\ Settled(q) => Settled(q)'
         /\ Rival(q)' => Rival(q)
BY SettledKept DEF SafeInv

LEMMA RoomStays ==
  ASSUME SafeInv, SafeInv', [Next]_vars, NEW p \in Posters, NEW n \in Nat, Room(p, n)
  PROVE  Room(p, n)'
BY SettledStays DEF Room

(* One rival fewer leaves room for one try more. *)
LEMMA RoomGrows ==
  ASSUME AtMostThree, SafeInv, SafeInv', [Next]_vars, NEW p \in Posters, NEW n \in Nat, Room(p, n),
         NEW x \in Posters \ {p}, Rival(x), ~Rival(x)'
  PROVE  Room(p, n + 1)'
<1>1. \A y \in Posters : Rival(y)' => Rival(y)
  BY SettledStays
<1>2. \A q, y \in Posters \ {p, x} : q = y
  BY ThirdPoster
<1>3. \A y, z \in Posters \ {p} : Rival(y)' /\ Rival(z)' => y = z
  BY <1>2
<1>4. n <= 1
  BY DEF Room
<1>5. n = 1 => \A y \in Posters \ {p} : ~Rival(y)'
  BY <1>1 DEF Room
<1>6. QED
  BY <1>3, <1>4, <1>5 DEF Room

(* Whoever is about to write is a rival. *)
LEMMA WriterIsRival ==
  ASSUME AbsentKept, NEW x \in Posters, pc[x] = "put"
  PROVE  Rival(x)
BY DEF AbsentKept, Rival, Settled, Threatens, Carries

LEMMA WritersAreRivals ==
  ASSUME SafeInv, NEW x \in Posters, pc[x] = "put"
  PROVE  Rival(x)
BY WriterIsRival DEF SafeInv

LEMMA RescuedHasRoom ==
  ASSUME SafeInv, NEW p \in Posters, NEW n \in Nat, Room(p, n), Rescued(p)
  PROVE  n <= 1
<1>1. PICK x \in Posters : Carries(x, p, "link")
  BY DEF Rescued, RescuedBy
<1>2. x # p /\ pc[x] = "put"
  BY <1>1 DEF SafeInv, AbsentKept, Carries
<1>3. Rival(x)
  BY <1>2, WritersAreRivals
<1>4. QED
  BY <1>2, <1>3 DEF Room

LEMMA TriesInit == Init => TriesInv
BY PostAssumption, SafeInit DEF Init, TriesInv, LostTo, OneLinked, NoCircle, InTime, Fresh, AtGet, AtPut,
   AtSleep, TriesSuffice, Threatens, Carries

(* Nobody writes, and nobody's age, copy or tries change: a poster creates its *)
(* results, ends well or fails.                                                *)
LEMMA TriesEnd ==
  ASSUME AtMostThree, TriesInv, SafeInv', [Next]_vars, NEW r \in Posters,
         UNCHANGED <<comment, copy, age, tries>>,
         \/ pc[r] = "get" /\ pc' = [pc EXCEPT ![r] = "done"] /\ comment[r] # "placeholder"
         \/ pc' = [pc EXCEPT ![r] = "failed"]
  PROVE  TriesInv'
<1> USE DEF SafeInv, TypeOK, Threatens, Carries, HeldBack, Over
<1>1. LostTo'
  BY DEF TriesInv, LostTo
<1>2. OneLinked'
  BY DEF TriesInv, OneLinked
<1>3. NoCircle'
  BY DEF TriesInv, NoCircle
<1>4. TriesSuffice'
  BY DEF TriesInv, TriesSuffice
<1>5. \A p \in Posters, n \in Nat : Room(p, n) => Room(p, n)'
  BY RoomStays DEF TriesInv
<1>6. \A p \in Posters : Free(p) => Free(p)'
  BY DEF Free
<1>7. \A p \in Posters : Settled(p) => Settled(p)'
  BY SettledStays DEF TriesInv
<1>8. ~Rival(r)'
  BY DEF Rival, SuccessIsVisible, NoStaleWriteAfterSuccess, Settled
<1>9. ASSUME NEW p \in Posters \ {r}, Rescued(p), pc[p] # "create"
      PROVE  Rescued(p)' \/ \A n \in 0 .. 2 : Room(p, n)'
  <2>1. PICK x \in Posters : RescuedBy(p, x)
    BY <1>9 DEF Rescued
  <2>2. CASE x # r
    BY <1>9, <2>1, <2>2 DEF Rescued, RescuedBy, Free
  <2>3. CASE x = r
    <3>1. CASE \E q \in Posters \ {p, r} : pc[q] = "put"
      <4>1. PICK q \in Posters \ {p, r} : pc[q] = "put"
        BY <3>1
      <4>2. Carries(q, p, "link")
        BY <1>9, <2>1, <4>1 DEF Rescued, Free, RescuedBy, AbsentKept, TriesInv, Body, Entry
      <4>3. RescuedBy(p, q)'
        BY <4>1, <4>2, ThirdPoster DEF RescuedBy
      <4>4. QED  BY <1>6, <1>9, <4>3 DEF Rescued
    <3>2. CASE \A q \in Posters \ {p, r} : pc[q] # "put"
      <4>1. ASSUME NEW q \in Posters \ {p, r} PROVE ~Rival(q)'
        <5>1. CASE Over(q)
          BY <4>1, <5>1 DEF Rival, SuccessIsVisible, NoStaleWriteAfterSuccess, Settled
        <5>2. CASE pc[q] = "sleep" /\ comment[q] # "placeholder" /\ ~Threatens(p, q)
          <6>1. \A y \in Posters : ~Threatens(y, q)'
            BY <3>2, <4>1, <5>2, ThirdPoster
          <6>2. QED
            BY <5>2, <6>1 DEF Rival, Settled
        <5>3. QED  BY <2>1, <2>3, <3>2, <4>1, <5>1, <5>2 DEF RescuedBy
      <4>2. QED  BY <1>8, <4>1 DEF Room
    <3>3. QED  BY <3>1, <3>2
  <2>4. QED  BY <2>2, <2>3
<1>10. ASSUME NEW p \in Posters \ {r}, NEW n \in Nat, Room(p, n), Menaced(p)
       PROVE  Menaced(p)' \/ Room(p, n + 1)'
  <2>1. PICK x \in Posters \ {p} : Threatens(x, p) /\ age[x] >= age[p]
    BY <1>10 DEF Menaced
  <2>2. CASE x # r
    BY <2>1, <2>2 DEF Menaced
  <2>3. CASE x = r
    BY <1>8, <1>10, <2>1, <2>3, RoomGrows, WritersAreRivals DEF TriesInv
  <2>4. QED  BY <2>2, <2>3
<1>11. InTime'
  <2> SUFFICES ASSUME NEW p \in Posters PROVE (Fresh(p) /\ AtGet(p) /\ AtPut(p) /\ AtSleep(p))'
    BY DEF InTime
  <2>1. Fresh(p) /\ AtGet(p) /\ AtPut(p) /\ AtSleep(p) /\ tries'[p] = tries[p] /\ tries[p] \in Nat
    BY DEF TriesInv, InTime
  <2>2. CASE p = r
    BY <2>2 DEF Fresh, AtGet, AtPut, AtSleep
  <2>3. CASE p # r
    <3>1. pc'[p] = pc[p] /\ comment'[p] = comment[p]
      BY <2>3
    <3>2. Fresh(p)'
      BY <2>1, <3>1 DEF Fresh
    <3>3. AtGet(p)'
      BY <1>5, <1>9, <2>1, <2>3, <3>1 DEF AtGet
    <3>4. AtPut(p)'
      BY <1>5, <1>6, <1>9, <2>1, <2>3, <3>1 DEF AtPut
    <3>5. AtSleep(p)'
      BY <1>5, <1>7, <1>9, <1>10, <2>1, <2>3, <3>1 DEF AtSleep
    <3>6. QED  BY <3>2, <3>3, <3>4, <3>5
  <2>4. QED  BY <2>2, <2>3
<1>12. QED
  BY <1>1, <1>2, <1>3, <1>4, <1>11 DEF TriesInv

(* The results comment lets a poster begin, with all its tries before it. *)
LEMMA TriesCreate ==
  ASSUME AtMostThree, TriesInv, SafeInv', [Next]_vars, NEW r \in Posters, CreateResults(r)
  PROVE  TriesInv'
<1> USE DEF SafeInv, TypeOK, Threatens, Carries, HeldBack, Over
<1>1. /\ pc[r] = "create"
      /\ UNCHANGED <<comment, copy, age, tries>>
      /\ \E next \in {"create", "get"} : pc' = [pc EXCEPT ![r] = next]
  BY DEF CreateResults, TriesInv
<1>2. LostTo' /\ OneLinked' /\ NoCircle' /\ TriesSuffice'
  BY <1>1 DEF TriesInv, LostTo, OneLinked, NoCircle, TriesSuffice
<1>3. \A p \in Posters, n \in Nat : Room(p, n) => Room(p, n)'
  BY RoomStays DEF TriesInv
<1>4. \A p \in Posters : (Free(p) => Free(p)') /\ (Menaced(p) => Menaced(p)') /\ (Settled(p) => Settled(p)')
  BY <1>1, SettledStays DEF Free, Menaced, TriesInv
<1>5. ASSUME NEW p \in Posters \ {r}, Rescued(p) PROVE Rescued(p)'
  BY <1>1, <1>4, <1>5 DEF Rescued, RescuedBy
<1>6. InTime'
  <2> SUFFICES ASSUME NEW p \in Posters PROVE (Fresh(p) /\ AtGet(p) /\ AtPut(p) /\ AtSleep(p))'
    BY DEF InTime
  <2>1. Fresh(p) /\ AtGet(p) /\ AtPut(p) /\ AtSleep(p) /\ tries'[p] = tries[p] /\ tries[p] \in Nat
    BY <1>1 DEF TriesInv, InTime
  <2>2. CASE p = r
    BY <1>1, <2>1, <2>2 DEF Fresh, AtGet, AtPut, AtSleep, Room
  <2>3. CASE p # r
    <3>1. pc'[p] = pc[p] /\ comment'[p] = comment[p]
      BY <1>1, <2>3
    <3>2. Fresh(p)' /\ AtGet(p)' /\ AtPut(p)'
      BY <1>3, <1>4, <1>5, <2>1, <2>3, <3>1 DEF Fresh, AtGet, AtPut
    <3>3. AtSleep(p)'
      BY <1>3, <1>4, <1>5, <2>1, <2>3, <3>1 DEF AtSleep
    <3>4. QED  BY <3>2, <3>3
  <2>4. QED  BY <2>2, <2>3
<1>7. QED
  BY <1>2, <1>6 DEF TriesInv

(* A poster reads its placeholder, and brings it along to its write. *)
LEMMA TriesGet ==
  ASSUME AtMostThree, Prompt, TriesInv, SafeInv', [Next]_vars, NEW r \in Posters,
         pc[r] = "get", comment[r] = "placeholder",
         pc' = [pc EXCEPT ![r] = "put"], copy' = [copy EXCEPT ![r] = comment],
         age' = [age EXCEPT ![r] = 0], UNCHANGED <<comment, tries>>
  PROVE  TriesInv'
<1> USE DEF SafeInv, TypeOK, Threatens, Carries, HeldBack, Over
<1>1. LostTo'
  BY DEF TriesInv, LostTo
<1>2. OneLinked'
  <2> SUFFICES ASSUME NEW p \in Posters, NEW x \in Posters, NEW q \in Posters,
                      pc'[p] = "sleep", comment[p] = "placeholder", Threatens(x, p)',
                      age'[x] >= age'[p], q \notin {p, x}
               PROVE  comment[x] # "placeholder" \/ HeldBack(q, x)'
    BY DEF OneLinked
  <2>1. p # r /\ pc[p] = "sleep" /\ age'[p] = age[p] /\ p # x
    BY DEF TriesInv
  <2>2. CASE x = r
    <3>1. age[p] = 0 /\ age[p] < RetryDelay
      BY <2>1, <2>2, PostAssumption DEF TriesInv, Prompt
    <3>2. PICK y \in Posters \ {p} : HeldBack(y, p)
      BY <2>1, <3>1, <2>2, PostAssumption DEF TriesInv, LostTo
    <3>3. y = q
      <4>1. pc[y] # "get"
        BY <3>2
      <4>2. QED  BY <2>1, <2>2, <3>2, <4>1, ThirdPoster
    <3>4. HeldBack(q, x)'
      BY <2>2, <3>1, <3>2, <3>3
    <3>5. QED  BY <3>4
  <2>3. CASE x # r
    BY <2>1, <2>3 DEF TriesInv, OneLinked
  <2>4. QED  BY <2>2, <2>3
<1>3. NoCircle'
  <2> SUFFICES ASSUME NEW p \in Posters, NEW x \in Posters, NEW q \in Posters,
                      pc'[p] = "sleep", Threatens(x, p)', age'[x] >= age'[p],
                      Threatens(q, p)', Threatens(q, x)'
               PROVE  age'[q] >= age'[p]
    BY DEF NoCircle
  <2>1. p # r /\ pc[p] = "sleep" /\ age'[p] = age[p] /\ p # x /\ p # q /\ age[p] \in Nat
    BY DEF TriesInv
  <2>2. CASE x = r
    BY <2>1, <2>2 DEF TriesInv
  <2>3. CASE x # r /\ q = r
    <3>1. comment[p] = "placeholder" /\ comment[x] = "placeholder"
      BY <2>1, <2>3 DEF TriesInv
    <3>2. ~HeldBack(r, x)
      OBVIOUS
    <3>3. QED
      BY <2>1, <2>3, <3>1, <3>2 DEF TriesInv, OneLinked
  <2>4. CASE x # r /\ q # r
    BY <2>1, <2>4 DEF TriesInv, NoCircle
  <2>5. QED  BY <2>2, <2>3, <2>4
<1>4. TriesSuffice'
  BY DEF TriesInv, TriesSuffice
<1>5. \A p \in Posters, n \in Nat : Room(p, n) => Room(p, n)'
  BY RoomStays DEF TriesInv
<1>6. \A p \in Posters : Settled(p) => Settled(p)'
  BY SettledStays DEF TriesInv
<1>7. \A p \in Posters \ {r} : Menaced(p) => Menaced(p)'
  BY DEF Menaced, TriesInv
<1>8. \A p \in Posters \ {r} : ~Rescued(p)
  BY DEF Rescued, RescuedBy, TriesInv, AbsentKept
<1>9. Rescued(r) => Rescued(r)'
  <2> SUFFICES ASSUME Rescued(r) PROVE Rescued(r)'
    OBVIOUS
  <2>1. PICK x \in Posters : RescuedBy(r, x)
    BY DEF Rescued
  <2>2. RescuedBy(r, x)'
    BY <2>1 DEF RescuedBy, TriesInv
  <2>3. Free(r)'
    BY DEF Rescued, Free, TriesInv
  <2>4. QED  BY <2>2, <2>3 DEF Rescued
<1>10. InTime'
  <2> SUFFICES ASSUME NEW p \in Posters PROVE (Fresh(p) /\ AtGet(p) /\ AtPut(p) /\ AtSleep(p))'
    BY DEF InTime
  <2>1. Fresh(p) /\ AtGet(p) /\ AtPut(p) /\ AtSleep(p) /\ tries'[p] = tries[p] /\ tries[p] \in Nat
    BY DEF TriesInv, InTime
  <2>2. CASE p = r
    <3>1. pc'[p] = "put"
      BY <2>2 DEF TriesInv
    <3>2. AtPut(p)'
      BY <1>5, <1>9, <2>1, <2>2 DEF AtGet, AtPut
    <3>3. QED  BY <3>1, <3>2 DEF Fresh, AtGet, AtSleep
  <2>3. CASE p # r
    <3>1. pc'[p] = pc[p] /\ comment'[p] = comment[p]
      BY <2>3 DEF TriesInv
    <3>2. Fresh(p)' /\ AtGet(p)'
      BY <1>5, <1>8, <2>1, <2>3, <3>1 DEF Fresh, AtGet
    <3>3. AtPut(p)'
      <4>1. comment[p] # "placeholder" /\ Free(p) => Free(p)'
        BY DEF Free, TriesInv
      <4>2. QED  BY <1>5, <1>8, <2>1, <2>3, <3>1, <4>1 DEF AtPut
    <3>4. AtSleep(p)'
      BY <1>5, <1>6, <1>7, <1>8, <2>1, <2>3, <3>1 DEF AtSleep
    <3>5. QED  BY <3>2, <3>3, <3>4
  <2>4. QED  BY <2>2, <2>3
<1>11. QED
  BY <1>1, <1>2, <1>3, <1>4, <1>10 DEF TriesInv

(* A poster p sleeps while r, which read before p had written, takes p's link  *)
(* away.  Then r has nothing more to fear itself, or the third poster does the *)
(* same to it: that one read before p wrote as well, or brings p's link back.  *)
LEMMA MenaceComesTrue ==
  ASSUME AtMostThree, TriesInv, SafeInv', [Next]_vars, NEW r \in Posters, NEW p \in Posters \ {r},
         pc[r] = "put", comment' = Edited(r), copy' = copy,
         \E next \in {"put", "sleep", "failed"} :
           /\ pc' = [pc EXCEPT ![r] = next]
           /\ age' = IF next = "sleep" THEN [age EXCEPT ![r] = 0] ELSE age,
         pc[p] = "sleep", Threatens(r, p), age[r] >= age[p], NEW n \in Nat, Room(p, n)
  PROVE  Room(p, n + 1)' \/ Menaced(p)' \/ (n <= 1 /\ Rescued(p)')
<1> USE DEF SafeInv, TypeOK, Threatens, Carries, HeldBack, Over
<1>1. PICK next \in {"put", "sleep", "failed"} :
        /\ pc' = [pc EXCEPT ![r] = next]
        /\ age' = IF next = "sleep" THEN [age EXCEPT ![r] = 0] ELSE age
  OBVIOUS
<1>2. comment'[r] = "link" /\ comment'[p] = "placeholder"
  BY DEF Edited, TriesInv, Body
<1>3. CASE ~Rival(r)'
  BY <1>3, RoomGrows, WritersAreRivals DEF TriesInv
<1>4. CASE next = "put"
  BY <1>1, <1>4 DEF Menaced, TriesInv
<1>5. CASE Rival(r)' /\ next = "sleep"
  <2>1. PICK q \in Posters : Threatens(q, r)'
    BY <1>2, <1>5 DEF Rival, Settled
  <2>2. q \notin {p, r} /\ Threatens(q, r) /\ age'[q] = age[q] /\ age'[p] = age[p] /\ pc'[q] = "put"
    BY <1>1, <1>5, <2>1 DEF TriesInv
  <2>3. CASE Threatens(q, p)
    <3>1. age[q] >= age[p]
      BY <2>2, <2>3 DEF TriesInv, NoCircle
    <3>2. Threatens(q, p)'
      BY <2>2, <2>3
    <3>3. QED  BY <2>2, <3>1, <3>2 DEF Menaced
  <2>4. CASE ~Threatens(q, p)
    <3>1. Carries(q, p, "link")'
      BY <2>2, <2>4 DEF TriesInv, AbsentKept, Body, Entry
    <3>2. \A y \in Posters \ {p, q} : y = r
      BY <2>2, ThirdPoster
    <3>3. Free(p)'
      BY <1>1, <1>5, <3>1, <3>2 DEF Free, TriesInv
    <3>4. RescuedBy(p, q)'
      BY <1>1, <1>2, <1>5, <2>2, <3>1, <3>2 DEF RescuedBy, TriesInv
    <3>5. Rescued(p)'
      BY <1>2, <3>3, <3>4 DEF Rescued
    <3>6. n <= 1
      BY <2>2, WritersAreRivals DEF Room, TriesInv
    <3>7. QED  BY <3>5, <3>6
  <2>5. QED  BY <2>3, <2>4
<1>6. CASE next = "failed"
  BY <1>1, <1>3, <1>6 DEF Rival, TriesInv
<1>7. QED
  BY <1>3, <1>4, <1>5, <1>6

(* A body is written back, by an update or by one whose request fails. *)
LEMMA TriesWrite ==
  ASSUME AtMostThree, TriesInv, SafeInv', [Next]_vars, NEW r \in Posters,
         pc[r] = "put", comment' = Edited(r), UNCHANGED <<copy, tries>>,
         \E next \in {"put", "sleep", "failed"} :
           /\ pc' = [pc EXCEPT ![r] = next]
           /\ age' = IF next = "sleep" THEN [age EXCEPT ![r] = 0] ELSE age
  PROVE  TriesInv'
<1> USE DEF SafeInv, TypeOK, Threatens, Carries, HeldBack, Over
<1>1. PICK next \in {"put", "sleep", "failed"} :
        /\ pc' = [pc EXCEPT ![r] = next]
        /\ age' = IF next = "sleep" THEN [age EXCEPT ![r] = 0] ELSE age
  OBVIOUS
<1>2. /\ comment'[r] = "link" /\ pc'[r] = next
      /\ \A p \in Posters \ {r} : comment'[p] = copy[r][p] /\ pc'[p] = pc[p] /\ age'[p] = age[p]
      /\ \A x \in Posters : age[x] \in Nat /\ age'[x] \in Nat
      /\ \A x \in Posters : HeldBack(r, x)' \/ x = r
  <2>1. comment'[r] = "link" /\ \A p \in Posters \ {r} : comment'[p] = copy[r][p]
    BY DEF Edited, TriesInv, Body
  <2>2. pc'[r] = next /\ \A p \in Posters \ {r} : pc'[p] = pc[p] /\ age'[p] = age[p]
    BY <1>1 DEF TriesInv
  <2>3. \A x \in Posters : age[x] \in Nat /\ age'[x] \in Nat
    BY DEF TriesInv
  <2>4. next = "sleep" => age'[r] = 0
    BY <1>1 DEF TriesInv
  <2>5. QED  BY <2>1, <2>2, <2>3, <2>4
<1>3. LostTo'
  BY <1>2 DEF LostTo
<1>4. OneLinked'
  <2> SUFFICES ASSUME NEW p \in Posters, NEW x \in Posters, NEW q \in Posters,
                      pc'[p] = "sleep", comment'[p] = "placeholder", Threatens(x, p)',
                      q \notin {p, x}
               PROVE  comment'[x] # "placeholder" \/ HeldBack(q, x)'
    BY DEF OneLinked
  <2>1. p # r /\ p # x
    BY <1>2
  <2>2. CASE x = r
    BY <1>2, <2>2
  <2>3. CASE x # r
    <3>1. q = r
      BY <2>1, <2>3, ThirdPoster
    <3>2. QED  BY <1>2, <2>3, <3>1
  <2>4. QED  BY <2>2, <2>3
<1>5. NoCircle'
  <2> SUFFICES ASSUME NEW p \in Posters, NEW x \in Posters, NEW q \in Posters,
                      pc'[p] = "sleep", Threatens(x, p)', age'[x] >= age'[p],
                      Threatens(q, p)', Threatens(q, x)'
               PROVE  age'[q] >= age'[p]
    BY DEF NoCircle
  <2>1. CASE p = r
    BY <1>1, <1>2, <2>1 DEF TriesInv
  <2>2. CASE p # r
    <3>1. \A y \in {x, q} : pc[y] = "put" /\ copy'[y] = copy[y] /\ age'[y] = age[y]
      BY <1>1, <1>2
    <3>2. QED
      BY <1>2, <2>2, <3>1 DEF TriesInv, NoCircle
  <2>3. QED  BY <2>1, <2>2
<1>6. TriesSuffice'
  BY <1>2 DEF TriesInv, TriesSuffice
<1>7. \A p \in Posters, n \in Nat : Room(p, n) => Room(p, n)'
  BY RoomStays DEF TriesInv
<1>8. \A p \in Posters : (Settled(p) => Settled(p)') /\ (Free(p) => Free(p)')
  BY <1>2, SettledStays DEF TriesInv, Free
<1>9. \A p \in Posters \ {r} : Free(p) => comment'[p] # "placeholder"
  BY <1>2 DEF Free
<1>10. InTime'
  <2> SUFFICES ASSUME NEW p \in Posters PROVE (Fresh(p) /\ AtGet(p) /\ AtPut(p) /\ AtSleep(p))'
    BY DEF InTime
  <2>1. Fresh(p) /\ AtGet(p) /\ AtPut(p) /\ AtSleep(p) /\ tries'[p] = tries[p] /\ tries[p] \in Nat
    BY DEF TriesInv, InTime
  <2>2. CASE p = r
    <3>1. tries[p] <= 2 /\ (Room(p, tries[p]) \/ Free(p))
      BY <2>1, <2>2 DEF AtPut, Rescued
    <3>2. AtPut(p)'
      BY <1>2, <1>7, <1>8, <2>1, <2>2, <3>1 DEF AtPut
    <3>3. AtSleep(p)'
      <4> SUFFICES ASSUME next = "sleep" PROVE AtSleep(p)'
        BY <1>2, <2>2 DEF AtSleep
      <4>1. CASE Free(p)
        BY <1>2, <1>8, <2>1, <2>2, <3>1, <4>1 DEF AtSleep, Settled, Free
      <4>2. CASE ~Free(p)
        <5>1. PICK x \in Posters \ {p} : Threatens(x, p)
          BY <4>2 DEF Free
        <5>2. age'[p] = 0
          BY <1>1, <2>2 DEF TriesInv
        <5>3. Menaced(p)'
          BY <1>2, <2>2, <5>1, <5>2 DEF Menaced
        <5>4. QED  BY <1>7, <2>1, <3>1, <4>2, <5>3 DEF AtSleep
      <4>3. QED  BY <4>1, <4>2
    <3>4. QED  BY <1>2, <2>2, <3>2, <3>3 DEF Fresh, AtGet
  <2>3. CASE p # r
    <3>1. Fresh(p)'
      BY <1>2, <2>1, <2>3 DEF Fresh
    <3>2. AtGet(p)'
      <4> SUFFICES ASSUME pc[p] = "get", copy[r][p] = "placeholder" PROVE AtGet(p)'
        BY <1>2, <2>3 DEF AtGet
      <4>1. comment[p] = "placeholder" /\ ~Free(p)
        BY <2>3 DEF TriesInv, Awake, Free
      <4>2. QED  BY <1>7, <2>1, <4>1 DEF AtGet, Rescued
    <3>3. AtPut(p)'
      BY <1>2, <1>7, <1>8, <1>9, <2>1, <2>3 DEF AtPut, Rescued
    <3>4. AtSleep(p)'
      <4> SUFFICES ASSUME pc[p] = "sleep" PROVE AtSleep(p)'
        BY <1>2, <2>3 DEF AtSleep
      <4>1. CASE Settled(p) \/ Room(p, tries[p] + 1)
        BY <1>7, <1>8, <2>1, <4>1 DEF AtSleep
      <4>2. CASE Rescued(p)
        <5>1. Settled(p)'
          BY <1>2, <1>8, <1>9, <2>3, <4>2 DEF Rescued, Settled, Free
        <5>2. QED  BY <2>1, <5>1 DEF AtSleep
      <4>3. CASE Room(p, tries[p]) /\ Menaced(p)
        <5>1. PICK x \in Posters \ {p} : Threatens(x, p) /\ age[x] >= age[p]
          BY <4>3 DEF Menaced
        <5>2. CASE x = r
          <6>1. Room(p, tries[p] + 1)' \/ Menaced(p)' \/ (tries[p] <= 1 /\ Rescued(p)')
            <7>1. \A m \in Nat : Room(p, m) =>
                    Room(p, m + 1)' \/ Menaced(p)' \/ (m <= 1 /\ Rescued(p)')
              BY <2>3, <5>1, <5>2, MenaceComesTrue
            <7>2. QED  BY <2>1, <4>3, <7>1
          <6>2. QED  BY <1>7, <2>1, <4>3, <6>1 DEF AtSleep
        <5>3. CASE x # r
          <6>1. Menaced(p)'
            BY <1>2, <2>3, <5>1, <5>3 DEF Menaced
          <6>2. QED  BY <1>7, <2>1, <4>3, <6>1 DEF AtSleep
        <5>4. QED  BY <5>2, <5>3
      <4>4. QED  BY <2>1, <4>1, <4>2, <4>3 DEF AtSleep
    <3>5. QED  BY <3>1, <3>2, <3>3, <3>4
  <2>4. QED  BY <2>2, <2>3
<1>11. QED
  BY <1>3, <1>4, <1>5, <1>6, <1>10 DEF TriesInv

(* A poster wakes to another try.  Nothing that was read before its last write *)
(* is in flight any more.                                                      *)
LEMMA TriesWake ==
  ASSUME AtMostThree, Prompt, MaxTries >= 4, TriesInv, SafeInv', [Next]_vars,
         NEW r \in Posters, Wake(r)
  PROVE  TriesInv'
<1> USE PostAssumption DEF SafeInv, TypeOK, Threatens, Carries, HeldBack, Over
<1>1. /\ pc[r] = "sleep" /\ age[r] >= RetryDelay
      /\ UNCHANGED <<comment, copy, age>>
      /\ tries' = [tries EXCEPT ![r] = tries[r] + 1]
  BY DEF Wake, Rested
<1>2. \A x \in Posters : pc[x] = "put" => age[x] < age[r]
  BY <1>1 DEF TriesInv, PutYoung, Prompt
<1>3. tries[r] <= 2 /\ pc' = [pc EXCEPT ![r] = "get"]
  <2>1. tries[r] <= 2 /\ tries[r] \in Nat
    BY <1>1 DEF TriesInv, InTime, AtSleep
  <2>2. ~OutOfTries(r)
    BY <2>1 DEF OutOfTries
  <2>3. QED  BY <2>1, <2>2 DEF Wake
<1>4. \A q \in Posters : pc'[q] = IF q = r THEN "get" ELSE pc[q]
  BY <1>3 DEF TriesInv
<1>5. \A q, x \in Posters : pc[x] = "put" /\ HeldBack(q, x) => HeldBack(q, x)'
  BY <1>1, <1>2, <1>4 DEF TriesInv
<1>6. LostTo'
  <2> SUFFICES ASSUME NEW p \in Posters, pc'[p] = "sleep", comment[p] = "placeholder", age[p] < RetryDelay
               PROVE  \E y \in Posters \ {p} : HeldBack(y, p)'
    BY <1>1 DEF LostTo, TriesInv
  <2>1. PICK y \in Posters \ {p} : HeldBack(y, p)
    BY <1>4 DEF LostTo, TriesInv
  <2>2. HeldBack(y, p)'
    BY <1>1, <1>4, <2>1 DEF TriesInv
  <2>3. QED  BY <2>2
<1>7. OneLinked'
  BY <1>1, <1>4, <1>5 DEF TriesInv, OneLinked
<1>8. NoCircle'
  BY <1>1, <1>4 DEF TriesInv, NoCircle
<1>9. TriesSuffice'
  BY <1>4 DEF TriesInv, TriesSuffice
<1>10. \A p \in Posters, n \in Nat : Room(p, n) => Room(p, n)'
  BY RoomStays DEF TriesInv
<1>11. \A p \in Posters : (Settled(p) => Settled(p)') /\ (Free(p) => Free(p)')
  BY <1>1, <1>4, SettledStays DEF TriesInv, Free
<1>12. \A p \in Posters \ {r} : Menaced(p) => Menaced(p)'
  BY <1>1, <1>4 DEF Menaced
<1>13. ASSUME NEW p \in Posters, Rescued(p) PROVE Rescued(p)'
  <2>1. PICK x \in Posters : RescuedBy(p, x)
    BY <1>13 DEF Rescued
  <2>2. RescuedBy(p, x)'
    BY <1>1, <1>4, <1>5, <2>1 DEF RescuedBy
  <2>3. QED  BY <1>1, <1>11, <1>13, <2>2 DEF Rescued
<1>14. InTime'
  <2> SUFFICES ASSUME NEW p \in Posters PROVE (Fresh(p) /\ AtGet(p) /\ AtPut(p) /\ AtSleep(p))'
    BY DEF InTime
  <2>1. Fresh(p) /\ AtGet(p) /\ AtPut(p) /\ AtSleep(p) /\ tries[p] \in Nat
    BY DEF TriesInv, InTime
  <2>2. CASE p = r
    <3>1. ~Menaced(p) /\ tries'[p] = tries[p] + 1 /\ pc'[p] = "get"
      BY <1>1, <1>2, <1>4, <2>2 DEF Menaced, TriesInv
    <3>2. Settled(p)' \/ Room(p, tries[p])' \/ (tries[p] <= 1 /\ Rescued(p)')
      <4>1. Room(p, tries[p] + 1) => Room(p, tries'[p])
        BY <3>1
      <4>2. tries'[p] \in Nat
        BY <2>1, <3>1
      <4>3. Room(p, tries[p] + 1) => \E n \in Nat : n = tries'[p] /\ Room(p, n)'
        BY <1>10, <4>1, <4>2
      <4>4. QED  BY <1>1, <1>11, <1>13, <2>1, <2>2, <3>1, <4>3 DEF AtSleep
    <3>3. Room(p, tries[p])' => tries'[p] <= 2
      BY DEF Room
    <3>4. QED  BY <2>1, <3>1, <3>2, <3>3 DEF Fresh, AtGet, AtPut, AtSleep, Settled
  <2>3. CASE p # r
    <3>1. pc'[p] = pc[p] /\ tries'[p] = tries[p] /\ comment'[p] = comment[p]
      BY <1>1, <1>4, <2>3 DEF TriesInv
    <3>2. Fresh(p)' /\ AtGet(p)' /\ AtPut(p)'
      BY <1>10, <1>11, <1>13, <2>1, <3>1 DEF Fresh, AtGet, AtPut
    <3>3. AtSleep(p)'
      BY <1>10, <1>11, <1>12, <1>13, <2>1, <2>3, <3>1 DEF AtSleep
    <3>4. QED  BY <3>2, <3>3
  <2>4. QED  BY <2>2, <2>3
<1>15. QED
  BY <1>6, <1>7, <1>8, <1>9, <1>14 DEF TriesInv

(* Whoever writes and whoever sleeps grow old together. *)
LEMMA TriesTick ==
  ASSUME AtMostThree, Prompt, TriesInv, SafeInv', [Next]_vars, Tick
  PROVE  TriesInv'
<1> USE PostAssumption DEF SafeInv, TypeOK, Threatens, Carries, HeldBack, Over
<1>1. UNCHANGED <<comment, pc, tries, copy>>
  BY DEF Tick
<1>2. \A p \in Posters :
        /\ pc[p] = "put" => age'[p] = age[p] + 1 /\ age'[p] < RetryDelay
        /\ pc[p] = "sleep" => age'[p] = IF age[p] < RetryDelay THEN age[p] + 1 ELSE age[p]
        /\ age[p] \in Nat
  BY DEF Tick, TriesInv, Prompt
<1>3. \A q, x \in Posters : pc[x] = "put" /\ HeldBack(q, x) => HeldBack(q, x)'
  BY <1>1, <1>2
<1>4. LostTo'
  <2> SUFFICES ASSUME NEW p \in Posters, pc[p] = "sleep", comment[p] = "placeholder", ~(age'[p] >= RetryDelay)
               PROVE  \E y \in Posters \ {p} : HeldBack(y, p)'
    BY <1>1 DEF LostTo
  <2>1. PICK y \in Posters \ {p} : HeldBack(y, p)
    BY <1>2 DEF LostTo, TriesInv
  <2>2. HeldBack(y, p)'
    BY <1>1, <1>2, <2>1
  <2>3. QED  BY <2>2
<1>5. ASSUME NEW p \in Posters, NEW x \in Posters, pc[p] = "sleep", pc[x] = "put"
      PROVE  age'[x] >= age'[p] <=> age[x] >= age[p]
  BY <1>2, <1>5
<1>6. OneLinked'
  BY <1>1, <1>3, <1>5 DEF TriesInv, OneLinked
<1>7. NoCircle'
  BY <1>1, <1>5 DEF TriesInv, NoCircle
<1>8. TriesSuffice'
  BY <1>1 DEF TriesInv, TriesSuffice
<1>9. \A p \in Posters, n \in Nat : Room(p, n) => Room(p, n)'
  BY RoomStays DEF TriesInv
<1>10. \A p \in Posters : (Settled(p) => Settled(p)') /\ (Free(p) => Free(p)')
  BY <1>1, SettledStays DEF TriesInv, Free
<1>11. \A p \in Posters : pc[p] = "sleep" /\ Menaced(p) => Menaced(p)'
  BY <1>1, <1>5 DEF Menaced
<1>12. ASSUME NEW p \in Posters, Rescued(p) PROVE Rescued(p)'
  <2>1. PICK x \in Posters : RescuedBy(p, x)
    BY <1>12 DEF Rescued
  <2>2. RescuedBy(p, x)'
    BY <1>1, <1>3, <2>1 DEF RescuedBy
  <2>3. QED  BY <1>1, <1>10, <1>12, <2>2 DEF Rescued
<1>13. InTime'
  <2> SUFFICES ASSUME NEW p \in Posters PROVE (Fresh(p) /\ AtGet(p) /\ AtPut(p) /\ AtSleep(p))'
    BY DEF InTime
  <2>1. Fresh(p) /\ AtGet(p) /\ AtPut(p) /\ AtSleep(p) /\ tries[p] \in Nat
    BY DEF TriesInv, InTime
  <2>2. Fresh(p)' /\ AtGet(p)' /\ AtPut(p)'
    BY <1>1, <1>9, <1>10, <1>12, <2>1 DEF Fresh, AtGet, AtPut
  <2>3. AtSleep(p)'
    BY <1>1, <1>9, <1>10, <1>11, <1>12, <2>1 DEF AtSleep
  <2>4. QED  BY <2>2, <2>3
<1>14. QED
  BY <1>4, <1>6, <1>7, <1>8, <1>13 DEF TriesInv

LEMMA TriesStep ==
  ASSUME AtMostThree, Prompt, MaxTries >= 4, TriesInv, SafeInv', [Next]_vars
  PROVE  TriesInv'
<1> USE DEF TriesInv
<1>1. ASSUME NEW r \in Posters, CreateResults(r) PROVE TriesInv'
  BY <1>1, TriesCreate
<1>2. ASSUME NEW r \in Posters, GetComment(r) PROVE TriesInv'
  <2>1. CASE Verified(r)
    BY <1>2, <2>1, TriesEnd DEF GetComment, Verified
  <2>2. CASE ~Verified(r)
    BY <1>2, <2>2, TriesGet DEF GetComment, Verified
  <2>3. QED  BY <2>1, <2>2
<1>3. ASSUME NEW r \in Posters, UpdateComment(r) PROVE TriesInv'
  <2>1. pc[r] = "put" /\ comment' = Edited(r) /\ UNCHANGED <<copy, tries>>
    BY <1>3 DEF UpdateComment
  <2>2. \E next \in {"put", "sleep"} :
          /\ pc' = [pc EXCEPT ![r] = next]
          /\ age' = IF next = "sleep" THEN [age EXCEPT ![r] = 0] ELSE age
    <3>1. CASE pc' = [pc EXCEPT ![r] = "sleep"] /\ age' = [age EXCEPT ![r] = 0]
      BY <3>1
    <3>2. CASE UNCHANGED <<pc, age>>
      <4>1. pc' = [pc EXCEPT ![r] = "put"]
        BY <2>1, <3>2 DEF SafeInv, TypeOK
      <4>2. QED  BY <3>2, <4>1
    <3>3. QED  BY <1>3, <3>1, <3>2 DEF UpdateComment
  <2>3. QED  BY <2>1, <2>2, TriesWrite
<1>4. ASSUME NEW r \in Posters, Wake(r) PROVE TriesInv'
  BY <1>4, TriesWake
<1>5. ASSUME NEW r \in Posters, RequestFails(r) PROVE TriesInv'
  <2>1. pc' = [pc EXCEPT ![r] = "failed"] /\ UNCHANGED <<tries, copy, age>>
    BY <1>5 DEF RequestFails
  <2>2. CASE UNCHANGED comment
    BY <2>1, <2>2, TriesEnd
  <2>3. CASE pc[r] = "put" /\ comment' = Edited(r)
    BY <2>1, <2>3, TriesWrite
  <2>4. QED  BY <1>5, <2>2, <2>3 DEF RequestFails
<1>6. CASE Tick
  BY <1>6, TriesTick
<1>7. CASE UNCHANGED vars
  BY <1>7 DEF vars, LostTo, OneLinked, NoCircle, InTime, TriesSuffice, Fresh, AtGet, AtPut, AtSleep,
     Room, Rival, Settled, Free, Rescued, RescuedBy, Menaced, HeldBack, Over, Threatens, Carries
<1>8. QED
  BY <1>1, <1>2, <1>3, <1>4, <1>5, <1>6, <1>7 DEF Next, Step, Ended

(* postPerfResult.ts:66-99: the loop makes five tries, and with at most three  *)
(* posters four are enough: whatever the interleaving, nobody ends with        *)
(* "Failed to update status comment" because of the others.                    *)
THEOREM TriesAreEnough ==
  ASSUME AtMostThree, Prompt, MaxTries >= 4
  PROVE  Spec => []TriesSuffice
<1>1. TriesInv /\ TypeOK' /\ [Next]_vars => TriesInv'
  <2>1. TriesInv /\ TypeOK' /\ [Next]_vars => SafeInv'
    BY SafeStep DEF TriesInv
  <2>2. QED  BY <2>1, TriesStep
<1>2. TriesInv => TriesSuffice
  BY DEF TriesInv
<1>3. QED
  BY <1>1, <1>2, TriesInit, TypeCorrect, PTL DEF Spec
-----------------------------------------------------------------------------
(* Any number of posters, if the delay is longer than the writes of all the    *)
(* others take one after the other: whatever the bodies in flight disagree     *)
(* about has been decided before a poster looks at the comment again.          *)
LongDelay == IsFiniteSet(Posters) /\ (Cardinality(Posters) - 1) * MaxLatency < RetryDelay

(* Some body in flight says something else of p than the comment. *)
Mixed(p) == \E b \in Posters : pc[b] = "put" /\ copy[b][p] # comment[p]

(* Who will not read while p sleeps and the body of b is in flight. *)
Behind(p, b) ==
    {x \in Posters \ {p, b} :
        \/ Over(x)
        \/ pc[x] = "sleep" /\ age[x] <= age[p]
        \/ pc[x] = "put" /\ age[x] >= age[b]}

(* The body of b was read while another was in flight, and that one likewise,  *)
(* back to p's own write: one latency for each poster that has read since, and *)
(* each of them is behind.                                                     *)
Relay(p) ==
    \A b \in Posters : pc[b] = "put" =>
        age[p] <= age[b] + MaxLatency * Cardinality(Behind(p, b))

(* As long as the bodies disagree about p, they do since p's last write. *)
Relayed == \A p \in Posters : pc[p] = "sleep" /\ Mixed(p) => Relay(p)
AgreedAwake == \A p \in Posters : pc[p] = "get" => ~Mixed(p)
AgreedDone == \A p \in Posters : pc[p] = "done" => comment[p] # "placeholder" /\ ~Mixed(p)

ManyInv ==
    /\ TypeOK
    /\ PutYoung
    /\ AbsentKept
    /\ NotYetLinked
    /\ Relayed
    /\ AgreedAwake
    /\ AgreedDone

LEMMA TimesKeepsOrder ==
  ASSUME NEW l \in Nat, NEW m \in Nat, NEW n \in Nat, m <= n
  PROVE  l * m \in Nat /\ l * m <= l * n /\ l * (m + 1) = l * m + l
<1>1. PICK d \in Nat : n = m + d
  <2>1. n - m \in Nat /\ n = m + (n - m)
    OBVIOUS
  <2>2. QED  BY <2>1
<1>2. l * m \in Nat /\ l * d \in Nat
  OBVIOUS
<1>3. l * (m + d) = l * m + l * d
  OBVIOUS
<1>4. l * (m + 1) = l * m + l
  OBVIOUS
<1>5. QED  BY <1>1, <1>2, <1>3, <1>4

(* What is behind can be counted. *)
LEMMA BehindSize ==
  ASSUME PostAssumption, IsFiniteSet(Posters), NEW p, NEW b
  PROVE  /\ IsFiniteSet(Behind(p, b)) /\ Cardinality(Behind(p, b)) \in Nat
         /\ IsFiniteSet(Behind(p, b)') /\ Cardinality(Behind(p, b)') \in Nat
         /\ MaxLatency * Cardinality(Behind(p, b)) \in Nat
         /\ MaxLatency * Cardinality(Behind(p, b)') \in Nat
<1>1. Behind(p, b) \subseteq Posters /\ Behind(p, b)' \subseteq Posters
  BY DEF Behind
<1>2. /\ IsFiniteSet(Behind(p, b)) /\ Cardinality(Behind(p, b)) \in Nat
      /\ IsFiniteSet(Behind(p, b)') /\ Cardinality(Behind(p, b)') \in Nat
  BY <1>1, FS_Subset, FS_CardinalityType
<1>3. QED  BY <1>2 DEF PostAssumption

(* More of them are behind: the bound only grows. *)
LEMMA MoreBehind ==
  ASSUME PostAssumption, IsFiniteSet(Posters), NEW p, NEW b, Behind(p, b) \subseteq Behind(p, b)'
  PROVE  MaxLatency * Cardinality(Behind(p, b)) <= MaxLatency * Cardinality(Behind(p, b)')
<1>1. Cardinality(Behind(p, b)) <= Cardinality(Behind(p, b)')
  BY BehindSize, FS_Subset
<1>2. QED  BY <1>1, BehindSize, TimesKeepsOrder DEF PostAssumption

(* The delay is longer than any relay. *)
LEMMA RelayIsShort ==
  ASSUME LongDelay, TypeOK, PutYoung, NEW p \in Posters, pc[p] = "sleep", Relay(p),
         NEW b \in Posters, pc[b] = "put"
  PROVE  age[p] < RetryDelay
<1> USE PostAssumption
<1>1. pc[b] = "put" /\ b # p
  OBVIOUS
<1>2. age[b] <= MaxLatency /\ age[b] \in Nat /\ age[p] \in Nat
  BY <1>1 DEF PutYoung, TypeOK
<1>3. age[p] <= age[b] + MaxLatency * Cardinality(Behind(p, b))
  BY <1>1 DEF Relay
<1>4. IsFiniteSet(Posters) /\ IsFiniteSet(Posters \ {p}) /\ IsFiniteSet((Posters \ {p}) \ {b})
  BY FS_RemoveElement DEF LongDelay
<1>5. Cardinality(Posters \ {p}) = Cardinality(Posters) - 1
  BY <1>4, FS_RemoveElement
<1>6. b \in Posters \ {p}
  BY <1>1
<1>7. Cardinality((Posters \ {p}) \ {b}) = Cardinality(Posters) - 2
  <2>1. Cardinality((Posters \ {p}) \ {b}) = Cardinality(Posters \ {p}) - 1
    BY <1>4, <1>6, FS_RemoveElement
  <2>2. QED  BY <1>4, <1>5, <2>1, FS_CardinalityType
<1>8. Behind(p, b) \subseteq (Posters \ {p}) \ {b}
  BY DEF Behind
<1>9. /\ Cardinality(Behind(p, b)) <= Cardinality(Posters) - 2
      /\ Cardinality(Posters) - 2 \in Nat
  BY <1>4, <1>7, <1>8, FS_Subset, FS_CardinalityType
<1>10. MaxLatency * Cardinality(Behind(p, b)) <= MaxLatency * (Cardinality(Posters) - 2)
  BY <1>4, <1>9, BehindSize, TimesKeepsOrder DEF PostAssumption
<1>11. MaxLatency * (Cardinality(Posters) - 2) + MaxLatency = (Cardinality(Posters) - 1) * MaxLatency
  <2>1. MaxLatency \in Nat
    BY DEF PostAssumption
  <2>2. PICK n \in Nat : n = Cardinality(Posters) - 2
    BY <1>9
  <2>3. MaxLatency * (n + 1) = MaxLatency * n + MaxLatency
    BY <2>1, TimesKeepsOrder
  <2>4. (n + 1) * MaxLatency = MaxLatency * (n + 1)
    BY <2>1
  <2>5. Cardinality(Posters) - 1 = n + 1
    BY <1>4, <2>2, FS_CardinalityType
  <2>6. QED  BY <2>2, <2>3, <2>4, <2>5
<1>12. /\ MaxLatency * (Cardinality(Posters) - 2) \in Nat /\ MaxLatency * Cardinality(Behind(p, b)) \in Nat
       /\ (Cardinality(Posters) - 1) * MaxLatency \in Nat
  BY <1>4, <1>9, <1>11, BehindSize DEF PostAssumption
<1>13. QED
  BY <1>2, <1>3, <1>10, <1>11, <1>12 DEF LongDelay, PostAssumption

(* What the steps of r keep of the others. *)
LEMMA OthersStay ==
  ASSUME TypeOK, NEW r \in Posters,
         CreateResults(r) \/ GetComment(r) \/ UpdateComment(r) \/ Wake(r) \/ RequestFails(r)
  PROVE  \A x \in Posters \ {r} : pc'[x] = pc[x] /\ age'[x] = age[x] /\ copy'[x] = copy[x]
<1> USE DEF TypeOK, Body
<1>1. CASE CreateResults(r)
  BY <1>1 DEF CreateResults
<1>2. CASE GetComment(r)
  BY <1>2 DEF GetComment
<1>3. CASE UpdateComment(r)
  BY <1>3 DEF UpdateComment
<1>4. CASE Wake(r)
  BY <1>4 DEF Wake
<1>5. CASE RequestFails(r)
  BY <1>5 DEF RequestFails
<1>6. QED  BY <1>1, <1>2, <1>3, <1>4, <1>5

(* The simple parts of the invariant. *)
LEMMA ManySimple ==
  ASSUME TypeOK, PutYoung, AbsentKept, NotYetLinked, TypeOK', [Next]_vars
  PROVE  PutYoung' /\ AbsentKept' /\ NotYetLinked'
<1> USE PostAssumption DEF TypeOK, Body, Entry, Carries
<1>1. ASSUME NEW r \in Posters, CreateResults(r) PROVE PutYoung' /\ AbsentKept' /\ NotYetLinked'
  BY <1>1 DEF CreateResults, PutYoung, AbsentKept, NotYetLinked, NoLinkCopy
<1>2. ASSUME NEW r \in Posters, GetComment(r) PROVE PutYoung' /\ AbsentKept' /\ NotYetLinked'
  <2>1. CASE Verified(r)
    BY <1>2, <2>1 DEF GetComment, PutYoung, AbsentKept, NotYetLinked, NoLinkCopy
  <2>2. CASE ~Verified(r)
    <3>1. /\ pc' = [pc EXCEPT ![r] = "put"]
          /\ copy' = [copy EXCEPT ![r] = comment]
          /\ age' = [age EXCEPT ![r] = 0]
          /\ comment' = comment
          /\ comment[r] = "placeholder"
      BY <1>2, <2>2 DEF GetComment, Verified
    <3>2. QED  BY <3>1 DEF PutYoung, AbsentKept, NotYetLinked, NoLinkCopy
  <2>3. QED  BY <2>1, <2>2
<1>3. ASSUME NEW r \in Posters, pc[r] = "put", comment' = Edited(r), copy' = copy,
             \A p \in Posters : pc'[p] = "put" => pc[p] = "put" /\ age'[p] = age[p],
             \A p \in Posters : pc'[p] = "create" => pc[p] = "create"
      PROVE  PutYoung' /\ AbsentKept' /\ NotYetLinked'
  <2>1. comment'[r] = "link" /\ \A p \in Posters \ {r} : comment'[p] = copy[r][p]
    BY <1>3 DEF Edited
  <2>2. QED  BY <1>3, <2>1 DEF PutYoung, AbsentKept, NotYetLinked, NoLinkCopy
<1>4. ASSUME NEW r \in Posters, UpdateComment(r) PROVE PutYoung' /\ AbsentKept' /\ NotYetLinked'
  BY <1>3, <1>4 DEF UpdateComment
<1>5. ASSUME NEW r \in Posters, Wake(r) PROVE PutYoung' /\ AbsentKept' /\ NotYetLinked'
  <2>1. \A p \in Posters : pc'[p] \in {"put", "create"} => pc[p] = pc'[p]
    BY <1>5 DEF Wake
  <2>2. QED  BY <1>5, <2>1 DEF Wake, PutYoung, AbsentKept, NotYetLinked, NoLinkCopy
<1>6. ASSUME NEW r \in Posters, RequestFails(r) PROVE PutYoung' /\ AbsentKept' /\ NotYetLinked'
  <2>1. /\ copy' = copy /\ age' = age
        /\ \A p \in Posters : pc'[p] \in {"put", "create"} => pc[p] = pc'[p]
    BY <1>6 DEF RequestFails
  <2>2. CASE comment' = comment
    BY <2>1, <2>2 DEF PutYoung, AbsentKept, NotYetLinked, NoLinkCopy
  <2>3. CASE pc[r] = "put" /\ comment' = Edited(r)
    BY <1>3, <2>1, <2>3
  <2>4. QED  BY <1>6, <2>2, <2>3 DEF RequestFails
<1>7. CASE Tick
  BY <1>7 DEF Tick, PutYoung, AbsentKept, NotYetLinked, NoLinkCopy
<1>8. CASE UNCHANGED vars
  BY <1>8 DEF vars, PutYoung, AbsentKept, NotYetLinked, NoLinkCopy
<1>9. QED
  BY <1>1, <1>2, <1>4, <1>5, <1>6, <1>7, <1>8 DEF Next, Step, Ended

(* Whoever is behind stays behind, whatever r does. *)
LEMMA BehindStays ==
  ASSUME TypeOK, NEW r \in Posters,
         CreateResults(r) \/ GetComment(r) \/ UpdateComment(r) \/ Wake(r) \/ RequestFails(r),
         NEW p \in Posters \ {r}, NEW b \in Posters \ {r}, age[p] < RetryDelay
  PROVE  Behind(p, b) \subseteq Behind(p, b)'
<1>1. age[p] < RetryDelay
  OBVIOUS
<1>2. \A x \in Posters \ {r} : pc'[x] = pc[x] /\ age'[x] = age[x]
  BY OthersStay
<1>3. SUFFICES ASSUME NEW x \in Behind(p, b) PROVE x \in Behind(p, b)'
  OBVIOUS
<1>4. CASE x # r
  BY <1>2, <1>4 DEF Behind, Over
<1>5. CASE x = r
  <2> USE <1>5 DEF TypeOK, Behind, Over
  <2>1. CASE CreateResults(r)
    BY <2>1 DEF CreateResults
  <2>2. CASE GetComment(r)
    BY <2>2 DEF GetComment
  <2>3. CASE UpdateComment(r)
    BY <1>2, <2>3 DEF UpdateComment
  <2>4. CASE Wake(r)
    BY <1>1, <2>4, PostAssumption DEF Wake, Rested
  <2>5. CASE RequestFails(r)
    BY <2>5 DEF RequestFails
  <2>6. QED  BY <2>1, <2>2, <2>3, <2>4, <2>5
<1>6. QED  BY <1>4, <1>5

(* Who reads while p sleeps and another body is in flight takes the relay over. *)
LEMMA ReaderRelays ==
  ASSUME LongDelay, TypeOK, PutYoung, TypeOK', NEW r \in Posters, GetComment(r), pc'[r] = "put",
         NEW p \in Posters \ {r}, Relay(p),
         NEW b \in Posters, pc[b] = "put", b # p
  PROVE  age[p] <= MaxLatency * Cardinality(Behind(p, r)')
<1> USE PostAssumption
<1>2. pc[r] = "get" /\ age' = [age EXCEPT ![r] = 0]
  BY DEF GetComment, TypeOK
<1>3. age[p] <= age[b] + MaxLatency * Cardinality(Behind(p, b)) /\ age[b] <= MaxLatency
  BY DEF Relay, PutYoung
<1>4. b # r /\ b # p /\ Behind(p, b) \cup {b} \subseteq Behind(p, r)'
  <2>1. b # r /\ b # p
    BY <1>2
  <2>2. \A x \in Posters \ {r} : pc'[x] = pc[x] /\ age'[x] = age[x]
    BY OthersStay
  <2>3. r \notin Behind(p, b)
    BY <1>2 DEF Behind, Over
  <2>4. age'[r] = 0 /\ \A x \in Posters : age[x] \in Nat
    BY <1>2 DEF TypeOK
  <2>5. QED  BY <2>1, <2>2, <2>3, <2>4 DEF Behind, Over
<1>5. IsFiniteSet(Behind(p, b)) /\ b \notin Behind(p, b) /\ IsFiniteSet(Behind(p, r)')
  <2>1. Behind(p, r)' \subseteq Posters
    BY DEF Behind
  <2>2. QED  BY <2>1, BehindSize, FS_Subset DEF Behind, LongDelay
<1>6. /\ Cardinality(Behind(p, b)) + 1 <= Cardinality(Behind(p, r)')
      /\ Cardinality(Behind(p, b)) \in Nat /\ Cardinality(Behind(p, r)') \in Nat
  <2>1. Cardinality(Behind(p, b) \cup {b}) = Cardinality(Behind(p, b)) + 1
    BY <1>5, FS_AddElement
  <2>2. Cardinality(Behind(p, b) \cup {b}) <= Cardinality(Behind(p, r)')
    BY <1>4, <1>5, FS_Subset
  <2>3. QED  BY <1>5, <2>1, <2>2, FS_CardinalityType
<1>7. MaxLatency * Cardinality(Behind(p, b)) + MaxLatency <= MaxLatency * Cardinality(Behind(p, r)')
  <2>1. PICK m \in Nat, n \in Nat : m = Cardinality(Behind(p, b)) /\ n = Cardinality(Behind(p, r)')
    BY <1>6
  <2>2. m + 1 \in Nat /\ m + 1 <= n
    BY <1>6, <2>1
  <2>3. MaxLatency * (m + 1) <= MaxLatency * n
    BY <2>2, TimesKeepsOrder
  <2>4. MaxLatency * (m + 1) = MaxLatency * m + MaxLatency
    BY TimesKeepsOrder
  <2>5. QED  BY <2>1, <2>3, <2>4
<1>8. /\ MaxLatency \in Nat /\ age[b] \in Nat /\ age[p] \in Nat
      /\ MaxLatency * Cardinality(Behind(p, b)) \in Nat /\ MaxLatency * Cardinality(Behind(p, r)') \in Nat
  BY <1>6 DEF TypeOK
<1>9. QED  BY <1>3, <1>7, <1>8

(* While p sleeps and some body is in flight, the relay goes on. *)
LEMMA RelayKept ==
  ASSUME LongDelay, TypeOK, PutYoung, TypeOK', [Next]_vars,
         NEW p \in Posters, pc[p] = "sleep", pc'[p] = "sleep", Relay(p),
         NEW a \in Posters, pc[a] = "put"
  PROVE  Relay(p)'
<1> USE PostAssumption
<1>1. age[p] < RetryDelay
  BY RelayIsShort
<1> SUFFICES ASSUME NEW b \in Posters, pc'[b] = "put"
             PROVE  age'[p] <= age'[b] + MaxLatency * Cardinality(Behind(p, b)')
  BY DEF Relay
<1>2. /\ age[p] \in Nat /\ age[b] \in Nat /\ age'[p] \in Nat /\ age'[b] \in Nat
      /\ MaxLatency * Cardinality(Behind(p, b)) \in Nat
      /\ MaxLatency * Cardinality(Behind(p, b)') \in Nat
  BY BehindSize DEF TypeOK, LongDelay
<1>3. Behind(p, b) \subseteq Behind(p, b)' =>
        MaxLatency * Cardinality(Behind(p, b)) <= MaxLatency * Cardinality(Behind(p, b)')
  BY MoreBehind DEF LongDelay
<1>4. pc[b] = "put" => age[p] <= age[b] + MaxLatency * Cardinality(Behind(p, b))
  BY DEF Relay
<1>5. ASSUME NEW r \in Posters, Step(r) \/ RequestFails(r)
      PROVE  age'[p] <= age'[b] + MaxLatency * Cardinality(Behind(p, b)')
  <2>1. CreateResults(r) \/ GetComment(r) \/ UpdateComment(r) \/ Wake(r) \/ RequestFails(r)
    BY <1>5 DEF Step
  <2>2. p # r
    BY <2>1 DEF CreateResults, GetComment, UpdateComment, Wake, RequestFails, TypeOK
  <2>3. age'[p] = age[p]
    BY <2>1, <2>2, OthersStay
  <2>4. CASE b # r
    <3>1. pc[b] = "put" /\ age'[b] = age[b]
      BY <2>1, <2>4, OthersStay
    <3>2. Behind(p, b) \subseteq Behind(p, b)'
      BY <1>1, <2>1, <2>2, <2>4, BehindStays
    <3>3. QED  BY <1>2, <1>3, <1>4, <2>3, <3>1, <3>2
  <2>5. CASE b = r /\ GetComment(r)
    <3>1. age[p] <= MaxLatency * Cardinality(Behind(p, r)')
      BY <2>2, <2>5, ReaderRelays
    <3>2. age'[r] = 0
      BY <2>5 DEF GetComment, TypeOK
    <3>3. Behind(p, b)' = Behind(p, r)'
      BY <2>5 DEF Behind
    <3>4. QED  BY <1>2, <2>3, <2>5, <3>1, <3>2, <3>3
  <2>6. CASE b = r /\ UpdateComment(r)
    <3>1. pc[r] = "put" /\ age' = age /\ pc' = pc
      BY <2>6 DEF UpdateComment, TypeOK
    <3>2. Behind(p, b)' = Behind(p, b)
      BY <3>1 DEF Behind, Over
    <3>3. QED  BY <1>4, <2>6, <3>1, <3>2
  <2>7. b = r => ~(CreateResults(r) \/ Wake(r) \/ RequestFails(r))
    BY DEF CreateResults, Wake, RequestFails, TypeOK
  <2>8. QED  BY <2>1, <2>4, <2>5, <2>6, <2>7
<1>6. CASE Tick
  <2>1. UNCHANGED pc
    BY <1>6 DEF Tick
  <2>2. /\ age'[p] = age[p] + 1 /\ age'[b] = age[b] + 1
        /\ \A x \in Posters : /\ pc[x] = "put" => age'[x] = age[x] + 1
                              /\ age'[x] \in {age[x], age[x] + 1}
                              /\ age[x] \in Nat
    BY <1>1, <1>6, <2>1 DEF Tick, TypeOK
  <2>3. Behind(p, b) \subseteq Behind(p, b)'
    BY <2>1, <2>2 DEF Behind, Over
  <2>4. QED  BY <1>2, <1>3, <1>4, <2>1, <2>2, <2>3
<1>7. CASE UNCHANGED vars
  <2>1. UNCHANGED <<pc, age>>
    BY <1>7 DEF vars
  <2>2. Behind(p, b)' = Behind(p, b)
    BY <2>1 DEF Behind, Over
  <2>3. QED  BY <1>4, <2>1, <2>2
<1>8. QED
  BY <1>5, <1>6, <1>7 DEF Next, Ended

(* A relay begins when p's write has been answered. *)
LEMMA RelayBegins ==
  ASSUME LongDelay, TypeOK', NEW p \in Posters, age'[p] = 0
  PROVE  Relay(p)'
<1> SUFFICES ASSUME NEW b \in Posters
             PROVE  age'[p] <= age'[b] + MaxLatency * Cardinality(Behind(p, b)')
  BY DEF Relay
<1>1. age'[b] \in Nat /\ MaxLatency * Cardinality(Behind(p, b)') \in Nat
  BY BehindSize, PostAssumption DEF TypeOK, LongDelay
<1>2. QED  BY <1>1

(* Whoever falls asleep does so when its write has been answered. *)
LEMMA SleepBegins ==
  ASSUME TypeOK, [Next]_vars, NEW p \in Posters, pc'[p] = "sleep", pc[p] # "sleep"
  PROVE  UpdateComment(p) /\ age'[p] = 0
<1>1. PICK r \in Posters : Step(r) \/ RequestFails(r)
  BY DEF Next, Ended, Tick, vars
<1>2. CreateResults(r) \/ GetComment(r) \/ UpdateComment(r) \/ Wake(r) \/ RequestFails(r)
  BY <1>1 DEF Step
<1>3. p = r
  BY <1>2, OthersStay
<1>4. ~(CreateResults(p) \/ GetComment(p) \/ Wake(p) \/ RequestFails(p))
  BY DEF CreateResults, GetComment, Wake, RequestFails, TypeOK
<1>5. UpdateComment(p)
  BY <1>2, <1>3, <1>4
<1>6. QED  BY <1>5 DEF UpdateComment, TypeOK

LEMMA ManyInit == Init => ManyInv
  BY PostAssumption DEF Init, ManyInv, TypeOK, Body, Entry, PutYoung, AbsentKept, NotYetLinked,
     NoLinkCopy, Carries, Relayed, AgreedAwake, AgreedDone, Mixed

(* A step of another poster makes no disagreement about p. *)
LEMMA NoNewMix ==
  ASSUME TypeOK, NEW p \in Posters, NEW r \in Posters, p # r, ~Mixed(p),
         CreateResults(r) \/ GetComment(r) \/ UpdateComment(r) \/ Wake(r) \/ RequestFails(r)
  PROVE  ~Mixed(p)'
<1> USE DEF TypeOK, Body, Mixed
<1>1. CASE CreateResults(r)
  BY <1>1 DEF CreateResults
<1>2. CASE GetComment(r)
  BY <1>2 DEF GetComment
<1>3. CASE UpdateComment(r)
  BY <1>3 DEF UpdateComment, Edited
<1>4. CASE Wake(r)
  BY <1>4 DEF Wake
<1>5. CASE RequestFails(r)
  BY <1>5 DEF RequestFails, Edited
<1>6. QED  BY <1>1, <1>2, <1>3, <1>4, <1>5

LEMMA RelayedNext ==
  ASSUME LongDelay, ManyInv, TypeOK', [Next]_vars
  PROVE  Relayed'
<1> SUFFICES ASSUME NEW p \in Posters, pc'[p] = "sleep", Mixed(p)' PROVE Relay(p)'
  BY DEF Relayed
<1> USE DEF ManyInv
<1>1. CASE pc[p] # "sleep"
  BY <1>1, SleepBegins, RelayBegins
<1>2. CASE pc[p] = "sleep"
  <2>1. Mixed(p)
    <3>1. ASSUME NEW r \in Posters, Step(r) \/ RequestFails(r) PROVE Mixed(p)
      <4>1. CreateResults(r) \/ GetComment(r) \/ UpdateComment(r) \/ Wake(r) \/ RequestFails(r)
        BY <3>1 DEF Step
      <4>2. p # r
        BY <1>2, <4>1 DEF CreateResults, GetComment, UpdateComment, Wake, RequestFails, TypeOK
      <4>3. QED  BY <4>1, <4>2, NoNewMix
    <3>2. CASE Tick \/ UNCHANGED vars
      BY <3>2 DEF Tick, vars, Mixed
    <3>3. QED  BY <3>1, <3>2 DEF Next, Ended
  <2>2. PICK a \in Posters : pc[a] = "put"
    BY <2>1 DEF Mixed
  <2>3. QED  BY <1>2, <2>1, <2>2, RelayKept DEF Relayed
<1>3. QED  BY <1>1, <1>2

(* Whoever reads has everyone agree about its entry, and so it stays. *)
LEMMA AgreedNext ==
  ASSUME LongDelay, ManyInv, TypeOK', [Next]_vars
  PROVE  AgreedAwake' /\ AgreedDone'
<1> USE PostAssumption DEF ManyInv
<1>1. ASSUME NEW r \in Posters, Step(r) \/ RequestFails(r), NEW p \in Posters
      PROVE  /\ pc'[p] = "get" => ~Mixed(p)'
             /\ pc'[p] = "done" => comment'[p] # "placeholder" /\ ~Mixed(p)'
  <2>1. CreateResults(r) \/ GetComment(r) \/ UpdateComment(r) \/ Wake(r) \/ RequestFails(r)
    BY <1>1 DEF Step
  <2>2. CASE p = r
    <3>1. CASE CreateResults(r)
      <4>1. pc[r] = "create" /\ UNCHANGED <<comment, copy>> /\ pc' \in {pc, [pc EXCEPT ![r] = "get"]}
        BY <3>1 DEF CreateResults
      <4>2. ~Mixed(r)
        BY <4>1 DEF Mixed, NotYetLinked, NoLinkCopy, Carries, AbsentKept, TypeOK, Body, Entry
      <4>3. QED  BY <2>2, <4>1, <4>2 DEF Mixed, TypeOK
    <3>2. CASE GetComment(r)
      BY <2>2, <3>2 DEF GetComment, Verified, Mixed, AgreedAwake, TypeOK
    <3>3. CASE UpdateComment(r)
      BY <2>2, <3>3 DEF UpdateComment, TypeOK
    <3>4. CASE Wake(r)
      <4>1. pc[r] = "sleep" /\ age[r] >= RetryDelay /\ UNCHANGED <<comment, copy>>
            /\ \E next \in {"gaveUp", "get"} : pc' = [pc EXCEPT ![r] = next]
        BY <3>4 DEF Wake, Rested
      <4>2. ~Mixed(r)
        <5>1. age[r] \in Nat
          BY DEF TypeOK
        <5>2. ASSUME Mixed(r) PROVE FALSE
          <6>1. PICK b \in Posters : pc[b] = "put"
            BY <5>2 DEF Mixed
          <6>2. age[r] < RetryDelay
            BY <4>1, <5>2, <6>1, RelayIsShort DEF Relayed
          <6>3. QED  BY <4>1, <5>1, <6>2
        <5>3. QED  BY <5>2
      <4>3. QED  BY <2>2, <4>1, <4>2 DEF Mixed, TypeOK
    <3>5. CASE RequestFails(r)
      BY <2>2, <3>5 DEF RequestFails, TypeOK
    <3>6. QED  BY <2>1, <3>1, <3>2, <3>3, <3>4, <3>5
  <2>3. CASE p # r
    <3>1. pc'[p] = pc[p]
      BY <2>1, <2>3, OthersStay
    <3>2. ~Mixed(p) => ~Mixed(p)'
      BY <2>1, <2>3, NoNewMix
    <3>3. ~Mixed(p) => comment'[p] = comment[p]
      <4>1. UNCHANGED comment \/ (pc[r] = "put" /\ comment' = Edited(r))
        BY <2>1 DEF CreateResults, GetComment, UpdateComment, Wake, RequestFails
      <4>2. QED  BY <2>3, <4>1 DEF Edited, Mixed, TypeOK, Body
    <3>4. QED  BY <3>1, <3>2, <3>3 DEF AgreedAwake, AgreedDone
  <2>4. QED  BY <2>2, <2>3
<1>2. CASE Tick \/ UNCHANGED vars
  BY <1>2 DEF Tick, vars, AgreedAwake, AgreedDone, Mixed
<1>3. QED
  BY <1>1, <1>2 DEF Next, Ended, AgreedAwake, AgreedDone

LEMMA ManyNext ==
  ASSUME LongDelay, ManyInv, TypeOK', [Next]_vars
  PROVE  ManyInv'
  BY ManySimple, RelayedNext, AgreedNext DEF ManyInv

LEMMA ManyVisible == ManyInv => SuccessIsVisible /\ NoStaleWriteAfterSuccess
  BY DEF ManyInv, AgreedDone, Mixed, SuccessIsVisible, NoStaleWriteAfterSuccess

(* The same for any number of posters, if the delay is longer than the writes *)
(* of all others take one after the other.                                    *)
THEOREM SuccessOfManyStaysVisible ==
  ASSUME LongDelay
  PROVE  Spec => [](SuccessIsVisible /\ NoStaleWriteAfterSuccess)
<1>1. ManyInv /\ TypeOK' /\ [Next]_vars => ManyInv'
  BY ManyNext
<1>2. QED
  BY <1>1, ManyInit, ManyVisible, TypeCorrect, PTL DEF Spec

(* And postPerfResult.ts keeps the promise of ResultBoard for them. *)
THEOREM ManyPostersImplementBoard ==
  ASSUME LongDelay
  PROVE  Spec => ImplementsBoard
<1>1. ManyInv /\ TypeOK' /\ [Next]_vars => ManyInv'
  BY ManyNext
<1>2. ManyInv /\ ManyInv' /\ [Next]_vars => [Board!Next]_(Board!bvars)
  <2>1. ManyInv => TypeOK /\ SuccessIsVisible
    BY ManyVisible DEF ManyInv
  <2>2. ManyInv' => TypeOK' /\ SuccessIsVisible'
    BY <2>1, PTL
  <2>3. QED  BY <2>1, <2>2, BoardStep
<1>3. QED
  BY <1>1, <1>2, ManyInit, BoardInit, TypeCorrect, PTL DEF Spec, ImplementsBoard, Board!Spec

-----------------------------------------------------------------------------
(* How many tries any number of posters need.  A body in flight that is not    *)
(* the comment's makes the comment restless; when it has come to rest, the     *)
(* last of those that wrote has settled, or has failed.  With the long delay,  *)
(* no poster reads twice before that, so each failed try has cost a rival.     *)
Restless == \E b \in Posters : pc[b] = "put" /\ copy[b] # comment

Spent(p) == {q \in Posters \ {p} : ~Rival(q)}
Afforded(p, n) == n <= Cardinality(Spent(p))

CountInv ==
    \A p \in Posters :
        /\ pc[p] = "create" => tries[p] = 0
        /\ pc[p] = "get" => Settled(p) \/ Afforded(p, tries[p])
        /\ pc[p] = "put" => Afforded(p, tries[p])
        /\ pc[p] = "sleep" =>
             /\ Afforded(p, tries[p])
             /\ Settled(p) \/ Afforded(p, tries[p] + 1) \/ (Restless /\ Relay(p))

ManyTriesInv ==
    /\ TypeOK
    /\ PutYoung
    /\ AbsentKept
    /\ NotYetLinked
    /\ CountInv
    /\ TriesSuffice

(* Those that are no rivals any more can be counted, and only become more. *)
LEMMA SpentSize ==
  ASSUME IsFiniteSet(Posters), NEW p \in Posters
  PROVE  /\ IsFiniteSet(Spent(p)) /\ Cardinality(Spent(p)) \in Nat
         /\ IsFiniteSet(Spent(p)') /\ Cardinality(Spent(p)') \in Nat
         /\ Cardinality(Spent(p)) + 1 <= Cardinality(Posters) /\ Cardinality(Posters) \in Nat
<1>1. IsFiniteSet(Posters \ {p}) /\ Cardinality(Posters \ {p}) = Cardinality(Posters) - 1
  BY FS_RemoveElement
<1>2. Spent(p) \subseteq Posters \ {p} /\ Spent(p)' \subseteq Posters \ {p}
  BY DEF Spent
<1>3. /\ IsFiniteSet(Spent(p)) /\ Cardinality(Spent(p)) <= Cardinality(Posters \ {p})
      /\ IsFiniteSet(Spent(p)')
  BY <1>1, <1>2, FS_Subset
<1>4. QED  BY <1>1, <1>3, FS_CardinalityType

LEMMA SpentGrows ==
  ASSUME IsFiniteSet(Posters), TypeOK, TypeOK', [Next]_vars, NEW p \in Posters
  PROVE  /\ \A n \in Nat : Afforded(p, n) => Afforded(p, n)'
         /\ \A x \in Posters \ {p} : Rival(x) /\ ~Rival(x)' =>
              \A n \in Nat : Afforded(p, n) => Afforded(p, n + 1)'
<1>1. Spent(p) \subseteq Spent(p)'
  BY SettledKept DEF Spent
<1>2. Cardinality(Spent(p)) <= Cardinality(Spent(p)')
  BY <1>1, SpentSize, FS_Subset
<1>3. ASSUME NEW x \in Posters \ {p}, Rival(x), ~Rival(x)'
      PROVE  Cardinality(Spent(p)) + 1 <= Cardinality(Spent(p)')
  <2>1. x \notin Spent(p) /\ Spent(p) \cup {x} \subseteq Spent(p)'
    BY <1>1, <1>3 DEF Spent
  <2>2. Cardinality(Spent(p) \cup {x}) = Cardinality(Spent(p)) + 1
    BY <2>1, SpentSize, FS_AddElement
  <2>3. Cardinality(Spent(p) \cup {x}) <= Cardinality(Spent(p)')
    BY <2>1, SpentSize, FS_Subset
  <2>4. QED  BY <2>2, <2>3
<1>4. \A n \in Nat : Afforded(p, n) => Afforded(p, n)'
  BY <1>2, SpentSize DEF Afforded
<1>5. ASSUME NEW x \in Posters \ {p}, Rival(x), ~Rival(x)', NEW n \in Nat, Afforded(p, n)
      PROVE  Afforded(p, n + 1)'
  BY <1>3, <1>5, SpentSize DEF Afforded
<1>6. QED  BY <1>4, <1>5

(* Who brings the comment to rest has settled, or has failed. *)
LEMMA LastWriterSettles ==
  ASSUME TypeOK, TypeOK', AbsentKept, [Next]_vars, Restless, ~Restless'
  PROVE  \E r \in Posters : pc[r] = "put" /\ Rival(r) /\ ~Rival(r)'
<1> USE DEF TypeOK, Body
<1>1. PICK b \in Posters : pc[b] = "put" /\ copy[b] # comment
  BY DEF Restless
<1>2. ~(comment' = comment /\ copy'[b] = copy[b] /\ pc'[b] = "put")
  BY <1>1 DEF Restless
<1>3. ASSUME NEW r \in Posters, CreateResults(r) \/ GetComment(r) \/ Wake(r) PROVE FALSE
  <2>1. r # b /\ comment' = comment
    BY <1>1, <1>3 DEF CreateResults, GetComment, Wake
  <2>2. QED  BY <1>1, <1>2, <1>3, <2>1, OthersStay
<1>4. ASSUME NEW r \in Posters, UpdateComment(r) PROVE pc[r] = "put" /\ Rival(r) /\ ~Rival(r)'
  <2>1. pc[r] = "put" /\ comment'[r] = "link" /\ copy' = copy /\ copy[r][r] = "placeholder"
    BY <1>4 DEF UpdateComment, Edited, AbsentKept
  <2>2. \A q \in Posters : pc'[q] = "put" => copy[q][r] = "link"
    BY <2>1 DEF Restless
  <2>3. Settled(r)'
    BY <2>1, <2>2 DEF Settled, Threatens, Carries
  <2>4. QED  BY <2>1, <2>3, WriterIsRival DEF Rival
<1>5. ASSUME NEW r \in Posters, RequestFails(r) PROVE pc[r] = "put" /\ Rival(r) /\ ~Rival(r)'
  <2>1. pc'[r] = "failed"
    BY <1>5 DEF RequestFails
  <2>2. pc[r] = "put"
    <3>1. ASSUME pc[r] # "put" PROVE FALSE
      <4>1. r # b /\ comment' = comment
        BY <1>1, <1>5, <3>1 DEF RequestFails
      <4>2. QED  BY <1>1, <1>2, <1>5, <4>1, OthersStay
    <3>2. QED  BY <3>1
  <2>3. QED  BY <2>1, <2>2, WriterIsRival DEF Rival
<1>6. ASSUME Tick \/ UNCHANGED vars PROVE FALSE
  BY <1>1, <1>2, <1>6 DEF Tick, vars
<1>7. QED
  BY <1>3, <1>4, <1>5, <1>6 DEF Next, Step, Ended

(* From await to await. *)
LEMMA Moves ==
  ASSUME TypeOK, [Next]_vars, NEW p \in Posters
  PROVE  \/ pc'[p] = pc[p] /\ tries'[p] = tries[p]
         \/ pc[p] = "create" /\ pc'[p] = "get" /\ tries'[p] = tries[p]
         \/ pc[p] = "get" /\ comment[p] = "placeholder" /\ pc'[p] = "put" /\ tries'[p] = tries[p]
         \/ UpdateComment(p) /\ pc'[p] = "sleep"
         \/ Wake(p)
         \/ pc'[p] \in {"done", "failed"}
<1> USE DEF TypeOK
<1>1. ASSUME NEW r \in Posters \ {p}, Step(r) \/ RequestFails(r) PROVE pc'[p] = pc[p] /\ tries'[p] = tries[p]
  <2>1. CreateResults(r) \/ GetComment(r) \/ UpdateComment(r) \/ Wake(r) \/ RequestFails(r)
    BY <1>1 DEF Step
  <2>2. pc'[p] = pc[p]
    BY <2>1, OthersStay
  <2>3. tries'[p] = tries[p]
    BY <2>1 DEF CreateResults, GetComment, UpdateComment, Wake, RequestFails
  <2>4. QED  BY <2>2, <2>3
<1>2. CASE CreateResults(p)
  BY <1>2 DEF CreateResults
<1>3. CASE GetComment(p)
  BY <1>3 DEF GetComment, Verified
<1>4. CASE UpdateComment(p)
  BY <1>4 DEF UpdateComment
<1>5. CASE RequestFails(p)
  BY <1>5 DEF RequestFails
<1>6. CASE Tick \/ UNCHANGED vars
  BY <1>6 DEF Tick, vars
<1>7. QED
  BY <1>1, <1>2, <1>3, <1>4, <1>5, <1>6 DEF Next, Step, Ended

LEMMA ManyTriesInit == Init => ManyTriesInv
<1>1. Init => TypeOK /\ PutYoung /\ AbsentKept /\ NotYetLinked
  BY ManyInit DEF ManyInv
<1>2. Init => CountInv /\ TriesSuffice
  BY DEF Init, CountInv, TriesSuffice
<1>3. QED  BY <1>1, <1>2 DEF ManyTriesInv

(* When p wakes, the comment has come to rest since p's write. *)
LEMMA WokenAtRest ==
  ASSUME LongDelay, ManyTriesInv, NEW p \in Posters, Wake(p)
  PROVE  Settled(p) \/ Afforded(p, tries[p] + 1)
<1> USE PostAssumption DEF ManyTriesInv
<1>1. pc[p] = "sleep" /\ age[p] >= RetryDelay /\ age[p] \in Nat
  BY DEF Wake, Rested, TypeOK
<1>2. ASSUME Restless, Relay(p) PROVE FALSE
  <2>1. PICK b \in Posters : pc[b] = "put"
    BY <1>2 DEF Restless
  <2>2. age[p] < RetryDelay
    BY <1>1, <1>2, <2>1, RelayIsShort
  <2>3. QED  BY <1>1, <2>2
<1>3. QED  BY <1>1, <1>2 DEF CountInv

LEMMA CountNext ==
  ASSUME LongDelay, ManyTriesInv, TypeOK', [Next]_vars
  PROVE  CountInv'
<1> USE PostAssumption DEF ManyTriesInv
<1> SUFFICES ASSUME NEW p \in Posters
    PROVE  /\ pc'[p] = "create" => tries'[p] = 0
           /\ pc'[p] = "get" => Settled(p)' \/ Afforded(p, tries[p])'
           /\ pc'[p] = "put" => Afforded(p, tries[p])'
           /\ pc'[p] = "sleep" =>
                /\ Afforded(p, tries[p])'
                /\ Settled(p)' \/ Afforded(p, tries[p] + 1)' \/ (Restless /\ Relay(p))'
  BY DEF CountInv
<1>1. tries[p] \in Nat /\ tries'[p] \in Nat
  BY DEF TypeOK
<1>2. \A n \in Nat : Afforded(p, n) => Afforded(p, n)'
  BY SpentGrows DEF LongDelay
<1>3. Settled(p) => Settled(p)'
  BY SettledKept
<1>4. tries'[p] = tries[p] =>
        /\ Afforded(p, tries[p]) => Afforded(p, tries[p])'
        /\ Afforded(p, tries[p] + 1) => Afforded(p, tries[p] + 1)'
  BY <1>1, <1>2 DEF Afforded
<1>5. CASE pc'[p] = pc[p] /\ tries'[p] = tries[p]
  <2>1. ASSUME pc[p] = "sleep", Restless, Relay(p)
        PROVE  Afforded(p, tries[p] + 1)' \/ (Restless /\ Relay(p))'
    <3>1. CASE Restless'
      <4>1. PICK a \in Posters : pc[a] = "put"
        BY <2>1 DEF Restless
      <4>2. QED  BY <1>5, <2>1, <3>1, <4>1, RelayKept
    <3>2. CASE ~Restless'
      <4>1. PICK r \in Posters : pc[r] = "put" /\ Rival(r) /\ ~Rival(r)'
        BY <2>1, <3>2, LastWriterSettles
      <4>2. r \in Posters \ {p}
        BY <2>1, <4>1
      <4>3. \A n \in Nat : Afforded(p, n) => Afforded(p, n + 1)'
        BY <4>1, <4>2, SpentGrows DEF LongDelay
      <4>4. Afforded(p, tries[p])
        BY <2>1 DEF CountInv
      <4>5. QED  BY <1>1, <1>5, <4>3, <4>4 DEF Afforded
    <3>3. QED  BY <3>1, <3>2
  <2>2. QED  BY <1>3, <1>4, <1>5, <2>1 DEF CountInv
<1>6. CASE pc[p] = "create" /\ pc'[p] = "get" /\ tries'[p] = tries[p]
  <2>1. tries'[p] = 0
    BY <1>6 DEF CountInv
  <2>2. Cardinality(Spent(p)') \in Nat
    BY SpentSize DEF LongDelay
  <2>3. QED  BY <1>6, <2>1, <2>2 DEF Afforded
<1>7. CASE pc[p] = "get" /\ comment[p] = "placeholder" /\ pc'[p] = "put" /\ tries'[p] = tries[p]
  BY <1>4, <1>7 DEF CountInv, Settled
<1>8. CASE UpdateComment(p) /\ pc'[p] = "sleep"
  <2>1. /\ pc[p] = "put" /\ comment' = Edited(p) /\ copy' = copy /\ tries' = tries
        /\ comment'[p] = "link"
    BY <1>8 DEF UpdateComment, Edited, TypeOK, Body
  <2>2. age'[p] = 0
    BY <1>8, <2>1, SleepBegins
  <2>3. Relay(p)'
    BY <2>2, RelayBegins
  <2>4. Settled(p)' \/ Restless'
    <3>1. ASSUME ~Settled(p)' PROVE Restless'
      <4>1. PICK q \in Posters : pc'[q] = "put" /\ copy'[q][p] = "placeholder"
        BY <2>1, <3>1 DEF Settled, Threatens, Carries
      <4>2. QED  BY <2>1, <4>1 DEF Restless
    <3>2. QED  BY <3>1
  <2>5. Afforded(p, tries[p])'
    BY <1>4, <2>1 DEF CountInv
  <2>6. QED  BY <1>8, <2>3, <2>4, <2>5
<1>9. CASE Wake(p)
  <2>1. Settled(p) \/ Afforded(p, tries[p] + 1)
    BY <1>9, WokenAtRest
  <2>2. tries'[p] = tries[p] + 1 /\ pc'[p] \in {"gaveUp", "get"}
    BY <1>9 DEF Wake, TypeOK
  <2>3. Settled(p)' \/ Afforded(p, tries[p])'
    BY <1>1, <1>2, <1>3, <2>1, <2>2 DEF Afforded
  <2>4. QED  BY <2>2, <2>3
<1>10. CASE pc'[p] \in {"done", "failed"}
  BY <1>10
<1>11. QED
  BY <1>5, <1>6, <1>7, <1>8, <1>9, <1>10, Moves

LEMMA ManyTriesNext ==
  ASSUME LongDelay, MaxTries > Cardinality(Posters), ManyTriesInv, TypeOK', [Next]_vars
  PROVE  ManyTriesInv'
<1>1. PutYoung' /\ AbsentKept' /\ NotYetLinked'
  BY ManySimple DEF ManyTriesInv
<1>2. CountInv'
  BY CountNext
<1>3. TriesSuffice'
  <2> SUFFICES ASSUME NEW p \in Posters, pc'[p] = "gaveUp" PROVE FALSE
    BY DEF TriesSuffice
  <2>1. pc[p] # "gaveUp"
    BY DEF ManyTriesInv, TriesSuffice
  <2>2. Wake(p)
    BY <2>1, Moves DEF ManyTriesInv
  <2>3. pc[p] = "sleep" /\ tries[p] + 1 = MaxTries
    BY <2>2 DEF Wake, OutOfTries, ManyTriesInv, TypeOK
  <2>4. tries[p] <= Cardinality(Spent(p)) /\ tries[p] \in Nat
    BY <2>3 DEF ManyTriesInv, CountInv, Afforded, TypeOK
  <2>5. Cardinality(Spent(p)) + 1 <= Cardinality(Posters) /\ Cardinality(Spent(p)) \in Nat
        /\ Cardinality(Posters) \in Nat
    BY SpentSize DEF LongDelay
  <2>6. QED  BY <2>3, <2>4, <2>5
<1>4. QED  BY <1>1, <1>2, <1>3 DEF ManyTriesInv

(* With the long delay one try more than there are posters is enough: the five *)
(* of postPerfResult.ts:66-99 are for up to four.                              *)
THEOREM TriesAreEnoughForMany ==
  ASSUME LongDelay, MaxTries > Cardinality(Posters)
  PROVE  Spec => []TriesSuffice
<1>1. ManyTriesInv /\ TypeOK' /\ [Next]_vars => ManyTriesInv'
  BY ManyTriesNext
<1>2. ManyTriesInv => TriesSuffice
  BY DEF ManyTriesInv
<1>3. QED
  BY <1>1, <1>2, ManyTriesInit, TypeCorrect, PTL DEF Spec
=============================================================================
