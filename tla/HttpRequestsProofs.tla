------------------------- MODULE HttpRequestsProofs -------------------------
(***************************************************************************)
(* What is counted for a request agrees with what its caller was told, for *)
(* every order of the middlewares, the handler and the timer.              *)
(*                                                                         *)
(* CountsAgreeWithAnswers speaks of what has been counted; it says nothing *)
(* of what is still to come, and a handler may answer while the timer is   *)
(* saving its metrics.  The invariant therefore says, for each state of    *)
(* the timer, how much each stage of the request has counted so far.       *)
(***************************************************************************)
EXTENDS HttpRequests, TLAPS

Codes == {0, 200, 400, 401, 403, 408, 500}

\* Before the timer is set nothing is counted and nobody is answered.
BeforeTimer ==
  /\ timer = "off" <=> stage \in {"idle", "counting", "hung"}
  /\ timer = "off" => code = 0 /\ tally = NoTally /\ (refused = TRUE => stage = "hung")

\* Until the timer's metrics are saved only an answer counts.
BeforeTimeout ==
  timer \in {"armed", "saving"} =>
    /\ tally.timedOut = 0
    /\ stage # "ended" =>
         /\ code = 0
         /\ refused = FALSE
         /\ tally.succeeded = 0
         /\ tally.failed = 0
    /\ stage = "ended" =>
         /\ code \in Codes \ {0, 408}
         /\ tally.succeeded + tally.failed <= 1
         /\ tally.succeeded = 1 => code = 200
         /\ tally.failed = 1 => code >= 400
         /\ refused = FALSE => tally.succeeded + tally.failed = 1

\* Afterwards: the timer's failure, that of the 408, and one of a handler
\* that answered in between.
AfterTimeout ==
  timer = "over" =>
    /\ tally.timedOut <= 1
    /\ tally.succeeded + tally.failed <= 3
    /\ tally.succeeded <= 1
    /\ tally.succeeded = 1 => code = 200
    /\ code = 0 => refused = TRUE /\ stage # "ended" /\ tally.succeeded = 0 /\ tally.failed <= 1
    /\ code = 408 => /\ tally.timedOut = 1
                     /\ tally.succeeded = 0
                     /\ refused = FALSE => tally.failed = 2
    /\ code \notin {0, 408} => /\ stage = "ended"
                               /\ refused = FALSE => tally.succeeded + tally.failed = 3

IInv == TypeOK /\ BeforeTimer /\ BeforeTimeout /\ AfterTimeout

-----------------------------------------------------------------------------
(* The replaced res.end *)

\* The caller is answered unless it has been, and at most one success or
\* failure is counted more, as the status says.
Counted(before, status) ==
  /\ code' \in Codes
  /\ code' = IF code = 0 THEN status ELSE code
  /\ tally' \in [succeeded : Nat, failed : Nat, timedOut : Nat]
  /\ tally'.timedOut = before.timedOut
  /\ refused' \in BOOLEAN
  /\ \/ /\ tally'.succeeded = before.succeeded
        /\ tally'.failed = before.failed
        /\ refused' = TRUE
     \/ /\ status >= 400
        /\ tally'.succeeded = before.succeeded
        /\ tally'.failed = before.failed + 1
        /\ refused' = refused
     \/ /\ status = 200
        /\ tally'.succeeded = before.succeeded + 1
        /\ tally'.failed = before.failed
        /\ refused' = refused

LEMMA EndCounts ==
  ASSUME NEW before \in [succeeded : Nat, failed : Nat, timedOut : Nat],
         NEW status \in Codes \ {0}, TypeOK, End(before, status)
  PROVE  Counted(before, status)
<1> USE DEF Counted
<1>1. code' \in Codes /\ code' = IF code = 0 THEN status ELSE code
  BY DEF End, TypeOK, Codes
<1>2. CASE tally' = before /\ refused' = TRUE
  BY <1>1, <1>2
<1>3. CASE /\ tally' = IF status >= 400 THEN [before EXCEPT !.failed = @ + 1]
                       ELSE [before EXCEPT !.succeeded = @ + 1]
           /\ UNCHANGED refused
  <2>1. refused' \in BOOLEAN /\ refused' = refused
    BY <1>3 DEF TypeOK
  <2>2. CASE status >= 400
    BY <1>1, <1>3, <2>1, <2>2
  <2>3. CASE ~(status >= 400)
    <3>1. status = 200
      BY <2>3 DEF Codes
    <3> QED BY <1>1, <1>3, <2>1, <2>3, <3>1
  <2> QED BY <2>2, <2>3
<1> QED BY <1>2, <1>3 DEF End

-----------------------------------------------------------------------------
(* The steps of a request *)

\* A middleware that only goes on disturbs nothing, once the timer is set.
LEMMA ProceedKeepsIInv ==
  ASSUME IInv, stage \in {"attach", "anonymous", "project", "path", "admin"},
         NEW next \in {"anonymous", "project", "path", "admin", "handler"}, Proceed(next),
         who' \in [Parts -> {"unset", "null", "set"}]
  PROVE  IInv'
<1>1. TypeOK'
  BY DEF IInv, TypeOK, Proceed, Stages, Checks
<1>2. BeforeTimer'
  BY DEF IInv, BeforeTimer, Proceed
<1>3. BeforeTimeout'
  BY DEF IInv, BeforeTimeout, Proceed
<1>4. AfterTimeout'
  BY DEF IInv, AfterTimeout, Proceed
<1> QED BY <1>1, <1>2, <1>3, <1>4 DEF IInv

\* An answer is the only one before the timeout, and after one it is heard
\* only if the timer's metrics were refused.
LEMMA RespondKeepsIInv ==
  ASSUME IInv, stage \in {"attach", "anonymous", "project", "path", "admin", "handler"},
         NEW status \in Codes \ {0, 408}, Respond(status),
         who' \in [Parts -> {"unset", "null", "set"}]
  PROVE  IInv'
<1> USE DEF IInv
<1>1. CASE code = 0
  <2>0. End(tally, status) /\ stage' = "ended" /\ UNCHANGED <<mode, timer>>
    BY <1>1 DEF Respond
  <2>1. /\ tally \in [succeeded : Nat, failed : Nat, timedOut : Nat]
        /\ status \in Codes \ {0}
        /\ TypeOK
        /\ End(tally, status)
    BY <2>0 DEF TypeOK
  <2>2. Counted(tally, status)
    <3> HIDE DEF IInv
    <3> QED BY <2>1, EndCounts
  <2>c. code' = status
    BY <1>1, <2>2 DEF Counted
  <2>3. TypeOK'
    BY <2>0, <2>c, <2>2 DEF Counted, TypeOK, Stages, Codes
  <2>4. BeforeTimer'
    BY <2>0 DEF BeforeTimer
  <2>5. BeforeTimeout'
    BY <1>1, <2>0, <2>1, <2>2, <2>c DEF Counted, BeforeTimeout, Codes, TypeOK
  <2>6. AfterTimeout'
    <3>1. CASE timer = "over"
      <4>1. /\ refused = TRUE /\ tally.succeeded = 0 /\ tally.failed <= 1 /\ tally.timedOut <= 1
            /\ tally.failed \in Nat /\ tally.timedOut \in Nat
        BY <1>1, <2>1, <3>1 DEF AfterTimeout
      <4>2. /\ refused' = TRUE /\ tally'.succeeded <= 1 /\ tally'.timedOut <= 1
            /\ tally'.succeeded + tally'.failed <= 3
            /\ tally'.succeeded = 1 => code' = 200
        <5>1. refused' = TRUE
          BY <2>2, <4>1 DEF Counted
        <5>2. tally'.succeeded \in Nat /\ tally'.failed \in Nat /\ tally'.timedOut = tally.timedOut
          BY <2>2 DEF Counted
        <5>3. \/ tally'.succeeded = 0 /\ tally'.failed <= 2
              \/ tally'.succeeded = 1 /\ tally'.failed <= 1 /\ status = 200
          <6>1. CASE tally'.succeeded = tally.succeeded /\ tally'.failed = tally.failed
            BY <4>1, <6>1
          <6>2. CASE tally'.succeeded = tally.succeeded /\ tally'.failed = tally.failed + 1
            BY <4>1, <6>2
          <6>3. CASE status = 200 /\ tally'.succeeded = tally.succeeded + 1 /\ tally'.failed = tally.failed
            BY <4>1, <6>3
          <6> QED BY <2>2, <6>1, <6>2, <6>3 DEF Counted
        <5> QED BY <2>c, <4>1, <5>1, <5>2, <5>3
      <4>3. code' \notin {0, 408} /\ stage' = "ended"
        BY <2>0, <2>c
      <4> QED BY <4>2, <4>3 DEF AfterTimeout
    <3>2. CASE timer # "over"
      BY <2>0, <3>2 DEF AfterTimeout
    <3> QED BY <3>1, <3>2
  <2> QED BY <2>3, <2>4, <2>5, <2>6
<1>2. CASE code # 0
  <2>0. stage' = "ended" /\ UNCHANGED <<mode, timer, code, tally, refused>>
    BY <1>2 DEF Respond
  <2>1. timer = "over"
    BY <1>2 DEF BeforeTimer, BeforeTimeout, TypeOK
  <2>2. TypeOK'
    BY <2>0 DEF TypeOK, Stages
  <2>3. BeforeTimer' /\ BeforeTimeout'
    BY <2>0, <2>1 DEF BeforeTimer, BeforeTimeout
  <2>4. AfterTimeout'
    BY <1>2, <2>0, <2>1 DEF AfterTimeout
  <2> QED BY <2>2, <2>3, <2>4
<1> QED BY <1>1, <1>2

\* Every middleware, and the handler, goes on or answers.
LEMMA MiddlewaresKeepIInv ==
  ASSUME IInv, Middlewares \/ Handle
  PROVE  IInv'
<1> USE DEF IInv
<1>0. who \in [Parts -> {"unset", "null", "set"}]
  BY DEF TypeOK
<1>1. CASE CountIncoming
  <2>1. TypeOK'
    BY <1>1 DEF CountIncoming, TypeOK, Stages
  <2>2. timer = "off" /\ code = 0 /\ tally = NoTally /\ refused = FALSE
    BY <1>1 DEF CountIncoming, BeforeTimer, TypeOK
  <2> QED BY <1>1, <2>1, <2>2 DEF CountIncoming, BeforeTimer, BeforeTimeout, AfterTimeout, NoTally
<1>2. CASE CountingFails
  <2>1. TypeOK'
    BY <1>2 DEF CountingFails, TypeOK, Stages
  <2> QED BY <1>2, <2>1 DEF CountingFails, BeforeTimer, BeforeTimeout, AfterTimeout
<1>3. CASE HeaderAuth
  <2>1. stage = "attach"
    BY <1>3 DEF HeaderAuth
  <2>2. CASE Respond(403) /\ UNCHANGED who
    BY <1>0, <2>1, <2>2, RespondKeepsIInv DEF Codes
  <2>3. CASE \E given \in SUBSET Parts :
               who' = [p \in Parts |-> IF p \in given THEN "set" ELSE "null"] /\ Proceed(Checks[1])
    BY <2>1, <2>3, ProceedKeepsIInv DEF Checks
  <2> QED BY <1>3, <2>2, <2>3 DEF HeaderAuth
<1>4. CASE AwsAuth
  BY <1>4, ProceedKeepsIInv DEF AwsAuth, Checks
<1>5. CASE HttpAuth
  <2>1. stage = "attach"
    BY <1>5 DEF HttpAuth
  <2>2. CASE \E status \in {403, 500} : Respond(status) /\ UNCHANGED who
    BY <1>0, <2>1, <2>2, RespondKeepsIInv DEF Codes
  <2>3. CASE \E given \in SUBSET Parts :
               who' = [p \in Parts |-> IF p \in given THEN "set" ELSE who[p]] /\ Proceed(Checks[1])
    BY <1>0, <2>1, <2>3, ProceedKeepsIInv DEF Checks
  <2> QED BY <1>5, <2>2, <2>3 DEF HttpAuth
<1>6. CASE Unused
  <2>1. After(stage) \in {"anonymous", "project", "path", "admin", "handler"}
    BY <1>6 DEF Unused, After
  <2> QED BY <1>0, <1>6, <2>1, ProceedKeepsIInv DEF Unused
<1>7. CASE Anonymous
  BY <1>0, <1>7, RespondKeepsIInv, ProceedKeepsIInv DEF Anonymous, Codes
<1>8. CASE ProjectRequired
  BY <1>0, <1>8, RespondKeepsIInv, ProceedKeepsIInv DEF ProjectRequired, Codes
<1>9. CASE InvalidPathParams
  BY <1>0, <1>9, RespondKeepsIInv, ProceedKeepsIInv DEF InvalidPathParams, Codes
<1>10. CASE AdminAccess
  BY <1>0, <1>10, RespondKeepsIInv, ProceedKeepsIInv DEF AdminAccess, Codes
<1>11. CASE Handle
  BY <1>0, <1>11, RespondKeepsIInv DEF Handle, Codes
<1> QED BY <1>1, <1>2, <1>3, <1>4, <1>5, <1>6, <1>7, <1>8, <1>9, <1>10, <1>11 DEF Middlewares

\* The timer counts its two metrics, and the 408 if that is sent.
LEMMA TimerKeepsIInv ==
  ASSUME IInv, Timer
  PROVE  IInv'
<1> USE DEF IInv
<1>0. /\ tally \in [succeeded : Nat, failed : Nat, timedOut : Nat]
      /\ refused \in BOOLEAN
  BY DEF TypeOK
<1>1. CASE TimerFires
  <2>1. TypeOK'
    BY <1>1 DEF TimerFires, TypeOK
  <2> QED BY <1>1, <2>1 DEF TimerFires, BeforeTimer, BeforeTimeout, AfterTimeout
<1>2. CASE Timeout
  <2>1. /\ TimedOut \in [succeeded : Nat, failed : Nat, timedOut : Nat]
        /\ TimedOut.succeeded = tally.succeeded
        /\ TimedOut.failed = tally.failed + 1
        /\ TimedOut.timedOut = tally.timedOut + 1
    <3>1. /\ tally.succeeded \in Nat /\ tally.failed \in Nat /\ tally.timedOut \in Nat
      BY <1>0
    <3>2. TimedOut = [succeeded |-> tally.succeeded, failed |-> tally.failed + 1,
                      timedOut |-> tally.timedOut + 1]
      <4>1. [tally EXCEPT !.timedOut = @ + 1] =
              [succeeded |-> tally.succeeded, failed |-> tally.failed, timedOut |-> tally.timedOut + 1]
        BY <1>0
      <4>2. TimedOut = [[tally EXCEPT !.timedOut = @ + 1] EXCEPT !.failed = tally.failed + 1]
        BY DEF TimedOut
      <4> QED BY <4>1, <4>2
    <3> QED BY <3>1, <3>2
  <2>2. /\ code' = IF code = 0 THEN 408 ELSE code
        /\ code' \in Codes
        /\ tally' \in [succeeded : Nat, failed : Nat, timedOut : Nat]
        /\ tally'.timedOut = TimedOut.timedOut
        /\ refused' \in BOOLEAN
        /\ tally'.succeeded = TimedOut.succeeded
        /\ \/ /\ tally'.failed = TimedOut.failed
              /\ refused' = TRUE
           \/ /\ tally'.failed = TimedOut.failed + 1
              /\ refused' = refused
    <3> HIDE DEF IInv
    <3>0. TypeOK /\ End(TimedOut, 408) /\ 408 \in Codes \ {0} /\ 408 # 200
      BY <1>2 DEF Timeout, Codes, IInv
    <3>1. Counted(TimedOut, 408)
      BY <2>1, <3>0, EndCounts
    <3> QED BY <3>0, <3>1 DEF Counted
  <2>3. timer = "saving" /\ timer' = "over" /\ UNCHANGED <<mode, stage, who>>
    BY <1>2 DEF Timeout
  <2>4. TypeOK'
    BY <2>2, <2>3 DEF TypeOK, Codes
  <2>5. BeforeTimer' /\ BeforeTimeout'
    BY <2>3 DEF BeforeTimer, BeforeTimeout
  <2>6. AfterTimeout'
    <3> HIDE DEF TimedOut
    <3>1. CASE stage = "ended"
      BY <1>0, <2>1, <2>2, <2>3, <3>1 DEF BeforeTimeout, AfterTimeout, Codes
    <3>2. CASE stage # "ended"
      BY <1>0, <2>1, <2>2, <2>3, <3>2 DEF BeforeTimeout, AfterTimeout, Codes
    <3> QED BY <3>1, <3>2
  <2> QED BY <2>4, <2>5, <2>6
<1>3. CASE TimeoutFails
  <2>1. /\ timer = "saving" /\ timer' = "over" /\ refused' = TRUE
        /\ UNCHANGED <<mode, stage, who, code>>
    BY <1>3 DEF TimeoutFails
  <2>2. /\ tally' \in [succeeded : Nat, failed : Nat, timedOut : Nat]
        /\ tally'.succeeded = tally.succeeded
        /\ tally'.failed \in {tally.failed, tally.failed + 1}
        /\ tally'.timedOut \in {tally.timedOut, tally.timedOut + 1}
    BY <1>0, <1>3 DEF TimeoutFails
  <2>3. TypeOK'
    BY <2>1, <2>2 DEF TypeOK
  <2>4. BeforeTimer' /\ BeforeTimeout'
    BY <2>1 DEF BeforeTimer, BeforeTimeout
  <2>5. AfterTimeout'
    BY <1>0, <2>1, <2>2 DEF BeforeTimeout, AfterTimeout, Codes
  <2> QED BY <2>3, <2>4, <2>5
<1> QED BY <1>1, <1>2, <1>3 DEF Timer

-----------------------------------------------------------------------------
LEMMA InitIInv == Init => IInv
<1> SUFFICES ASSUME Init PROVE IInv
  OBVIOUS
<1>1. TypeOK
  BY DEF Init, TypeOK, Stages, Nobody, NoTally
<1> QED BY <1>1 DEF Init, IInv, BeforeTimer, BeforeTimeout, AfterTimeout

LEMMA NextKeepsIInv == IInv /\ [Next]_vars => IInv'
<1> SUFFICES ASSUME IInv, [Next]_vars PROVE IInv'
  OBVIOUS
<1>1. CASE Arrive
  <2>1. TypeOK'
    BY <1>1 DEF IInv, Arrive, TypeOK, Stages
  <2> QED BY <1>1, <2>1 DEF IInv, Arrive, BeforeTimer, BeforeTimeout, AfterTimeout
<1>2. CASE Middlewares \/ Handle
  BY <1>2, MiddlewaresKeepIInv
<1>3. CASE Timer
  BY <1>3, TimerKeepsIInv
<1>4. CASE Over
  <2>1. TypeOK'
    BY <1>4 DEF IInv, Over, TypeOK, Stages, Nobody, NoTally
  <2> QED BY <1>4, <2>1 DEF IInv, Over, BeforeTimer, BeforeTimeout, AfterTimeout
<1>5. CASE UNCHANGED vars
  BY <1>5 DEF IInv, TypeOK, BeforeTimer, BeforeTimeout, AfterTimeout, vars
<1> QED BY <1>1, <1>2, <1>3, <1>4, <1>5 DEF Next

LEMMA IInvCounts == IInv => CountsAgreeWithAnswers
<1> SUFFICES ASSUME IInv PROVE CountsAgreeWithAnswers
  OBVIOUS
<1>0. /\ tally \in [succeeded : Nat, failed : Nat, timedOut : Nat]
      /\ refused \in BOOLEAN
      /\ timer \in {"off", "armed", "saving", "over"}
  BY DEF IInv, TypeOK
<1>1. CASE timer = "off"
  BY <1>0, <1>1 DEF IInv, BeforeTimer, CountsAgreeWithAnswers, NoTally
<1>2. CASE timer \in {"armed", "saving"}
  BY <1>0, <1>2 DEF IInv, BeforeTimeout, CountsAgreeWithAnswers, Codes
<1>3. CASE timer = "over"
  BY <1>0, <1>3 DEF IInv, AfterTimeout, CountsAgreeWithAnswers
<1> QED BY <1>0, <1>1, <1>2, <1>3

\* A request keeps its types through the middlewares, the handler and the
\* timer.
THEOREM TypeCorrect == Spec => []TypeOK
<1>1. IInv => TypeOK
  BY DEF IInv
<1> QED BY <1>1, InitIInv, NextKeepsIInv, PTL DEF Spec

\* What is counted for a request agrees with what its caller was told, in
\* whatever order the handler answers, the timer goes off and the store
\* refuses: res.end counts again on every call (request.metrics.ts).
THEOREM CountsAgree == Spec => []CountsAgreeWithAnswers
BY IInvCounts, InitIInv, NextKeepsIInv, PTL DEF Spec
=============================================================================
