---------------------------- MODULE HttpRequests ----------------------------
(***************************************************************************)
(* One HTTP request on its way through the middlewares of a microservice   *)
(* (fluence.ms.abstract/src/middlewares and its http.request.metric.service*)
(* ): it is counted, its timer is set, the client, project and session it  *)
(* comes with are attached, checks look at them, and a handler answers.    *)
(*                                                                         *)
(* The counting middleware replaces res.end, so that every call of it is   *)
(* counted by the status at that moment; the timer's callback counts as    *)
(* well, awaits, and only then calls res.end -- whatever the handler has   *)
(* done in the meantime.  The metric store and the handler are outside the *)
(* repository: the one may refuse to save, the other may never answer.     *)
(***************************************************************************)
EXTENDS Naturals, Sequences

VARIABLES
  mode,      \* the authentication middleware; chosen once
  stage,     \* how far the request is; "hung": next will never be called
  who,       \* what is attached: "unset" (undefined), "null" or "set"
  timer,     \* the timer of the request
  code,      \* the status the caller got, 0 before that
  tally,     \* what was counted for this request
  refused    \* history: the store did not save a metric of this request

vars == <<mode, stage, who, timer, code, tally, refused>>

Parts == {"client", "project", "session"}
Checks == <<"anonymous", "project", "path", "admin">>
Stages == {"idle", "counting", "attach", "handler", "ended", "hung"} \union {Checks[i] : i \in DOMAIN Checks}

TypeOK ==
  /\ mode \in {"header", "aws", "http"}
  /\ stage \in Stages
  /\ who \in [Parts -> {"unset", "null", "set"}]
  /\ timer \in {"off", "armed", "saving", "over"}
  /\ code \in {0, 200, 400, 401, 403, 408, 500}
  /\ tally \in [succeeded : Nat, failed : Nat, timedOut : Nat]
  /\ refused \in BOOLEAN

Nobody == [p \in Parts |-> "unset"]
NoTally == [succeeded |-> 0, failed |-> 0, timedOut |-> 0]

Init ==
  /\ mode \in {"header", "aws", "http"}
  /\ stage = "idle" /\ who = Nobody /\ timer = "off"
  /\ code = 0 /\ tally = NoTally /\ refused = FALSE

-----------------------------------------------------------------------------
(* RequestMetrics *)

Arrive ==
  /\ stage = "idle" /\ stage' = "counting"
  /\ UNCHANGED <<mode, who, timer, code, tally, refused>>

\* The incoming request is saved; then TimeoutMiddleware sets the timer.
CountIncoming ==
  /\ stage = "counting" /\ stage' = "attach" /\ timer' = "armed"
  /\ UNCHANGED <<mode, who, code, tally, refused>>

\* It is not saved: the middleware rejects, and next is never called.
CountingFails ==
  /\ stage = "counting" /\ stage' = "hung" /\ refused' = TRUE
  /\ UNCHANGED <<mode, who, timer, code, tally>>

\* Faulty variant: every answer is counted as a success.
EndUnlooked(before, status) ==
  /\ code' = IF code = 0 THEN status ELSE code
  /\ \/ tally' = [before EXCEPT !.succeeded = @ + 1] /\ UNCHANGED refused
     \/ tally' = before /\ refused' = TRUE

\* The replaced res.end, with "before" already counted: an error of the store
\* is logged.  A second call sends nothing, but counts.
End(before, status) ==
  /\ code' = IF code = 0 THEN status ELSE code
  /\ \/ /\ tally' = IF status >= 400 THEN [before EXCEPT !.failed = @ + 1]
                    ELSE [before EXCEPT !.succeeded = @ + 1]
        /\ UNCHANGED refused
     \/ tally' = before /\ refused' = TRUE

-----------------------------------------------------------------------------
(* TimeoutMiddleware *)

TimerFires ==
  /\ timer = "armed" /\ code = 0
  /\ timer' = "saving"
  /\ UNCHANGED <<mode, stage, who, code, tally, refused>>

TimedOut == [tally EXCEPT !.timedOut = @ + 1, !.failed = @ + 1]

\* Faulty variant: the metrics are awaited, the answer forgotten.
TimeoutUnanswered ==
  /\ timer = "saving" /\ timer' = "over"
  /\ tally' = TimedOut
  /\ UNCHANGED <<mode, stage, who, code, refused>>

\* Both metrics are saved, and 408 is sent, or counted only.
Timeout ==
  /\ timer = "saving" /\ timer' = "over"
  /\ End(TimedOut, 408)
  /\ UNCHANGED <<mode, stage, who>>

\* One of the two is refused: nothing is sent.
TimeoutFails ==
  /\ timer = "saving" /\ timer' = "over" /\ refused' = TRUE
  /\ \/ tally' = [tally EXCEPT !.timedOut = @ + 1]
     \/ tally' = [tally EXCEPT !.failed = @ + 1]
     \/ UNCHANGED tally
  /\ UNCHANGED <<mode, stage, who, code>>

-----------------------------------------------------------------------------
(* The authentication middlewares *)

\* A handler, or the error handler, answers; after a timeout has been
\* answered express throws before it would call res.end.
Respond(status) ==
  /\ stage' = "ended"
  /\ IF code = 0 THEN End(tally, status) ELSE UNCHANGED <<code, tally, refused>>
  /\ UNCHANGED <<mode, timer>>

Proceed(next) == stage' = next /\ UNCHANGED <<mode, timer, code, tally, refused>>

\* What is not JSON is forbidden, what is absent is null.
HeaderAuth ==
  /\ stage = "attach" /\ mode = "header"
  /\ \/ Respond(403) /\ UNCHANGED who
     \/ \E given \in SUBSET Parts :
          who' = [p \in Parts |-> IF p \in given THEN "set" ELSE "null"] /\ Proceed(Checks[1])

\* The context of the gateway; what is not JSON has none of the three.
AwsAuth ==
  /\ stage = "attach" /\ mode = "aws"
  /\ \E given \in SUBSET Parts :
       who' = [p \in Parts |-> IF p \in given THEN "set" ELSE "null"]
  /\ Proceed(Checks[1])

\* The policy of an authentication server, which denies, fails, or allows
\* with some of the three; the others are left as they were.
HttpAuth ==
  /\ stage = "attach" /\ mode = "http"
  /\ \/ \E status \in {403, 500} : Respond(status) /\ UNCHANGED who
     \/ \E given \in SUBSET Parts :
          who' = [p \in Parts |-> IF p \in given THEN "set" ELSE who[p]] /\ Proceed(Checks[1])

-----------------------------------------------------------------------------
(* The checks, each used by some routes and not by others *)

After(check) == CASE check = "anonymous" -> "project" [] check = "project" -> "path"
                  [] check = "path" -> "admin" [] check = "admin" -> "handler"

Unused ==
  /\ stage \in {"anonymous", "project", "path", "admin"}
  /\ Proceed(After(stage)) /\ UNCHANGED who

Anonymous ==
  /\ stage = "anonymous"
  /\ IF who["client"] = "null" \/ who["session"] = "null" THEN Respond(401) ELSE Proceed("project")
  /\ UNCHANGED who

ProjectRequired ==
  /\ stage = "project"
  /\ IF who["project"] = "null" THEN Respond(403) ELSE Proceed("path")
  /\ UNCHANGED who

\* The ids in the path are compared with what is attached, if anything is.
InvalidPathParams ==
  /\ stage = "path"
  /\ \/ "set" \in {who["client"], who["project"]} /\ Respond(400)
     \/ Proceed("admin")
  /\ UNCHANGED who

\* isAdmin of no client throws: express answers.
AdminAccess ==
  /\ stage = "admin"
  /\ IF who["client"] = "set" THEN Respond(403) \/ Proceed("handler") ELSE Respond(500)
  /\ UNCHANGED who

Handle ==
  /\ stage = "handler"
  /\ \E status \in {200, 400, 500} : Respond(status)
  /\ UNCHANGED who

\* The next request of the same kind.
Over ==
  /\ stage \in {"ended", "hung"} \/ code # 0
  /\ timer # "saving"
  /\ stage' = "idle" /\ who' = Nobody /\ timer' = "off"
  /\ code' = 0 /\ tally' = NoTally /\ refused' = FALSE
  /\ UNCHANGED mode

Middlewares ==
  \/ CountIncoming \/ CountingFails
  \/ HeaderAuth \/ AwsAuth \/ HttpAuth
  \/ Unused \/ Anonymous \/ ProjectRequired \/ InvalidPathParams \/ AdminAccess

Timer == TimerFires \/ Timeout \/ TimeoutFails

Next == Arrive \/ Middlewares \/ Timer \/ Handle \/ Over

\* The middlewares are run and the timer goes off; the handler need not answer.
Fairness == WF_vars(Middlewares) /\ WF_vars(Timer)

Spec == Init /\ [][Next]_vars /\ Fairness

-----------------------------------------------------------------------------
\* What is counted for a request agrees with what its caller was told, as far
\* as it can: without a timeout it is executed at most once, and as it was
\* answered; success is counted once and only for a request whose answer was
\* one; a timeout is counted once, and then at most three failures (the
\* timer's, the 408 and an answer of the handler in between).
CountsAgreeWithAnswers ==
  LET fired == timer \in {"saving", "over"} IN
  /\ tally.succeeded <= 1 /\ (tally.succeeded = 1 => code = 200)
  /\ ~fired => tally.succeeded + tally.failed <= 1 /\ tally.timedOut = 0
               /\ (tally.failed = 1 => code >= 400)
  /\ fired => tally.succeeded + tally.failed <= 3 /\ tally.timedOut <= 1
  /\ code = 408 => tally.timedOut = 1 /\ tally.succeeded = 0
  /\ code # 0 /\ ~refused /\ timer # "saving" =>
       tally.succeeded + tally.failed = IF ~fired THEN 1 ELSE IF stage = "ended" /\ code # 408 THEN 3 ELSE 2

\* Every request is answered, by a handler or by its timer, unless the store
\* refuses to save a metric of it.
EveryRequestIsAnswered == stage = "counting" ~> (code # 0 \/ refused)
=============================================================================
