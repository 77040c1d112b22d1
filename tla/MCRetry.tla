------------------------------- MODULE MCRetry --------------------------------
(***************************************************************************)
(* Values for model checking Retry: two callers behind the breaker, one of *)
(* them without a limit on attempts, and one caller without the breaker.   *)
(***************************************************************************)
EXTENDS Retry

CONSTANTS limited, unlimited, direct

MCMaxAttempts ==
  [c \in Callers |-> IF c = limited THEN 2 ELSE IF c = direct THEN 3 ELSE 0]

Plain == [timeout |-> FALSE, context |-> FALSE, permanentText |-> FALSE,
          permanentCause |-> FALSE, openText |-> FALSE]

(***************************************************************************)
(* A transient and a permanent error, a timeout whose text looks           *)
(* permanent, and the error of another breaker.                            *)
(***************************************************************************)
MCErrors ==
  {Plain,
   [Plain EXCEPT !.permanentCause = TRUE],
   [Plain EXCEPT !.timeout = TRUE, !.permanentText = TRUE],
   [Plain EXCEPT !.openText = TRUE]}

=============================================================================
