----------------------------- MODULE ResultFile -----------------------------
(***************************************************************************)
(* What the program of GetDataAndPrintDataUsingCurl promises the reader of *)
(* its result file: the rounds appear in order, each as the body of the    *)
(* answer the server gave in that round, if it had code 200 and nothing    *)
(* failed, and then at most one separator.  The body is whole if a DWORD   *)
(* can count it; of a longer one only the remainder is there.              *)
(*                                                                         *)
(* Requests, buffers, handles and contexts are invisible here.  The        *)
(* program may stop at any point, and what is in the file then stays.      *)
(***************************************************************************)
EXTENDS Integers, Sequences

CONSTANTS Responses,     \* the bodies a server may send: sequences of bytes
          Dword,         \* how many values a DWORD has
          Separator,     \* what is written at the end of a round
          Rounds         \* how many rounds there are

VARIABLES file,          \* contents of the result file
          round,         \* rounds completed
          phase,         \* of the round in progress: "before" any answer, "answered",
                         \*   "saved" or "over" without being saved; or "stopped"
          response,      \* the body of the last answer,
          status         \*   and whether its code is 200

vars == <<file, round, phase, response, status>>

Init ==
    /\ file = <<>>
    /\ round = 0
    /\ phase = "before"
    /\ response = <<>> /\ status = "other"

\* The server settles on an answer, once in a round.
Answer ==
    /\ phase = "before"
    /\ round < Rounds
    /\ phase' = "answered"
    /\ response' \in Responses
    /\ status' \in {"200", "other"}
    /\ UNCHANGED <<file, round>>

\* The answer of this round reaches the file, all of it at once.
Save ==
    /\ phase = "answered"
    /\ status = "200"
    /\ file' = file \o SubSeq(response, 1, Len(response) % Dword)
    /\ phase' = "saved"
    /\ UNCHANGED <<round, response, status>>

\* Something fails or the code is not 200: the file stays as it is.
GiveUp ==
    /\ phase \in {"before", "answered"}
    /\ round < Rounds
    /\ phase' = "over"
    /\ UNCHANGED <<file, round, response, status>>

EndRound ==
    /\ phase \in {"saved", "over"}
    /\ round' = round + 1
    /\ phase' = "before"
    /\ file' \in {file, Append(file, Separator)}
    /\ UNCHANGED <<response, status>>

Stop ==
    /\ phase' = "stopped"
    /\ UNCHANGED <<file, round, response, status>>

Next == Answer \/ Save \/ GiveUp \/ EndRound \/ Stop

Spec == Init /\ [][Next]_vars

=============================================================================
