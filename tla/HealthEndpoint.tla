--------------------------- MODULE HealthEndpoint ---------------------------
(***************************************************************************)
(* One connection to the health endpoint, from the reads its handler makes *)
(* of what the client sent to the answer.  Bytes are "CR", "LF", " " and   *)
(* tokens that stand for the words of a request.                           *)
(***************************************************************************)
EXTENDS Naturals, Sequences, SequencesExt

CONSTANTS
  Limit,      \* so many bytes are answered without a blank line: 8192
  Buffer      \* the most bytes of one read: 1024

ASSUME HealthEndpointAssumption == Limit \in Nat /\ Buffer \in Nat \ {0}

BlankLine == <<"CR", "LF", "CR", "LF">>

\* Mutant: the blank line is looked for in what was just read.
EndsInRead(request, read) == BlankLine \in SubSeqs(read) \/ Len(request) >= Limit

EndsHeader(request, read) == BlankLine \in SubSeqs(request) \/ Len(request) >= Limit

\* The reads stop with the header; what came with its last bytes is kept.
Received(reads) ==
  FoldLeft(LAMBDA r, read :
             IF r.ended THEN r
             ELSE [request |-> r.request \o read, ended |-> EndsHeader(r.request \o read, read)],
           [request |-> <<>>, ended |-> FALSE], reads)

\* The first line, and its words: the last one may be empty.
RequestLine(request) ==
  LET feed == SelectInSeq(request, LAMBDA c : c = "LF")
  IN  IF feed = 0 THEN request ELSE SubSeq(request, 1, feed - 1)

Words(line) ==
  FoldLeft(LAMBDA words, c :
             IF c \notin {" ", "CR"} THEN [words EXCEPT ![Len(words)] = Append(@, c)]
             ELSE IF Last(words) = <<>> THEN words ELSE Append(words, <<>>),
           <<<<>>>>, line)

\* HealthResponse::from_state.
from_state(state) ==
  [status |-> state.status, ready |-> state.status = "ready", reason |-> state.reason]

\* The answer, if there is one: a client that closes before its header has
\* ended gets none.
handle_connection(reads, state, metrics) ==
  LET received == Received(reads)
      words    == Words(RequestLine(received.request)) \o <<<<>>>>
      response == from_state(state)
  IN  CASE ~received.ended -> {}
        [] OTHER ->
             {CASE words[1] = <<"GET">> /\ words[2] = <<"/health">> ->
                     [code |-> IF response.ready THEN 200 ELSE 503, body |-> response]
                [] words[1] = <<"GET">> /\ words[2] = <<"/metrics">> /\ metrics # {} ->
                     [code |-> 200, body |-> CHOOSE m \in metrics : TRUE]
                [] words[1] # <<"GET">> -> [code |-> 405, body |-> [error |-> "method_not_allowed"]]
                [] OTHER -> [code |-> 404, body |-> [error |-> "not_found"]]}
=============================================================================
