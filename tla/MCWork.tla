------------------------------- MODULE MCWork -------------------------------
(***************************************************************************)
(* More inputs for MCFunctions: attempts at a document in every world,     *)
(* a file that fails again and again while the retry policy is changed,    *)
(* and requests to the health endpoint.                                    *)
(***************************************************************************)
EXTENDS MCConfig, Attempt, HealthEndpoint

-----------------------------------------------------------------------------
(* Attempts.                                                                *)

Chunkings ==
  [chunker_mode : {"router"}, chunker_single : {{}}, enable_semantic : BOOLEAN]
  \cup [chunker_mode : {"single"}, chunker_single : {{"semantic"}}, enable_semantic : {FALSE}]
WorkConfigs ==
  [source : {[kind |-> "filesystem", root |-> "docs"], [kind |-> "s3", bucket |-> "b"]},
   chunking : Chunkings, embed_backend : {[kind |-> "http"], [kind |-> "openai"]}]

DocNames == {<<"a", ".">> \o x : x \in {<<"PDF">>, <<"docx">>, <<"rs">>, <<"md">>, <<>>}}
DocPaths ==
  {<<"/">> \o n : n \in DocNames}
  \cup {canonical_s3_path(<<b>>, n) : b \in {"a", "b"}, n \in {<<"a", ".", "PDF">>, <<"a", ".", "md">>}}
Documents == [path : DocPaths, bytes : {"text", "pdf", "docx", "other"}, sentences : {0, 3}]

Worlds ==
  [read : {"answered", "lost", "panicked"}, signal : {"answered", "short", "lost"},
   embed : {"answered", "short", "lost", "garbled"}, sink : {"answered", "refused"}]
GoodAnswers ==
  [read |-> "answered", signal |-> "answered", embed |-> "answered", sink |-> "answered"]

\* The path is one of this source.
Native(source, path) ==
  IF source.kind = "filesystem" THEN parse_s3_uri(path) = {}
  ELSE \E l \in parse_s3_uri(path) : l.bucket = <<source.bucket>>

PickWork ==
  \E cfg \in WorkConfigs, doc \in Documents : input' = [kind |-> "work", cfg |-> cfg, doc |-> doc]

-----------------------------------------------------------------------------
(* Retries.                                                                 *)

Policies ==
  {p \in [max_attempts : {0, 1, 2, 6}, max_queued : {0, 1}, initial : {0, 1, 2}, max : {0, 1, 5}] :
     RetryValid(p) \/ p.max_attempts # 2}

\* The policy of the start, and one a reload puts in its place after some
\* attempts.
PickPolicies ==
  \E first \in {p \in Policies : RetryValid(p)}, second \in Policies :
    input' = [kind |-> "retry", first |-> first, second |-> second]

-----------------------------------------------------------------------------
(* Requests.                                                                *)

Tails == {<<>>, <<"LF">>, <<"CR", "LF">>, BlankLine, <<"LF">> \o BlankLine,
          <<"CR", "LF", "host">> \o BlankLine, <<"CR", "LF", "host", "CR", "LF", "host">>}
Lines ==
  {<<>>, <<"GET">>, <<"GET", "/health">>, <<" ", "GET", " ", "/health">>, <<"GET", " ", " ", "/health", " ">>}
  \cup {<<m, " ", t>> : m \in {"GET", "POST"}, t \in {"/health", "/metrics", "/"}}

PickRequest ==
  \E line \in Lines, tail \in Tails : input' = [kind |-> "request", bytes |-> line \o tail]

\* All ways to read the bytes.
Splits[n \in 0..12] ==
  IF n = 0 THEN {<<>>}
  ELSE UNION {{Append(s, k) : s \in Splits[n - k]} : k \in 1..Min({n, Buffer})}

Reads(bytes, split) ==
  LET start[i \in DOMAIN split] == IF i = 1 THEN 1 ELSE start[i - 1] + split[i - 1]
  IN  [i \in DOMAIN split |-> SubSeq(bytes, start[i], start[i] + split[i] - 1)]

PickMore == input = NoInput /\ (PickWork \/ PickPolicies \/ PickRequest)

-----------------------------------------------------------------------------
\* An attempt that succeeds leaves one point for every chunk, with the vector
\* of that chunk, and one that fails has sent all of them or none.  If the next
\* attempt meets no trouble, it succeeds or fails for good, so that no document
\* is tried for nothing (unless another source left it in the log); and a
\* document that would succeed is tried again, unless the trouble came up
\* inside the semantic chunker, in the number of vectors or as a panic.
WorkIsJudged ==
  input.kind = "work" =>
    LET Judged(world, r, good) ==
          LET all == {[chunk |-> i, vector |-> i] : i \in Chunks(input.doc)}
          IN  /\ r.sent \in {{}, all}
              /\ r.error = "ok" => r.sent = all /\ good = "ok"
              /\ is_retryable_error_kind(r.error) /\ Native(input.cfg.source, input.doc.path) =>
                   ~is_retryable_error_kind(good)
              /\ good = "ok" /\ r.error # "ok" =>
                   \/ is_retryable_error_kind(r.error)
                   \/ Asks(input.cfg, input.doc) /\ world.signal # "answered"
                   \/ world.embed = "short"
                   \/ world.read = "panicked"
    IN  \A world \in Worlds :
          Judged(world, execute(input.cfg, input.doc, world),
                 execute(input.cfg, input.doc, GoodAnswers).error)

\* A file that fails every time, whatever the policies and whenever one takes
\* the place of the other, reaches the journal after no more attempts than the
\* larger of their bounds.  Its pauses are those of the policy in force: from
\* the initial to the longest one, and never shorter than the one before.
RetriesEnd ==
  input.kind = "retry" =>
    \A error \in {"io", "internal"}, queued \in 0..1, change \in 1..6 :
      LET inforce(n) == IF n < change THEN input.first ELSE replace(input.first, input.second)
          bound   == Max({input.first.max_attempts, inforce(change).max_attempts})
          after   == [n \in 1..bound |-> AfterError(inforce(n), error, n, queued)]
          journal == {n \in 1..bound : after[n].to = "journal"}
      IN  /\ journal # {}
          /\ \A n \in 1..(Min(journal) - 1) :
               /\ inforce(n).initial <= after[n].delay /\ after[n].delay <= inforce(n).max
               /\ n > 1 /\ n # change => after[n - 1].delay <= after[n].delay
          /\ error = "internal" => journal = 1..bound /\ after[1].reason = "non_retryable"

\* Three parts of the program ask for the extension of a document: the loader
\* for a PDF, the router for a chunker, a filter of the vector store for the
\* field of the points.  They agree on every document with a name of its own
\* that does not start with a dot; and where the router sees an extension at
\* all, the points carry it.  An S3 document is fetched by the key it was
\* listed under.
ExtensionsAgree ==
  input.kind = "path" =>
    LET path    == input.path
        payload == file_extension_from_canonical_path(path)
        name    == Behind(path, {"/"})
    IN  /\ hint_extension(path) \subseteq {payload}
        /\ "\\" \notin ToSet(path) /\ name # <<>> /\ name[1] # "." =>
             /\ Path_extension(path) = hint_extension(path)
             /\ payload = (IF hint_extension(path) = {} THEN <<>> ELSE CHOOSE x \in hint_extension(path) : TRUE)
        /\ \A bucket \in {<<"a">>, <<"a", ".", "b">>} :
             parse_s3_uri(canonical_s3_path(bucket, path)) = {[bucket |-> bucket, key |-> path]}

\* The endpoint answers every complete request, and as the request line says,
\* into whatever reads the network splits it; it says 200 to a probe only while
\* the daemon is ready, and gives no answer to half a header.
AnswerIgnoresPackets ==
  input.kind = "request" =>
    LET bytes == input.bytes
    IN  \A status \in {"starting", "ready"}, metrics \in {{}, {[lines |-> 1]}} :
          LET state  == [status |-> status, reason |-> "none"]
              answer == handle_connection([i \in DOMAIN bytes |-> <<bytes[i]>>], state, metrics)
          IN  /\ (\E a \in answer : a.code = 200 /\ a.body \notin metrics) => status = "ready"
              /\ answer = {} <=> BlankLine \notin SubSeqs(bytes) /\ Len(bytes) < Limit
              /\ \A split \in Splits[Len(bytes)] :
                   handle_connection(Reads(bytes, split), state, metrics) = answer
=============================================================================
