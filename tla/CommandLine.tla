---------------------------- MODULE CommandLine -----------------------------
(***************************************************************************)
(* The arguments of the program.  An argument is a record: its text up to  *)
(* a "=", and the value behind it.  Here and in Settings an Option is a    *)
(* set of at most one element, and a result is one too: it is empty where  *)
(* the code returns an error (which one is left out).                      *)
(***************************************************************************)
EXTENDS Naturals, SequencesExt

Commands == {"check", "dry-run", "replay-failed", "compact-state"}

BooleanFlags == {"--create-collection-if-missing", "--enable-semantic"}

ValueFlags ==
  {"--config", "--source-kind", "--dir", "--s3-bucket", "--s3-prefix",
   "--embed-backend", "--embed-url", "--embed-model", "--openai-endpoint",
   "--openai-api-key", "--openai-model", "--qdrant-url", "--collection",
   "--state-path", "--health-addr", "--collection-vector-size",
   "--chunker-strategy", "--size-metric", "--size-max", "--size-min",
   "--size-overlap", "--tokenizer", "--chunker-mode", "--chunker-single",
   "--semantic-provider", "--semantic-percentile", "--retry-max-attempts",
   "--retry-max-queued", "--retry-initial-backoff-ms", "--retry-max-backoff-ms"}

Flags == ValueFlags \cup BooleanFlags

Word(w)      == [flag |-> w, value |-> {}]
Inline(f, v) == [flag |-> f, value |-> {v}]

\* An argument that is taken as a value is taken with its "=".
TextOf(arg) == IF arg.value = {} THEN arg.flag ELSE "a=b"

-----------------------------------------------------------------------------
RawCliArgs == [f \in Flags |-> {}]

\* awaits: the flag whose value is the next argument.
ParseArg(st, arg) ==
  CASE st.result # "open" -> st
    [] st.awaits # {} ->
         [st EXCEPT !.raw = [f \in Flags |-> IF f \in st.awaits THEN {TextOf(arg)} ELSE @[f]],
                    !.awaits = {}]
    [] arg.flag \in {"--help", "-h"} -> [st EXCEPT !.result = "help"]
    [] arg.flag \in {"--version", "-V"} -> [st EXCEPT !.result = "version"]
    [] arg.flag \in BooleanFlags /\ arg.value = {} -> [st EXCEPT !.raw[arg.flag] = {"true"}]
    [] arg.flag \in ValueFlags ->
         IF arg.value = {} THEN [st EXCEPT !.awaits = {arg.flag}]
         ELSE [st EXCEPT !.raw[arg.flag] = arg.value]
    [] OTHER -> [st EXCEPT !.result = "invalid"]

\* A flag at the very end has no value: it unsets what an earlier one has set,
\* but for one flag that insists.  (That a boolean flag is followed by no value
\* is checked a step later here: a word that is no flag is refused anyway.)
parse_raw_cli_args(args) ==
  LET named == args # <<>> /\ args[1].value = {} /\ args[1].flag \in Commands
      rest  == IF named THEN Tail(args) ELSE args
      st    == FoldLeft(ParseArg, [result |-> "open", raw |-> RawCliArgs, awaits |-> {}], rest)
  IN  CASE st.result = "invalid" \/ "--collection-vector-size" \in st.awaits -> {}
        [] st.result # "open" -> {[command |-> st.result, raw |-> RawCliArgs]}
        [] OTHER -> {[command |-> IF named THEN args[1].flag ELSE "run",
                      raw |-> [f \in Flags |-> IF f \in st.awaits THEN {} ELSE st.raw[f]]]}

\* The path main watches for changes is found by a pass of its own, which knows
\* no flag but --config.
extract_config_path(args) ==
  LET PathArg(st, arg) ==
        CASE st.awaits -> [path |-> {TextOf(arg)}, awaits |-> FALSE]
          [] ~st.awaits /\ arg.flag = "--config" -> [path |-> arg.value, awaits |-> arg.value = {}]
          [] OTHER -> st
  IN  FoldLeft(PathArg, [path |-> {}, awaits |-> FALSE], args).path
=============================================================================
