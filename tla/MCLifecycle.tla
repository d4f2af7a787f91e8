----------------------------- MODULE MCLifecycle -----------------------------
(* A small instance of Lifecycle: two attempts are asked for by a flag, the   *)
(* room for retries is in the file.                                           *)
EXTENDS Lifecycle

Content(rest, attempts, queued) ==
  [rest |-> rest,
   retry |-> [max_attempts |-> attempts, max_queued_retries |-> queued,
              initial_backoff |-> 1, max_backoff |-> 2]]

\* Two policies under the same settings, one that is valid by itself but not
\* together with the flag, other settings, and a file that does not parse.
SmallContents == {Content("a", 3, 1), Content("a", 3, 2), Content("a", 1, 0),
                  Content("b", 3, 2), Content("broken", 3, 1)}

PinnedAttempts == [max_attempts |-> 2]
=============================================================================
