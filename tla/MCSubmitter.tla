---------------------------- MODULE MCSubmitter ----------------------------
(* Messages for the submitter: requests that can be used, ways in which one *)
(* cannot, and a request whose object is refused.                           *)
EXTENDS Submitter

Name(word) == [word |-> word, spelling |-> "exact"]

Valid(word) ==
  [json |-> TRUE, id |-> Name(word), tenant |-> Name("t"),
   profile |-> Name("p"), gpuCount |-> 1, gpuMemoryMiB |-> 0, tokens |-> 1,
   maxRuntimeSeconds |-> {60}, kind |-> Name("training"),
   payloads |-> {"training"}, overhead |-> 0, jitter |-> {}]

Usual ==
  {Valid("x"), Valid("y"), Valid(""),
   [Valid("x") EXCEPT !.gpuCount = 2],
   [Valid("x") EXCEPT !.json = FALSE],
   [Valid("x") EXCEPT !.maxRuntimeSeconds = {0}],
   [Valid("y") EXCEPT !.payloads = {"eval"}]}

\* The API server refuses the second one.
UsualOrRefused == Usual \cup {[Valid("y") EXCEPT !.kind.spelling = "cased"]}
============================================================================
