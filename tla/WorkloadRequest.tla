--------------------------- MODULE WorkloadRequest ---------------------------
(***************************************************************************)
(* What the submitter and the CRD schema check of a request for a workload *)
(* (internal/submitter, api/v1alpha1).                                     *)
(*                                                                         *)
(* A name is a record with the fields word and spelling: the word is what  *)
(* is left of it trimmed and in lower case.  A name without a word is      *)
(* spelled "empty" or "blank".                                             *)
(***************************************************************************)
EXTENDS Naturals

CONSTANT Kinds   \* validKinds, the enumeration of WorkloadKind

\* Mutant of ValidateRequest: names are not trimmed before they are tested.
ValidateRequestUntrimmed(req) ==
  /\ req.id.spelling \notin {"empty", "blank"}
  /\ req.tenant.spelling # "empty" /\ req.profile.spelling # "empty"
  /\ req.gpuCount >= 1 /\ req.gpuMemoryMiB >= 0 /\ req.tokens >= 1
  /\ \A seconds \in req.maxRuntimeSeconds : seconds >= 1
  /\ req.kind.word \in Kinds
  /\ req.kind.word \in req.payloads

\* The submitter's Validate.  A kind is looked up trimmed and in lower case,
\* whatever its spelling; the payload of that kind must be there.
\* maxRuntimeSeconds is optional: a set of at most one value.
ValidateRequest(req) ==
  /\ req.id.spelling \notin {"empty", "blank"}
  /\ req.tenant.word # "" /\ req.profile.word # ""
  /\ req.gpuCount >= 1 /\ req.gpuMemoryMiB >= 0 /\ req.tokens >= 1
  /\ \A seconds \in req.maxRuntimeSeconds : seconds >= 1
  /\ req.kind.word \in Kinds
  /\ req.kind.word \in req.payloads

\* The schema of the CRD: minimum lengths and values, the kind spelled as in
\* the enumeration and its payload set, and the fractions, in thousandths,
\* within [0, 1].
SchemaAccepts(req) ==
  /\ req.tenant.spelling # "empty" /\ req.profile.spelling # "empty"
  /\ req.gpuCount >= 1 /\ req.gpuMemoryMiB >= 0 /\ req.tokens >= 1
  /\ \A seconds \in req.maxRuntimeSeconds : seconds >= 1
  /\ req.kind.spelling = "exact" /\ req.kind.word \in Kinds
  /\ req.kind.word \in req.payloads
  /\ \A pct \in {req.overhead} \cup req.jitter : 0 <= pct /\ pct <= 1000
==============================================================================
